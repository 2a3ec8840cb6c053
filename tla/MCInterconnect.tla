--------------------------- MODULE MCInterconnect ---------------------------
(***************************************************************************)
(* "bus": the path of the accesses, over queues that are fifos; "queue":   *)
(* the ring buffer each of them is.                                        *)
(***************************************************************************)
EXTENDS NocTransport, MwsrFifo

VARIABLE part

MCSlaveOf(a) == IF a = "io" THEN "dev" ELSE "ram"
OneSlave(a) == "ram"     \* for the run on the size of the pool

MCInit == part \in {"bus", "queue"} /\ Init /\ FifoInit

MCNext == \/ part = "bus" /\ Next /\ UNCHANGED <<part, ringVars>>
          \/ part = "queue" /\ FifoNext /\ UNCHANGED <<part, vars>>

\* The threads of the part that runs.
MCSpec == /\ MCInit /\ [][MCNext]_<<part, vars, ringVars>>
          /\ part = "bus" => Fairness
          /\ part = "queue" => FifoFairness

\* The path alone.
BusInit == MCInit /\ part = "bus"
BusSpec == BusInit /\ [][Next /\ UNCHANGED <<part, ringVars>>]_<<part, vars, ringVars>>
=============================================================================
