------------------------------ MODULE MCMemory ------------------------------
(* "device": accesses to one memory device; "map": accesses of a processor to the  *)
(* memories of a platform; "exclusive" and "mailbox": two ways CPUs keep out of    *)
(* each other's way.  One word of four different bytes, none of them zero, so that *)
(* a byte in the wrong place is seen.                                              *)
EXTENDS MemDevice, AddressMap, ExclusiveMonitor, Mailbox

VARIABLE part

mcVars == <<part, vars, mapVars, monitorVars, mailVars>>

MCWord == {[i \in 0 .. 3 |-> i + 1]}

\* The devices, maps, lists and mailboxes that do not move.
MCInit == /\ part \in {"device", "map", "exclusive", "mailbox"}
          /\ Init /\ MapInit /\ MonitorInit /\ MailInit
          /\ part # "device" => ~sram
          /\ part # "map" => table = Roger
          /\ part # "exclusive" => /\ platform = "roger"
                                   /\ \A c \in Cpus : cpu[c].word = CHOOSE w \in Words : TRUE
          /\ part # "mailbox" => \A s \in Senders : to[s] = CHOOSE b \in Boxes : TRUE

MCNext == \/ part = "device" /\ Next /\ UNCHANGED <<part, mapVars, monitorVars, mailVars>>
          \/ part = "map" /\ MapNext /\ UNCHANGED <<part, vars, monitorVars, mailVars>>
          \/ part = "exclusive" /\ MonitorNext /\ UNCHANGED <<part, vars, mapVars, mailVars>>
          \/ part = "mailbox" /\ MailNext /\ UNCHANGED <<part, vars, mapVars, monitorVars>>

MCSpec == MCInit /\ [][MCNext]_mcVars
============================================================================
