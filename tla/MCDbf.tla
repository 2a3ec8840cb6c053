------------------------------- MODULE MCDbf -------------------------------
(* The deblocking filter: its driver and interrupt, the order of its work  *)
(* on the picture, its arithmetic and its ports.  They share no state, and *)
(* are checked side by side: `part' says which of them moves.              *)
EXTENDS DbfDriver, DbfImage, DbfFilter, DbfPorts

VARIABLE part

mcVars == <<part, driverVars, imageVars, filterVars, portVars>>

\* Sides with a soft edge near the ends of the scale, flat ones and noisy ones.
MCRows == {[i \in 0 .. 3 |-> r[i + 1]] :
             r \in {<<255, 255, 255, 255>>, <<0, 0, 0, 0>>, <<255, 250, 246, 255>>,
                    <<0, 3, 9, 0>>, <<5, 1, 0, 8>>, <<250, 255, 252, 255>>}}
\* An intra block, one with coefficients, and two that moved, one of them backwards.
Block(m, c, x) == [mode |-> m, coeff |-> c, mvx |-> x, mvy |-> <<0, 0>>]
MCBlocks == {Block(6, 0, <<0, 0>>), Block(0, 3, <<0, 0>>), Block(0, 0, <<2, 0>>),
             Block(0, 0, <<253, 255>>)}
MCMasks == {4 .. 7, 2 .. 3}

MCInit ==
    /\ part \in {"driver", "image", "filter", "ports"}
    /\ DriverInit /\ DbfImageInit /\ FilterInit /\ PortsInit
    /\ part # "driver" => ~smp /\ ~sleeps
    /\ part # "image" => sliceRegs = CHOOSE r \in Partitions : TRUE
    /\ part # "filter" => p = q /\ p = CHOOSE r \in Rows : TRUE

MCNext ==
    \/ part = "driver" /\ DriverNext /\ UNCHANGED <<part, imageVars, filterVars, portVars>>
    \/ part = "image" /\ DbfImageNext /\ UNCHANGED <<part, driverVars, filterVars, portVars>>
    \/ part = "filter" /\ FilterNext /\ UNCHANGED <<part, driverVars, imageVars, portVars>>
    \/ part = "ports" /\ PortsNext /\ UNCHANGED <<part, driverVars, imageVars, filterVars>>

\* The fairness excludes no behaviour but of the driver's part that is not fair: in
\* the others the driver does not start, and nothing is asked of it.
MCSpec == MCInit /\ [][MCNext]_mcVars /\ (part = "driver" => DriverFairness)
=============================================================================
