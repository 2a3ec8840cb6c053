-------------------------------- MODULE Aicu --------------------------------
(***************************************************************************)
(* aicu_device: an interrupt controller with edge-sensitive inputs.  Each  *)
(* of the O outputs has L inputs of its own and shares the G global ones;  *)
(* irq_update_thread collects edges in m_stat, and software reads which    *)
(* interrupt is current, masks, clears and acknowledges.                   *)
(*                                                                         *)
(* Masks are sets of input numbers.  The handler addresses are left out:   *)
(* a read of AICU_ADDR delivers the interrupt whose handler it returns.    *)
(* Inputs keep the edge of a delta cycle visible until it ends.            *)
(***************************************************************************)
EXTENDS Naturals, FiniteSets

CONSTANTS
    O,      \* outputs
    G,      \* global inputs
    L       \* local inputs of each output

ASSUME AicuAssumption ==
    /\ O \in Nat \ {0} /\ G \in Nat /\ L \in Nat
    /\ G + L <= 32                          \* checked by the constructor

Outputs == 0 .. O - 1
Irqs == 0 .. L + G - 1                      \* interrupt numbers of one output
Ports == 0 .. G + L * O - 1                 \* irq_in

VARIABLES
    port,       \* the inputs that are high
    edge,       \* the inputs with an edge in this delta cycle
    due,        \* irq_update_thread is ready to run
    control,    \* the S bit of m_control
    stat,       \* m_stat
    mask,       \* m_mask
    crt,        \* m_crt_irq
    out,        \* irq_out
    stale,      \* outputs not recomputed since reset_registers
    owed        \* interrupts raised and neither lowered, delivered nor cleared

hardware == <<port, edge>>
registers == <<control, stat, mask, crt>>
vars == <<port, edge, due, control, stat, mask, crt, out, stale, owed>>

Init == /\ port = {} /\ edge = {} /\ due = FALSE
        /\ control = FALSE
        /\ stat = [o \in Outputs |-> {}]
        /\ mask = [o \in Outputs |-> {}]
        /\ crt = [o \in Outputs |-> 0]
        /\ out = [o \in Outputs |-> FALSE]
        /\ stale = {}
        /\ owed = [o \in Outputs |-> {}]

\* The input that interrupt j of output o is wired to.
Wire(o, j) == IF j < L THEN O * j + o ELSE O * L + (j - L)

Up(o) == {j \in Irqs : Wire(o, j) \in edge \cap port}
Down(o) == {j \in Irqs : Wire(o, j) \in edge \ port}

Pending(o) == stat[o] \cap mask[o]
\* The scan for the current interrupt without its break.
Lowest_NoBreak(S) == CHOOSE j \in S : \A k \in S : j >= k
Lowest(S) == CHOOSE j \in S : \A k \in S : j <= k
-----------------------------------------------------------------------------
\* A delta cycle ends and the inputs in S change.
UpdatePorts(S) ==
    /\ ~due
    /\ S # {} \/ edge # {}
    /\ port' = (port \ S) \cup (S \ port)
    /\ edge' = S
    /\ due' = (S # {})
    /\ owed' = [o \in Outputs |->
         LET rises == {j \in Irqs : Wire(o, j) \in S \ port}
             falls == {j \in Irqs : Wire(o, j) \in S \cap port}
         IN  IF control THEN (owed[o] \cup rises) \ falls ELSE owed[o]]
    /\ UNCHANGED <<registers, out, stale>>

\* irq_update_thread that stops at the first edge it finds.
Collect_FirstEdge(o) ==
    (stat[o] \cup (IF Up(o) = {} THEN {} ELSE {Lowest(Up(o))})) \ Down(o)

\* The status of output o after the scan of its inputs.
Collect(o) == (stat[o] \cup Up(o)) \ Down(o)

IrqUpdateThread ==
    /\ due
    /\ due' = FALSE
    /\ IF control
         THEN /\ stat' = [o \in Outputs |-> Collect(o)]
              /\ crt' = [o \in Outputs |->
                   LET pending == stat'[o] \cap mask[o]
                   IN  IF pending = {} THEN crt[o] ELSE Lowest(pending)]
              /\ out' = [o \in Outputs |-> stat'[o] \cap mask[o] # {}]
              /\ stale' = {}
         ELSE UNCHANGED <<stat, crt, out, stale>>
    /\ UNCHANGED <<hardware, control, mask, owed>>

\* AICU_CTRL: a change of the S bit resets the registers; the outputs are
\* left as they are.
WriteCtrl(s) ==
    /\ control' = s
    /\ IF s # control
         THEN /\ stat' = [o \in Outputs |-> {}]
              /\ mask' = [o \in Outputs |-> {}]
              /\ crt' = [o \in Outputs |-> 0]
              /\ stale' = Outputs
              /\ owed' = [o \in Outputs |-> {}]
         ELSE UNCHANGED <<stat, mask, crt, stale, owed>>
    /\ UNCHANGED <<hardware, due, out>>

\* AICU_STAT: software clears interrupts.
WriteStat(o, val) ==
    /\ stat' = [stat EXCEPT ![o] = @ \ val]
    /\ due' = TRUE
    /\ owed' = [owed EXCEPT ![o] = @ \ val]
    /\ UNCHANGED <<hardware, control, mask, crt, out, stale>>

\* AICU_MASK that does not wake irq_update_thread.
WriteMask_Silent(o, val) ==
    /\ mask' = [mask EXCEPT ![o] = val]
    /\ UNCHANGED <<hardware, due, control, stat, crt, out, stale, owed>>

\* AICU_MASK.
WriteMask(o, val) ==
    /\ mask' = [mask EXCEPT ![o] = val]
    /\ due' = TRUE
    /\ UNCHANGED <<hardware, control, stat, crt, out, stale, owed>>

\* AICU_ADDR: the current interrupt is delivered and its status cleared.
ReadAddr(o) ==
    /\ stat' = [stat EXCEPT ![o] = @ \ {crt[o]}]
    /\ due' = TRUE
    /\ owed' = [owed EXCEPT ![o] = @ \ {crt[o]}]
    /\ UNCHANGED <<hardware, control, mask, crt, out, stale>>

Access == \/ \E s \in BOOLEAN : WriteCtrl(s)
          \/ \E o \in Outputs : \/ \E val \in SUBSET Irqs : WriteStat(o, val) \/ WriteMask(o, val)
                                \/ ReadAddr(o)

Next == \/ \E S \in SUBSET Ports : UpdatePorts(S)
        \/ IrqUpdateThread
        \/ Access

Spec == Init /\ [][Next]_vars

\* A notified thread runs before time advances.
FairSpec == Spec /\ WF_vars(IrqUpdateThread)
-----------------------------------------------------------------------------
TypeOK ==
    /\ port \subseteq Ports /\ edge \subseteq Ports
    /\ due \in BOOLEAN /\ control \in BOOLEAN
    /\ stat \in [Outputs -> SUBSET Irqs]
    /\ mask \in [Outputs -> SUBSET Irqs]
    /\ crt \in [Outputs -> 0 .. 31]
    /\ out \in [Outputs -> BOOLEAN]
    /\ stale \subseteq Outputs
    /\ owed \in [Outputs -> SUBSET Irqs]

(* Whenever irq_update_thread is at rest, an output is high exactly while  *)
(* one of its interrupts is pending and not masked, and the interrupt that *)
(* AICU_ADDR would deliver is the first of them, whatever registers were   *)
(* written since.  reset_registers is the exception: it forgets the status *)
(* and leaves the outputs until the thread runs again.                     *)
CurrentIsPending ==
    ~due => \A o \in Outputs \ stale :
      /\ out[o] <=> Pending(o) # {}
      /\ out[o] => crt[o] \in Pending(o) /\ \A k \in Pending(o) : crt[o] <= k

(* No edge is lost: an interrupt that rose while the controller was on is  *)
(* kept until it falls, is delivered or is cleared by software, although   *)
(* several inputs may change in one delta cycle and be acknowledged before *)
(* the thread has run.                                                     *)
NoEdgeLost == ~due => \A o \in Outputs : owed[o] \subseteq stat[o]

(* An interrupt that stays pending and enabled reaches the output, unless  *)
(* the controller is turned off.                                           *)
PendingIsSignalled ==
    \A o \in Outputs : (control /\ Pending(o) # {}) ~> (out[o] \/ ~control \/ Pending(o) = {})
=============================================================================
