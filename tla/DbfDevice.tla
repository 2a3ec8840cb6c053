------------------------------ MODULE DbfDevice ------------------------------
(***************************************************************************)
(* The deblocking filter: its slice threads, the thread that copies the    *)
(* frame to memory, and the interrupt computed from what they finish and   *)
(* what software enables and acknowledges (dbf_device.cpp).  A register is *)
(* accessed in one step of request(), between two waits of it.             *)
(*                                                                         *)
(* REG_INT_STATUS and REG_INT_ENABLE are sets of bits: a slice, "all"      *)
(* (REG_STATUS_BIT_ALLSLICES), "sram" (REG_STATUS_BIT_SRAM), and in the    *)
(* status "gen", bit 7.  What a slice does to the image is in DbfImage.    *)
(***************************************************************************)
EXTENDS Naturals, FiniteSets

CONSTANT Slices         \* the slice threads, N_SLICE_THREADS of them

ASSUME SlicesAssumption ==
    /\ IsFiniteSet(Slices) /\ Slices # {}
    /\ Slices \cap {"all", "sram", "gen"} = {}

Bits == Slices \cup {"all", "sram"}

VARIABLES
    intStatus, intEnable,   \* REG_INT_STATUS, REG_INT_ENABLE
    nslicesIntr,            \* REG_NSLICES_INTR
    emptied,                \* slices whose REG_SLI_EMPLOW/HI are not 0
    irqStat,                \* m_irq_stat
    irqUpdate,              \* m_ev_irqupdate was notified
    irq,                    \* the output
    sliceEv, sliceTh,       \* m_ev_slice notified; what process_slice does
    copyEv, copyTh          \* m_ev_send_sram notified; what master_request does

intRegs == <<intStatus, intEnable, irqStat, irqUpdate>>
work == <<nslicesIntr, emptied, sliceEv, sliceTh, copyEv, copyTh>>
dbfVars == <<intRegs, irq, work>>

DbfInit ==
    /\ intStatus = {} /\ intEnable = {}
    /\ nslicesIntr = 0
    /\ emptied = {}
    /\ irqStat = FALSE /\ irqUpdate = FALSE /\ irq = FALSE
    /\ sliceEv = {} /\ sliceTh = [s \in Slices |-> "waiting"]
    /\ copyEv = FALSE /\ copyTh = "waiting"
-----------------------------------------------------------------------------
(* set_data: the registers software writes.                                *)

\* REG_INT_ENABLE.
WriteIntEnable(data) ==
    LET was == intStatus \cap intEnable # {}
        is  == intStatus \cap data # {}
    IN  /\ irqStat' = IF was = is THEN irqStat ELSE is
        /\ irqUpdate' = (irqUpdate \/ was # is)
        /\ intEnable' = data
        /\ UNCHANGED <<intStatus, irq, work>>

WriteIntAck_DropsGen(data) ==
    LET left == intStatus \ data
        low  == left \cap intEnable = {}
    IN  IF data \cap intStatus \cap intEnable = {}
        THEN UNCHANGED dbfVars
        ELSE /\ intStatus' = left \ {"gen"}
             /\ irqStat' = (irqStat /\ ~low)
             /\ irqUpdate' = (irqUpdate \/ low)
             /\ UNCHANGED <<intEnable, irq, work>>

\* REG_INT_ACK.  A write with no bit that is up and enabled does nothing.
WriteIntAck(data) ==
    IF data \cap intStatus \cap intEnable = {}
    THEN UNCHANGED dbfVars
    ELSE LET left == intStatus \ data
             kept == IF left = {"gen"} THEN {} ELSE left
             low  == kept \cap intEnable = {}
         IN  /\ intStatus' = kept
             /\ irqStat' = (irqStat /\ ~low)
             /\ irqUpdate' = (irqUpdate \/ low)
             /\ UNCHANGED <<intEnable, irq, work>>

\* Mutant: the counters keep what the last frame left.
WriteNslices_Keeps(n) ==
    /\ nslicesIntr' = n
    /\ UNCHANGED <<intRegs, irq, emptied, sliceEv, sliceTh, copyEv, copyTh>>

\* Plain registers: REG_NSLICES_INTR, and the counters, which software clears.
WriteNslices(n) ==
    /\ nslicesIntr' = n /\ emptied' = {}
    /\ UNCHANGED <<intRegs, irq, sliceEv, sliceTh, copyEv, copyTh>>

\* REG_SLI_FILLOW.
FillSlice(s) ==
    /\ sliceEv' = sliceEv \cup {s}
    /\ UNCHANGED <<intRegs, irq, nslicesIntr, emptied, sliceTh, copyEv, copyTh>>

\* REG_FRA_SRAM.
SendSram ==
    /\ copyEv' = TRUE
    /\ UNCHANGED <<intRegs, irq, nslicesIntr, emptied, sliceEv, sliceTh, copyTh>>
-----------------------------------------------------------------------------
(* The threads.                                                            *)

\* A bit of the status is set, and the interrupt generated if one is enabled.
Raise(bits) ==
    LET up == (intStatus \cup bits) \cap intEnable # {}
    IN  /\ intStatus' = intStatus \cup bits \cup (IF up THEN {"gen"} ELSE {})
        /\ irqStat' = (irqStat \/ up)
        /\ irqUpdate' = (irqUpdate \/ up)
        /\ UNCHANGED <<intEnable, irq>>

\* The end of the delta cycle: notify (0, SC_NS) wakes the thread that waits, and
\* is forgotten by one that is still busy.  filter_slice runs to its wait.
TakeSlice(s) ==
    /\ s \in sliceEv
    /\ sliceEv' = sliceEv \ {s}
    /\ sliceTh' = [sliceTh EXCEPT ![s] = "filtering"]
    /\ UNCHANGED <<intRegs, irq, nslicesIntr, emptied, copyEv, copyTh>>

\* The end of filter_slice (wait (15, SC_MS)) and the rest of process_slice.
EndSlice(s) ==
    /\ sliceTh[s] = "filtering"
    /\ sliceTh' = [sliceTh EXCEPT ![s] = "waiting"]
    /\ emptied' = emptied \cup {s}
    /\ Raise({s} \cup (IF Cardinality(emptied') >= nslicesIntr THEN {"all"} ELSE {}))
    /\ UNCHANGED <<nslicesIntr, sliceEv, copyEv, copyTh>>

TakeCopy ==
    /\ copyEv
    /\ copyEv' = FALSE /\ copyTh' = "copying"
    /\ UNCHANGED <<intRegs, irq, nslicesIntr, emptied, sliceEv, sliceTh>>

\* The frame has been sent, packet by packet.
EndCopy ==
    /\ copyTh = "copying"
    /\ copyTh' = "waiting"
    /\ Raise({"sram"})
    /\ UNCHANGED <<nslicesIntr, emptied, sliceEv, sliceTh, copyEv>>

\* irq_update_thread, which always waits.
IrqUpdate ==
    /\ irqUpdate
    /\ irqUpdate' = FALSE /\ irq' = irqStat
    /\ UNCHANGED <<intStatus, intEnable, irqStat, work>>

Threads == \/ \E s \in Slices : TakeSlice(s) \/ EndSlice(s)
           \/ TakeCopy \/ EndCopy \/ IrqUpdate
==============================================================================
