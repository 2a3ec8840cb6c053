------------------------------ MODULE DbfDriver ------------------------------
(***************************************************************************)
(* h264dbf, the Linux driver of the deblocking filter, over DbfDevice: the *)
(* interrupt handler and two processes.  Process 0 filters frames and      *)
(* waits for "all", process 1 has frames copied and waits for "sram"; each *)
(* uses the descriptor with its number.                                    *)
(*                                                                         *)
(* The handler looks at descriptors 0 .. nb_irq_en - 1, so process 1       *)
(* registers after process 0 and unregisters before it; that they never do *)
(* both at once also keeps them from the unlocked update of REG_INT_ENABLE *)
(* in h264dbf_int_unregister.  With one CPU the handler runs between two   *)
(* steps of a process and not where irq_lock is held, and one process at a *)
(* time is inside the driver; with several all of them run side by side.   *)
(***************************************************************************)
EXTENDS DbfDevice, Integers

CONSTANT Killed     \* a process may be killed while it and others are at work

VARIABLES
    smp,            \* there are several CPUs
    sleeps,         \* the processes wait with a timeout, otherwise they poll
    pc, val, got,   \* of each process: where it is, and its locals
    owed,           \* of each process: its job is not reported yet
    todo,           \* slices of the frame that are not filled yet
    isr, isrStatus, \* where h264dbf_int_service is, and the status it read
    irqEn, nbIrqEn, \* irq_en, nb_irq_en
    type, pending, overflow     \* of each descriptor

Procs == {0, 1}     \* H264DBF_MAXIRQ
Type(p) == IF p = 0 THEN {"all"} ELSE {"sram"}

procs == <<pc, val, got, owed, todo>>
driver == <<irqEn, nbIrqEn, type, pending, overflow>>
driverVars == <<dbfVars, smp, sleeps, procs, isr, isrStatus, driver>>

DriverInit ==
    /\ DbfInit
    /\ smp \in BOOLEAN /\ sleeps \in BOOLEAN
    /\ pc = [p \in Procs |-> "idle"] /\ val = [p \in Procs |-> {}]
    /\ got = [p \in Procs |-> {}] /\ owed = [p \in Procs |-> FALSE]
    /\ todo = {}
    /\ isr = "idle" /\ isrStatus = {}
    /\ irqEn = FALSE /\ nbIrqEn = 0
    /\ type = [p \in Procs |-> {}] /\ pending = [p \in Procs |-> {}]
    /\ overflow = FALSE

Locked(p) == pc[p] \in {"cleared", "enabling", "clearing"}
InDriver(p) == Locked(p) \/ pc[p] \in {"disabling", "removing", "freeing", "falling asleep"}

At(p, l) == pc[p] = l /\ (smp \/ (isr = "idle" /\ \A q \in Procs \ {p} : ~InDriver(q)))
Lock(p) == \A q \in Procs \ {p} : ~Locked(q)
Goto(p, l) == pc' = [pc EXCEPT ![p] = l]
-----------------------------------------------------------------------------
(* h264dbf_int_register, with irq_lock held.                               *)

\* h264dbf_int_enable: it acknowledges everything and installs the handler.
Register(p) ==
    /\ At(p, "idle") /\ Lock(p)
    /\ p = 1 => pc[0] \in {"registered", "falling asleep", "asleep", "collecting", "clearing"}
    /\ IF irqEn
       THEN UNCHANGED <<dbfVars, irqEn, type, pending, overflow>>
       ELSE /\ WriteIntAck(Bits)
            /\ irqEn' = TRUE
            /\ type' = [d \in Procs |-> {}] /\ pending' = [d \in Procs |-> {}]
            /\ overflow' = FALSE
    /\ nbIrqEn' = nbIrqEn + 1
    /\ Goto(p, "cleared")
    /\ UNCHANGED <<smp, sleeps, val, got, owed, todo, isr, isrStatus>>

\* The descriptor, and the read of REG_INT_ENABLE ...
Describe(p) ==
    /\ At(p, "cleared")
    /\ type' = [type EXCEPT ![p] = Type(p)]
    /\ val' = [val EXCEPT ![p] = intEnable]
    /\ Goto(p, "enabling")
    /\ UNCHANGED <<dbfVars, smp, sleeps, got, owed, todo, isr, isrStatus,
                   irqEn, nbIrqEn, pending, overflow>>

\* ... which is written back with the bit.
Enable(p) ==
    /\ At(p, "enabling")
    /\ WriteIntEnable(val[p] \cup Type(p))
    /\ Goto(p, "registered")
    /\ UNCHANGED <<smp, sleeps, val, got, owed, todo, isr, isrStatus, driver>>
-----------------------------------------------------------------------------
(* h264dbf_int_unregister: REG_INT_ENABLE is read and written without      *)
(* irq_lock.                                                               *)
Unregister(p) ==
    /\ At(p, "registered") /\ ~owed[p]
    /\ p = 0 => pc[1] = "idle"
    /\ val' = [val EXCEPT ![p] = intEnable]
    /\ Goto(p, "disabling")
    /\ UNCHANGED <<dbfVars, smp, sleeps, got, owed, todo, isr, isrStatus, driver>>

Disable(p) ==
    /\ At(p, "disabling")
    /\ WriteIntEnable(val[p] \ type[p])
    /\ Goto(p, "removing")
    /\ UNCHANGED <<smp, sleeps, val, got, owed, todo, isr, isrStatus, driver>>

Remove(p) ==
    /\ At(p, "removing") /\ Lock(p)
    /\ type' = [type EXCEPT ![p] = {}]
    /\ Goto(p, "freeing")
    /\ UNCHANGED <<dbfVars, smp, sleeps, val, got, owed, todo, isr, isrStatus,
                   irqEn, nbIrqEn, pending, overflow>>

\* h264dbf_int_disable: the last one disables the device; free_irq waits for the
\* handler.
Free(p) ==
    /\ At(p, "freeing")
    /\ nbIrqEn' = nbIrqEn - 1
    /\ IF nbIrqEn' = 0
       THEN isr = "idle" /\ WriteIntEnable({}) /\ irqEn' = FALSE
       ELSE UNCHANGED <<dbfVars, irqEn>>
    /\ Goto(p, "idle")
    /\ UNCHANGED <<smp, sleeps, val, got, owed, todo, isr, isrStatus,
                   type, pending, overflow>>

\* The file is closed, by a process that is killed if Killed: h264dbf_chr_release
\* calls h264dbf_int_cleanup, which does the same for the descriptors of everybody.
Release(p) ==
    /\ Killed \/ (~owed[p] /\ \A q \in Procs \ {p} : pc[q] = "idle")
    /\ At(p, "registered") /\ Lock(p) /\ isr = "idle"
    /\ type' = [d \in Procs |-> IF d < nbIrqEn THEN {} ELSE type[d]]
    /\ IF nbIrqEn > 0
       THEN WriteIntEnable({}) /\ irqEn' = FALSE /\ nbIrqEn' = 0
       ELSE UNCHANGED <<dbfVars, irqEn, nbIrqEn>>
    /\ Goto(p, "idle")
    /\ owed' = [owed EXCEPT ![p] = FALSE]
    /\ todo' = IF p = 0 THEN {} ELSE todo
    /\ UNCHANGED <<smp, sleeps, val, got, isr, isrStatus, pending, overflow>>
-----------------------------------------------------------------------------
(* The jobs: H264DBF_IOCS_SET_NSLICES_INTR and the slices, and the copy.   *)
StartFrame ==
    /\ At(0, "registered") /\ ~owed[0]
    /\ WriteNslices(Cardinality(Slices))
    /\ owed' = [owed EXCEPT ![0] = TRUE] /\ todo' = Slices
    /\ UNCHANGED <<smp, sleeps, pc, val, got, isr, isrStatus, driver>>

Fill(s) ==
    /\ At(0, "registered") /\ s \in todo
    /\ FillSlice(s)
    /\ todo' = todo \ {s}
    /\ UNCHANGED <<smp, sleeps, pc, val, got, owed, isr, isrStatus, driver>>

StartCopy ==
    /\ At(1, "registered") /\ ~owed[1]
    /\ SendSram
    /\ owed' = [owed EXCEPT ![1] = TRUE]
    /\ UNCHANGED <<smp, sleeps, pc, val, got, todo, isr, isrStatus, driver>>
-----------------------------------------------------------------------------
(* h264dbf_int_wait.                                                       *)

\* The test of wait_time and pending.
Wait(p) ==
    /\ At(p, "registered") /\ owed[p] /\ (p = 0 => todo = {})
    /\ Goto(p, IF sleeps /\ pending[p] \cap Type(p) = {} THEN "falling asleep"
                                                         ELSE "collecting")
    /\ UNCHANGED <<dbfVars, smp, sleeps, val, got, owed, todo, isr, isrStatus, driver>>

\* prepare_to_wait and schedule.
Sleep(p) ==
    /\ At(p, "falling asleep")
    /\ Goto(p, "asleep")
    /\ UNCHANGED <<dbfVars, smp, sleeps, val, got, owed, todo, isr, isrStatus, driver>>

\* The critical section: the descriptor is read ...
Collect(p) ==
    /\ At(p, "collecting") /\ Lock(p)
    /\ got' = [got EXCEPT ![p] = pending[p]]
    /\ Goto(p, "clearing")
    /\ UNCHANGED <<dbfVars, smp, sleeps, val, owed, todo, isr, isrStatus, driver>>

\* ... and cleared.
Return(p) ==
    /\ At(p, "clearing")
    /\ pending' = [pending EXCEPT ![p] = {}]
    /\ owed' = [owed EXCEPT ![p] = got[p] = {}]
    /\ got' = [got EXCEPT ![p] = {}]
    /\ Goto(p, "registered")
    /\ UNCHANGED <<dbfVars, smp, sleeps, val, todo, isr, isrStatus,
                   irqEn, nbIrqEn, type, overflow>>
-----------------------------------------------------------------------------
(* h264dbf_int_service.                                                    *)

\* A status up to 0x80 is taken for no interrupt and left alone.
ReadStatus ==
    /\ irq /\ irqEn /\ isr = "idle"
    /\ smp \/ \A p \in Procs : ~Locked(p)
    /\ "gen" \in intStatus /\ intStatus # {"gen"}
    /\ isr' = "read" /\ isrStatus' = intStatus \ {"gen"}
    /\ UNCHANGED <<dbfVars, smp, sleeps, procs, driver>>

\* A handler that acknowledges what is pending now, not what it read.
Ack_All ==
    /\ isr = "read"
    /\ WriteIntAck(Bits)
    /\ isr' = "acked"
    /\ UNCHANGED <<smp, sleeps, procs, isrStatus, driver>>

Ack ==
    /\ isr = "read"
    /\ WriteIntAck(isrStatus)
    /\ isr' = "acked"
    /\ UNCHANGED <<smp, sleeps, procs, isrStatus, driver>>

\* The loop over the descriptors.
Wake ==
    /\ isr = "acked"
    /\ LET stat == [d \in Procs |-> IF d < nbIrqEn THEN isrStatus \cap type[d] ELSE {}]
       IN  /\ overflow' = (overflow \/ \E d \in Procs : stat[d] \cap pending[d] # {})
           /\ pending' = [d \in Procs |-> pending[d] \cup stat[d]]
           /\ pc' = [p \in Procs |-> IF pc[p] = "asleep" /\ stat[p] # {}
                                     THEN "collecting" ELSE pc[p]]
    /\ isr' = "idle" /\ isrStatus' = {}
    /\ UNCHANGED <<dbfVars, smp, sleeps, val, got, owed, todo, irqEn, nbIrqEn, type>>
-----------------------------------------------------------------------------
Process(p) == \/ Register(p) \/ Describe(p) \/ Enable(p)
              \/ Unregister(p) \/ Disable(p) \/ Remove(p) \/ Free(p) \/ Release(p)
              \/ Wait(p) \/ Sleep(p) \/ Collect(p) \/ Return(p)
              \/ p = 0 /\ (StartFrame \/ \E s \in Slices : Fill(s))
              \/ p = 1 /\ StartCopy

Device == Threads /\ UNCHANGED <<smp, sleeps, procs, isr, isrStatus, driver>>

DriverNext == \/ \E p \in Procs : Process(p)
              \/ ReadStatus \/ Ack \/ Wake
              \/ Device

DriverSpec == DriverInit /\ [][DriverNext]_driverVars

\* The kernel runs each process (they take turns inside the driver) and the
\* handler; SystemC runs the threads of the device.
DriverFairness ==
    /\ \A p \in Procs : SF_driverVars(Process(p))
    /\ SF_driverVars(ReadStatus) /\ WF_driverVars(Ack) /\ WF_driverVars(Wake)
    /\ \A s \in Slices : /\ WF_driverVars(TakeSlice(s) /\ Device)
                         /\ WF_driverVars(EndSlice(s) /\ Device)
    /\ WF_driverVars((TakeCopy \/ EndCopy) /\ Device)
    /\ WF_driverVars(IrqUpdate /\ Device)

DriverFairSpec == DriverSpec /\ DriverFairness
-----------------------------------------------------------------------------
(* What a process finds in its descriptor is the end of the job that it started
   and was not told of: every slice of the frame has been filtered, or the copy
   is complete.  No end is counted twice. *)
PendingIsDone ==
    /\ pending[0] # {} => owed[0] /\ todo = {} /\ sliceEv = {}
                          /\ \A s \in Slices : sliceTh[s] = "waiting"
    /\ pending[1] # {} => owed[1] /\ ~copyEv /\ copyTh = "waiting"
    /\ ~overflow

(* Slices finish while software enables and acknowledges others: once its thread has
   run, the output is up exactly while a finished and enabled bit is not acknowledged,
   and then bit 7 is set, without which h264dbf_int_service returns and leaves it up.
   It holds as long as nothing finishes unregistered: WriteIntEnable raises the
   interrupt without the bit. *)
HandlerAnswers == /\ ~irqUpdate => (irq <=> intStatus \cap intEnable # {})
                  /\ irqStat => "gen" \in intStatus

(* On one CPU, a process that polls finds the end of each of its jobs
   (h264dbf_int_wait; the ioctl around it does not copy the bits it collects back). *)
JobReported == \A p \in Procs : (~smp /\ ~sleeps /\ owed[p]) ~> ~owed[p]

(* The comment of h264dbf_int_enable: "clear pending interrupts".  The write is
   ignored, since nothing is enabled at that time, and what is pending raises the
   interrupt as soon as it is enabled. *)
EnableClears ==
    [][\A p \in Procs : Register(p) /\ ~irqEn => intStatus' = {}]_driverVars
==============================================================================
