------------------------------ MODULE FbDriver ------------------------------
(***************************************************************************)
(* rabbitsfb, the Linux driver of the framebuffer, and the device below it *)
(* (Framebuffer): the interrupt handler, and one process that registers    *)
(* for the interrupt, displays an image, waits for the interrupt, and so   *)
(* on.  On a multiprocessor the handler runs beside the process; on one    *)
(* CPU it runs between two steps of it, and not where irq_lock is held.    *)
(*                                                                         *)
(* The one descriptor irqs[0] is used.  schedule() of the kernel is: a     *)
(* process asleep is woken, a wake_up before prepare_to_wait does nothing. *)
(***************************************************************************)
EXTENDS Framebuffer

VARIABLES
    smp,        \* there are several CPUs
    sleeps,     \* the process calls wait with a timeout, otherwise it polls
    pc,         \* where the process is
    got,        \* irq->type: what the wait reports
    owed,       \* an image was displayed and its end not reported
    isr,        \* where rabbitsfb_int_service is
    handler,    \* request_irq was called
    irqEn, nbIrqEn,         \* irq_en, nb_irq_en
    type, pending, status   \* of the descriptor

process == <<pc, got, owed>>
descriptor == <<irqEn, nbIrqEn, type, pending, status>>
device == <<registers, mem, threads, viewer, history>>
driverVars == <<device, smp, sleeps, process, isr, handler, descriptor>>

DriverInit ==
    /\ FbInit /\ ~wrap
    /\ smp \in BOOLEAN /\ sleeps \in BOOLEAN
    /\ pc = "idle" /\ got = FALSE /\ owed = FALSE
    /\ isr = "idle" /\ handler = FALSE
    /\ irqEn = FALSE /\ nbIrqEn = 0
    /\ type = FALSE /\ pending = FALSE /\ status = "none"

\* A step of the process: with one CPU, never inside the handler.
At(p) == pc = p /\ (smp \/ isr = "idle")
-----------------------------------------------------------------------------
(* The calls that set the device up.                                       *)

\* RABBITSFB_IOCRESET: START is taken away ...
Reset ==
    /\ At("idle")
    /\ WriteCtrl(ctrl \ {"START"}, FALSE)
    /\ pc' = "resetting"
    /\ UNCHANGED <<smp, sleeps, got, owed, isr, handler, descriptor>>

\* ... and given back.
Restart ==
    /\ At("resetting")
    /\ WriteCtrl(ctrl \cup {"START"}, FALSE)
    /\ pc' = "idle"
    /\ UNCHANGED <<smp, sleeps, got, owed, isr, handler, descriptor>>

\* RABBITSFB_IOCSADDR.
SetAddr ==
    /\ At("idle")
    /\ \E a \in Addrs : WriteBuf(a)
    /\ UNCHANGED <<smp, sleeps, process, isr, handler, descriptor>>

\* RABBITSFB_IOCDMAEN; nothing in the driver takes it back.
DmaEnable ==
    /\ At("idle")
    /\ WriteCtrl(ctrl \cup {"DMAEN"}, FALSE)
    /\ UNCHANGED <<smp, sleeps, process, isr, handler, descriptor>>
-----------------------------------------------------------------------------
(* rabbitsfb_int_register.  irq_lock is held in all of it.                 *)

\* rabbitsfb_int_enable up to request_irq.
Register ==
    /\ At("idle")
    /\ WriteIrqClr
    /\ type' = FALSE /\ pending' = FALSE /\ status' = "none"
    /\ handler' = TRUE
    /\ pc' = "enabling"
    /\ UNCHANGED <<smp, sleeps, got, owed, isr, irqEn, nbIrqEn>>

\* The rest of it: the device's IRQEN.
Enable ==
    /\ At("enabling")
    /\ WriteCtrl(ctrl \cup {"IRQEN"}, FALSE)
    /\ irqEn' = TRUE /\ nbIrqEn' = nbIrqEn + 1
    /\ pc' = "enabled"
    /\ UNCHANGED <<smp, sleeps, got, owed, isr, handler, type, pending, status>>

Describe ==
    /\ At("enabled")
    /\ type' = TRUE /\ status' = "init"
    /\ pc' = "registered"
    /\ UNCHANGED <<device, smp, sleeps, got, owed, isr, handler, irqEn, nbIrqEn, pending>>
-----------------------------------------------------------------------------
(* rabbitsfb_int_unregister, and rabbitsfb_chr_release.                    *)

Unregister ==
    /\ At("registered") /\ ~owed
    /\ type' = FALSE
    /\ pc' = "disabling"
    /\ UNCHANGED <<device, smp, sleeps, got, owed, isr, handler, irqEn, nbIrqEn, pending, status>>

\* The file is closed, also with an image still owed: rabbitsfb_int_cleanup, which
\* holds irq_lock in all of it, unregisters.
Release ==
    /\ At("registered")
    /\ dispTh = "waiting"
    /\ type' = FALSE
    /\ owed' = FALSE
    /\ pc' = "cleaning"
    /\ UNCHANGED <<device, smp, sleeps, got, isr, handler, irqEn, nbIrqEn, pending, status>>

\* rabbitsfb_int_disable: rabbitsfb_disable_device_irq ...
Disable ==
    /\ At("disabling") \/ At("cleaning")
    /\ nbIrqEn' = nbIrqEn - 1
    /\ WriteCtrl(ctrl \ {"IRQEN"}, FALSE)
    /\ pc' = IF pc = "cleaning" THEN "freeing last" ELSE "freeing"
    /\ UNCHANGED <<smp, sleeps, got, owed, isr, handler, irqEn, type, pending, status>>

\* ... and free_irq, which waits until the handler has returned.
Free ==
    /\ At("freeing") \/ At("freeing last")
    /\ isr = "idle"
    /\ handler' = FALSE /\ irqEn' = FALSE
    /\ pc' = IF pc = "freeing last" THEN "stopping" ELSE "idle"
    /\ UNCHANGED <<device, smp, sleeps, got, owed, isr, nbIrqEn, type, pending, status>>

\* rabbitsfb_stop, at the end of release.
Stop ==
    /\ At("stopping")
    /\ WriteCtrl(ctrl \ {"START"}, FALSE)
    /\ pc' = "idle"
    /\ UNCHANGED <<smp, sleeps, got, owed, isr, handler, descriptor>>
-----------------------------------------------------------------------------
(* The process: RABBITSFB_IOCDISPLAY and rabbitsfb_int_wait.               *)

\* The program has reset the device before: nothing checks it.
DisplayImage ==
    /\ At("registered") /\ ~owed
    /\ Usable
    /\ WriteCtrl(ctrl, TRUE)
    /\ owed' = TRUE
    /\ UNCHANGED <<smp, sleeps, pc, got, isr, handler, descriptor>>

\* The test of wait_time and pending.
Wait ==
    /\ At("registered") /\ owed
    /\ pc' = IF sleeps /\ ~pending THEN "falling asleep" ELSE "collecting"
    /\ UNCHANGED <<device, smp, sleeps, got, owed, isr, handler, descriptor>>

\* prepare_to_wait and schedule.
Sleep ==
    /\ At("falling asleep")
    /\ pc' = "asleep"
    /\ UNCHANGED <<device, smp, sleeps, got, owed, isr, handler, descriptor>>

\* The critical section that ends the wait: it reads the descriptor ...
Collect ==
    /\ At("collecting")
    /\ got' = pending
    /\ pc' = "clearing"
    /\ UNCHANGED <<device, smp, sleeps, owed, isr, handler, descriptor>>

\* A wait that leaves the descriptor pending.
Return_KeepPending ==
    /\ At("clearing")
    /\ owed' = (owed /\ ~got) /\ got' = FALSE
    /\ pc' = "registered"
    /\ UNCHANGED <<device, smp, sleeps, isr, handler, descriptor>>

\* ... and clears it.
Return ==
    /\ At("clearing")
    /\ pending' = FALSE
    /\ owed' = (owed /\ ~got) /\ got' = FALSE
    /\ pc' = "registered"
    /\ UNCHANGED <<device, smp, sleeps, isr, handler, irqEn, nbIrqEn, type, status>>
-----------------------------------------------------------------------------
(* rabbitsfb_int_service.                                                  *)

\* With one CPU no interrupt comes where irq_lock is held.
Locked == pc \in {"enabling", "enabled", "clearing", "cleaning", "freeing last"}

\* The status and the acknowledge.  Without the bit the interrupt is not the
\* device's (IRQ_NONE).
Service ==
    /\ irq /\ handler /\ isr = "idle"
    /\ smp \/ ~Locked
    /\ frameBit
    /\ WriteIrqClr
    /\ isr' = "acked"
    /\ UNCHANGED <<smp, sleeps, process, handler, descriptor>>

\* The loop that starts with the second descriptor.
Wake_Second ==
    /\ isr = "acked"
    /\ isr' = "idle"
    /\ IF nbIrqEn > 1 /\ type
       THEN /\ status' = IF pending THEN "overflow" ELSE "queued"
            /\ pending' = TRUE
            /\ pc' = IF pc = "asleep" THEN "collecting" ELSE pc
       ELSE UNCHANGED <<status, pending, pc>>
    /\ UNCHANGED <<device, smp, sleeps, got, owed, handler, irqEn, nbIrqEn, type>>

\* The loop over the nb_irq_en descriptors.
Wake ==
    /\ isr = "acked"
    /\ isr' = "idle"
    /\ IF nbIrqEn > 0 /\ type
       THEN /\ status' = IF pending THEN "overflow" ELSE "queued"
            /\ pending' = TRUE
            /\ pc' = IF pc = "asleep" THEN "collecting" ELSE pc
       ELSE UNCHANGED <<status, pending, pc>>
    /\ UNCHANGED <<device, smp, sleeps, got, owed, handler, irqEn, nbIrqEn, type>>
-----------------------------------------------------------------------------
Device == /\ StartStop \/ FbIrqUpdate \/ DisplayThread \/ Viewer
          /\ UNCHANGED <<smp, sleeps, process, isr, handler, descriptor>>

Process == \/ Reset \/ Restart \/ SetAddr \/ DmaEnable
           \/ Register \/ Enable \/ Describe
           \/ Unregister \/ Release \/ Disable \/ Free \/ Stop
           \/ DisplayImage \/ Wait \/ Sleep \/ Collect \/ Return

DriverNext == Process \/ Service \/ Wake \/ Device

DriverSpec == DriverInit /\ [][DriverNext]_driverVars

\* The kernel runs the process; a CPU takes the interrupt, a level, as soon as it
\* enables interrupts again; and what Framebuffer assumes.
DriverFairness ==
    /\ WF_driverVars(Process) /\ SF_driverVars(Service) /\ WF_driverVars(Wake)
    /\ WF_driverVars(FbIrqUpdate /\ Device) /\ WF_driverVars(DisplayThread /\ Device)
    /\ WF_driverVars(Viewer /\ Device)

DriverFairSpec == DriverSpec /\ DriverFairness
-----------------------------------------------------------------------------
(* What a registered descriptor holds as pending is the end of an image that the
   process displayed and did not collect: nothing is left over from an image reported
   before or from an earlier registration, and no second end is counted for one
   image (STATUS_IRQ_OVERFLOW). *)
PendingIsOwed ==
    /\ pending /\ type => owed /\ dispTh = "waiting" /\ ~frameBit
    /\ status # "overflow"

(* On one CPU, a process that polls finds the end of each image (which
   rabbitsfb_chr_ioctl_irq_wait does not copy to the program).  On several it need
   not: the handler does not take irq_lock, and an end that falls between
   the reading and the clearing of the descriptor is gone. *)
ImageReported == ~smp /\ ~sleeps /\ owed ~> ~owed

(* The comment of rabbitsfb_int_wait: if the interrupt already occurred, skip
   the wait.  The test is made before prepare_to_wait, so an interrupt between
   the two has occurred and the process sleeps nevertheless. *)
SleeperHasNothing == pc = "asleep" => ~pending
==============================================================================
