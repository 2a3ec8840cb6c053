------------------------------- MODULE MCAicu -------------------------------
(***************************************************************************)
(* The devices that make interrupts out of edges and of time: "aicu", the  *)
(* controller; "timer" and "sl_timer", the two timers.                     *)
(***************************************************************************)
EXTENDS Aicu, Timer, SlTimer

VARIABLE part

MCInit == part \in {"aicu", "timer", "sl_timer"} /\ Init /\ TimerInit /\ SlInit

MCNext == \/ part = "aicu" /\ Next /\ UNCHANGED <<part, timerVars, slVars>>
          \/ part = "timer" /\ TimerNext /\ UNCHANGED <<part, vars, slVars>>
          \/ part = "sl_timer" /\ SlNext /\ UNCHANGED <<part, vars, timerVars>>

MCSpec == /\ MCInit /\ [][MCNext]_<<part, vars, timerVars, slVars>>
          /\ part = "aicu" => WF_vars(IrqUpdateThread)
=============================================================================
