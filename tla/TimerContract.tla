---------------------------- MODULE TimerContract ----------------------------
(***************************************************************************)
(* What a one-shot timer service promises, in microseconds, with no list,  *)
(* counter or timeval: every event that was armed fires once unless it is  *)
(* disarmed first, early by less than Slack, in the order of the instants  *)
(* asked for up to Slack, and a pass returns only when nothing is due.     *)
(* Timer (misc_timer.c) implements it with Slack = one second.             *)
(***************************************************************************)
EXTENDS Integers, Sequences

CONSTANTS Keys, Delays, UsecsInMsec, Slack, Nobody

VARIABLES alive,    \* there is a handle
          armed,    \* set of [key, due]
          passes,   \* stack of running passes: [asOf, running]
          clock

cvars == <<alive, armed, passes, clock>>

Depth == Len(passes)
Running == passes[Depth].running
CanCall == alive /\ (passes = <<>> \/ Running # Nobody)
IsArmed(k) == \E e \in armed : e.key = k

Create == /\ ~ alive /\ alive' /\ armed' = {}
          /\ UNCHANGED <<passes, clock>>

Destroy == /\ alive /\ passes = <<>>
           /\ ~ alive' /\ armed' = {}
           /\ UNCHANGED <<passes, clock>>

Arm(k, ms) ==
  /\ CanCall /\ ~ IsArmed(k)
  /\ armed' = armed \cup {[key |-> k, due |-> clock + ms * UsecsInMsec]}
  /\ UNCHANGED <<alive, passes, clock>>

Disarm(k) ==
  /\ CanCall /\ IsArmed(k)
  /\ armed' = {e \in armed : e.key # k}
  /\ UNCHANGED <<alive, passes, clock>>

BeginPass ==
  /\ CanCall
  /\ passes' = Append(passes, [asOf |-> clock, running |-> Nobody])
  /\ UNCHANGED <<alive, armed, clock>>

Fire(e) ==
  /\ alive /\ passes # <<>> /\ Running = Nobody
  /\ e.due < passes[Depth].asOf + Slack
  /\ \A f \in armed : e.due < f.due + Slack
  /\ armed' = armed \ {e}
  /\ passes' = [passes EXCEPT ![Depth].running = e.key]
  /\ UNCHANGED <<alive, clock>>

HandlerReturns ==
  /\ alive /\ passes # <<>> /\ Running # Nobody
  /\ passes' = [passes EXCEPT ![Depth].running = Nobody]
  /\ UNCHANGED <<alive, armed, clock>>

EndPass ==
  /\ alive /\ passes # <<>> /\ Running = Nobody
  /\ \A e \in armed : e.due >= passes[Depth].asOf
  /\ passes' = SubSeq(passes, 1, Depth - 1)
  /\ UNCHANGED <<alive, armed, clock>>

ClockChanges == clock' \in Nat /\ UNCHANGED <<alive, armed, passes>>

Init == ~ alive /\ armed = {} /\ passes = <<>> /\ clock \in Nat

Next ==
  \/ Create \/ Destroy
  \/ \E k \in Keys : Disarm(k) \/ \E ms \in Delays : Arm(k, ms)
  \/ BeginPass
  \/ \E e \in armed : Fire(e)
  \/ HandlerReturns
  \/ EndPass
  \/ ClockChanges

Spec == Init /\ [][Next]_cvars
=============================================================================
