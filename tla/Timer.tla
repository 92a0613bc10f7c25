-------------------------------- MODULE Timer --------------------------------
(***************************************************************************)
(* misc_timer.c: a handle with a sorted, singly linked list of one-shot    *)
(* events, and the pass timer_execute_expire_events that fires them.       *)
(*                                                                         *)
(* The list from th->events is the sequence `events'; `tail' is the        *)
(* pointer the last cell holds (th->events itself when there is no cell):  *)
(* NULL, or WILD for the field no assignment has ever set.  Reading        *)
(* through WILD is undefined; here the process faults.                     *)
(*                                                                         *)
(* One thread runs everything.  `passes' is the stack of the running calls *)
(* of timer_execute_expire_events: a handler is called in the middle of a  *)
(* pass, and may add, delete or start another pass before it returns.      *)
(* Clients pass ms >= 0 and never clean up a handle a pass is using.       *)
(***************************************************************************)
EXTENDS Timeval, SequencesExt

CONSTANTS Keys,          \* the pairs (func, ctx_data) clients register
          Delays,        \* the values of ms they pass
          MallocNext,    \* what malloc may leave in new->next
          NULL, WILD,
          ClockSteps,    \* may the wall clock be set back?
          MaxTime,       \* bound on the clock
          MaxDepth       \* bound on nested passes

ASSUME TimerAssumption ==
  /\ Delays \subseteq Nat
  /\ MallocNext \subseteq {NULL, WILD}
  /\ NULL # WILD
  /\ NULL \notin Keys
  /\ ClockSteps \in BOOLEAN
  /\ MaxTime \in Nat
  /\ MaxDepth \in Nat

VARIABLES status,   \* of the handle and its process: "none", "live", "crashed"
          events,   \* th->events
          tail,
          number,   \* th->number
          passes,   \* frames [tv, curr]; curr = NULL at the loop's test
          now       \* the wall clock

vars == <<status, events, tail, number, passes, now>>

(* timer_event_t; `born' and `ms' are what the client asked, kept for the  *)
(* properties only.                                                        *)
Event == [key : Keys, expire : Timeval, born : Nat, ms : Delays]

\* The instant the client asked for, in microseconds.
Due(e) == e.born + e.ms * MSECS_IN_SEC

Frame == [tv : Timeval, curr : Keys \cup {NULL}]

Depth == Len(passes)

InCallback == Depth > 0 /\ passes[Depth].curr # NULL
AtLoopTest == status = "live" /\ Depth > 0 /\ passes[Depth].curr = NULL

\* Library calls come from outside of any pass or from a running handler.
CanCall == status = "live" /\ (passes = <<>> \/ InCallback)

(* Definitions whose name ends in _wrong are what the definition that      *)
(* follows would be with a plausible slip; each breaks some property.      *)
-----------------------------------------------------------------------------
Fault == /\ status' = "crashed"
         /\ UNCHANGED <<events, tail, number, passes, now>>

timer_init ==
  /\ status = "none"
  /\ status' = "live"
  /\ events' = <<>> /\ tail' = NULL /\ number' = 0
  /\ UNCHANGED <<passes, now>>

timer_cleanup ==
  /\ status = "live" /\ passes = <<>>
  /\ \/ tail = WILD /\ Fault
     \/ /\ tail = NULL
        /\ status' = "none"
        /\ events' = <<>> /\ number' = 0
        /\ UNCHANGED <<tail, passes, now>>

timer_is_event_present_wrong(k) == events # <<>> /\ Head(events).key = k

timer_is_event_present(k) == \E i \in DOMAIN events : events[i].key = k

NewEvent(k, ms) == [key |-> k, expire |-> AddMsec(gettimeofday(now), ms),
                    born |-> now, ms |-> ms]

InsertsAt_wrong(new, i) == i = Len(events) + 1

InsertsBeforeEqual_wrong(new, i) ==
  /\ i <= Len(events) => ~ IS_EARLIER_THAN(events[i].expire, new.expire)
  /\ \A j \in 1..(i - 1) : IS_EARLIER_THAN(events[j].expire, new.expire)

\* The walk of timer_event_add stops before the first event later than new.
InsertsAt(new, i) ==
  /\ i <= Len(events) => IS_EARLIER_THAN(new.expire, events[i].expire)
  /\ \A j \in 1..(i - 1) : ~ IS_EARLIER_THAN(new.expire, events[j].expire)

LinkEvent_wrong(new) ==
  /\ events' = IF number = 0 THEN <<new>> ELSE Append(events, new)
  /\ UNCHANGED <<tail, number>>

\* The branch for number = 0 makes new the list and leaves new->next alone.
LinkEvent(new) ==
  /\ \/ /\ number = 0
        /\ events' = <<new>>
        /\ tail' \in MallocNext
     \/ /\ number # 0
        /\ \E i \in 1..(Len(events) + 1) :
             InsertsAt(new, i) /\ events' = InsertAt(events, i, new)
        /\ UNCHANGED tail
  /\ number' = number + 1

(* A duplicate and a failed malloc return -1 and change nothing.  The      *)
(* search for a duplicate that is not there runs off the end of the list.  *)
timer_event_add(k, ms) ==
  /\ CanCall
  /\ ~ timer_is_event_present(k)
  /\ \/ tail = WILD /\ Fault
     \/ /\ tail = NULL
        /\ LinkEvent(NewEvent(k, ms))
        /\ UNCHANGED <<status, passes, now>>

timer_event_delete_wrong(k) ==
  /\ CanCall
  /\ events' = SelectSeq(events, LAMBDA e : e.key # k)
  /\ number' = number - 1
  /\ UNCHANGED <<status, tail, passes, now>>

(* An unknown key changes nothing, unless the search for it runs into WILD. *)
timer_event_delete(k) ==
  /\ CanCall
  /\ \/ ~ timer_is_event_present(k) /\ tail = WILD /\ Fault
     \/ \E i \in DOMAIN events :
          /\ events[i].key = k
          /\ \A j \in 1..(i - 1) : events[j].key # k
          /\ events' = RemoveAt(events, i)
          /\ number' = number - 1
          /\ UNCHANGED <<status, tail, passes, now>>

-----------------------------------------------------------------------------
(* timer_execute_expire_events: the clock is read once; then the head is   *)
(* unlinked and its handler called for as long as it is before that        *)
(* reading; when the handler returns, the loop starts again at th->events. *)
ExecuteBegin ==
  /\ CanCall /\ Depth < MaxDepth
  /\ passes' = Append(passes, [tv |-> gettimeofday(now), curr |-> NULL])
  /\ UNCHANGED <<status, events, tail, number, now>>

HeadExpired ==
  events # <<>> /\ IS_EARLIER_THAN(Head(events).expire, passes[Depth].tv)

ExecuteFire_wrong ==
  /\ AtLoopTest /\ HeadExpired
  /\ events' = Tail(events)
  /\ passes' = [passes EXCEPT ![Depth].curr = Head(events).key]
  /\ UNCHANGED <<status, tail, number, now>>

ExecuteFireKeepsHead_wrong ==
  /\ AtLoopTest /\ HeadExpired
  /\ passes' = [passes EXCEPT ![Depth].curr = Head(events).key]
  /\ UNCHANGED <<status, events, tail, number, now>>

ExecuteFire ==
  /\ AtLoopTest /\ HeadExpired
  /\ events' = Tail(events)
  /\ number' = number - 1
  /\ passes' = [passes EXCEPT ![Depth].curr = Head(events).key]
  /\ UNCHANGED <<status, tail, now>>

CallbackReturns ==
  /\ status = "live" /\ InCallback
  /\ passes' = [passes EXCEPT ![Depth].curr = NULL]
  /\ UNCHANGED <<status, events, tail, number, now>>

ExecuteReturn ==
  /\ AtLoopTest /\ ~ HeadExpired
  /\ events = <<>> => tail = NULL
  /\ passes' = Front(passes)
  /\ UNCHANGED <<status, events, tail, number, now>>

ExecuteFault == AtLoopTest /\ events = <<>> /\ tail = WILD /\ Fault

-----------------------------------------------------------------------------
\* External: the wall clock advances, or is set back.
Tick ==
  /\ \/ now < MaxTime /\ now' = now + 1
     \/ ClockSteps /\ now > 0 /\ now' \in 0..(now - 1)
  /\ UNCHANGED <<status, events, tail, number, passes>>

Init ==
  /\ status = "none"
  /\ events = <<>> /\ tail = NULL /\ number = 0
  /\ passes = <<>>
  /\ now = 0

Next ==
  \/ timer_init
  \/ timer_cleanup
  \/ \E k \in Keys, ms \in Delays : timer_event_add(k, ms)
  \/ \E k \in Keys : timer_event_delete(k)
  \/ ExecuteBegin
  \/ ExecuteFire
  \/ CallbackReturns
  \/ ExecuteReturn
  \/ ExecuteFault
  \/ Tick

Spec == Init /\ [][Next]_vars

(* The owner of the handle keeps calling timer_execute_expire_events, the  *)
(* loop of a pass runs, and every handler returns.  A handler that starts  *)
(* nested passes is not always the one that runs: strong fairness.         *)
Fairness ==
  /\ WF_vars(passes = <<>> /\ ExecuteBegin)
  /\ WF_vars(ExecuteFire)
  /\ WF_vars(ExecuteReturn)
  /\ \A d \in 1..MaxDepth : SF_vars(Depth = d /\ CallbackReturns)

FairSpec == Spec /\ Fairness

-----------------------------------------------------------------------------
\* The variables stay in their types.
TypeOK ==
  /\ status \in {"none", "live", "crashed"}
  /\ events \in Seq(Event)
  /\ tail \in {NULL, WILD}
  /\ number \in Nat
  /\ passes \in Seq(Frame)
  /\ now \in 0..MaxTime

(* th->number is the length of the list, in the middle of a pass too.      *)
(* timer_event_add trusts it: with number = 0 it overwrites th->events.    *)
CountMatchesList == number = Len(events)

(* A pair (func, ctx_data) is in the list at most once, so that            *)
(* timer_event_delete cancels the event its caller means.                  *)
NoDuplicateKeys ==
  \A i, j \in DOMAIN events : events[i].key = events[j].key => i = j

(* The list is in the order of expire however adds, deletes, handlers and  *)
(* clock steps interleave; the loop of a pass stops at the first event     *)
(* that is not expired and relies on it.                                   *)
Sorted ==
  \A i, j \in DOMAIN events :
    i < j => ~ IS_EARLIER_THAN(events[j].expire, events[i].expire)

Before(s, e, f) == \E i, j \in DOMAIN s : i < j /\ s[i] = e /\ s[j] = f

(* Events with the same expire fire in the order they were added: no step  *)
(* puts an event in front of one that was there with an equal expire.      *)
EqualExpiryIsFIFO ==
  [][\A e, f \in ToSet(events') :
        /\ e.expire = f.expire
        /\ e \in ToSet(events)
        /\ Before(events', f, e)
        => Before(events, f, e)]_vars

(* The event a step takes off the list on behalf of the running pass.      *)
Fires(e) == /\ Depth > 0 /\ Len(passes') = Depth
            /\ passes[Depth].curr = NULL /\ passes'[Depth].curr # NULL
            /\ e = Head(events)

(* timer_add_msec does not carry, so an event may fire early; but by less  *)
(* than a second, whatever ms was and whatever the clock did.              *)
EarlyByLessThanASecond ==
  [][\A e \in ToSet(events) :
        Fires(e) => Due(e) < Usecs(passes[Depth].tv) + USECS_IN_SEC]_vars

(* When a pass returns, nothing is left that was due at the instant it     *)
(* read the clock, although it looked at heads only, in an order that is   *)
(* not that of the due instants, and handlers changed the list under it.   *)
PassLeavesNothingDue ==
  [][Len(passes') < Depth =>
        \A e \in ToSet(events) : Due(e) >= Usecs(passes[Depth].tv)]_vars

(* While the clock is not set back, a pass fires only events added before  *)
(* it began: a handler that re-arms itself, even with ms = 0, waits for    *)
(* the next pass, so a pass cannot run for ever.                           *)
RearmedWaitsForNextPass ==
  [][\A e \in ToSet(events) :
        Fires(e) => e.born < Usecs(passes[Depth].tv)]_vars

(* An event in the list does not stay there once its instant has passed.   *)
Overdue(k) == \E i \in DOMAIN events : events[i].key = k /\ Due(events[i]) < now
OverdueFires == \A k \in Keys : Overdue(k) ~> ~ timer_is_event_present(k)

\* Every pass returns, those that handlers start included.
PassesReturn == Depth > 0 ~> Depth = 0

(* misc_timer.c:19 and :30: next is the "pointer to the next timer" of a   *)
(* "singly linked list": the list ends in NULL.                            *)
ListEndsInNull == tail = NULL

-----------------------------------------------------------------------------
\* The events of a list and the running passes, as the contract sees them.
Abs(e) == [key |-> e.key, due |-> Due(e)]
Armed(s) == {Abs(s[i]) : i \in DOMAIN s}
AbsFrame(f) == [asOf |-> Usecs(f.tv), running |-> f.curr]
Frames(p) == [i \in DOMAIN p |-> AbsFrame(p[i])]

Contract == INSTANCE TimerContract WITH
  UsecsInMsec <- MSECS_IN_SEC,
  Slack  <- USECS_IN_SEC,
  Nobody <- NULL,
  alive  <- status = "live",
  armed  <- Armed(events),
  passes <- Frames(passes),
  clock  <- now

(* The library keeps the contract of a timer service: an event is neither  *)
(* lost nor fired twice, fires early by less than a second and out of the  *)
(* order asked for by less than a second, and a pass leaves nothing due.   *)
(* (Where malloc happens to return zeroed memory: MallocNext = {NULL}.)    *)
ImplementsContract == Contract!Spec
=============================================================================
