------------------------------- MODULE Timer2 -------------------------------
(***************************************************************************)
(* misc_timer2.c: periodic events in a singly linked list, newest first,   *)
(* and the pass mTimer_executeExpireEvents that walks the whole list,      *)
(* fires what is due and removes an event after its last firing.           *)
(*                                                                         *)
(* The heap is explicit, since the pass keeps pointers to cells across the *)
(* handlers it calls.  `cell' holds the timerEvent_t of every cell, `live' *)
(* the allocated ones.  Reading a cell that is free, or the WILD pointer   *)
(* of a field never assigned, is undefined; here the process faults.       *)
(* misc_timer2.c:267 writes to the event line 263 may just have freed:     *)
(* undefined too; here the write is lost, or the process faults.           *)
(*                                                                         *)
(* Handlers add events and, when DeleteFrom says so, delete them; they do  *)
(* not start a pass or clean up the handle in the middle of a pass.        *)
(***************************************************************************)
EXTENDS Timeval, FiniteSets

CONSTANTS Keys,         \* the pairs (func, ctxArg) clients register
          Intervals,    \* the values of interval they pass, in milliseconds
          Counts,       \* the values of count they pass; 0 is for ever
          Cells,        \* the memory malloc has
          MallocNext,   \* what malloc may leave in new->next
          DeleteFrom,   \* where mTimer_delete is called: "outside", "handler"
          NULL, WILD,
          IntMax,       \* the largest int
          ClockStep,    \* the clock is read at multiples of this only
          MaxTime,      \* bound on the clock
          MaxFires,     \* bound on the firings of an event
          MaxDrift      \* bound on the counter: no add when it is below - MaxDrift

IntMin == - IntMax - 1

ASSUME Timer2Assumption ==
  /\ Intervals \subseteq Nat /\ Counts \subseteq IntMin..IntMax
  /\ IntMax \in Nat \ {0} /\ IsFiniteSet(Cells)
  /\ MallocNext \subseteq {NULL, WILD} /\ NULL # WILD
  /\ {NULL, WILD} \cap (Keys \cup Cells) = {}
  /\ DeleteFrom \subseteq {"outside", "handler"}
  /\ ClockStep \in Nat \ {0}
  /\ MaxTime \in Nat /\ MaxFires \in Nat /\ MaxDrift \in Nat

VARIABLES status,   \* of the handle and its process: "none", "live", "crashed"
          head,     \* th->events
          cell,
          live,
          number,   \* th->number
          pass,     \* locals of mTimer_executeExpireEvents, and where it is
          seen,     \* cells the running pass fired, or that were added in it
          now,      \* the wall clock
          misused   \* has a handler deleted an event?

vars == <<status, head, cell, live, number, pass, seen, now, misused>>

Pointer == Cells \cup {NULL, WILD}

(* timerEvent_t; `born', `limit' and `fires' are for the properties: when  *)
(* the event was added, the count asked for, how often it has fired.       *)
Event == [next : Pointer, key : Keys, interval : Intervals, count : IntMin..IntMax,
          lastTime : Timeval, born : Nat, limit : Counts, fires : Nat]
Free == [next |-> NULL]

\* Where a list may end: a next that was assigned NULL, or not at all.
Ends == MallocNext \cup {NULL}

Zero == [sec |-> 0, usec |-> 0]
Idle == [at |-> "idle", tv |-> Zero, curr |-> NULL, tmp |-> NULL, eventTv |-> Zero]

\* The pointers met on a walk from th->events, as many as there can be.
Walk == LET p[i \in 0..Cardinality(Cells)] ==
              IF i = 0 THEN head
              ELSE IF p[i - 1] \in live THEN cell[p[i - 1]].next ELSE p[i - 1]
        IN  p
Met == {Walk[i] : i \in DOMAIN Walk}
Listed == Met \cap live
WalkFaults == ~ (Met \subseteq live \cup {NULL})

CanCall(from) == /\ status = "live"
                 /\ pass.at = IF from = "outside" THEN "idle" ELSE "handler"

(* Definitions whose name ends in _wrong are what the definition that      *)
(* follows would be with a plausible slip; each breaks some property.      *)
-----------------------------------------------------------------------------
Fault == /\ status' = "crashed"
         /\ UNCHANGED <<head, cell, live, number, pass, seen, now, misused>>

mTimer_init ==
  /\ status = "none"
  /\ status' = "live" /\ head' = NULL /\ number' = 0
  /\ UNCHANGED <<cell, live, pass, seen, now, misused>>

\* Events the list has lost are not freed.
mTimer_cleanup ==
  /\ CanCall("outside")
  /\ \/ WalkFaults /\ Fault
     \/ /\ ~ WalkFaults
        /\ status' = "none" /\ head' = NULL /\ number' = 0
        /\ live' = live \ Listed
        /\ cell' = [c \in Cells |-> IF c \in Listed THEN Free ELSE cell[c]]
        /\ UNCHANGED <<pass, seen, now, misused>>

isEventPresent_wrong(k) == \E c \in Listed \ {pass.curr} : cell[c].key = k

isEventPresent(k) == \E c \in Listed : cell[c].key = k

\* For number = 0 the new event becomes the list; its next is not assigned.
LinkEvent(new, e) ==
  /\ \/ /\ number = 0
        /\ \E p \in MallocNext : cell' = [cell EXCEPT ![new] = [e EXCEPT !.next = p]]
     \/ /\ number # 0
        /\ cell' = [cell EXCEPT ![new] = [e EXCEPT !.next = head]]
  /\ head' = new
  /\ number' = number + 1

\* A duplicate, and a malloc that finds no cell, return -1: nothing changes.
mTimer_add(from, k, interval, count) ==
  /\ CanCall(from) /\ number >= - MaxDrift
  /\ ~ isEventPresent(k)
  /\ \/ WalkFaults /\ Fault
     \/ /\ ~ WalkFaults
        /\ \E new \in Cells \ live :
             /\ LinkEvent(new, [next |-> NULL, key |-> k, interval |-> interval,
                                count |-> count, lastTime |-> gettimeofday(now),
                                born |-> now, limit |-> count, fires |-> 0])
             /\ live' = live \cup {new}
             /\ seen' = IF from = "handler" THEN seen \cup {new} ELSE seen
        /\ UNCHANGED <<status, pass, now, misused>>

Unlinked_wrong(heap, d) == [heap EXCEPT ![d] = Free]

\* The heap once d, an event of the list, is unlinked and freed.
Unlinked(heap, d) ==
  [c \in Cells |->
     IF c = d THEN Free
     ELSE IF c \in Listed /\ cell[c].next = d THEN [heap[c] EXCEPT !.next = cell[d].next]
     ELSE heap[c]]

RemoveEvent_wrong(heap, d) ==
  /\ head' = IF head = d THEN cell[d].next ELSE head
  /\ cell' = Unlinked(heap, d)
  /\ live' = live

RemoveEvent(heap, d) ==
  /\ head' = IF head = d THEN cell[d].next ELSE head
  /\ cell' = Unlinked(heap, d)
  /\ live' = live \ {d}

mTimer_delete_wrong(from, k) ==
  /\ from \in DeleteFrom /\ CanCall(from)
  /\ \E d \in Listed : cell[d].key = k /\ RemoveEvent(cell, d)
  /\ seen' = seen \cap live'
  /\ misused' = (misused \/ from = "handler")
  /\ UNCHANGED <<status, number, pass, now>>

\* An unknown key changes nothing, unless the search runs into a bad pointer.
mTimer_delete(from, k) ==
  /\ from \in DeleteFrom /\ CanCall(from)
  /\ \/ ~ isEventPresent(k) /\ WalkFaults /\ Fault
     \/ \E d \in Listed :
          /\ cell[d].key = k
          /\ RemoveEvent(cell, d)
          /\ number' = number - 1
          /\ seen' = seen \ {d}
          /\ misused' = (misused \/ from = "handler")
          /\ UNCHANGED <<status, pass, now>>

-----------------------------------------------------------------------------
(* mTimer_executeExpireEvents: the clock is read once; at every event the  *)
(* next pointer is saved in tmp before its handler is called.              *)
ExecuteBegin ==
  /\ CanCall("outside")
  /\ \A c \in live : cell[c].fires < MaxFires
  /\ pass' = [Idle EXCEPT !.at = "walk", !.tv = gettimeofday(now), !.curr = head]
  /\ seen' = {}
  /\ UNCHANGED <<status, head, cell, live, number, now, misused>>

Walking == status = "live" /\ pass.at = "walk"

EventTime(c) == AddMsec(cell[c].lastTime, cell[c].interval)

IsDue(c) == IS_LE_TIMEVAL(EventTime(c), pass.tv)

ExecuteFire_wrong ==
  /\ Walking /\ pass.curr \in live /\ IsDue(pass.curr)
  /\ pass' = [pass EXCEPT !.at = "handler", !.tmp = cell[pass.curr].next,
                          !.eventTv = pass.tv]
  /\ cell' = [cell EXCEPT ![pass.curr].fires = @ + 1]
  /\ seen' = seen \cup {pass.curr}
  /\ UNCHANGED <<status, head, live, number, now, misused>>

ExecuteFire ==
  /\ Walking /\ pass.curr \in live /\ IsDue(pass.curr)
  /\ pass' = [pass EXCEPT !.at = "handler", !.tmp = cell[pass.curr].next,
                          !.eventTv = EventTime(pass.curr)]
  /\ cell' = [cell EXCEPT ![pass.curr].fires = @ + 1]
  /\ seen' = seen \cup {pass.curr}
  /\ UNCHANGED <<status, head, live, number, now, misused>>

ExecuteSkip_wrong ==
  /\ Walking /\ pass.curr \in live /\ ~ IsDue(pass.curr)
  /\ pass' = [pass EXCEPT !.curr = NULL]
  /\ UNCHANGED <<status, head, cell, live, number, seen, now, misused>>

ExecuteSkipStays_wrong ==
  /\ Walking /\ pass.curr \in live /\ ~ IsDue(pass.curr)
  /\ UNCHANGED vars

ExecuteSkip ==
  /\ Walking /\ pass.curr \in live /\ ~ IsDue(pass.curr)
  /\ pass' = [pass EXCEPT !.curr = cell[pass.curr].next]
  /\ UNCHANGED <<status, head, cell, live, number, seen, now, misused>>

Decrement_wrong(count) == count

Decrement(count) == IF count = IntMin THEN IntMax ELSE count - 1

Advance_wrong == [pass EXCEPT !.at = "walk", !.curr = head, !.tmp = NULL, !.eventTv = Zero]

Advance == [pass EXCEPT !.at = "walk", !.curr = pass.tmp, !.tmp = NULL, !.eventTv = Zero]

(* --curr->count == 0 deletes the first event with curr's key, if the list *)
(* has one, and then decrements number once more than mTimer_delete did.   *)
HandlerReturns ==
  /\ status = "live" /\ pass.at = "handler" /\ pass.curr \in live
  /\ LET c == pass.curr
         left == Decrement(cell[c].count)
         heap == [cell EXCEPT ![c].count = left]
     IN  \/ /\ left # 0
            /\ cell' = heap
            /\ UNCHANGED <<head, live, number>>
         \/ /\ left = 0
            /\ \E d \in Listed : /\ cell[d].key = cell[c].key
                                 /\ RemoveEvent(heap, d)
            /\ number' = number - 2
         \/ /\ left = 0
            /\ ~ isEventPresent(cell[c].key) /\ ~ WalkFaults
            /\ cell' = heap
            /\ number' = number - 1
            /\ UNCHANGED <<head, live>>
  /\ pass' = [pass EXCEPT !.at = "update"]
  /\ seen' = seen \cap live'
  /\ UNCHANGED <<status, now, misused>>

\* curr->lastTime is written even when curr has just been freed.
UpdateLastTime ==
  /\ status = "live" /\ pass.at = "update"
  /\ cell' = IF pass.curr \in live
             THEN [cell EXCEPT ![pass.curr].lastTime = pass.eventTv] ELSE cell
  /\ pass' = Advance
  /\ UNCHANGED <<status, head, live, number, seen, now, misused>>

ExecuteReturn ==
  /\ Walking /\ pass.curr = NULL
  /\ pass' = Idle
  /\ seen' = {}
  /\ UNCHANGED <<status, head, cell, live, number, now, misused>>

\* curr is read or written, or the list searched for it, through a bad pointer.
ExecuteFault ==
  /\ status = "live"
  /\ \/ pass.at # "idle" /\ pass.curr \notin live \cup {NULL}
     \/ /\ pass.at = "handler" /\ pass.curr \in live
        /\ Decrement(cell[pass.curr].count) = 0
        /\ ~ isEventPresent(cell[pass.curr].key) /\ WalkFaults
  /\ Fault

-----------------------------------------------------------------------------
\* External: the wall clock advances.
Tick == /\ now + ClockStep <= MaxTime /\ now' = now + ClockStep
        /\ UNCHANGED <<status, head, cell, live, number, pass, seen, misused>>

Init ==
  /\ status = "none"
  /\ head = NULL /\ number = 0
  /\ cell = [c \in Cells |-> Free] /\ live = {}
  /\ pass = Idle /\ seen = {}
  /\ now = 0 /\ misused = FALSE

Next ==
  \/ mTimer_init
  \/ mTimer_cleanup
  \/ \E from \in {"outside", "handler"}, k \in Keys :
       \/ \E i \in Intervals, n \in Counts : mTimer_add(from, k, i, n)
       \/ mTimer_delete(from, k)
  \/ ExecuteBegin
  \/ ExecuteFire
  \/ ExecuteSkip
  \/ HandlerReturns
  \/ UpdateLastTime
  \/ ExecuteReturn
  \/ ExecuteFault
  \/ Tick

Spec == Init /\ [][Next]_vars

\* The owner of the handle keeps starting passes; a pass goes on, and its
\* handlers return, whatever they do to the list before.
Execute == \/ ExecuteFire \/ ExecuteSkip \/ HandlerReturns \/ UpdateLastTime
           \/ ExecuteReturn \/ ExecuteFault
Fairness == WF_vars(ExecuteBegin) /\ WF_vars(Execute)

FairSpec == Spec /\ Fairness

-----------------------------------------------------------------------------
\* The variables stay in their types.
TypeOK ==
  /\ status \in {"none", "live", "crashed"}
  /\ head \in Pointer
  /\ live \subseteq Cells
  /\ DOMAIN cell = Cells
  /\ \A c \in Cells : IF c \in live THEN cell[c] \in Event ELSE cell[c] = Free
  /\ number \in Int
  /\ pass \in [at : {"idle", "walk", "handler", "update"}, tv : Timeval,
               curr : Pointer, tmp : Pointer, eventTv : Timeval]
  /\ seen \subseteq live
  /\ now \in 0..MaxTime /\ misused \in BOOLEAN

(* As long as events are deleted only between passes, the library follows  *)
(* one pointer into freed memory and no other: from line 263 to line 267   *)
(* curr may be the event the pass has just freed, and line 267 writes to   *)
(* it.  The list and tmp, which is kept across handlers that add events,   *)
(* lead to events only, and end in NULL or in the next that line 165 has   *)
(* left as malloc gave it.                                                 *)
NoDanglingPointer ==
  ~ misused => /\ Met \cup {pass.tmp} \subseteq live \cup Ends
               /\ pass.at # "update" => pass.curr \in live \cup Ends

\* The list has no cycle and a handler is in it at most once.
ListSound ==
  /\ \A i, j \in DOMAIN Walk : i # j /\ Walk[i] = Walk[j] => Walk[i] \notin live
  /\ \A c, d \in Listed : cell[c].key = cell[d].key => c = d

(* The double decrement makes the counter fall behind the list; it never   *)
(* runs ahead of it.                                                       *)
CountNeverAboveList == number <= Cardinality(Listed)

(* An event added with a count fires at most that often.  (Where handlers  *)
(* delete, an event the list has lost may be met twice by a pass.)         *)
FiresAtMostCount ==
  \A c \in live : cell[c].limit > 0 /\ (misused => c \in Listed) =>
                  cell[c].fires <= cell[c].limit

(* The schedule has no drift: however late the passes come, lastTime is    *)
(* the instant of the add plus one interval per firing.  (A handler that   *)
(* deletes its own event and adds another writes to the new one.)          *)
KeepsPhase ==
  ~ misused => \A c \in live :
    Usecs(cell[c].lastTime) = cell[c].born + cell[c].interval * MSECS_IN_SEC *
       (cell[c].fires - IF pass.at \in {"handler", "update"} /\ pass.curr = c THEN 1 ELSE 0)

(* A pass fires an event at most once, however many intervals it is behind *)
(* and whatever handlers add: an event added in a pass waits for the next. *)
FiresOncePerPass ==
  [][~ misused /\ pass.at = "walk" /\ pass'.at = "handler" => pass.curr \notin seen]_vars

(* A pass returns only when every due event of the list has fired in it or *)
(* was added in it, although it removed events from the list it walks.     *)
PassMissesNothing ==
  [][pass.at = "walk" /\ pass'.at = "idle" =>
       \A c \in Listed : IsDue(c) => c \in seen]_vars

(* Every pass returns, unless it faults at a bad pointer.  (A handler that *)
(* deletes an event and adds another in its memory may keep a pass going.) *)
PassesReturn == pass.at # "idle" ~> pass.at = "idle" \/ status = "crashed" \/ misused

(* An event of the list whose time has come fires, or leaves the list,     *)
(* unless the process faults at a bad pointer before.                      *)
Overdue(k) == \E c \in Listed : /\ cell[c].key = k
                               /\ IS_LE_TIMEVAL(EventTime(c), gettimeofday(now))
Fires(k) == /\ pass.at \in {"handler", "update"} /\ pass.curr \in live
            /\ cell[pass.curr].key = k
OverdueFires ==
  \A k \in Keys :
    Overdue(k) ~> Fires(k) \/ ~ isEventPresent(k) \/ status = "crashed" \/ misused

(* misc_timer2.h:21: count "0 means loop forever": no other event's add    *)
(* makes a pass forget it.                                                 *)
LoopForeverStays ==
  [][live \subseteq live' => \A c \in Listed : cell[c].limit = 0 => c \in Listed']_vars

(* misc_timer2.h:14 and :20: an event is registered with a "pre-defined    *)
(* interval", "the timer interval": firings are that far apart.            *)
NotBeforeInterval ==
  [][pass.at = "walk" /\ pass'.at = "handler" =>
       Usecs(EventTime(pass.curr)) <= Usecs(pass.tv)]_vars
=============================================================================
