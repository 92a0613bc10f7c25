---------------------------- MODULE TimerProofs -----------------------------
(***************************************************************************)
(* What Timer promises for every set of handlers, delays and bounds, and   *)
(* that it implements TimerContract when malloc returns zeroed memory.     *)
(***************************************************************************)
EXTENDS Timer, TimerLemmas, SequenceTheorems

-----------------------------------------------------------------------------
(* Types and the counter.  number - 1 is a natural number only because the *)
(* list is as long as number says, so the two are proved together.         *)

CountInv == TypeOK /\ CountMatchesList

LEMMA NewEventType ==
  ASSUME TypeOK, NEW k \in Keys, NEW ms \in Delays
  PROVE  NewEvent(k, ms) \in Event
<1>1. now \in Nat /\ ms \in Nat
  BY TimerAssumption DEF TypeOK
<1>2. AddMsec(gettimeofday(now), ms) \in Timeval
  BY <1>1, GettimeofdayType, AddMsecType
<1> QED BY <1>1, <1>2 DEF NewEvent, Event

\* Linking an event: one more event, one more in the counter.
LEMMA LinkEventType ==
  ASSUME CountInv, NEW new \in Event, LinkEvent(new)
  PROVE  /\ events' \in Seq(Event)
         /\ tail' \in {NULL, WILD}
         /\ number' = Len(events')
<1>1. events \in Seq(Event) /\ number = Len(events) /\ tail \in {NULL, WILD}
  BY DEF CountInv, TypeOK, CountMatchesList
<1>2. CASE number = 0 /\ events' = <<new>> /\ tail' \in MallocNext
  BY <1>1, <1>2, TimerAssumption DEF LinkEvent
<1>3. ASSUME NEW i \in 1..(Len(events) + 1), tail' = tail,
             events' = InsertAt(events, i, new)
      PROVE  /\ events' \in Seq(Event) /\ tail' \in {NULL, WILD}
             /\ number' = Len(events')
  BY <1>1, <1>3, InsertAtShape DEF LinkEvent
<1> QED BY <1>2, <1>3 DEF LinkEvent

\* The frame on top of the stack changes its curr and nothing else.
LEMMA SetCurr ==
  ASSUME passes \in Seq(Frame), Depth > 0, NEW c \in Keys \cup {NULL}
  PROVE  /\ [passes EXCEPT ![Depth].curr = c] \in Seq(Frame)
         /\ Len([passes EXCEPT ![Depth].curr = c]) = Depth
<1> DEFINE f == [passes[Depth] EXCEPT !.curr = c]
<1>1. Depth \in 1..Len(passes) /\ Depth \in Nat
  BY DEF Depth
<1>2. passes[Depth] \in Frame
  BY <1>1
<1>3. f \in Frame
  BY <1>2 DEF Frame
<1>4. [passes EXCEPT ![Depth].curr = c] = [passes EXCEPT ![Depth] = f]
  OBVIOUS
<1> HIDE DEF f
<1>5. [passes EXCEPT ![Depth] = f] \in Seq(Frame)
  BY <1>1, <1>3
<1>6. Len([passes EXCEPT ![Depth] = f]) = Depth
  BY <1>1 DEF Depth
<1> QED BY <1>4, <1>5, <1>6

LEMMA CountInvInit == Init => CountInv
BY TimerAssumption DEF Init, CountInv, TypeOK, CountMatchesList

LEMMA CountInvNext == CountInv /\ [Next]_vars => CountInv'
<1> SUFFICES ASSUME CountInv, [Next]_vars PROVE CountInv'
  OBVIOUS
<1> USE DEF CountInv, TypeOK, CountMatchesList
<1>0. Fault => CountInv'
  BY DEF Fault
<1>1. CASE timer_init
  BY <1>1 DEF timer_init
<1>2. CASE timer_cleanup
  <2>1. CASE Fault
    BY <1>0, <2>1
  <2>2. CASE /\ status' = "none" /\ events' = <<>> /\ number' = 0
             /\ UNCHANGED <<tail, passes, now>>
    BY <2>2
  <2> QED BY <1>2, <2>1, <2>2 DEF timer_cleanup
<1>3. ASSUME NEW k \in Keys, NEW ms \in Delays, timer_event_add(k, ms)
      PROVE  CountInv'
  <2>1. CASE Fault
    BY <1>0, <2>1
  <2>2. CASE LinkEvent(NewEvent(k, ms)) /\ UNCHANGED <<status, passes, now>>
    BY <2>2, NewEventType, LinkEventType
  <2> QED BY <1>3, <2>1, <2>2 DEF timer_event_add
<1>4. ASSUME NEW k \in Keys, timer_event_delete(k)
      PROVE  CountInv'
  <2>1. CASE Fault
    BY <1>0, <2>1
  <2>2. ASSUME NEW i \in DOMAIN events,
               events' = RemoveAt(events, i), number' = number - 1,
               UNCHANGED <<status, tail, passes, now>>
        PROVE  CountInv'
    <3>1. i \in 1..Len(events)
      OBVIOUS
    <3>2. events' \in Seq(Event) /\ Len(events') = Len(events) - 1
      BY <2>2, <3>1, RemoveAtShape
    <3> QED BY <2>2, <3>1, <3>2
  <2> QED BY <1>4, <2>1, <2>2 DEF timer_event_delete
<1>5. CASE ExecuteBegin
  <2>1. gettimeofday(now) \in Timeval
    BY GettimeofdayType
  <2> QED BY <1>5, <2>1 DEF ExecuteBegin, Frame
<1>6. CASE ExecuteFire
  <2>1. events # <<>> /\ Depth > 0
    BY <1>6 DEF ExecuteFire, HeadExpired, AtLoopTest
  <2>2. /\ Head(events) \in Event
        /\ Tail(events) \in Seq(Event) /\ Len(Tail(events)) = Len(events) - 1
    BY <2>1
  <2>3. passes' \in Seq(Frame)
    BY <1>6, <2>1, <2>2, SetCurr DEF ExecuteFire, Event
  <2> QED BY <1>6, <2>1, <2>2, <2>3 DEF ExecuteFire
<1>7. CASE CallbackReturns
  BY <1>7, SetCurr DEF CallbackReturns, InCallback
<1>8. CASE ExecuteReturn
  BY <1>8 DEF ExecuteReturn, AtLoopTest, Depth, Front
<1>9. CASE ExecuteFault
  BY <1>0, <1>9 DEF ExecuteFault
<1>10. CASE Tick
  BY <1>10, TimerAssumption DEF Tick
<1>11. CASE UNCHANGED vars
  BY <1>11 DEF vars
<1> QED
  BY <1>1, <1>2, <1>3, <1>4, <1>5, <1>6, <1>7, <1>8, <1>9, <1>10, <1>11 DEF Next

(* The variables keep their types: in particular the counter is never      *)
(* negative and every frame of a pass holds a handler or NULL.             *)
THEOREM TypeCorrect == Spec => []TypeOK
<1>1. CountInv => TypeOK
  BY DEF CountInv
<1> QED BY <1>1, CountInvInit, CountInvNext, PTL DEF Spec

(* The counter is the length of the list in every state of every pass.     *)
THEOREM CountCorrect == Spec => []CountMatchesList
<1>1. CountInv => CountMatchesList
  BY DEF CountInv
<1> QED BY <1>1, CountInvInit, CountInvNext, PTL DEF Spec

-----------------------------------------------------------------------------
(* The list: one event per handler, in the order of expire.                *)

ListInv == CountInv /\ NoDuplicateKeys /\ Sorted

\* Earlier-than is a strict total order on the pairs (sec, usec).
LEMMA EarlierIsAnOrder ==
  ASSUME NEW a \in Timeval, NEW b \in Timeval, NEW c \in Timeval
  PROVE  /\ IS_EARLIER_THAN(a, b) => ~ IS_EARLIER_THAN(b, a)
         /\ IS_EARLIER_THAN(a, b) /\ ~ IS_EARLIER_THAN(c, b) => IS_EARLIER_THAN(a, c)
         /\ ~ IS_EARLIER_THAN(b, a) /\ ~ IS_EARLIER_THAN(c, b)
              => ~ IS_EARLIER_THAN(c, a)
BY DEF IS_EARLIER_THAN, Timeval

\* A sequence without duplicates, in the order of expire.
Ordered(s) ==
  /\ \A i, j \in 1..Len(s) : s[i].key = s[j].key => i = j
  /\ \A i, j \in 1..Len(s) :
        i < j => ~ IS_EARLIER_THAN(s[j].expire, s[i].expire)

LEMMA ListInvIsOrdered ==
  TypeOK => (NoDuplicateKeys /\ Sorted <=> Ordered(events))
BY DEF TypeOK, NoDuplicateKeys, Sorted, Ordered

\* Taking events out keeps the rest ordered; f says where each comes from.
LEMMA SublistOrdered ==
  ASSUME NEW s \in Seq(Event), NEW t \in Seq(Event), Ordered(s),
         NEW f \in [1..Len(t) -> 1..Len(s)],
         \A i \in 1..Len(t) : t[i] = s[f[i]],
         \A i, j \in 1..Len(t) : i < j => f[i] < f[j]
  PROVE  Ordered(t)
<1>1. \A i, j \in 1..Len(t) : f[i] = f[j] => i = j
  <2>1. \A i \in 1..Len(t) : f[i] \in Int /\ i \in Int
    OBVIOUS
  <2>2. \A i, j \in 1..Len(t) : i < j \/ j < i \/ i = j
    OBVIOUS
  <2> QED BY <2>1, <2>2
<1>2. \A i, j \in 1..Len(t) : t[i].key = t[j].key => i = j
  <2> SUFFICES ASSUME NEW i \in 1..Len(t), NEW j \in 1..Len(t),
                      t[i].key = t[j].key
               PROVE  i = j
    OBVIOUS
  <2>1. f[i] \in 1..Len(s) /\ f[j] \in 1..Len(s)
    OBVIOUS
  <2>2. s[f[i]].key = s[f[j]].key
    OBVIOUS
  <2>3. f[i] = f[j]
    BY <2>1, <2>2, Zenon DEF Ordered
  <2> QED BY <1>1, <2>3
<1>3. \A i, j \in 1..Len(t) :
        i < j => ~ IS_EARLIER_THAN(t[j].expire, t[i].expire)
  BY DEF Ordered
<1> QED BY <1>2, <1>3 DEF Ordered

LEMMA RemoveAtOrdered ==
  ASSUME NEW s \in Seq(Event), Ordered(s), NEW i \in 1..Len(s)
  PROVE  Ordered(RemoveAt(s, i))
<1> DEFINE t == RemoveAt(s, i)
           f == [j \in 1..Len(t) |-> IF j < i THEN j ELSE j + 1]
<1>1. /\ t \in Seq(Event) /\ Len(t) = Len(s) - 1
      /\ \A j \in 1..Len(t) : t[j] = s[IF j < i THEN j ELSE j + 1]
  BY RemoveAtShape
<1> HIDE DEF t
<1>2. f \in [1..Len(t) -> 1..Len(s)]
  BY <1>1
<1>3. \A j \in 1..Len(t) : t[j] = s[f[j]]
  BY <1>1
<1>4. \A j, k \in 1..Len(t) : j < k => f[j] < f[k]
  BY <1>1
<1> HIDE DEF f
<1>5. Ordered(t)
  BY <1>1, <1>2, <1>3, <1>4, SublistOrdered
<1> QED BY <1>5 DEF t

LEMMA TailOrdered ==
  ASSUME NEW s \in Seq(Event), Ordered(s), s # <<>>
  PROVE  Ordered(Tail(s))
<1> DEFINE f == [j \in 1..Len(Tail(s)) |-> j + 1]
<1>1. /\ Tail(s) \in Seq(Event) /\ Len(Tail(s)) = Len(s) - 1
      /\ \A j \in 1..Len(Tail(s)) : Tail(s)[j] = s[j + 1]
  OBVIOUS
<1>2. /\ f \in [1..Len(Tail(s)) -> 1..Len(s)]
      /\ \A j \in 1..Len(Tail(s)) : Tail(s)[j] = s[f[j]]
      /\ \A j, k \in 1..Len(Tail(s)) : j < k => f[j] < f[k]
  BY <1>1
<1> HIDE DEF f
<1> QED BY <1>1, <1>2, SublistOrdered

(* The walk of timer_event_add finds the one place that keeps the order:   *)
(* behind everything not later than new, in front of everything later.     *)
LEMMA InsertAtOrdered ==
  ASSUME NEW s \in Seq(Event), Ordered(s),
         NEW new \in Event, \A j \in 1..Len(s) : s[j].key # new.key,
         NEW i \in 1..(Len(s) + 1),
         i <= Len(s) => IS_EARLIER_THAN(new.expire, s[i].expire),
         \A j \in 1..(i - 1) : ~ IS_EARLIER_THAN(new.expire, s[j].expire)
  PROVE  Ordered(InsertAt(s, i, new))
<1> DEFINE t == InsertAt(s, i, new)
           n == Len(s)
<1>1. /\ t \in Seq(Event) /\ Len(t) = n + 1
      /\ \A j \in 1..(n + 1) :
            t[j] = IF j < i THEN s[j] ELSE IF j = i THEN new ELSE s[j - 1]
  BY InsertAtShape
<1> HIDE DEF t
<1>2. n \in Nat /\ i \in 1..(n + 1)
  OBVIOUS
<1>3. /\ \A j, k \in 1..n : s[j].key = s[k].key => j = k
      /\ \A j, k \in 1..n : j < k => ~ IS_EARLIER_THAN(s[k].expire, s[j].expire)
      /\ \A j \in 1..n : s[j].expire \in Timeval
      /\ new.expire \in Timeval
  <2>1. \A j \in 1..n : s[j] \in Event
    OBVIOUS
  <2>2. /\ \A j \in 1..n : s[j].expire \in Timeval
        /\ new.expire \in Timeval
    BY <2>1 DEF Event
  <2> QED BY <2>2, Zenon DEF Ordered
\* Where the element at position j of t was in s (0: it is new).
<1> DEFINE g(j) == IF j < i THEN j ELSE IF j = i THEN 0 ELSE j - 1
<1>4. \A j \in 1..(n + 1) :
         \/ g(j) = 0 /\ j = i /\ t[j] = new
         \/ g(j) \in 1..n /\ j # i /\ t[j] = s[g(j)]
  BY <1>1, <1>2
<1>5. \A j, k \in 1..(n + 1) : j < k /\ j # i /\ k # i => g(j) < g(k)
  BY <1>2
<1>6. \A j \in 1..n : j < i => ~ IS_EARLIER_THAN(new.expire, s[j].expire)
  BY <1>2
<1>7. \A j \in 1..n : j >= i => ~ IS_EARLIER_THAN(s[j].expire, new.expire)
  <2> SUFFICES ASSUME NEW j \in 1..n, j >= i
               PROVE  ~ IS_EARLIER_THAN(s[j].expire, new.expire)
    OBVIOUS
  <2>1. i \in 1..n /\ IS_EARLIER_THAN(new.expire, s[i].expire)
    BY <1>2
  <2>2. i = j \/ ~ IS_EARLIER_THAN(s[j].expire, s[i].expire)
    BY <1>2, <1>3, <2>1
  <2>3. IS_EARLIER_THAN(new.expire, s[j].expire)
    BY <1>3, <2>1, <2>2, EarlierIsAnOrder
  <2> QED BY <1>3, <2>3, EarlierIsAnOrder
<1>8. ASSUME NEW j \in 1..(n + 1), NEW k \in 1..(n + 1), t[j].key = t[k].key
      PROVE  j = k
  <2>1. j < k \/ k < j \/ j = k
    BY <1>2
  <2>2. j = i <=> k = i
    <3>1. i \in 1..(n + 1) /\ t[i] = new
      BY <1>1, <1>2
    <3>2. \A m \in 1..(n + 1) : m # i => t[m].key # new.key
      BY <1>4
    <3> QED BY <1>8, <3>1, <3>2
  <2>3. j # i => g(j) = g(k)
    <3>1. SUFFICES ASSUME j # i, k # i PROVE g(j) = g(k)
      BY <2>2
    <3>2. /\ g(j) \in 1..n /\ t[j] = s[g(j)]
          /\ g(k) \in 1..n /\ t[k] = s[g(k)]
      BY <1>4, <3>1
    <3> HIDE DEF g
    <3>3. s[g(j)].key = s[g(k)].key
      BY <1>8, <3>2
    <3> QED BY <1>3, <3>2, <3>3
  <2> QED BY <1>2, <2>1, <2>2, <2>3
<1>9. ASSUME NEW j \in 1..(n + 1), NEW k \in 1..(n + 1), j < k
      PROVE  ~ IS_EARLIER_THAN(t[k].expire, t[j].expire)
  <2>1. CASE j # i /\ k # i
    BY <1>3, <1>4, <1>5, <1>9, <2>1
  <2>2. CASE k = i
    BY <1>1, <1>2, <1>6, <1>9, <2>2
  <2>3. CASE j = i
    <3>1. t[j] = new /\ t[k] = s[k - 1] /\ k - 1 \in 1..n /\ k - 1 >= i
      BY <1>1, <1>2, <1>9, <2>3
    <3> QED BY <1>7, <3>1
  <2> QED BY <2>1, <2>2, <2>3
<1>10. Ordered(t)
  BY <1>1, <1>8, <1>9 DEF Ordered
<1> QED BY <1>10 DEF t

LEMMA ListInvInit == Init => ListInv
BY CountInvInit DEF Init, ListInv, NoDuplicateKeys, Sorted

LEMMA ListInvNext == ListInv /\ [Next]_vars => ListInv'
<1> SUFFICES ASSUME ListInv, [Next]_vars PROVE ListInv'
  OBVIOUS
<1>1. TypeOK /\ CountInv /\ Ordered(events) /\ CountInv' /\ TypeOK'
  BY CountInvNext, ListInvIsOrdered DEF ListInv, CountInv
<1>2. Ordered(events') => ListInv'
  <2> SUFFICES ASSUME Ordered(events') PROVE NoDuplicateKeys' /\ Sorted'
    BY <1>1 DEF ListInv
  <2>1. events' \in Seq(Event)
    BY <1>1 DEF TypeOK
  <2>2. NoDuplicateKeys'
    BY <2>1 DEF NoDuplicateKeys, Ordered
  <2>3. Sorted'
    BY <2>1 DEF Sorted, Ordered
  <2> QED BY <2>2, <2>3
<1>3. events \in Seq(Event) /\ number = Len(events)
  BY <1>1 DEF TypeOK, CountInv, CountMatchesList
<1>4. CASE UNCHANGED events
  BY <1>1, <1>2, <1>4
<1>5. CASE events' = <<>>
  <2>1. Ordered(<<>>)
    BY DEF Ordered
  <2> QED BY <1>2, <1>5, <2>1
<1>6. ASSUME NEW k \in Keys, NEW ms \in Delays, timer_event_add(k, ms)
      PROVE  ListInv'
  <2> DEFINE new == NewEvent(k, ms)
  <2>1. new \in Event /\ new.key = k
    BY <1>1, NewEventType DEF NewEvent
  <2>2. \A j \in 1..Len(events) : events[j].key # k
    BY <1>3, <1>6 DEF timer_event_add, timer_is_event_present
  <2> HIDE DEF new
  <2>3. CASE number = 0 /\ events' = <<new>>
    <3>1. Ordered(<<new>>)
      BY DEF Ordered
    <3> QED BY <1>2, <2>3, <3>1
  <2>4. ASSUME NEW i \in 1..(Len(events) + 1),
               InsertsAt(new, i), events' = InsertAt(events, i, new)
        PROVE  ListInv'
    <3>1. Ordered(InsertAt(events, i, new))
      BY <1>1, <1>3, <2>1, <2>2, <2>4, InsertAtOrdered DEF InsertsAt
    <3> QED BY <1>2, <2>4, <3>1
  <2>5. CASE Fault
    BY <1>4, <2>5 DEF Fault
  <2> QED BY <1>6, <2>3, <2>4, <2>5 DEF timer_event_add, LinkEvent, new
<1>7. ASSUME NEW k \in Keys, timer_event_delete(k)
      PROVE  ListInv'
  <2>1. CASE Fault
    BY <1>4, <2>1 DEF Fault
  <2>2. ASSUME NEW i \in DOMAIN events, events' = RemoveAt(events, i)
        PROVE  ListInv'
    BY <1>1, <1>2, <1>3, <2>2, RemoveAtOrdered
  <2> QED BY <1>7, <2>1, <2>2 DEF timer_event_delete
<1>8. CASE ExecuteFire
  BY <1>1, <1>2, <1>3, <1>8, TailOrdered DEF ExecuteFire, HeadExpired
<1>9. timer_cleanup => UNCHANGED events \/ events' = <<>>
  BY DEF timer_cleanup, Fault
<1>10. timer_init => events' = <<>>
  BY DEF timer_init
<1>11. ExecuteBegin \/ CallbackReturns \/ ExecuteReturn \/ ExecuteFault \/ Tick
         \/ UNCHANGED vars => UNCHANGED events
  BY DEF ExecuteBegin, CallbackReturns, ExecuteReturn, ExecuteFault, Fault, Tick, vars
<1> QED BY <1>4, <1>5, <1>6, <1>7, <1>8, <1>9, <1>10, <1>11 DEF Next

(* A handler is registered at most once.                                   *)
THEOREM NoDuplicates == Spec => []NoDuplicateKeys
<1>1. ListInv => NoDuplicateKeys
  BY DEF ListInv
<1> QED BY <1>1, ListInvInit, ListInvNext, PTL DEF Spec

(* The list is sorted by expire, whatever the clock does.                  *)
THEOREM AlwaysSorted == Spec => []Sorted
<1>1. ListInv => Sorted
  BY DEF ListInv
<1> QED BY <1>1, ListInvInit, ListInvNext, PTL DEF Spec

-----------------------------------------------------------------------------
(* Equal expire: nobody is put in front of an event that waits.            *)

\* Taking events out keeps their places; m says where each comes from.
LEMMA SublistKeepsPlaces ==
  ASSUME NEW s \in Seq(Event), NEW t \in Seq(Event),
         NEW m \in [1..Len(t) -> 1..Len(s)],
         \A i \in 1..Len(t) : t[i] = s[m[i]],
         \A i, j \in 1..Len(t) : i < j => m[i] < m[j],
         NEW e, NEW f, Before(t, f, e)
  PROVE  Before(s, f, e)
<1>1. DOMAIN s = 1..Len(s) /\ DOMAIN t = 1..Len(t)
  OBVIOUS
<1>2. PICK i \in 1..Len(t), j \in 1..Len(t) : i < j /\ t[i] = f /\ t[j] = e
  BY <1>1 DEF Before
<1>3. /\ m[i] \in 1..Len(s) /\ m[j] \in 1..Len(s) /\ m[i] < m[j]
      /\ s[m[i]] = f /\ s[m[j]] = e
  BY <1>2
<1> QED BY <1>1, <1>3 DEF Before

LEMMA RemoveAtKeepsPlaces ==
  ASSUME NEW s \in Seq(Event), NEW n \in 1..Len(s),
         NEW e, NEW f, Before(RemoveAt(s, n), f, e)
  PROVE  Before(s, f, e)
<1> DEFINE t == RemoveAt(s, n)
           m == [j \in 1..Len(t) |-> IF j < n THEN j ELSE j + 1]
<1>1. /\ t \in Seq(Event) /\ Len(t) = Len(s) - 1
      /\ \A j \in 1..Len(t) : t[j] = s[IF j < n THEN j ELSE j + 1]
  BY RemoveAtShape
<1>2. Before(t, f, e)
  OBVIOUS
<1> HIDE DEF t
<1>3. /\ m \in [1..Len(t) -> 1..Len(s)]
      /\ \A j \in 1..Len(t) : t[j] = s[m[j]]
      /\ \A j, k \in 1..Len(t) : j < k => m[j] < m[k]
  BY <1>1
<1> HIDE DEF m
<1> QED BY <1>1, <1>2, <1>3, SublistKeepsPlaces

LEMMA TailKeepsPlaces ==
  ASSUME NEW s \in Seq(Event), s # <<>>, NEW e, NEW f, Before(Tail(s), f, e)
  PROVE  Before(s, f, e)
<1> DEFINE m == [j \in 1..Len(Tail(s)) |-> j + 1]
<1>1. /\ Tail(s) \in Seq(Event) /\ Len(Tail(s)) = Len(s) - 1
      /\ \A j \in 1..Len(Tail(s)) : Tail(s)[j] = s[j + 1]
  OBVIOUS
<1>2. /\ m \in [1..Len(Tail(s)) -> 1..Len(s)]
      /\ \A j \in 1..Len(Tail(s)) : Tail(s)[j] = s[m[j]]
      /\ \A j, k \in 1..Len(Tail(s)) : j < k => m[j] < m[k]
  BY <1>1
<1> HIDE DEF m
<1> QED BY <1>1, <1>2, SublistKeepsPlaces

(* The walk of timer_event_add goes past every event with the expire of    *)
(* the new one: what is behind the new one is later.                       *)
LEMMA InsertAtKeepsPlaces ==
  ASSUME NEW s \in Seq(Event), Ordered(s), NEW new \in Event, new \notin ToSet(s),
         NEW n \in 1..(Len(s) + 1),
         n <= Len(s) => IS_EARLIER_THAN(new.expire, s[n].expire),
         NEW e, NEW f, e.expire = f.expire, e \in ToSet(s),
         Before(InsertAt(s, n, new), f, e)
  PROVE  Before(s, f, e)
<1> DEFINE t == InsertAt(s, n, new)
           old(j) == IF j < n THEN j ELSE j - 1
<1>1. /\ t \in Seq(Event) /\ Len(t) = Len(s) + 1
      /\ \A j \in 1..(Len(s) + 1) :
            t[j] = IF j < n THEN s[j] ELSE IF j = n THEN new ELSE s[j - 1]
  BY InsertAtShape
<1>2. Before(t, f, e)
  OBVIOUS
<1> HIDE DEF t
<1>3. DOMAIN s = 1..Len(s) /\ DOMAIN t = 1..(Len(s) + 1)
  BY <1>1
<1>4. PICK i \in 1..(Len(s) + 1), j \in 1..(Len(s) + 1) :
        i < j /\ t[i] = f /\ t[j] = e
  BY <1>2, <1>3 DEF Before
<1>5. \A k \in 1..(Len(s) + 1) : k # n => old(k) \in 1..Len(s) /\ t[k] = s[old(k)]
  BY <1>1
<1>6. t[n] = new /\ n \in 1..(Len(s) + 1)
  BY <1>1
<1>7. j # n
  BY <1>4, <1>6
<1>8. i # n
  <2> SUFFICES ASSUME i = n PROVE FALSE
    OBVIOUS
  <2>1. /\ j - 1 \in 1..Len(s) /\ n \in 1..Len(s) /\ n <= j - 1 /\ e = s[j - 1]
        /\ f = new
    BY <1>1, <1>4, <1>6
  <2>2. /\ s[n].expire \in Timeval /\ s[j - 1].expire \in Timeval
        /\ new.expire \in Timeval
    <3>1. s[n] \in Event /\ s[j - 1] \in Event
      BY <2>1
    <3> QED BY <3>1 DEF Event
  <2>3. IS_EARLIER_THAN(new.expire, s[n].expire)
    BY <2>1
  <2>4. n = j - 1 \/ ~ IS_EARLIER_THAN(s[j - 1].expire, s[n].expire)
    BY <2>1 DEF Ordered
  <2>5. IS_EARLIER_THAN(new.expire, s[j - 1].expire)
    BY <2>2, <2>3, <2>4, EarlierIsAnOrder
  <2> QED BY <2>1, <2>2, <2>5, EarlierIsAnOrder
<1>9. /\ old(i) \in 1..Len(s) /\ old(j) \in 1..Len(s)
      /\ s[old(i)] = f /\ s[old(j)] = e
  BY <1>4, <1>5, <1>7, <1>8
<1>10. old(i) < old(j)
  BY <1>4, <1>7, <1>8
<1> HIDE DEF old
<1> QED BY <1>3, <1>9, <1>10 DEF Before

(* Of two events with the same expire the one that was added first fires   *)
(* first: no step puts an event in front of one that is there.             *)
THEOREM EqualExpiryInOrder == Spec => EqualExpiryIsFIFO
<1>1. ListInv /\ [Next]_vars =>
        \A e, f \in ToSet(events') :
           /\ e.expire = f.expire
           /\ e \in ToSet(events)
           /\ Before(events', f, e)
           => Before(events, f, e)
  <2> SUFFICES ASSUME ListInv, [Next]_vars,
                      NEW e, NEW f, e.expire = f.expire,
                      e \in ToSet(events), Before(events', f, e)
               PROVE  Before(events, f, e)
    OBVIOUS
  <2>1. /\ TypeOK /\ Ordered(events)
        /\ events \in Seq(Event) /\ number = Len(events)
    BY ListInvIsOrdered DEF ListInv, CountInv, TypeOK, CountMatchesList
  <2>2. CASE UNCHANGED events
    BY <2>2
  <2>3. CASE events' = <<>>
    BY <2>3 DEF Before
  <2>4. ASSUME NEW k \in Keys, NEW ms \in Delays, timer_event_add(k, ms)
        PROVE  Before(events, f, e)
    <3> DEFINE new == NewEvent(k, ms)
    <3>1. new \in Event /\ new.key = k
      BY <2>1, NewEventType DEF NewEvent
    <3>2. new \notin ToSet(events)
      BY <2>4, <3>1 DEF timer_event_add, timer_is_event_present, ToSet
    <3> HIDE DEF new
    <3>3. CASE events' = <<new>>
      BY <3>3 DEF Before
    <3>4. ASSUME NEW n \in 1..(Len(events) + 1),
                 InsertsAt(new, n), events' = InsertAt(events, n, new)
          PROVE  Before(events, f, e)
      BY <2>1, <3>1, <3>2, <3>4, InsertAtKeepsPlaces DEF InsertsAt
    <3>5. CASE Fault
      BY <2>2, <3>5 DEF Fault
    <3> QED BY <2>4, <3>3, <3>4, <3>5 DEF timer_event_add, LinkEvent, new
  <2>5. ASSUME NEW k \in Keys, timer_event_delete(k)
        PROVE  Before(events, f, e)
    <3>1. CASE Fault
      BY <2>2, <3>1 DEF Fault
    <3>2. ASSUME NEW n \in DOMAIN events, events' = RemoveAt(events, n)
          PROVE  Before(events, f, e)
      BY <2>1, <3>2, RemoveAtKeepsPlaces
    <3> QED BY <2>5, <3>1, <3>2 DEF timer_event_delete
  <2>6. CASE ExecuteFire
    BY <2>1, <2>6, TailKeepsPlaces DEF ExecuteFire, HeadExpired
  <2>7. timer_init \/ timer_cleanup => UNCHANGED events \/ events' = <<>>
    BY DEF timer_init, timer_cleanup, Fault
  <2>8. ExecuteBegin \/ CallbackReturns \/ ExecuteReturn \/ ExecuteFault \/ Tick
          \/ UNCHANGED vars => UNCHANGED events
    BY DEF ExecuteBegin, CallbackReturns, ExecuteReturn, ExecuteFault, Fault, Tick, vars
  <2> QED BY <2>2, <2>3, <2>4, <2>5, <2>6, <2>7, <2>8 DEF Next
<1> QED BY <1>1, ListInvInit, ListInvNext, PTL DEF Spec, EqualExpiryIsFIFO

-----------------------------------------------------------------------------
(* Time.  Every expire is the instant asked for, written without a carry;  *)
(* every pass holds a reading of the clock, which is normalised.           *)

Dated(e) == e.expire = AddMsec(gettimeofday(e.born), e.ms)

ClockInv ==
  /\ \A i \in 1..Len(events) : Dated(events[i])
  /\ \A i \in 1..Len(passes) : passes[i].tv.usec < USECS_IN_SEC

IInv == ListInv /\ ClockInv

\* A later second starts at least a second later.
LEMMA NextSecond ==
  ASSUME NEW m \in Nat, NEW n \in Nat
  PROVE  /\ m * USECS_IN_SEC \in Nat
         /\ m < n => m * USECS_IN_SEC + USECS_IN_SEC <= n * USECS_IN_SEC
<1> DEFINE U == USECS_IN_SEC
<1>1. U \in Nat
  BY UsecsPositive
<1> HIDE DEF U
<1>2. ASSUME m < n PROVE m * U + U <= n * U
  <2>1. PICK d \in Nat : n = m + 1 + d
    <3>1. n - m - 1 \in Nat /\ n = m + 1 + (n - m - 1)
      BY <1>2
    <3> QED BY <3>1
  <2>2. n * U = m * U + U + d * U /\ d * U \in Nat /\ m * U \in Nat
    BY <1>1, <2>1
  <2> QED BY <1>1, <2>2
<1> QED BY <1>1, <1>2 DEF U

LEMMA InstantsAreNat ==
  /\ \A tv \in Timeval : Usecs(tv) \in Nat
  /\ \A e \in Event : Due(e) \in Nat
<1>1. ASSUME NEW tv \in Timeval PROVE Usecs(tv) \in Nat
  <2> DEFINE x == tv.sec * USECS_IN_SEC
  <2>1. x \in Nat /\ tv.usec \in Nat
    BY NextSecond DEF Timeval
  <2>2. Usecs(tv) = x + tv.usec
    BY DEF Usecs
  <2> HIDE DEF x
  <2> QED BY <2>1, <2>2
<1>2. ASSUME NEW e \in Event PROVE Due(e) \in Nat
  <2> DEFINE x == e.ms * MSECS_IN_SEC
  <2>1. e.ms \in Nat /\ e.born \in Nat
    BY TimerAssumption DEF Event
  <2>2. x \in Nat /\ Due(e) = e.born + x
    BY <2>1, MsecsAssumption DEF Due
  <2> HIDE DEF x
  <2> QED BY <2>1, <2>2
<1> QED BY <1>1, <1>2

\* The two orders, on pairs and on microseconds, agree to within a second.
LEMMA PairsAndUsecs ==
  ASSUME NEW a \in Timeval, NEW b \in Timeval
  PROVE  /\ b.usec < USECS_IN_SEC /\ Usecs(a) < Usecs(b) => IS_EARLIER_THAN(a, b)
         /\ a.usec < 2 * USECS_IN_SEC /\ ~ IS_EARLIER_THAN(b, a)
              => Usecs(a) < Usecs(b) + USECS_IN_SEC
<1> DEFINE U == USECS_IN_SEC
           x == a.sec * U
           y == b.sec * U
<1>1. U \in Nat /\ U > 0
  BY UsecsPositive
<1>2. a.sec \in Nat /\ a.usec \in Nat /\ b.sec \in Nat /\ b.usec \in Nat
  BY DEF Timeval
<1> HIDE DEF U
<1>3. x \in Nat /\ y \in Nat
  BY <1>1, <1>2
<1>4. a.sec = b.sec => x = y
  OBVIOUS
<1>5. a.sec < b.sec => x + U <= y
  BY <1>2, NextSecond DEF U
<1>6. b.sec < a.sec => y + U <= x
  BY <1>2, NextSecond DEF U
<1>7. Usecs(a) = x + a.usec /\ Usecs(b) = y + b.usec
  BY DEF Usecs, U
<1> HIDE DEF x, y
<1>8. b.usec < U /\ x + a.usec < y + b.usec => IS_EARLIER_THAN(a, b)
  BY <1>1, <1>2, <1>3, <1>4, <1>6 DEF IS_EARLIER_THAN
<1>9. a.usec < 2 * U /\ ~ IS_EARLIER_THAN(b, a) => x + a.usec < y + b.usec + U
  BY <1>1, <1>2, <1>3, <1>4, <1>5 DEF IS_EARLIER_THAN
<1> QED BY <1>7, <1>8, <1>9 DEF U

\* What the fields of a dated event say of the instant asked for.
LEMMA DatedEvent ==
  ASSUME NEW e \in Event, Dated(e)
  PROVE  /\ e.expire \in Timeval
         /\ e.expire.usec < 2 * USECS_IN_SEC
         /\ Usecs(e.expire) = Due(e)
         /\ \A tv \in Timeval : tv.usec < USECS_IN_SEC =>
               /\ Due(e) < Usecs(tv) => IS_EARLIER_THAN(e.expire, tv)
               /\ IS_EARLIER_THAN(e.expire, tv) =>
                    /\ Due(e) < Usecs(tv) + USECS_IN_SEC
                    /\ e.born < Usecs(tv)
<1> DEFINE g == gettimeofday(e.born)
<1>1. e.born \in Nat /\ e.ms \in Nat /\ e.expire \in Timeval
  BY TimerAssumption DEF Event
<1>2. g \in Timeval /\ g.usec < USECS_IN_SEC /\ Usecs(g) = e.born
  BY <1>1, GettimeofdayType
<1>3. e.expire = AddMsec(g, e.ms)
  BY DEF Dated
<1> HIDE DEF g
<1>4. /\ e.expire.sec >= g.sec /\ e.expire.usec >= g.usec
      /\ e.expire.usec < g.usec + USECS_IN_SEC
      /\ Usecs(e.expire) = Due(e)
  BY <1>1, <1>2, <1>3, AddMsecType DEF Due
<1>5. USECS_IN_SEC \in Nat /\ g.sec \in Nat /\ g.usec \in Nat
      /\ e.expire.sec \in Nat /\ e.expire.usec \in Nat
  BY <1>1, <1>2, UsecsPositive DEF Timeval
<1>6. e.expire.usec < 2 * USECS_IN_SEC
  BY <1>2, <1>4, <1>5
<1>7. ASSUME NEW tv \in Timeval, tv.usec < USECS_IN_SEC
      PROVE  /\ Due(e) < Usecs(tv) => IS_EARLIER_THAN(e.expire, tv)
             /\ IS_EARLIER_THAN(e.expire, tv) =>
                    /\ Due(e) < Usecs(tv) + USECS_IN_SEC
                    /\ e.born < Usecs(tv)
  <2>1. Due(e) < Usecs(tv) => IS_EARLIER_THAN(e.expire, tv)
    BY <1>1, <1>4, <1>7, PairsAndUsecs
  <2>2. ASSUME IS_EARLIER_THAN(e.expire, tv)
        PROVE  Due(e) < Usecs(tv) + USECS_IN_SEC
    BY <1>1, <1>4, <1>6, <2>2, PairsAndUsecs, EarlierIsAnOrder
  <2>3. ASSUME IS_EARLIER_THAN(e.expire, tv)
        PROVE  e.born < Usecs(tv)
    <3>1. IS_EARLIER_THAN(g, tv)
      BY <1>4, <1>5, <2>3 DEF IS_EARLIER_THAN, Timeval
    <3>2. CASE g.sec = tv.sec
      BY <1>2, <1>5, <3>1, <3>2 DEF IS_EARLIER_THAN, Usecs, Timeval
    <3>3. CASE g.sec < tv.sec
      <4>1. tv.sec \in Nat /\ tv.usec \in Nat
        BY DEF Timeval
      <4> DEFINE x == g.sec * USECS_IN_SEC
                 y == tv.sec * USECS_IN_SEC
      <4>2. x \in Nat /\ y \in Nat /\ x + USECS_IN_SEC <= y
        BY <1>5, <3>3, <4>1, NextSecond
      <4>3. Usecs(tv) = y + tv.usec /\ e.born = x + g.usec
        BY <1>2 DEF Usecs
      <4> HIDE DEF x, y
      <4> QED BY <1>2, <1>5, <4>1, <4>2, <4>3
    <3> QED BY <1>5, <3>1, <3>2, <3>3 DEF IS_EARLIER_THAN
  <2> QED BY <2>1, <2>2, <2>3
<1> QED BY <1>1, <1>4, <1>6, <1>7

LEMMA IInvInit == Init => IInv
BY ListInvInit DEF Init, IInv, ClockInv

LEMMA IInvNext == IInv /\ [Next]_vars => IInv'
<1> SUFFICES ASSUME IInv, [Next]_vars PROVE ClockInv'
  BY ListInvNext DEF IInv
<1>1. TypeOK /\ number = Len(events)
  BY DEF IInv, ListInv, CountInv, CountMatchesList
<1>2. /\ events \in Seq(Event) /\ passes \in Seq(Frame) /\ now \in Nat
      /\ \A i \in 1..Len(events) : Dated(events[i])
      /\ \A i \in 1..Len(passes) : passes[i].tv.usec < USECS_IN_SEC
  BY <1>1, TimerAssumption DEF IInv, ClockInv, TypeOK
<1> DEFINE EventsOK == \A i \in 1..Len(events') : Dated(events'[i])
           PassesOK == \A i \in 1..Len(passes') : passes'[i].tv.usec < USECS_IN_SEC
<1>3. EventsOK /\ PassesOK => ClockInv'
  BY DEF ClockInv, Dated
<1>4. UNCHANGED events => EventsOK
  BY <1>2
<1>5. UNCHANGED passes => PassesOK
  BY <1>2
<1>6. events' = <<>> => EventsOK
  OBVIOUS
<1>7. CASE Fault
  BY <1>3, <1>4, <1>5, <1>7 DEF Fault
<1>8. CASE timer_init \/ timer_cleanup
  BY <1>3, <1>5, <1>6, <1>7, <1>8 DEF timer_init, timer_cleanup
<1>9. ASSUME NEW k \in Keys, NEW ms \in Delays, timer_event_add(k, ms)
      PROVE  ClockInv'
  <2> DEFINE new == NewEvent(k, ms)
  <2>1. new \in Event /\ Dated(new)
    BY <1>1, NewEventType DEF NewEvent, Dated
  <2> HIDE DEF new
  <2>2. CASE events' = <<new>> /\ UNCHANGED passes
    BY <1>3, <1>5, <2>1, <2>2
  <2>3. ASSUME NEW i \in 1..(Len(events) + 1), UNCHANGED passes,
               events' = InsertAt(events, i, new)
        PROVE  ClockInv'
    <3>1. /\ Len(events') = Len(events) + 1
          /\ \A j \in 1..(Len(events) + 1) :
                events'[j] = IF j < i THEN events[j]
                             ELSE IF j = i THEN new ELSE events[j - 1]
      BY <1>2, <2>1, <2>3, InsertAtShape
    <3>2. \A j \in 1..(Len(events) + 1) :
            (j < i => j \in 1..Len(events)) /\ (j > i => j - 1 \in 1..Len(events))
      BY <1>2
    <3>3. ASSUME NEW j \in 1..(Len(events) + 1)
          PROVE  Dated(events'[j])
      <4>1. j < i \/ j = i \/ j > i
        BY <1>2
      <4>2. CASE j < i
        BY <1>2, <3>1, <3>2, <4>2
      <4>3. CASE j = i
        BY <2>1, <3>1, <4>3
      <4>4. CASE j > i
        <5>1. events'[j] = events[j - 1] /\ j - 1 \in 1..Len(events)
          BY <1>2, <3>1, <3>2, <4>4
        <5> QED BY <1>2, <5>1
      <4> QED BY <4>1, <4>2, <4>3, <4>4
    <3>4. EventsOK
      BY <3>1, <3>3
    <3> QED BY <1>3, <1>5, <2>3, <3>4
  <2> QED BY <1>7, <1>9, <2>2, <2>3 DEF timer_event_add, LinkEvent, new
<1>10. ASSUME NEW k \in Keys, timer_event_delete(k)
       PROVE  ClockInv'
  <2>1. ASSUME NEW i \in DOMAIN events, events' = RemoveAt(events, i), UNCHANGED passes
        PROVE  ClockInv'
    <3>0. i \in 1..Len(events)
      BY <1>2
    <3>1. /\ Len(events') = Len(events) - 1
          /\ \A j \in 1..(Len(events) - 1) :
                events'[j] = events[IF j < i THEN j ELSE j + 1]
      BY <1>2, <2>1, <3>0, RemoveAtShape
    <3>2. EventsOK
      BY <1>2, <2>1, <3>1
    <3> QED BY <1>3, <1>5, <2>1, <3>2
  <2> QED BY <1>7, <1>10, <2>1 DEF timer_event_delete
<1>11. CASE ExecuteBegin
  <2>1. gettimeofday(now).usec < USECS_IN_SEC
    BY <1>2, GettimeofdayType
  <2>2. PassesOK
    BY <1>2, <1>11, <2>1 DEF ExecuteBegin
  <2> QED BY <1>3, <1>4, <1>11, <2>2 DEF ExecuteBegin
<1>12. ASSUME NEW c, Depth > 0, passes' = [passes EXCEPT ![Depth].curr = c]
       PROVE  PassesOK
  <2>1. Len(passes') = Len(passes)
        /\ \A i \in 1..Len(passes) : passes'[i].tv = passes[i].tv
    BY <1>2, <1>12 DEF Depth, Frame
  <2> QED BY <1>2, <2>1
<1>13. CASE ExecuteFire
  <2>1. EventsOK
    <3>1. events # <<>> /\ events' = Tail(events)
      BY <1>13 DEF ExecuteFire, HeadExpired
    <3>2. /\ Len(events') = Len(events) - 1
          /\ \A j \in 1..(Len(events) - 1) : events'[j] = events[j + 1]
      BY <1>2, <3>1
    <3> QED BY <1>2, <3>2
  <2> QED BY <1>3, <1>12, <1>13, <2>1 DEF ExecuteFire, AtLoopTest
<1>14. CASE CallbackReturns
  BY <1>3, <1>4, <1>12, <1>14 DEF CallbackReturns, InCallback
<1>15. CASE ExecuteReturn
  <2>1. PassesOK
    BY <1>2, <1>15 DEF ExecuteReturn, AtLoopTest, Depth, Front
  <2> QED BY <1>3, <1>4, <1>15, <2>1 DEF ExecuteReturn
<1>16. CASE ExecuteFault
  BY <1>7, <1>16 DEF ExecuteFault
<1>17. CASE Tick
  BY <1>3, <1>4, <1>5, <1>17 DEF Tick
<1>18. CASE UNCHANGED vars
  BY <1>3, <1>4, <1>5, <1>18 DEF vars
<1> QED BY <1>8, <1>9, <1>10, <1>11, <1>13, <1>14, <1>15, <1>16, <1>17, <1>18 DEF Next

LEMMA IInvHolds == Spec => []IInv
BY IInvInit, IInvNext, PTL DEF Spec

\* Only the loop of a pass makes a handler run.
LEMMA OnlyTheLoopFires ==
  ASSUME IInv, [Next]_vars, NEW e, Fires(e)
  PROVE  /\ e \in Event /\ Dated(e)
         /\ passes[Depth].tv \in Timeval /\ passes[Depth].tv.usec < USECS_IN_SEC
         /\ IS_EARLIER_THAN(e.expire, passes[Depth].tv)
<1>1. /\ events \in Seq(Event) /\ passes \in Seq(Frame)
      /\ \A i \in 1..Len(events) : Dated(events[i])
      /\ \A i \in 1..Len(passes) : passes[i].tv.usec < USECS_IN_SEC
  BY DEF IInv, ListInv, CountInv, TypeOK, ClockInv
<1>2. /\ Depth > 0 /\ Len(passes') = Depth /\ e = Head(events)
      /\ passes[Depth].curr = NULL /\ passes'[Depth].curr # NULL
  BY DEF Fires
<1>3. passes' # passes
  BY <1>2
<1>4. ExecuteFire
  <2>1. ~ ExecuteBegin
    BY <1>1, <1>2 DEF ExecuteBegin, Depth
  <2>2. ~ ExecuteReturn
    BY <1>1, <1>2 DEF ExecuteReturn, AtLoopTest, Depth, Front
  <2>3. ~ CallbackReturns
    BY <1>1, <1>2 DEF CallbackReturns, InCallback
  <2>4. timer_init \/ timer_cleanup \/ ExecuteFault \/ Tick \/ UNCHANGED vars
          => UNCHANGED passes
    BY DEF timer_init, timer_cleanup, ExecuteFault, Tick, Fault, vars
  <2>5. \A k \in Keys, ms \in Delays : timer_event_add(k, ms) => UNCHANGED passes
    BY DEF timer_event_add, Fault
  <2>6. \A k \in Keys : timer_event_delete(k) => UNCHANGED passes
    BY DEF timer_event_delete, Fault
  <2> QED BY <1>3, <2>1, <2>2, <2>3, <2>4, <2>5, <2>6 DEF Next
<1>5. events # <<>> /\ IS_EARLIER_THAN(e.expire, passes[Depth].tv)
  BY <1>2, <1>4 DEF ExecuteFire, HeadExpired
<1>6. e = events[1] /\ 1 \in 1..Len(events)
  BY <1>1, <1>2, <1>5
<1>7. Depth \in 1..Len(passes)
  BY <1>1, <1>2 DEF Depth
<1>8. passes[Depth] \in Frame /\ e \in Event
  BY <1>1, <1>6, <1>7
<1> QED BY <1>1, <1>5, <1>6, <1>7, <1>8 DEF Frame

(* An event fires early by less than a second, whatever ms was and however *)
(* the clock was set back.                                                 *)
THEOREM NeverASecondEarly == Spec => EarlyByLessThanASecond
<1>1. IInv /\ [Next]_vars =>
        \A e \in ToSet(events) :
           Fires(e) => Due(e) < Usecs(passes[Depth].tv) + USECS_IN_SEC
  BY OnlyTheLoopFires, DatedEvent
<1> QED BY <1>1, IInvHolds, PTL DEF Spec, EarlyByLessThanASecond

(* A pass fires only events added at an earlier instant than the one it    *)
(* read when it began.                                                     *)
THEOREM OnlyOlderEventsFire == Spec => RearmedWaitsForNextPass
<1>1. IInv /\ [Next]_vars =>
        \A e \in ToSet(events) : Fires(e) => e.born < Usecs(passes[Depth].tv)
  BY OnlyTheLoopFires, DatedEvent
<1> QED BY <1>1, IInvHolds, PTL DEF Spec, RearmedWaitsForNextPass

(* When the loop stops at a head that is not expired, nothing behind it is *)
(* due, in microseconds.                                                   *)
LEMMA NothingDueBehindHead ==
  ASSUME IInv, Depth > 0, ~ HeadExpired, NEW i \in 1..Len(events)
  PROVE  Due(events[i]) >= Usecs(passes[Depth].tv)
<1> DEFINE tv == passes[Depth].tv
           e == events[i]
           h == events[1]
<1>1. /\ events \in Seq(Event) /\ passes \in Seq(Frame)
      /\ \A j \in 1..Len(events) : Dated(events[j])
      /\ \A j \in 1..Len(passes) : passes[j].tv.usec < USECS_IN_SEC
  BY DEF IInv, ListInv, CountInv, TypeOK, ClockInv
<1>2. Depth \in 1..Len(passes)
  BY <1>1 DEF Depth
<1>3. tv \in Timeval /\ tv.usec < USECS_IN_SEC
  <2>1. passes[Depth] \in Frame
    BY <1>1, <1>2
  <2> QED BY <1>1, <1>2, <2>1 DEF Frame
<1>4. e \in Event /\ h \in Event /\ Dated(e) /\ 1 \in 1..Len(events)
  BY <1>1
<1>5. events # <<>> /\ Head(events) = h
  BY <1>1, <1>4
<1>6. ~ IS_EARLIER_THAN(h.expire, tv)
  BY <1>5 DEF HeadExpired
<1>7. i = 1 \/ ~ IS_EARLIER_THAN(e.expire, h.expire)
  BY <1>1, <1>4 DEF IInv, ListInv, Sorted
<1>8. ~ IS_EARLIER_THAN(e.expire, tv)
  BY <1>3, <1>4, <1>6, <1>7, EarlierIsAnOrder DEF Event
<1>9. ~ (Due(e) < Usecs(tv))
  BY <1>3, <1>4, <1>8, DatedEvent
<1>10. Due(e) \in Nat /\ Usecs(tv) \in Nat
  BY <1>3, <1>4, InstantsAreNat
<1> QED BY <1>9, <1>10

(* A pass returns only when nothing is left that was due when it began.    *)
THEOREM PassFiresAllDue == Spec => PassLeavesNothingDue
<1>1. IInv /\ [Next]_vars =>
        (Len(passes') < Depth =>
           \A e \in ToSet(events) : Due(e) >= Usecs(passes[Depth].tv))
  <2> SUFFICES ASSUME IInv, [Next]_vars, Len(passes') < Depth,
                      NEW e \in ToSet(events)
               PROVE  Due(e) >= Usecs(passes[Depth].tv)
    OBVIOUS
  <2>1. passes \in Seq(Frame) /\ events \in Seq(Event)
    BY DEF IInv, ListInv, CountInv, TypeOK
  <2>2. passes' # passes
    BY <2>1 DEF Depth
  <2>3. ~ ExecuteBegin
    BY <2>1 DEF ExecuteBegin, Depth
  <2>4. ~ ExecuteFire /\ ~ CallbackReturns
    BY <2>1 DEF ExecuteFire, CallbackReturns, Depth
  <2>5. timer_init \/ timer_cleanup \/ ExecuteFault \/ Tick \/ UNCHANGED vars
          => UNCHANGED passes
    BY DEF timer_init, timer_cleanup, ExecuteFault, Tick, Fault, vars
  <2>6. \A k \in Keys, ms \in Delays : timer_event_add(k, ms) => UNCHANGED passes
    BY DEF timer_event_add, Fault
  <2>7. \A k \in Keys : timer_event_delete(k) => UNCHANGED passes
    BY DEF timer_event_delete, Fault
  <2>8. ExecuteReturn
    BY <2>2, <2>3, <2>4, <2>5, <2>6, <2>7 DEF Next
  <2>9. PICK i \in 1..Len(events) : e = events[i]
    BY <2>1 DEF ToSet
  <2> QED BY <2>8, <2>9, NothingDueBehindHead DEF ExecuteReturn, AtLoopTest
<1> QED BY <1>1, IInvHolds, PTL DEF Spec, PassLeavesNothingDue
-----------------------------------------------------------------------------
(* The refinement of TimerContract: the events, the clock and the passes   *)
(* of the code are those of the contract, the order of the list is not.    *)

AbsFrames == [asOf : Nat, running : Keys \cup {NULL}]

-----------------------------------------------------------------------------
LEMMA ArmedInsert ==
  ASSUME NEW s \in Seq(Event), NEW new \in Event, NEW i \in 1..(Len(s) + 1)
  PROVE  Armed(InsertAt(s, i, new)) = Armed(s) \cup {Abs(new)}
<1> DEFINE t == InsertAt(s, i, new)
<1>1. /\ t \in Seq(Event) /\ Len(t) = Len(s) + 1
      /\ \A j \in 1..(Len(s) + 1) :
            t[j] = IF j < i THEN s[j] ELSE IF j = i THEN new ELSE s[j - 1]
  <2>1. t \in Seq(Event)
    BY InsertAtShape
  <2>2. Len(t) = Len(s) + 1
    BY InsertAtShape
  <2>3. \A j \in 1..(Len(s) + 1) :
            t[j] = IF j < i THEN s[j] ELSE IF j = i THEN new ELSE s[j - 1]
    BY InsertAtShape
  <2> QED BY <2>1, <2>2, <2>3
<1> HIDE DEF t
<1>2. DOMAIN s = 1..Len(s) /\ DOMAIN t = 1..(Len(s) + 1) /\ Len(s) \in Nat
  BY <1>1
<1>3. \A j \in 1..(Len(s) + 1) : t[j] = new \/ \E k \in 1..Len(s) : t[j] = s[k]
  <2> SUFFICES ASSUME NEW j \in 1..(Len(s) + 1)
               PROVE  t[j] = new \/ \E k \in 1..Len(s) : t[j] = s[k]
    OBVIOUS
  <2>1. CASE j < i
    BY <1>1, <1>2, <2>1
  <2>2. CASE j = i
    BY <1>1, <2>2
  <2>3. CASE j > i
    <3>1. j - 1 \in 1..Len(s) /\ t[j] = s[j - 1]
      BY <1>1, <1>2, <2>3
    <3> QED BY <3>1
  <2> QED BY <1>2, <2>1, <2>2, <2>3
<1>4. \A k \in 1..Len(s) : \E j \in 1..(Len(s) + 1) : t[j] = s[k]
  <2> SUFFICES ASSUME NEW k \in 1..Len(s)
               PROVE  \E j \in 1..(Len(s) + 1) : t[j] = s[k]
    OBVIOUS
  <2>1. CASE k < i
    <3>1. k \in 1..(Len(s) + 1) /\ t[k] = s[k]
      BY <1>1, <1>2, <2>1
    <3> QED BY <3>1
  <2>2. CASE k >= i
    <3>1. k + 1 \in 1..(Len(s) + 1) /\ ~ (k + 1 < i) /\ k + 1 # i /\ (k + 1) - 1 = k
      BY <1>2, <2>2
    <3>2. t[k + 1] = s[k]
      BY <1>1, <3>1
    <3> QED BY <3>1, <3>2
  <2> QED BY <1>2, <2>1, <2>2
<1>5. t[i] = new /\ i \in 1..(Len(s) + 1)
  BY <1>1, <1>2
<1>6. Armed(t) = Armed(s) \cup {Abs(new)}
  BY <1>2, <1>3, <1>4, <1>5, Zenon DEF Armed
<1> QED BY <1>6 DEF t

LEMMA ArmedRemove ==
  ASSUME NEW s \in Seq(Event), Ordered(s), NEW i \in 1..Len(s)
  PROVE  /\ Armed(RemoveAt(s, i)) = Armed(s) \ {Abs(s[i])}
         /\ Armed(RemoveAt(s, i)) = {a \in Armed(s) : a.key # s[i].key}
<1> DEFINE t == RemoveAt(s, i)
<1>1. /\ t \in Seq(Event) /\ Len(t) = Len(s) - 1
      /\ \A j \in 1..(Len(s) - 1) : t[j] = s[IF j < i THEN j ELSE j + 1]
  BY RemoveAtShape
<1> HIDE DEF t
<1>2. /\ DOMAIN s = 1..Len(s) /\ DOMAIN t = 1..(Len(s) - 1)
      /\ Len(s) \in Nat /\ i \in 1..Len(s)
  BY <1>1
<1>3. \A j \in 1..(Len(s) - 1) : \E k \in 1..Len(s) : k # i /\ t[j] = s[k]
  <2> SUFFICES ASSUME NEW j \in 1..(Len(s) - 1)
               PROVE  \E k \in 1..Len(s) : k # i /\ t[j] = s[k]
    OBVIOUS
  <2>1. (IF j < i THEN j ELSE j + 1) \in 1..Len(s) \ {i}
    BY <1>2
  <2> QED BY <1>1, <2>1
<1>4. \A k \in 1..Len(s) : k # i => \E j \in 1..(Len(s) - 1) : t[j] = s[k]
  <2> SUFFICES ASSUME NEW k \in 1..Len(s), k # i
               PROVE  \E j \in 1..(Len(s) - 1) : t[j] = s[k]
    OBVIOUS
  <2>1. CASE k < i
    <3>1. k \in 1..(Len(s) - 1) /\ t[k] = s[k]
      BY <1>1, <1>2, <2>1
    <3> QED BY <3>1
  <2>2. CASE k > i
    <3>1. k - 1 \in 1..(Len(s) - 1) /\ ~ (k - 1 < i) /\ (k - 1) + 1 = k
      BY <1>2, <2>2
    <3>2. t[k - 1] = s[k]
      BY <1>1, <3>1
    <3> QED BY <3>1, <3>2
  <2> QED BY <1>2, <2>1, <2>2
<1>5. \A k \in 1..Len(s) : k # i => s[k].key # s[i].key
  BY DEF Ordered
<1>6. \A k \in 1..Len(s) : Abs(s[k]).key = s[k].key
  BY DEF Abs
<1> DEFINE Rest == {Abs(s[k]) : k \in {k \in 1..Len(s) : k # i}}
<1>7. Armed(t) = Rest
  <2>1. ASSUME NEW a \in Armed(t) PROVE a \in Rest
    <3>1. PICK j \in 1..(Len(s) - 1) : a = Abs(t[j])
      BY <1>2, <2>1 DEF Armed
    <3>2. PICK k \in 1..Len(s) : k # i /\ t[j] = s[k]
      BY <1>3, <3>1
    <3> QED BY <3>1, <3>2
  <2>2. ASSUME NEW a \in Rest PROVE a \in Armed(t)
    <3>1. PICK k \in 1..Len(s) : k # i /\ a = Abs(s[k])
      BY <2>2
    <3>2. PICK j \in 1..(Len(s) - 1) : t[j] = s[k]
      BY <1>4, <3>1
    <3> QED BY <1>2, <3>1, <3>2 DEF Armed
  <2> QED BY <2>1, <2>2
<1>8. Armed(s) = {Abs(s[k]) : k \in 1..Len(s)}
  BY <1>2 DEF Armed
<1>9. \A k \in 1..Len(s) : k = i <=> Abs(s[k]).key = s[i].key
  BY <1>5, <1>6
<1>10. Rest = {a \in Armed(s) : a.key # s[i].key}
  <2>1. ASSUME NEW a \in Rest PROVE a \in Armed(s) /\ a.key # s[i].key
    BY <1>8, <1>9, <2>1
  <2>2. ASSUME NEW a \in Armed(s), a.key # s[i].key PROVE a \in Rest
    BY <1>8, <1>9, <2>2
  <2> QED BY <2>1, <2>2
<1>11. Rest = Armed(s) \ {Abs(s[i])}
  <2>1. ASSUME NEW a \in Rest PROVE a \in Armed(s) /\ a # Abs(s[i])
    BY <1>8, <1>9, <2>1
  <2>2. ASSUME NEW a \in Armed(s), a # Abs(s[i]) PROVE a \in Rest
    BY <1>8, <2>2
  <2> QED BY <2>1, <2>2
<1> QED BY <1>7, <1>10, <1>11 DEF t

LEMMA TailIsRemoveAt ==
  ASSUME NEW s \in Seq(Event), s # <<>>
  PROVE  Tail(s) = RemoveAt(s, 1) /\ 1 \in 1..Len(s) /\ Head(s) = s[1]
<1>1. 1 \in 1..Len(s) /\ Head(s) = s[1]
  OBVIOUS
<1>2. /\ RemoveAt(s, 1) \in Seq(Event) /\ Len(RemoveAt(s, 1)) = Len(s) - 1
      /\ \A j \in 1..(Len(s) - 1) : RemoveAt(s, 1)[j] = s[j + 1]
  BY <1>1, RemoveAtShape
<1>3. /\ Tail(s) \in Seq(Event) /\ Len(Tail(s)) = Len(s) - 1
      /\ \A j \in 1..(Len(s) - 1) : Tail(s)[j] = s[j + 1]
  OBVIOUS
<1> QED BY <1>1, <1>2, <1>3, SeqEqual

-----------------------------------------------------------------------------
LEMMA FramesShape ==
  ASSUME NEW p \in Seq(Frame)
  PROVE  /\ Frames(p) \in Seq(AbsFrames)
         /\ Len(Frames(p)) = Len(p)
         /\ \A i \in 1..Len(p) : Frames(p)[i] = AbsFrame(p[i])
<1>1. \A i \in 1..Len(p) : AbsFrame(p[i]) \in AbsFrames
  <2> SUFFICES ASSUME NEW i \in 1..Len(p) PROVE AbsFrame(p[i]) \in AbsFrames
    OBVIOUS
  <2>1. p[i] \in Frame
    OBVIOUS
  <2> QED BY <2>1, InstantsAreNat DEF Frame, AbsFrame, AbsFrames
<1>2. DOMAIN p = 1..Len(p) /\ Len(p) \in Nat
  OBVIOUS
<1>3. Frames(p) = [i \in 1..Len(p) |-> AbsFrame(p[i])]
  BY <1>2 DEF Frames
<1>4. Frames(p) \in [1..Len(p) -> AbsFrames]
  BY <1>1, <1>3
<1>5. Frames(p) \in Seq(AbsFrames)
  BY <1>2, <1>4, SeqDef, Zenon
<1>6. DOMAIN Frames(p) = 1..Len(p)
  BY <1>3
<1> QED BY <1>2, <1>3, <1>5, <1>6

LEMMA FramesAppend ==
  ASSUME NEW p \in Seq(Frame), NEW f \in Frame
  PROVE  Frames(Append(p, f)) = Append(Frames(p), AbsFrame(f))
<1>1. Append(p, f) \in Seq(Frame) /\ Len(Append(p, f)) = Len(p) + 1
  OBVIOUS
<1>2. AbsFrame(f) \in AbsFrames
  BY InstantsAreNat DEF Frame, AbsFrame, AbsFrames
<1>3. /\ Append(Frames(p), AbsFrame(f)) \in Seq(AbsFrames)
      /\ Len(Append(Frames(p), AbsFrame(f))) = Len(p) + 1
  BY <1>2, FramesShape
<1>4. \A i \in 1..(Len(p) + 1) :
         Append(Frames(p), AbsFrame(f))[i] = AbsFrame(Append(p, f)[i])
  BY <1>2, FramesShape
<1>5. /\ Frames(Append(p, f)) \in Seq(AbsFrames)
      /\ Len(Frames(Append(p, f))) = Len(p) + 1
      /\ \A i \in 1..(Len(p) + 1) :
            Frames(Append(p, f))[i] = AbsFrame(Append(p, f)[i])
  BY <1>1, FramesShape
<1> QED BY <1>3, <1>4, <1>5, SeqEqual

LEMMA FramesFront ==
  ASSUME NEW p \in Seq(Frame), Len(p) > 0
  PROVE  Frames(Front(p)) = SubSeq(Frames(p), 1, Len(p) - 1)
<1>1. /\ Front(p) \in Seq(Frame) /\ Len(Front(p)) = Len(p) - 1
      /\ \A i \in 1..(Len(p) - 1) : Front(p)[i] = p[i]
  BY FrontShape DEF Front
<1>2. /\ SubSeq(Frames(p), 1, Len(p) - 1) \in Seq(AbsFrames)
      /\ Len(SubSeq(Frames(p), 1, Len(p) - 1)) = Len(p) - 1
      /\ \A i \in 1..(Len(p) - 1) : SubSeq(Frames(p), 1, Len(p) - 1)[i] = Frames(p)[i]
  <2>1. Frames(p) \in Seq(AbsFrames) /\ Len(Frames(p)) = Len(p)
    BY FramesShape
  <2> QED BY <2>1, FrontShape
<1>3. \A i \in 1..(Len(p) - 1) : SubSeq(Frames(p), 1, Len(p) - 1)[i] = AbsFrame(Front(p)[i])
  BY <1>1, <1>2, FramesShape
<1> QED BY <1>1, <1>2, <1>3, FramesShape, SeqEqual

LEMMA FramesSetCurr ==
  ASSUME NEW p \in Seq(Frame), Len(p) > 0, NEW c \in Keys \cup {NULL}
  PROVE  Frames([p EXCEPT ![Len(p)].curr = c])
           = [Frames(p) EXCEPT ![Len(p)].running = c]
<1> DEFINE q == [p EXCEPT ![Len(p)].curr = c]
           r == [Frames(p) EXCEPT ![Len(p)].running = c]
<1>1. /\ DOMAIN q = 1..Len(p) /\ DOMAIN p = 1..Len(p)
      /\ Len(p) \in 1..Len(p)
  OBVIOUS
<1>2. /\ \A i \in 1..Len(p) : i # Len(p) => q[i] = p[i]
      /\ q[Len(p)] = [p[Len(p)] EXCEPT !.curr = c]
  BY <1>1
<1>3. p[Len(p)] \in Frame
  BY <1>1
<1>4. AbsFrame(q[Len(p)]) = [AbsFrame(p[Len(p)]) EXCEPT !.running = c]
  BY <1>2, <1>3 DEF AbsFrame, Frame
<1>5. Frames(q) = [i \in 1..Len(p) |-> AbsFrame(q[i])]
  BY <1>1 DEF Frames
<1>6. Frames(p) = [i \in 1..Len(p) |-> AbsFrame(p[i])]
  BY <1>1 DEF Frames
<1> HIDE DEF q
<1>7. r = [i \in 1..Len(p) |-> IF i = Len(p)
                                THEN [AbsFrame(p[Len(p)]) EXCEPT !.running = c]
                                ELSE AbsFrame(p[i])]
  BY <1>1, <1>6
<1>8. \A i \in 1..Len(p) : AbsFrame(q[i]) =
          IF i = Len(p) THEN [AbsFrame(p[Len(p)]) EXCEPT !.running = c]
          ELSE AbsFrame(p[i])
  BY <1>2, <1>4
<1> QED BY <1>5, <1>7, <1>8 DEF q

-----------------------------------------------------------------------------
\* The list never ends in a wild pointer, so the process does not fault.
LEMMA NeverWild ==
  ASSUME MallocNext = {NULL}
  PROVE  Spec => []ListEndsInNull
<1>1. Init => ListEndsInNull
  BY DEF Init, ListEndsInNull
<1>2. ListEndsInNull /\ [Next]_vars => ListEndsInNull'
  BY DEF ListEndsInNull, Next, vars, Fault, timer_init, timer_cleanup, timer_event_add, LinkEvent,
         timer_event_delete, ExecuteBegin, ExecuteFire, CallbackReturns,
         ExecuteReturn, ExecuteFault, Tick
<1> QED BY <1>1, <1>2, PTL DEF Spec

LEMMA InitRefines == Init => Contract!Init
<1> SUFFICES ASSUME Init PROVE Contract!Init
  OBVIOUS
<1>1. Armed(<<>>) = {}
  BY DEF Armed
<1>2. <<>> \in Seq(Frame) /\ Len(<<>>) = 0
  OBVIOUS
<1>3. Frames(<<>>) = <<>>
  <2>1. Frames(<<>>) \in Seq(AbsFrames) /\ Len(Frames(<<>>)) = 0
    BY <1>2, FramesShape
  <2> QED BY <2>1
<1> QED BY <1>1, <1>3, TimerAssumption DEF Init, Contract!Init

(* Every step of Timer is a step of the contract, or leaves it alone.      *)
LEMMA NextRefines ==
  ASSUME IInv, tail = NULL, MallocNext = {NULL}, [Next]_vars
  PROVE  [Contract!Next]_(Contract!cvars)
<1> DEFINE A == Armed(events)
           P == Frames(passes)
<1>1. /\ TypeOK /\ TypeOK' /\ NULL # WILD /\ NULL \notin Keys
      /\ events \in Seq(Event) /\ passes \in Seq(Frame) /\ now \in Nat
      /\ number = Len(events) /\ Ordered(events)
      /\ status = "crashed" \/ status # "crashed"
  BY IInvNext, ListInvIsOrdered, TimerAssumption
     DEF IInv, ListInv, CountInv, CountMatchesList, TypeOK
<1>2. /\ P \in Seq(AbsFrames) /\ Len(P) = Depth
      /\ Depth > 0 => P[Depth] = AbsFrame(passes[Depth])
      /\ P = <<>> <=> passes = <<>>
  BY <1>1, FramesShape DEF Depth
<1>3. Contract!Depth = Depth
  BY <1>2 DEF Contract!Depth
<1>4. Depth > 0 => /\ P[Depth].running = passes[Depth].curr
                   /\ P[Depth].asOf = Usecs(passes[Depth].tv)
  BY <1>2 DEF AbsFrame
<1>5. CanCall => Contract!CanCall
  BY <1>2, <1>3, <1>4 DEF CanCall, InCallback, Contract!CanCall, Contract!Running
<1>6. UNCHANGED events => UNCHANGED Armed(events)
  OBVIOUS
<1>7. UNCHANGED passes => UNCHANGED Frames(passes)
  OBVIOUS
<1>8. UNCHANGED <<status, now>> => UNCHANGED <<status = "live", now>>
  OBVIOUS
<1>9. CASE timer_init
  <2>1. Armed(events') = {}
    BY <1>9 DEF timer_init, Armed
  <2>2. Contract!Create
    BY <1>9, <2>1 DEF timer_init, Contract!Create
  <2> QED BY <2>2 DEF Contract!Next
<1>10. CASE timer_cleanup
  <2>1. status = "live" /\ passes = <<>> /\ status' = "none" /\ events' = <<>>
        /\ UNCHANGED <<passes, now>>
    BY <1>1, <1>10 DEF timer_cleanup
  <2>2. Armed(events') = {}
    BY <2>1 DEF Armed
  <2>3. Contract!Destroy
    BY <1>2, <2>1, <2>2 DEF Contract!Destroy
  <2> QED BY <2>3 DEF Contract!Next
<1>11. ASSUME NEW k \in Keys, NEW ms \in Delays, timer_event_add(k, ms)
       PROVE  Contract!Arm(k, ms)
  <2> DEFINE new == NewEvent(k, ms)
  <2>1. new \in Event /\ Abs(new) = [key |-> k, due |-> now + ms * MSECS_IN_SEC]
    BY <1>1, NewEventType DEF NewEvent, Abs, Due
  <2>2. CanCall /\ ~ timer_is_event_present(k) /\ LinkEvent(new)
        /\ UNCHANGED <<status, passes, now>>
    BY <1>1, <1>11 DEF timer_event_add
  <2> HIDE DEF new
  <2>3. ~ Contract!IsArmed(k)
    BY <2>2 DEF Contract!IsArmed, Armed, Abs, timer_is_event_present
  <2>4. Armed(events') = Armed(events) \cup {Abs(new)}
    <3>1. CASE number = 0 /\ events' = <<new>>
      <4>1. events = <<>>
        <5>1. events \in Seq(Event) /\ Len(events) = 0
          BY <1>1, <3>1
        <5> QED BY <5>1
      <4>2. Armed(<<new>>) = {Abs(new)} /\ Armed(<<>>) = {}
        BY DEF Armed
      <4> QED BY <3>1, <4>1, <4>2
    <3>2. ASSUME NEW i \in 1..(Len(events) + 1), events' = InsertAt(events, i, new)
          PROVE  Armed(events') = Armed(events) \cup {Abs(new)}
      BY <1>1, <2>1, <3>2, ArmedInsert
    <3> QED BY <2>2, <3>1, <3>2 DEF LinkEvent
  <2> QED BY <1>5, <2>1, <2>2, <2>3, <2>4 DEF Contract!Arm
<1>12. ASSUME NEW k \in Keys, timer_event_delete(k)
       PROVE  Contract!Disarm(k)
  <2>1. PICK i \in 1..Len(events) : events[i].key = k /\ events' = RemoveAt(events, i)
    BY <1>1, <1>12 DEF timer_event_delete
  <2>2. CanCall /\ UNCHANGED <<status, passes, now>>
    BY <1>1, <1>12 DEF timer_event_delete
  <2>3. Armed(events') = {a \in Armed(events) : a.key # k}
    BY <1>1, <2>1, ArmedRemove
  <2>4. Contract!IsArmed(k)
    <3>1. Abs(events[i]) \in Armed(events) /\ Abs(events[i]).key = k
      BY <1>1, <2>1 DEF Armed, Abs
    <3> QED BY <3>1 DEF Contract!IsArmed
  <2> QED BY <1>5, <2>2, <2>3, <2>4 DEF Contract!Disarm
<1>13. CASE ExecuteBegin
  <2> DEFINE f == [tv |-> gettimeofday(now), curr |-> NULL]
  <2>1. f \in Frame /\ AbsFrame(f) = [asOf |-> now, running |-> NULL]
    BY <1>1, GettimeofdayType DEF Frame, AbsFrame
  <2>2. CanCall /\ passes' = Append(passes, f) /\ UNCHANGED <<status, events, now>>
    BY <1>13 DEF ExecuteBegin
  <2> HIDE DEF f
  <2>3. Frames(passes') = Append(Frames(passes), [asOf |-> now, running |-> NULL])
    BY <1>1, <2>1, <2>2, FramesAppend
  <2>4. Contract!BeginPass
    BY <1>5, <2>2, <2>3 DEF Contract!BeginPass
  <2> QED BY <2>4 DEF Contract!Next
<1>14. ASSUME NEW c \in Keys \cup {NULL}, Depth > 0,
              passes' = [passes EXCEPT ![Depth].curr = c]
       PROVE  Frames(passes') = [Frames(passes) EXCEPT ![Depth].running = c]
  BY <1>1, <1>14, FramesSetCurr DEF Depth
<1>15. CASE ExecuteFire
  <2> DEFINE h == events[1]
             tv == passes[Depth].tv
  <2>1. /\ status = "live" /\ Depth > 0 /\ passes[Depth].curr = NULL /\ events # <<>>
        /\ IS_EARLIER_THAN(Head(events).expire, tv)
        /\ events' = Tail(events) /\ UNCHANGED <<status, now>>
        /\ passes' = [passes EXCEPT ![Depth].curr = Head(events).key]
    BY <1>15 DEF ExecuteFire, AtLoopTest, HeadExpired
  <2>2. Head(events) = h /\ 1 \in 1..Len(events) /\ events' = RemoveAt(events, 1)
    BY <1>1, <2>1, TailIsRemoveAt
  <2>3. h \in Event /\ Dated(h) /\ h.key \in Keys
    <3>1. h \in Event
      BY <1>1, <2>2
    <3>2. Dated(h)
      BY <2>2 DEF IInv, ClockInv
    <3> QED BY <3>1, <3>2 DEF Event
  <2>4. tv \in Timeval /\ tv.usec < USECS_IN_SEC
    <3>1. Depth \in 1..Len(passes)
      BY <1>1, <2>1 DEF Depth
    <3>2. passes[Depth] \in Frame
      BY <1>1, <3>1
    <3> QED BY <3>1, <3>2 DEF IInv, ClockInv, Frame
  <2>5. Armed(events') = Armed(events) \ {Abs(h)}
    BY <1>1, <2>2, ArmedRemove
  <2>6. Abs(h) \in Armed(events) /\ Abs(h).key = h.key /\ Abs(h).due = Due(h)
    BY <1>1, <2>2 DEF Armed, Abs
  <2>7. Due(h) < Usecs(tv) + USECS_IN_SEC
    BY <2>1, <2>2, <2>3, <2>4, DatedEvent
  <2>8. ASSUME NEW a \in Armed(events)
        PROVE  Due(h) < a.due + USECS_IN_SEC
    <3>1. PICK i \in 1..Len(events) : a = Abs(events[i])
      BY <1>1 DEF Armed
    <3>2. a.due = Due(events[i]) /\ events[i] \in Event /\ Dated(events[i])
      BY <1>1, <3>1 DEF Abs, IInv, ClockInv
    <3>3. i = 1 \/ ~ IS_EARLIER_THAN(events[i].expire, h.expire)
      BY <1>1, <2>2 DEF Ordered
    <3>4. ~ IS_EARLIER_THAN(events[i].expire, h.expire)
      BY <2>3, <3>3, EarlierIsAnOrder DEF Event
    <3> QED BY <2>3, <3>2, <3>4, DatedEvent, PairsAndUsecs
  <2>9. Frames(passes') = [Frames(passes) EXCEPT ![Depth].running = h.key]
    BY <1>14, <2>1, <2>2, <2>3
  <2>10. Frames(passes) # <<>> /\ Contract!Running = NULL
         /\ Frames(passes)[Depth].asOf = Usecs(tv)
    BY <1>2, <1>3, <1>4, <2>1 DEF Contract!Running, Depth
  <2> HIDE DEF h, tv
  <2>11. Contract!Fire(Abs(h))
    BY <1>3, <2>1, <2>5, <2>6, <2>7, <2>8, <2>9, <2>10 DEF Contract!Fire
  <2> QED BY <2>6, <2>11 DEF Contract!Next
<1>16. CASE CallbackReturns
  <2>1. status = "live" /\ Depth > 0 /\ passes[Depth].curr # NULL
        /\ passes' = [passes EXCEPT ![Depth].curr = NULL]
        /\ UNCHANGED <<status, events, now>>
    BY <1>16 DEF CallbackReturns, InCallback
  <2>2. Frames(passes') = [Frames(passes) EXCEPT ![Depth].running = NULL]
    BY <1>14, <2>1
  <2>3. Frames(passes) # <<>> /\ Contract!Running # NULL
    BY <1>2, <1>3, <1>4, <2>1 DEF Contract!Running, Depth
  <2>4. Contract!HandlerReturns
    BY <1>3, <2>1, <2>2, <2>3 DEF Contract!HandlerReturns
  <2> QED BY <2>4 DEF Contract!Next
<1>17. CASE ExecuteReturn
  <2>1. status = "live" /\ Depth > 0 /\ passes[Depth].curr = NULL /\ ~ HeadExpired
        /\ passes' = Front(passes) /\ UNCHANGED <<status, events, now>>
    BY <1>17 DEF ExecuteReturn, AtLoopTest
  <2>2. Frames(passes') = SubSeq(Frames(passes), 1, Depth - 1)
    BY <1>1, <2>1, FramesFront DEF Depth
  <2>3. \A a \in Armed(events) : a.due >= Usecs(passes[Depth].tv)
    BY <1>1, <2>1, NothingDueBehindHead DEF Armed, Abs
  <2>4. Frames(passes) # <<>> /\ Contract!Running = NULL
        /\ Frames(passes)[Depth].asOf = Usecs(passes[Depth].tv)
    BY <1>2, <1>3, <1>4, <2>1 DEF Contract!Running, Depth
  <2>5. Contract!EndPass
    BY <1>3, <2>1, <2>2, <2>3, <2>4 DEF Contract!EndPass
  <2> QED BY <2>5 DEF Contract!Next
<1>18. ~ ExecuteFault
  BY <1>1 DEF ExecuteFault
<1>19. CASE Tick
  <2>1. now' \in Nat /\ UNCHANGED <<status, events, passes>>
    BY <1>1, <1>19, TimerAssumption DEF Tick, TypeOK
  <2>2. Contract!ClockChanges
    BY <2>1 DEF Contract!ClockChanges
  <2> QED BY <2>2 DEF Contract!Next
<1>20. CASE UNCHANGED vars
  BY <1>20 DEF vars, Contract!cvars
<1> QED
  BY <1>9, <1>10, <1>11, <1>12, <1>13, <1>15, <1>16, <1>17, <1>18, <1>19, <1>20
     DEF Next, Contract!Next

(* misc_timer.c keeps the contract of a timer service, for every set of    *)
(* handlers and delays, every nesting of passes and every change of the    *)
(* clock, as long as malloc leaves NULL in the cell of a first event.      *)
THEOREM TimerImplementsContract ==
  ASSUME MallocNext = {NULL}
  PROVE  Spec => ImplementsContract
<1>1. IInv /\ ListEndsInNull /\ [Next]_vars => [Contract!Next]_(Contract!cvars)
  BY NextRefines DEF ListEndsInNull
<1> QED
  BY <1>1, InitRefines, IInvHolds, NeverWild, PTL
     DEF Spec, ImplementsContract, Contract!Spec
=============================================================================
