---------------------------- MODULE Timer2Proofs ----------------------------
(***************************************************************************)
(* What Timer2 promises for every set of handlers, intervals and counts,   *)
(* any memory and any clock.                                               *)
(***************************************************************************)
EXTENDS Timer2, TimerLemmas, FiniteSetTheorems

-----------------------------------------------------------------------------
(* Types.  Nothing has been seen between passes: mTimer_cleanup need not   *)
(* forget the cells it frees.                                              *)

TypeInv == TypeOK /\ (pass.at = "idle" => seen = {})

PassType == [at : {"idle", "walk", "handler", "update"}, tv : Timeval,
             curr : Pointer, tmp : Pointer, eventTv : Timeval]

\* The marks are no cells.
LEMMA Marks == /\ NULL \notin Cells /\ WILD \notin Cells /\ NULL # WILD
               /\ NULL \in Ends /\ \A e \in Ends : e \notin Cells /\ e \in Pointer
BY Timer2Assumption DEF Ends, Pointer

LEMMA ZeroType == Zero \in Timeval /\ Idle \in PassType
BY DEF Zero, Timeval, Idle, PassType, Pointer

\* The fields of a live cell.
LEMMA EventFields ==
  ASSUME TypeOK, NEW c \in live
  PROVE  /\ cell[c] \in Event /\ c \in Cells
         /\ cell[c].next \in Pointer /\ cell[c].key \in Keys
         /\ cell[c].interval \in Nat /\ cell[c].count \in IntMin..IntMax
         /\ cell[c].lastTime \in Timeval /\ cell[c].born \in Nat
         /\ cell[c].limit \in IntMin..IntMax /\ cell[c].fires \in Nat
<1>1. cell[c] \in Event /\ c \in Cells
  BY DEF TypeOK
<1>2. /\ cell[c].next \in Pointer /\ cell[c].key \in Keys
      /\ cell[c].interval \in Intervals /\ cell[c].count \in IntMin..IntMax
      /\ cell[c].lastTime \in Timeval /\ cell[c].born \in Nat
      /\ cell[c].limit \in Counts /\ cell[c].fires \in Nat
  BY <1>1 DEF Event
<1> QED BY <1>1, <1>2, Timer2Assumption

\* Everything a cell holds but next, count, lastTime and fires.
Fixed(e) == <<e.key, e.interval, e.born, e.limit>>
Content(e) == <<e.key, e.interval, e.born, e.limit, e.count, e.lastTime, e.fires>>

\* A pointer field of a cell changes.
LEMMA NextType ==
  ASSUME NEW e \in Event, NEW p \in Pointer
  PROVE  /\ [e EXCEPT !.next = p] \in Event /\ [e EXCEPT !.next = p].next = p
         /\ Content([e EXCEPT !.next = p]) = Content(e)
BY DEF Event, Content

LEMMA EventTimeType ==
  ASSUME TypeOK, NEW c \in live
  PROVE  EventTime(c) \in Timeval
BY EventFields, AddMsecType DEF EventTime

LEMMA DecrementType ==
  ASSUME NEW n \in IntMin..IntMax
  PROVE  Decrement(n) \in IntMin..IntMax /\ (n > 0 => Decrement(n) = n - 1)
BY Timer2Assumption DEF Decrement, IntMin

\* A cell is added to the memory that is in use.
LEMMA NewCell ==
  ASSUME TypeOK, NEW new \in Cells \ live, NEW e \in Event, NEW p \in Pointer,
         cell' = [cell EXCEPT ![new] = [e EXCEPT !.next = p]], live' = live \cup {new}
  PROVE  /\ DOMAIN cell' = Cells /\ live' \subseteq Cells
         /\ \A c \in Cells : IF c \in live' THEN cell'[c] \in Event ELSE cell'[c] = Free
         /\ cell'[new].next = p /\ Content(cell'[new]) = Content(e)
         /\ \A c \in Cells \ {new} : cell'[c] = cell[c]
<1>1. DOMAIN cell = Cells /\ live \subseteq Cells
  BY DEF TypeOK
<1> DEFINE f == [e EXCEPT !.next = p]
<1>2. cell'[new] = f /\ \A c \in Cells \ {new} : cell'[c] = cell[c]
  BY <1>1
<1>3. f \in Event /\ f.next = p /\ Content(f) = Content(e)
  BY NextType
<1> HIDE DEF f
<1>4. \A c \in Cells : IF c \in live' THEN cell'[c] \in Event ELSE cell'[c] = Free
  BY <1>2, <1>3 DEF TypeOK
<1> QED BY <1>1, <1>2, <1>3, <1>4

\* What is left when d has been unlinked and freed.
Removed(heap, d) ==
  /\ d \in live /\ live' = live \ {d}
  /\ head' = IF head = d THEN cell[d].next ELSE head
  /\ DOMAIN cell' = Cells
  /\ \A c \in Cells \ live' : cell'[c] = Free
  /\ \A c \in live' :
       /\ cell'[c] \in Event /\ Content(cell'[c]) = Content(heap[c])
       /\ cell'[c].next = IF c \in Listed /\ cell[c].next = d THEN cell[d].next
                                                             ELSE cell[c].next

\* A heap that differs from the memory in what live cells hold besides next.
SameShape(heap) ==
  /\ DOMAIN heap = Cells
  /\ \A c \in Cells : IF c \in live THEN heap[c] \in Event /\ heap[c].next = cell[c].next
                                    ELSE heap[c] = Free

LEMMA RemoveEffect ==
  ASSUME TypeOK, NEW heap, SameShape(heap), NEW d \in Listed, RemoveEvent(heap, d)
  PROVE  Removed(heap, d)
<1>1. /\ d \in live /\ d \in Cells /\ live' = live \ {d}
      /\ head' = IF head = d THEN cell[d].next ELSE head
      /\ cell' = Unlinked(heap, d)
  BY DEF RemoveEvent, Listed, TypeOK
<1>2. /\ DOMAIN cell' = Cells /\ cell'[d] = Free
      /\ \A c \in Cells \ {d} :
           cell'[c] = IF c \in Listed /\ cell[c].next = d
                      THEN [heap[c] EXCEPT !.next = cell[d].next] ELSE heap[c]
  BY <1>1 DEF Unlinked
<1>3. \A c \in Cells \ live' : cell'[c] = Free
  BY <1>1, <1>2 DEF SameShape, Listed
<1>4. ASSUME NEW c \in live'
      PROVE  /\ cell'[c] \in Event /\ Content(cell'[c]) = Content(heap[c])
             /\ cell'[c].next = IF c \in Listed /\ cell[c].next = d THEN cell[d].next
                                                                   ELSE cell[c].next
  <2>1. c \in live /\ c \in Cells \ {d}
    BY <1>1, <1>4 DEF TypeOK
  <2>2. heap[c] \in Event /\ heap[c].next = cell[c].next
    BY <2>1 DEF SameShape
  <2>3. CASE c \in Listed /\ cell[c].next = d
    <3>1. cell'[c] = [heap[c] EXCEPT !.next = cell[d].next]
      BY <1>2, <2>1, <2>3
    <3>2. cell[d].next \in Pointer
      BY <1>1, EventFields
    <3> QED BY <2>2, <2>3, <3>1, <3>2, NextType
  <2>4. CASE ~ (c \in Listed /\ cell[c].next = d)
    <3>1. cell'[c] = heap[c]
      BY <1>2, <2>1, <2>4
    <3> QED BY <2>2, <2>4, <3>1
  <2> QED BY <2>3, <2>4
<1> QED BY <1>1, <1>2, <1>3, <1>4 DEF Removed

\* The memory itself has its shape, and so has what a handler's return makes of it.
LEMMA CellShape == ASSUME TypeOK PROVE SameShape(cell)
BY DEF TypeOK, SameShape

ReturnHeap(c, n) == [cell EXCEPT ![c].count = n]

LEMMA ReturnShape ==
  ASSUME TypeOK, NEW c \in live, NEW n \in IntMin..IntMax, NEW heap, heap = ReturnHeap(c, n)
  PROVE  /\ SameShape(heap) /\ heap[c].count = n /\ heap[c].lastTime = cell[c].lastTime
         /\ heap[c].fires = cell[c].fires /\ Fixed(heap[c]) = Fixed(cell[c])
         /\ \A b \in Cells \ {c} : heap[b] = cell[b]
<1>1. cell[c] \in Event /\ c \in Cells /\ DOMAIN cell = Cells /\ live \subseteq Cells
  BY EventFields DEF TypeOK
<1>2. /\ heap[c] = [cell[c] EXCEPT !.count = n]
      /\ DOMAIN heap = Cells /\ \A b \in Cells \ {c} : heap[b] = cell[b]
  BY <1>1 DEF ReturnHeap
<1>3. /\ heap[c] \in Event /\ heap[c].next = cell[c].next
      /\ heap[c].count = n /\ heap[c].lastTime = cell[c].lastTime
      /\ heap[c].fires = cell[c].fires /\ Fixed(heap[c]) = Fixed(cell[c])
  BY <1>1, <1>2 DEF Event, Fixed
<1> QED BY <1>1, <1>2, <1>3 DEF SameShape, TypeOK

\* lastTime is written, when curr is still an event.
Updated(c, tv) ==
  /\ SameShape(cell')
  /\ \A b \in live :
       /\ Fixed(cell'[b]) = Fixed(cell[b]) /\ cell'[b].fires = cell[b].fires
       /\ cell'[b].count = cell[b].count
       /\ cell'[b].lastTime = IF b = c THEN tv ELSE cell[b].lastTime

LEMMA UpdateShape ==
  ASSUME TypeOK, NEW c, NEW tv \in Timeval,
         cell' = IF c \in live THEN [cell EXCEPT ![c].lastTime = tv] ELSE cell
  PROVE  Updated(c, tv)
<1>1. live \subseteq Cells /\ DOMAIN cell = Cells
  BY DEF TypeOK
<1>2. CASE c \notin live
  BY <1>2, CellShape DEF Updated
<1>3. CASE c \in live
  <2>1. cell[c] \in Event /\ c \in Cells
    BY <1>3, EventFields
  <2>2. /\ cell'[c] = [cell[c] EXCEPT !.lastTime = tv]
        /\ DOMAIN cell' = Cells /\ \A b \in Cells \ {c} : cell'[b] = cell[b]
    BY <1>1, <1>3, <2>1
  <2>3. /\ cell'[c] \in Event /\ cell'[c].next = cell[c].next
        /\ cell'[c].count = cell[c].count /\ cell'[c].lastTime = tv
        /\ cell'[c].fires = cell[c].fires /\ Fixed(cell'[c]) = Fixed(cell[c])
    BY <2>1, <2>2 DEF Event, Fixed
  <2>4. SameShape(cell')
    BY <1>1, <2>2, <2>3 DEF SameShape, TypeOK
  <2>5. ASSUME NEW b \in live
        PROVE  /\ Fixed(cell'[b]) = Fixed(cell[b]) /\ cell'[b].fires = cell[b].fires
               /\ cell'[b].count = cell[b].count
               /\ cell'[b].lastTime = IF b = c THEN tv ELSE cell[b].lastTime
    BY <1>1, <2>2, <2>3
  <2> QED BY <2>4, <2>5 DEF Updated
<1> QED BY <1>2, <1>3

LEMMA FireShape ==
  ASSUME TypeOK, NEW c \in live, cell' = [cell EXCEPT ![c].fires = @ + 1]
  PROVE  /\ DOMAIN cell' = Cells /\ cell'[c] \in Event
         /\ cell'[c].fires = cell[c].fires + 1 /\ cell'[c].next = cell[c].next
         /\ cell'[c].count = cell[c].count /\ cell'[c].lastTime = cell[c].lastTime
         /\ Fixed(cell'[c]) = Fixed(cell[c])
         /\ \A b \in Cells \ {c} : cell'[b] = cell[b]
<1>1. cell[c] \in Event /\ c \in Cells /\ DOMAIN cell = Cells /\ cell[c].fires + 1 \in Nat
  BY EventFields DEF TypeOK
<1>2. /\ cell'[c] = [cell[c] EXCEPT !.fires = cell[c].fires + 1]
      /\ DOMAIN cell' = Cells /\ \A b \in Cells \ {c} : cell'[b] = cell[b]
  BY <1>1
<1>3. /\ cell'[c] \in Event /\ cell'[c].fires = cell[c].fires + 1
      /\ cell'[c].next = cell[c].next /\ cell'[c].count = cell[c].count
      /\ cell'[c].lastTime = cell[c].lastTime /\ Fixed(cell'[c]) = Fixed(cell[c])
  BY <1>1, <1>2 DEF Event, Fixed
<1> QED BY <1>2, <1>3

LEMMA TypeInit == Init => TypeInv
<1> SUFFICES ASSUME Init PROVE TypeInv
  OBVIOUS
<1>1. /\ status = "none" /\ head = NULL /\ number = 0 /\ live = {} /\ seen = {} /\ now = 0
      /\ cell = [c \in Cells |-> Free] /\ pass = Idle /\ misused = FALSE
  BY DEF Init
<1>2. pass \in PassType /\ 0 \in 0..MaxTime /\ head \in Pointer
  BY <1>1, ZeroType, Timer2Assumption DEF Pointer
<1>3. DOMAIN cell = Cells /\ \A c \in Cells : IF c \in live THEN cell[c] \in Event ELSE cell[c] = Free
  BY <1>1
<1>4. now \in 0..MaxTime /\ misused \in BOOLEAN /\ seen \subseteq live /\ live \subseteq Cells
  BY <1>1, <1>2
<1>5. status \in {"none", "live", "crashed"} /\ number \in Int
  BY <1>1
<1> QED BY <1>1, <1>2, <1>3, <1>4, <1>5, Zenon DEF TypeInv, TypeOK, PassType

\* The memory and its types.
HeapOK == /\ live \subseteq Cells /\ DOMAIN cell = Cells
          /\ \A c \in Cells : IF c \in live THEN cell[c] \in Event ELSE cell[c] = Free

LEMMA RemovedType ==
  ASSUME TypeOK, NEW heap, NEW d, Removed(heap, d)
  PROVE  head' \in Pointer /\ HeapOK'
<1>1. d \in live /\ cell[d].next \in Pointer /\ head \in Pointer /\ live \subseteq Cells
  BY EventFields DEF Removed, TypeOK
<1>2. head' \in Pointer
  BY <1>1 DEF Removed
<1>3. HeapOK'
  BY <1>1 DEF Removed, HeapOK
<1> QED BY <1>2, <1>3

\* What an add does, p being what it leaves in new->next.
Added(from, k, i, n, new, p) ==
  /\ new \in Cells \ live /\ p \in Pointer
  /\ HeapOK' /\ live' = live \cup {new} /\ head' = new /\ number' = number + 1
  /\ cell'[new].next = p
  /\ Content(cell'[new]) = <<k, i, now, n, n, gettimeofday(now), 0>>
  /\ \A c \in Cells \ {new} : cell'[c] = cell[c]
  /\ (number = 0 /\ p \in Ends) \/ (number # 0 /\ p = head)
  /\ seen' = IF from = "handler" THEN seen \cup {new} ELSE seen
  /\ UNCHANGED <<status, pass, now, misused>>

LEMMA AddEffect ==
  ASSUME TypeOK, NEW from, NEW k \in Keys, NEW i \in Intervals, NEW n \in Counts,
         mTimer_add(from, k, i, n)
  PROVE  /\ CanCall(from) /\ ~ isEventPresent(k)
         /\ \/ Fault
            \/ ~ WalkFaults /\ \E new, p : Added(from, k, i, n, new, p)
<1>1. /\ CanCall(from) /\ ~ isEventPresent(k)
      /\ (WalkFaults => Fault)
  BY DEF mTimer_add
<1>2. CASE WalkFaults
  BY <1>1, <1>2
<1>3. CASE ~ WalkFaults
  <2> DEFINE e == [next |-> NULL, key |-> k, interval |-> i, count |-> n,
                   lastTime |-> gettimeofday(now), born |-> now, limit |-> n, fires |-> 0]
  <2>a. /\ \E new \in Cells \ live :
             /\ LinkEvent(new, e)
             /\ live' = live \cup {new}
             /\ seen' = IF from = "handler" THEN seen \cup {new} ELSE seen
        /\ UNCHANGED <<status, pass, now, misused>>
    BY <1>3 DEF mTimer_add
  <2>1. PICK new \in Cells \ live : /\ LinkEvent(new, e)
                                    /\ live' = live \cup {new}
                                    /\ seen' = IF from = "handler" THEN seen \cup {new} ELSE seen
    BY <2>a
  <2>2. now \in Nat /\ gettimeofday(now) \in Timeval
    BY GettimeofdayType, Timer2Assumption DEF TypeOK
  <2>3. /\ e \in Event
        /\ Content(e) = <<k, i, now, n, n, gettimeofday(now), 0>>
    BY <2>2, Timer2Assumption DEF Event, Content, Pointer
  <2> HIDE DEF e
  <2>4. PICK p : /\ cell' = [cell EXCEPT ![new] = [e EXCEPT !.next = p]]
                 /\ (number = 0 /\ p \in Ends) \/ (number # 0 /\ p = head)
    BY <2>1 DEF LinkEvent, Ends
  <2>5. p \in Pointer
    BY <2>4, Marks DEF TypeOK
  <2>6. head' = new /\ number' = number + 1
    BY <2>1 DEF LinkEvent
  <2>7. /\ HeapOK' /\ cell'[new].next = p /\ Content(cell'[new]) = Content(e)
        /\ \A c \in Cells \ {new} : cell'[c] = cell[c]
    BY <2>1, <2>3, <2>4, <2>5, NewCell DEF HeapOK
  <2>8. Added(from, k, i, n, new, p)
    BY <2>a, <2>1, <2>3, <2>4, <2>5, <2>6, <2>7, Zenon DEF Added
  <2> QED BY <1>1, <1>3, <2>8
<1> QED BY <1>2, <1>3

\* What a delete does.
LEMMA DeleteEffect ==
  ASSUME TypeOK, NEW from, NEW k, mTimer_delete(from, k)
  PROVE  /\ CanCall(from)
         /\ \/ Fault
            \/ \E d \in Listed :
                 /\ Removed(cell, d) /\ number' = number - 1 /\ seen' = seen \ {d}
                 /\ misused' = (misused \/ from = "handler")
                 /\ UNCHANGED <<status, pass, now>>
BY CellShape, RemoveEffect DEF mTimer_delete

(* The return of the handler of the cell c, which has `left' firings to go *)
(* when it is positive: what it writes to c, and what it may remove.       *)
Returned(heap, c, left) ==
  /\ c = pass.curr /\ c \in live /\ left = Decrement(cell[c].count)
  /\ SameShape(heap) /\ heap[c].count = left /\ heap[c].lastTime = cell[c].lastTime
  /\ heap[c].fires = cell[c].fires /\ Fixed(heap[c]) = Fixed(cell[c])
  /\ \A b \in Cells \ {c} : heap[b] = cell[b]
  /\ status = "live" /\ pass.at = "handler" /\ pass' = [pass EXCEPT !.at = "update"]
  /\ seen' = seen \cap live'
  /\ UNCHANGED <<status, now, misused>>

LEMMA ReturnEffect ==
  ASSUME TypeOK, HandlerReturns
  PROVE  \E heap, c, left :
           /\ Returned(heap, c, left)
           /\ \/ left # 0 /\ cell' = heap /\ UNCHANGED <<head, live, number>>
              \/ /\ left = 0 /\ number' = number - 2
                 /\ \E d \in Listed : cell[d].key = cell[c].key /\ Removed(heap, d)
              \/ /\ left = 0 /\ ~ isEventPresent(cell[c].key)
                 /\ cell' = heap /\ number' = number - 1 /\ UNCHANGED <<head, live>>
<1> DEFINE c == pass.curr
           left == Decrement(cell[c].count)
           heap == ReturnHeap(c, left)
<1>1. c \in live /\ left \in IntMin..IntMax
  BY EventFields, DecrementType DEF HandlerReturns
<1>2. /\ status = "live" /\ pass.at = "handler" /\ pass' = [pass EXCEPT !.at = "update"]
      /\ seen' = seen \cap live' /\ UNCHANGED <<status, now, misused>>
  BY DEF HandlerReturns
<1>3. \/ left # 0 /\ cell' = heap /\ UNCHANGED <<head, live, number>>
      \/ /\ left = 0 /\ number' = number - 2
         /\ \E d \in Listed : cell[d].key = cell[c].key /\ RemoveEvent(heap, d)
      \/ /\ left = 0 /\ ~ isEventPresent(cell[c].key)
         /\ cell' = heap /\ number' = number - 1 /\ UNCHANGED <<head, live>>
  BY DEF HandlerReturns, ReturnHeap
<1>4. /\ SameShape(heap) /\ heap[c].count = left /\ heap[c].lastTime = cell[c].lastTime
      /\ heap[c].fires = cell[c].fires /\ Fixed(heap[c]) = Fixed(cell[c])
      /\ \A b \in Cells \ {c} : heap[b] = cell[b]
  <2>1. left \in IntMin..IntMax /\ heap = ReturnHeap(c, left)
    BY <1>1
  <2> HIDE DEF left, heap
  <2>2. c \in live
    BY <1>1
  <2> QED BY <2>1, <2>2, ReturnShape
<1>5. left = Decrement(cell[c].count)
  OBVIOUS
<1> HIDE DEF left, heap
<1>6. Returned(heap, c, left)
  BY <1>1, <1>2, <1>4, <1>5 DEF Returned
<1>7. \A d \in Listed : RemoveEvent(heap, d) => Removed(heap, d)
  BY <1>4, RemoveEffect
<1> HIDE DEF c
<1> QED BY <1>3, <1>6, <1>7

LEMMA TypeNext == TypeInv /\ [Next]_vars => TypeInv'
<1> SUFFICES ASSUME TypeInv, [Next]_vars
             PROVE  TypeInv'
  OBVIOUS
<1>0. /\ TypeOK /\ HeapOK /\ seen \subseteq live
      /\ pass \in PassType /\ head \in Pointer
  BY DEF TypeInv, TypeOK, HeapOK, PassType
<1>a. ASSUME HeapOK', head' \in Pointer, seen' \subseteq live', number' \in Int,
             status' \in {"none", "live", "crashed"}, pass' \in PassType,
             now' \in 0..MaxTime, misused' \in BOOLEAN, pass'.at = "idle" => seen' = {}
      PROVE  TypeInv'
  BY <1>a DEF TypeInv, TypeOK, HeapOK, PassType
<1>b. /\ number \in Int /\ status \in {"none", "live", "crashed"}
      /\ now \in 0..MaxTime /\ misused \in BOOLEAN
      /\ pass.at = "idle" => seen = {}
  BY DEF TypeInv, TypeOK
<1>c. CASE Fault
  BY <1>0, <1>a, <1>b, <1>c DEF Fault, HeapOK
<1>1. CASE mTimer_init
  BY <1>0, <1>a, <1>b, <1>1 DEF mTimer_init, HeapOK, Pointer
<1>2. CASE mTimer_cleanup
  <2>1. CASE ~ Fault
    <3>1. /\ pass.at = "idle"
          /\ status' = "none" /\ head' = NULL /\ number' = 0
          /\ live' = live \ Listed
          /\ cell' = [x \in Cells |-> IF x \in Listed THEN Free ELSE cell[x]]
          /\ UNCHANGED <<pass, seen, now, misused>>
      BY <1>2, <2>1 DEF mTimer_cleanup, CanCall
    <3>2. seen' = {}
      BY <1>b, <3>1
    <3>3. HeapOK'
      BY <1>0, <3>1 DEF HeapOK, Listed
    <3> QED BY <1>0, <1>a, <1>b, <3>1, <3>2, <3>3 DEF Pointer
  <2> QED BY <1>c, <2>1
<1>3. ASSUME NEW from, NEW k \in Keys, NEW i \in Intervals, NEW n \in Counts,
             mTimer_add(from, k, i, n)
      PROVE  TypeInv'
  <2>1. CASE ~ Fault
    <3>1. PICK new, p : Added(from, k, i, n, new, p)
      BY <1>0, <1>3, <2>1, AddEffect
    <3>2. from = "handler" => pass.at = "handler"
      BY <1>3 DEF mTimer_add, CanCall
    <3>3. seen' \subseteq live' /\ (pass'.at = "idle" => seen' = {})
      BY <1>0, <1>b, <3>1, <3>2 DEF Added
    <3>4. /\ HeapOK' /\ head' \in Pointer /\ number' \in Int /\ misused' \in BOOLEAN
          /\ status' = status /\ pass' = pass /\ now' = now
      <4>1. number' = number + 1 /\ head' = new /\ new \in Cells
        BY <3>1 DEF Added
      <4> QED BY <1>b, <3>1, <4>1 DEF Added, Pointer
    <3> QED BY <1>0, <1>a, <1>b, <3>3, <3>4
  <2> QED BY <1>c, <2>1
<1>4. ASSUME NEW from, NEW k \in Keys, mTimer_delete(from, k)
      PROVE  TypeInv'
  <2>1. CASE ~ Fault
    <3>1. PICK d \in Listed :
                 /\ Removed(cell, d) /\ number' = number - 1 /\ seen' = seen \ {d}
                 /\ misused' = (misused \/ from = "handler")
                 /\ UNCHANGED <<status, pass, now>>
      BY <1>0, <1>4, <2>1, DeleteEffect
    <3>2. head' \in Pointer /\ HeapOK'
      BY <1>0, <3>1, RemovedType
    <3>3. seen' \subseteq live'
      BY <1>0, <3>1 DEF Removed
    <3>4. number' \in Int /\ misused' \in BOOLEAN /\ (pass.at = "idle" => seen' = {})
      BY <1>b, <3>1
    <3> QED BY <1>0, <1>a, <1>b, <3>1, <3>2, <3>3, <3>4
  <2> QED BY <1>c, <2>1
<1>5. CASE ExecuteBegin
  <2>1. now \in Nat /\ gettimeofday(now) \in Timeval
    BY <1>b, GettimeofdayType, Timer2Assumption
  <2>2. /\ pass' = [Idle EXCEPT !.at = "walk", !.tv = gettimeofday(now), !.curr = head]
        /\ seen' = {} /\ UNCHANGED <<status, head, cell, live, number, now, misused>>
    BY <1>5 DEF ExecuteBegin
  <2>3. pass' \in PassType
    BY <1>0, <2>1, <2>2, ZeroType DEF Idle, PassType
  <2> QED BY <1>0, <1>a, <1>b, <2>2, <2>3 DEF HeapOK
<1>6. CASE ExecuteFire
  <2>1. /\ pass.curr \in live
        /\ pass' = [pass EXCEPT !.at = "handler", !.tmp = cell[pass.curr].next,
                                !.eventTv = EventTime(pass.curr)]
        /\ cell' = [cell EXCEPT ![pass.curr].fires = @ + 1]
        /\ seen' = seen \cup {pass.curr}
        /\ UNCHANGED <<status, head, live, number, now, misused>>
    BY <1>6 DEF ExecuteFire
  <2>2. cell[pass.curr].next \in Pointer /\ EventTime(pass.curr) \in Timeval
    BY <1>0, <2>1, EventFields, EventTimeType
  <2>3. pass' \in PassType /\ pass'.at = "handler"
    BY <1>0, <2>1, <2>2 DEF PassType
  <2>4. HeapOK'
    BY <1>0, <2>1, FireShape DEF HeapOK
  <2> QED BY <1>0, <1>a, <1>b, <2>1, <2>3, <2>4
<1>7. CASE ExecuteSkip
  <2>1. /\ pass.curr \in live
        /\ pass.at = "walk" /\ pass' = [pass EXCEPT !.curr = cell[pass.curr].next]
        /\ UNCHANGED <<status, head, cell, live, number, seen, now, misused>>
    BY <1>7 DEF ExecuteSkip, Walking
  <2>2. cell[pass.curr].next \in Pointer
    BY <1>0, <2>1, EventFields
  <2>3. pass' \in PassType /\ pass'.at = "walk"
    BY <1>0, <2>1, <2>2 DEF PassType
  <2> QED BY <1>0, <1>a, <1>b, <2>1, <2>3 DEF HeapOK
<1>8. CASE HandlerReturns
  <2>1. PICK heap, c, left :
           /\ Returned(heap, c, left)
           /\ \/ left # 0 /\ cell' = heap /\ UNCHANGED <<head, live, number>>
              \/ /\ left = 0 /\ number' = number - 2
                 /\ \E d \in Listed : cell[d].key = cell[c].key /\ Removed(heap, d)
              \/ /\ left = 0 /\ ~ isEventPresent(cell[c].key)
                 /\ cell' = heap /\ number' = number - 1 /\ UNCHANGED <<head, live>>
    BY <1>0, <1>8, ReturnEffect
  <2>2. head' \in Pointer /\ HeapOK' /\ number' \in Int
    <3>1. CASE cell' = heap /\ UNCHANGED <<head, live>>
      BY <1>0, <1>b, <2>1, <3>1 DEF Returned, SameShape, HeapOK
    <3>2. CASE number' = number - 2 /\ \E d \in Listed : Removed(heap, d)
      BY <1>0, <1>b, <3>2, RemovedType
    <3> QED BY <2>1, <3>1, <3>2
  <2>3. pass' \in PassType /\ pass'.at = "update"
    BY <1>0, <2>1 DEF Returned, PassType
  <2>4. /\ seen' \subseteq live' /\ UNCHANGED <<status, now, misused>>
    BY <2>1 DEF Returned
  <2> QED BY <1>a, <1>b, <2>2, <2>3, <2>4
<1>8a. CASE UpdateLastTime
  <2>1. /\ cell' = IF pass.curr \in live
                   THEN [cell EXCEPT ![pass.curr].lastTime = pass.eventTv] ELSE cell
        /\ pass' = Advance /\ UNCHANGED <<status, head, live, number, seen, now, misused>>
    BY <1>8a DEF UpdateLastTime
  <2>2. SameShape(cell')
    <3>1. pass.eventTv \in Timeval
      BY <1>0 DEF PassType
    <3> QED BY <1>0, <2>1, <3>1, UpdateShape DEF Updated
  <2>3. HeapOK'
    BY <1>0, <2>1, <2>2 DEF SameShape, HeapOK
  <2>4. pass' \in PassType /\ pass'.at = "walk"
    BY <1>0, <2>1, ZeroType DEF Advance, PassType, Pointer
  <2> QED BY <1>0, <1>a, <1>b, <2>1, <2>3, <2>4
<1>9. CASE ExecuteReturn
  BY <1>0, <1>a, <1>b, <1>9, ZeroType DEF ExecuteReturn, HeapOK
<1>10. CASE Tick
  BY <1>0, <1>a, <1>b, <1>10, Timer2Assumption DEF Tick, HeapOK
<1>11. CASE UNCHANGED vars
  BY <1>0, <1>a, <1>b, <1>11 DEF vars, HeapOK
<1>12. CASE ExecuteFault
  BY <1>c, <1>12 DEF ExecuteFault
<1> QED BY <1>1, <1>2, <1>3, <1>4, <1>5, <1>6, <1>7, <1>8, <1>8a, <1>9, <1>10, <1>11, <1>12 DEF Next

(* The cells in use hold events, the others nothing, and what a pass has   *)
(* seen is in use: mTimer_add, mTimer_delete, mTimer_executeExpireEvents.  *)
THEOREM TypeCorrect == Spec => []TypeOK
<1>1. TypeInv => TypeOK
  BY DEF TypeInv
<1> QED BY TypeInit, TypeNext, <1>1, PTL DEF Spec

-----------------------------------------------------------------------------
(* Paths.  s holds the cells met from the pointer p on, and q the pointer  *)
(* where the path ends, in the memory f whose cells L are in use.          *)

CellsOf(s) == {s[i] : i \in 1..Len(s)}

IsPath(L, f, s, p, q) ==
  /\ s \in Seq(L) /\ q \notin L
  /\ \A i, j \in 1..Len(s) : s[i] = s[j] => i = j
  /\ p = IF Len(s) = 0 THEN q ELSE s[1]
  /\ \A i \in 1..Len(s) : f[s[i]].next = IF i = Len(s) THEN q ELSE s[i + 1]

LEMMA PathSet ==
  ASSUME NEW L, NEW f, NEW s, NEW p, NEW q, IsPath(L, f, s, p, q)
  PROVE  /\ CellsOf(s) \subseteq L /\ Len(s) \in Nat
         /\ \A c \in CellsOf(s) : \E i \in 1..Len(s) : s[i] = c
         /\ \A i \in 1..Len(s) : s[i] \in CellsOf(s)
         /\ (p \in L <=> Len(s) > 0) /\ (Len(s) > 0 => p = s[1])
         /\ (p \notin L => p = q /\ Len(s) = 0 /\ CellsOf(s) = {})
BY DEF IsPath, CellsOf

\* What follows a cell of a path is on it, or ends it.
LEMMA PathNext ==
  ASSUME NEW L, NEW f, NEW s, NEW p, NEW q, IsPath(L, f, s, p, q), NEW c \in CellsOf(s)
  PROVE  f[c].next \in CellsOf(s) \cup {q}
BY DEF IsPath, CellsOf

LEMMA EmptyPath ==
  ASSUME NEW L, NEW f, NEW q, q \notin L
  PROVE  IsPath(L, f, <<>>, q, q) /\ CellsOf(<<>>) = {}
BY DEF IsPath, CellsOf

\* A path stays one when its cells stay in use and keep their next.
LEMMA PathFrame ==
  ASSUME NEW L, NEW f, NEW s, NEW p, NEW q, IsPath(L, f, s, p, q), NEW M, NEW g,
         q \notin M, \A c \in CellsOf(s) : c \in M /\ g[c].next = f[c].next
  PROVE  IsPath(M, g, s, p, q)
<1>1. \A i \in 1..Len(s) : s[i] \in M /\ g[s[i]].next = f[s[i]].next
  BY DEF CellsOf
<1>2. s \in Seq(M)
  BY <1>1 DEF IsPath
<1> QED BY <1>1, <1>2 DEF IsPath

\* t has the cells of s and c.
With(s, c, t) == CellsOf(t) = CellsOf(s) \cup {c} /\ Len(t) = Len(s) + 1

\* A new cell goes in front.
LEMMA PathPush ==
  ASSUME NEW L, NEW f, NEW s, NEW p, NEW q, IsPath(L, f, s, p, q), NEW c, NEW g,
         c \notin L, c # q, g[c].next = p, \A b \in L : g[b].next = f[b].next
  PROVE  IsPath(L \cup {c}, g, InsertAt(s, 1, c), c, q) /\ With(s, c, InsertAt(s, 1, c))
<1> DEFINE M == L \cup {c}
           t == InsertAt(s, 1, c)
<1>1. IsPath(M, g, s, p, q)
  <2>1. q \notin M /\ \A b \in CellsOf(s) : b \in M /\ g[b].next = f[b].next
    BY PathSet DEF IsPath
  <2> QED BY <2>1, PathFrame
<1>2. /\ t \in Seq(M) /\ Len(t) = Len(s) + 1 /\ Len(s) \in Nat
      /\ t[1] = c /\ \A j \in 2..(Len(s) + 1) : t[j] = s[j - 1]
  <2>1. s \in Seq(M) /\ c \in M /\ 1 \in 1..(Len(s) + 1)
    BY <1>1 DEF IsPath
  <2> HIDE DEF M
  <2>2. /\ t \in Seq(M) /\ Len(t) = Len(s) + 1
        /\ \A j \in 1..(Len(s) + 1) :
             t[j] = IF j < 1 THEN s[j] ELSE IF j = 1 THEN c ELSE s[j - 1]
    BY <2>1, InsertAtShape
  <2>3. Len(s) \in Nat
    BY <2>1
  <2> HIDE DEF t
  <2> QED BY <2>2, <2>3
<1> HIDE DEF t
<1>3. \A i \in 1..Len(s) : s[i] \in L
  BY DEF IsPath
<1>4. \A i, j \in 1..Len(t) : t[i] = t[j] => i = j
  <2> SUFFICES ASSUME NEW i \in 1..Len(t), NEW j \in 1..Len(t), t[i] = t[j], i < j
               PROVE  FALSE
    BY <1>2
  <2>1. j \in 2..(Len(s) + 1) /\ t[j] = s[j - 1] /\ j - 1 \in 1..Len(s)
    BY <1>2
  <2>2. CASE i = 1
    BY <1>2, <1>3, <2>1, <2>2
  <2>3. CASE i # 1
    <3>1. t[i] = s[i - 1] /\ i - 1 \in 1..Len(s) /\ i - 1 # j - 1
      BY <1>2, <2>3
    <3> QED BY <2>1, <3>1 DEF IsPath
  <2> QED BY <2>2, <2>3
<1>5. \A i \in 1..Len(t) : g[t[i]].next = IF i = Len(t) THEN q ELSE t[i + 1]
  <2> SUFFICES ASSUME NEW i \in 1..Len(t)
               PROVE  g[t[i]].next = IF i = Len(t) THEN q ELSE t[i + 1]
    OBVIOUS
  <2>1. CASE i = 1
    <3>1. p = IF Len(s) = 0 THEN q ELSE s[1]
      BY DEF IsPath
    <3> QED BY <1>2, <2>1, <3>1
  <2>2. CASE i # 1
    <3>1. t[i] = s[i - 1] /\ i - 1 \in 1..Len(s) /\ (i = Len(t) <=> i - 1 = Len(s))
      BY <1>2, <2>2
    <3>2. g[s[i - 1]].next = IF i - 1 = Len(s) THEN q ELSE s[(i - 1) + 1]
      BY <1>1, <3>1 DEF IsPath
    <3>3. i # Len(t) => i + 1 \in 2..(Len(s) + 1) /\ t[i + 1] = s[i] /\ (i - 1) + 1 = i
      BY <1>2, <2>2
    <3> QED BY <3>1, <3>2, <3>3
  <2> QED BY <2>1, <2>2
<1>6. CellsOf(t) = CellsOf(s) \cup {c}
  <2>1. ASSUME NEW b \in CellsOf(t) PROVE b \in CellsOf(s) \cup {c}
    BY <1>2 DEF CellsOf
  <2>2. ASSUME NEW b \in CellsOf(s) PROVE b \in CellsOf(t)
    <3>1. PICK i \in 1..Len(s) : b = s[i]
      BY DEF CellsOf
    <3>2. i + 1 \in 2..(Len(s) + 1) /\ t[i + 1] = b /\ i + 1 \in 1..Len(t)
      BY <1>2, <3>1
    <3> QED BY <3>2 DEF CellsOf
  <2>3. c \in CellsOf(t)
    BY <1>2 DEF CellsOf
  <2> QED BY <2>1, <2>2, <2>3
<1>7. q \notin M
  BY DEF IsPath
<1>8. IsPath(M, g, t, c, q)
  BY <1>2, <1>4, <1>5, <1>7 DEF IsPath
<1> QED BY <1>2, <1>6, <1>8 DEF t, With

(* A pointer to d becomes one to what follows d in f, any other stays; g   *)
(* is f with the pointers of the path s changed so.                        *)
Bypass(f, d, p, r) == (p = d => r = f[d].next) /\ (p # d => r = p)
Unlinks(f, d, s, g) == \A c \in CellsOf(s) \ {d} : Bypass(f, d, f[c].next, g[c].next)

\* t has the cells of s without d.
Without(s, d, t) == CellsOf(t) = CellsOf(s) \ {d} /\ Len(t) = Len(s) - 1

\* A cell of the path is taken out.
LEMMA PathCut ==
  ASSUME NEW L, NEW f, NEW s, NEW p, NEW q, IsPath(L, f, s, p, q), NEW k \in 1..Len(s),
         NEW d, d = s[k], NEW r, Bypass(f, d, p, r), NEW g, Unlinks(f, d, s, g)
  PROVE  IsPath(L \ {d}, g, RemoveAt(s, k), r, q) /\ Without(s, d, RemoveAt(s, k))
<1> DEFINE t == RemoveAt(s, k)
           at(j) == IF j < k THEN j ELSE j + 1
           n == Len(s)
<1>1. s \in Seq(L) /\ n \in Nat /\ k \in 1..n /\ d = s[k]
  BY DEF IsPath
<1>2. t \in Seq(L) /\ Len(t) = n - 1 /\ \A j \in 1..(n - 1) : t[j] = s[at(j)]
  BY <1>1, RemoveAtShape
<1> HIDE DEF t, n
<1>3. \A j \in 1..(n - 1) : at(j) \in 1..n /\ at(j) # k
  BY <1>1
<1>4. \A i, j \in 1..n : s[i] = s[j] => i = j
  BY DEF IsPath, n
<1>5. \A i \in 1..n : f[s[i]].next = IF i = n THEN q ELSE s[i + 1]
  BY DEF IsPath, n
<1>6. \A j \in 1..(n - 1) : t[j] \in L /\ t[j] # d
  <2> SUFFICES ASSUME NEW j \in 1..(n - 1) PROVE t[j] \in L /\ t[j] # d
    OBVIOUS
  <2>1. t[j] = s[at(j)] /\ at(j) \in 1..n /\ at(j) # k
    BY <1>2, <1>3
  <2> HIDE DEF at
  <2>2. s[at(j)] \in L
    BY <1>1, <2>1 DEF n
  <2> QED BY <1>1, <1>4, <2>1, <2>2
<1>7. t \in Seq(L \ {d})
  BY <1>2, <1>6, <1>1
<1>8. \A i, j \in 1..(n - 1) : t[i] = t[j] => i = j
  <2> SUFFICES ASSUME NEW i \in 1..(n - 1), NEW j \in 1..(n - 1), t[i] = t[j]
               PROVE  i = j
    OBVIOUS
  <2>1. at(i) = at(j)
    BY <1>2, <1>3, <1>4
  <2> QED BY <1>1, <2>1
<1>9. \A j \in 1..(n - 1) : g[t[j]].next = IF j = n - 1 THEN q ELSE t[j + 1]
  <2> SUFFICES ASSUME NEW j \in 1..(n - 1)
               PROVE  g[t[j]].next = IF j = n - 1 THEN q ELSE t[j + 1]
    OBVIOUS
  <2>1. t[j] = s[at(j)] /\ at(j) \in 1..n /\ at(j) # k
    BY <1>2, <1>3
  <2>2. t[j] \in CellsOf(s) \ {d}
    BY <1>6, <2>1 DEF CellsOf, n
  <2>3. g[t[j]].next = IF f[t[j]].next = d THEN f[d].next ELSE f[t[j]].next
    BY <2>2 DEF Unlinks, Bypass
  <2>4. f[t[j]].next = IF at(j) = n THEN q ELSE s[at(j) + 1]
    BY <1>5, <2>1
  <2>5. f[d].next = IF k = n THEN q ELSE s[k + 1]
    BY <1>1, <1>5
  <2>6. q # d
    BY <1>1 DEF IsPath
  <2>7. CASE j + 1 = k
    <3>1. at(j) = j /\ j # n /\ f[t[j]].next = d
      BY <1>1, <2>4, <2>7
    <3>2. j # n - 1 => j + 1 \in 1..(n - 1) /\ t[j + 1] = s[k + 1] /\ k # n
      BY <1>1, <1>2, <2>7
    <3>3. j = n - 1 => k = n
      BY <1>1, <2>7
    <3> QED BY <2>3, <2>5, <3>1, <3>2, <3>3
  <2>8. CASE j + 1 # k
    <3>1. f[t[j]].next # d
      <4>1. at(j) # n => at(j) + 1 \in 1..n /\ at(j) + 1 # k
        BY <1>1, <2>1, <2>8
      <4> QED BY <1>1, <1>4, <2>4, <2>6, <4>1
    <3>2. at(j) = n <=> j = n - 1
      BY <1>1, <2>8
    <3>3. j # n - 1 => j + 1 \in 1..(n - 1) /\ at(j + 1) = at(j) + 1
      BY <1>1, <2>8
    <3>4. j # n - 1 => t[j + 1] = s[at(j) + 1]
      BY <1>2, <3>3
    <3> QED BY <2>3, <2>4, <3>1, <3>2, <3>4
  <2> QED BY <2>7, <2>8
<1>10. r = IF n - 1 = 0 THEN q ELSE t[1]
  <2>1. p = s[1] /\ 1 \in 1..n
    BY <1>1 DEF IsPath, n
  <2>2. CASE k = 1
    <3>1. r = f[d].next /\ f[d].next = IF n = 1 THEN q ELSE s[2]
      BY <1>1, <1>5, <2>1, <2>2 DEF Bypass
    <3>2. n - 1 # 0 => 1 \in 1..(n - 1) /\ t[1] = s[2]
      BY <1>1, <1>2, <2>2
    <3> QED BY <1>1, <3>1, <3>2
  <2>3. CASE k # 1
    <3>1. r = p
      BY <1>1, <1>4, <2>1, <2>3 DEF Bypass
    <3>2. n - 1 # 0 /\ 1 \in 1..(n - 1) /\ t[1] = s[1]
      BY <1>1, <1>2, <2>3
    <3> QED BY <2>1, <3>1, <3>2
  <2> QED BY <2>2, <2>3
<1>11. CellsOf(t) = CellsOf(s) \ {d}
  <2>1. ASSUME NEW b \in CellsOf(t) PROVE b \in CellsOf(s) \ {d}
    <3>1. PICK j \in 1..(n - 1) : b = t[j]
      BY <1>2 DEF CellsOf
    <3>2. b = s[at(j)] /\ at(j) \in 1..n
      BY <1>2, <1>3, <3>1
    <3> QED BY <1>6, <3>1, <3>2 DEF CellsOf, n
  <2>2. ASSUME NEW b \in CellsOf(s) \ {d} PROVE b \in CellsOf(t)
    <3>1. PICK i \in 1..n : b = s[i]
      BY DEF CellsOf, n
    <3>2. i # k
      BY <1>1, <3>1
    <3> DEFINE j == IF i < k THEN i ELSE i - 1
    <3>3. j \in 1..(n - 1) /\ at(j) = i
      BY <1>1, <3>2
    <3>4. t[j] = b
      BY <1>2, <3>1, <3>3
    <3> QED BY <1>2, <3>3, <3>4 DEF CellsOf
  <2> QED BY <2>1, <2>2
<1>12. q \notin L \ {d}
  BY DEF IsPath
<1>13. IsPath(L \ {d}, g, t, r, q)
  BY <1>2, <1>7, <1>8, <1>9, <1>10, <1>12 DEF IsPath
<1> QED BY <1>2, <1>11, <1>13 DEF t, n, Without

\* A path without its first cell.
LEMMA PathTail ==
  ASSUME NEW L, NEW f, NEW s, NEW p, NEW q, IsPath(L, f, s, p, q), p \in L
  PROVE  /\ p \in CellsOf(s)
         /\ IsPath(L, f, RemoveAt(s, 1), f[p].next, q)
         /\ CellsOf(RemoveAt(s, 1)) = CellsOf(s) \ {p}
<1>1. Len(s) > 0 /\ p = s[1] /\ 1 \in 1..Len(s) /\ s \in Seq(L)
  BY PathSet DEF IsPath
<1>2. \A c \in CellsOf(s) \ {p} : f[c].next # p
  <2> SUFFICES ASSUME NEW i \in 1..Len(s), f[s[i]].next = p
               PROVE  FALSE
    BY DEF CellsOf
  <2>1. p # q
    BY DEF IsPath
  <2>2. i # Len(s) /\ s[i + 1] = s[1] /\ i + 1 \in 1..Len(s) /\ i + 1 # 1
    BY <1>1, <2>1 DEF IsPath
  <2> QED BY <1>1, <2>2 DEF IsPath
<1>3. /\ IsPath(L \ {p}, f, RemoveAt(s, 1), f[p].next, q)
      /\ CellsOf(RemoveAt(s, 1)) = CellsOf(s) \ {p}
  <2>1. Unlinks(f, p, s, f) /\ Bypass(f, p, p, f[p].next)
    BY <1>2 DEF Unlinks, Bypass
  <2>2. IsPath(L \ {p}, f, RemoveAt(s, 1), f[p].next, q) /\ Without(s, p, RemoveAt(s, 1))
    BY <1>1, <2>1, PathCut
  <2> QED BY <2>2 DEF Without
<1>4. IsPath(L, f, RemoveAt(s, 1), f[p].next, q)
  <2>1. q \notin L
    BY DEF IsPath
  <2>2. \A c \in CellsOf(RemoveAt(s, 1)) : c \in L
    BY <1>3, PathSet
  <2> QED BY <1>3, <2>1, <2>2, PathFrame
<1>5. p \in CellsOf(s)
  BY <1>1 DEF CellsOf
<1> QED BY <1>3, <1>4, <1>5

\* A path has as many cells as it is long, and no more than there are.
LEMMA PathLength ==
  ASSUME NEW L, L \subseteq Cells, NEW f, NEW s, NEW p, NEW q, IsPath(L, f, s, p, q)
  PROVE  /\ Cardinality(CellsOf(s)) = Len(s)
         /\ Cardinality(Cells) \in Nat /\ Len(s) <= Cardinality(Cells)
<1>1. Len(s) \in Nat /\ s \in [1..Len(s) -> CellsOf(s)]
  BY DEF IsPath, CellsOf
<1>2. s \in Bijection(1..Len(s), CellsOf(s))
  BY <1>1 DEF IsPath, CellsOf, Bijection, Injection, Surjection, IsInjective
<1>3. ExistsBijection(1..Len(s), CellsOf(s))
  BY <1>2 DEF ExistsBijection
<1>4. Cardinality(CellsOf(s)) = Len(s)
  BY <1>1, <1>3, FS_CountingElements
<1>5. CellsOf(s) \in SUBSET Cells
  BY PathSet
<1>6. Cardinality(CellsOf(s)) <= Cardinality(Cells) /\ Cardinality(Cells) \in Nat
  BY <1>5, Timer2Assumption, FS_Subset, FS_CardinalityType
<1> QED BY <1>4, <1>6

\* The walk from th->events meets the cells of the path one by one.
LEMMA WalkOfPath ==
  ASSUME live \subseteq Cells, NEW s, NEW q, IsPath(live, cell, s, head, q)
  PROVE  /\ DOMAIN Walk = 0..Cardinality(Cells)
         /\ Cardinality(Cells) \in Nat /\ Len(s) \in 0..Cardinality(Cells)
         /\ \A i \in 0..Cardinality(Cells) : Walk[i] = IF i < Len(s) THEN s[i + 1] ELSE q
<1> DEFINE N == Cardinality(Cells)
           Step(g, i) == IF i = 0 THEN head
                         ELSE IF g[i - 1] \in live THEN cell[g[i - 1]].next ELSE g[i - 1]
           w == [i \in 0..N |-> IF i < Len(s) THEN s[i + 1] ELSE q]
<1>1. N \in Nat /\ Len(s) \in 0..N
  BY PathLength, PathSet
<1>2. \A i \in 0..N : w[i] = Step(w, i)
  <2> SUFFICES ASSUME NEW i \in 0..N PROVE w[i] = Step(w, i)
    OBVIOUS
  <2>1. w[i] = IF i < Len(s) THEN s[i + 1] ELSE q
    OBVIOUS
  <2>2. CASE i = 0
    <3>1. head = IF Len(s) = 0 THEN q ELSE s[1]
      BY DEF IsPath
    <3> QED BY <1>1, <2>1, <2>2, <3>1
  <2>3. CASE i # 0
    <3>1. i - 1 \in 0..N /\ w[i - 1] = IF i - 1 < Len(s) THEN s[(i - 1) + 1] ELSE q
      BY <1>1, <2>3
    <3>2. CASE i <= Len(s)
      <4>1. w[i - 1] = s[i] /\ i \in 1..Len(s)
        BY <1>1, <2>3, <3>1, <3>2
      <4>2. s[i] \in live /\ cell[s[i]].next = IF i = Len(s) THEN q ELSE s[i + 1]
        BY <4>1 DEF IsPath
      <4> QED BY <1>1, <2>1, <2>3, <3>2, <4>1, <4>2
    <3>3. CASE ~ (i <= Len(s))
      <4>1. w[i - 1] = q /\ w[i] = q /\ q \notin live
        BY <1>1, <2>1, <2>3, <3>1, <3>3 DEF IsPath
      <4> QED BY <2>3, <4>1
    <3> QED BY <3>2, <3>3
  <2> QED BY <2>2, <2>3
<1>3. w = [i \in 0..N |-> Step(w, i)]
  <2> DEFINE v == [i \in 0..N |-> Step(w, i)]
  <2>1. DOMAIN w = 0..N /\ DOMAIN v = 0..N /\ w = [i \in 0..N |-> w[i]] /\ v = [i \in 0..N |-> v[i]]
    OBVIOUS
  <2>2. \A i \in 0..N : v[i] = Step(w, i)
    OBVIOUS
  <2> HIDE DEF w, v
  <2>3. \A i \in 0..N : v[i] = w[i]
    BY <1>2, <2>2
  <2> QED BY <2>1, <2>3 DEF v
<1>4. Walk = [i \in 0..N |-> Step(Walk, i)]
  <2> HIDE DEF w
  <2> QED BY <1>3 DEF Walk
<1>5. \A i \in 0..N : Walk[i] = w[i]
  <2> SUFFICES ASSUME NEW j \in 0..N, Walk[j] # w[j] PROVE FALSE
    OBVIOUS
  <2> DEFINE T == {i \in 0..N : Walk[i] # w[i]}
  <2>1. T \in SUBSET Nat /\ T # {}
    BY <1>1
  <2>2. PICK i \in T : \A m \in T : i <= m
    BY <2>1, LeastNumber
  <2>3. i \in 0..N /\ Walk[i] # w[i] /\ Walk[i] = Step(Walk, i) /\ w[i] = Step(w, i)
    <3> HIDE DEF w
    <3> QED BY <1>2, <1>4, <2>2
  <2>4. i = 0 \/ Walk[i - 1] = w[i - 1]
    <3>1. i # 0 => i - 1 \in 0..N /\ ~ (i <= i - 1)
      BY <1>1, <2>3
    <3>2. i # 0 => i - 1 \notin T
      BY <2>2, <3>1
    <3> HIDE DEF w
    <3> QED BY <3>1, <3>2
  <2> HIDE DEF w
  <2> QED BY <2>3, <2>4
<1>6. DOMAIN Walk = 0..N
  BY <1>4
<1> QED BY <1>1, <1>5, <1>6

(* What the operators of the specification say of a list that is a path:   *)
(* q is what ends it.                                                      *)
LEMMA ListShape ==
  ASSUME live \subseteq Cells, NEW s, NEW q, IsPath(live, cell, s, head, q)
  PROVE  /\ Listed = CellsOf(s) /\ Cardinality(Listed) = Len(s)
         /\ (q = NULL <=> ~ WalkFaults) /\ Met \subseteq live \cup {q}
         /\ \A i, j \in DOMAIN Walk : i # j /\ Walk[i] = Walk[j] => Walk[i] \notin live
<1> DEFINE N == Cardinality(Cells)
<1>1. /\ DOMAIN Walk = 0..N /\ N \in Nat /\ Len(s) \in 0..N
      /\ \A i \in 0..N : Walk[i] = IF i < Len(s) THEN s[i + 1] ELSE q
  BY WalkOfPath
<1>2. q \notin live /\ \A i \in 1..Len(s) : s[i] \in live
  BY DEF IsPath
<1>3. CellsOf(s) \subseteq Met
  <2> SUFFICES ASSUME NEW i \in 1..Len(s) PROVE s[i] \in Met
    BY DEF CellsOf
  <2>1. i - 1 \in 0..N /\ i - 1 < Len(s) /\ (i - 1) + 1 = i
    BY <1>1
  <2>2. Walk[i - 1] = s[i]
    BY <1>1, <2>1
  <2> QED BY <1>1, <2>1, <2>2 DEF Met
<1>4. q \in Met
  <2>1. N \in 0..N /\ Walk[N] = q
    BY <1>1
  <2> QED BY <1>1, <2>1 DEF Met
<1>5. Met \subseteq CellsOf(s) \cup {q}
  <2> SUFFICES ASSUME NEW i \in 0..N PROVE Walk[i] \in CellsOf(s) \cup {q}
    BY <1>1 DEF Met
  <2>1. i < Len(s) => i + 1 \in 1..Len(s) /\ Walk[i] = s[i + 1]
    BY <1>1
  <2> QED BY <1>1, <2>1 DEF CellsOf
<1>6. CellsOf(s) \subseteq live
  BY <1>2 DEF CellsOf
<1>7. Listed = CellsOf(s)
  BY <1>2, <1>3, <1>5, <1>6 DEF Listed
<1>8. q = NULL <=> ~ WalkFaults
  BY <1>2, <1>4, <1>5, <1>6 DEF WalkFaults
<1>9. ASSUME NEW i \in 0..N, NEW j \in 0..N, i # j, Walk[i] = Walk[j], Walk[i] \in live
      PROVE  FALSE
  <2>1. i < Len(s) /\ j < Len(s)
    BY <1>1, <1>2, <1>9
  <2>2. i + 1 \in 1..Len(s) /\ j + 1 \in 1..Len(s) /\ i + 1 # j + 1 /\ s[i + 1] = s[j + 1]
    BY <1>1, <1>9, <2>1
  <2> QED BY <2>2 DEF IsPath
<1>10. Cardinality(Listed) = Len(s)
  BY <1>7, PathLength
<1> QED BY <1>1, <1>5, <1>6, <1>7, <1>8, <1>9, <1>10

-----------------------------------------------------------------------------
(* The invariant.  list is the list, and rest what the pass has still to   *)
(* visit, from curr on or, while a handler runs, from tmp on; they end in  *)
(* the pointers end and out.  rest is a part of the list, or the list has  *)
(* been replaced (number = 0 in mTimer_add) and it has no event of it.     *)

Start == IF pass.at = "walk" THEN pass.curr ELSE pass.tmp

InHandler(c) == pass.at = "handler" /\ pass.curr = c

ListOK(list, end) ==
  /\ IsPath(live, cell, list, head, end)
  /\ end \in Ends
  /\ \A c, d \in CellsOf(list) : cell[c].key = cell[d].key => c = d
  /\ number <= Len(list)

RestOK(list, rest, out) ==
  /\ IsPath(live, cell, rest, Start, out)
  /\ out \in Ends \/ rest = <<>>
  /\ CellsOf(rest) \subseteq CellsOf(list) \/ CellsOf(rest) \cap CellsOf(list) = {}
  /\ ~ misused => out \in Ends /\ CellsOf(rest) \cap seen = {}
  /\ pass.at # "idle" /\ out = NULL =>
       \A c \in CellsOf(list) : IsDue(c) => c \in seen \cup CellsOf(rest)

PassOK(list, rest) ==
  /\ status = "none" => pass.at = "idle"
  /\ pass.at = "idle" => pass = Idle
  /\ pass.at = "walk" => pass.tmp = NULL
  /\ pass.at = "handler" =>
       /\ pass.curr \in live => pass.curr \in seen
       /\ ~ misused => /\ pass.curr \in live /\ pass.eventTv = EventTime(pass.curr)
                       /\ \/ pass.curr \in CellsOf(list)
                          \/ CellsOf(rest) \cap CellsOf(list) = {}
  /\ pass.at = "update" /\ pass.curr \in live =>
       /\ pass.curr \in seen
       /\ ~ misused => pass.eventTv = EventTime(pass.curr)

CountOK(list, rest) ==
  \A c \in live : cell[c].limit > 0 /\ (misused => c \in CellsOf(list)) =>
    /\ cell[c].fires + cell[c].count <= cell[c].limit + (IF InHandler(c) THEN 1 ELSE 0)
    /\ cell[c].count >= 0
    /\ cell[c].count = 0 => c \notin CellsOf(list) \cup CellsOf(rest) /\ ~ InHandler(c)

Inv(list, end, rest, out) ==
  ListOK(list, end) /\ RestOK(list, rest, out) /\ PassOK(list, rest) /\ CountOK(list, rest)

IInv == TypeInv /\ KeepsPhase /\ \E list, end, rest, out : Inv(list, end, rest, out)

\* Whether an event is due depends on what it holds and on the pass.
LEMMA DueFrame ==
  ASSUME NEW c, cell'[c].lastTime = cell[c].lastTime, cell'[c].interval = cell[c].interval,
         pass'.tv = pass.tv
  PROVE  /\ IsDue(c)' <=> IsDue(c)
         /\ EventTime(c)' = EventTime(c)
BY DEF IsDue, EventTime

LEMMA IdleStart == pass = Idle => Start = NULL
BY DEF Idle, Start

\* The list without the event d.
LEMMA RemovedList ==
  ASSUME TypeOK, NEW list, NEW end, ListOK(list, end), NEW heap, NEW d \in Listed, Removed(heap, d),
         \A c \in live : heap[c].key = cell[c].key,
         number' \in Int, number' <= number - 1, misused => misused'
  PROVE  \E l : ListOK(l, end)' /\ CellsOf(l) = CellsOf(list) \ {d}
<1>1. /\ IsPath(live, cell, list, head, end) /\ live \subseteq Cells
      /\ Listed = CellsOf(list) /\ Listed \subseteq live
  BY ListShape DEF ListOK, TypeOK, Listed
<1>2. PICK k \in 1..Len(list) : list[k] = d
  BY <1>1, PathSet
<1>3. Unlinks(cell, d, list, cell')
  BY <1>1 DEF Removed, Unlinks, Bypass
<1>4. Bypass(cell, d, head, head')
  BY DEF Removed, Bypass
<1> DEFINE l == RemoveAt(list, k)
<1>6. /\ IsPath(live \ {d}, cell', l, head', end)
      /\ CellsOf(l) = CellsOf(list) \ {d} /\ Len(l) = Len(list) - 1
  <2>1. IsPath(live \ {d}, cell', l, head', end) /\ Without(list, d, l)
    BY <1>1, <1>2, <1>3, <1>4, PathCut
  <2> QED BY <2>1 DEF Without
<1> HIDE DEF l
<1>7. IsPath(live', cell', l, head', end)
  BY <1>6 DEF Removed
<1>8. \A c, e \in CellsOf(l) : cell'[c].key = cell'[e].key => c = e
  <2>1. \A c \in CellsOf(l) : c \in CellsOf(list) /\ cell'[c].key = cell[c].key
    BY <1>1, <1>6 DEF Removed, Content
  <2> QED BY <2>1 DEF ListOK
<1>9. number' <= Len(l)
  <2>1. number <= Len(list) /\ number \in Int /\ Len(list) \in Nat
    BY <1>1, PathSet DEF ListOK, TypeOK
  <2> QED BY <1>6, <2>1
<1>10. end \in Ends
  BY DEF ListOK
<1>11. ListOK(l, end)'
  BY <1>7, <1>8, <1>9, <1>10 DEF ListOK
<1> QED BY <1>6, <1>11

\* What is left of a path from p when the event d of the list is removed.
LEMMA RemovedRest ==
  ASSUME TypeOK, NEW list, NEW end, ListOK(list, end), NEW heap, NEW d \in Listed, Removed(heap, d),
         NEW rest, NEW p, NEW out, IsPath(live, cell, rest, p, out),
         CellsOf(rest) \subseteq CellsOf(list) \/ CellsOf(rest) \cap CellsOf(list) = {},
         out \in Ends \/ rest = <<>>
  PROVE  \E r, o : /\ IsPath(live', cell', r, p, o)
                   /\ o \in Ends \/ r = <<>>
                   /\ CellsOf(r) \subseteq CellsOf(rest) \ {d}
                   /\ o = NULL => out = NULL /\ CellsOf(r) = CellsOf(rest) \ {d}
                   /\ d \notin CellsOf(rest) => r = rest /\ o = out
<1>1. Listed = CellsOf(list) /\ live \subseteq Cells /\ d \in live /\ live' = live \ {d}
  BY ListShape DEF ListOK, TypeOK, Removed
<1>2. CellsOf(rest) \subseteq live /\ out \notin live
  BY PathSet DEF IsPath
<1>3. CASE d \notin CellsOf(rest)
  <2>1. \A c \in CellsOf(rest) : cell[c].next # d
    BY <1>1, <1>2, <1>3, PathNext
  <2>2. \A c \in CellsOf(rest) : c \in live' /\ cell'[c].next = cell[c].next
    BY <1>1, <1>2, <1>3, <2>1 DEF Removed
  <2>3. IsPath(live', cell', rest, p, out)
    BY <1>1, <1>2, <2>2, PathFrame
  <2> QED BY <1>3, <2>3
<1>4. CASE d \in CellsOf(rest) /\ p = d
  <2>1. IsPath(live', cell', <<>>, d, d) /\ CellsOf(<<>>) = {}
    BY <1>1, EmptyPath
  <2>2. d # NULL
    BY <1>1, Marks
  <2> QED BY <1>4, <2>1, <2>2
<1>5. CASE d \in CellsOf(rest) /\ p # d
  <2>1. CellsOf(rest) \subseteq Listed
    BY <1>1, <1>5
  <2>2. PICK k \in 1..Len(rest) : rest[k] = d
    BY <1>5, PathSet
  <2>3. Unlinks(cell, d, rest, cell') /\ Bypass(cell, d, p, p)
    BY <1>1, <1>2, <1>5, <2>1 DEF Removed, Unlinks, Bypass
  <2> DEFINE r == RemoveAt(rest, k)
  <2>4. IsPath(live \ {d}, cell', r, p, out) /\ CellsOf(r) = CellsOf(rest) \ {d}
    <3>1. IsPath(live \ {d}, cell', r, p, out) /\ Without(rest, d, r)
      BY <1>5, <2>2, <2>3, PathCut
    <3> QED BY <3>1 DEF Without
  <2>5. out \in Ends
    BY <1>5 DEF CellsOf
  <2> HIDE DEF r
  <2>6. IsPath(live', cell', r, p, out)
    BY <1>1, <2>4
  <2> QED BY <1>5, <2>4, <2>5, <2>6
<1> QED BY <1>3, <1>4, <1>5

\* A removal, in a pass or between passes; c is the event a handler returned for.
LEMMA RemovedInv ==
  ASSUME TypeOK, NEW list, NEW end, ListOK(list, end), NEW rest, NEW out, RestOK(list, rest, out),
         NEW heap, NEW d \in Listed, Removed(heap, d), Start' = Start, pass'.tv = pass.tv,
         pass.at = "idle" => pass'.at = "idle",
         \A c \in live : /\ heap[c].key = cell[c].key /\ heap[c].interval = cell[c].interval
                         /\ heap[c].lastTime = cell[c].lastTime \/ c \in seen,
         number' \in Int, number' <= number - 1, seen' = seen \ {d},
         misused => misused', ~ misused' => d \notin CellsOf(rest)
  PROVE  \E l, r, o : /\ ListOK(l, end)' /\ RestOK(l, r, o)'
                      /\ CellsOf(l) = CellsOf(list) \ {d} /\ CellsOf(r) \subseteq CellsOf(rest) \ {d}
<1>1. PICK l : ListOK(l, end)' /\ CellsOf(l) = CellsOf(list) \ {d}
  BY RemovedList
<1>2. PICK r, o : /\ IsPath(live', cell', r, Start, o)
                  /\ o \in Ends \/ r = <<>>
                  /\ CellsOf(r) \subseteq CellsOf(rest) \ {d}
                  /\ o = NULL => out = NULL /\ CellsOf(r) = CellsOf(rest) \ {d}
                  /\ d \notin CellsOf(rest) => r = rest /\ o = out
  BY RemovedRest DEF RestOK
<1>3. IsPath(live', cell', r, Start', o)
  BY <1>2
<1>4. CellsOf(r) \subseteq CellsOf(l) \/ CellsOf(r) \cap CellsOf(l) = {}
  BY <1>1, <1>2 DEF RestOK
<1>5. ~ misused' => o \in Ends /\ CellsOf(r) \cap seen' = {}
  BY <1>2 DEF RestOK
<1>6. ASSUME pass'.at # "idle", o = NULL, NEW c \in CellsOf(l), IsDue(c)'
      PROVE  c \in seen' \cup CellsOf(r)
  <2>1. c \in CellsOf(list) /\ c # d /\ c \in live /\ c \in live'
    BY <1>1, PathSet DEF ListOK, Removed
  <2>2. Content(cell'[c]) = Content(heap[c])
    BY <2>1 DEF Removed
  <2>3. cell'[c].lastTime = heap[c].lastTime /\ cell'[c].interval = heap[c].interval
    BY <2>2 DEF Content
  <2>4. CASE c \in seen
    BY <2>1, <2>4
  <2>5. CASE heap[c].lastTime = cell[c].lastTime
    <3>1. IsDue(c)
      BY <1>6, <2>1, <2>3, <2>5, DueFrame
    <3>2. c \in seen \cup CellsOf(rest)
      BY <1>2, <1>6, <2>1, <3>1 DEF RestOK
    <3> QED BY <1>2, <1>6, <2>1, <3>2
  <2> QED BY <2>1, <2>4, <2>5
<1>7. RestOK(l, r, o)'
  BY <1>2, <1>3, <1>4, <1>5, <1>6 DEF RestOK
<1> QED BY <1>1, <1>2, <1>7

\* What the invariant says of the cells of its paths.
LEMMA InvCells ==
  ASSUME TypeInv, NEW list, NEW end, NEW rest, NEW out, Inv(list, end, rest, out)
  PROVE  /\ Listed = CellsOf(list) /\ CellsOf(list) \subseteq live
         /\ Cardinality(Listed) = Len(list)
         /\ CellsOf(rest) \subseteq live
         /\ pass.at = "idle" => CellsOf(rest) = {}
         /\ TypeOK /\ live \subseteq Cells
         /\ ListOK(list, end) /\ RestOK(list, rest, out)
         /\ PassOK(list, rest) /\ CountOK(list, rest)
<1>1. /\ TypeOK /\ live \subseteq Cells
      /\ ListOK(list, end) /\ RestOK(list, rest, out)
      /\ PassOK(list, rest) /\ CountOK(list, rest)
  BY DEF TypeInv, TypeOK, Inv
<1>2. Listed = CellsOf(list) /\ Cardinality(Listed) = Len(list)
  BY <1>1, ListShape DEF ListOK
<1>3. CellsOf(list) \subseteq live /\ CellsOf(rest) \subseteq live
  BY <1>1, PathSet DEF ListOK, RestOK
<1>4. ASSUME pass.at = "idle" PROVE CellsOf(rest) = {}
  <2>1. Start = NULL /\ NULL \notin live
    BY <1>1, <1>4, IdleStart, Marks DEF PassOK
  <2> QED BY <1>1, <2>1, PathSet DEF RestOK
<1> QED BY <1>1, <1>2, <1>3, <1>4

\* mTimer_delete, between passes or in a handler.
LEMMA DeleteInv ==
  ASSUME TypeInv, NEW list, NEW end, NEW rest, NEW out, Inv(list, end, rest, out),
         NEW d \in Listed, Removed(cell, d), number' = number - 1, seen' = seen \ {d},
         misused => misused', pass.at = "idle" \/ misused',
         UNCHANGED <<status, pass>>
  PROVE  \E l, r, o : Inv(l, end, r, o)'
<1>1. /\ CellsOf(list) \subseteq live /\ CellsOf(rest) \subseteq live
      /\ pass.at = "idle" => CellsOf(rest) = {}
      /\ TypeOK /\ ListOK(list, end) /\ RestOK(list, rest, out)
      /\ PassOK(list, rest) /\ CountOK(list, rest)
  BY InvCells
<1>2. PICK l, r, o : /\ ListOK(l, end)' /\ RestOK(l, r, o)'
                     /\ CellsOf(l) = CellsOf(list) \ {d} /\ CellsOf(r) \subseteq CellsOf(rest) \ {d}
  <2>1. number \in Int
    BY <1>1 DEF TypeOK
  <2>2. Start' = Start /\ pass'.tv = pass.tv
    BY DEF Start
  <2>3. number' \in Int /\ number' <= number - 1
    BY <2>1
  <2>4. ~ misused' => d \notin CellsOf(rest)
    BY <1>1
  <2> QED BY <1>1, <2>2, <2>3, <2>4, RemovedInv
<1>3. PassOK(l, r)'
  BY <1>1 DEF PassOK, Removed
<1>4. CountOK(l, r)'
  <2> SUFFICES ASSUME NEW c \in live', cell'[c].limit > 0, misused' => c \in CellsOf(l)
               PROVE  /\ cell'[c].fires + cell'[c].count
                           <= cell'[c].limit + (IF InHandler(c) THEN 1 ELSE 0)
                      /\ cell'[c].count >= 0
                      /\ cell'[c].count = 0 => c \notin CellsOf(l) \cup CellsOf(r) /\ ~ InHandler(c)
    BY DEF CountOK, InHandler
  <2>1. c \in live /\ Content(cell'[c]) = Content(cell[c])
    BY DEF Removed
  <2>2. /\ cell'[c].limit = cell[c].limit /\ cell'[c].fires = cell[c].fires
        /\ cell'[c].count = cell[c].count
    BY <2>1 DEF Content
  <2>3. misused => c \in CellsOf(list)
    BY <1>2
  <2> QED BY <1>1, <1>2, <2>1, <2>2, <2>3 DEF CountOK
<1> QED BY <1>2, <1>3, <1>4 DEF Inv

\* The list once an event was added: in front of it, or alone.
LEMMA AddedList ==
  ASSUME TypeOK, NEW list, NEW end, ListOK(list, end), Listed = CellsOf(list),
         NEW from, NEW k, NEW i, NEW n, NEW new, NEW p, Added(from, k, i, n, new, p),
         ~ isEventPresent(k)
  PROVE  \E l, e : /\ ListOK(l, e)'
                   /\ CellsOf(l) = {new} \/ CellsOf(l) = CellsOf(list) \cup {new}
<1>1. /\ IsPath(live, cell, list, head, end) /\ end \in Ends
      /\ \A c, d \in CellsOf(list) : cell[c].key = cell[d].key => c = d
      /\ number <= Len(list) /\ number \in Int /\ Len(list) \in Nat
      /\ live \subseteq Cells
  BY PathSet DEF ListOK, TypeOK
<1>2. /\ new \in Cells \ live /\ live' = live \cup {new} /\ head' = new /\ number' = number + 1
      /\ cell'[new].next = p /\ \A c \in Cells \ {new} : cell'[c] = cell[c]
  BY DEF Added
<1>3. CASE number = 0
  <2>1. p \in Ends
    BY <1>3 DEF Added
  <2>2. IsPath(live', cell', <<new>>, head', p)
    BY <1>1, <1>2, <2>1, Marks DEF IsPath
  <2>3. CellsOf(<<new>>) = {new}
    BY DEF CellsOf
  <2>4. number' <= Len(<<new>>)
    BY <1>2, <1>3
  <2>5. ListOK(<<new>>, p)'
    BY <2>1, <2>2, <2>3, <2>4 DEF ListOK
  <2> QED BY <2>3, <2>5
<1>4. CASE number # 0
  <2>1. p = head
    BY <1>4 DEF Added
  <2> DEFINE l == InsertAt(list, 1, new)
  <2>2. new # end /\ \A b \in live : cell'[b].next = cell[b].next
    BY <1>1, <1>2, Marks
  <2>3. /\ IsPath(live \cup {new}, cell', l, new, end)
        /\ CellsOf(l) = CellsOf(list) \cup {new} /\ Len(l) = Len(list) + 1
    <3>1. IsPath(live \cup {new}, cell', l, new, end) /\ With(list, new, l)
      BY <1>1, <1>2, <2>1, <2>2, PathPush
    <3> QED BY <3>1 DEF With
  <2> HIDE DEF l
  <2>4. IsPath(live', cell', l, head', end)
    BY <1>2, <2>3
  <2>5. number' <= Len(l)
    BY <1>1, <1>2, <2>3
  <2>6. \A c, d \in CellsOf(l) : cell'[c].key = cell'[d].key => c = d
    <3>1. cell'[new].key = k
      BY DEF Added, Content
    <3>2. \A c \in CellsOf(list) : c \in live /\ cell[c].key # k
      BY <1>1, PathSet DEF isEventPresent
    <3>3. \A c \in CellsOf(list) : cell'[c] = cell[c]
      BY <1>1, <1>2, <3>2
    <3> QED BY <1>1, <2>3, <3>1, <3>2, <3>3
  <2>7. ListOK(l, end)'
    BY <1>1, <2>1, <2>4, <2>5, <2>6 DEF ListOK
  <2> QED BY <2>3, <2>7
<1> QED BY <1>3, <1>4

\* mTimer_add, between passes or in a handler.
LEMMA AddInv ==
  ASSUME TypeInv, TypeInv', NEW list, NEW end, NEW rest, NEW out, Inv(list, end, rest, out),
         NEW from \in {"outside", "handler"}, NEW k, NEW i, NEW n \in Counts, NEW new, NEW p, Added(from, k, i, n, new, p),
         ~ isEventPresent(k), CanCall(from)
  PROVE  \E l, e, r, o : Inv(l, e, r, o)'
<1>1. /\ Listed = CellsOf(list) /\ CellsOf(list) \subseteq live /\ CellsOf(rest) \subseteq live
      /\ pass.at = "idle" => CellsOf(rest) = {}
      /\ TypeOK /\ live \subseteq Cells /\ ListOK(list, end) /\ RestOK(list, rest, out)
      /\ PassOK(list, rest) /\ CountOK(list, rest)
  BY InvCells
<1>2. /\ new \in Cells /\ new \notin live /\ live' = live \cup {new} /\ head' = new
      /\ \A c \in live : c # new /\ cell'[c] = cell[c]
      /\ UNCHANGED <<status, pass>>
  BY <1>1 DEF Added
<1>3. misused' = misused
  BY DEF Added
<1>4. PICK l, e : /\ ListOK(l, e)'
                  /\ CellsOf(l) = {new} \/ CellsOf(l) = CellsOf(list) \cup {new}
  BY <1>1, AddedList
<1>5. /\ seen \subseteq seen' /\ (pass.at = "handler" => new \in seen')
      /\ seen' \subseteq seen \cup {new}
  BY DEF Added, CanCall
<1>6. Start' = Start
  BY <1>2 DEF Start
<1>7. PICK r, o : /\ IsPath(live', cell', r, Start, o)
                  /\ o \in Ends \/ r = <<>>
                  /\ \/ r = rest /\ o = out
                     \/ CellsOf(r) = CellsOf(l) /\ misused
  <2>1. CASE out = new
    <3>1. rest = <<>> /\ Start = new
      BY <1>1, <1>2, <2>1, Marks DEF RestOK, IsPath
    <3>2. misused
      BY <1>1, <1>2, <2>1, Marks DEF RestOK
    <3>3. IsPath(live', cell', l, Start, e) /\ e \in Ends
      BY <1>2, <1>4, <3>1 DEF ListOK
    <3> QED BY <3>2, <3>3
  <2>2. CASE out # new
    <3>1. out \notin live' /\ \A c \in CellsOf(rest) : c \in live' /\ cell'[c].next = cell[c].next
      BY <1>1, <1>2, <2>2 DEF RestOK, IsPath
    <3>2. IsPath(live', cell', rest, Start, out)
      BY <1>1, <3>1, PathFrame DEF RestOK
    <3> QED BY <1>1, <3>2 DEF RestOK
  <2> QED BY <2>1, <2>2
<1>8. CellsOf(r) \subseteq CellsOf(l) \/ CellsOf(r) \cap CellsOf(l) = {}
  BY <1>1, <1>2, <1>4, <1>7 DEF RestOK
<1>9. ~ misused' => o \in Ends /\ CellsOf(r) \cap seen' = {}
  BY <1>1, <1>2, <1>3, <1>5, <1>7 DEF RestOK
<1>10. ASSUME pass'.at # "idle", o = NULL, NEW c \in CellsOf(l), IsDue(c)'
       PROVE  c \in seen' \cup CellsOf(r)
  <2>1. CASE CellsOf(r) = CellsOf(l)
    BY <1>10, <2>1
  <2>2. CASE c = new
    <3>1. pass.at = "handler"
      BY <1>2, <1>10 DEF CanCall
    <3> QED BY <1>5, <2>2, <3>1
  <2>3. CASE r = rest /\ o = out /\ c # new
    <3>1. c \in CellsOf(list) /\ c \in live
      BY <1>1, <1>4, <1>10, <2>3
    <3>2. cell'[c] = cell[c] /\ pass'.tv = pass.tv
      BY <1>2, <3>1
    <3>3. IsDue(c)
      BY <1>10, <3>2, DueFrame
    <3> QED BY <1>1, <1>2, <1>5, <1>10, <2>3, <3>1, <3>3 DEF RestOK
  <2> QED BY <1>7, <2>1, <2>2, <2>3
<1>11. RestOK(l, r, o)'
  BY <1>6, <1>7, <1>8, <1>9, <1>10 DEF RestOK
<1>12. PassOK(l, r)'
  <2>1. ASSUME pass.at = "handler", pass.curr \in live' PROVE pass.curr \in seen'
    BY <1>1, <1>2, <1>5, <2>1 DEF PassOK
  <2>2. ASSUME pass.at = "handler", ~ misused'
        PROVE  /\ pass.curr \in live' /\ pass.eventTv = EventTime(pass.curr)'
               /\ pass.curr \in CellsOf(l) \/ CellsOf(r) \cap CellsOf(l) = {}
    <3>1. /\ pass.curr \in live /\ pass.eventTv = EventTime(pass.curr)
          /\ pass.curr \in CellsOf(list) \/ CellsOf(rest) \cap CellsOf(list) = {}
      BY <1>1, <1>3, <2>2 DEF PassOK
    <3>2. EventTime(pass.curr)' = EventTime(pass.curr)
      BY <1>2, <3>1 DEF EventTime
    <3> QED BY <1>1, <1>2, <1>3, <1>4, <1>7, <2>2, <3>1, <3>2
  <2>3. pass' = pass /\ status' = status /\ pass.at # "update"
    BY <1>2 DEF CanCall
  <2> QED BY <1>1, <2>1, <2>2, <2>3 DEF PassOK
<1>13. CountOK(l, r)'
  <2> SUFFICES ASSUME NEW c \in live', cell'[c].limit > 0, misused' => c \in CellsOf(l)
               PROVE  /\ cell'[c].fires + cell'[c].count
                           <= cell'[c].limit + (IF InHandler(c) THEN 1 ELSE 0)
                      /\ cell'[c].count >= 0
                      /\ cell'[c].count = 0 => c \notin CellsOf(l) \cup CellsOf(r) /\ ~ InHandler(c)
    BY <1>2 DEF CountOK, InHandler
  <2>1. CASE c = new
    <3>1. n \in Int
      BY Timer2Assumption DEF IntMin
    <3>2. cell'[c].limit = n /\ cell'[c].count = n /\ cell'[c].fires = 0
      BY <2>1 DEF Added, Content
    <3> QED BY <3>1, <3>2
  <2>2. CASE c # new
    <3>1. c \in live /\ cell'[c] = cell[c] /\ (misused => c \in CellsOf(list))
      BY <1>2, <1>3, <1>4, <2>2
    <3> QED BY <1>1, <1>4, <1>7, <2>2, <3>1 DEF CountOK
  <2> QED BY <2>1, <2>2
<1> QED BY <1>4, <1>11, <1>12, <1>13 DEF Inv

\* Nothing the paths depend on changes.
LEMMA FrameInv ==
  ASSUME TypeInv, NEW list, NEW end, NEW rest, NEW out, Inv(list, end, rest, out),
         UNCHANGED <<head, cell, live, number, pass, seen, misused>>, status' # "none" \/ status' = status
  PROVE  Inv(list, end, rest, out)'
<1>1. /\ ListOK(list, end) /\ RestOK(list, rest, out)
      /\ PassOK(list, rest) /\ CountOK(list, rest)
  BY InvCells
<1>2. ListOK(list, end)'
  BY <1>1 DEF ListOK
<1>3. RestOK(list, rest, out)'
  BY <1>1 DEF RestOK, Start, IsDue, EventTime
<1>4. PassOK(list, rest)'
  BY <1>1 DEF PassOK, EventTime
<1>5. CountOK(list, rest)'
  BY <1>1 DEF CountOK, InHandler
<1> QED BY <1>2, <1>3, <1>4, <1>5 DEF Inv

\* mTimer_init and mTimer_cleanup: the list is empty.
LEMMA EmptyInv ==
  ASSUME TypeInv, NEW list, NEW end, NEW rest, NEW out, Inv(list, end, rest, out),
         pass.at = "idle", head' = NULL, number' = 0, live' \subseteq live,
         \A c \in live' : cell'[c] = cell[c], UNCHANGED <<pass, seen, misused>>
  PROVE  Inv(<<>>, NULL, <<>>, NULL)'
<1>1. /\ PassOK(list, rest) /\ CountOK(list, rest) /\ live \subseteq Cells
  BY InvCells
<1>2. IsPath(live', cell', <<>>, NULL, NULL) /\ CellsOf(<<>>) = {} /\ Len(<<>>) = 0
  BY <1>1, EmptyPath, Marks
<1>3. pass' = Idle /\ Start' = NULL
  BY <1>1, IdleStart DEF PassOK, Start
<1>4. ListOK(<<>>, NULL)'
  BY <1>2, Marks DEF ListOK
<1>5. RestOK(<<>>, <<>>, NULL)'
  BY <1>2, <1>3, Marks DEF RestOK
<1>6. PassOK(<<>>, <<>>)'
  BY <1>3 DEF PassOK, Idle
<1>7. CountOK(<<>>, <<>>)'
  <2> SUFFICES ASSUME NEW c \in live', cell'[c].limit > 0, ~ misused'
               PROVE  /\ cell'[c].fires + cell'[c].count
                           <= cell'[c].limit + (IF InHandler(c)' THEN 1 ELSE 0)
                      /\ cell'[c].count >= 0 /\ ~ InHandler(c)'
    BY <1>2 DEF CountOK
  <2>1. ~ InHandler(c) /\ ~ InHandler(c)'
    BY DEF InHandler
  <2> QED BY <1>1, <2>1 DEF CountOK
<1> QED BY <1>4, <1>5, <1>6, <1>7 DEF Inv

\* A pass begins: all of the list is to be visited.
LEMMA BeginInv ==
  ASSUME TypeInv, NEW list, NEW end, NEW rest, NEW out, Inv(list, end, rest, out), ExecuteBegin
  PROVE  Inv(list, end, list, end)'
<1>1. /\ ListOK(list, end) /\ PassOK(list, rest) /\ CountOK(list, rest)
  BY InvCells
<1>2. /\ status = "live" /\ pass.at = "idle" /\ seen' = {}
      /\ UNCHANGED <<status, head, cell, live, number, now, misused>>
      /\ pass'.at = "walk" /\ pass'.curr = head /\ pass'.tmp = NULL
  BY DEF ExecuteBegin, CanCall, Idle
<1>3. Start' = head
  BY <1>2 DEF Start
<1>4. ListOK(list, end)'
  BY <1>1, <1>2 DEF ListOK
<1>5. RestOK(list, list, end)'
  BY <1>1, <1>2, <1>3 DEF ListOK, RestOK
<1>6. PassOK(list, list)'
  BY <1>2 DEF PassOK
<1>7. CountOK(list, list)'
  BY <1>1, <1>2 DEF CountOK, InHandler
<1> QED BY <1>4, <1>5, <1>6, <1>7 DEF Inv

\* curr is left behind, fired or not due.
LEMMA StepRest ==
  ASSUME TypeInv, NEW list, NEW end, NEW rest, NEW out, Inv(list, end, rest, out),
         pass.at = "walk", pass.curr \in live, live' = live,
         \A c \in live : cell'[c].next = cell[c].next /\ EventTime(c)' = EventTime(c),
         Start' = cell[pass.curr].next, pass'.tv = pass.tv, misused' = misused,
         \/ seen' = seen \cup {pass.curr}
         \/ seen' = seen /\ ~ IsDue(pass.curr)
  PROVE  \E r : /\ RestOK(list, r, out)'
                /\ CellsOf(r) = CellsOf(rest) \ {pass.curr} /\ pass.curr \in CellsOf(rest)
<1>1. /\ RestOK(list, rest, out) /\ CellsOf(list) \subseteq live /\ CellsOf(rest) \subseteq live
  BY InvCells
<1>2. IsPath(live, cell, rest, pass.curr, out)
  BY <1>1 DEF RestOK, Start
<1> DEFINE c == pass.curr
           r == RemoveAt(rest, 1)
<1>3. /\ c \in CellsOf(rest) /\ CellsOf(r) = CellsOf(rest) \ {c}
      /\ IsPath(live, cell, r, cell[c].next, out)
  BY <1>2, PathTail
<1> HIDE DEF r
<1>4. IsPath(live', cell', r, Start', out)
  <2>1. out \notin live /\ CellsOf(r) \subseteq live
    BY <1>1, <1>2, <1>3 DEF IsPath
  <2> QED BY <1>3, <2>1, PathFrame
<1>5. out \in Ends
  <2>1. rest # <<>>
    BY <1>3 DEF CellsOf
  <2> QED BY <1>1, <2>1 DEF RestOK
<1>6. CellsOf(r) \subseteq CellsOf(list) \/ CellsOf(r) \cap CellsOf(list) = {}
  BY <1>1, <1>3 DEF RestOK
<1>7. ~ misused => out \in Ends /\ CellsOf(r) \cap seen' = {}
  BY <1>1, <1>3 DEF RestOK
<1>8. ASSUME out = NULL, NEW b \in CellsOf(list), IsDue(b)'
      PROVE  b \in seen' \cup CellsOf(r)
  <2>1. IsDue(b) /\ b \in live
    BY <1>1, <1>8 DEF IsDue
  <2>2. b \in seen \cup CellsOf(rest)
    BY <1>1, <1>8, <2>1 DEF RestOK
  <2> QED BY <1>3, <2>1, <2>2
<1>9. RestOK(list, r, out)'
  BY <1>4, <1>5, <1>6, <1>7, <1>8 DEF RestOK
<1> QED BY <1>3, <1>9

LEMMA FireInv ==
  ASSUME TypeInv, NEW list, NEW end, NEW rest, NEW out, Inv(list, end, rest, out), ExecuteFire
  PROVE  \E r : Inv(list, end, r, out)'
<1>1. /\ CellsOf(list) \subseteq live /\ CellsOf(rest) \subseteq live
      /\ TypeOK /\ ListOK(list, end) /\ RestOK(list, rest, out)
      /\ PassOK(list, rest) /\ CountOK(list, rest)
  BY InvCells
<1> DEFINE c == pass.curr
<1>2. /\ status = "live" /\ pass.at = "walk" /\ c \in live
      /\ pass' = [pass EXCEPT !.at = "handler", !.tmp = cell[c].next, !.eventTv = EventTime(c)]
      /\ cell' = [cell EXCEPT ![c].fires = @ + 1]
      /\ seen' = seen \cup {c}
      /\ UNCHANGED <<status, head, live, number, now, misused>>
  BY DEF ExecuteFire, Walking
<1>3. pass' = [at |-> "handler", tv |-> pass.tv, curr |-> c, tmp |-> cell[c].next,
               eventTv |-> EventTime(c)]
  BY <1>1, <1>2 DEF TypeOK
<1>4. /\ cell'[c].fires = cell[c].fires + 1
      /\ \A b \in live : /\ b # c => cell'[b] = cell[b]
                         /\ cell'[b].next = cell[b].next /\ cell'[b].count = cell[b].count
                         /\ cell'[b].lastTime = cell[b].lastTime
                         /\ cell'[b].key = cell[b].key /\ cell'[b].interval = cell[b].interval
                         /\ cell'[b].limit = cell[b].limit
  BY <1>1, <1>2, FireShape DEF Fixed, TypeOK
<1>5. \A b \in live : EventTime(b)' = EventTime(b)
  BY <1>4 DEF EventTime
<1>6. Start' = cell[c].next /\ pass'.tv = pass.tv
  BY <1>3 DEF Start
<1>7. PICK r : /\ RestOK(list, r, out)'
               /\ CellsOf(r) = CellsOf(rest) \ {c} /\ c \in CellsOf(rest)
  BY <1>2, <1>4, <1>5, <1>6, StepRest
<1>8. ListOK(list, end)'
  <2>1. IsPath(live', cell', list, head', end)
    <3>1. IsPath(live, cell, list, head, end) /\ end \notin live
      BY <1>1 DEF ListOK, IsPath
    <3>2. IsPath(live, cell', list, head, end)
      BY <1>1, <1>4, <3>1, PathFrame
    <3> QED BY <1>2, <3>2
  <2>2. \A a, b \in CellsOf(list) : cell'[a].key = cell'[b].key => a = b
    BY <1>1, <1>4 DEF ListOK
  <2> QED BY <1>1, <1>2, <2>1, <2>2 DEF ListOK
<1>9. PassOK(list, r)'
  <2>1. c \in CellsOf(list) \/ CellsOf(rest) \cap CellsOf(list) = {}
    BY <1>1, <1>7 DEF RestOK
  <2>2. EventTime(c)' = EventTime(c)
    BY <1>2, <1>5
  <2> QED BY <1>2, <1>3, <1>7, <2>1, <2>2 DEF PassOK
<1>10. CountOK(list, r)'
  <2> SUFFICES ASSUME NEW b \in live, cell'[b].limit > 0, misused => b \in CellsOf(list)
               PROVE  /\ cell'[b].fires + cell'[b].count
                           <= cell'[b].limit + (IF InHandler(b)' THEN 1 ELSE 0)
                      /\ cell'[b].count >= 0
                      /\ cell'[b].count = 0 => b \notin CellsOf(list) \cup CellsOf(r) /\ ~ InHandler(b)'
    BY <1>2 DEF CountOK
  <2>1. ~ InHandler(b) /\ (InHandler(b)' <=> b = c)
    BY <1>2, <1>3 DEF InHandler
  <2>2. /\ cell[b].fires + cell[b].count <= cell[b].limit + 0
        /\ cell[b].count >= 0
        /\ cell[b].count = 0 => b \notin CellsOf(list) \cup CellsOf(rest)
    BY <1>1, <1>4, <2>1 DEF CountOK
  <2>3. cell[b].fires \in Int /\ cell[b].count \in Int /\ cell[b].limit \in Int
    BY <1>1, EventFields, Timer2Assumption DEF IntMin
  <2>4. CASE b = c
    <3>1. cell'[b].fires = cell[b].fires + 1 /\ cell'[b].count = cell[b].count
          /\ cell'[b].limit = cell[b].limit /\ cell[b].count # 0
      BY <1>2, <1>4, <1>7, <2>2, <2>4
    <3> QED BY <2>1, <2>2, <2>3, <2>4, <3>1
  <2>5. CASE b # c
    <3>1. cell'[b] = cell[b]
      BY <1>4, <2>5
    <3> QED BY <1>7, <2>1, <2>2, <2>3, <2>5, <3>1
  <2> QED BY <2>4, <2>5
<1> QED BY <1>7, <1>8, <1>9, <1>10 DEF Inv

LEMMA SkipInv ==
  ASSUME TypeInv, NEW list, NEW end, NEW rest, NEW out, Inv(list, end, rest, out), ExecuteSkip
  PROVE  \E r : Inv(list, end, r, out)'
<1>1. /\ TypeOK /\ ListOK(list, end) /\ PassOK(list, rest) /\ CountOK(list, rest)
  BY InvCells
<1> DEFINE c == pass.curr
<1>2. /\ status = "live" /\ pass.at = "walk" /\ c \in live /\ ~ IsDue(c)
      /\ pass' = [pass EXCEPT !.curr = cell[c].next]
      /\ UNCHANGED <<status, head, cell, live, number, seen, now, misused>>
  BY DEF ExecuteSkip, Walking
<1>3. pass'.at = "walk" /\ pass'.tmp = pass.tmp /\ pass'.tv = pass.tv /\ pass'.curr = cell[c].next
  BY <1>1, <1>2 DEF TypeOK
<1>4. Start' = cell[c].next
  BY <1>3 DEF Start
<1>5. \A b \in live : EventTime(b)' = EventTime(b)
  BY <1>2 DEF EventTime
<1>6. PICK r : /\ RestOK(list, r, out)'
               /\ CellsOf(r) = CellsOf(rest) \ {c} /\ c \in CellsOf(rest)
  BY <1>2, <1>3, <1>4, <1>5, StepRest
<1>7. ListOK(list, end)'
  BY <1>1, <1>2 DEF ListOK
<1>8. PassOK(list, r)'
  BY <1>1, <1>2, <1>3 DEF PassOK
<1>9. CountOK(list, r)'
  BY <1>1, <1>2, <1>3, <1>6 DEF CountOK, InHandler
<1> QED BY <1>6, <1>7, <1>8, <1>9 DEF Inv

LEMMA EndInv ==
  ASSUME TypeInv, NEW list, NEW end, NEW rest, NEW out, Inv(list, end, rest, out), ExecuteReturn
  PROVE  Inv(list, end, <<>>, NULL)'
<1>1. /\ TypeOK /\ live \subseteq Cells /\ ListOK(list, end) /\ CountOK(list, rest)
  BY InvCells
<1>2. /\ pass.at = "walk" /\ pass' = Idle
      /\ UNCHANGED <<status, head, cell, live, number, now, misused>>
  BY DEF ExecuteReturn, Walking
<1>3. IsPath(live', cell', <<>>, NULL, NULL) /\ CellsOf(<<>>) = {}
  BY <1>1, <1>2, EmptyPath, Marks
<1>4. Start' = NULL /\ pass'.at = "idle"
  BY <1>2 DEF Start, Idle
<1>5. ListOK(list, end)'
  BY <1>1, <1>2 DEF ListOK
<1>6. RestOK(list, <<>>, NULL)'
  BY <1>3, <1>4, Marks DEF RestOK
<1>7. PassOK(list, <<>>)'
  BY <1>2, <1>4 DEF PassOK
<1>8. CountOK(list, <<>>)'
  BY <1>1, <1>2, <1>3, <1>4 DEF CountOK, InHandler
<1> QED BY <1>5, <1>6, <1>7, <1>8 DEF Inv

\* What events hold changes, but lastTime only in an event the pass has seen.
LEMMA StayInv ==
  ASSUME TypeInv, NEW list, NEW end, NEW rest, NEW out, Inv(list, end, rest, out),
         pass.at # "idle", UNCHANGED <<head, live, seen, misused>>,
         Start' = Start, pass'.tv = pass.tv, number' \in Int, number' <= number,
         \A b \in live : /\ cell'[b].next = cell[b].next /\ Fixed(cell'[b]) = Fixed(cell[b])
                         /\ cell'[b].lastTime = cell[b].lastTime \/ b \in seen
  PROVE  ListOK(list, end)' /\ RestOK(list, rest, out)'
<1>1. /\ CellsOf(list) \subseteq live /\ CellsOf(rest) \subseteq live
      /\ TypeOK /\ ListOK(list, end) /\ RestOK(list, rest, out)
  BY InvCells
<1>2. \A b \in live : /\ cell'[b].next = cell[b].next /\ cell'[b].key = cell[b].key
                      /\ cell'[b].interval = cell[b].interval
  BY DEF Fixed
<1>3. ListOK(list, end)'
  <2>1. IsPath(live, cell, list, head, end) /\ end \notin live
    BY <1>1 DEF ListOK, IsPath
  <2>2. IsPath(live, cell', list, head, end)
    BY <1>1, <1>2, <2>1, PathFrame
  <2>3. IsPath(live', cell', list, head', end)
    BY <2>2
  <2>4. \A a, b \in CellsOf(list) : cell'[a].key = cell'[b].key => a = b
    BY <1>1, <1>2 DEF ListOK
  <2>5. number' <= Len(list)
    <3>1. number <= Len(list) /\ number \in Int /\ Len(list) \in Nat
      BY <1>1, <2>1, PathSet DEF ListOK, TypeOK
    <3> QED BY <3>1
  <2> QED BY <1>1, <2>3, <2>4, <2>5 DEF ListOK
<1>4. RestOK(list, rest, out)'
  <2>1. IsPath(live, cell, rest, Start, out) /\ out \notin live
    BY <1>1 DEF RestOK, IsPath
  <2>2. IsPath(live, cell', rest, Start, out)
    BY <1>1, <1>2, <2>1, PathFrame
  <2>3. IsPath(live', cell', rest, Start', out)
    BY <2>2
  <2>4. ASSUME out = NULL, NEW b \in CellsOf(list), IsDue(b)'
        PROVE  b \in seen \cup CellsOf(rest)
    <3>1. CASE b \in seen
      BY <3>1
    <3>2. CASE b \notin seen
      <4>1. cell'[b].lastTime = cell[b].lastTime /\ cell'[b].interval = cell[b].interval
        BY <1>1, <1>2, <3>2
      <4>2. IsDue(b)
        BY <2>4, <4>1, DueFrame
      <4> QED BY <1>1, <2>4, <4>2 DEF RestOK
    <3> QED BY <3>1, <3>2
  <2> QED BY <1>1, <2>3, <2>4 DEF RestOK
<1> QED BY <1>3, <1>4

\* The count of an event after its handler returned.
LEMMA ReturnCount ==
  ASSUME TypeInv, NEW list, NEW end, NEW rest, NEW out, Inv(list, end, rest, out),
         NEW heap, NEW c, NEW left, Returned(heap, c, left),
         NEW l, NEW r, CellsOf(l) \subseteq CellsOf(list), CellsOf(r) \subseteq CellsOf(rest),
         live' \subseteq live,
         \A b \in live' : /\ cell'[b].fires = heap[b].fires /\ cell'[b].count = heap[b].count
                          /\ cell'[b].limit = heap[b].limit,
         left = 0 => c \notin CellsOf(list) \/ c \notin live'
  PROVE  CountOK(l, r)'
<1>1. /\ TypeOK /\ live \subseteq Cells
      /\ RestOK(list, rest, out) /\ PassOK(list, rest) /\ CountOK(list, rest)
  BY InvCells
<1>2. /\ c = pass.curr /\ c \in live /\ pass.at = "handler"
      /\ pass' = [pass EXCEPT !.at = "update"] /\ misused' = misused
      /\ left = Decrement(cell[c].count) /\ heap[c].count = left
      /\ heap[c].fires = cell[c].fires /\ Fixed(heap[c]) = Fixed(cell[c])
      /\ \A b \in Cells \ {c} : heap[b] = cell[b]
  BY DEF Returned
<1>3. c \in seen /\ pass'.at = "update"
  BY <1>1, <1>2 DEF PassOK, TypeOK
<1> SUFFICES ASSUME NEW b \in live', cell'[b].limit > 0, misused => b \in CellsOf(l)
             PROVE  /\ cell'[b].fires + cell'[b].count
                         <= cell'[b].limit + (IF InHandler(b)' THEN 1 ELSE 0)
                    /\ cell'[b].count >= 0
                    /\ cell'[b].count = 0 => b \notin CellsOf(l) \cup CellsOf(r) /\ ~ InHandler(b)'
  BY <1>2 DEF CountOK
<1>4. ~ InHandler(b)' /\ (InHandler(b) <=> b = c)
  BY <1>2, <1>3 DEF InHandler
<1>5. /\ b \in live /\ (misused => b \in CellsOf(list))
      /\ cell[b].fires \in Int /\ cell[b].count \in IntMin..IntMax /\ cell[b].limit \in Int
  BY <1>1, EventFields, Timer2Assumption DEF IntMin
<1>6. CASE b # c
  <2>1. heap[b] = cell[b]
    BY <1>1, <1>2, <1>5, <1>6
  <2> QED BY <1>1, <1>4, <1>5, <1>6, <2>1 DEF CountOK
<1>7. CASE b = c
  <2>1. cell'[b].limit = cell[b].limit /\ cell'[b].fires = cell[b].fires /\ cell'[b].count = left
    BY <1>2, <1>7 DEF Fixed
  <2>2. /\ cell[b].fires + cell[b].count <= cell[b].limit + 1
        /\ cell[b].count >= 0 /\ cell[b].count # 0
    BY <1>1, <1>4, <1>5, <1>7, <2>1 DEF CountOK
  <2>3. cell[b].count \in Int /\ cell[b].count > 0
    BY <1>5, <2>2, Timer2Assumption DEF IntMin
  <2>4. left = cell[b].count - 1
    BY <1>2, <1>5, <1>7, <2>3, DecrementType
  <2>5. ASSUME left = 0 PROVE b \notin CellsOf(l) \cup CellsOf(r)
    <3>1. c \notin CellsOf(list) /\ ~ misused
      BY <1>5, <1>7, <2>5
    <3> QED BY <1>1, <1>3, <1>7, <3>1 DEF RestOK
  <2> QED BY <1>4, <1>5, <2>1, <2>2, <2>3, <2>4, <2>5
<1> QED BY <1>6, <1>7

LEMMA ReturnInv ==
  ASSUME TypeInv, NEW list, NEW end, NEW rest, NEW out, Inv(list, end, rest, out), HandlerReturns
  PROVE  \E l, r, o : Inv(l, end, r, o)'
<1>1. /\ Listed = CellsOf(list) /\ CellsOf(list) \subseteq live /\ CellsOf(rest) \subseteq live
      /\ TypeOK /\ live \subseteq Cells
      /\ ListOK(list, end) /\ RestOK(list, rest, out) /\ PassOK(list, rest)
  BY InvCells
<1>2. PICK heap, c, left :
           /\ Returned(heap, c, left)
           /\ \/ left # 0 /\ cell' = heap /\ UNCHANGED <<head, live, number>>
              \/ /\ left = 0 /\ number' = number - 2
                 /\ \E d \in Listed : cell[d].key = cell[c].key /\ Removed(heap, d)
              \/ /\ left = 0 /\ ~ isEventPresent(cell[c].key)
                 /\ cell' = heap /\ number' = number - 1 /\ UNCHANGED <<head, live>>
  BY <1>1, ReturnEffect
<1>3. /\ c = pass.curr /\ c \in live /\ pass.at = "handler"
      /\ pass' = [pass EXCEPT !.at = "update"] /\ misused' = misused
      /\ seen' = seen \cap live' /\ Fixed(heap[c]) = Fixed(cell[c])
      /\ heap[c].lastTime = cell[c].lastTime /\ SameShape(heap)
      /\ status = "live" /\ status' = "live"
      /\ \A b \in Cells \ {c} : heap[b] = cell[b]
  BY <1>2 DEF Returned
<1>4. c \in seen
  BY <1>1, <1>3 DEF PassOK
<1>5. /\ pass'.at = "update" /\ pass'.curr = c /\ pass'.eventTv = pass.eventTv
      /\ Start' = Start /\ pass'.tv = pass.tv /\ number \in Int
  BY <1>1, <1>3 DEF Start, TypeOK
<1>a. \A b \in live : /\ Fixed(heap[b]) = Fixed(cell[b]) /\ heap[b].lastTime = cell[b].lastTime
                      /\ heap[b].next = cell[b].next
  BY <1>1, <1>3 DEF SameShape
<1>6. ASSUME c \in live' =>
               /\ cell'[c].lastTime = heap[c].lastTime /\ cell'[c].interval = heap[c].interval
      PROVE  \A l, r : PassOK(l, r)'
  <2>1. c \in live' => EventTime(c)' = EventTime(c)
    BY <1>a, <1>3, <1>6 DEF EventTime, Fixed
  <2>2. ~ misused => pass.eventTv = EventTime(c)
    BY <1>1, <1>3 DEF PassOK
  <2> QED BY <1>3, <1>4, <1>5, <2>1, <2>2 DEF PassOK
<1>7. CASE /\ cell' = heap /\ UNCHANGED <<head, live>>
           /\ \/ left # 0 /\ number' = number
              \/ left = 0 /\ ~ isEventPresent(cell[c].key) /\ number' = number - 1
  <2>1. number' \in Int /\ number' <= number
    BY <1>5, <1>7
  <2>2. ListOK(list, end)' /\ RestOK(list, rest, out)'
    <3>1. seen' = seen
      BY <1>1, <1>3, <1>7 DEF TypeOK
    <3> QED BY <1>3, <1>5, <1>7, <1>a, <2>1, <3>1, StayInv
  <2>3. left = 0 => c \notin CellsOf(list)
    BY <1>1, <1>7 DEF isEventPresent
  <2>4. CountOK(list, rest)'
    BY <1>2, <1>7, <2>3, ReturnCount
  <2>5. PassOK(list, rest)'
    BY <1>6, <1>7
  <2> QED BY <2>2, <2>4, <2>5 DEF Inv
<1>8. ASSUME NEW d \in Listed, cell[d].key = cell[c].key, Removed(heap, d), number' = number - 2
      PROVE  \E l, r, o : Inv(l, end, r, o)'
  <2>1. c \in CellsOf(list) => d = c
    BY <1>1, <1>8 DEF ListOK
  <2>2. ~ misused' => d \notin CellsOf(rest)
    BY <1>1, <1>3, <1>4, <2>1 DEF RestOK, PassOK
  <2>3. live' = live \ {d} /\ seen' = seen \ {d} /\ number' \in Int /\ number' <= number - 1
    BY <1>1, <1>3, <1>5, <1>8 DEF Removed, TypeOK
  <2>4. \A b \in live : /\ heap[b].key = cell[b].key /\ heap[b].interval = cell[b].interval
                        /\ heap[b].lastTime = cell[b].lastTime \/ b \in seen
    BY <1>a DEF Fixed
  <2>5. PICK l, r, o : /\ ListOK(l, end)' /\ RestOK(l, r, o)'
                       /\ CellsOf(l) = CellsOf(list) \ {d} /\ CellsOf(r) \subseteq CellsOf(rest) \ {d}
    BY <1>1, <1>3, <1>5, <1>8, <2>2, <2>3, <2>4, RemovedInv
  <2>6. \A b \in live' : /\ cell'[b].fires = heap[b].fires /\ cell'[b].count = heap[b].count
                         /\ cell'[b].limit = heap[b].limit
    BY <1>8 DEF Removed, Content
  <2>7. c \notin CellsOf(list) \/ c \notin live'
    BY <2>1, <2>3
  <2>8. CountOK(l, r)'
    BY <1>2, <2>3, <2>5, <2>6, <2>7, ReturnCount
  <2>9. PassOK(l, r)'
    BY <1>6, <1>8 DEF Removed, Content
  <2> QED BY <2>5, <2>8, <2>9 DEF Inv
<1> QED BY <1>2, <1>7, <1>8

\* What line 267 does; the write to an event just freed is lost.
UpdateOf(c) ==
  /\ c = pass.curr /\ status = "live" /\ status' = "live" /\ pass.at = "update"
  /\ pass'.at = "walk" /\ pass'.tmp = NULL /\ pass'.tv = pass.tv /\ Start' = Start
  /\ Updated(c, pass.eventTv)
  /\ UNCHANGED <<head, live, number, seen, now, misused>>

LEMMA UpdateEffect ==
  ASSUME TypeOK, UpdateLastTime
  PROVE  UpdateOf(pass.curr)
<1>1. /\ status = "live" /\ pass.at = "update" /\ pass' = Advance
      /\ UNCHANGED <<status, head, live, number, seen, now, misused>>
  BY DEF UpdateLastTime
<1>2. /\ pass'.at = "walk" /\ pass'.tmp = NULL /\ pass'.tv = pass.tv /\ Start' = Start
      /\ pass.eventTv \in Timeval
  BY <1>1 DEF Start, Advance, TypeOK
<1>3. Updated(pass.curr, pass.eventTv)
  BY <1>2, UpdateShape DEF UpdateLastTime
<1> QED BY <1>1, <1>2, <1>3 DEF UpdateOf

LEMMA UpdateInv ==
  ASSUME TypeInv, NEW list, NEW end, NEW rest, NEW out, Inv(list, end, rest, out), UpdateLastTime
  PROVE  Inv(list, end, rest, out)'
<1>1. TypeOK /\ PassOK(list, rest) /\ CountOK(list, rest)
  BY InvCells
<1> DEFINE c == pass.curr
<1>2. /\ status' = "live" /\ pass.at = "update" /\ pass'.at = "walk" /\ pass'.tmp = NULL
      /\ pass'.tv = pass.tv /\ Start' = Start
      /\ UNCHANGED <<head, live, number, seen, misused>>
  BY <1>1, UpdateEffect DEF UpdateOf
<1>3. \A b \in live : /\ cell'[b].next = cell[b].next /\ Fixed(cell'[b]) = Fixed(cell[b])
                      /\ cell'[b].fires = cell[b].fires /\ cell'[b].count = cell[b].count
                      /\ cell'[b].lastTime = IF b = c THEN pass.eventTv ELSE cell[b].lastTime
  BY <1>1, UpdateEffect DEF UpdateOf, Updated, SameShape, TypeOK
<1>4. \A b \in live : cell'[b].lastTime = cell[b].lastTime \/ b \in seen
  BY <1>1, <1>2, <1>3 DEF PassOK
<1>5. number' \in Int /\ number' <= number
  BY <1>1, <1>2 DEF TypeOK
<1>6. ListOK(list, end)' /\ RestOK(list, rest, out)'
  BY <1>2, <1>3, <1>4, <1>5, StayInv
<1>7. PassOK(list, rest)'
  BY <1>2 DEF PassOK
<1>8. CountOK(list, rest)'
  <2>1. \A b \in live : /\ cell'[b].limit = cell[b].limit /\ cell'[b].fires = cell[b].fires
                         /\ cell'[b].count = cell[b].count
    BY <1>3 DEF Fixed
  <2>2. \A b : ~ InHandler(b) /\ ~ InHandler(b)'
    BY <1>2 DEF InHandler
  <2> QED BY <1>1, <1>2, <2>1, <2>2 DEF CountOK
<1> QED BY <1>6, <1>7, <1>8 DEF Inv

-----------------------------------------------------------------------------
(* The schedule.                                                           *)

\* curr from its firing to the write of its lastTime.
Fired(c) == pass.at \in {"handler", "update"} /\ pass.curr = c

InPhase(c) == Usecs(cell[c].lastTime) = cell[c].born + cell[c].interval * MSECS_IN_SEC *
                 (cell[c].fires - IF Fired(c) THEN 1 ELSE 0)

LEMMA PhaseFold == KeepsPhase <=> (~ misused => \A c \in live : InPhase(c))
BY DEF KeepsPhase, InPhase, Fired

\* An event whose schedule does not change, and which is fired or not as before.
LEMMA PhaseFrame ==
  ASSUME NEW c, InPhase(c), Fixed(cell'[c]) = Fixed(cell[c]), Fired(c)' <=> Fired(c),
         cell'[c].lastTime = cell[c].lastTime, cell'[c].fires = cell[c].fires
  PROVE  InPhase(c)'
BY DEF InPhase, Fixed

LEMMA PhaseAdd ==
  ASSUME TypeInv, NEW list, NEW end, NEW rest, NEW out, Inv(list, end, rest, out), KeepsPhase,
         NEW from, NEW k, NEW i \in Intervals, NEW n, NEW new, NEW p, Added(from, k, i, n, new, p),
         CanCall(from)
  PROVE  KeepsPhase'
<1>1. TypeOK /\ PassOK(list, rest) /\ live \subseteq Cells
  BY InvCells
<1>2. /\ new \in Cells /\ new \notin live /\ live' = live \cup {new} /\ pass' = pass
      /\ \A c \in live : cell'[c] = cell[c]
      /\ Content(cell'[new]) = <<k, i, now, n, n, gettimeofday(now), 0>>
  BY <1>1 DEF Added
<1>3. misused' = misused
  BY DEF Added
<1> SUFFICES ASSUME ~ misused', NEW c \in live'
             PROVE  InPhase(c)'
  BY DEF KeepsPhase, InPhase, Fired
<1>4. CASE c # new
  <2>1. c \in live /\ cell'[c] = cell[c] /\ (Fired(c)' <=> Fired(c))
    BY <1>2, <1>4 DEF Fired
  <2> QED BY <1>3, <2>1, PhaseFold, PhaseFrame
<1>5. CASE c = new
  <2>1. ~ Fired(c)'
    BY <1>1, <1>2, <1>3, <1>5 DEF PassOK, Fired, CanCall
  <2>2. /\ cell'[c].lastTime = gettimeofday(now) /\ cell'[c].born = now
        /\ cell'[c].interval = i /\ cell'[c].fires = 0
    BY <1>2, <1>5 DEF Content
  <2>3. Usecs(gettimeofday(now)) = now /\ now \in Nat
    BY <1>1, GettimeofdayType, Timer2Assumption DEF TypeOK
  <2>4. i * MSECS_IN_SEC \in Nat
    BY MsecsAssumption, Timer2Assumption
  <2>5. i * MSECS_IN_SEC * (0 - 0) = 0
    BY <2>4
  <2> QED BY <2>1, <2>2, <2>3, <2>5 DEF InPhase
<1> QED BY <1>4, <1>5

LEMMA PhaseFire ==
  ASSUME TypeInv, KeepsPhase, ExecuteFire
  PROVE  KeepsPhase'
<1> DEFINE f == pass.curr
<1>1. /\ TypeOK /\ pass.at = "walk" /\ f \in live /\ live' = live /\ misused' = misused
      /\ pass' = [pass EXCEPT !.at = "handler", !.tmp = cell[f].next, !.eventTv = EventTime(f)]
      /\ cell' = [cell EXCEPT ![f].fires = @ + 1]
  BY DEF ExecuteFire, Walking, TypeInv
<1>2. pass'.at = "handler" /\ pass'.curr = f
  BY <1>1 DEF TypeOK
<1> SUFFICES ASSUME ~ misused, NEW c \in live
             PROVE  InPhase(c)'
  BY <1>1 DEF KeepsPhase, InPhase, Fired
<1>3. InPhase(c) /\ ~ Fired(c) /\ (Fired(c)' <=> c = f)
  BY <1>1, <1>2, PhaseFold DEF Fired
<1>4. CASE c # f
  <2>1. cell'[c] = cell[c]
    BY <1>1, <1>4, FireShape DEF TypeOK
  <2> QED BY <1>3, <1>4, <2>1, PhaseFrame
<1>5. CASE c = f
  <2>1. /\ cell'[c].lastTime = cell[c].lastTime /\ cell'[c].born = cell[c].born
        /\ cell'[c].interval = cell[c].interval /\ cell'[c].fires = cell[c].fires + 1
        /\ cell[c].fires \in Nat
    BY <1>1, <1>5, FireShape, EventFields DEF Fixed
  <2>2. cell'[c].fires - 1 = cell[c].fires - 0
    BY <2>1
  <2> QED BY <1>3, <1>5, <2>1, <2>2 DEF InPhase
<1> QED BY <1>4, <1>5

LEMMA PhaseReturn ==
  ASSUME TypeInv, KeepsPhase, HandlerReturns
  PROVE  KeepsPhase'
<1>1. TypeOK /\ live \subseteq Cells
  BY DEF TypeInv, TypeOK
<1>2. PICK heap, h, left :
           /\ Returned(heap, h, left)
           /\ \/ left # 0 /\ cell' = heap /\ UNCHANGED <<head, live, number>>
              \/ /\ left = 0 /\ number' = number - 2
                 /\ \E d \in Listed : cell[d].key = cell[h].key /\ Removed(heap, d)
              \/ /\ left = 0 /\ ~ isEventPresent(cell[h].key)
                 /\ cell' = heap /\ number' = number - 1 /\ UNCHANGED <<head, live>>
  BY <1>1, ReturnEffect
<1>3. /\ h = pass.curr /\ h \in live /\ pass.at = "handler"
      /\ pass' = [pass EXCEPT !.at = "update"] /\ misused' = misused
      /\ heap[h].lastTime = cell[h].lastTime /\ heap[h].fires = cell[h].fires
      /\ Fixed(heap[h]) = Fixed(cell[h])
      /\ \A b \in Cells \ {h} : heap[b] = cell[b]
  BY <1>2 DEF Returned
<1>4. live' \subseteq live /\ \A b \in live' : Content(cell'[b]) = Content(heap[b])
  BY <1>2 DEF Removed
<1>5. pass'.at = "update" /\ pass'.curr = pass.curr
  BY <1>1, <1>3 DEF TypeOK
<1> SUFFICES ASSUME ~ misused, NEW c \in live'
             PROVE  InPhase(c)'
  BY <1>3 DEF KeepsPhase, InPhase, Fired
<1>6. c \in live /\ InPhase(c) /\ (Fired(c)' <=> Fired(c))
  BY <1>3, <1>4, <1>5, PhaseFold DEF Fired
<1>7. /\ Fixed(cell'[c]) = Fixed(cell[c]) /\ cell'[c].lastTime = cell[c].lastTime
      /\ cell'[c].fires = cell[c].fires
  <2>1. /\ Fixed(heap[c]) = Fixed(cell[c]) /\ heap[c].lastTime = cell[c].lastTime
        /\ heap[c].fires = cell[c].fires
    BY <1>1, <1>3, <1>6
  <2> QED BY <1>4, <2>1 DEF Content, Fixed
<1> QED BY <1>6, <1>7, PhaseFrame

LEMMA PhaseUpdate ==
  ASSUME TypeInv, NEW list, NEW end, NEW rest, NEW out, Inv(list, end, rest, out), KeepsPhase,
         UpdateLastTime
  PROVE  KeepsPhase'
<1>1. TypeOK /\ PassOK(list, rest)
  BY InvCells
<1>2. /\ pass.at = "update" /\ pass'.at = "walk" /\ live' = live /\ misused' = misused
      /\ \A b \in live : /\ Fixed(cell'[b]) = Fixed(cell[b]) /\ cell'[b].fires = cell[b].fires
                         /\ cell'[b].lastTime = IF b = pass.curr THEN pass.eventTv ELSE cell[b].lastTime
  BY <1>1, UpdateEffect DEF UpdateOf, Updated
<1> SUFFICES ASSUME ~ misused, NEW c \in live
             PROVE  InPhase(c)'
  BY <1>2 DEF KeepsPhase, InPhase, Fired
<1>3. InPhase(c) /\ ~ Fired(c)' /\ (Fired(c) <=> c = pass.curr)
  BY <1>2, PhaseFold DEF Fired
<1>4. CASE c # pass.curr
  BY <1>2, <1>3, <1>4, PhaseFrame
<1>5. CASE c = pass.curr
  <2>1. /\ cell'[c].lastTime = EventTime(c) /\ cell'[c].fires = cell[c].fires
        /\ cell'[c].born = cell[c].born /\ cell'[c].interval = cell[c].interval
    BY <1>1, <1>2, <1>5 DEF PassOK, Fixed
  <2> DEFINE x == cell[c].interval * MSECS_IN_SEC
  <2>2. /\ cell[c].fires \in Nat /\ cell[c].born \in Nat /\ cell[c].interval \in Nat
        /\ cell[c].lastTime \in Timeval
    BY <1>1, EventFields
  <2>3. x \in Nat
    BY <2>2, MsecsAssumption
  <2>4. Usecs(EventTime(c)) = Usecs(cell[c].lastTime) + x
    BY <2>2, AddMsecType DEF EventTime
  <2>5. Usecs(cell[c].lastTime) = cell[c].born + x * (cell[c].fires - 1)
    BY <1>3, <1>5 DEF InPhase
  <2> HIDE DEF x
  <2>6. x * (cell[c].fires - 1) + x = x * (cell[c].fires - 0)
    BY <2>2, <2>3
  <2>7. Usecs(cell'[c].lastTime) = cell[c].born + x * (cell[c].fires - 0)
    <3>1. x * (cell[c].fires - 1) \in Int
      BY <2>2, <2>3
    <3> QED BY <2>1, <2>2, <2>3, <2>4, <2>5, <2>6, <3>1
  <2> QED BY <1>3, <2>1, <2>7 DEF InPhase, x
<1> QED BY <1>4, <1>5

\* What every other step leaves of the schedule.
LEMMA PhaseKept ==
  ASSUME KeepsPhase, live' \subseteq live, misused => misused',
         \A c \in live' : Content(cell'[c]) = Content(cell[c]) /\ (Fired(c)' <=> Fired(c))
  PROVE  KeepsPhase'
<1> SUFFICES ASSUME ~ misused', NEW c \in live'
             PROVE  InPhase(c)'
  BY DEF KeepsPhase, InPhase, Fired
<1>1. /\ Fixed(cell'[c]) = Fixed(cell[c]) /\ cell'[c].lastTime = cell[c].lastTime
      /\ cell'[c].fires = cell[c].fires
  BY DEF Content, Fixed
<1> QED BY <1>1, PhaseFold, PhaseFrame

-----------------------------------------------------------------------------
(* The invariant holds.                                                    *)

\* What an action that may fault does when it does not.
LEMMA CleanupEffect ==
  ASSUME mTimer_cleanup, ~ Fault
  PROVE  /\ pass.at = "idle" /\ head' = NULL /\ number' = 0 /\ live' \subseteq live
         /\ UNCHANGED <<pass, seen, now, misused>>
         /\ live \subseteq Cells => \A c \in live' : cell'[c] = cell[c]
BY DEF mTimer_cleanup, CanCall

LEMMA InvInit == Init => KeepsPhase /\ Inv(<<>>, NULL, <<>>, NULL)
<1> SUFFICES ASSUME Init PROVE KeepsPhase /\ Inv(<<>>, NULL, <<>>, NULL)
  OBVIOUS
<1>1. head = NULL /\ number = 0 /\ live = {} /\ pass = Idle
  BY DEF Init
<1>2. IsPath(live, cell, <<>>, NULL, NULL) /\ CellsOf(<<>>) = {} /\ Len(<<>>) = 0
  BY <1>1, EmptyPath
<1>3. pass.at = "idle" /\ Start = NULL
  BY <1>1 DEF Start, Idle
<1>4. ListOK(<<>>, NULL)
  BY <1>1, <1>2, Marks DEF ListOK
<1>5. RestOK(<<>>, <<>>, NULL)
  BY <1>2, <1>3, Marks DEF RestOK
<1>6. PassOK(<<>>, <<>>)
  BY <1>1, <1>3 DEF PassOK
<1>7. CountOK(<<>>, <<>>) /\ KeepsPhase
  BY <1>1 DEF CountOK, KeepsPhase
<1> QED BY <1>4, <1>5, <1>6, <1>7 DEF Inv

LEMMA InvStep ==
  ASSUME TypeInv, TypeInv', NEW list, NEW end, NEW rest, NEW out, Inv(list, end, rest, out),
         KeepsPhase, [Next]_vars
  PROVE  KeepsPhase' /\ \E l, e, r, o : Inv(l, e, r, o)'
<1>0. TypeOK /\ live \subseteq Cells
  BY InvCells
<1>f. ASSUME UNCHANGED <<head, cell, live, number, pass, seen, misused>>,
             status' # "none" \/ status' = status
      PROVE  KeepsPhase' /\ \E l, e, r, o : Inv(l, e, r, o)'
  <2>1. KeepsPhase'
    BY <1>f, PhaseKept DEF Fired
  <2> QED BY <1>f, <2>1, FrameInv
<1>c. CASE Fault
  BY <1>f, <1>c DEF Fault
<1>1. CASE mTimer_init
  <2>1. PassOK(list, rest)
    BY InvCells
  <2>2. /\ pass.at = "idle" /\ head' = NULL /\ number' = 0 /\ live' \subseteq live
        /\ \A c \in live' : cell'[c] = cell[c]
        /\ UNCHANGED <<pass, seen, misused>>
    BY <1>1, <2>1 DEF mTimer_init, PassOK
  <2>3. KeepsPhase'
    BY <2>2, PhaseKept DEF Fired
  <2> QED BY <2>2, <2>3, EmptyInv
<1>2. CASE mTimer_cleanup
  <2>1. CASE ~ Fault
    <3>1. /\ pass.at = "idle" /\ head' = NULL /\ number' = 0 /\ live' \subseteq live
          /\ \A c \in live' : cell'[c] = cell[c]
          /\ UNCHANGED <<pass, seen, misused>>
      BY <1>0, <1>2, <2>1, CleanupEffect
    <3>2. KeepsPhase'
      BY <3>1, PhaseKept DEF Fired
    <3> QED BY <3>1, <3>2, EmptyInv
  <2> QED BY <1>c, <2>1
<1>3. ASSUME NEW from \in {"outside", "handler"}, NEW k \in Keys, NEW i \in Intervals,
             NEW n \in Counts, mTimer_add(from, k, i, n)
      PROVE  KeepsPhase' /\ \E l, e, r, o : Inv(l, e, r, o)'
  <2>1. CASE ~ Fault
    <3>1. /\ CanCall(from) /\ ~ isEventPresent(k)
          /\ \E new, p : Added(from, k, i, n, new, p)
      BY <1>0, <1>3, <2>1, AddEffect
    <3>2. PICK new, p : Added(from, k, i, n, new, p)
      BY <3>1
    <3>3. KeepsPhase'
      BY <3>1, <3>2, PhaseAdd
    <3> QED BY <3>1, <3>2, <3>3, AddInv
  <2> QED BY <1>c, <2>1
<1>4. ASSUME NEW from \in {"outside", "handler"}, NEW k \in Keys, mTimer_delete(from, k)
      PROVE  KeepsPhase' /\ \E l, e, r, o : Inv(l, e, r, o)'
  <2>1. CASE ~ Fault
    <3>1. CanCall(from)
      BY <1>0, <1>4, DeleteEffect
    <3>2. PICK d \in Listed :
             /\ Removed(cell, d) /\ number' = number - 1 /\ seen' = seen \ {d}
             /\ misused' = (misused \/ from = "handler")
             /\ UNCHANGED <<status, pass, now>>
      BY <1>0, <1>4, <2>1, DeleteEffect
    <3>3. misused => misused'
      BY <3>2, Zenon
    <3>4. pass.at = "idle" \/ misused'
      <4>1. from = "handler" => misused'
        BY <3>2, Zenon
      <4> QED BY <3>1, <4>1 DEF CanCall
    <3>5. KeepsPhase'
      BY <3>2, <3>3, PhaseKept DEF Removed, Fired
    <3> QED BY <3>2, <3>3, <3>4, <3>5, DeleteInv
  <2> QED BY <1>c, <2>1
<1>5. CASE ExecuteBegin
  <2>1. KeepsPhase'
    <3>1. live' = live /\ cell' = cell /\ misused' = misused
          /\ pass.at = "idle" /\ pass'.at = "walk"
      BY <1>5 DEF ExecuteBegin, CanCall, Idle
    <3> QED BY <3>1, PhaseKept DEF Fired
  <2> QED BY <1>5, <2>1, BeginInv
<1>6. CASE ExecuteFire
  BY <1>6, PhaseFire, FireInv
<1>7. CASE ExecuteSkip
  <2>1. KeepsPhase'
    <3>1. live' = live /\ cell' = cell /\ misused' = misused
          /\ pass.at = "walk" /\ pass'.at = "walk"
      BY <1>0, <1>7 DEF ExecuteSkip, Walking, TypeOK
    <3> QED BY <3>1, PhaseKept DEF Fired
  <2> QED BY <1>7, <2>1, SkipInv
<1>8. CASE HandlerReturns
  BY <1>8, PhaseReturn, ReturnInv
<1>8a. CASE UpdateLastTime
  BY <1>8a, PhaseUpdate, UpdateInv
<1>9. CASE ExecuteReturn
  <2>1. KeepsPhase'
    <3>1. live' = live /\ cell' = cell /\ misused' = misused
          /\ pass.at = "walk" /\ pass'.at = "idle"
      BY <1>9 DEF ExecuteReturn, Walking, Idle
    <3> QED BY <3>1, PhaseKept DEF Fired
  <2> QED BY <1>9, <2>1, EndInv
<1>10. CASE Tick
  BY <1>f, <1>10 DEF Tick
<1>11. CASE UNCHANGED vars
  BY <1>f, <1>11 DEF vars
<1>12. CASE ExecuteFault
  BY <1>c, <1>12 DEF ExecuteFault
<1> QED BY <1>1, <1>2, <1>3, <1>4, <1>5, <1>6, <1>7, <1>8, <1>8a, <1>9, <1>10, <1>11, <1>12 DEF Next

LEMMA Invariant == Spec => []IInv
<1>1. Init => IInv
  BY TypeInit, InvInit DEF IInv
<1>2. IInv /\ [Next]_vars => IInv'
  <2> SUFFICES ASSUME IInv, [Next]_vars PROVE IInv'
    OBVIOUS
  <2>1. TypeInv /\ KeepsPhase
    BY DEF IInv
  <2>2. TypeInv'
    BY <2>1, TypeNext
  <2>3. PICK list, end, rest, out : Inv(list, end, rest, out)
    BY DEF IInv
  <2>4. KeepsPhase' /\ \E l, e, r, o : Inv(l, e, r, o)'
    BY <2>1, <2>2, <2>3, InvStep
  <2> QED BY <2>2, <2>4 DEF IInv
<1> QED BY <1>1, <1>2, PTL DEF Spec

(* As long as no handler has deleted an event, the list and tmp, saved     *)
(* before a handler runs, never lead to freed memory, whatever the handler *)
(* adds and the pass itself removes; curr does from the removal of its     *)
(* event at line 263 to the write at line 267, and at no other time.  A    *)
(* next that was never assigned is met only where malloc leaves garbage.   *)
THEOREM PointersStayGood == Spec => []NoDanglingPointer
<1>1. IInv => NoDanglingPointer
  <2> SUFFICES ASSUME IInv, ~ misused
               PROVE  /\ Met \cup {pass.tmp} \subseteq live \cup Ends
                      /\ pass.at # "update" => pass.curr \in live \cup Ends
    BY DEF NoDanglingPointer
  <2>1. PICK list, end, rest, out : TypeInv /\ Inv(list, end, rest, out)
    BY DEF IInv
  <2>2. /\ TypeOK /\ live \subseteq Cells
        /\ ListOK(list, end) /\ RestOK(list, rest, out) /\ PassOK(list, rest)
    BY <2>1, InvCells
  <2>3. Met \subseteq live \cup Ends
    BY <2>2, ListShape DEF ListOK
  <2>4. Start \in live \cup Ends
    BY <2>2, PathSet DEF RestOK
  <2>5. pass.at \in {"idle", "walk", "handler", "update"} /\ NULL \in Ends
    BY <2>2, Marks DEF TypeOK
  <2>6. pass.tmp \in live \cup Ends /\ (pass.at # "update" => pass.curr \in live \cup Ends)
    BY <2>2, <2>4, <2>5 DEF PassOK, Idle, Start
  <2> QED BY <2>3, <2>6
<1> QED BY <1>1, Invariant, PTL

(* The list mTimer_add and mTimer_delete leave has no cycle, and a handler *)
(* is in it at most once with one context.                                 *)
THEOREM ListIsSound == Spec => []ListSound
<1>1. IInv => ListSound
  <2> SUFFICES ASSUME IInv PROVE ListSound
    OBVIOUS
  <2>1. PICK list, end, rest, out : TypeInv /\ Inv(list, end, rest, out)
    BY DEF IInv
  <2>2. live \subseteq Cells /\ Listed = CellsOf(list) /\ ListOK(list, end)
    BY <2>1, InvCells
  <2>3. \A i, j \in DOMAIN Walk : i # j /\ Walk[i] = Walk[j] => Walk[i] \notin live
    BY <2>2, ListShape DEF ListOK
  <2> QED BY <2>2, <2>3 DEF ListOK, ListSound
<1> QED BY <1>1, Invariant, PTL

(* th->number falls behind the list by one at every last firing, and never *)
(* runs ahead of it.                                                       *)
THEOREM CounterFallsBehind == Spec => []CountNeverAboveList
<1>1. IInv => CountNeverAboveList
  BY InvCells DEF IInv, ListOK, CountNeverAboveList
<1> QED BY <1>1, Invariant, PTL

(* An event added with a count fires at most that often, however many      *)
(* passes run and whatever the handlers add (mTimer_executeExpireEvents).  *)
THEOREM CountIsKept == Spec => []FiresAtMostCount
<1>1. IInv => FiresAtMostCount
  <2> SUFFICES ASSUME IInv, NEW c \in live, cell[c].limit > 0, misused => c \in Listed
               PROVE  cell[c].fires <= cell[c].limit
    BY DEF FiresAtMostCount
  <2>1. PICK list, end, rest, out : TypeInv /\ Inv(list, end, rest, out)
    BY DEF IInv
  <2>2. Listed = CellsOf(list) /\ CountOK(list, rest) /\ TypeOK
    BY <2>1, InvCells
  <2>3. cell[c].fires \in Int /\ cell[c].count \in Int /\ cell[c].limit \in Int
    BY <2>2, EventFields, Timer2Assumption DEF IntMin
  <2>4. /\ cell[c].fires + cell[c].count <= cell[c].limit + (IF InHandler(c) THEN 1 ELSE 0)
        /\ cell[c].count >= 0 /\ (cell[c].count = 0 => ~ InHandler(c))
    BY <2>2 DEF CountOK
  <2> QED BY <2>3, <2>4
<1> QED BY <1>1, Invariant, PTL

(* The schedule has no drift: lastTime is the instant of the add and one   *)
(* interval per firing, however late the passes come.                      *)
THEOREM ScheduleIsKept == Spec => []KeepsPhase
<1>1. IInv => KeepsPhase
  BY DEF IInv
<1> QED BY <1>1, Invariant, PTL

(* A pass fires an event at most once, and an event added in the pass not  *)
(* at all.                                                                 *)
THEOREM OncePerPass == Spec => FiresOncePerPass
<1>1. IInv /\ ~ misused /\ pass.at = "walk" => pass.curr \notin seen
  <2> SUFFICES ASSUME IInv, ~ misused, pass.at = "walk", pass.curr \in seen PROVE FALSE
    OBVIOUS
  <2>1. PICK list, end, rest, out : TypeInv /\ Inv(list, end, rest, out)
    BY DEF IInv
  <2>2. RestOK(list, rest, out) /\ TypeOK
    BY <2>1, InvCells
  <2>3. IsPath(live, cell, rest, pass.curr, out) /\ pass.curr \in live
    BY <2>2 DEF RestOK, Start, TypeOK
  <2>4. pass.curr \in CellsOf(rest)
    BY <2>3, PathTail
  <2> QED BY <2>2, <2>4 DEF RestOK
<1>2. IInv /\ [Next]_vars =>
        [~ misused /\ pass.at = "walk" /\ pass'.at = "handler" => pass.curr \notin seen]_vars
  BY <1>1
<1> QED BY <1>2, Invariant, PTL DEF Spec, FiresOncePerPass

\* A pass ends at the end of its path.
LEMMA PassEnds ==
  ASSUME TypeOK, [Next]_vars, pass.at = "walk", pass'.at = "idle"
  PROVE  pass.curr = NULL
<1>1. pass' # pass
  OBVIOUS
<1>2. CASE Fault
  BY <1>1, <1>2 DEF Fault
<1>3. CASE mTimer_init
  BY <1>1, <1>3 DEF mTimer_init
<1>4. CASE mTimer_cleanup
  BY <1>4 DEF mTimer_cleanup, CanCall
<1>5. ASSUME NEW from, NEW k \in Keys, NEW i \in Intervals, NEW n \in Counts,
             mTimer_add(from, k, i, n)
      PROVE  FALSE
  BY <1>5 DEF mTimer_add, CanCall
<1>6. ASSUME NEW from, NEW k \in Keys, mTimer_delete(from, k)
      PROVE  FALSE
  BY <1>6 DEF mTimer_delete, CanCall
<1>7. CASE ExecuteBegin
  BY <1>7 DEF ExecuteBegin, CanCall
<1>8. CASE ExecuteFire
  BY <1>8 DEF ExecuteFire, TypeOK
<1>9. CASE ExecuteSkip
  BY <1>9 DEF ExecuteSkip, TypeOK
<1>10. CASE HandlerReturns \/ UpdateLastTime
  BY <1>10 DEF HandlerReturns, UpdateLastTime
<1>11. CASE ExecuteReturn
  BY <1>11 DEF ExecuteReturn
<1>12. CASE ExecuteFault
  BY <1>1, <1>12 DEF ExecuteFault, Fault
<1>13. CASE Tick
  BY <1>1, <1>13 DEF Tick
<1>14. CASE UNCHANGED vars
  BY <1>1, <1>14 DEF vars
<1> QED BY <1>3, <1>4, <1>5, <1>6, <1>7, <1>8, <1>9, <1>10, <1>11, <1>12, <1>13, <1>14 DEF Next

(* When a pass returns, every due event of the list has fired in it or was *)
(* added in it, although the pass removes events from the list it walks.   *)
THEOREM NothingIsMissed == Spec => PassMissesNothing
<1>1. ASSUME IInv, [Next]_vars, pass.at = "walk", pass'.at = "idle", NEW c \in Listed, IsDue(c)
      PROVE  c \in seen
  <2>1. PICK list, end, rest, out : TypeInv /\ Inv(list, end, rest, out)
    BY <1>1 DEF IInv
  <2>2. /\ RestOK(list, rest, out) /\ TypeOK /\ live \subseteq Cells
        /\ Listed = CellsOf(list)
    BY <2>1, InvCells
  <2>3. pass.curr = NULL /\ NULL \notin live
    BY <1>1, <2>2, PassEnds, Marks
  <2>4. IsPath(live, cell, rest, NULL, out)
    BY <1>1, <2>2, <2>3 DEF RestOK, Start
  <2>5. out = NULL /\ CellsOf(rest) = {}
    BY <2>3, <2>4, PathSet
  <2> QED BY <1>1, <2>2, <2>5 DEF RestOK
<1>2. IInv /\ [Next]_vars =>
        [pass.at = "walk" /\ pass'.at = "idle" => \A c \in Listed : IsDue(c) => c \in seen]_vars
  BY <1>1
<1> QED BY <1>2, Invariant, PTL DEF Spec, PassMissesNothing
=============================================================================
