----------------------------- MODULE ShmProofs ------------------------------
(***************************************************************************)
(* For any finite set of processes: the last one to leave a segment frees  *)
(* it, and none that was in use when it was counted is freed.              *)
(***************************************************************************)
EXTENDS Shm, FiniteSetTheorems, TLAPS

MetType == [joined : SUBSET Procs, left : SUBSET Procs]

Types == /\ status \in [Ids -> {"unused", "live", "marked", "gone"}]
         /\ attached \in [Ids -> SUBSET Procs]
         /\ shared \in Ids \cup {UNINITIALIZED_SHM_ID}
         /\ proc \in [Procs -> Process]
         /\ met \in [Procs -> MetType]

\* A process has the id of a segment, except outside.
IdInv == \A p \in Procs : IF At(p, "out")
                            THEN proc[p].id = UNINITIALIZED_SHM_ID /\ proc[p].addr = "NULL"
                            ELSE proc[p].id \in Ids

\* Nobody knows the id of a segment there has not been yet.
FreshInv == \A id \in Ids : status[id] = "unused" =>
              shared # id /\ \A p \in Procs : proc[p].id # id

\* The kernel and the processes agree on who is attached.
AttachedInv == \A id \in Ids : \A p \in attached[id] :
                 /\ proc[p].id = id /\ proc[p].addr = "segment"
                 /\ proc[p].at \in {"in", "stat", "detach"} /\ Exists(id)
StaysInv == \A p \in Procs :
              proc[p].addr = "segment" /\ proc[p].at \in {"in", "stat", "detach"} =>
                p \in attached[proc[p].id]

\* The address -1 is that of a segment that has been cleaned up.
AddrInv == \A p \in Procs :
             /\ At(p, "attach") => proc[p].addr = "NULL" /\ proc[p].creating
             /\ At(p, "in") => proc[p].addr # "NULL"
             /\ proc[p].at \in {"stat", "detach", "remove", "end"} =>
                  (proc[p].creating <=> proc[p].addr = "NULL")
             /\ proc[p].addr = "-1" => status[proc[p].id] = "gone"
             /\ proc[p].at \in {"detach", "remove"} => proc[p].addr # "-1"

\* A segment its creator could not attach is known to nobody else, and freed.
OwnInv == \A p \in Procs :
            ~ At(p, "out") /\ proc[p].addr = "NULL" =>
              /\ shared # proc[p].id
              /\ \A q \in Procs : q # p => proc[q].id # proc[p].id
              /\ proc[p].at \in {"detach", "remove"} => proc[p].nattch = 0
              /\ At(p, "attach") => Exists(proc[p].id)
              /\ At(p, "end") => status[proc[p].id] = "gone"

(* What the count of IPC_STAT still says when it is used: who counted only *)
(* itself finds nobody but those that have come since; who counted another *)
(* one finds it, unless it has left since.                                 *)
Others(p) == attached[proc[p].id] \ {p}
Count(p) == proc[p].at \in {"detach", "remove"} =>
              /\ proc[p].nattch <= 1 => Others(p) \subseteq met[p].joined
              /\ proc[p].nattch > 1 => Others(p) # {} \/ met[p].left # {}
CountInv == \A p \in Procs : Count(p)

\* A segment whose last user has left is gone, unless two left together.
Freed(p) == At(p, "end") => \/ status[proc[p].id] = "gone"
                            \/ attached[proc[p].id] # {} \/ met[p].left # {}
GoneInv == \A p \in Procs : Freed(p)

IInv == /\ Types /\ IdInv /\ FreshInv /\ AttachedInv /\ StaysInv /\ AddrInv
        /\ OwnInv /\ CountInv /\ GoneInv

\* The mark for "no id" is not an id.
LEMMA NoId == UNINITIALIZED_SHM_ID \notin Ids
BY DEF UNINITIALIZED_SHM_ID, Ids

\* A count of at most one that includes p counts nobody else.
LEMMA CountOfOne ==
  ASSUME NEW S \in SUBSET Procs
  PROVE  /\ Cardinality(S) \in 0..Cardinality(Procs)
         /\ S = {} => Cardinality(S) = 0
         /\ \A p \in S : IF Cardinality(S) <= 1 THEN S = {p} ELSE S \ {p} # {}
<1>1. IsFiniteSet(S) /\ Cardinality(S) <= Cardinality(Procs)
  BY ShmAssumption, FS_Subset
<1>2. Cardinality(S) \in Nat /\ Cardinality(Procs) \in Nat
  BY <1>1, ShmAssumption, FS_CardinalityType
<1>3. S = {} => Cardinality(S) = 0
  BY FS_EmptySet
<1>4. ASSUME NEW p \in S PROVE IF Cardinality(S) <= 1 THEN S = {p} ELSE S \ {p} # {}
  <2>1. IsFiniteSet({p}) /\ Cardinality({p}) = 1
    BY FS_Singleton
  <2>2. {p} \in SUBSET S
    BY <1>4
  <2>3. Cardinality({p}) <= Cardinality(S) /\ (Cardinality(S) = Cardinality({p}) => S = {p})
    BY <1>1, <2>2, FS_Subset
  <2>4. Cardinality(S) <= 1 => S = {p}
    BY <1>2, <2>1, <2>3
  <2>5. S \ {p} = {} => S = {p}
    BY <1>4
  <2>6. S = {p} => Cardinality(S) <= 1
    BY <2>1
  <2>7. QED
    BY <2>4, <2>5, <2>6
<1>5. QED
  BY <1>1, <1>2, <1>3, <1>4

\* A record with which a process begins and ends.
LEMMA OutType ==
  /\ Out \in Process
  /\ Nobody \in MetType
<1>1. 0 \in 0..Cardinality(Procs)
  BY CountOfOne
<1>2. QED
  BY <1>1 DEF Out, Process, Nobody, MetType

\* The variables of one process change.
LEMMA SetType ==
  ASSUME Types, NEW c \in Procs, NEW r \in Process, SetProc(c, r)
  PROVE  /\ proc' \in [Procs -> Process]
         /\ proc'[c] = r /\ \A p \in Procs \ {c} : proc'[p] = proc[p]
BY DEF Types, SetProc

\* One of the two sets grows.
LEMMA MetFields ==
  ASSUME NEW m \in MetType, NEW c \in Procs
  PROVE  /\ LET n == [m EXCEPT !.joined = @ \cup {c}]
            IN  n \in MetType /\ n.joined = m.joined \cup {c} /\ n.left = m.left
         /\ LET n == [m EXCEPT !.left = @ \cup {c}]
            IN  n \in MetType /\ n.left = m.left \cup {c} /\ n.joined = m.joined
BY DEF MetType

\* What attaching a segment, and leaving it, changes.
Joined(c, id) ==
  /\ status' = status
  /\ attached' \in [Ids -> SUBSET Procs]
  /\ \A i \in Ids : attached'[i] = IF i = id THEN attached[i] \cup {c} ELSE attached[i]
  /\ met' \in [Procs -> MetType]
  /\ \A p \in Procs :
       /\ met'[p].left = met[p].left
       /\ met'[p].joined = IF /\ p # c /\ proc[p].id = id
                             /\ proc[p].at \in {"detach", "remove", "end"}
                          THEN met[p].joined \cup {c} ELSE met[p].joined

Left(c, id) ==
  /\ status' \in [Ids -> {"unused", "live", "marked", "gone"}]
  /\ \A i \in Ids :
       \/ status'[i] = status[i]
       \/ i = id /\ status[i] = "marked" /\ attached[i] = {c} /\ status'[i] = "gone"
  /\ attached' \in [Ids -> SUBSET Procs]
  /\ \A i \in Ids : attached'[i] = IF i = id THEN attached[i] \ {c} ELSE attached[i]
  /\ met' \in [Procs -> MetType]
  /\ \A p \in Procs :
       /\ met'[p].joined = met[p].joined
       /\ met'[p].left = IF /\ p # c /\ proc[p].id = id
                           /\ proc[p].at \in {"detach", "remove", "end"}
                        THEN met[p].left \cup {c} ELSE met[p].left

\* A process attaches a segment.
LEMMA AttachEffect ==
  ASSUME Types, NEW c \in Procs, NEW id \in Ids, Attach(c, id)
  PROVE  Joined(c, id)
<1>1. status' = status /\ attached' = [attached EXCEPT ![id] = @ \cup {c}]
  BY DEF Attach
<1>2. \A p \in Procs :
        met'[p] = IF /\ p # c /\ proc[p].id = id
                     /\ proc[p].at \in {"detach", "remove", "end"}
                  THEN [met[p] EXCEPT !.joined = @ \cup {c}] ELSE met[p]
  BY DEF Attach, Meets
<1>3. met' = [p \in Procs |-> met'[p]]
  BY DEF Attach, Meets
<1>4. \A p \in Procs : met[p] \in MetType
  BY DEF Types
<1>5. \A p \in Procs :
        LET m == [met[p] EXCEPT !.joined = @ \cup {c}]
        IN  m \in MetType /\ m.joined = met[p].joined \cup {c} /\ m.left = met[p].left
  BY <1>4, MetFields
<1>6. \A p \in Procs : met'[p] \in MetType
  BY <1>2, <1>4, <1>5
<1>7. QED
  BY <1>1, <1>2, <1>3, <1>5, <1>6 DEF Types, Joined

\* A process leaves one, by itself or because it ends.
LEMMA LeaveEffect ==
  ASSUME Types, NEW c \in Procs, NEW id \in Ids, Leave(c, id)
  PROVE  Left(c, id)
<1>1. /\ status' = [status EXCEPT ![id] = IF @ = "marked" /\ attached[id] = {c}
                                           THEN "gone" ELSE @]
      /\ attached' = [attached EXCEPT ![id] = @ \ {c}]
  BY DEF Leave
<1>2. \A p \in Procs :
        met'[p] = IF /\ p # c /\ proc[p].id = id
                     /\ proc[p].at \in {"detach", "remove", "end"}
                  THEN [met[p] EXCEPT !.left = @ \cup {c}] ELSE met[p]
  BY DEF Leave, Meets
<1>3. met' = [p \in Procs |-> met'[p]]
  BY DEF Leave, Meets
<1>4. \A p \in Procs : met[p] \in MetType
  BY DEF Types
<1>5. \A p \in Procs :
        LET m == [met[p] EXCEPT !.left = @ \cup {c}]
        IN  m \in MetType /\ m.left = met[p].left \cup {c} /\ m.joined = met[p].joined
  BY <1>4, MetFields
<1>6. \A p \in Procs : met'[p] \in MetType
  BY <1>2, <1>4, <1>5
<1>7. QED
  BY <1>1, <1>2, <1>3, <1>5, <1>6 DEF Types, Left

-----------------------------------------------------------------------------
LEMMA InitInv == Init => IInv
<1> USE NoId, OutType
<1>1. Init => Types
  BY DEF Init, Types
<1>2. QED
  BY <1>1 DEF Init, IInv, IdInv, FreshInv, AttachedInv, StaysInv, AddrInv, OwnInv,
             CountInv, Count, Others, GoneInv, Freed, At, Out

\* Who is on its way out keeps track of those that come and go meanwhile.
LEMMA JoinKeepsCount ==
  ASSUME Types, IdInv, NEW c \in Procs, NEW id \in Ids, Joined(c, id),
         NEW p \in Procs, p # c, proc'[p] = proc[p], Count(p), Freed(p)
  PROVE  Count(p)' /\ Freed(p)'
<1> DEFINE i == proc[p].id
<1>1. CASE proc[p].at \notin {"detach", "remove", "end"}
  BY <1>1 DEF Count, Freed, At
<1>2. CASE proc[p].at \in {"detach", "remove", "end"}
  <2>1. i \in Ids /\ proc'[p].id = i /\ proc'[p].at = proc[p].at
    BY <1>2 DEF IdInv, At
  <2>2. CASE i # id
    <3>1. /\ attached'[i] = attached[i] /\ status'[i] = status[i]
          /\ met'[p].joined = met[p].joined /\ met'[p].left = met[p].left
      BY <2>1, <2>2 DEF Joined
    <3>2. QED
      BY <2>1, <3>1 DEF Count, Freed, Others, At
  <2>3. CASE i = id
    <3>1. /\ attached'[i] = attached[i] \cup {c} /\ status'[i] = status[i]
          /\ met'[p].joined = met[p].joined \cup {c} /\ met'[p].left = met[p].left
      BY <1>2, <2>1, <2>3 DEF Joined
    <3>2. QED
      BY <2>1, <3>1 DEF Count, Freed, Others, At
  <2>4. QED
    BY <2>2, <2>3
<1>3. QED
  BY <1>1, <1>2

LEMMA LeaveKeepsCount ==
  ASSUME Types, IdInv, NEW c \in Procs, NEW id \in Ids, Left(c, id),
         NEW p \in Procs, p # c, proc'[p] = proc[p], Count(p), Freed(p)
  PROVE  Count(p)' /\ Freed(p)'
<1> DEFINE i == proc[p].id
<1>1. CASE proc[p].at \notin {"detach", "remove", "end"}
  BY <1>1 DEF Count, Freed, At
<1>2. CASE proc[p].at \in {"detach", "remove", "end"}
  <2>1. i \in Ids /\ proc'[p].id = i /\ proc'[p].at = proc[p].at
    BY <1>2 DEF IdInv, At
  <2>2. CASE i # id
    <3>1. /\ attached'[i] = attached[i] /\ status'[i] = status[i]
          /\ met'[p].joined = met[p].joined /\ met'[p].left = met[p].left
      BY <2>1, <2>2 DEF Left
    <3>2. QED
      BY <2>1, <3>1 DEF Count, Freed, Others, At
  <2>3. CASE i = id
    <3>1. /\ attached'[i] = attached[i] \ {c}
          /\ met'[p].joined = met[p].joined /\ met'[p].left = met[p].left \cup {c}
      BY <1>2, <2>1, <2>3 DEF Left
    <3>2. QED
      BY <2>1, <3>1 DEF Count, Freed, Others, At
  <2>4. QED
    BY <2>2, <2>3
<1>3. QED
  BY <1>1, <1>2

\* So only the process that takes the step needs to be looked at.
LEMMA JoinKeepsCounts ==
  ASSUME IInv, NEW c \in Procs, NEW id \in Ids, Joined(c, id),
         \A p \in Procs \ {c} : proc'[p] = proc[p], Count(c)', Freed(c)'
  PROVE  CountInv' /\ GoneInv'
<1>1. ASSUME NEW p \in Procs, p # c PROVE Count(p)' /\ Freed(p)'
  <2>1. Types /\ IdInv /\ Count(p) /\ Freed(p)
    BY DEF IInv, CountInv, GoneInv
  <2>2. proc'[p] = proc[p]
    BY <1>1
  <2>3. QED
    BY <1>1, <2>1, <2>2, JoinKeepsCount
<1>2. \A p \in Procs : Count(p)' /\ Freed(p)'
  BY <1>1
<1>3. QED
  BY <1>2 DEF CountInv, GoneInv

LEMMA LeaveKeepsCounts ==
  ASSUME IInv, NEW c \in Procs, NEW id \in Ids, Left(c, id),
         \A p \in Procs \ {c} : proc'[p] = proc[p], Count(c)', Freed(c)'
  PROVE  CountInv' /\ GoneInv'
<1>1. ASSUME NEW p \in Procs, p # c PROVE Count(p)' /\ Freed(p)'
  <2>1. Types /\ IdInv /\ Count(p) /\ Freed(p)
    BY DEF IInv, CountInv, GoneInv
  <2>2. proc'[p] = proc[p]
    BY <1>1
  <2>3. QED
    BY <1>1, <2>1, <2>2, LeaveKeepsCount
<1>2. \A p \in Procs : Count(p)' /\ Freed(p)'
  BY <1>1
<1>3. QED
  BY <1>2 DEF CountInv, GoneInv

\* The id handed on is not that of a segment its creator has lost.
LEMMA AttachSharedInv ==
  ASSUME IInv, NEW c \in Procs, AttachShared(c) PROVE IInv'
<1> DEFINE id == shared
           r == [Out EXCEPT !.at = "in", !.id = id, !.addr = "segment"]
<1>1. id \in Ids /\ status[id] \in {"live", "marked"} /\ shared' = id /\ proc[c].at = "out"
  BY NoId DEF AttachShared, IInv, Types, At, Exists
<1>2. r \in Process /\ r.at = "in" /\ r.addr = "segment" /\ r.id = id /\ r.creating = FALSE
  BY <1>1, OutType DEF Process, Out
<1> HIDE DEF r
<1>3. /\ proc' \in [Procs -> Process]
      /\ proc'[c] = r /\ \A p \in Procs \ {c} : proc'[p] = proc[p]
  BY <1>2, SetType DEF IInv, AttachShared, r
<1>4. Joined(c, id)
  BY <1>1, AttachEffect DEF IInv, AttachShared
<1>5. CountInv' /\ GoneInv'
  <2>1. Count(c)' /\ Freed(c)'
    BY <1>2, <1>3 DEF Count, Freed, At
  <2>2. QED
    BY <1>1, <1>3, <1>4, <2>1, JoinKeepsCounts
<1> USE NoId DEF IInv, Types, At, Exists
<1> USE <1>1, <1>2, <1>3, <1>4 DEF Joined
<1>6. Types'
  OBVIOUS
<1>7. IdInv'
  BY DEF IdInv
<1>8. FreshInv'
  BY DEF FreshInv, IdInv
<1>9. AttachedInv'
  BY DEF AttachedInv, IdInv, FreshInv
<1>10. StaysInv'
  BY DEF StaysInv, AttachedInv, IdInv
<1>11. AddrInv'
  BY DEF AddrInv, IdInv, FreshInv, OwnInv
<1>12. OwnInv'
  BY DEF OwnInv, AddrInv, IdInv, FreshInv, AttachedInv
<1>13. QED
  BY <1>6, <1>7, <1>8, <1>9, <1>10, <1>11, <1>12, <1>5

\* The id is fresh.
LEMMA CreateInv ==
  ASSUME IInv, NEW c \in Procs, Create(c) PROVE IInv'
<1> USE NoId DEF IInv, Types, Create, At, Exists, SetProc, Out
<1>1. Types'
  <2>1. PICK id \in Ids : /\ status' = [status EXCEPT ![id] = "live"]
                          /\ SetProc(c, [Out EXCEPT !.at = "attach", !.creating = TRUE, !.id = id])
    OBVIOUS
  <2>2. [Out EXCEPT !.at = "attach", !.creating = TRUE, !.id = id] \in Process
    BY OutType DEF Process
  <2>3. proc' \in [Procs -> Process]
    BY <2>1, <2>2, SetType
  <2>4. QED
    BY <2>1, <2>3
<1>2. IdInv'
  BY DEF IdInv
<1>3. FreshInv'
  BY DEF FreshInv, IdInv
<1>4. AttachedInv'
  BY DEF AttachedInv, IdInv, FreshInv
<1>5. StaysInv'
  BY DEF StaysInv, AttachedInv, IdInv
<1>6. AddrInv'
  BY DEF AddrInv, IdInv, FreshInv, OwnInv
<1>7. OwnInv'
  BY DEF OwnInv, AddrInv, IdInv, FreshInv, AttachedInv
<1>8. CountInv'
  BY DEF CountInv, Count, Others, IdInv, AttachedInv, AddrInv, OwnInv
<1>9. GoneInv'
  BY DEF GoneInv, Freed, CountInv, Count, Others, IdInv, AttachedInv, AddrInv, OwnInv, FreshInv
<1>10. QED
  BY <1>1, <1>2, <1>3, <1>4, <1>5, <1>6, <1>7, <1>8, <1>9

LEMMA AttachCreatedInv ==
  ASSUME IInv, NEW c \in Procs, AttachCreated(c) PROVE IInv'
<1> DEFINE id == proc[c].id
<1>1. /\ proc[c].at = "attach" /\ id \in Ids /\ shared' = shared
      /\ proc[c] \in Process /\ proc[c].addr = "NULL" /\ proc[c].creating
  BY NoId DEF AttachCreated, IInv, Types, IdInv, AddrInv, At
<1>2. CASE Attach(c, id) /\ SetProc(c, [proc[c] EXCEPT !.at = "in", !.addr = "segment"])
  <2> DEFINE r == [proc[c] EXCEPT !.at = "in", !.addr = "segment"]
  <2>1. /\ r \in Process /\ r.at = "in" /\ r.addr = "segment" /\ r.id = id
        /\ r.creating = proc[c].creating /\ r.nattch = proc[c].nattch
    BY <1>1 DEF Process
  <2> HIDE DEF r
  <2>2. /\ proc' \in [Procs -> Process]
        /\ proc'[c] = r /\ \A p \in Procs \ {c} : proc'[p] = proc[p]
    BY <1>2, <2>1, SetType DEF IInv, r
  <2>3. Joined(c, id)
    BY <1>1, <1>2, AttachEffect DEF IInv
  <2>4. CountInv' /\ GoneInv'
    <3>1. Count(c)' /\ Freed(c)'
      BY <2>1, <2>2 DEF Count, Freed, At
    <3>2. QED
      BY <1>1, <2>2, <2>3, <3>1, JoinKeepsCounts
  <2> USE NoId DEF IInv, Types, At, Exists
  <2> USE <1>1, <2>1, <2>2, <2>3 DEF Joined
  <2>5. Types'
    BY DEF Types
  <2>6. IdInv'
    BY DEF IdInv
  <2>7. FreshInv'
    BY DEF FreshInv, IdInv
  <2>8. AttachedInv'
    BY DEF AttachedInv, IdInv, FreshInv, OwnInv
  <2>9. StaysInv'
    BY DEF StaysInv, AttachedInv, IdInv
  <2>10. AddrInv'
    BY DEF AddrInv, IdInv, FreshInv, OwnInv
  <2>11. OwnInv'
    BY DEF OwnInv, AddrInv, IdInv, FreshInv, AttachedInv
  <2>12. QED
    BY <2>5, <2>6, <2>7, <2>8, <2>9, <2>10, <2>11, <2>4
<1>3. CASE Goto(c, "stat") /\ UNCHANGED <<status, attached, met>>
  <2> USE NoId DEF IInv, Types, At, Exists
  <2> DEFINE r == [proc[c] EXCEPT !.at = "stat"]
  <2>1. /\ r \in Process /\ r.at = "stat" /\ r.addr = "NULL" /\ r.id = id
        /\ r.creating /\ r.nattch = proc[c].nattch
    BY <1>1 DEF Process
  <2> HIDE DEF r
  <2>2. /\ proc' \in [Procs -> Process]
        /\ proc'[c] = r /\ \A p \in Procs \ {c} : proc'[p] = proc[p]
    BY <1>3, <2>1, SetType DEF r, Goto
  <2>3. \A p \in Procs : proc'[p].id = proc[p].id /\ proc'[p].addr = proc[p].addr
    BY <1>1, <2>1, <2>2
  <2> USE <1>1, <1>3, <2>1, <2>2, <2>3
  <2>4. Types'
    BY DEF Types
  <2>5. IdInv'
    BY DEF IdInv
  <2>6. FreshInv'
    BY DEF FreshInv, IdInv
  <2>7. AttachedInv'
    BY DEF AttachedInv, IdInv, FreshInv
  <2>8. StaysInv'
    BY DEF StaysInv, AttachedInv, IdInv
  <2>9. AddrInv'
    BY DEF AddrInv, IdInv, FreshInv, OwnInv
  <2>10. OwnInv'
    BY DEF OwnInv, AddrInv, IdInv, FreshInv, AttachedInv
  <2>11. CountInv'
    BY DEF CountInv, Count, Others, IdInv, AttachedInv, AddrInv, OwnInv
  <2>12. GoneInv'
    BY DEF GoneInv, Freed, CountInv, Count, Others, IdInv, AttachedInv, AddrInv, OwnInv, FreshInv
  <2>13. QED
    BY <2>4, <2>5, <2>6, <2>7, <2>8, <2>9, <2>10, <2>11, <2>12
<1>4. QED
  BY <1>2, <1>3 DEF AttachCreated

LEMMA PublishInv ==
  ASSUME IInv, NEW c \in Procs, Publish(c) PROVE IInv'
<1> USE NoId DEF IInv, Types, Publish, At, Exists, SetProc
<1>1. Types'
  <2>1. proc[c] \in Process /\ proc[c].id \in Ids
    BY DEF IdInv
  <2>2. [proc[c] EXCEPT !.creating = FALSE] \in Process
    BY <2>1 DEF Process
  <2>3. proc' \in [Procs -> Process]
    BY <2>2, SetType
  <2>4. QED
    BY <2>1, <2>3
<1>2. IdInv'
  BY DEF IdInv
<1>3. FreshInv'
  BY DEF FreshInv, IdInv
<1>4. AttachedInv'
  BY DEF AttachedInv, IdInv, FreshInv
<1>5. StaysInv'
  BY DEF StaysInv, AttachedInv, IdInv
<1>6. AddrInv'
  BY DEF AddrInv, IdInv, FreshInv, OwnInv
<1>7. OwnInv'
  BY DEF OwnInv, AddrInv, IdInv, FreshInv, AttachedInv
<1>8. CountInv'
  BY DEF CountInv, Count, Others, IdInv, AttachedInv, AddrInv, OwnInv
<1>9. GoneInv'
  BY DEF GoneInv, Freed, CountInv, Count, Others, IdInv, AttachedInv, AddrInv, OwnInv, FreshInv
<1>10. QED
  BY <1>1, <1>2, <1>3, <1>4, <1>5, <1>6, <1>7, <1>8, <1>9

LEMMA BeginInv ==
  ASSUME IInv, NEW c \in Procs, Begin(c) PROVE IInv'
<1> USE NoId DEF IInv, Types, Begin, At, Exists, SetProc
<1>1. Types'
  <2>1. proc[c] \in Process /\ proc[c].id \in Ids
    BY DEF IdInv
  <2>2. [proc[c] EXCEPT !.at = "stat", !.creating = FALSE] \in Process
    BY <2>1 DEF Process
  <2>3. proc' \in [Procs -> Process]
    BY <2>2, SetType
  <2>4. QED
    BY <2>1, <2>3
<1>2. IdInv'
  BY DEF IdInv
<1>3. FreshInv'
  BY DEF FreshInv, IdInv
<1>4. AttachedInv'
  BY DEF AttachedInv, IdInv, FreshInv
<1>5. StaysInv'
  BY DEF StaysInv, AttachedInv, IdInv
<1>6. AddrInv'
  BY DEF AddrInv, IdInv, FreshInv, OwnInv
<1>7. OwnInv'
  BY DEF OwnInv, AddrInv, IdInv, FreshInv, AttachedInv
<1>8. CountInv'
  BY DEF CountInv, Count, Others, IdInv, AttachedInv, AddrInv, OwnInv
<1>9. GoneInv'
  BY DEF GoneInv, Freed, CountInv, Count, Others, IdInv, AttachedInv, AddrInv, OwnInv, FreshInv
<1>10. QED
  BY <1>1, <1>2, <1>3, <1>4, <1>5, <1>6, <1>7, <1>8, <1>9

\* The count is right when it is made.
LEMMA StatInv ==
  ASSUME IInv, NEW c \in Procs, Stat(c) PROVE IInv'
<1> USE NoId DEF IInv, Types, At, Exists
<1> DEFINE id == proc[c].id
           n == Cardinality(attached[id])
           r == IF Exists(id) THEN [proc[c] EXCEPT !.at = "detach", !.nattch = n]
                              ELSE [proc[c] EXCEPT !.at = "end"]
<1>1. /\ proc[c].at = "stat" /\ id \in Ids /\ proc[c] \in Process
      /\ attached[id] \in SUBSET Procs
      /\ UNCHANGED <<status, attached, shared>>
  BY DEF Stat, Types, IdInv
<1>2. /\ n \in 0..Cardinality(Procs)
      /\ attached[id] = {} => n = 0
      /\ \A p \in attached[id] : IF n <= 1 THEN attached[id] = {p}
                                            ELSE attached[id] \ {p} # {}
  BY <1>1, CountOfOne
<1>3. /\ r \in Process /\ r.addr = proc[c].addr /\ r.id = id
      /\ r.creating = proc[c].creating
      /\ IF Exists(id) THEN r.at = "detach" /\ r.nattch = n ELSE r.at = "end"
  BY <1>1, <1>2 DEF Process
<1>4. SetProc(c, r)
  BY <1>1 DEF Stat, Goto
<1> HIDE DEF r
<1>5. /\ proc' \in [Procs -> Process]
      /\ proc'[c] = r /\ \A p \in Procs \ {c} : proc'[p] = proc[p]
  BY <1>3, <1>4, SetType
<1>6. /\ met' \in [Procs -> MetType]
      /\ met'[c].joined = {} /\ met'[c].left = {}
      /\ \A p \in Procs \ {c} : met'[p] = met[p]
  BY OutType DEF Stat, Types, Nobody
<1> USE <1>1, <1>2, <1>3, <1>5, <1>6
<1> HIDE DEF n
<1>7. Types'
  BY DEF Types
<1>8. IdInv'
  BY DEF IdInv
<1>9. FreshInv'
  BY DEF FreshInv, IdInv
<1>10. AttachedInv'
  BY DEF AttachedInv, IdInv, FreshInv
<1>11. StaysInv'
  BY DEF StaysInv, AttachedInv, IdInv
<1>12. AddrInv'
  BY DEF AddrInv, IdInv, FreshInv, OwnInv
<1>13. OwnInv'
  BY DEF OwnInv, AddrInv, IdInv, FreshInv, AttachedInv
<1>14. CountInv'
  <2>1. ASSUME NEW p \in Procs, p # c PROVE Count(p)'
    BY <2>1 DEF CountInv, Count, Others
  <2>2. Exists(id) => \/ proc[c].addr = "segment" /\ c \in attached[id]
                      \/ proc[c].addr = "NULL" /\ attached[id] = {}
    BY DEF AddrInv, StaysInv, OwnInv, AttachedInv, Process
  <2>3. Exists(id) /\ n <= 1 => attached[id] \ {c} = {}
    BY <2>2
  <2>4. Exists(id) /\ n > 1 => attached[id] \ {c} # {}
    BY <2>2
  <2>5. Count(c)'
    BY <2>3, <2>4 DEF Count, Others
  <2>6. QED
    BY <2>1, <2>5 DEF CountInv
<1>15. GoneInv'
  BY DEF GoneInv, Freed, CountInv, Count, Others, IdInv, AttachedInv, AddrInv, OwnInv, FreshInv
<1>16. QED
  BY <1>7, <1>8, <1>9, <1>10, <1>11, <1>12, <1>13, <1>14, <1>15

\* Those on their way out learn that c has left.
LEMMA oil_shmDetachInv ==
  ASSUME IInv, NEW c \in Procs, oil_shmDetach(c) PROVE IInv'
<1> DEFINE id == proc[c].id
           r == [proc[c] EXCEPT !.at = "remove"]
<1>1. /\ proc[c].at = "detach" /\ id \in Ids /\ proc[c] \in Process /\ shared' = shared
      /\ proc[c].addr \in {"segment", "NULL"}
  BY NoId DEF oil_shmDetach, IInv, Types, IdInv, AddrInv, Process, At
<1>2. /\ r \in Process /\ r.at = "remove" /\ r.addr = proc[c].addr /\ r.id = id
      /\ r.creating = proc[c].creating /\ r.nattch = proc[c].nattch
  BY <1>1 DEF Process
<1> HIDE DEF r
<1>3. /\ proc' \in [Procs -> Process]
      /\ proc'[c] = r /\ \A p \in Procs \ {c} : proc'[p] = proc[p]
  BY <1>2, SetType DEF IInv, oil_shmDetach, Goto, r
<1>4. CASE proc[c].addr = "segment"
  <2>1. Leave(c, id) /\ c \in attached[id]
    BY <1>1, <1>4 DEF oil_shmDetach, IInv, StaysInv
  <2>2. Left(c, id)
    BY <1>1, <2>1, LeaveEffect DEF IInv
  <2>3. CountInv' /\ GoneInv'
    <3>1. Others(c)' = Others(c) /\ met'[c] = met[c]
      BY <1>1, <1>2, <1>3, <2>1 DEF Leave, Meets, Others, IInv, Types
    <3>2. Count(c)
      BY DEF IInv, CountInv
    <3>3. Count(c)' /\ Freed(c)'
      BY <1>1, <1>2, <1>3, <3>1, <3>2 DEF Count, Freed, At
    <3>4. QED
      BY <1>1, <1>3, <2>2, <3>3, LeaveKeepsCounts
  <2> USE NoId, <1>1, <1>2, <1>3 DEF IInv, Types, At, Exists
  <2> USE <1>4, <2>2 DEF Left
  <2>4. Types'
    BY DEF Types
  <2> USE <2>1
  <2>5. IdInv'
    BY DEF IdInv
  <2>6. FreshInv'
    BY DEF FreshInv, IdInv
  <2>7. AttachedInv'
    BY DEF AttachedInv, IdInv, FreshInv
  <2>8. StaysInv'
    BY DEF StaysInv, AttachedInv, IdInv
  <2>9. AddrInv'
    BY DEF AddrInv, IdInv, FreshInv, OwnInv
  <2>10. OwnInv'
    BY DEF OwnInv, AddrInv, IdInv, FreshInv, AttachedInv
  <2>11. QED
    BY <2>4, <2>5, <2>6, <2>7, <2>8, <2>9, <2>10, <2>3
<1>5. CASE proc[c].addr = "NULL"
  <2> USE NoId, <1>1, <1>2, <1>3 DEF IInv, Types, At, Exists
  <2>1. UNCHANGED <<status, attached, met>> /\ c \notin attached[id]
    BY <1>5 DEF oil_shmDetach, AttachedInv
  <2> USE <1>5, <2>1
  <2>2. Types'
    BY DEF Types
  <2>3. IdInv'
    BY DEF IdInv
  <2>4. FreshInv'
    BY DEF FreshInv, IdInv
  <2>5. AttachedInv'
    BY DEF AttachedInv, IdInv, FreshInv
  <2>6. StaysInv'
    BY DEF StaysInv, AttachedInv, IdInv
  <2>7. AddrInv'
    BY DEF AddrInv, IdInv, FreshInv, OwnInv
  <2>8. OwnInv'
    BY DEF OwnInv, AddrInv, IdInv, FreshInv, AttachedInv
  <2>9. CountInv'
    BY DEF CountInv, Count, Others, IdInv, AttachedInv, AddrInv, OwnInv
  <2>10. GoneInv'
    BY DEF GoneInv, Freed, CountInv, Count, Others, IdInv, AttachedInv, AddrInv, OwnInv, FreshInv
  <2>11. QED
    BY <2>2, <2>3, <2>4, <2>5, <2>6, <2>7, <2>8, <2>9, <2>10
<1>6. QED
  BY <1>1, <1>4, <1>5

\* Who counted only itself, and is not alone now, marks the segment.
LEMMA RemoveInv ==
  ASSUME IInv, NEW c \in Procs, Remove(c) PROVE IInv'
<1> USE NoId DEF IInv, Types, At, Exists
<1> DEFINE id == proc[c].id
           r == [proc[c] EXCEPT !.at = "end"]
<1>1. /\ proc[c].at = "remove" /\ id \in Ids /\ proc[c] \in Process
      /\ proc[c].nattch \in Nat /\ UNCHANGED <<attached, shared, met>>
      /\ c \notin attached[id]
  <2>1. Cardinality(Procs) \in Nat
    BY ShmAssumption, FS_CardinalityType
  <2>2. QED
    BY <2>1 DEF Remove, Types, IdInv, AttachedInv, Process
<1>2. /\ r \in Process /\ r.at = "end" /\ r.addr = proc[c].addr /\ r.id = id
      /\ r.creating = proc[c].creating /\ r.nattch = proc[c].nattch
  BY <1>1 DEF Process
<1> HIDE DEF r
<1>3. /\ proc' \in [Procs -> Process]
      /\ proc'[c] = r /\ \A p \in Procs \ {c} : proc'[p] = proc[p]
  BY <1>2, SetType DEF Remove, Goto, r
<1>4. /\ status' \in [Ids -> {"unused", "live", "marked", "gone"}]
      /\ \A i \in Ids \ {id} : status'[i] = status[i]
      /\ IF proc[c].nattch <= 1 /\ Exists(id)
         THEN status'[id] = IF attached[id] = {} THEN "gone" ELSE "marked"
         ELSE status'[id] = status[id]
  BY <1>1 DEF Remove, Types, Frees
<1> USE <1>1, <1>2, <1>3, <1>4
<1>5. Types'
  BY DEF Types
<1>6. IdInv'
  BY DEF IdInv
<1>7. FreshInv'
  BY DEF FreshInv, IdInv
<1>8. AttachedInv'
  BY DEF AttachedInv, IdInv, FreshInv
<1>9. StaysInv'
  BY DEF StaysInv, AttachedInv, IdInv
<1>10. AddrInv'
  BY DEF AddrInv, IdInv, FreshInv, OwnInv
<1>11. OwnInv'
  BY DEF OwnInv, AddrInv, IdInv, FreshInv, AttachedInv
<1>12. CountInv'
  BY DEF CountInv, Count, Others, IdInv, AttachedInv, AddrInv, OwnInv
<1>13. GoneInv'
  BY DEF GoneInv, Freed, CountInv, Count, Others, IdInv, AttachedInv, AddrInv, OwnInv, FreshInv
<1>14. QED
  BY <1>5, <1>6, <1>7, <1>8, <1>9, <1>10, <1>11, <1>12, <1>13

LEMMA EndOfCleanupInv ==
  ASSUME IInv, NEW c \in Procs, EndOfCleanup(c) PROVE IInv'
<1> USE NoId DEF IInv, Types, EndOfCleanup, At, Exists, SetProc, Out, Nobody
<1>1. Types'
  <2> DEFINE r == IF proc[c].creating THEN [proc[c] EXCEPT !.at = "in", !.addr = "-1"] ELSE Out
  <2>1. proc[c] \in Process
    OBVIOUS
  <2>2. r \in Process
    BY <2>1, OutType DEF Process
  <2>3. proc' \in [Procs -> Process]
    BY <2>2, SetType
  <2>4. met' \in [Procs -> MetType]
    BY OutType
  <2>5. QED
    BY <2>1, <2>3, <2>4
<1>2. IdInv'
  BY DEF IdInv
<1>3. FreshInv'
  BY DEF FreshInv, IdInv
<1>4. AttachedInv'
  BY DEF AttachedInv, IdInv, FreshInv
<1>5. StaysInv'
  BY DEF StaysInv, AttachedInv, IdInv
<1>6. AddrInv'
  BY DEF AddrInv, IdInv, FreshInv, OwnInv
<1>7. OwnInv'
  BY DEF OwnInv, AddrInv, IdInv, FreshInv, AttachedInv
<1>8. CountInv'
  BY DEF CountInv, Count, Others, IdInv, AttachedInv, AddrInv, OwnInv
<1>9. GoneInv'
  BY DEF GoneInv, Freed, CountInv, Count, Others, IdInv, AttachedInv, AddrInv, OwnInv, FreshInv
<1>10. QED
  BY <1>1, <1>2, <1>3, <1>4, <1>5, <1>6, <1>7, <1>8, <1>9

\* A process that dies leaves like one that detaches.
LEMMA ExitInv ==
  ASSUME IInv, NEW c \in Procs, Exit(c) PROVE IInv'
<1> DEFINE id == proc[c].id
<1>1. proc[c].at # "out" /\ id \in Ids /\ shared' = shared
  BY NoId DEF Exit, IInv, Types, IdInv, At
<1>2. /\ proc' \in [Procs -> Process]
      /\ proc'[c] = Out /\ \A p \in Procs \ {c} : proc'[p] = proc[p]
  BY OutType, SetType DEF IInv, Exit
<1>3. /\ Out.at = "out" /\ Out.addr = "NULL" /\ Out.id = UNINITIALIZED_SHM_ID
      /\ Out.creating = FALSE
  BY DEF Out
<1>4. CASE \E i \in Ids : c \in attached[i]
  <2>1. Leave(c, id) /\ c \in attached[id]
    BY <1>4 DEF Exit, IInv, AttachedInv
  <2>2. Left(c, id)
    BY <1>1, <2>1, LeaveEffect DEF IInv
  <2>3. CountInv' /\ GoneInv'
    <3>1. Count(c)' /\ Freed(c)'
      BY <1>2, <1>3 DEF Count, Freed, At
    <3>2. QED
      BY <1>1, <1>2, <2>2, <3>1, LeaveKeepsCounts
  <2> USE NoId, <1>1, <1>2, <1>3 DEF IInv, Types, At, Exists
  <2> USE <1>4, <2>2 DEF Left
  <2>4. Types'
    BY DEF Types
  <2> USE <2>1
  <2>5. IdInv'
    BY DEF IdInv
  <2>6. FreshInv'
    BY DEF FreshInv, IdInv
  <2>7. AttachedInv'
    BY DEF AttachedInv, IdInv, FreshInv
  <2>8. StaysInv'
    BY DEF StaysInv, AttachedInv, IdInv
  <2>9. AddrInv'
    BY DEF AddrInv, IdInv, FreshInv, OwnInv
  <2>10. OwnInv'
    <3>1. ASSUME NEW p \in Procs, proc'[p].at # "out", proc'[p].addr = "NULL"
          PROVE  /\ p # c /\ proc'[p] = proc[p] /\ proc[p].id # id
                 /\ status'[proc[p].id] = status[proc[p].id]
      BY <3>1 DEF OwnInv, IdInv
    <3>2. \A q \in Procs : proc'[q].id \in {proc[q].id, UNINITIALIZED_SHM_ID}
      OBVIOUS
    <3>3. ASSUME NEW p \in Procs, ~ At(p, "out")', proc'[p].addr = "NULL"
          PROVE  /\ shared' # proc'[p].id
                 /\ \A q \in Procs : q # p => proc'[q].id # proc'[p].id
                 /\ proc'[p].at \in {"detach", "remove"} => proc'[p].nattch = 0
                 /\ At(p, "attach")' => Exists(proc[p].id)'
                 /\ At(p, "end")' => status'[proc[p].id] = "gone"
      <4>1. /\ proc'[p] = proc[p] /\ proc[p].id \in Ids
            /\ status'[proc[p].id] = status[proc[p].id]
        BY <3>1, <3>3 DEF IdInv
      <4>2. /\ shared # proc[p].id
            /\ \A q \in Procs : q # p => proc[q].id # proc[p].id
            /\ proc[p].at \in {"detach", "remove"} => proc[p].nattch = 0
            /\ At(p, "attach") => Exists(proc[p].id)
            /\ At(p, "end") => status[proc[p].id] = "gone"
        BY <3>3, <4>1 DEF OwnInv
      <4>3. QED
        BY <3>2, <4>1, <4>2
    <3>4. \A p \in Procs : ~ At(p, "out")' /\ proc'[p].addr = "NULL" => proc'[p] = proc[p]
      BY <3>1
    <3>5. QED
      BY <3>3, <3>4 DEF OwnInv
  <2>11. QED
    BY <2>4, <2>5, <2>6, <2>7, <2>8, <2>9, <2>10, <2>3
<1>5. CASE ~ \E i \in Ids : c \in attached[i]
  <2> USE NoId, <1>1, <1>2, <1>3 DEF IInv, Types, At, Exists
  <2>1. /\ UNCHANGED <<status, attached>>
        /\ met' \in [Procs -> MetType]
        /\ \A p \in Procs \ {c} : met'[p] = met[p]
    BY <1>5, OutType DEF Exit, Types
  <2> USE <1>5, <2>1
  <2>2. Types'
    BY DEF Types
  <2>3. IdInv'
    BY DEF IdInv
  <2>4. FreshInv'
    BY DEF FreshInv, IdInv
  <2>5. AttachedInv'
    BY DEF AttachedInv, IdInv, FreshInv
  <2>6. StaysInv'
    BY DEF StaysInv, AttachedInv, IdInv
  <2>7. AddrInv'
    BY DEF AddrInv, IdInv, FreshInv, OwnInv
  <2>8. OwnInv'
    BY DEF OwnInv, AddrInv, IdInv, FreshInv, AttachedInv
  <2>9. CountInv'
    BY DEF CountInv, Count, Others, IdInv, AttachedInv, AddrInv, OwnInv
  <2>10. GoneInv'
    BY DEF GoneInv, Freed, CountInv, Count, Others, IdInv, AttachedInv, AddrInv, OwnInv, FreshInv
  <2>11. QED
    BY <2>2, <2>3, <2>4, <2>5, <2>6, <2>7, <2>8, <2>9, <2>10
<1>6. QED
  BY <1>4, <1>5

LEMMA NextInv == IInv /\ [Next]_vars => IInv'
<1> SUFFICES ASSUME IInv, [Next]_vars PROVE IInv'
  OBVIOUS
<1>1. UNCHANGED vars => IInv'
  BY DEF vars, IInv, Types, IdInv, FreshInv, AttachedInv, StaysInv, AddrInv, OwnInv,
         CountInv, Count, Others, GoneInv, Freed, At, Exists
<1>2. ASSUME NEW c \in Procs, oil_shmInit(c) PROVE IInv'
  BY <1>1, <1>2, AttachSharedInv, CreateInv, AttachCreatedInv DEF oil_shmInit, InitFails
<1>3. ASSUME NEW c \in Procs, oil_shmCleanup(c) PROVE IInv'
  BY <1>3, BeginInv, StatInv, oil_shmDetachInv, RemoveInv, EndOfCleanupInv DEF oil_shmCleanup
<1>4. QED
  BY <1>1, <1>2, <1>3, PublishInv, ExitInv DEF Next

LEMMA Invariance == Spec => []IInv
BY InitInv, NextInv, PTL DEF Spec

-----------------------------------------------------------------------------
(* LastOneOutFrees: the last one to leave a segment frees it, unless       *)
(* others left after it had counted them.                                  *)
THEOREM LastFrees == Spec => []LastOneOutFrees
<1>1. IInv => LastOneOutFrees
  BY DEF IInv, GoneInv, Freed, LastOneOutFrees
<1>2. QED
  BY <1>1, Invariance, PTL

(* InUseIsNotFreed: nobody frees a segment another process was using when  *)
(* it began to leave; only those that have come since may find it marked.  *)
THEOREM UsersKeepIt == Spec => InUseIsNotFreed
<1> DEFINE Keeps == \A p \in Procs : Remove(p) /\ status' # status =>
                      attached[proc[p].id] \subseteq met[p].joined
<1>1. ASSUME IInv, NEW p \in Procs, Remove(p), status' # status
      PROVE  attached[proc[p].id] \subseteq met[p].joined
  <2>1. proc[p].at = "remove" /\ proc[p].nattch <= 1 /\ proc[p].id \in Ids
    BY <1>1 DEF Remove, At, Frees, IInv, IdInv
  <2>2. p \notin attached[proc[p].id]
    BY <1>1, <2>1 DEF IInv, AttachedInv
  <2>3. QED
    BY <1>1, <2>1, <2>2 DEF IInv, CountInv, Count, Others
<1>2. IInv => Keeps
  BY <1>1
<1>3. IInv /\ [Next]_vars => [Keeps]_vars
  BY <1>2
<1>4. QED
  BY <1>3, Invariance, PTL DEF Spec, InUseIsNotFreed
=============================================================================
