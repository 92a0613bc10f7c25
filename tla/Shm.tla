---------------------------------- MODULE Shm ----------------------------------
(***************************************************************************)
(* oil_shmInit and oil_shmCleanup of misc_oil.c: several processes share a *)
(* System V segment, and the last one to leave is to free it.  Each system *)
(* call is a step, any other process runs in between, and a process may    *)
(* end at any point.                                                       *)
(*                                                                         *)
(* The kernel, and how a process learns the id another one has created,    *)
(* are external.  As on Linux, a segment marked for destruction lives on,  *)
(* and can be attached, until the last process has left it.                *)
(***************************************************************************)
EXTENDS Integers, FiniteSets

CONSTANTS Procs,
          MaxSegments   \* bound on segments created

UNINITIALIZED_SHM_ID == -1
Ids == 1..MaxSegments

ASSUME ShmAssumption == IsFiniteSet(Procs) /\ MaxSegments \in Nat

VARIABLES status,   \* of every segment: "unused", "live", "marked", "gone"
          attached, \* the processes that are attached to it
          shared,   \* the id the processes hand on
          proc,     \* every process: where it is and its variables
          met       \* who came and went since its IPC_STAT, for the properties

vars == <<status, attached, shared, proc, met>>

\* addr is NULL, -1, or the address of the segment; nattch is shmbuf's.
Process == [at : {"out", "attach", "in", "stat", "detach", "remove", "end"},
            creating : BOOLEAN, id : Ids \cup {UNINITIALIZED_SHM_ID},
            addr : {"NULL", "-1", "segment"}, nattch : 0..Cardinality(Procs)]

Out == [at |-> "out", creating |-> FALSE, id |-> UNINITIALIZED_SHM_ID, addr |-> "NULL",
        nattch |-> 0]
Nobody == [joined |-> {}, left |-> {}]

Exists(id) == status[id] \in {"live", "marked"}
At(p, at) == proc[p].at = at
SetProc(p, record) == proc' = [proc EXCEPT ![p] = record]
Goto(p, at) == SetProc(p, [proc[p] EXCEPT !.at = at])

\* p joins or leaves a segment; the others on their way out of it miss that.
Meets(p, id, what) ==
  met' = [q \in Procs |-> IF q # p /\ proc[q].id = id
                             /\ proc[q].at \in {"detach", "remove", "end"}
                          THEN [met[q] EXCEPT ![what] = @ \cup {p}]
                          ELSE met[q]]

Attach(p, id) == /\ attached' = [attached EXCEPT ![id] = @ \cup {p}]
                 /\ Meets(p, id, "joined")
                 /\ UNCHANGED status

Leave(p, id) ==
  /\ attached' = [attached EXCEPT ![id] = @ \ {p}]
  /\ status' = [status EXCEPT ![id] = IF @ = "marked" /\ attached[id] = {p} THEN "gone" ELSE @]
  /\ Meets(p, id, "left")

(* Definitions whose name ends in _wrong are what the definition that      *)
(* follows would be with a plausible slip; each breaks some property.      *)
-----------------------------------------------------------------------------
\* oil_shmInit with an id.
AttachShared(p) ==
  /\ At(p, "out") /\ shared # UNINITIALIZED_SHM_ID
  /\ Exists(shared)
  /\ Attach(p, shared)
  /\ SetProc(p, [Out EXCEPT !.at = "in", !.id = shared, !.addr = "segment"])
  /\ UNCHANGED shared

(* oil_shmInit without an id: shmget, with IPC_PRIVATE for a key, and then *)
(* shmat.                                                                  *)
Create(p) ==
  /\ At(p, "out")
  /\ \E id \in Ids :
       /\ status[id] = "unused" /\ \A j \in 1..(id - 1) : status[j] # "unused"
       /\ status' = [status EXCEPT ![id] = "live"]
       /\ SetProc(p, [Out EXCEPT !.at = "attach", !.creating = TRUE, !.id = id])
  /\ UNCHANGED <<attached, shared, met>>

(* When shmat fails the segment is cleaned up, but the id and the address  *)
(* -1 are stored and the function returns 0 all the same (EndOfCleanup).   *)
AttachCreated(p) ==
  /\ At(p, "attach")
  /\ \/ /\ Attach(p, proc[p].id)
        /\ SetProc(p, [proc[p] EXCEPT !.at = "in", !.addr = "segment"])
     \/ Goto(p, "stat") /\ UNCHANGED <<status, attached, met>>
  /\ UNCHANGED shared

\* shmget or the first shmat may also fail: -1 is returned and nothing changed.
InitFails(p) == At(p, "out") /\ UNCHANGED vars

oil_shmInit(p) == AttachShared(p) \/ Create(p) \/ AttachCreated(p) \/ InitFails(p)

\* External: the creator hands its id on.
Publish(p) ==
  /\ At(p, "in") /\ proc[p].creating
  /\ shared' = proc[p].id
  /\ SetProc(p, [proc[p] EXCEPT !.creating = FALSE])
  /\ UNCHANGED <<status, attached, met>>

-----------------------------------------------------------------------------
Begin(p) ==
  /\ At(p, "in")
  /\ SetProc(p, [proc[p] EXCEPT !.at = "stat", !.creating = FALSE])
  /\ UNCHANGED <<status, attached, shared, met>>

Stat_wrong(p) ==
  /\ At(p, "stat")
  /\ SetProc(p, [proc[p] EXCEPT !.at = "detach",
                                !.nattch = Cardinality(attached[proc[p].id] \ {p})])
  /\ met' = [met EXCEPT ![p] = Nobody]
  /\ UNCHANGED <<status, attached, shared>>

\* How many are attached; nothing more happens when there is no such segment.
Stat(p) ==
  /\ At(p, "stat")
  /\ IF Exists(proc[p].id)
     THEN SetProc(p, [proc[p] EXCEPT !.at = "detach",
                                     !.nattch = Cardinality(attached[proc[p].id])])
     ELSE Goto(p, "end")
  /\ met' = [met EXCEPT ![p] = Nobody]
  /\ UNCHANGED <<status, attached, shared>>

\* shmdt of NULL is left out, that of -1 fails.
oil_shmDetach(p) ==
  /\ At(p, "detach")
  /\ IF proc[p].addr = "segment" THEN Leave(p, proc[p].id)
                                 ELSE UNCHANGED <<status, attached, met>>
  /\ Goto(p, "remove")
  /\ UNCHANGED shared

Frees_wrong(nattch) == nattch < 1

Frees(nattch) == nattch <= 1

\* IPC_RMID; it fails when the segment is gone.
Remove(p) ==
  LET id == proc[p].id
  IN  /\ At(p, "remove")
      /\ status' = IF Frees(proc[p].nattch) /\ Exists(id)
                   THEN [status EXCEPT ![id] = IF attached[id] = {} THEN "gone" ELSE "marked"]
                   ELSE status
      /\ Goto(p, "end")
      /\ UNCHANGED <<attached, shared, met>>

EndOfCleanup(p) ==
  /\ At(p, "end")
  /\ SetProc(p, IF proc[p].creating THEN [proc[p] EXCEPT !.at = "in", !.addr = "-1"] ELSE Out)
  /\ met' = [met EXCEPT ![p] = Nobody]
  /\ UNCHANGED <<status, attached, shared>>

oil_shmCleanup(p) ==
  Begin(p) \/ Stat(p) \/ oil_shmDetach(p) \/ Remove(p) \/ EndOfCleanup(p)

\* External: a process ends; the kernel detaches it.
Exit(p) ==
  /\ ~ At(p, "out")
  /\ IF \E id \in Ids : p \in attached[id]
     THEN Leave(p, proc[p].id)
     ELSE met' = [met EXCEPT ![p] = Nobody] /\ UNCHANGED <<status, attached>>
  /\ SetProc(p, Out)
  /\ UNCHANGED shared

Init ==
  /\ status = [id \in Ids |-> "unused"]
  /\ attached = [id \in Ids |-> {}]
  /\ shared = UNINITIALIZED_SHM_ID
  /\ proc = [p \in Procs |-> Out]
  /\ met = [p \in Procs |-> Nobody]

Next == \E p \in Procs : oil_shmInit(p) \/ Publish(p) \/ oil_shmCleanup(p) \/ Exit(p)

Spec == Init /\ [][Next]_vars

-----------------------------------------------------------------------------
(* The last one to leave frees the segment, unless others left at the same *)
(* time, that is after its IPC_STAT: when two leave together each may have *)
(* counted the other.  Processes that have just ended do not count.        *)
LastOneOutFrees ==
  \A p \in Procs :
    At(p, "end") /\ attached[proc[p].id] = {} /\ met[p].left = {} =>
      status[proc[p].id] = "gone"

(* misc_oil.c:167 "no other proceeses are still attached, free id": nobody *)
(* frees a segment another one was using when it began to leave; only one  *)
(* that has come since then finds itself in a segment that is marked.      *)
InUseIsNotFreed ==
  [][\A p \in Procs : Remove(p) /\ status' # status =>
       attached[proc[p].id] \subseteq met[p].joined]_vars
=============================================================================
