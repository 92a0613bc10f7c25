---------------------------- MODULE ProcEpProofs -----------------------------
(***************************************************************************)
(* For every set of pids: starts that do not overlap leave one instance    *)
(* that has not been sent SIGTERM, and nobody but instances is sent it.    *)
(***************************************************************************)
EXTENDS ProcEp, FiniteSetTheorems, TLAPS

CallType == [at : {"none", "read", "kill", "open", "write"}, pid : Pids \cup {NoPid}]

Types == /\ owner \in [Pids -> {"free", "instance", "stranger"}]
         /\ file \in Pids \cup {Empty}
         /\ call \in [Pids -> CallType]
         /\ last \in Pids \cup {NoPid}
         /\ told \subseteq Running

\* Who is in misc_procEp is an instance, and instances have used their pids.
CallersInv == \A p \in Pids : /\ ~ At(p, "none") => owner[p] = "instance"
                              /\ owner[p] = "instance" => p \in used

(* Without overlaps the last instance started is the only one that can be  *)
(* in misc_procEp, so that nothing gets into the file it has emptied.      *)
AloneInv == "overlap" \notin odd =>
              /\ last # NoPid => owner[last] = "instance" /\ last \notin told
              /\ \A p \in Pids : /\ ~ At(p, "none") => p = last
                                 /\ At(p, "write") => file = Empty

(* Besides the one that starts there is at most the instance in the file   *)
(* that has not been sent SIGTERM; when the start has read the file it is  *)
(* the one it will send it to.                                             *)
OthersInv ==
  odd \cap {"overlap", "failed"} = {} =>
    \A q \in Instances \ told :
      /\ Busy = {} => q = file
      /\ \A p \in Pids :
           /\ At(p, "read") => q \in {p, file}
           /\ At(p, "kill") => q \in {p, file} /\ (q = p \/ call[p].pid = file)
           /\ At(p, "open") \/ At(p, "write") => q = p

\* A pid in the file was an instance's, and a stranger has never been one.
PidsInv ==
  odd \cap {"overlap", "reuse"} = {} =>
    /\ file \in used \cup {Empty}
    /\ \A p \in Pids : /\ call[p].pid \in used \cup {NoPid}
                       /\ owner[p] = "stranger" => p \notin used

IInv == Types /\ CallersInv /\ AloneInv /\ OthersInv /\ PidsInv

\* A pid is neither of the two marks.
LEMMA NoMarks == NoPid \notin Pids /\ Empty \notin Pids /\ NoPid # Empty
BY ProcEpAssumption DEF NoPid, Empty

-----------------------------------------------------------------------------
LEMMA InitInv == Init => IInv
BY DEF Init, IInv, Types, CallType, NoCall, CallersInv, AloneInv, OthersInv, PidsInv, At, Running, Instances

\* A new instance: with the file of the one before, and nobody in the middle.
LEMMA StartInstanceInv ==
  ASSUME IInv, NEW s \in Pids, StartInstance(s) PROVE IInv'
<1> USE NoMarks DEF IInv
<1>1. Types'
  BY DEF Types, CallType, StartInstance, Running
<1>2. CallersInv'
  BY DEF Types, CallType, StartInstance, CallersInv, At, Running
<1>3. AloneInv'
  BY DEF Types, CallType, StartInstance, CallersInv, AloneInv, At, Busy, Running
<1>4. OthersInv'
  BY DEF Types, CallType, StartInstance, CallersInv, AloneInv, OthersInv, At, Busy, Running, Instances
<1>5. PidsInv'
  BY DEF Types, CallType, StartInstance, PidsInv, Running
<1>6. QED
  BY <1>1, <1>2, <1>3, <1>4, <1>5

LEMMA StartStrangerInv ==
  ASSUME IInv, NEW s \in Pids, StartStranger(s) PROVE IInv'
<1> USE NoMarks DEF IInv
<1>1. Types'
  BY DEF Types, StartStranger, Running
<1>2. CallersInv' /\ AloneInv'
  BY DEF Types, CallType, StartStranger, CallersInv, AloneInv, At, Running
<1>3. OthersInv'
  BY DEF Types, CallType, StartStranger, CallersInv, OthersInv, At, Busy, Running, Instances
<1>4. PidsInv'
  BY DEF Types, CallType, StartStranger, PidsInv, Running
<1>5. QED
  BY <1>1, <1>2, <1>3, <1>4

\* A process that ends: the one that starts, the one in the file, or a stranger.
LEMMA ExitInv ==
  ASSUME IInv, NEW s \in Pids, Exit(s) PROVE IInv'
<1> USE NoMarks DEF IInv
<1>1. Types'
  BY DEF Types, CallType, Exit, Ends, NoCall, Running
<1>2. CallersInv' /\ AloneInv'
  BY DEF Types, CallType, Exit, Ends, NoCall, CallersInv, AloneInv, At, Running
<1>3. OthersInv'
  BY DEF Types, CallType, Exit, Ends, NoCall, CallersInv, AloneInv, OthersInv, At, Busy, Running, Instances
<1>4. PidsInv'
  BY DEF Types, CallType, Exit, Ends, NoCall, PidsInv, Running
<1>5. QED
  BY <1>1, <1>2, <1>3, <1>4

LEMMA ReadInv ==
  ASSUME IInv, NEW s \in Pids, Read(s) PROVE IInv'
<1> USE NoMarks DEF IInv
<1>1. Types'
  BY DEF Types, CallType, Read, Goto, Running
<1>2. CallersInv' /\ AloneInv'
  BY DEF Types, CallType, Read, Goto, CallersInv, AloneInv, At, Running
<1>3. OthersInv'
  <2> SUFFICES ASSUME (odd \cap {"overlap", "failed"} = {})', NEW q \in (Instances \ told)'
               PROVE  /\ Busy' = {} => q = file'
                      /\ \A p \in Pids :
                           /\ At(p, "read")' => q \in {p, file'}
                           /\ At(p, "kill")' => q \in {p, file'} /\ (q = p \/ call'[p].pid = file')
                           /\ At(p, "open")' \/ At(p, "write")' => q = p
    BY DEF OthersInv
  <2>1. /\ odd \cap {"overlap", "failed"} = {} /\ At(s, "read")
        /\ q \in Instances \ told /\ q \in Pids /\ file' = file
        /\ call' = [call EXCEPT ![s] = [at |-> "kill",
                                       pid |-> IF file = Empty THEN NoPid ELSE file]]
    BY DEF Read, Instances
  <2>2. q \in {s, file}
    BY <2>1 DEF OthersInv
  <2>3. \A p \in Pids \ {s} : call[p].at = "none"
    BY <2>1 DEF AloneInv, At
  <2>4. call'[s].at = "kill" /\ (file # Empty => call'[s].pid = file)
    BY <2>1 DEF Types
  <2>5. \A p \in Pids \ {s} : call'[p].at = "none"
    BY <2>1, <2>3 DEF Types
  <2> QED BY <2>1, <2>2, <2>4, <2>5 DEF At, Busy
<1>4. PidsInv'
  BY DEF Types, CallType, Read, Goto, PidsInv, Running
<1>5. QED
  BY <1>1, <1>2, <1>3, <1>4

\* SIGTERM is sent to somebody else, or nothing more is said of the instances.
LEMMA KillInv ==
  ASSUME IInv, NEW s \in Pids, Kill(s) PROVE IInv'
<1> USE NoMarks DEF IInv
<1>1. Types'
  BY DEF Types, CallType, Kill, Running
<1>2. CallersInv'
  BY DEF Types, CallType, Kill, CallersInv, At
<1>3. AloneInv'
  <2> SUFFICES ASSUME "overlap" \notin odd'
               PROVE  /\ last # NoPid => owner[last] = "instance" /\ last \notin told'
                      /\ \A p \in Pids : /\ ~ At(p, "none")' => p = last
                                         /\ At(p, "write")' => file = Empty
    BY DEF AloneInv, Kill
  <2>1. "overlap" \notin odd /\ last = s
    BY DEF Kill, AloneInv, At
  <2>2. s \notin told'
    BY <2>1 DEF Kill, IsAnother, AloneInv
  <2> QED BY <2>1, <2>2 DEF Types, CallType, Kill, AloneInv, At
<1>4. OthersInv'
  <2> SUFFICES ASSUME (odd \cap {"overlap", "failed"} = {})', NEW q \in (Instances \ told)'
               PROVE  /\ Busy' = {} => q = file'
                      /\ \A p \in Pids : /\ ~ At(p, "read")' /\ ~ At(p, "kill")'
                                         /\ At(p, "open")' \/ At(p, "write")' => q = p
    BY DEF OthersInv
  <2>1. /\ odd \cap {"overlap", "failed"} = {} /\ At(s, "kill")
        /\ q \in Instances \ told /\ ~ (IsAnother(s) /\ q = call[s].pid)
    BY DEF Kill, Instances, Running
  <2>2. q \in {s, file} /\ (q = s \/ call[s].pid = file) /\ q \in Pids
    BY <2>1 DEF OthersInv, Instances
  <2>3. q = s
    BY <2>1, <2>2 DEF IsAnother
  <2>4. \A p \in Pids : ~ At(p, "none") => p = s
    BY <2>1 DEF AloneInv, At
  <2>5. call'[s].at = "open" /\ \A p \in Pids \ {s} : call'[p].at = "none"
    BY <2>1, <2>4 DEF Types, CallType, Kill, At
  <2> QED BY <2>3, <2>5 DEF At, Busy
<1>5. PidsInv'
  BY DEF Types, CallType, Kill, PidsInv
<1>6. QED
  BY <1>1, <1>2, <1>3, <1>4, <1>5

LEMMA OpenInv ==
  ASSUME IInv, NEW s \in Pids, Open(s) PROVE IInv'
<1> USE NoMarks DEF IInv
<1>1. Types'
  BY DEF Types, CallType, Open, Goto, Running
<1>2. CallersInv' /\ AloneInv'
  BY DEF Types, CallType, Open, Goto, CallersInv, AloneInv, At, Running
<1>3. OthersInv'
  BY DEF Types, CallType, Open, Goto, CallersInv, AloneInv, OthersInv, At, Busy, Running, Instances
<1>4. PidsInv'
  BY DEF Types, CallType, Open, Goto, PidsInv, Running
<1>5. QED
  BY <1>1, <1>2, <1>3, <1>4

\* Nothing has got into the empty file, so that the pid is written whole.
LEMMA WriteInv ==
  ASSUME IInv, NEW s \in Pids, Write(s) PROVE IInv'
<1> USE NoMarks, ProcEpAssumption DEF IInv
<1>0. "overlap" \notin odd => file' = s \/ (file' = file /\ "failed" \in odd')
  BY DEF Types, Write, AloneInv, At, Running
<1>1. Types'
  BY DEF Types, CallType, Write, Goto, Running
<1>2. CallersInv' /\ AloneInv'
  BY DEF Types, CallType, Write, Goto, CallersInv, AloneInv, At, Running
<1>3. OthersInv'
  BY <1>0 DEF Types, CallType, Write, Goto, CallersInv, AloneInv, OthersInv, At, Busy, Running, Instances
<1>4. PidsInv'
  BY <1>0 DEF Types, CallType, Write, Goto, CallersInv, PidsInv, At, Running
<1>5. QED
  BY <1>1, <1>2, <1>3, <1>4

LEMMA NextInv == IInv /\ [Next]_vars => IInv'
<1> SUFFICES ASSUME IInv, [Next]_vars PROVE IInv'
  OBVIOUS
<1>1. CASE UNCHANGED vars
  BY <1>1 DEF vars, IInv, Types, CallersInv, AloneInv, OthersInv, PidsInv, At, Busy, Running, Instances
<1>2. ASSUME NEW p \in Pids, StartInstance(p) PROVE IInv'
  BY <1>2, StartInstanceInv
<1>3. ASSUME NEW p \in Pids, StartStranger(p) PROVE IInv'
  BY <1>3, StartStrangerInv
<1>4. ASSUME NEW p \in Pids, Exit(p) PROVE IInv'
  BY <1>4, ExitInv
<1>5. ASSUME NEW p \in Pids, misc_procEp(p) PROVE IInv'
  BY <1>5, ReadInv, KillInv, OpenInv, WriteInv DEF misc_procEp
<1>6. QED
  BY <1>1, <1>2, <1>3, <1>4, <1>5 DEF Next

LEMMA Invariance == Spec => []IInv
BY InitInv, NextInv, PTL DEF Spec

-----------------------------------------------------------------------------
LEMMA InvImpliesOneInstance == IInv => OneInstance
<1> SUFFICES ASSUME IInv, Busy = {}, odd \cap {"overlap", "failed"} = {}
             PROVE  /\ Cardinality(Instances \ told) <= 1
                    /\ last # NoPid => Instances \ told = {last} /\ file = last
  BY DEF OneInstance
<1>1. Instances \ told \subseteq {file}
  BY DEF IInv, OthersInv
<1>2. Cardinality(Instances \ told) <= 1
  <2>1. IsFiniteSet({file}) /\ Cardinality({file}) = 1
    BY FS_Singleton
  <2>2. Cardinality(Instances \ told) <= Cardinality({file})
    BY <1>1, <2>1, FS_Subset
  <2>3. QED
    BY <2>1, <2>2
<1>3. last # NoPid => last \in Instances \ told
  BY DEF IInv, Types, AloneInv, Instances
<1>4. QED
  BY <1>1, <1>2, <1>3

(* OneInstance: when no two starts overlap and no call of misc_procEp      *)
(* fails, all instances but the one started last have been sent SIGTERM,   *)
(* which not all of them need have obeyed, and the file names that one.    *)
THEOREM OneIsLeft == Spec => []OneInstance
BY Invariance, InvImpliesOneInstance, PTL

(* SparesOthers: a start sends SIGTERM to no other program, as long as     *)
(* starts do not overlap and no other program gets a pid an instance had.  *)
THEOREM StrangersAreSpared == Spec => SparesOthers
<1> DEFINE Spares == \A p \in Pids : Kill(p) /\ odd \cap {"overlap", "reuse"} = {} =>
                       told' \ told \subseteq Instances
<1>1. ASSUME IInv, NEW p \in Pids, Kill(p), odd \cap {"overlap", "reuse"} = {},
             NEW q \in told' \ told
      PROVE  q \in Instances
  <2>1. q = call[p].pid /\ q \in Pids /\ owner[q] # "free" /\ q # NoPid
    BY <1>1, NoMarks DEF Kill, Running
  <2>2. q \in used
    BY <1>1, <2>1 DEF IInv, PidsInv
  <2>3. owner[q] # "stranger" /\ owner[q] \in {"free", "instance", "stranger"}
    BY <1>1, <2>1, <2>2 DEF IInv, PidsInv, Types
  <2>4. QED
    BY <2>1, <2>3 DEF Instances
<1>2. IInv => Spares
  BY <1>1
<1>3. IInv /\ [Next]_vars => [Spares]_vars
  BY <1>2
<1>4. QED
  BY <1>3, Invariance, PTL DEF Spec, SparesOthers
=============================================================================
