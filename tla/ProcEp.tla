-------------------------------- MODULE ProcEp --------------------------------
(***************************************************************************)
(* misc_procEp of misc_util.c: a program that starts sends SIGTERM to the  *)
(* instance the pid file names and writes its own pid there.  Every call   *)
(* of the function is a step and may fail; other instances start, and any  *)
(* process ends, in between, and the kernel gives pids out again, also to  *)
(* programs that have nothing to do with this one.  A process that is sent *)
(* SIGTERM ends at any time after, or never: misc_procEp does not wait.    *)
(***************************************************************************)
EXTENDS Integers, FiniteSets

CONSTANTS Pids,
          Long     \* those of more digits than the others

ASSUME ProcEpAssumption == Pids \subseteq Nat /\ Long \subseteq Pids

NoPid == -1
Empty == -2    \* nothing in the file, or no file

VARIABLES owner,  \* of every pid: "free", "instance" or "stranger"
          file,   \* the number in the pid file
          call,   \* where an instance is in misc_procEp, and its local pid
          told,   \* the processes that were sent SIGTERM and have not ended
          last,   \* the instance started last, unless it has ended, ...
          used,   \* the pids instances have had, ...
          odd     \* and what has gone wrong, for the properties

vars == <<owner, file, call, told, last, used, odd>>

NoCall == [at |-> "none", pid |-> NoPid]
Running == {p \in Pids : owner[p] # "free"}
Instances == {p \in Pids : owner[p] = "instance"}
Busy == {p \in Pids : call[p].at # "none"}
At(p, at) == call[p].at = at
Goto(p, at) == call' = [call EXCEPT ![p].at = at]

(* Definitions whose name ends in _wrong are what the definition that      *)
(* follows would be with a plausible slip; each breaks some property.      *)
-----------------------------------------------------------------------------
\* External: the program starts; it calls misc_procEp first.
StartInstance(p) ==
  /\ owner[p] = "free"
  /\ owner' = [owner EXCEPT ![p] = "instance"]
  /\ call' = [call EXCEPT ![p].at = "read"]
  /\ last' = p /\ used' = used \cup {p}
  /\ odd' = IF Busy = {} THEN odd ELSE odd \cup {"overlap"}
  /\ UNCHANGED <<file, told>>

\* External: another program starts, with a pid that was never or once ours.
StartStranger(p) ==
  /\ owner[p] = "free"
  /\ owner' = [owner EXCEPT ![p] = "stranger"]
  /\ odd' = IF p \in used THEN odd \cup {"reuse"} ELSE odd
  /\ UNCHANGED <<file, call, told, last, used>>

Ends(p) == /\ owner' = [owner EXCEPT ![p] = "free"]
           /\ call' = [call EXCEPT ![p] = NoCall]
           /\ told' = told \ {p}

\* External: a process ends, by itself or because it was sent SIGTERM.
Exit(p) ==
  /\ owner[p] # "free"
  /\ Ends(p)
  /\ last' = IF last = p THEN NoPid ELSE last
  /\ UNCHANGED <<file, used, odd>>

\* fopen with "r" fails also for a file that is there; nobody is killed then.
Read(p) ==
  /\ At(p, "read")
  /\ \/ /\ call' = [call EXCEPT ![p] = [at |-> "kill",
                                         pid |-> IF file = Empty THEN NoPid ELSE file]]
        /\ UNCHANGED odd
     \/ /\ file # Empty
        /\ Goto(p, "kill") /\ odd' = odd \cup {"failed"}
  /\ UNCHANGED <<owner, file, told, last, used>>

IsAnother_wrong(p) == call[p].pid # NoPid

IsAnother(p) == call[p].pid # NoPid /\ call[p].pid # p

\* SIGTERM goes to whoever has the pid by now; that kill fails is not noticed.
Kill(p) ==
  /\ At(p, "kill")
  /\ call' = [call EXCEPT ![p] = [at |-> "open", pid |-> NoPid]]
  /\ \/ /\ told' = IF IsAnother(p) THEN told \cup ({call[p].pid} \cap Running) ELSE told
        /\ UNCHANGED odd
     \/ /\ IsAnother(p) /\ call[p].pid \in Running
        /\ odd' = odd \cup {"failed"} /\ UNCHANGED told
  /\ UNCHANGED <<owner, file, last, used>>

Open_wrong(p) ==
  /\ At(p, "open")
  /\ Goto(p, "write")
  /\ UNCHANGED <<owner, file, told, last, used, odd>>

\* fopen with "w" empties the file, or fails and the pid is not recorded.
Open(p) ==
  /\ At(p, "open")
  /\ \/ file' = Empty /\ Goto(p, "write") /\ UNCHANGED odd
     \/ Goto(p, "none") /\ odd' = odd \cup {"failed"} /\ UNCHANGED file
  /\ UNCHANGED <<owner, told, last, used>>

(* The pid is written to the start of the file: of a longer one that has   *)
(* got there since the open the last digits stay, and the number is one    *)
(* nobody wrote, which may be anyone's pid.  Or fprintf or fclose fails.   *)
Write(p) ==
  /\ At(p, "write")
  /\ \/ /\ file' \in IF file \in Long /\ p \notin Long THEN Pids \ {p, file} ELSE {p}
        /\ UNCHANGED odd
     \/ odd' = odd \cup {"failed"} /\ UNCHANGED file
  /\ Goto(p, "none")
  /\ UNCHANGED <<owner, told, last, used>>

misc_procEp(p) == Read(p) \/ Kill(p) \/ Open(p) \/ Write(p)

Init ==
  /\ owner = [p \in Pids |-> "free"]
  /\ file = Empty
  /\ call = [p \in Pids |-> NoCall]
  /\ told = {}
  /\ last = NoPid /\ used = {} /\ odd = {}

Next == \E p \in Pids : StartInstance(p) \/ StartStranger(p) \/ Exit(p) \/ misc_procEp(p)

Spec == Init /\ [][Next]_vars

-----------------------------------------------------------------------------
(* misc_util.h:8 "kill the process first if it's running, then start and   *)
(* record pid to pidfile": when no two starts overlap and every call       *)
(* succeeds, the instance started last is the only one that has not been   *)
(* sent SIGTERM, and the file names it, whoever ended where, and when a    *)
(* start meets its own pid in the file.  Those that were sent SIGTERM may  *)
(* still run, one or several: misc_procEp returns without waiting for      *)
(* their end, so that "kill first, then start" does not hold.              *)
OneInstance ==
  Busy = {} /\ odd \cap {"overlap", "failed"} = {} =>
    /\ Cardinality(Instances \ told) <= 1
    /\ last # NoPid => Instances \ told = {last} /\ file = last

(* Only instances are sent SIGTERM, as long as starts do not overlap and   *)
(* no other program gets a pid an instance has had.                        *)
SparesOthers ==
  [][\A p \in Pids : Kill(p) /\ odd \cap {"overlap", "reuse"} = {} =>
       told' \ told \subseteq Instances]_vars
=============================================================================
