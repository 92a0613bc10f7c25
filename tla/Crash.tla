-------------------------------- MODULE Crash --------------------------------
(***************************************************************************)
(* misc_crash.c: a signal handler that dumps the state of the process to a *)
(* file, to stdout and to a device, then gives the signal back to the      *)
(* kernel.  sa_mask is empty: a handler can be interrupted by any signal   *)
(* but its own, and all handlers share gbl_params and gbl_fd.              *)
(*                                                                         *)
(* `stack' holds the running handlers, the last one runs.  What a handler  *)
(* does between two looks at shared state is one step; the lines a stage   *)
(* of the dump prints are one line, its part.  A line is formatted into    *)
(* one static buffer and then written to each destination, whose           *)
(* descriptor is looked up before the write.  The kernel's table of        *)
(* descriptors is explicit, because outputFini closes by number: what a    *)
(* number stands for may have changed since it was stored.                 *)
(***************************************************************************)
EXTENDS Integers, FiniteSets, SequencesExt

CONSTANTS Faults,        \* caught signals raised by a faulting instruction
          Others,        \* caught signals other processes send
          Ignored,       \* those whose default action is to be ignored
          Failures,      \* what may go wrong, each once: see Mishaps
          MaxFailures,   \* bound on what goes wrong
          StackDepths,   \* numbers of frames a backtrace may find
          Room,          \* pointers the block of malloc(0) has room for
          LastFd,        \* descriptors are 0..LastFd
          MaxSignals,    \* bound on signals handled
          MaxNesting     \* bound on handlers running at once

Signals == Faults \cup Others

(* miscCrash_register gets no path or cannot open the device; the file is  *)
(* not opened, a write is short, popen fails, a line is too long.          *)
Mishaps == {"path", "device", "open", "write", "popen", "line"}

ASSUME CrashAssumption ==
  /\ Faults \cap Others = {} /\ Ignored \subseteq Others
  /\ Failures \subseteq Mishaps /\ MaxFailures \in Nat
  /\ StackDepths \subseteq Nat /\ Room \in Nat
  /\ MaxSignals \in Nat /\ MaxNesting \in Nat
  /\ LastFd \in Nat /\ LastFd >= MaxSignals + 4  \* open finds a free descriptor

VARIABLES proc,    \* "new", "running", "killed", or "undefined"
          disp,    \* action set for every caught signal
          chld,    \* action set for SIGCHLD: the application's or the default
          fds,     \* what every descriptor stands for
          stdio,   \* is the FILE stdout open?
          gbl,     \* gbl_fd, and fd and filep of gbl_params
          line,    \* outputLine: a part of a dump
          trace,   \* gbl_backtraceBuffer: the dump whose frames it holds
          stack,   \* the running handlers
          out,     \* the lines written to every sink, in that order
          handled, \* the signals handled so far, for the properties
          failed   \* what has gone wrong so far

ghosts == <<handled, failed>>
vars == <<proc, disp, chld, fds, stdio, gbl, line, trace, stack, out, ghosts>>

Fds == 0..LastFd
Sinks == {"file", "stdout", "device"}
Parts == <<"banner", "ps", "proc", "frames", "end">>
MCRASH_DEFAULT_STACK_DEPTH == 10

Stages == {"outputInit", "banner", "popen", "ps", "restore", "proc", "unwind", "frames", "end",
           "closeFile", "closeStdout", "closeDevice", "forget", "reset", "return"}

\* A dump is known by the number of its handler.
Line == [id : 0..MaxSignals, part : ToSet(Parts), frames : 0..MaxSignals]

(* step: 0 to format, then the destination the line goes to next; dest is  *)
(* its descriptor, passed by value.  saved is outputCmd's saOrg; alone: no *)
(* other handler ran while this one did.                                   *)
Handler == [sig : Signals, at : Stages, step : 0..3, dest : Fds \cup {-1},
            id : 1..MaxSignals, saved : {"app", "default"}, alone : BOOLEAN]

Top == stack[Len(stack)]
Running(stage) == proc = "running" /\ stack # <<>> /\ Top.at = stage
SetTop(handler) == stack' = [stack EXCEPT ![Len(stack)] = handler]
Goto(stage) == SetTop([Top EXCEPT !.at = stage, !.step = 0])
Fails(what) == /\ what \in Failures \ failed /\ Cardinality(failed) < MaxFailures
               /\ failed' = failed \cup {what}
Blocked(s) == \E i \in DOMAIN stack : stack[i].sig = s

IsLowestFree(table, d) == table[d] = "closed" /\ \A e \in 0..(d - 1) : table[e] # "closed"
LowestFree(d) == IsLowestFree(fds, d)
Close(d) == [fds EXCEPT ![d] = "closed"]

(* Definitions whose name ends in _wrong are what the definition that      *)
(* follows would be with a plausible slip; each breaks some property.      *)
-----------------------------------------------------------------------------
(* miscCrash_register, once: what miscCrash_getProcName opens to read the  *)
(* name of the process stays open.  params is zeroed, so that without a    *)
(* path fd is 0.  maxStackDepth is 0 when the buffer is allocated, and     *)
(* gets its default for the backtrace.                                     *)
miscCrash_register ==
  /\ proc = "new" /\ proc' = "running"
  /\ \E stat \in Fds :
       LET named == [fds EXCEPT ![stat] = "stat"]
       IN  /\ LowestFree(stat)
           /\ \/ /\ \E d \in Fds : /\ IsLowestFree(named, d)
                                   /\ fds' = [named EXCEPT ![d] = "device"]
                                   /\ gbl' = [gbl EXCEPT !.fd = d, !.filep = TRUE]
                 /\ UNCHANGED failed
              \/ \E what \in {"path", "device"} :
                   /\ Fails(what)
                   /\ gbl' = [gbl EXCEPT !.fd = IF what = "path" THEN 0 ELSE -1, !.filep = TRUE]
                   /\ fds' = named
  /\ disp' = [s \in Signals |-> "crash_handler"]
  /\ UNCHANGED <<chld, stdio, line, trace, stack, out, handled>>

(* External: the kernel delivers a signal.  A fault that is blocked, or    *)
(* whose action is the default, kills the process.                         *)
Enter(s) ==
  /\ disp[s] = "crash_handler" /\ ~ Blocked(s)
  /\ Len(handled) < MaxSignals /\ Len(stack) < MaxNesting
  /\ handled' = Append(handled, s)
  /\ stack' = Append([i \in DOMAIN stack |-> [stack[i] EXCEPT !.alone = FALSE]],
                     [sig |-> s, at |-> "outputInit", step |-> 0, dest |-> -1,
                      id |-> Len(handled) + 1, saved |-> "default", alone |-> stack = <<>>])
  /\ UNCHANGED <<proc, disp, chld, fds, stdio, gbl, line, trace, out, failed>>

Kill == /\ proc' = "killed"
        /\ UNCHANGED <<disp, chld, fds, stdio, gbl, line, trace, stack, out, ghosts>>

Deliver(s) ==
  /\ proc = "running"
  /\ \/ Enter(s)
     \/ s \in Faults /\ (disp[s] = "default" \/ Blocked(s)) /\ Kill
     \/ s \in Others \ Ignored /\ disp[s] = "default" /\ ~ Blocked(s) /\ Kill

-----------------------------------------------------------------------------
(* outputInit: the file is opened anew; gbl_fd is overwritten, whatever it *)
(* was.                                                                    *)
outputInit ==
  /\ Running("outputInit")
  /\ \/ /\ \E d \in Fds : /\ LowestFree(d) /\ fds' = [fds EXCEPT ![d] = "file"]
                          /\ gbl' = [gbl EXCEPT !.gbl_fd = d]
        /\ UNCHANGED failed
     \/ /\ Fails("open")
        /\ gbl' = [gbl EXCEPT !.gbl_fd = -1]
        /\ UNCHANGED fds
  /\ Goto("banner")
  /\ UNCHANGED <<proc, disp, chld, stdio, line, trace, out, handled>>

DestinationAboveStderr_wrong(step) ==
  <<IF gbl.gbl_fd > 2 THEN gbl.gbl_fd ELSE -1, IF gbl.filep THEN 1 ELSE -1, gbl.fd>>[step]

Destination_wrong(step) ==
  <<gbl.gbl_fd, IF gbl.filep /\ gbl.gbl_fd = -1 THEN 1 ELSE -1, gbl.fd>>[step]

\* Where outputPrintf writes to, in its order: the file, stdout, the device.
Destination(step) == <<gbl.gbl_fd, IF gbl.filep THEN 1 ELSE -1, gbl.fd>>[step]

(* On to the next destination there is, or to the next stage.  That one is *)
(* missing is no step of its own: had a handler run in between, there      *)
(* would be none left.                                                     *)
GoOn(step, next) ==
  LET Skipped(n) == \A d \in (step + 1)..n : Destination(d) = -1
  IN  \/ Skipped(3) /\ Goto(next)
      \/ \E d \in (step + 1)..3 : /\ Skipped(d - 1) /\ Destination(d) # -1
                                 /\ SetTop([Top EXCEPT !.step = d, !.dest = Destination(d)])

(* The lines of the frames show what the backtrace buffer holds.  A line   *)
(* that does not fit the buffer is not written at all; only those of a     *)
(* command or a file can be so long.                                       *)
Format(part, next) ==
  /\ Running(part) /\ Top.step = 0
  /\ \/ /\ line' = [id |-> Top.id, part |-> part,
                    frames |-> IF part = "frames" THEN trace ELSE 0]
        /\ GoOn(0, next)
        /\ UNCHANGED failed
     \/ part \in {"ps", "proc"} /\ Fails("line") /\ Goto(next) /\ UNCHANGED line
  /\ UNCHANGED <<proc, disp, chld, fds, stdio, gbl, trace, out, handled>>

(* blockingWrite or fwrite of the line buffer as it is by now.  A write to *)
(* a closed descriptor fails and is ignored; one to a FILE that has been   *)
(* closed is undefined.  A write may fail or take a part of a line: what   *)
(* is left is given up, or is repeated from the start of the line; either  *)
(* way the line is lost.                                                   *)
WriteLine ==
  LET sink == fds[Top.dest]
  IN  \/ Top.step = 2 /\ ~ stdio /\ proc' = "undefined" /\ UNCHANGED <<out, failed>>
      \/ /\ Top.step = 2 => stdio
         /\ \/ /\ out' = IF sink \in Sinks THEN [out EXCEPT ![sink] = Append(@, line)]
                                              ELSE out
               /\ UNCHANGED failed
            \/ sink \in Sinks /\ Fails("write") /\ UNCHANGED out
         /\ UNCHANGED proc

WriteTo(part, next) ==
  /\ Running(part) /\ Top.step \in 1..3
  /\ WriteLine
  /\ GoOn(Top.step, next)
  /\ UNCHANGED <<disp, chld, fds, stdio, gbl, line, trace, handled>>

outputPrintf(part, next) == Format(part, next) \/ WriteTo(part, next)

outputCmd_wrong ==
  /\ Running("popen")
  /\ chld' = "default"
  /\ SetTop([Top EXCEPT !.at = "ps", !.saved = "default"])
  /\ UNCHANGED <<proc, disp, fds, stdio, gbl, line, trace, out, ghosts>>

(* outputCmd: the action for SIGCHLD is saved and set to the default; when *)
(* popen fails the function returns at once.                               *)
outputCmd ==
  /\ Running("popen")
  /\ chld' = "default"
  /\ \/ /\ SetTop([Top EXCEPT !.at = "ps", !.saved = chld])
        /\ UNCHANGED failed
     \/ Fails("popen") /\ Goto("proc")
  /\ UNCHANGED <<proc, disp, fds, stdio, gbl, line, trace, out, handled>>

outputCmdRestores ==
  /\ Running("restore")
  /\ chld' = Top.saved
  /\ Goto("proc")
  /\ UNCHANGED <<proc, disp, fds, stdio, gbl, line, trace, out, ghosts>>

(* createGlobalBacktrace writes up to maxStackDepth pointers; beyond the   *)
(* block it overwrites the heap, which may or may not be noticed.          *)
createGlobalBacktrace ==
  /\ Running("unwind")
  /\ trace' = Top.id
  /\ \/ UNCHANGED proc
     \/ /\ \E n \in StackDepths : Min({n, MCRASH_DEFAULT_STACK_DEPTH}) > Room
        /\ proc' = "undefined"
  /\ Goto("frames")
  /\ UNCHANGED <<disp, chld, fds, stdio, gbl, line, out, ghosts>>

outputBacktrace == \/ outputPrintf("banner", "popen") \/ outputCmd
                   \/ outputPrintf("ps", "restore") \/ outputCmdRestores
                   \/ outputPrintf("proc", "unwind") \/ createGlobalBacktrace
                   \/ outputPrintf("frames", "end") \/ outputPrintf("end", "closeFile")

CloseFileUnlessNested_wrong ==
  /\ Running("closeFile")
  /\ fds' = IF Len(stack) = 1 /\ gbl.gbl_fd # -1 THEN Close(gbl.gbl_fd) ELSE fds
  /\ Goto(IF Len(stack) = 1 THEN "closeStdout" ELSE "reset")
  /\ UNCHANGED <<proc, disp, chld, stdio, gbl, line, trace, out, ghosts>>

CloseFile_wrong ==
  /\ Running("closeFile")
  /\ Goto("closeStdout")
  /\ UNCHANGED <<proc, disp, chld, fds, stdio, gbl, line, trace, out, ghosts>>

\* outputFini, one call at a time.
CloseFile ==
  /\ Running("closeFile")
  /\ fds' = IF gbl.gbl_fd # -1 THEN Close(gbl.gbl_fd) ELSE fds
  /\ Goto("closeStdout")
  /\ UNCHANGED <<proc, disp, chld, stdio, gbl, line, trace, out, ghosts>>

CloseStdout ==
  /\ Running("closeStdout")
  /\ IF gbl.filep THEN /\ stdio' = FALSE /\ fds' = Close(1)
                       /\ proc' = IF stdio THEN proc ELSE "undefined"
                  ELSE UNCHANGED <<proc, stdio, fds>>
  /\ Goto("closeDevice")
  /\ UNCHANGED <<disp, chld, gbl, line, trace, out, ghosts>>

CloseDevice ==
  /\ Running("closeDevice")
  /\ fds' = IF gbl.fd # -1 THEN Close(gbl.fd) ELSE fds
  /\ Goto("forget")
  /\ UNCHANGED <<proc, disp, chld, stdio, gbl, line, trace, out, ghosts>>

Forget ==
  /\ Running("forget")
  /\ gbl' = [gbl EXCEPT !.gbl_fd = -1, !.fd = -1, !.filep = FALSE]
  /\ Goto("reset")
  /\ UNCHANGED <<proc, disp, chld, fds, stdio, line, trace, out, ghosts>>

outputFini == CloseFile \/ CloseStdout \/ CloseDevice \/ Forget

Reset_wrong ==
  /\ Running("reset")
  /\ Goto("return")
  /\ UNCHANGED <<proc, disp, chld, fds, stdio, gbl, line, trace, out, ghosts>>

ResetIgnores_wrong ==
  /\ Running("reset")
  /\ disp' = [disp EXCEPT ![Top.sig] = "ignore"]
  /\ Goto("return")
  /\ UNCHANGED <<proc, chld, fds, stdio, gbl, line, trace, out, ghosts>>

\* The handler resets its signal to the default and returns; a faulting
\* instruction faults again.
Reset ==
  /\ Running("reset")
  /\ disp' = [disp EXCEPT ![Top.sig] = "default"]
  /\ Goto("return")
  /\ UNCHANGED <<proc, chld, fds, stdio, gbl, line, trace, out, ghosts>>

Return ==
  /\ Running("return")
  /\ proc' = IF Top.sig \in Faults /\ disp[Top.sig] = "default" THEN "killed" ELSE proc
  /\ stack' = Front(stack)
  /\ UNCHANGED <<disp, chld, fds, stdio, gbl, line, trace, out, ghosts>>

crash_handler == outputInit \/ outputBacktrace \/ outputFini \/ Reset \/ Return

Init ==
  /\ proc = "new"
  /\ disp = [s \in Signals |-> "default"]
  /\ chld = "app"
  /\ fds = [d \in Fds |-> IF d < 3 THEN <<"stdin", "stdout", "stderr">>[d + 1] ELSE "closed"]
  /\ stdio = TRUE
  /\ gbl = [gbl_fd |-> -1, fd |-> 0, filep |-> FALSE]
  /\ line = [id |-> 0, part |-> "banner", frames |-> 0] /\ trace = 0
  /\ stack = <<>>
  /\ out = [k \in Sinks |-> <<>>]
  /\ handled = <<>> /\ failed = {}

Next == \/ miscCrash_register
        \/ \E s \in Signals : Deliver(s)
        \/ crash_handler

Spec == Init /\ [][Next]_vars

\* The process is scheduled: the running handler takes its next step.
FairSpec == Spec /\ WF_vars(crash_handler)

-----------------------------------------------------------------------------
\* The variables stay in their types.
TypeOK ==
  /\ proc \in {"new", "running", "killed", "undefined"}
  /\ disp \in [Signals -> {"default", "crash_handler"}]
  /\ chld \in {"app", "default"}
  /\ fds \in [Fds -> Sinks \cup {"stdin", "stderr", "stat", "closed"}]
  /\ stdio \in BOOLEAN
  /\ gbl \in [gbl_fd : Fds \cup {-1}, fd : Fds \cup {-1}, filep : BOOLEAN]
  /\ line \in Line /\ trace \in 0..MaxSignals
  /\ stack \in Seq(Handler) /\ Len(stack) <= MaxNesting
  /\ out \in [Sinks -> Seq(Line)]
  /\ handled \in Seq(Signals) /\ Len(handled) <= MaxSignals
  /\ failed \subseteq Failures

(* The lines of a dump are in a sink in one piece, every part once and in  *)
(* its place, and nowhere else in it.                                      *)
Complete(k, id) ==
  \E n \in 0..(Len(out[k]) - Len(Parts)) :
    /\ \A i \in DOMAIN Parts : out[k][n + i].id = id /\ out[k][n + i].part = Parts[i]
    /\ \A i \in DOMAIN out[k] : out[k][i].id = id => i - n \in DOMAIN Parts

AtEnd == proc = "running" /\ stack # <<>> /\ Top.at = "reset"

(* A dump no other handler interrupted is in the file, whole, in order and *)
(* once: also one that comes after others that were interrupted, when      *)
(* stdout and the device are closed and their numbers are free again, and  *)
(* one of a process without a device.                                      *)
UndisturbedDumpIsInFile ==
  AtEnd /\ Top.alone /\ failed \subseteq {"path", "device"} => Complete("file", Top.id)

(* The first dump, when nothing interrupts it, is whole in every sink the  *)
(* process has: one it could not open takes nothing from the others.       *)
FirstDumpIsEverywhere ==
  AtEnd /\ Top.alone /\ Top.id = 1 /\ failed \subseteq {"path", "device", "open"} =>
    \A k \in Sinks : \/ k = "device" /\ failed \cap {"path", "device"} # {}
                     \/ k = "file" /\ "open" \in failed
                     \/ Complete(k, 1)

(* The frames in a dump are those of its own signal, although every        *)
(* handler stores its backtrace in the same buffer and any other may run   *)
(* between the store and the print: one that has run has closed and        *)
(* forgotten the streams, so that the frames it has overwritten are        *)
(* printed nowhere.                                                        *)
FramesAreOwn ==
  \A k \in Sinks : \A i \in DOMAIN out[k] :
    out[k][i].part = "frames" => out[k][i].frames = out[k][i].id

(* When the last handler has returned, stdout and the device are closed,   *)
(* and handlers that interrupt one another lose less than one file each:   *)
(* what outputInit opened for the last of them is closed.                  *)
StreamsAreClosed ==
  proc = "running" /\ stack = <<>> /\ handled # <<>> =>
    /\ \A d \in Fds : fds[d] \notin {"stdout", "device"}
    /\ Cardinality({d \in Fds : fds[d] = "file"}) < Len(handled)

(* The application gets its SIGCHLD action back when the last handler has  *)
(* returned, however handlers nest around the save and the restore         *)
(* (misc_crash.c:185 "so we should backup the oldone"), unless popen has   *)
(* failed.                                                                 *)
SigchldIsRestored ==
  proc = "running" /\ stack = <<>> /\ "popen" \notin failed => chld = "app"

(* misc_crash.c:338: the action is reset "so that kernel can do it again   *)
(* with a core dump": a process that has faulted does not survive.         *)
FaultIsFatal ==
  (\E i \in DOMAIN stack : stack[i].sig \in Faults) ~> proc # "running"

(* misc_crash.c:155: the streams are forgotten "just in case someone tries *)
(* to call outputPrintf after outputFini": nobody uses a closed stream.    *)
NoUseAfterClose == proc # "undefined"
=============================================================================
