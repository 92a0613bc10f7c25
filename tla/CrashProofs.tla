----------------------------- MODULE CrashProofs -----------------------------
(***************************************************************************)
(* What Crash keeps to, for any signals, failures, depths of backtraces    *)
(* and nesting: the types, the frames in a dump and the action for         *)
(* SIGCHLD.                                                                *)
(***************************************************************************)
EXTENDS Crash, FiniteSetTheorems, TLAPS

\* The running handler goes on; those below it stay as they are.
Moves ==
  /\ stack' \in Seq(Handler) /\ Len(stack') = Len(stack)
  /\ Top'.id = Top.id /\ Top'.alone = Top.alone
  /\ \A i \in 1..(Len(stack) - 1) : stack'[i] = stack[i]

Reaches(stage) == Moves /\ Top'.at = stage /\ Top'.step = 0

StackTyped == stack \in Seq(Handler) /\ stack # <<>>

LEMMA TopType == ASSUME StackTyped
                 PROVE  /\ Top \in Handler
                        /\ Len(stack) \in Nat \ {0} /\ DOMAIN stack = 1..Len(stack)
  BY DEF StackTyped, Top

LEMMA Below == ASSUME NEW n \in Nat \ {0}, NEW i \in 1..(n - 1)
               PROVE  i \in 1..n /\ i # n
  OBVIOUS

LEMMA SetTopMoves ==
  ASSUME StackTyped, NEW h \in Handler, h.id = Top.id, h.alone = Top.alone, SetTop(h)
  PROVE  Moves /\ Top' = h
<1>1. Len(stack) \in Nat \ {0} /\ DOMAIN stack = 1..Len(stack)
  BY TopType
<1>2. stack' = [stack EXCEPT ![Len(stack)] = h]
  BY DEF SetTop
<1>3. stack' \in Seq(Handler) /\ Len(stack') = Len(stack)
  BY <1>1, <1>2 DEF StackTyped
<1>4. stack'[Len(stack)] = h
  BY <1>1, <1>2
<1>5. ASSUME NEW i \in 1..(Len(stack) - 1) PROVE stack'[i] = stack[i]
  <2>1. i \in 1..Len(stack) /\ i # Len(stack)
    BY <1>1, Below
  <2>2. QED
    BY <1>2, <2>1
<1> QED
  BY <1>3, <1>4, <1>5 DEF Moves, Top

LEMMA GotoReaches ==
  ASSUME StackTyped, NEW stage \in Stages, Goto(stage)
  PROVE  Reaches(stage) /\ Top'.saved = Top.saved
<1>1. PICK t : t = Top
  OBVIOUS
<1>2. PICK g : g = [t EXCEPT !.at = stage, !.step = 0]
  OBVIOUS
<1>3. t \in Handler /\ 0 \in 0..3
  BY TopType, <1>1
<1>4. g \in Handler /\ g.at = stage /\ g.step = 0 /\ g.id = t.id /\ g.alone = t.alone /\ g.saved = t.saved
  BY <1>2, <1>3 DEF Handler
<1>5. SetTop(g)
  BY <1>1, <1>2 DEF Goto
<1>6. Moves /\ Top' = g
  BY <1>1, <1>4, <1>5, SetTopMoves
<1> QED
  BY <1>1, <1>4, <1>6 DEF Reaches

\* The running handler goes on to write to one of the destinations.
Writes == /\ Moves /\ Top'.at = Top.at /\ Top'.step \in 1..3
          /\ \E d \in 1..3 : Destination(d) # -1

LEMMA GoOnMoves ==
  ASSUME StackTyped, NEW k \in 0..3, NEW next \in Stages, GoOn(k, next),
         \A d \in 1..3 : Destination(d) \in Fds \cup {-1}
  PROVE  /\ Top'.saved = Top.saved
         /\ \/ Reaches(next) /\ \A d \in (k + 1)..3 : Destination(d) = -1
            \/ Writes
<1>1. CASE Goto(next) /\ \A d \in (k + 1)..3 : Destination(d) = -1
  BY <1>1, GotoReaches
<1>2. ASSUME NEW d \in (k + 1)..3, Destination(d) # -1,
             SetTop([Top EXCEPT !.step = d, !.dest = Destination(d)])
      PROVE  Top'.saved = Top.saved /\ Writes
  <2>1. PICK t : t = Top
    OBVIOUS
  <2>2. PICK e : e = Destination(d)
    OBVIOUS
  <2>3. d \in 1..3 /\ d \in 0..3
    OBVIOUS
  <2>4. t \in Handler /\ e \in Fds \cup {-1}
    BY TopType, <2>1, <2>2, <2>3
  <2>5. PICK g : g = [t EXCEPT !.step = d, !.dest = e]
    OBVIOUS
  <2>6. g \in Handler /\ g.at = t.at /\ g.step = d /\ g.id = t.id /\ g.alone = t.alone /\ g.saved = t.saved
    BY <2>3, <2>4, <2>5 DEF Handler
  <2>7. SetTop(g)
    BY <1>2, <2>1, <2>2, <2>5
  <2>8. Moves /\ Top' = g
    BY <2>1, <2>6, <2>7, SetTopMoves
  <2> QED
    BY <1>2, <2>1, <2>3, <2>6, <2>8 DEF Writes
<1> QED
  BY <1>1, <1>2 DEF GoOn

-----------------------------------------------------------------------------
LEMMA DestinationType ==
  ASSUME TypeOK PROVE \A d \in 1..3 : Destination(d) \in Fds \cup {-1}
<1>1. gbl.gbl_fd \in Fds \cup {-1} /\ gbl.fd \in Fds \cup {-1}
  BY DEF TypeOK
<1>2. 1 \in Fds
  BY CrashAssumption DEF Fds
<1>3. (IF gbl.filep THEN 1 ELSE -1) \in Fds \cup {-1}
  BY <1>2
<1> QED
  BY <1>1, <1>3 DEF Destination

\* A step of the running handler that calls nothing but GoOn or Goto.
LEMMA StackSteps ==
  ASSUME TypeOK, stack # <<>>, Moves
  PROVE  stack' \in Seq(Handler) /\ Len(stack') <= MaxNesting
  BY DEF TypeOK, Moves

LEMMA IsRunning ==
  ASSUME TypeOK, NEW stage, Running(stage)
  PROVE  StackTyped /\ Top \in Handler /\ Top.at = stage /\ stack # <<>> /\ proc = "running"
  BY TopType DEF TypeOK, Running, StackTyped

\* Registering opens one descriptor that stays, and d for the device, if any.
LEMMA Registers ==
  ASSUME TypeOK, miscCrash_register
  PROVE  \E stat \in Fds, d \in Fds \cup {-1} :
           /\ fds[stat] = "closed" /\ d # stat /\ (d # -1 => fds[d] = "closed")
           /\ fds' \in [Fds -> Sinks \cup {"stdin", "stderr", "stat", "closed"}]
           /\ \A e \in Fds : fds'[e] = IF e = stat THEN "stat"
                                       ELSE IF e = d THEN "device" ELSE fds[e]
           /\ gbl'.filep /\ gbl'.gbl_fd = gbl.gbl_fd
           /\ d # -1 => gbl'.fd = d /\ failed' = failed
           /\ d = -1 => gbl'.fd \in {0, -1} /\ \E what \in {"path", "device"} : Fails(what)
<1>0. PICK stat \in Fds : \E named :
        /\ named = [fds EXCEPT ![stat] = "stat"] /\ LowestFree(stat)
        /\ \/ /\ \E d \in Fds : /\ IsLowestFree(named, d)
                                /\ fds' = [named EXCEPT ![d] = "device"]
                                /\ gbl' = [gbl EXCEPT !.fd = d, !.filep = TRUE]
              /\ UNCHANGED failed
           \/ \E what \in {"path", "device"} :
                /\ Fails(what)
                /\ gbl' = [gbl EXCEPT !.fd = IF what = "path" THEN 0 ELSE -1, !.filep = TRUE]
                /\ fds' = named
  BY DEF miscCrash_register
<1>1. PICK named :
        /\ named = [fds EXCEPT ![stat] = "stat"] /\ LowestFree(stat)
        /\ \/ /\ \E d \in Fds : /\ IsLowestFree(named, d)
                                /\ fds' = [named EXCEPT ![d] = "device"]
                                /\ gbl' = [gbl EXCEPT !.fd = d, !.filep = TRUE]
              /\ UNCHANGED failed
           \/ \E what \in {"path", "device"} :
                /\ Fails(what)
                /\ gbl' = [gbl EXCEPT !.fd = IF what = "path" THEN 0 ELSE -1, !.filep = TRUE]
                /\ fds' = named
  BY <1>0
<1>2. /\ fds[stat] = "closed" /\ -1 \notin Fds /\ 0 \in Fds
      /\ named \in [Fds -> Sinks \cup {"stdin", "stderr", "stat", "closed"}]
      /\ \A e \in Fds : named[e] = IF e = stat THEN "stat" ELSE fds[e]
  <2>1. -1 \notin Fds /\ 0 \in Fds
    BY CrashAssumption DEF Fds
  <2>2. fds[stat] = "closed"
    BY <1>1 DEF LowestFree, IsLowestFree
  <2>3. fds \in [Fds -> Sinks \cup {"stdin", "stderr", "stat", "closed"}]
    BY DEF TypeOK
  <2>4. named = [fds EXCEPT ![stat] = "stat"]
    BY <1>1
  <2>5. /\ named \in [Fds -> Sinks \cup {"stdin", "stderr", "stat", "closed"}]
        /\ \A e \in Fds : named[e] = IF e = stat THEN "stat" ELSE fds[e]
    BY <2>3, <2>4
  <2> QED BY <2>1, <2>2, <2>5
<1>3. ASSUME NEW d \in Fds, IsLowestFree(named, d), fds' = [named EXCEPT ![d] = "device"],
             gbl' = [gbl EXCEPT !.fd = d, !.filep = TRUE], UNCHANGED failed
      PROVE  /\ d # stat /\ fds[d] = "closed" /\ d # -1
             /\ fds' \in [Fds -> Sinks \cup {"stdin", "stderr", "stat", "closed"}]
             /\ \A e \in Fds : fds'[e] = IF e = stat THEN "stat"
                                         ELSE IF e = d THEN "device" ELSE fds[e]
             /\ gbl'.filep /\ gbl'.gbl_fd = gbl.gbl_fd /\ gbl'.fd = d
  <2>1. d # stat /\ fds[d] = "closed" /\ d # -1
    BY <1>2, <1>3 DEF IsLowestFree
  <2>2. \A e \in Fds : fds'[e] = IF e = d THEN "device" ELSE named[e]
    BY <1>2, <1>3
  <2>3. fds' \in [Fds -> Sinks \cup {"stdin", "stderr", "stat", "closed"}]
    BY <1>2, <1>3 DEF Sinks
  <2>4. gbl'.filep /\ gbl'.gbl_fd = gbl.gbl_fd /\ gbl'.fd = d
    BY <1>3 DEF TypeOK
  <2> QED BY <1>2, <2>1, <2>2, <2>3, <2>4
<1>4. ASSUME NEW what \in {"path", "device"}, Fails(what), fds' = named,
             gbl' = [gbl EXCEPT !.fd = IF what = "path" THEN 0 ELSE -1, !.filep = TRUE]
      PROVE  /\ fds' \in [Fds -> Sinks \cup {"stdin", "stderr", "stat", "closed"}]
             /\ \A e \in Fds : fds'[e] = IF e = stat THEN "stat"
                                         ELSE IF e = -1 THEN "device" ELSE fds[e]
             /\ gbl'.filep /\ gbl'.gbl_fd = gbl.gbl_fd /\ gbl'.fd \in {0, -1}
  <2>1. gbl'.filep /\ gbl'.gbl_fd = gbl.gbl_fd /\ gbl'.fd \in {0, -1}
    BY <1>4 DEF TypeOK
  <2> QED BY <1>2, <1>4, <2>1
<1> QED
  <2>1. CASE \E d \in Fds : /\ IsLowestFree(named, d)
                           /\ fds' = [named EXCEPT ![d] = "device"]
                           /\ gbl' = [gbl EXCEPT !.fd = d, !.filep = TRUE]
                           /\ UNCHANGED failed
    <3>1. PICK d \in Fds : /\ IsLowestFree(named, d)
                           /\ fds' = [named EXCEPT ![d] = "device"]
                           /\ gbl' = [gbl EXCEPT !.fd = d, !.filep = TRUE]
                           /\ failed' = failed
      BY <2>1
    <3>2. /\ d # stat /\ fds[d] = "closed" /\ d # -1
          /\ fds' \in [Fds -> Sinks \cup {"stdin", "stderr", "stat", "closed"}]
          /\ \A e \in Fds : fds'[e] = IF e = stat THEN "stat"
                                      ELSE IF e = d THEN "device" ELSE fds[e]
          /\ gbl'.filep /\ gbl'.gbl_fd = gbl.gbl_fd /\ gbl'.fd = d
      BY <1>3, <3>1
    <3> QED BY <1>2, <3>1, <3>2
  <2>2. CASE \E what \in {"path", "device"} :
                /\ Fails(what)
                /\ gbl' = [gbl EXCEPT !.fd = IF what = "path" THEN 0 ELSE -1, !.filep = TRUE]
                /\ fds' = named
    <3>1. -1 # stat
      BY <1>2
    <3> QED BY <1>2, <1>4, <2>2, <3>1
  <2> QED BY <1>1, <2>1, <2>2

LEMMA RegisterType == ASSUME TypeOK, miscCrash_register PROVE TypeOK'
<1>1. gbl' \in [gbl_fd : Fds \cup {-1}, fd : Fds \cup {-1}, filep : BOOLEAN]
  <2>1. 0 \in Fds
    BY CrashAssumption DEF Fds
  <2> QED
    BY <2>1 DEF TypeOK, miscCrash_register
<1>2. fds' \in [Fds -> Sinks \cup {"stdin", "stderr", "stat", "closed"}]
  BY Registers
<1>3. failed' \subseteq Failures
  BY Registers DEF TypeOK, Fails
<1> QED
  BY <1>1, <1>2, <1>3 DEF TypeOK, miscCrash_register

LEMMA EnterType == ASSUME TypeOK, NEW s \in Signals, Enter(s) PROVE TypeOK'
<1> DEFINE n == Len(handled)
           h == [sig |-> s, at |-> "outputInit", step |-> 0, dest |-> -1,
                 id |-> n + 1, saved |-> "default", alone |-> stack = <<>>]
           below == [i \in DOMAIN stack |-> [stack[i] EXCEPT !.alone = FALSE]]
<1>1. n \in Nat /\ n < MaxSignals /\ MaxSignals \in Nat /\ Len(stack) \in Nat /\ Len(stack) < MaxNesting
      /\ MaxNesting \in Nat
  BY CrashAssumption DEF TypeOK, Enter
<1>2. n + 1 \in 1..MaxSignals /\ n + 1 <= MaxSignals
  BY <1>1
<1>3. h \in Handler
  <2>1. 0 \in 0..3
    OBVIOUS
  <2> QED
    BY <1>2, <2>1 DEF Handler, Stages
<1>4. below \in Seq(Handler) /\ Len(below) = Len(stack)
  <2>1. ASSUME NEW i \in DOMAIN stack PROVE [stack[i] EXCEPT !.alone = FALSE] \in Handler
    <3>1. PICK t : t = stack[i]
      OBVIOUS
    <3>2. t \in Handler
      BY <3>1 DEF TypeOK
    <3>3. [t EXCEPT !.alone = FALSE] \in Handler
      BY <3>2 DEF Handler
    <3> QED
      BY <3>1, <3>3
  <2>2. DOMAIN stack = 1..Len(stack)
    BY DEF TypeOK
  <2> QED
    BY <2>1, <2>2, <1>1
<1>5. stack' = Append(below, h) /\ handled' = Append(handled, s)
  BY DEF Enter
<1> HIDE DEF h, below
<1>6. stack' \in Seq(Handler) /\ Len(stack') <= MaxNesting
  BY <1>1, <1>3, <1>4, <1>5
<1>7. handled' \in Seq(Signals) /\ Len(handled') <= MaxSignals
  BY <1>1, <1>2, <1>5 DEF TypeOK
<1> QED
  BY <1>6, <1>7 DEF TypeOK, Enter

LEMMA DeliverType == ASSUME TypeOK, NEW s \in Signals, Deliver(s) PROVE TypeOK'
<1>1. CASE Enter(s)
  BY <1>1, EnterType
<1>2. CASE Kill
  BY <1>2 DEF TypeOK, Kill, ghosts
<1> QED
  BY <1>1, <1>2 DEF Deliver

LEMMA OutputInitType == ASSUME TypeOK, outputInit PROVE TypeOK'
<1>1. StackTyped /\ stack # <<>>
  BY IsRunning DEF outputInit
<1>2. stack' \in Seq(Handler) /\ Len(stack') <= MaxNesting
  BY <1>1, GotoReaches, StackSteps, "banner" \in Stages DEF outputInit, Reaches, Stages
<1>3. gbl' \in [gbl_fd : Fds \cup {-1}, fd : Fds \cup {-1}, filep : BOOLEAN]
  BY DEF TypeOK, outputInit
<1>4. fds' \in [Fds -> Sinks \cup {"stdin", "stderr", "stat", "closed"}]
  BY DEF TypeOK, outputInit, Sinks
<1>5. failed' \subseteq Failures
  BY DEF TypeOK, outputInit, Fails
<1> QED
  BY <1>2, <1>3, <1>4, <1>5 DEF TypeOK, outputInit

LEMMA FormatType ==
  ASSUME TypeOK, NEW part \in ToSet(Parts), NEW next \in Stages, Format(part, next)
  PROVE  TypeOK'
<1>1. StackTyped /\ stack # <<>> /\ Top \in Handler
  BY IsRunning DEF Format
<1>2. stack' \in Seq(Handler) /\ Len(stack') <= MaxNesting
  <2>1. 0 \in 0..3
    OBVIOUS
  <2>2. CASE GoOn(0, next)
    BY <1>1, <2>1, <2>2, GoOnMoves, DestinationType, StackSteps DEF Reaches, Writes
  <2>3. CASE Goto(next)
    BY <1>1, <2>3, GotoReaches, StackSteps DEF Reaches
  <2> QED
    BY <2>2, <2>3 DEF Format
<1>3. line' \in Line
  <2>1. Top.id \in 0..MaxSignals /\ trace \in 0..MaxSignals /\ 0 \in 0..MaxSignals
    BY <1>1, CrashAssumption DEF Handler, TypeOK
  <2> QED
    BY <2>1 DEF Format, Line, TypeOK
<1>4. failed' \subseteq Failures
  BY DEF TypeOK, Format, Fails
<1> QED
  BY <1>2, <1>3, <1>4 DEF TypeOK, Format

LEMMA WriteToType ==
  ASSUME TypeOK, NEW part, NEW next \in Stages, WriteTo(part, next)
  PROVE  TypeOK'
<1>1. StackTyped /\ stack # <<>> /\ Top \in Handler
  BY IsRunning DEF WriteTo
<1>2. stack' \in Seq(Handler) /\ Len(stack') <= MaxNesting
  <2>1. Top.step \in 0..3 /\ GoOn(Top.step, next)
    BY <1>1 DEF WriteTo, Handler
  <2> QED
    BY <1>1, <2>1, GoOnMoves, DestinationType, StackSteps DEF Reaches, Writes
<1>3. out' \in [Sinks -> Seq(Line)] /\ proc' \in {"running", "undefined"} /\ failed' \subseteq Failures
  <2>1. ASSUME NEW k \in Sinks, out' = [out EXCEPT ![k] = Append(@, line)]
        PROVE  out' \in [Sinks -> Seq(Line)]
    <3>1. Append(out[k], line) \in Seq(Line)
      BY DEF TypeOK
    <3> QED
      BY <2>1, <3>1 DEF TypeOK
  <2>2. WriteLine /\ proc = "running"
    BY DEF WriteTo, Running
  <2>3. \/ out' = out
        \/ \E k \in Sinks : out' = [out EXCEPT ![k] = Append(@, line)]
    BY <2>2 DEF WriteLine
  <2>4. out' \in [Sinks -> Seq(Line)]
    BY <2>1, <2>3 DEF TypeOK
  <2> QED
    BY <2>2, <2>4 DEF WriteLine, Fails, TypeOK
<1> QED
  BY <1>2, <1>3 DEF TypeOK, WriteTo

LEMMA CmdType == ASSUME TypeOK, outputCmd \/ outputCmdRestores PROVE TypeOK'
<1>1. StackTyped /\ stack # <<>> /\ Top \in Handler
  BY IsRunning DEF outputCmd, outputCmdRestores
<1>2. stack' \in Seq(Handler) /\ Len(stack') <= MaxNesting
  <2>1. CASE Goto("proc")
    BY <1>1, <2>1, GotoReaches, StackSteps, "proc" \in Stages DEF Reaches, Stages
  <2>2. CASE SetTop([Top EXCEPT !.at = "ps", !.saved = chld])
    <3>1. PICK t : t = Top
      OBVIOUS
    <3>2. t \in Handler /\ chld \in {"app", "default"}
      BY <1>1, <3>1 DEF TypeOK
    <3>3. PICK g : g = [t EXCEPT !.at = "ps", !.saved = chld]
      OBVIOUS
    <3>4. g \in Handler /\ g.id = t.id /\ g.alone = t.alone
      BY <3>2, <3>3 DEF Handler, Stages
    <3> QED
      BY <1>1, <2>2, <3>1, <3>3, <3>4, SetTopMoves, StackSteps
  <2> QED
    BY <2>1, <2>2 DEF outputCmd, outputCmdRestores
<1>3. chld' \in {"app", "default"} /\ failed' \subseteq Failures
  BY <1>1 DEF outputCmd, outputCmdRestores, ghosts, Handler, TypeOK, Fails
<1> QED
  BY <1>2, <1>3 DEF TypeOK, outputCmd, outputCmdRestores, ghosts

LEMMA BacktraceType == ASSUME TypeOK, createGlobalBacktrace PROVE TypeOK'
<1>1. StackTyped /\ stack # <<>> /\ Top \in Handler
  BY IsRunning DEF createGlobalBacktrace
<1>2. stack' \in Seq(Handler) /\ Len(stack') <= MaxNesting
  BY <1>1, GotoReaches, StackSteps, "frames" \in Stages DEF createGlobalBacktrace, Reaches, Stages
<1>3. trace' \in 0..MaxSignals
  BY <1>1 DEF createGlobalBacktrace, Handler
<1> QED
  BY <1>2, <1>3 DEF TypeOK, createGlobalBacktrace, ghosts

LEMMA OutputFiniType == ASSUME TypeOK, outputFini \/ Reset PROVE TypeOK'
<1>1. StackTyped /\ stack # <<>> /\ Top \in Handler
  BY IsRunning DEF outputFini, CloseFile, CloseStdout, CloseDevice, Forget, Reset
<1>2. stack' \in Seq(Handler) /\ Len(stack') <= MaxNesting
  <2>1. \E stage \in Stages : Goto(stage)
    BY DEF outputFini, CloseFile, CloseStdout, CloseDevice, Forget, Reset, Stages
  <2> QED
    BY <1>1, <2>1, GotoReaches, StackSteps DEF Reaches
<1>3. fds' \in [Fds -> Sinks \cup {"stdin", "stderr", "stat", "closed"}]
  BY DEF TypeOK, outputFini, CloseFile, CloseStdout, CloseDevice, Forget, Reset, Close
<1>4. gbl' \in [gbl_fd : Fds \cup {-1}, fd : Fds \cup {-1}, filep : BOOLEAN]
  BY DEF TypeOK, outputFini, CloseFile, CloseStdout, CloseDevice, Forget, Reset
<1>5. disp' \in [Signals -> {"default", "crash_handler"}]
  BY DEF TypeOK, outputFini, CloseFile, CloseStdout, CloseDevice, Forget, Reset
<1> QED
  BY <1>2, <1>3, <1>4, <1>5
  DEF TypeOK, outputFini, CloseFile, CloseStdout, CloseDevice, Forget, Reset, ghosts

LEMMA ReturnType == ASSUME TypeOK, Return PROVE TypeOK'
<1>1. StackTyped
  BY IsRunning DEF Return
<1>2. stack' \in Seq(Handler) /\ Len(stack') <= MaxNesting
  BY <1>1, CrashAssumption DEF TypeOK, Return, Front, StackTyped
<1> QED
  BY <1>2 DEF TypeOK, Return, ghosts

LEMMA TypeInit == Init => TypeOK
<1> SUFFICES ASSUME Init PROVE TypeOK
  OBVIOUS
<1>1. line \in Line /\ trace \in 0..MaxSignals
  BY CrashAssumption DEF Init, Line, ToSet, Parts
<1>2. fds \in [Fds -> Sinks \cup {"stdin", "stderr", "stat", "closed"}]
  <2>1. ASSUME NEW d \in Fds, d < 3
        PROVE  <<"stdin", "stdout", "stderr">>[d + 1] \in {"stdin", "stdout", "stderr"}
    <3>1. d = 0 \/ d = 1 \/ d = 2
      BY <2>1, CrashAssumption DEF Fds
    <3> QED
      BY <3>1
  <2> QED
    BY <2>1 DEF Init, Sinks
<1>3. gbl \in [gbl_fd : Fds \cup {-1}, fd : Fds \cup {-1}, filep : BOOLEAN]
  BY CrashAssumption DEF Init, Fds
<1>4. stack \in Seq(Handler) /\ Len(stack) <= MaxNesting
  BY CrashAssumption DEF Init
<1>5. handled \in Seq(Signals) /\ Len(handled) <= MaxSignals
  BY CrashAssumption DEF Init
<1> QED
  BY <1>1, <1>2, <1>3, <1>4, <1>5 DEF Init, TypeOK

\* The parts of a dump and the stages that print them.
LEMMA PartsType ==
  /\ ToSet(Parts) = {"banner", "ps", "proc", "frames", "end"}
  /\ {"popen", "restore", "unwind", "end", "closeFile"} \subseteq Stages
<1>1. DOMAIN Parts = 1..5
  BY DEF Parts
<1> QED
  BY <1>1 DEF Parts, ToSet, Stages

LEMMA PrintSteps ==
  ASSUME outputBacktrace
  PROVE  \/ \E part \in ToSet(Parts) :
              \E next \in Stages \cap {"popen", "restore", "unwind", "end", "closeFile"} :
                /\ outputPrintf(part, next)
                /\ part = "frames" => next = "end"
                /\ part = "ps" <=> next = "restore"
         \/ outputCmd \/ outputCmdRestores \/ createGlobalBacktrace
  BY PartsType DEF outputBacktrace

LEMMA TypeStep == TypeOK /\ [Next]_vars => TypeOK'
<1> SUFFICES ASSUME TypeOK, [Next]_vars PROVE TypeOK'
  OBVIOUS
<1>1. CASE miscCrash_register
  BY <1>1, RegisterType
<1>2. CASE \E s \in Signals : Deliver(s)
  BY <1>2, DeliverType
<1>3. CASE outputInit
  BY <1>3, OutputInitType
<1>4. CASE outputBacktrace
  <2>1. ASSUME NEW part \in ToSet(Parts), NEW next \in Stages, outputPrintf(part, next)
        PROVE  TypeOK'
    BY <2>1, FormatType, WriteToType DEF outputPrintf
  <2> QED
    BY <1>4, <2>1, PrintSteps, CmdType, BacktraceType
<1>5. CASE outputFini \/ Reset
  BY <1>5, OutputFiniType
<1>6. CASE Return
  BY <1>6, ReturnType
<1>7. CASE UNCHANGED vars
  BY <1>7 DEF TypeOK, vars, ghosts
<1> QED
  BY <1>1, <1>2, <1>3, <1>4, <1>5, <1>6, <1>7 DEF Next, crash_handler

(* Types: among others every descriptor number, the index of every handler *)
(* and every line of a dump is one there can be, however handlers nest and *)
(* whatever fails.                                                         *)
THEOREM TypeCorrect == Spec => []TypeOK
<1> QED
  BY TypeInit, TypeStep, PTL DEF Spec

-----------------------------------------------------------------------------
(* The frames of a dump.  While the streams are there, the buffer holds    *)
(* the frames of the running handler from its unwind to its print: a       *)
(* handler that has interrupted it in between has forgotten the streams.   *)
(* A line with the frames of another dump may be formatted, but is         *)
(* replaced before anything is written again.                              *)
NoStreams == gbl.gbl_fd = -1 /\ gbl.fd = -1 /\ ~ gbl.filep
BadLine == line.part = "frames" /\ line.frames # line.id

TopInv ==
  /\ Top.at \in {"reset", "return"} => NoStreams
  /\ Top.at = "frames" /\ Top.step = 0 => trace = Top.id \/ NoStreams
  /\ BadLine => Top.step = 0 /\ Top.at \in {"outputInit", "banner", "end"}

FramesInv == /\ proc = "new" => stack = <<>>
             /\ stack # <<>> => TopInv
             /\ FramesAreOwn

LEMMA EnterTop ==
  ASSUME TypeOK, NEW s \in Signals, Enter(s)
  PROVE  /\ Len(stack') = Len(stack) + 1 /\ stack' # <<>>
         /\ Top'.at = "outputInit" /\ Top'.step = 0
         /\ \A i \in 1..Len(stack) : stack'[i] = [stack[i] EXCEPT !.alone = FALSE]
<1> DEFINE h == [sig |-> s, at |-> "outputInit", step |-> 0, dest |-> -1,
                 id |-> Len(handled) + 1, saved |-> "default", alone |-> stack = <<>>]
           below == [i \in DOMAIN stack |-> [stack[i] EXCEPT !.alone = FALSE]]
<1>1. Len(stack) \in Nat /\ DOMAIN stack = 1..Len(stack)
  BY DEF TypeOK
<1>2. \A i \in 1..Len(stack) : below[i] = [stack[i] EXCEPT !.alone = FALSE]
  BY <1>1
<1>3. DOMAIN below = 1..Len(stack)
  BY <1>1
<1>4. stack' = Append(below, h)
  BY DEF Enter
<1>5. h.at = "outputInit" /\ h.step = 0
  OBVIOUS
<1> HIDE DEF h, below
<1>6. Len(below) = Len(stack)
  BY <1>1, <1>3
<1>7. Len(stack') = Len(stack) + 1 /\ stack'[Len(stack) + 1] = h
      /\ \A i \in 1..Len(stack) : stack'[i] = below[i]
  BY <1>1, <1>3, <1>4, <1>6
<1>8. stack' # <<>>
  BY <1>1, <1>7
<1> QED
  BY <1>2, <1>5, <1>7, <1>8 DEF Top

\* What does not touch the lines written and the line buffer.
Silent == UNCHANGED <<line, out>>

LEMMA SilentKeeps ==
  ASSUME FramesInv, Silent, proc' # "new", stack' # <<>> => TopInv'
  PROVE  FramesInv'
  BY DEF FramesInv, Silent, FramesAreOwn

LEMMA FramesFormat ==
  ASSUME TypeOK, FramesInv, NEW part \in ToSet(Parts),
         NEW next \in Stages \cap {"popen", "restore", "unwind", "end", "closeFile"},
         part = "frames" => next = "end", Format(part, next)
  PROVE  FramesInv'
<1>1. StackTyped /\ stack # <<>> /\ Top \in Handler /\ Top.at = part /\ proc = "running"
  BY IsRunning DEF Format
<1>2. FramesAreOwn' /\ proc' = "running"
  BY <1>1 DEF Format, FramesInv, FramesAreOwn
<1>3. CASE Goto(next) /\ UNCHANGED line /\ part \in {"ps", "proc"}
  <2>1. Top'.at = next /\ ~ BadLine
    BY <1>1, <1>3, GotoReaches DEF Reaches, FramesInv, TopInv
  <2>2. TopInv'
    BY <1>3, <2>1 DEF TopInv, BadLine
  <2> QED
    BY <1>2, <2>2 DEF FramesInv
<1>4. CASE GoOn(0, next) /\ line' = [id |-> Top.id, part |-> part,
                                     frames |-> IF part = "frames" THEN trace ELSE 0]
  <2>1. 0 \in 0..3 /\ \A d \in 1..3 : d \in (0 + 1)..3
    OBVIOUS
  <2>2. Reaches(next) \/ Writes
    BY <1>1, <1>4, <2>1, GoOnMoves, DestinationType
  <2>3. BadLine' => part = "frames" /\ trace # Top.id
    BY <1>4 DEF BadLine
  <2>4. CASE Reaches(next)
    <3>1. Top'.at = next /\ Top'.step = 0
      BY <2>4 DEF Reaches
    <3>2. TopInv'
      BY <2>3, <3>1 DEF TopInv
    <3> QED
      BY <1>2, <3>2 DEF FramesInv
  <2>5. CASE Writes
    <3>1. ~ NoStreams
      BY <2>5 DEF Writes, NoStreams, Destination
    <3>2. trace = Top.id \/ part # "frames"
      BY <1>1, <3>1 DEF FramesInv, TopInv, Format
    <3>3. Top'.at = part /\ Top'.step # 0
      BY <1>1, <2>5 DEF Writes
    <3>4. TopInv'
      BY <2>3, <3>2, <3>3, PartsType DEF TopInv
    <3> QED
      BY <1>2, <3>4 DEF FramesInv
  <2> QED
    BY <2>2, <2>4, <2>5
<1> QED
  BY <1>3, <1>4 DEF Format

LEMMA FramesWrite ==
  ASSUME TypeOK, FramesInv, NEW part \in ToSet(Parts),
         NEW next \in Stages \cap {"popen", "restore", "unwind", "end", "closeFile"},
         WriteTo(part, next)
  PROVE  FramesInv'
<1>1. StackTyped /\ stack # <<>> /\ Top \in Handler /\ Top.at = part /\ proc = "running"
  BY IsRunning DEF WriteTo
<1>2. Top.step \in 1..3 /\ Top.step # 0 /\ Top.step \in 0..3
  BY DEF WriteTo
<1>3. ~ BadLine /\ line' = line
  BY <1>1, <1>2 DEF FramesInv, TopInv, WriteTo
<1>4. proc' # "new"
  BY <1>1 DEF WriteTo, WriteLine
<1>5. FramesAreOwn'
  <2>1. ASSUME NEW s \in Sinks, out' = [out EXCEPT ![s] = Append(@, line)]
        PROVE  FramesAreOwn'
    <3>1. out[s] \in Seq(Line) /\ s \in DOMAIN out /\ DOMAIN out = Sinks
      BY DEF TypeOK
    <3>2. ASSUME NEW k \in Sinks, NEW i \in DOMAIN out'[k], out'[k][i].part = "frames"
          PROVE  out'[k][i].frames = out'[k][i].id
      <4>1. CASE k # s
        BY <2>1, <3>1, <3>2, <4>1 DEF FramesInv, FramesAreOwn
      <4>2. CASE k = s
        <5>1. out'[k] = Append(out[s], line)
          BY <2>1, <3>1, <4>2
        <5>2. out'[k][i] = line \/ (i \in DOMAIN out[s] /\ out'[k][i] = out[s][i])
          BY <3>1, <5>1
        <5> QED
          BY <1>3, <3>2, <5>2 DEF FramesInv, FramesAreOwn, BadLine
      <4> QED
        BY <4>1, <4>2
    <3> QED
      BY <3>2 DEF FramesAreOwn
  <2>2. \/ out' = out
        \/ \E s \in Sinks : out' = [out EXCEPT ![s] = Append(@, line)]
    BY DEF WriteTo, WriteLine
  <2> QED
    BY <2>1, <2>2 DEF FramesInv, FramesAreOwn
<1>6. TopInv'
  <2>1. GoOn(Top.step, next)
    BY DEF WriteTo
  <2>2. Reaches(next) \/ Writes
    BY <1>1, <1>2, <2>1, GoOnMoves, DestinationType
  <2>3. Top'.at \notin {"reset", "return"} /\ (Top'.at = "frames" => Top'.step # 0)
    BY <1>1, <2>2, PartsType DEF Reaches, Writes
  <2> QED
    BY <1>3, <2>3 DEF TopInv, BadLine
<1> QED
  BY <1>4, <1>5, <1>6 DEF FramesInv

LEMMA FramesSilent ==
  ASSUME TypeOK, FramesInv,
         outputInit \/ outputCmd \/ outputCmdRestores \/ createGlobalBacktrace
         \/ outputFini \/ Reset
  PROVE  FramesInv'
<1>1. StackTyped /\ stack # <<>> /\ Top \in Handler /\ proc = "running"
  BY IsRunning DEF outputInit, outputCmd, outputCmdRestores, createGlobalBacktrace, outputFini,
     CloseFile, CloseStdout, CloseDevice, Forget, Reset
<1>2. Silent /\ proc' # "new"
  BY <1>1 DEF Silent, outputInit, outputCmd, outputCmdRestores, createGlobalBacktrace, outputFini,
     CloseFile, CloseStdout, CloseDevice, Forget, Reset, ghosts
<1>3. BadLine => Top.at \in {"outputInit", "banner", "end"}
  BY <1>1 DEF FramesInv, TopInv
<1>4. CASE outputInit
  <2>1. Top'.at = "banner" /\ Top'.step = 0
    BY <1>1, <1>4, GotoReaches, "banner" \in Stages DEF outputInit, Reaches, Stages
  <2> QED
    BY <1>2, <2>1, SilentKeeps DEF TopInv
<1>5. CASE createGlobalBacktrace
  <2>1. Top'.at = "frames" /\ Top'.id = Top.id /\ Top.at = "unwind" /\ trace' = Top.id
    BY <1>1, <1>5, GotoReaches, "frames" \in Stages
    DEF createGlobalBacktrace, Running, Reaches, Moves, Stages
  <2>2. ~ BadLine'
    BY <1>2, <1>3, <2>1 DEF Silent, BadLine
  <2> QED
    BY <1>2, <2>1, <2>2, SilentKeeps DEF TopInv
<1>6. CASE outputCmd \/ outputCmdRestores
  <2>1. Top'.at \in {"ps", "proc"} /\ Top.at \in {"popen", "restore"}
    <3>1. CASE Goto("proc")
      BY <1>1, <1>6, <3>1, GotoReaches, "proc" \in Stages
      DEF outputCmd, outputCmdRestores, Running, Reaches, Stages
    <3>2. CASE SetTop([Top EXCEPT !.at = "ps", !.saved = chld]) /\ Top.at = "popen"
      <4>1. PICK t : t = Top
        OBVIOUS
      <4>2. t \in Handler /\ chld \in {"app", "default"}
        BY <1>1, <4>1 DEF TypeOK
      <4>3. PICK g : g = [t EXCEPT !.at = "ps", !.saved = chld]
        OBVIOUS
      <4>4. g \in Handler /\ g.id = t.id /\ g.alone = t.alone /\ g.at = "ps"
        BY <4>2, <4>3 DEF Handler, Stages
      <4> QED
        BY <1>1, <3>2, <4>1, <4>3, <4>4, SetTopMoves
    <3> QED
      BY <1>6, <3>1, <3>2 DEF outputCmd, outputCmdRestores, Running
  <2>2. ~ BadLine'
    BY <1>2, <1>3, <2>1 DEF Silent, BadLine
  <2> QED
    BY <1>2, <2>1, <2>2, SilentKeeps DEF TopInv
<1>7. CASE CloseFile \/ CloseStdout \/ CloseDevice
  <2>1. /\ Top'.at \in {"closeStdout", "closeDevice", "forget"}
        /\ Top.at \in {"closeFile", "closeStdout", "closeDevice"}
    BY <1>1, <1>7, GotoReaches, {"closeStdout", "closeDevice", "forget"} \subseteq Stages
    DEF CloseFile, CloseStdout, CloseDevice, Running, Reaches, Stages
  <2>2. ~ BadLine'
    BY <1>2, <1>3, <2>1 DEF Silent, BadLine
  <2> QED
    BY <1>2, <2>1, <2>2, SilentKeeps DEF TopInv
<1>8. CASE Forget \/ Reset
  <2>1. Top'.at \in {"reset", "return"} /\ Top.at \in {"forget", "reset"}
    BY <1>1, <1>8, GotoReaches, {"reset", "return"} \subseteq Stages
    DEF Forget, Reset, Running, Reaches, Stages
  <2>2. ~ BadLine'
    BY <1>2, <1>3, <2>1 DEF Silent, BadLine
  <2>3. NoStreams'
    <3>1. CASE Forget
      BY <3>1 DEF Forget, NoStreams, TypeOK
    <3>2. CASE Reset
      BY <1>1, <3>2 DEF Reset, Running, FramesInv, TopInv, NoStreams
    <3> QED
      BY <1>8, <3>1, <3>2
  <2> QED
    BY <1>2, <2>1, <2>2, <2>3, SilentKeeps DEF TopInv
<1> QED
  BY <1>4, <1>5, <1>6, <1>7, <1>8 DEF outputFini

LEMMA FramesStep == TypeOK /\ FramesInv /\ [Next]_vars => FramesInv'
<1> SUFFICES ASSUME TypeOK, FramesInv, [Next]_vars PROVE FramesInv'
  OBVIOUS
<1>1. CASE miscCrash_register
  BY <1>1, SilentKeeps DEF miscCrash_register, FramesInv, Silent
<1>2. ASSUME NEW s \in Signals, Deliver(s) PROVE FramesInv'
  <2>1. CASE Enter(s)
    <3>1. Top'.at = "outputInit" /\ Top'.step = 0
      BY <2>1, EnterTop
    <3>2. Silent /\ proc' # "new"
      BY <1>2, <2>1 DEF Silent, Enter, Deliver
    <3> QED
      BY <3>1, <3>2, SilentKeeps DEF TopInv
  <2>2. CASE Kill
    BY <2>2, SilentKeeps
    DEF Kill, Silent, FramesInv, TopInv, Top, NoStreams, BadLine, ghosts
  <2> QED
    BY <1>2, <2>1, <2>2 DEF Deliver
<1>3. CASE outputBacktrace
  BY <1>3, PrintSteps, FramesFormat, FramesWrite, FramesSilent DEF outputPrintf
<1>4. CASE outputInit \/ outputFini \/ Reset
  BY <1>4, FramesSilent
<1>5. CASE Return
  <2>1. NoStreams /\ ~ BadLine /\ proc = "running"
    BY <1>5, IsRunning DEF Return, FramesInv, TopInv
  <2>2. Silent /\ NoStreams' /\ ~ BadLine' /\ proc' # "new"
    BY <1>5, <2>1 DEF Return, Silent, NoStreams, BadLine, ghosts
  <2> QED
    BY <2>2, SilentKeeps DEF TopInv
<1>6. CASE UNCHANGED vars
  BY <1>6 DEF vars, ghosts, FramesInv, TopInv, Top, NoStreams, BadLine, FramesAreOwn
<1> QED
  BY <1>1, <1>2, <1>3, <1>4, <1>5, <1>6 DEF Next, crash_handler

LEMMA FramesInit == Init => FramesInv
  BY DEF Init, FramesInv, FramesAreOwn

(* The frames in a dump are those of its own signal, for every nesting of  *)
(* handlers and whatever fails.                                            *)
THEOREM FramesCorrect == Spec => []FramesAreOwn
<1>1. FramesInv => FramesAreOwn
  BY DEF FramesInv
<1> QED
  BY <1>1, FramesInit, FramesStep, TypeCorrect, PTL DEF Spec

-----------------------------------------------------------------------------
(* The action for SIGCHLD.  The handlers between the save and the restore  *)
(* have saved, from the bottom of the stack up, the application's action   *)
(* and then the default, so that the last restore is the application's.    *)
HasSaved == {"ps", "restore"}
Holds(i) == stack[i].at \in HasSaved
After(somebody) == IF somebody THEN "default" ELSE "app"

SavedInv == \A i \in 1..Len(stack) :
              Holds(i) => stack[i].saved = After(\E j \in 1..(i - 1) : Holds(j))
ActionInv == chld = After(\E j \in 1..Len(stack) : Holds(j))
ChldInv == "popen" \notin failed => SavedInv /\ ActionInv

LEMMA ChldQuiet ==
  ASSUME StackTyped, Moves, Top'.saved = Top.saved, ChldInv, failed \subseteq failed',
         UNCHANGED chld, Top'.at \in HasSaved <=> Top.at \in HasSaved
  PROVE  ChldInv'
<1> SUFFICES ASSUME "popen" \notin failed' PROVE SavedInv' /\ ActionInv'
  BY DEF ChldInv
<1>1. SavedInv /\ ActionInv
  BY DEF ChldInv
<1>2. Len(stack) \in Nat \ {0} /\ Len(stack') = Len(stack)
  BY TopType DEF Moves
<1>3. ASSUME NEW i \in 1..Len(stack)
      PROVE  (Holds(i)' <=> Holds(i)) /\ stack'[i].saved = stack[i].saved
  <2>1. CASE i = Len(stack)
    BY <1>2, <2>1 DEF Holds, Top
  <2>2. CASE i # Len(stack)
    <3>1. i \in 1..(Len(stack) - 1)
      BY <1>2, <2>2
    <3> QED
      BY <3>1 DEF Moves, Holds
  <2> QED
    BY <2>1, <2>2
<1>4. ActionInv'
  BY <1>1, <1>2, <1>3 DEF ActionInv
<1>5. ASSUME NEW i \in 1..Len(stack), Holds(i)'
      PROVE  stack'[i].saved = After(\E j \in 1..(i - 1) : Holds(j)')
  <2>1. \A j \in 1..(i - 1) : j \in 1..Len(stack)
    BY <1>2
  <2>2. (\E j \in 1..(i - 1) : Holds(j)') <=> (\E j \in 1..(i - 1) : Holds(j))
    BY <1>3, <2>1
  <2> QED
    BY <1>1, <1>3, <1>5, <2>2 DEF SavedInv
<1>6. SavedInv'
  BY <1>2, <1>5 DEF SavedInv
<1> QED
  BY <1>4, <1>6

LEMMA UpTo ==
  ASSUME NEW n \in Nat, NEW m \in Nat, m = n + 1
  PROVE  /\ \A j \in 1..m : j \in 1..n \/ j = m
         /\ \A j \in 1..n : j \in 1..m /\ j # m
         /\ m \in 1..m
  OBVIOUS

LEMMA Shorter ==
  ASSUME NEW n \in Nat, NEW m \in Nat, NEW k \in Nat,
         (m = n + 1 /\ k = n) \/ (n = m + 1 /\ k = m)
  PROVE  /\ \A j \in 1..n : j \in 1..k \/ (j = n /\ n = m + 1)
         /\ \A j \in 1..m : j \in 1..k \/ (j = m /\ m = n + 1)
         /\ \A j \in 1..k : j \in 1..n /\ j \in 1..m
<1>1. CASE m = n + 1 /\ k = n
  BY <1>1, UpTo
<1>2. CASE n = m + 1 /\ k = m
  BY <1>2, UpTo
<1> QED
  BY <1>1, <1>2

\* The step that saves the action and the one that restores it.
LEMMA ChldCmd ==
  ASSUME TypeOK, ChldInv, outputCmd \/ outputCmdRestores
  PROVE  ChldInv'
<1>1. StackTyped /\ stack # <<>> /\ Top \in Handler
  BY IsRunning DEF outputCmd, outputCmdRestores
<1>2. PICK n \in Nat \ {0} : n = Len(stack)
  BY <1>1, TopType
<1> SUFFICES ASSUME "popen" \notin failed' PROVE SavedInv' /\ ActionInv'
  BY DEF ChldInv
<1>3. SavedInv /\ ActionInv
  BY DEF ChldInv, outputCmd, outputCmdRestores, Fails, ghosts
<1> DEFINE below == \E j \in 1..(n - 1) : Holds(j)
<1>4. Moves /\ Len(stack') = n
      /\ (\/ /\ Top'.at = "ps" /\ Top'.saved = chld /\ Top.at = "popen" /\ chld' = "default"
            \/ /\ Top'.at = "proc" /\ Top.at = "restore" /\ chld' = Top.saved)
  <2>1. CASE outputCmd
    <3>1. SetTop([Top EXCEPT !.at = "ps", !.saved = chld]) /\ Top.at = "popen"
      BY <2>1 DEF outputCmd, Running, Fails
    <3>2. PICK t : t = Top
      OBVIOUS
    <3>3. t \in Handler /\ chld \in {"app", "default"}
      BY <1>1, <3>2 DEF TypeOK
    <3>4. PICK g : g = [t EXCEPT !.at = "ps", !.saved = chld]
      OBVIOUS
    <3>5. g \in Handler /\ g.id = t.id /\ g.alone = t.alone /\ g.at = "ps" /\ g.saved = chld
      BY <3>3, <3>4 DEF Handler, Stages
    <3>6. Moves /\ Top' = g
      BY <1>1, <3>1, <3>2, <3>4, <3>5, SetTopMoves
    <3> QED
      BY <1>2, <2>1, <3>1, <3>5, <3>6 DEF outputCmd, Moves
  <2>2. CASE outputCmdRestores
    BY <1>1, <1>2, <2>2, GotoReaches, "proc" \in Stages
    DEF outputCmdRestores, Running, Reaches, Moves, Stages
  <2> QED
    BY <2>1, <2>2
<1>5. ASSUME NEW i \in 1..(n - 1) PROVE (Holds(i)' <=> Holds(i)) /\ stack'[i].saved = stack[i].saved
  BY <1>2, <1>4 DEF Moves, Holds
<1>6. (Holds(n) <=> Top.at \in HasSaved) /\ (Holds(n)' <=> Top'.at \in HasSaved)
      /\ Top = stack[n] /\ Top' = stack'[n]
  BY <1>2, <1>4 DEF Holds, Top
<1>7. (\E j \in 1..(n - 1) : Holds(j)') <=> below
  BY <1>5
<1>8. /\ (\E j \in 1..n : Holds(j)) <=> below \/ Holds(n)
      /\ (\E j \in 1..n : Holds(j)') <=> below \/ Holds(n)'
  <2>1. n \in 1..n /\ \A j \in 1..n : j \in 1..(n - 1) \/ j = n
    BY UpTo, n - 1 \in Nat, n = (n - 1) + 1
  <2>2. \A j \in 1..(n - 1) : j \in 1..n
    BY UpTo, n - 1 \in Nat, n = (n - 1) + 1
  <2>3. (\E j \in 1..n : Holds(j)) <=> below \/ Holds(n)
    BY <2>1, <2>2
  <2>4. (\E j \in 1..n : Holds(j)') <=> (\E j \in 1..(n - 1) : Holds(j)') \/ Holds(n)'
    BY <2>1, <2>2
  <2> QED
    BY <1>7, <2>3, <2>4
<1>9. Top'.at = "ps" => Top'.saved = After(below)
  BY <1>2, <1>3, <1>4, <1>6, <1>8 DEF ActionInv, HasSaved
<1>10. ActionInv'
  <2>1. CASE Top'.at = "ps"
    BY <1>2, <1>4, <1>6, <1>8, <2>1 DEF ActionInv, After, HasSaved
  <2>2. CASE Top'.at = "proc"
    <3>1. chld' = Top.saved /\ Holds(n) /\ ~ Holds(n)'
      BY <1>4, <1>6, <2>2 DEF HasSaved
    <3>2. Top.saved = After(below)
      <4>1. n \in 1..Len(stack)
        BY <1>2
      <4> QED
        BY <1>2, <1>3, <1>6, <3>1, <4>1 DEF SavedInv
    <3> QED
      BY <1>2, <1>4, <1>8, <3>1, <3>2 DEF ActionInv
  <2> QED
    BY <1>4, <2>1, <2>2
<1>11. SavedInv'
  <2>1. ASSUME NEW i \in 1..n, Holds(i)'
        PROVE  stack'[i].saved = After(\E j \in 1..(i - 1) : Holds(j)')
    <3>1. CASE i = n
      BY <1>4, <1>6, <1>7, <1>9, <2>1, <3>1 DEF HasSaved
    <3>2. CASE i # n
      <4>1. i \in 1..(n - 1) /\ \A j \in 1..(i - 1) : j \in 1..(n - 1)
        BY <1>2, <3>2
      <4>2. (\E j \in 1..(i - 1) : Holds(j)') <=> (\E j \in 1..(i - 1) : Holds(j))
        BY <1>5, <4>1
      <4>3. i \in 1..n
        OBVIOUS
      <4> QED
        BY <1>2, <1>3, <1>5, <2>1, <4>1, <4>2, <4>3 DEF SavedInv
    <3> QED
      BY <3>1, <3>2
  <2> QED
    BY <1>2, <1>4, <2>1 DEF SavedInv
<1> QED
  BY <1>10, <1>11

\* A handler that is added or removed between "restore" and "ps" changes nothing.
LEMMA ChldStack ==
  ASSUME NEW n \in Nat, NEW m \in Nat, Len(stack) = n, Len(stack') = m,
         (m = n + 1 /\ ~ Holds(m)') \/ (n = m + 1 /\ ~ Holds(n)),
         \A i \in 1..(IF m < n THEN m ELSE n) :
           (Holds(i)' <=> Holds(i)) /\ stack'[i].saved = stack[i].saved,
         ChldInv, UNCHANGED <<chld, failed>>
  PROVE  ChldInv'
<1> SUFFICES ASSUME "popen" \notin failed' PROVE SavedInv' /\ ActionInv'
  BY DEF ChldInv
<1>1. SavedInv /\ ActionInv
  BY DEF ChldInv
<1> DEFINE k == IF m < n THEN m ELSE n
<1>2. /\ k \in Nat
      /\ \A j \in 1..n : j \in 1..k \/ (j = n /\ n = m + 1)
      /\ \A j \in 1..m : j \in 1..k \/ (j = m /\ m = n + 1)
      /\ \A j \in 1..k : j \in 1..n /\ j \in 1..m
  <2>1. k \in Nat /\ ((m = n + 1 /\ k = n) \/ (n = m + 1 /\ k = m))
    OBVIOUS
  <2> HIDE DEF k
  <2> QED
    BY <2>1, Shorter
<1>3. (\E j \in 1..n : Holds(j)) <=> (\E j \in 1..k : Holds(j))
  BY <1>2
<1>4. (\E j \in 1..m : Holds(j)') <=> (\E j \in 1..k : Holds(j))
  BY <1>2
<1>5. ActionInv'
  BY <1>1, <1>3, <1>4 DEF ActionInv
<1>6. ASSUME NEW i \in 1..m, Holds(i)'
      PROVE  stack'[i].saved = After(\E j \in 1..(i - 1) : Holds(j)')
  <2>1. i \in 1..k
    BY <1>2, <1>6
  <2>2. i \in 1..n /\ \A j \in 1..(i - 1) : j \in 1..k
    BY <1>2, <2>1
  <2>3. (\E j \in 1..(i - 1) : Holds(j)') <=> (\E j \in 1..(i - 1) : Holds(j))
    BY <2>2
  <2> QED
    BY <1>1, <1>6, <2>1, <2>2, <2>3 DEF SavedInv
<1>7. SavedInv'
  BY <1>6 DEF SavedInv
<1> QED
  BY <1>5, <1>7

LEMMA ChldPrintf ==
  ASSUME TypeOK, ChldInv, NEW part \in ToSet(Parts),
         NEW next \in Stages \cap {"popen", "restore", "unwind", "end", "closeFile"},
         part = "ps" <=> next = "restore", outputPrintf(part, next)
  PROVE  ChldInv'
<1>1. StackTyped /\ stack # <<>> /\ Top \in Handler /\ Top.at = part
  BY IsRunning DEF outputPrintf, Format, WriteTo
<1>2. failed \subseteq failed' /\ chld' = chld
  BY DEF outputPrintf, Format, WriteTo, WriteLine, Fails
<1>3. part \in HasSaved <=> next \in HasSaved
  BY PartsType DEF HasSaved
<1>4. Moves /\ Top'.saved = Top.saved /\ Top'.at \in {part, next}
  <2>1. \/ Goto(next)
        \/ \E k \in 0..3 : GoOn(k, next)
    <3>1. CASE Format(part, next)
      <4>1. 0 \in 0..3
        OBVIOUS
      <4> QED
        BY <3>1, <4>1 DEF Format
    <3>2. CASE WriteTo(part, next)
      <4>1. Top.step \in 0..3
        BY <1>1 DEF Handler
      <4> QED
        BY <3>2, <4>1 DEF WriteTo
    <3> QED
      BY <3>1, <3>2 DEF outputPrintf
  <2>2. CASE Goto(next)
    BY <1>1, <2>2, GotoReaches DEF Reaches
  <2>3. ASSUME NEW k \in 0..3, GoOn(k, next)
        PROVE  Moves /\ Top'.saved = Top.saved /\ Top'.at \in {part, next}
    <3>1. Top'.saved = Top.saved /\ (Reaches(next) \/ Writes)
      BY <1>1, <2>3, GoOnMoves, DestinationType
    <3> QED
      BY <1>1, <3>1 DEF Reaches, Writes
  <2> QED
    BY <2>1, <2>2, <2>3
<1>5. Top'.at \in HasSaved <=> Top.at \in HasSaved
  BY <1>1, <1>3, <1>4
<1> QED
  BY <1>1, <1>2, <1>4, <1>5, ChldQuiet

LEMMA ChldSilent ==
  ASSUME TypeOK, ChldInv, outputInit \/ createGlobalBacktrace \/ outputFini \/ Reset
  PROVE  ChldInv'
<1>1. StackTyped /\ stack # <<>> /\ Top \in Handler
  BY IsRunning DEF outputInit, createGlobalBacktrace, outputFini,
     CloseFile, CloseStdout, CloseDevice, Forget, Reset
<1>2. failed \subseteq failed' /\ chld' = chld
  BY DEF outputInit, createGlobalBacktrace, outputFini,
     CloseFile, CloseStdout, CloseDevice, Forget, Reset, Fails, ghosts
<1>3. /\ Top.at \notin HasSaved
      /\ \E stage \in Stages : Goto(stage) /\ stage \notin HasSaved
  BY DEF outputInit, createGlobalBacktrace, outputFini,
     CloseFile, CloseStdout, CloseDevice, Forget, Reset, Running, HasSaved, Stages
<1> QED
  BY <1>1, <1>2, <1>3, GotoReaches, ChldQuiet DEF Reaches

LEMMA ChldEnter ==
  ASSUME TypeOK, ChldInv, NEW s \in Signals, Enter(s)
  PROVE  ChldInv'
<1>1. PICK n \in Nat : n = Len(stack)
  BY DEF TypeOK
<1>2. PICK m \in Nat : m = n + 1
  OBVIOUS
<1>3. Len(stack') = m /\ Top' = stack'[m] /\ Top'.at = "outputInit"
  BY <1>1, <1>2, EnterTop DEF Top
<1>4. ~ Holds(m)'
  BY <1>3 DEF Holds, HasSaved
<1>5. ASSUME NEW i \in 1..n
      PROVE  (Holds(i)' <=> Holds(i)) /\ stack'[i].saved = stack[i].saved
  <2>1. stack'[i] = [stack[i] EXCEPT !.alone = FALSE]
    BY <1>1, EnterTop
  <2>2. PICK t : t = stack[i]
    OBVIOUS
  <2>3. t \in Handler
    BY <1>1, <2>2 DEF TypeOK
  <2>4. stack'[i].at = t.at /\ stack'[i].saved = t.saved
    BY <2>1, <2>2, <2>3 DEF Handler
  <2> QED
    BY <2>2, <2>4 DEF Holds
<1>6. ~ (m < n) /\ UNCHANGED <<chld, failed>>
  BY <1>2 DEF Enter
<1> QED
  BY <1>1, <1>2, <1>3, <1>4, <1>5, <1>6, ChldStack

LEMMA ChldReturn ==
  ASSUME TypeOK, ChldInv, Return
  PROVE  ChldInv'
<1>1. StackTyped /\ Top.at = "return"
  BY IsRunning DEF Return
<1>2. PICK n \in Nat \ {0} : n = Len(stack)
  BY <1>1, TopType
<1>3. PICK m \in Nat : n = m + 1
  <2>1. n - 1 \in Nat /\ n = (n - 1) + 1
    OBVIOUS
  <2> QED
    BY <2>1
<1>4. Len(stack') = m /\ \A i \in 1..m : stack'[i] = stack[i]
  BY <1>1, <1>2, <1>3 DEF Return, Front, StackTyped
<1>5. ~ Holds(n) /\ m < n /\ UNCHANGED <<chld, failed>>
  BY <1>1, <1>2, <1>3 DEF Holds, HasSaved, Top, Return, ghosts
<1>6. \A i \in 1..m : (Holds(i)' <=> Holds(i)) /\ stack'[i].saved = stack[i].saved
  BY <1>4 DEF Holds
<1> QED
  BY <1>2, <1>3, <1>4, <1>5, <1>6, ChldStack

LEMMA ChldStep == TypeOK /\ ChldInv /\ [Next]_vars => ChldInv'
<1> SUFFICES ASSUME TypeOK, ChldInv, [Next]_vars PROVE ChldInv'
  OBVIOUS
<1>1. CASE miscCrash_register
  BY <1>1 DEF miscCrash_register, Fails, ChldInv, SavedInv, ActionInv, Holds
<1>2. ASSUME NEW s \in Signals, Deliver(s) PROVE ChldInv'
  <2>1. CASE Enter(s)
    BY <2>1, ChldEnter
  <2>2. CASE Kill
    BY <2>2 DEF Kill, ghosts, ChldInv, SavedInv, ActionInv, Holds
  <2> QED
    BY <1>2, <2>1, <2>2 DEF Deliver
<1>3. CASE outputBacktrace
  BY <1>3, PrintSteps, ChldPrintf, ChldCmd, ChldSilent
<1>4. CASE outputInit \/ outputFini \/ Reset
  BY <1>4, ChldSilent
<1>5. CASE Return
  BY <1>5, ChldReturn
<1>6. CASE UNCHANGED vars
  BY <1>6 DEF vars, ghosts, ChldInv, SavedInv, ActionInv, Holds
<1> QED
  BY <1>1, <1>2, <1>3, <1>4, <1>5, <1>6 DEF Next, crash_handler

LEMMA ChldInit == Init => ChldInv
  BY DEF Init, ChldInv, SavedInv, ActionInv, After

(* However handlers interrupt one another, the application has its action  *)
(* for SIGCHLD back when the last one has returned, if popen did not fail. *)
THEOREM SigchldCorrect == Spec => []SigchldIsRestored
<1>1. ChldInv => SigchldIsRestored
  BY DEF ChldInv, ActionInv, After, SigchldIsRestored
<1> QED
  BY <1>1, ChldInit, ChldStep, TypeCorrect, PTL DEF Spec

-----------------------------------------------------------------------------
(* The streams.  Every handler on its way out has closed stdout, then the  *)
(* device, and has then forgotten both; what is closed or forgotten stays  *)
(* so, whoever runs in between.                                            *)
At(stages) == \E i \in 1..Len(stack) : stack[i].at \in stages
NoDevice == \A d \in Fds : fds[d] # "device"

AfterStdout == {"closeDevice", "forget", "reset", "return"}
AfterDevice == {"forget", "reset", "return"}
AfterAll == {"reset", "return"}

StreamInv ==
  /\ \A d \in Fds : fds[d] = "stdout" => d = 1 /\ stdio
  /\ \A d \in Fds : fds[d] = "device" => d = gbl.fd
  /\ proc = "new" => /\ handled = <<>> /\ stack = <<>>
                     /\ \A d \in Fds : fds[d] \notin {"device", "file"}
  /\ proc = "running" /\ ~ gbl.filep => ~ stdio /\ NoDevice /\ gbl.fd = -1
  /\ At(AfterStdout) => ~ stdio
  /\ At(AfterDevice) => NoDevice
  /\ At(AfterAll) => ~ gbl.filep
  /\ handled # <<>> /\ stack = <<>> => ~ gbl.filep

LEMMA TopAt ==
  ASSUME StackTyped, NEW S, Top.at \in S PROVE At(S)
BY TopType DEF At, Top

LEMMA MovesAt ==
  ASSUME StackTyped, Moves, NEW S, At(S)' PROVE At(S) \/ Top'.at \in S
<1>1. Len(stack) \in Nat \ {0} /\ Len(stack') = Len(stack)
  BY TopType DEF Moves
<1>2. PICK i \in 1..Len(stack) : stack'[i].at \in S
  BY <1>1 DEF At
<1>3. CASE i = Len(stack)
  BY <1>1, <1>2, <1>3 DEF Top
<1>4. CASE i # Len(stack)
  <2>1. i \in 1..(Len(stack) - 1)
    BY <1>1, <1>4
  <2> QED BY <1>2, <2>1 DEF Moves, At
<1> QED BY <1>3, <1>4

LEMMA EnterAt ==
  ASSUME TypeOK, NEW s \in Signals, Enter(s), NEW S, "outputInit" \notin S, At(S)'
  PROVE  At(S)
<1>1. Len(stack) \in Nat /\ Len(stack') = Len(stack) + 1 /\ DOMAIN stack = 1..Len(stack)
  BY EnterTop DEF TypeOK
<1>2. PICK i \in 1..(Len(stack) + 1) : stack'[i].at \in S
  BY <1>1 DEF At
<1>3. i # Len(stack) + 1
  BY <1>1, <1>2, EnterTop DEF Top
<1>4. i \in 1..Len(stack)
  BY <1>1, <1>3
<1>5. stack'[i] = [stack[i] EXCEPT !.alone = FALSE] /\ stack[i] \in Handler
  <2>1. stack \in Seq(Handler)
    BY DEF TypeOK
  <2>2. stack[i] \in Handler
    BY <1>4, <2>1
  <2> QED BY <1>4, <2>2, EnterTop
<1>6. stack'[i].at = stack[i].at
  BY <1>5 DEF Handler
<1> QED BY <1>2, <1>4, <1>6 DEF At

LEMMA ReturnStack ==
  ASSUME TypeOK, Return
  PROVE  /\ StackTyped /\ Top.at = "return" /\ Len(stack) \in Nat \ {0}
         /\ Len(stack') = Len(stack) - 1
         /\ \A i \in 1..(Len(stack) - 1) : stack'[i] = stack[i]
<1>1. StackTyped /\ Top.at = "return"
  BY IsRunning DEF Return
<1>2. PICK n \in Nat \ {0} : n = Len(stack)
  BY <1>1, TopType
<1>3. PICK m \in Nat : n = m + 1
  <2>1. n - 1 \in Nat /\ n = (n - 1) + 1
    OBVIOUS
  <2> QED BY <2>1
<1>4. Len(stack') = m /\ \A i \in 1..m : stack'[i] = stack[i]
  BY <1>1, <1>2, <1>3 DEF Return, Front, StackTyped
<1>5. n - 1 = m
  BY <1>3
<1> QED BY <1>1, <1>2, <1>4, <1>5

LEMMA ReturnAt ==
  ASSUME TypeOK, Return, NEW S, At(S)' PROVE At(S)
<1>1. /\ Len(stack) \in Nat \ {0} /\ Len(stack') = Len(stack) - 1
      /\ \A i \in 1..(Len(stack) - 1) : stack'[i] = stack[i]
  BY ReturnStack
<1>2. PICK i \in 1..(Len(stack) - 1) : stack'[i].at \in S
  BY <1>1 DEF At
<1> QED BY <1>1, <1>2, Below DEF At

(* A step of the running handler that closes streams, or opens a file, and *)
(* is beyond a stage of outputFini only when that is done.                 *)
LEMMA StreamMoves ==
  ASSUME TypeOK, StreamInv, StackTyped, Moves, proc = "running", proc' # "new",
         \A d \in Fds : fds'[d] \in {fds[d], "closed", "file"},
         stdio' = stdio \/ (~ stdio' /\ fds'[1] = "closed"),
         gbl'.fd = gbl.fd, gbl'.filep = gbl.filep,
         Top'.at \in AfterStdout => ~ stdio',
         Top'.at \in AfterDevice => NoDevice',
         Top'.at \in AfterAll => ~ gbl'.filep
  PROVE  StreamInv'
<1>1. stack' # <<>>
  BY TopType DEF Moves
<1>2. NoDevice => NoDevice'
  BY DEF NoDevice
<1>3. ~ stdio => ~ stdio'
  OBVIOUS
<1>4. /\ At(AfterStdout)' => ~ stdio'
      /\ At(AfterDevice)' => NoDevice'
      /\ At(AfterAll)' => ~ gbl'.filep
  <2>1. At(AfterStdout)' => ~ stdio'
    BY <1>3, MovesAt DEF StreamInv
  <2>2. At(AfterDevice)' => NoDevice'
    BY <1>2, MovesAt DEF StreamInv
  <2>3. At(AfterAll)' => ~ gbl'.filep
    BY MovesAt DEF StreamInv
  <2> QED BY <2>1, <2>2, <2>3
<1>5. \A d \in Fds : fds'[d] = "stdout" => d = 1 /\ stdio'
  BY DEF StreamInv
<1>6. \A d \in Fds : fds'[d] = "device" => d = gbl'.fd
  BY DEF StreamInv
<1>7. proc' = "running" /\ ~ gbl'.filep => ~ stdio' /\ NoDevice' /\ gbl'.fd = -1
  BY <1>2, <1>3 DEF StreamInv
<1> QED BY <1>1, <1>4, <1>5, <1>6, <1>7 DEF StreamInv

\* The steps of a handler that leave descriptors and destinations alone.
Quiet ==
  /\ UNCHANGED <<fds, stdio, gbl, handled>>
  /\ StackTyped /\ Moves /\ proc = "running" /\ proc' # "new"
  /\ Top.at \notin {"outputInit", "closeFile", "closeStdout", "closeDevice", "forget", "return"}
  /\ \/ Top'.at \notin {"outputInit", "closeStdout", "closeDevice", "forget", "reset", "return"}
        /\ Top.at # "reset"
     \/ Top.at = "reset" /\ Top'.at = "return"

LEMMA PrintfIsQuiet ==
  ASSUME TypeOK, NEW part \in ToSet(Parts),
         NEW next \in Stages \cap {"popen", "restore", "unwind", "end", "closeFile"},
         outputPrintf(part, next)
  PROVE  /\ Quiet /\ Top.at = part /\ Top'.at \in {part, next}
<1>1. StackTyped /\ stack # <<>> /\ Top \in Handler /\ Top.at = part /\ proc = "running"
  BY IsRunning DEF outputPrintf, Format, WriteTo
<1>2. UNCHANGED <<fds, stdio, gbl, handled>> /\ proc' # "new"
  BY <1>1 DEF outputPrintf, Format, WriteTo, WriteLine
<1>3. Moves /\ Top'.at \in {part, next}
  <2>1. Goto(next) \/ \E k \in 0..3 : GoOn(k, next)
    <3>1. CASE Format(part, next)
      <4>1. 0 \in 0..3
        OBVIOUS
      <4> QED BY <3>1, <4>1 DEF Format
    <3>2. CASE WriteTo(part, next)
      <4>1. Top.step \in 0..3
        BY <1>1 DEF Handler
      <4> QED BY <3>2, <4>1 DEF WriteTo
    <3> QED BY <3>1, <3>2 DEF outputPrintf
  <2>2. CASE Goto(next)
    BY <1>1, <2>2, GotoReaches DEF Reaches
  <2>3. ASSUME NEW k \in 0..3, GoOn(k, next)
        PROVE  Moves /\ Top'.at \in {part, next}
    <3>1. Reaches(next) \/ Writes
      BY <1>1, <2>3, GoOnMoves, DestinationType
    <3> QED BY <1>1, <3>1 DEF Reaches, Writes
  <2> QED BY <2>1, <2>2, <2>3
<1>4. part \in {"banner", "ps", "proc", "frames", "end"}
  BY PartsType
<1> QED BY <1>1, <1>2, <1>3, <1>4 DEF Quiet

\* outputCmd saves the action or fails; the other one restores it.
LEMMA CmdSteps ==
  ASSUME TypeOK, outputCmd \/ outputCmdRestores
  PROVE  /\ StackTyped /\ Moves
         /\ \/ Top.at = "popen" /\ Top'.at = "ps" /\ UNCHANGED failed
               /\ Top' = [Top EXCEPT !.at = "ps", !.saved = chld]
            \/ Top.at = "popen" /\ Top'.at = "proc" /\ "popen" \in failed'
            \/ Top.at = "restore" /\ Goto("proc") /\ Top'.at = "proc" /\ UNCHANGED failed
<1>1. StackTyped /\ stack # <<>> /\ Top \in Handler
  BY IsRunning DEF outputCmd, outputCmdRestores
<1>2. CASE Goto("proc") /\ (outputCmdRestores \/ (outputCmd /\ Fails("popen")))
  <2>1. Moves /\ Top'.at = "proc"
    BY <1>1, <1>2, GotoReaches, "proc" \in Stages DEF Reaches, Stages
  <2>2. CASE outputCmdRestores
    BY <1>1, <1>2, <2>1, <2>2 DEF outputCmdRestores, Running, ghosts
  <2>3. CASE outputCmd /\ Fails("popen")
    BY <1>1, <1>2, <2>1, <2>3 DEF outputCmd, Running, Fails
  <2> QED BY <1>2, <2>2, <2>3
<1>3. CASE SetTop([Top EXCEPT !.at = "ps", !.saved = chld]) /\ outputCmd /\ UNCHANGED failed
  <2>1. PICK t : t = Top
    OBVIOUS
  <2>2. t \in Handler /\ chld \in {"app", "default"}
    BY <1>1, <2>1 DEF TypeOK
  <2>3. PICK g : g = [t EXCEPT !.at = "ps", !.saved = chld]
    OBVIOUS
  <2>4. g \in Handler /\ g.id = t.id /\ g.alone = t.alone /\ g.at = "ps"
    BY <2>2, <2>3 DEF Handler, Stages
  <2>5. Moves /\ Top' = g
    BY <1>1, <1>3, <2>1, <2>3, <2>4, SetTopMoves
  <2> QED BY <1>1, <1>3, <2>1, <2>3, <2>4, <2>5 DEF outputCmd, Running
<1>4. outputCmdRestores => Goto("proc")
  BY DEF outputCmdRestores
<1>5. outputCmd => \/ SetTop([Top EXCEPT !.at = "ps", !.saved = chld]) /\ UNCHANGED failed
                   \/ Fails("popen") /\ Goto("proc")
  BY Zenon DEF outputCmd
<1>6. CASE outputCmdRestores
  BY <1>2, <1>4, <1>6
<1>7. CASE outputCmd
  <2>1. CASE SetTop([Top EXCEPT !.at = "ps", !.saved = chld]) /\ UNCHANGED failed
    BY <1>3, <1>7, <2>1
  <2>2. CASE Fails("popen") /\ Goto("proc")
    BY <1>2, <1>7, <2>2
  <2> QED BY <1>5, <1>7, <2>1, <2>2
<1> QED BY <1>6, <1>7

LEMMA OthersAreQuiet ==
  ASSUME TypeOK, outputCmd \/ outputCmdRestores \/ createGlobalBacktrace \/ Reset
  PROVE  Quiet
<1>1. StackTyped /\ stack # <<>> /\ proc = "running"
  BY IsRunning DEF outputCmd, outputCmdRestores, createGlobalBacktrace, Reset
<1>2. UNCHANGED <<fds, stdio, gbl, handled>> /\ proc' # "new"
  BY <1>1 DEF outputCmd, outputCmdRestores, createGlobalBacktrace, Reset, ghosts
<1>3. CASE outputCmd \/ outputCmdRestores
  BY <1>1, <1>2, <1>3, CmdSteps DEF Quiet
<1>4. CASE createGlobalBacktrace
  BY <1>1, <1>2, <1>4, GotoReaches, "frames" \in Stages
  DEF Quiet, createGlobalBacktrace, Running, Reaches, Stages
<1>5. CASE Reset
  BY <1>1, <1>2, <1>5, GotoReaches, "return" \in Stages
  DEF Quiet, Reset, Running, Reaches, Stages
<1> QED BY <1>3, <1>4, <1>5

LEMMA StreamQuiet == ASSUME TypeOK, StreamInv, Quiet PROVE StreamInv'
<1>1. /\ Top'.at \in AfterStdout => Top.at = "reset"
      /\ Top'.at \in AfterDevice => Top.at = "reset"
      /\ Top'.at \in AfterAll => Top.at = "reset"
  BY DEF Quiet, AfterStdout, AfterDevice, AfterAll
<1>2. Top.at = "reset" => ~ stdio /\ NoDevice /\ ~ gbl.filep
  BY TopAt DEF Quiet, StreamInv, AfterStdout, AfterDevice, AfterAll
<1>3. /\ StackTyped /\ Moves /\ proc = "running" /\ proc' # "new"
      /\ UNCHANGED <<fds, stdio, gbl>>
  BY DEF Quiet
<1>4. NoDevice => NoDevice'
  BY <1>3 DEF NoDevice
<1> QED BY <1>1, <1>2, <1>3, <1>4, StreamMoves

LEMMA StageStep ==
  ASSUME TypeOK, NEW stage \in Stages, NEW next \in Stages, Running(stage), Goto(next)
  PROVE  /\ StackTyped /\ Moves /\ proc = "running"
         /\ Top.at = stage /\ Top'.at = next /\ Top'.step = 0
BY IsRunning, GotoReaches DEF Reaches

LEMMA StreamOpen == ASSUME TypeOK, StreamInv, outputInit PROVE StreamInv'
<1>1. /\ StackTyped /\ Moves /\ proc = "running" /\ proc' # "new"
      /\ Top'.at = "banner"
  BY StageStep DEF outputInit, Stages
<1>2. \A d \in Fds : fds'[d] \in {fds[d], "closed", "file"}
  BY DEF outputInit, TypeOK
<1>3. stdio' = stdio /\ gbl'.fd = gbl.fd /\ gbl'.filep = gbl.filep
  BY DEF outputInit, TypeOK
<1> QED BY <1>1, <1>2, <1>3, StreamMoves DEF AfterStdout, AfterDevice, AfterAll

LEMMA StreamCloseFile == ASSUME TypeOK, StreamInv, CloseFile PROVE StreamInv'
<1>1. /\ StackTyped /\ Moves /\ proc = "running" /\ proc' # "new"
      /\ Top'.at = "closeStdout"
  BY StageStep DEF CloseFile, Stages
<1>2. \A d \in Fds : fds'[d] \in {fds[d], "closed", "file"}
  BY DEF CloseFile, Close, TypeOK
<1>3. UNCHANGED <<stdio, gbl>>
  BY DEF CloseFile
<1> QED BY <1>1, <1>2, <1>3, StreamMoves DEF AfterStdout, AfterDevice, AfterAll

LEMMA StreamCloseStdout == ASSUME TypeOK, StreamInv, CloseStdout PROVE StreamInv'
<1>1. /\ StackTyped /\ Moves /\ proc = "running" /\ proc' # "new"
      /\ Top'.at = "closeDevice"
  BY StageStep DEF CloseStdout, Stages
<1>2. 1 \in Fds /\ DOMAIN fds = Fds
  BY CrashAssumption DEF Fds, TypeOK
<1>3. \A d \in Fds : fds'[d] \in {fds[d], "closed", "file"}
  BY <1>2 DEF CloseStdout, Close
<1>4. stdio' = stdio \/ (~ stdio' /\ fds'[1] = "closed")
  BY <1>2 DEF CloseStdout, Close
<1>5. ~ stdio'
  BY <1>1 DEF CloseStdout, StreamInv
<1>6. UNCHANGED gbl
  BY DEF CloseStdout
<1> QED BY <1>1, <1>3, <1>4, <1>5, <1>6, StreamMoves DEF AfterStdout, AfterDevice, AfterAll

LEMMA StreamCloseDevice == ASSUME TypeOK, StreamInv, CloseDevice PROVE StreamInv'
<1>1. /\ StackTyped /\ Moves /\ proc = "running" /\ proc' # "new"
      /\ Top.at = "closeDevice" /\ Top'.at = "forget"
  BY StageStep DEF CloseDevice, Stages
<1>2. DOMAIN fds = Fds /\ -1 \notin Fds
  BY CrashAssumption DEF Fds, TypeOK
<1>3. \A d \in Fds : fds'[d] \in {fds[d], "closed", "file"}
  BY <1>2 DEF CloseDevice, Close
<1>4. UNCHANGED <<stdio, gbl>>
  BY DEF CloseDevice
<1>5. ~ stdio
  BY <1>1, TopAt DEF StreamInv, AfterStdout
<1>6. NoDevice'
  <2> SUFFICES ASSUME NEW d \in Fds PROVE fds'[d] # "device"
    BY DEF NoDevice
  <2>1. CASE d = gbl.fd
    BY <1>2, <2>1 DEF CloseDevice, Close
  <2>2. CASE d # gbl.fd
    BY <1>2, <1>3, <2>2 DEF StreamInv
  <2> QED BY <2>1, <2>2
<1> QED BY <1>1, <1>3, <1>4, <1>5, <1>6, StreamMoves DEF AfterStdout, AfterDevice, AfterAll

LEMMA StreamForget == ASSUME TypeOK, StreamInv, Forget PROVE StreamInv'
<1>1. /\ StackTyped /\ Moves /\ proc = "running" /\ proc' # "new"
      /\ Top.at = "forget" /\ Top'.at = "reset"
  BY StageStep DEF Forget, Stages
<1>2. ~ stdio /\ NoDevice
  BY <1>1, TopAt DEF StreamInv, AfterStdout, AfterDevice
<1>3. gbl'.fd = -1 /\ ~ gbl'.filep /\ UNCHANGED <<fds, stdio>> /\ NoDevice'
  BY <1>2 DEF Forget, TypeOK, NoDevice
<1> QED BY <1>1, <1>2, <1>3 DEF StreamInv, NoDevice

LEMMA StreamRegister == ASSUME TypeOK, StreamInv, miscCrash_register PROVE StreamInv'
<1>1. stack = <<>> /\ handled = <<>> /\ UNCHANGED <<stack, handled, stdio>>
  BY DEF miscCrash_register, StreamInv
<1>2. \A S : ~ At(S)'
  BY <1>1 DEF At
<1>3. gbl'.filep /\ proc' = "running"
  BY Registers DEF miscCrash_register
<1>4. ASSUME NEW e \in Fds
      PROVE  /\ fds'[e] = "stdout" => e = 1 /\ stdio
             /\ fds'[e] = "device" => e = gbl'.fd
  <2>1. fds[e] # "device" /\ (fds[e] = "stdout" => e = 1 /\ stdio) /\ stdio' = stdio
    BY <1>1 DEF miscCrash_register, StreamInv
  <2>2. PICK stat \in Fds, d \in Fds \cup {-1} :
           /\ fds'[e] = IF e = stat THEN "stat" ELSE IF e = d THEN "device" ELSE fds[e]
           /\ d # -1 => gbl'.fd = d
    BY Registers
  <2>3. -1 \notin Fds
    BY DEF Fds
  <2> QED BY <2>1, <2>2, <2>3
<1> QED BY <1>1, <1>2, <1>3, <1>4 DEF StreamInv

LEMMA StreamReturn == ASSUME TypeOK, StreamInv, Return PROVE StreamInv'
<1>1. StackTyped /\ Top.at = "return" /\ proc = "running" /\ proc' # "new"
  BY ReturnStack, IsRunning DEF Return
<1>2. ~ stdio /\ NoDevice /\ ~ gbl.filep
  BY <1>1, TopAt DEF StreamInv, AfterStdout, AfterDevice, AfterAll
<1>3. UNCHANGED <<fds, stdio, gbl, handled>> /\ gbl.fd = -1
  BY <1>1, <1>2 DEF Return, ghosts, StreamInv
<1> QED BY <1>1, <1>2, <1>3 DEF StreamInv, NoDevice

LEMMA StreamDeliver == ASSUME TypeOK, StreamInv, NEW s \in Signals, Deliver(s) PROVE StreamInv'
<1>1. CASE Enter(s)
  <2>1. At(AfterStdout)' => At(AfterStdout)
    BY <1>1, EnterAt DEF AfterStdout
  <2>2. At(AfterDevice)' => At(AfterDevice)
    BY <1>1, EnterAt DEF AfterDevice
  <2>3. At(AfterAll)' => At(AfterAll)
    BY <1>1, EnterAt DEF AfterAll
  <2>4. stack' # <<>> /\ proc = "running" /\ UNCHANGED <<proc, fds, stdio, gbl>>
    BY <1>1, EnterTop DEF Deliver, Enter
  <2> QED BY <2>1, <2>2, <2>3, <2>4 DEF StreamInv, NoDevice
<1>2. CASE Kill
  BY <1>2 DEF Kill, ghosts, StreamInv, NoDevice, At
<1> QED BY <1>1, <1>2 DEF Deliver

LEMMA StreamStep == TypeOK /\ StreamInv /\ [Next]_vars => StreamInv'
<1> SUFFICES ASSUME TypeOK, StreamInv, [Next]_vars PROVE StreamInv'
  OBVIOUS
<1>1. CASE miscCrash_register
  BY <1>1, StreamRegister
<1>2. CASE \E s \in Signals : Deliver(s)
  BY <1>2, StreamDeliver
<1>3. CASE outputInit
  BY <1>3, StreamOpen
<1>4. CASE outputBacktrace
  BY <1>4, PrintSteps, PrintfIsQuiet, OthersAreQuiet, StreamQuiet
<1>5. CASE outputFini
  BY <1>5, StreamCloseFile, StreamCloseStdout, StreamCloseDevice, StreamForget DEF outputFini
<1>6. CASE Reset
  BY <1>6, OthersAreQuiet, StreamQuiet
<1>7. CASE Return
  BY <1>7, StreamReturn
<1>8. CASE UNCHANGED vars
  BY <1>8 DEF vars, ghosts, StreamInv, NoDevice, At
<1> QED BY <1>1, <1>2, <1>3, <1>4, <1>5, <1>6, <1>7, <1>8 DEF Next, crash_handler

LEMMA StreamInit == Init => StreamInv
<1> SUFFICES ASSUME Init PROVE StreamInv
  OBVIOUS
<1>1. ASSUME NEW d \in Fds
      PROVE  fds[d] \in {"stdin", "stdout", "stderr", "closed"} /\ (fds[d] = "stdout" => d = 1)
  <2>1. d < 3 => d = 0 \/ d = 1 \/ d = 2
    BY CrashAssumption DEF Fds
  <2> QED BY <2>1 DEF Init
<1>2. \A S : ~ At(S)
  BY DEF At, Init
<1> QED BY <1>1, <1>2 DEF Init, StreamInv

-----------------------------------------------------------------------------
(* The files.  Every handler opens one at most, and one of them is closed  *)
(* or was never there: from the first outputInit to the first CloseFile    *)
(* gbl_fd is that of a file, unless there was one less from the start.     *)
Files == {d \in Fds : fds[d] = "file"}
Pending == {i \in 1..Len(stack) : stack[i].at = "outputInit"}
Counted == Cardinality(Files) + Cardinality(Pending)
Spare == Counted < Len(handled)

AfterFile == {"closeStdout", "closeDevice", "forget", "reset", "return"}
Begun == Stages \ {"outputInit"}
FileIsOpen == gbl.gbl_fd # -1 /\ fds[gbl.gbl_fd] = "file"

FileInv ==
  /\ Counted <= Len(handled)
  /\ At(AfterFile) => Spare
  /\ At(Begun) => Spare \/ FileIsOpen
  /\ handled # <<>> /\ stack = <<>> => Spare

LEMMA CountsType ==
  ASSUME TypeOK
  PROVE  /\ IsFiniteSet(Files) /\ IsFiniteSet(Pending)
         /\ Cardinality(Files) \in Nat /\ Cardinality(Pending) \in Nat
         /\ Len(handled) \in Nat
<1>1. Len(stack) \in Nat /\ Len(handled) \in Nat /\ LastFd \in Nat
  BY CrashAssumption DEF TypeOK
<1>2. IsFiniteSet(Fds) /\ IsFiniteSet(1..Len(stack))
  BY <1>1, FS_Interval DEF Fds
<1>3. Files \in SUBSET Fds /\ Pending \in SUBSET (1..Len(stack))
  BY DEF Files, Pending
<1>4. IsFiniteSet(Files) /\ IsFiniteSet(Pending)
  BY <1>2, <1>3, FS_Subset
<1> QED BY <1>1, <1>4, FS_CardinalityType

LEMMA MovesPending ==
  ASSUME TypeOK, StackTyped, Moves, Top'.at # "outputInit"
  PROVE  /\ Top.at # "outputInit" => Pending' = Pending
         /\ Top.at = "outputInit" => Cardinality(Pending') = Cardinality(Pending) - 1
<1>1. Len(stack) \in Nat \ {0} /\ Len(stack') = Len(stack)
  BY TopType DEF Moves
<1>2. ASSUME NEW i \in 1..Len(stack)
      PROVE  i \in Pending' <=> i \in Pending /\ i # Len(stack)
  <2>1. CASE i = Len(stack)
    BY <1>1, <2>1 DEF Pending, Top
  <2>2. CASE i # Len(stack)
    <3>1. i \in 1..(Len(stack) - 1)
      BY <1>1, <2>2
    <3>2. stack'[i] = stack[i]
      BY <3>1 DEF Moves
    <3> QED BY <1>1, <2>2, <3>2 DEF Pending
  <2> QED BY <2>1, <2>2
<1>3. \A i \in Pending \cup Pending' : i \in 1..Len(stack)
  BY <1>1 DEF Pending
<1>4. Pending' = Pending \ {Len(stack)}
  BY <1>2, <1>3
<1>5. Top.at = "outputInit" <=> Len(stack) \in Pending
  BY <1>1 DEF Pending, Top
<1>6. IsFiniteSet(Pending)
  BY CountsType
<1>7. Cardinality(Pending \ {Len(stack)}) =
        IF Len(stack) \in Pending THEN Cardinality(Pending) - 1 ELSE Cardinality(Pending)
  BY <1>6, FS_RemoveElement
<1> QED BY <1>4, <1>5, <1>7

LEMMA EnterPending ==
  ASSUME TypeOK, NEW s \in Signals, Enter(s)
  PROVE  Cardinality(Pending') = Cardinality(Pending) + 1
<1>1. PICK n \in Nat : n = Len(stack)
  BY DEF TypeOK
<1>2. /\ Len(stack') = n + 1 /\ stack'[n + 1].at = "outputInit"
      /\ \A i \in 1..n : stack'[i] = [stack[i] EXCEPT !.alone = FALSE]
  BY <1>1, EnterTop DEF Top
<1>3. ASSUME NEW i \in 1..n PROVE stack'[i].at = stack[i].at
  <2>1. stack[i] \in Handler
    BY <1>1 DEF TypeOK
  <2> QED BY <1>2, <2>1 DEF Handler
<1>4. \A i \in 1..(n + 1) : i \in 1..n \/ i = n + 1
  BY UpTo
<1>5. \A i \in 1..n : i \in 1..(n + 1) /\ i # n + 1
  BY UpTo
<1>6. n + 1 \in 1..(n + 1)
  OBVIOUS
<1>7. Pending = {i \in 1..n : stack[i].at = "outputInit"}
      /\ Pending' = {i \in 1..(n + 1) : stack'[i].at = "outputInit"}
  BY <1>1, <1>2 DEF Pending
<1>8. Pending' = Pending \cup {n + 1} /\ n + 1 \notin Pending
  BY <1>2, <1>3, <1>4, <1>5, <1>6, <1>7
<1> QED BY <1>8, CountsType, FS_AddElement

LEMMA ReturnPending ==
  ASSUME TypeOK, Return PROVE Pending' = Pending
<1>1. PICK n \in Nat \ {0} : n = Len(stack)
  BY ReturnStack
<1>2. /\ Len(stack') = n - 1 /\ stack[n].at = "return"
      /\ \A i \in 1..(n - 1) : stack'[i] = stack[i]
  BY <1>1, ReturnStack DEF Top
<1>3. \A i \in 1..n : i \in 1..(n - 1) \/ i = n
  BY UpTo, n - 1 \in Nat, n = (n - 1) + 1
<1>4. \A i \in 1..(n - 1) : i \in 1..n
  BY UpTo, n - 1 \in Nat, n = (n - 1) + 1
<1>5. Pending = {i \in 1..n : stack[i].at = "outputInit"}
      /\ Pending' = {i \in 1..(n - 1) : stack'[i].at = "outputInit"}
  BY <1>1, <1>2 DEF Pending
<1> QED BY <1>2, <1>3, <1>4, <1>5

\* A step that closes one descriptor, or none.
LEMMA FileClose ==
  ASSUME TypeOK, FileInv, StackTyped, Moves, UNCHANGED <<gbl, handled>>,
         Top.at # "outputInit", Top'.at # "outputInit",
         NEW c \in Fds \cup {-1}, fds' = IF c = -1 THEN fds ELSE Close(c),
         Top'.at \in AfterFile => Top.at \in AfterFile \/ c = gbl.gbl_fd
  PROVE  FileInv'
<1>1. Pending' = Pending /\ stack' # <<>>
  BY MovesPending, TopType DEF Moves
<1>2. /\ IsFiniteSet(Files) /\ Cardinality(Files) \in Nat /\ Cardinality(Pending) \in Nat
      /\ Len(handled) \in Nat
  BY CountsType
<1>3. Files' = Files \ {c} /\ -1 \notin Fds /\ DOMAIN fds = Fds
  BY CrashAssumption DEF Files, Close, Fds, TypeOK
<1>4. Cardinality(Files') = IF c \in Files THEN Cardinality(Files) - 1 ELSE Cardinality(Files)
  BY <1>2, <1>3, FS_RemoveElement
<1>5. Counted' <= Counted /\ (c \in Files => Counted' < Counted)
      /\ Counted \in Nat /\ Counted' \in Int
  BY <1>1, <1>2, <1>4 DEF Counted
<1>6. Spare => Spare'
  BY <1>2, <1>5 DEF Spare
<1>7. c \in Files => Spare'
  BY <1>2, <1>5 DEF Spare, FileInv
<1>8. At(Begun)
  <2>1. Top.at \in Begun
    BY TopType DEF Begun, Handler
  <2> QED BY <2>1, TopAt
<1>9. Spare \/ FileIsOpen
  BY <1>8 DEF FileInv
<1>10. FileIsOpen => (c = gbl.gbl_fd /\ c \in Files) \/ FileIsOpen'
  <2> SUFFICES ASSUME FileIsOpen, c # gbl.gbl_fd PROVE FileIsOpen'
    BY DEF FileIsOpen, Files, TypeOK
  <2>1. gbl.gbl_fd \in Fds
    BY DEF FileIsOpen, TypeOK
  <2> QED BY <1>3, <2>1 DEF FileIsOpen, Close
<1>11. At(AfterFile)' => Spare'
  <2> SUFFICES ASSUME At(AfterFile)' PROVE Spare'
    OBVIOUS
  <2>1. CASE At(AfterFile)
    BY <1>6, <2>1 DEF FileInv
  <2>2. CASE Top.at \in AfterFile
    BY <2>1, <2>2, TopAt
  <2>3. CASE c = gbl.gbl_fd
    BY <1>6, <1>7, <1>9, <2>3 DEF FileIsOpen, Files, TypeOK
  <2> QED BY <2>1, <2>2, <2>3, MovesAt
<1>12. Counted' <= Len(handled)
  BY <1>2, <1>5 DEF FileInv
<1> QED BY <1>1, <1>6, <1>7, <1>9, <1>10, <1>11, <1>12 DEF FileInv

LEMMA FileQuiet == ASSUME TypeOK, FileInv, Quiet PROVE FileInv'
<1>1. /\ StackTyped /\ Moves /\ UNCHANGED <<gbl, handled>> /\ fds' = fds
      /\ Top.at # "outputInit" /\ Top'.at # "outputInit"
      /\ (Top'.at \in AfterFile => Top.at \in AfterFile)
  BY DEF Quiet, AfterFile
<1> QED BY <1>1, FileClose, -1 \in Fds \cup {-1}

LEMMA FileFini ==
  ASSUME TypeOK, FileInv, CloseFile \/ CloseStdout \/ CloseDevice
  PROVE  FileInv'
<1>1. CASE CloseFile
  <2>1. /\ StackTyped /\ Moves /\ Top.at = "closeFile" /\ Top'.at = "closeStdout"
    BY <1>1, StageStep DEF CloseFile, Stages
  <2>2. gbl.gbl_fd \in Fds \cup {-1}
    BY DEF TypeOK
  <2>3. /\ fds' = (IF gbl.gbl_fd = -1 THEN fds ELSE Close(gbl.gbl_fd))
        /\ UNCHANGED <<gbl, handled>>
    BY <1>1 DEF CloseFile, ghosts
  <2> QED BY <2>1, <2>2, <2>3, FileClose
<1>2. CASE CloseStdout
  <2>1. /\ StackTyped /\ Moves /\ Top.at = "closeStdout" /\ Top'.at = "closeDevice"
    BY <1>2, StageStep DEF CloseStdout, Stages
  <2>2. 1 \in Fds \cup {-1} /\ -1 \in Fds \cup {-1} /\ UNCHANGED <<gbl, handled>>
    BY <1>2, CrashAssumption DEF Fds, CloseStdout, ghosts
  <2>3. fds' = Close(1) \/ fds' = fds
    BY <1>2 DEF CloseStdout
  <2> QED BY <2>1, <2>2, <2>3, FileClose DEF AfterFile
<1>3. CASE CloseDevice
  <2>1. /\ StackTyped /\ Moves /\ Top.at = "closeDevice" /\ Top'.at = "forget"
    BY <1>3, StageStep DEF CloseDevice, Stages
  <2>2. gbl.fd \in Fds \cup {-1}
    BY DEF TypeOK
  <2>3. /\ fds' = (IF gbl.fd = -1 THEN fds ELSE Close(gbl.fd))
        /\ UNCHANGED <<gbl, handled>>
    BY <1>3 DEF CloseDevice, ghosts
  <2> QED BY <2>1, <2>2, <2>3, FileClose DEF AfterFile
<1> QED BY <1>1, <1>2, <1>3

LEMMA FileForget == ASSUME TypeOK, FileInv, Forget PROVE FileInv'
<1>1. /\ StackTyped /\ Moves /\ Top.at = "forget" /\ Top'.at = "reset"
  BY StageStep DEF Forget, Stages
<1>2. Pending' = Pending /\ Files' = Files /\ UNCHANGED handled
  BY <1>1, MovesPending DEF Forget, Files, ghosts
<1>3. Spare
  BY <1>1, TopAt DEF FileInv, AfterFile
<1>4. Spare' /\ Counted' <= Len(handled')
  BY <1>2, <1>3 DEF Spare, Counted, FileInv
<1> QED BY <1>4 DEF FileInv

LEMMA FileOpen == ASSUME TypeOK, FileInv, outputInit PROVE FileInv'
<1>1. /\ StackTyped /\ Moves /\ Top.at = "outputInit" /\ Top'.at = "banner" /\ stack # <<>>
  BY StageStep DEF outputInit, Stages, Running
<1>2. Cardinality(Pending') = Cardinality(Pending) - 1
  BY <1>1, MovesPending
<1>3. /\ IsFiniteSet(Files) /\ Cardinality(Files) \in Nat /\ Cardinality(Pending) \in Nat
      /\ Len(handled) \in Nat /\ UNCHANGED handled
  BY CountsType DEF outputInit
<1>4. At(AfterFile)' => Spare
  BY <1>1, MovesAt DEF FileInv, AfterFile
<1>5. stack' # <<>>
  BY <1>1, TopType DEF Moves
<1>6. ASSUME NEW d \in Fds, fds' = [fds EXCEPT ![d] = "file"], gbl' = [gbl EXCEPT !.gbl_fd = d]
      PROVE  FileInv'
  <2>1. FileIsOpen'
    BY <1>6, CrashAssumption DEF FileIsOpen, TypeOK, Fds
  <2>2. Files' = Files \cup {d}
    BY <1>6 DEF Files, TypeOK
  <2>3. Cardinality(Files') <= Cardinality(Files) + 1 /\ Cardinality(Files') \in Nat
    BY <1>3, <2>2, FS_AddElement
  <2>4. Counted' <= Counted /\ Counted \in Nat /\ Counted' \in Int
    BY <1>2, <1>3, <2>3 DEF Counted
  <2>5. Counted' <= Len(handled') /\ (Spare => Spare')
    BY <1>3, <2>4 DEF Spare, FileInv
  <2> QED BY <1>4, <1>5, <2>1, <2>5 DEF FileInv
<1>7. CASE fds' = fds
  <2>1. Files' = Files
    BY <1>7 DEF Files
  <2>2. Counted' < Counted /\ Counted \in Nat /\ Counted' \in Int
    BY <1>2, <1>3, <2>1 DEF Counted
  <2>3. Counted' <= Len(handled') /\ Spare'
    BY <1>3, <2>2 DEF Spare, FileInv
  <2> QED BY <2>3 DEF FileInv
<1> QED BY <1>6, <1>7 DEF outputInit

LEMMA FileRegister == ASSUME TypeOK, FileInv, miscCrash_register PROVE FileInv'
<1>1. UNCHANGED <<stack, handled>> /\ Pending' = Pending
  BY DEF miscCrash_register, Pending
<1>2. Files' = Files
  <2>1. \A e \in Fds : fds'[e] = "file" <=> fds[e] = "file"
    <3>1. PICK stat \in Fds, d \in Fds \cup {-1} :
             /\ fds[stat] = "closed" /\ (d # -1 => fds[d] = "closed")
             /\ \A e \in Fds : fds'[e] = IF e = stat THEN "stat"
                                         ELSE IF e = d THEN "device" ELSE fds[e]
      BY Registers
    <3>2. -1 \notin Fds
      BY DEF Fds
    <3> QED BY <3>1, <3>2
  <2> QED BY <2>1 DEF Files
<1>3. /\ FileIsOpen => FileIsOpen'
      /\ At(AfterFile)' <=> At(AfterFile)
      /\ At(Begun)' <=> At(Begun)
  <2>1. (At(AfterFile)' <=> At(AfterFile)) /\ (At(Begun)' <=> At(Begun))
    BY <1>1 DEF At
  <2>2. gbl'.gbl_fd = gbl.gbl_fd
    BY Registers
  <2>3. FileIsOpen => FileIsOpen'
    <3> SUFFICES ASSUME FileIsOpen PROVE fds'[gbl.gbl_fd] = "file"
      BY <2>2 DEF FileIsOpen
    <3>1. fds[gbl.gbl_fd] = "file" /\ gbl.gbl_fd \in Fds
      BY DEF FileIsOpen, TypeOK
    <3>2. PICK stat \in Fds, d \in Fds \cup {-1} :
             /\ fds[stat] = "closed" /\ (d # -1 => fds[d] = "closed")
             /\ \A e \in Fds : fds'[e] = IF e = stat THEN "stat"
                                         ELSE IF e = d THEN "device" ELSE fds[e]
      BY Registers
    <3>3. -1 \notin Fds /\ gbl.gbl_fd # stat /\ gbl.gbl_fd # d
      BY <3>1, <3>2 DEF Fds
    <3> QED BY <3>1, <3>2, <3>3
  <2> QED BY <2>1, <2>3
<1>4. Counted' = Counted /\ (Spare' <=> Spare)
  BY <1>1, <1>2 DEF Counted, Spare
<1> QED BY <1>1, <1>3, <1>4 DEF FileInv

LEMMA FileEnter == ASSUME TypeOK, FileInv, NEW s \in Signals, Enter(s) PROVE FileInv'
<1>1. Cardinality(Pending') = Cardinality(Pending) + 1
  BY EnterPending
<1>2. /\ Cardinality(Files) \in Nat /\ Cardinality(Pending) \in Nat /\ Len(handled) \in Nat
  BY CountsType
<1>3. /\ Files' = Files /\ UNCHANGED <<fds, gbl>> /\ Len(handled') = Len(handled) + 1
      /\ stack' # <<>>
  <2>1. stack' # <<>>
    BY EnterTop
  <2>2. handled \in Seq(Signals) /\ handled' = Append(handled, s)
    BY DEF Enter, TypeOK
  <2>3. Len(handled') = Len(handled) + 1
    BY <2>2
  <2> QED BY <2>1, <2>3 DEF Enter, Files
<1>4. Counted' = Counted + 1 /\ Counted \in Nat
  BY <1>1, <1>2, <1>3 DEF Counted
<1>5. (Spare' <=> Spare) /\ Counted' <= Len(handled')
  BY <1>2, <1>3, <1>4 DEF Spare, FileInv
<1>6. At(AfterFile)' => At(AfterFile)
  BY EnterAt DEF AfterFile
<1>7. At(Begun)' => At(Begun)
  BY EnterAt DEF Begun
<1>8. FileIsOpen' <=> FileIsOpen
  BY <1>3 DEF FileIsOpen
<1> QED BY <1>3, <1>5, <1>6, <1>7, <1>8 DEF FileInv

LEMMA FileReturn == ASSUME TypeOK, FileInv, Return PROVE FileInv'
<1>1. Pending' = Pending /\ Files' = Files /\ UNCHANGED handled
  BY ReturnPending DEF Return, Files, ghosts
<1>2. Spare
  BY ReturnStack, TopAt DEF FileInv, AfterFile
<1>3. Spare' /\ Counted' <= Len(handled')
  BY <1>1, <1>2 DEF Spare, Counted, FileInv
<1> QED BY <1>3 DEF FileInv

LEMMA FileStep == TypeOK /\ FileInv /\ [Next]_vars => FileInv'
<1> SUFFICES ASSUME TypeOK, FileInv, [Next]_vars PROVE FileInv'
  OBVIOUS
<1>1. CASE miscCrash_register
  BY <1>1, FileRegister
<1>2. ASSUME NEW s \in Signals, Deliver(s) PROVE FileInv'
  <2>1. CASE Enter(s)
    BY <2>1, FileEnter
  <2>2. CASE Kill
    BY <2>2 DEF Kill, ghosts, FileInv, Spare, Counted, Files, Pending, At, FileIsOpen
  <2> QED BY <1>2, <2>1, <2>2 DEF Deliver
<1>3. CASE outputInit
  BY <1>3, FileOpen
<1>4. CASE outputBacktrace
  BY <1>4, PrintSteps, PrintfIsQuiet, OthersAreQuiet, FileQuiet
<1>5. CASE outputFini
  BY <1>5, FileFini, FileForget DEF outputFini
<1>6. CASE Reset
  BY <1>6, OthersAreQuiet, FileQuiet
<1>7. CASE Return
  BY <1>7, FileReturn
<1>8. CASE UNCHANGED vars
  BY <1>8 DEF vars, ghosts, FileInv, Spare, Counted, Files, Pending, At, FileIsOpen
<1> QED BY <1>1, <1>2, <1>3, <1>4, <1>5, <1>6, <1>7, <1>8 DEF Next, crash_handler

LEMMA FileInit == Init => FileInv
<1> SUFFICES ASSUME Init PROVE FileInv
  OBVIOUS
<1>1. \A S : ~ At(S)
  BY DEF At, Init
<1>2. Files = {} /\ Pending = {}
  <2>1. ASSUME NEW d \in Fds PROVE fds[d] # "file"
    <3>1. d < 3 => d = 0 \/ d = 1 \/ d = 2
      BY CrashAssumption DEF Fds
    <3> QED BY <3>1 DEF Init
  <2> QED BY <2>1 DEF Files, Pending, Init
<1>3. Counted = 0 /\ handled = <<>>
  BY <1>2, FS_EmptySet DEF Counted, Init
<1> QED BY <1>1, <1>3 DEF FileInv

(* When the last handler has returned, stdout and the device are closed,   *)
(* and of the files the handlers have opened one at least is closed too,   *)
(* however they have interrupted one another (outputInit, outputFini).     *)
THEOREM StreamsCorrect == Spec => []StreamsAreClosed
<1>1. TypeOK /\ StreamInv /\ FileInv => StreamsAreClosed
  <2> SUFFICES ASSUME TypeOK, StreamInv, FileInv,
                      proc = "running", stack = <<>>, handled # <<>>
               PROVE  /\ \A d \in Fds : fds[d] \notin {"stdout", "device"}
                      /\ Cardinality(Files) < Len(handled)
    BY DEF StreamsAreClosed, Files
  <2>1. ~ stdio /\ NoDevice
    BY DEF StreamInv
  <2>2. \A d \in Fds : fds[d] \notin {"stdout", "device"}
    BY <2>1 DEF StreamInv, NoDevice
  <2>3. Spare
    BY DEF FileInv
  <2> QED BY <2>2, <2>3, CountsType DEF Spare, Counted
<1> QED BY <1>1, TypeCorrect, StreamInit, StreamStep, FileInit, FileStep, PTL DEF Spec

-----------------------------------------------------------------------------
(* Dumps that nothing interrupts.  While such a handler runs, the lines of *)
(* its dump are the last ones of every sink it has, as many as the stage   *)
(* and the step tell; every destination is the sink it is meant to be.     *)
SinkOf(s) == <<"file", "stdout", "device">>[s]

\* Parts the dump has finished when it is at a stage.
PartsDone(stage) == CASE stage \in {"outputInit", "banner"} -> 0
                      [] stage \in {"popen", "ps"} -> 1
                      [] stage \in {"restore", "proc"} -> 2
                      [] stage \in {"unwind", "frames"} -> 3
                      [] stage = "end" -> 4
                      [] OTHER -> 5

\* Parts destination s has received.
Written(s) == PartsDone(Top.at) + IF Top.step > s THEN 1 ELSE 0

\* The last n of the lines, and no others, are of dump id: its first n parts.
Ends(lines, id, n) ==
  /\ n <= Len(lines)
  /\ \A i \in 1..Len(lines) :
       IF i <= Len(lines) - n THEN lines[i].id # id
       ELSE lines[i].id = id /\ lines[i].part = Parts[i - (Len(lines) - n)]

Alone == /\ proc = "running" /\ stack # <<>> /\ Top.alone
         /\ failed \subseteq {"path", "device", "open"}

\* Has the running handler destination s?
Has(s) == IF s = 1 THEN "open" \notin failed
          ELSE Top.id = 1 /\ (s = 3 => failed \cap {"path", "device"} = {})

SlotOK(s) ==
  /\ Destination(s) # -1 => fds[Destination(s)] \in {SinkOf(s), "stdin"}
  /\ Has(s) => Destination(s) # -1 /\ fds[Destination(s)] = SinkOf(s)

LinesOK == \A s \in 1..3 : Has(s) => Ends(out[SinkOf(s)], Top.id, Written(s))

SlotsOK ==
  PartsDone(Top.at) < 5 => /\ SlotOK(2) /\ SlotOK(3)
                           /\ Top.at # "outputInit" => SlotOK(1)

StepOK ==
  Top.step # 0 => /\ Top.at \in ToSet(Parts)
                  /\ Top.dest = Destination(Top.step) /\ Top.dest # -1
                  /\ line.id = Top.id /\ line.part = Top.at

\* A process that has registered and has not been hit yet.
Fresh ==
  /\ proc = "new" => fds[0] = "stdin" /\ fds[1] = "stdout"
  /\ proc = "running" /\ handled = <<>> =>
       /\ gbl.filep /\ fds[1] = "stdout"
       /\ gbl.fd # -1 => fds[gbl.fd] \in {"stdin", "device"}
       /\ failed \cap {"path", "device"} = {} => gbl.fd # -1 /\ fds[gbl.fd] = "device"

OnlyOne == \A i \in 1..Len(stack) : stack[i].alone => Len(stack) = 1

IdsOK ==
  /\ \A i \in 1..Len(stack) : stack[i].id <= Len(handled)
  /\ line.id <= Len(handled)
  /\ \A k \in Sinks : \A i \in 1..Len(out[k]) : out[k][i].id <= Len(handled)

DumpInv == OnlyOne /\ IdsOK /\ Fresh /\ (Alone => LinesOK /\ SlotsOK /\ StepOK)

LEMMA PartsAre == Len(Parts) = 5 /\ DOMAIN Parts = 1..5
BY DEF Parts

LEMMA EndsAppend ==
  ASSUME NEW lines \in Seq(Line), NEW l \in Line, NEW id, NEW n \in 0..4,
         Ends(lines, id, n), l.id = id, l.part = Parts[n + 1]
  PROVE  Ends(Append(lines, l), id, n + 1)
<1> DEFINE t == Append(lines, l)
           L == Len(lines)
<1>1. L \in Nat /\ Len(t) = L + 1 /\ t[L + 1] = l /\ \A i \in 1..L : t[i] = lines[i]
  OBVIOUS
<1>2. /\ n <= L
      /\ \A i \in 1..L : IF i <= L - n THEN lines[i].id # id
                         ELSE lines[i].id = id /\ lines[i].part = Parts[i - (L - n)]
  BY DEF Ends
<1> HIDE DEF t, L
<1>3. L + 1 - (n + 1) = L - n
  BY <1>1
<1>4. ASSUME NEW i \in 1..(L + 1)
      PROVE  IF i <= L - n THEN t[i].id # id
             ELSE t[i].id = id /\ t[i].part = Parts[i - (L - n)]
  <2>1. CASE i \in 1..L
    BY <1>1, <1>2, <2>1
  <2>2. CASE i = L + 1
    <3>1. ~ (i <= L - n) /\ i - (L - n) = n + 1
      BY <1>1, <2>2
    <3> QED BY <1>1, <2>2, <3>1
  <2> QED BY <1>1, <2>1, <2>2
<1>5. n + 1 <= L + 1
  BY <1>1, <1>2
<1>6. Ends(t, id, n + 1)
  BY <1>1, <1>3, <1>4, <1>5 DEF Ends
<1> QED BY <1>6 DEF t

LEMMA EndsComplete ==
  ASSUME TypeOK, NEW k \in Sinks, NEW id, Ends(out[k], id, 5)
  PROVE  Complete(k, id)
<1> DEFINE lines == out[k]
           L == Len(lines)
           n == L - 5
<1>1. lines \in Seq(Line) /\ DOMAIN lines = 1..L /\ L \in Nat
  BY DEF TypeOK
<1>2. /\ 5 <= L
      /\ \A i \in 1..L : IF i <= n THEN lines[i].id # id
                         ELSE lines[i].id = id /\ lines[i].part = Parts[i - n]
  BY DEF Ends
<1> HIDE DEF lines, L
<1>3. n \in 0..(L - 5)
  BY <1>1, <1>2
<1>4. \A i \in 1..5 : lines[n + i].id = id /\ lines[n + i].part = Parts[i]
  <2> SUFFICES ASSUME NEW i \in 1..5
               PROVE  lines[n + i].id = id /\ lines[n + i].part = Parts[i]
    OBVIOUS
  <2>1. n + i \in 1..L /\ ~ (n + i <= n) /\ (n + i) - n = i
    BY <1>1, <1>2, <1>3
  <2> QED BY <1>2, <2>1
<1>5. \A i \in 1..L : lines[i].id = id => i - n \in 1..5
  <2> SUFFICES ASSUME NEW i \in 1..L, lines[i].id = id
               PROVE  i - n \in 1..5
    OBVIOUS
  <2>1. ~ (i <= n)
    BY <1>2
  <2> QED BY <1>1, <1>3, <2>1
<1> QED BY <1>1, <1>3, <1>4, <1>5, PartsAre DEF Complete, lines, L

\* The part a stage prints and the stage after it.
Follows(part, next) == <<part, next>> \in {<<"banner", "popen">>, <<"ps", "restore">>,
  <<"proc", "unwind">>, <<"frames", "end">>, <<"end", "closeFile">>}

LEMMA FollowsDone ==
  ASSUME NEW part, NEW next, Follows(part, next)
  PROVE  /\ part \in ToSet(Parts)
         /\ next \in Stages \cap {"popen", "restore", "unwind", "end", "closeFile"}
         /\ PartsDone(part) \in 0..4 /\ PartsDone(next) = PartsDone(part) + 1
         /\ Parts[PartsDone(part) + 1] = part
BY PartsType DEF Follows, PartsDone, Parts

LEMMA PrintPairs ==
  ASSUME outputBacktrace
  PROVE  \/ \E part, next : Follows(part, next) /\ outputPrintf(part, next)
         \/ outputCmd \/ outputCmdRestores \/ createGlobalBacktrace
BY DEF outputBacktrace, Follows

\* The running handler goes to destination d, or to the next stage.
GoesTo(k, d) == /\ Moves /\ Top'.at = Top.at /\ Top'.step = d
                /\ Top'.dest = Destination(d) /\ Destination(d) # -1
                /\ \A e \in (k + 1)..(d - 1) : Destination(e) = -1
EndsAt(k, next) == Reaches(next) /\ \A e \in (k + 1)..3 : Destination(e) = -1

LEMMA GoOnGoes ==
  ASSUME StackTyped, NEW k \in 0..3, NEW next \in Stages, GoOn(k, next),
         \A d \in 1..3 : Destination(d) \in Fds \cup {-1}
  PROVE  EndsAt(k, next) \/ \E d \in (k + 1)..3 : GoesTo(k, d)
<1>1. CASE Goto(next) /\ \A d \in (k + 1)..3 : Destination(d) = -1
  BY <1>1, GotoReaches DEF EndsAt
<1>2. ASSUME NEW d \in (k + 1)..3, Destination(d) # -1,
             \A e \in (k + 1)..(d - 1) : Destination(e) = -1,
             SetTop([Top EXCEPT !.step = d, !.dest = Destination(d)])
      PROVE  GoesTo(k, d)
  <2>1. PICK t : t = Top
    OBVIOUS
  <2>2. PICK e : e = Destination(d)
    OBVIOUS
  <2>3. d \in 1..3 /\ d \in 0..3
    OBVIOUS
  <2>4. t \in Handler /\ e \in Fds \cup {-1}
    BY TopType, <2>1, <2>2, <2>3
  <2>5. PICK g : g = [t EXCEPT !.step = d, !.dest = e]
    OBVIOUS
  <2>6. /\ g \in Handler /\ g.at = t.at /\ g.step = d /\ g.dest = e
        /\ g.id = t.id /\ g.alone = t.alone
    BY <2>3, <2>4, <2>5 DEF Handler
  <2>7. SetTop(g)
    BY <1>2, <2>1, <2>2, <2>5
  <2>8. Moves /\ Top' = g
    BY <2>1, <2>6, <2>7, SetTopMoves
  <2> QED BY <1>2, <2>1, <2>2, <2>6, <2>8 DEF GoesTo
<1> QED BY <1>1, <1>2 DEF GoOn

\* What the steps of a handler keep whatever they print.
LEMMA DumpMoves ==
  ASSUME TypeOK, DumpInv, StackTyped, Moves, proc' # "new", UNCHANGED handled,
         line'.id <= Len(handled),
         \A k \in Sinks : \A i \in 1..Len(out'[k]) : out'[k][i].id <= Len(handled),
         Alone' => LinesOK' /\ SlotsOK' /\ StepOK'
  PROVE  DumpInv'
<1>1. PICK n \in Nat \ {0} : n = Len(stack) /\ n = Len(stack')
  BY TopType DEF Moves
<1>2. ASSUME NEW i \in 1..n
      PROVE  stack'[i].alone = stack[i].alone /\ stack'[i].id = stack[i].id
  <2>1. CASE i = n
    BY <1>1, <2>1 DEF Moves, Top
  <2>2. CASE i # n
    <3>1. i \in 1..(Len(stack) - 1)
      BY <1>1, <2>2
    <3> QED BY <3>1 DEF Moves
  <2> QED BY <2>1, <2>2
<1>3. OnlyOne'
  BY <1>1, <1>2 DEF OnlyOne, DumpInv
<1>4. IdsOK'
  BY <1>1, <1>2 DEF IdsOK, DumpInv
<1>5. handled # <<>>
  <2>1. 1 \in 1..n /\ stack[1] \in Handler
    BY <1>1 DEF StackTyped
  <2>2. stack[1].id >= 1 /\ stack[1].id <= Len(handled)
    BY <1>1, <2>1 DEF Handler, IdsOK, DumpInv
  <2>3. stack[1].id \in Nat /\ handled \in Seq(Signals)
    BY <2>1 DEF Handler, TypeOK
  <2> SUFFICES ASSUME handled = <<>> PROVE FALSE
    OBVIOUS
  <2>4. Len(handled) = 0
    OBVIOUS
  <2> QED BY <2>2, <2>3, <2>4
<1>6. Fresh'
  BY <1>5 DEF Fresh
<1> QED BY <1>3, <1>4, <1>6 DEF DumpInv

LEMMA AloneBefore ==
  ASSUME StackTyped, Moves, proc = "running", failed \subseteq failed', Alone'
  PROVE  Alone /\ \A s \in 1..3 : Has(s)' => Has(s)
BY DEF Alone, Has, Moves, StackTyped

\* A step that prints nothing and leaves the destinations alone.
LEMMA DumpSilent ==
  ASSUME TypeOK, DumpInv, StackTyped, Moves, proc = "running", proc' # "new",
         UNCHANGED <<handled, line, out>>, failed \subseteq failed',
         Alone => Top'.step = 0 /\ Top.step = 0,
         Top.at # "outputInit", Top'.at # "outputInit",
         PartsDone(Top'.at) = PartsDone(Top.at),
         PartsDone(Top.at) < 5 => UNCHANGED <<fds, gbl>>
  PROVE  DumpInv'
<1>1. SUFFICES ASSUME Alone' PROVE LinesOK' /\ SlotsOK' /\ StepOK'
  <2>1. line'.id <= Len(handled)
        /\ \A k \in Sinks : \A i \in 1..Len(out'[k]) : out'[k][i].id <= Len(handled)
    BY DEF DumpInv, IdsOK
  <2> QED BY <2>1, DumpMoves
<1>2. Alone /\ \A s \in 1..3 : Has(s)' => Has(s)
  BY <1>1, AloneBefore
<1>3. LinesOK /\ SlotsOK /\ Top.step = 0 /\ Top'.step = 0 /\ Top'.id = Top.id
  BY <1>2 DEF DumpInv, Moves
<1>4. \A s \in 1..3 : Written(s)' = Written(s)
  BY <1>3 DEF Written
<1>5. LinesOK'
  <2> SUFFICES ASSUME NEW s \in 1..3, Has(s)'
               PROVE  Ends(out[SinkOf(s)], Top.id, Written(s))
    BY <1>3, <1>4 DEF LinesOK
  <2> QED BY <1>2, <1>3 DEF LinesOK
<1>6. SlotsOK'
  <2> SUFFICES ASSUME PartsDone(Top.at) < 5
               PROVE  SlotOK(1)' /\ SlotOK(2)' /\ SlotOK(3)'
    BY DEF SlotsOK
  <2>1. SlotOK(1) /\ SlotOK(2) /\ SlotOK(3)
    BY <1>3 DEF SlotsOK
  <2>2. \A s : Destination(s)' = Destination(s)
    BY DEF Destination
  <2> QED BY <1>2, <2>1, <2>2 DEF SlotOK
<1>7. StepOK'
  BY <1>3 DEF StepOK
<1> QED BY <1>5, <1>6, <1>7

\* What has a step prints a part.
LEMMA NoStep ==
  ASSUME DumpInv, Alone, Top.at \notin ToSet(Parts) PROVE Top.step = 0
BY DEF DumpInv, StepOK

LEMMA DumpCmd ==
  ASSUME TypeOK, DumpInv, outputCmd \/ outputCmdRestores
  PROVE  DumpInv'
<1>1. /\ StackTyped /\ Moves
      /\ \/ Top.at = "popen" /\ Top'.at = "ps" /\ UNCHANGED failed
            /\ Top' = [Top EXCEPT !.at = "ps", !.saved = chld]
         \/ Top.at = "popen" /\ Top'.at = "proc" /\ "popen" \in failed'
         \/ Top.at = "restore" /\ Goto("proc") /\ Top'.at = "proc" /\ UNCHANGED failed
  BY CmdSteps
<1>2. /\ proc = "running" /\ proc' # "new" /\ UNCHANGED <<handled, line, out, fds, gbl>>
      /\ failed \subseteq failed'
  BY DEF outputCmd, outputCmdRestores, Running, ghosts, Fails
<1>3. CASE "popen" \in failed'
  <2>1. ~ Alone'
    BY <1>3 DEF Alone
  <2>2. line'.id <= Len(handled)
        /\ \A k \in Sinks : \A i \in 1..Len(out'[k]) : out'[k][i].id <= Len(handled)
    BY <1>2 DEF DumpInv, IdsOK
  <2> QED BY <1>1, <1>2, <2>1, <2>2, DumpMoves
<1>4. CASE Top.at = "popen" /\ Top' = [Top EXCEPT !.at = "ps", !.saved = chld] /\ Top'.at = "ps"
  <2>1. Alone => Top.step = 0
    BY <1>4, NoStep, PartsType
  <2>2. Top'.step = Top.step
    <3>1. Top \in Handler
      BY <1>1, TopType
    <3> QED BY <1>4, <3>1 DEF Handler
  <2>3. PartsDone(Top'.at) = PartsDone(Top.at)
    BY <1>4 DEF PartsDone
  <2> QED BY <1>1, <1>2, <1>4, <2>1, <2>2, <2>3, DumpSilent
<1>5. CASE Top.at = "restore" /\ Goto("proc") /\ Top'.at = "proc"
  <2>1. Alone => Top.step = 0
    BY <1>5, NoStep, PartsType
  <2>2. Top'.step = 0
    BY <1>1, <1>5, GotoReaches, "proc" \in Stages DEF Reaches, Stages
  <2>3. PartsDone(Top'.at) = PartsDone(Top.at)
    BY <1>5 DEF PartsDone
  <2> QED BY <1>1, <1>2, <1>5, <2>1, <2>2, <2>3, DumpSilent
<1> QED BY <1>1, <1>3, <1>4, <1>5

LEMMA DumpGoto ==
  ASSUME TypeOK, DumpInv, createGlobalBacktrace \/ outputFini \/ Reset
  PROVE  DumpInv'
<1>1. PICK stage \in Stages, next \in Stages :
        /\ Running(stage) /\ Goto(next)
        /\ \/ stage = "unwind" /\ next = "frames"
           \/ /\ stage \in {"closeFile", "closeStdout", "closeDevice", "forget", "reset"}
              /\ next \in {"closeStdout", "closeDevice", "forget", "reset", "return"}
  BY DEF createGlobalBacktrace, outputFini, CloseFile, CloseStdout, CloseDevice, Forget,
         Reset, Stages
<1>2. /\ StackTyped /\ Moves /\ proc = "running"
      /\ Top.at = stage /\ Top'.at = next /\ Top'.step = 0
  BY <1>1, StageStep
<1>3. UNCHANGED <<handled, line, out, failed>> /\ proc' # "new"
  BY <1>2 DEF createGlobalBacktrace, outputFini, CloseFile, CloseStdout, CloseDevice, Forget,
         Reset, ghosts
<1>4. Alone => Top.step = 0
  BY <1>1, <1>2, NoStep, PartsType
<1>5. CASE stage = "unwind" /\ next = "frames"
  <2>1. createGlobalBacktrace
    BY <1>2, <1>5 DEF outputFini, CloseFile, CloseStdout, CloseDevice, Forget, Reset, Running
  <2>2. UNCHANGED <<fds, gbl>>
    BY <2>1 DEF createGlobalBacktrace
  <2>3. PartsDone(next) = PartsDone(stage)
    BY <1>5 DEF PartsDone
  <2> QED BY <1>2, <1>3, <1>4, <1>5, <2>2, <2>3, DumpSilent
<1>6. CASE /\ stage \in {"closeFile", "closeStdout", "closeDevice", "forget", "reset"}
           /\ next \in {"closeStdout", "closeDevice", "forget", "reset", "return"}
  <2>1. PartsDone(next) = 5 /\ PartsDone(stage) = 5
    BY <1>6 DEF PartsDone
  <2>2. stage # "outputInit" /\ next # "outputInit"
    BY <1>6
  <2> QED BY <1>2, <1>3, <1>4, <2>1, <2>2, DumpSilent
<1> QED BY <1>1, <1>5, <1>6

LEMMA DumpOpen == ASSUME TypeOK, DumpInv, outputInit PROVE DumpInv'
<1>1. /\ StackTyped /\ Moves /\ proc = "running"
      /\ Top.at = "outputInit" /\ Top'.at = "banner" /\ Top'.step = 0
  BY StageStep DEF outputInit, Stages
<1>2. UNCHANGED <<handled, line, out, proc>> /\ failed \subseteq failed'
  BY DEF outputInit, Fails
<1>3. SUFFICES ASSUME Alone' PROVE LinesOK' /\ SlotsOK' /\ StepOK'
  <2>1. line'.id <= Len(handled)
        /\ \A k \in Sinks : \A i \in 1..Len(out'[k]) : out'[k][i].id <= Len(handled)
    BY <1>2 DEF DumpInv, IdsOK
  <2> QED BY <1>1, <1>2, <2>1, DumpMoves
<1>4. Alone /\ \A s \in 1..3 : Has(s)' => Has(s)
  BY <1>1, <1>2, <1>3, AloneBefore
<1>5. LinesOK /\ SlotsOK /\ Top.step = 0 /\ Top'.id = Top.id
  BY <1>1, <1>4, NoStep, PartsType DEF DumpInv, Moves
<1>6. PartsDone("outputInit") = 0 /\ PartsDone("banner") = 0
  BY DEF PartsDone
<1>7. LinesOK'
  <2>1. \A s \in 1..3 : Written(s)' = Written(s)
    BY <1>1, <1>5, <1>6 DEF Written
  <2> SUFFICES ASSUME NEW s \in 1..3, Has(s)'
               PROVE  Ends(out[SinkOf(s)], Top.id, Written(s))
    BY <1>2, <1>5, <2>1 DEF LinesOK
  <2> QED BY <1>4, <1>5 DEF LinesOK
<1>8. StepOK'
  BY <1>1 DEF StepOK
<1>9. SlotOK(2) /\ SlotOK(3)
  BY <1>1, <1>5, <1>6 DEF SlotsOK
<1>10. Destination(2)' = Destination(2) /\ Destination(3)' = Destination(3)
       /\ Destination(1)' = gbl'.gbl_fd
  BY DEF outputInit, Destination, TypeOK
<1>11. ASSUME NEW d \in Fds, LowestFree(d), fds' = [fds EXCEPT ![d] = "file"],
              gbl' = [gbl EXCEPT !.gbl_fd = d]
       PROVE  SlotOK(1)' /\ SlotOK(2)' /\ SlotOK(3)'
  <2>1. /\ \A s \in {2, 3} : Destination(s) # -1 => fds[Destination(s)] \in {SinkOf(s), "stdin"}
        /\ SinkOf(2) = "stdout" /\ SinkOf(3) = "device" /\ fds[d] = "closed"
    BY <1>9, <1>11 DEF SlotOK, SinkOf, LowestFree, IsLowestFree
  <2>2. \A s \in {2, 3} : Destination(s) # -1 => Destination(s) # d
    BY <2>1
  <2>3. \A s \in {2, 3} : Destination(s) # -1 =>
            Destination(s) \in Fds /\ fds'[Destination(s)] = fds[Destination(s)]
    BY <1>11, <2>2, DestinationType DEF TypeOK
  <2>4. SlotOK(2)' /\ SlotOK(3)'
    BY <1>4, <1>9, <1>10, <2>3 DEF SlotOK
  <2>5. gbl'.gbl_fd = d /\ fds'[d] = "file" /\ SinkOf(1) = "file" /\ d # -1
    BY <1>11, CrashAssumption DEF TypeOK, SinkOf, Fds
  <2>6. SlotOK(1)'
    BY <1>10, <2>5 DEF SlotOK
  <2> QED BY <2>4, <2>6
<1>12. ASSUME "open" \in failed', gbl' = [gbl EXCEPT !.gbl_fd = -1], UNCHANGED fds
       PROVE  SlotOK(1)' /\ SlotOK(2)' /\ SlotOK(3)'
  <2>1. SlotOK(2)' /\ SlotOK(3)'
    BY <1>4, <1>9, <1>10, <1>12 DEF SlotOK
  <2>2. Destination(1)' = -1 /\ ~ Has(1)'
    BY <1>10, <1>12 DEF TypeOK, Has
  <2> QED BY <2>1, <2>2 DEF SlotOK
<1>13. SlotOK(1)' /\ SlotOK(2)' /\ SlotOK(3)'
  BY <1>11, <1>12 DEF outputInit, Fails
<1> QED BY <1>7, <1>8, <1>13 DEF SlotsOK

\* A step that writes a part to destination k, or formats it when k is 0.
LEMMA DumpGoesOn ==
  ASSUME TypeOK, DumpInv, StackTyped, proc = "running", proc' # "new",
         UNCHANGED <<handled, fds, gbl>>, failed \subseteq failed',
         NEW part, NEW next, Follows(part, next), Top.at = part,
         NEW k \in 0..3, Top.step = k,
         EndsAt(k, next) \/ \E d \in (k + 1)..3 : GoesTo(k, d),
         line'.id <= Len(handled),
         \A s \in Sinks : \A i \in 1..Len(out'[s]) : out'[s][i].id <= Len(handled),
         Alone' => line'.id = Top.id /\ line'.part = part,
         Alone' => \A s \in 1..3 : Has(s) =>
           Ends(out'[SinkOf(s)], Top.id, Written(s) + IF s = k THEN 1 ELSE 0)
  PROVE  DumpInv'
<1> DEFINE n == PartsDone(part)
<1>1. /\ Moves /\ n \in 0..4 /\ PartsDone(next) = n + 1 /\ part \in ToSet(Parts)
      /\ part # "outputInit" /\ next # "outputInit"
  BY FollowsDone, PartsType DEF EndsAt, Reaches, GoesTo
<1> HIDE DEF n
<1>2. SUFFICES ASSUME Alone' PROVE LinesOK' /\ SlotsOK' /\ StepOK'
  BY <1>1, DumpMoves
<1>3. Alone /\ \A s \in 1..3 : Has(s)' => Has(s)
  BY <1>1, <1>2, AloneBefore
<1>4. Top'.id = Top.id /\ \A s : Destination(s)' = Destination(s)
  BY <1>1 DEF Moves, Destination
<1>5. SlotOK(1) /\ SlotOK(2) /\ SlotOK(3)
  BY <1>1, <1>3 DEF DumpInv, SlotsOK, n
<1>6. SlotsOK'
  BY <1>3, <1>4, <1>5 DEF SlotsOK, SlotOK
<1>7. \A s \in 1..3 : Has(s) => Destination(s) # -1
  BY <1>5 DEF SlotOK
<1>8. \A s \in 1..3 : Written(s) = n + IF k > s THEN 1 ELSE 0
  BY DEF Written, n
<1>9. CASE EndsAt(k, next)
  <2>1. Top'.at = next /\ Top'.step = 0
    BY <1>9 DEF EndsAt, Reaches
  <2>2. \A s \in 1..3 : Written(s)' = n + 1
    BY <1>1, <2>1 DEF Written
  <2>3. \A s \in 1..3 : Has(s) => s <= k
    BY <1>7, <1>9 DEF EndsAt
  <2>4. \A s \in 1..3 : Has(s) => Written(s)' = Written(s) + IF s = k THEN 1 ELSE 0
    BY <1>1, <1>8, <2>2, <2>3
  <2>5. LinesOK'
    <3> SUFFICES ASSUME NEW s \in 1..3, Has(s)'
                 PROVE  Ends(out'[SinkOf(s)], Top'.id, Written(s)')
      BY DEF LinesOK
    <3> QED BY <1>2, <1>3, <1>4, <2>4
  <2>6. StepOK'
    BY <2>1 DEF StepOK
  <2> QED BY <1>6, <2>5, <2>6
<1>10. ASSUME NEW d \in (k + 1)..3, GoesTo(k, d)
       PROVE  LinesOK' /\ SlotsOK' /\ StepOK'
  <2>1. /\ Top'.at = part /\ Top'.step = d /\ Top'.dest = Destination(d)
        /\ Destination(d) # -1 /\ \A e \in (k + 1)..(d - 1) : Destination(e) = -1
    BY <1>10 DEF GoesTo
  <2>2. \A s \in 1..3 : Written(s)' = n + IF d > s THEN 1 ELSE 0
    BY <2>1 DEF Written, n
  <2>3. \A s \in 1..3 : Has(s) => s <= k \/ s >= d
    <3> SUFFICES ASSUME NEW s \in 1..3, Has(s), ~ (s <= k), ~ (s >= d) PROVE FALSE
      OBVIOUS
    <3>1. s \in (k + 1)..(d - 1)
      OBVIOUS
    <3> QED BY <1>7, <2>1, <3>1
  <2>4. \A s \in 1..3 : Has(s) => Written(s)' = Written(s) + IF s = k THEN 1 ELSE 0
    BY <1>1, <1>8, <2>2, <2>3
  <2>5. LinesOK'
    <3> SUFFICES ASSUME NEW s \in 1..3, Has(s)'
                 PROVE  Ends(out'[SinkOf(s)], Top'.id, Written(s)')
      BY DEF LinesOK
    <3> QED BY <1>2, <1>3, <1>4, <2>4
  <2>6. StepOK'
    BY <1>1, <1>2, <1>4, <2>1 DEF StepOK
  <2> QED BY <1>6, <2>5, <2>6
<1> QED BY <1>9, <1>10

LEMMA DumpFormat ==
  ASSUME TypeOK, DumpInv, NEW part, NEW next, Follows(part, next), Format(part, next)
  PROVE  DumpInv'
<1>1. StackTyped /\ stack # <<>> /\ Top \in Handler /\ Top.at = part /\ Top.step = 0
      /\ proc = "running"
  BY IsRunning DEF Format
<1>2. /\ UNCHANGED <<proc, handled, fds, gbl, out>> /\ failed \subseteq failed'
      /\ next \in Stages
  BY FollowsDone DEF Format, Fails
<1>3. Top.id <= Len(handled)
  BY <1>1, TopType DEF DumpInv, IdsOK, Top
<1>4. line'.id <= Len(handled)
  BY <1>3 DEF Format, DumpInv, IdsOK
<1>5. \A s \in Sinks : \A i \in 1..Len(out'[s]) : out'[s][i].id <= Len(handled)
  BY <1>2 DEF DumpInv, IdsOK
<1>6. CASE Fails("line") /\ Goto(next)
  <2>1. ~ Alone' /\ Moves
    BY <1>1, <1>2, <1>6, GotoReaches DEF Alone, Fails, Reaches
  <2> QED BY <1>1, <1>2, <1>4, <1>5, <2>1, DumpMoves
<1>7. CASE GoOn(0, next) /\ line'.id = Top.id /\ line'.part = part
  <2>1. 0 \in 0..3
    OBVIOUS
  <2>2. EndsAt(0, next) \/ \E d \in (0 + 1)..3 : GoesTo(0, d)
    BY <1>1, <1>2, <1>7, <2>1, GoOnGoes, DestinationType
  <2>3. Moves
    BY <2>2 DEF EndsAt, Reaches, GoesTo
  <2>4. ASSUME Alone', NEW s \in 1..3, Has(s)
        PROVE  Ends(out'[SinkOf(s)], Top.id, Written(s) + IF s = 0 THEN 1 ELSE 0)
    <3>1. Alone
      BY <1>1, <1>2, <2>3, <2>4, AloneBefore
    <3>2. Ends(out[SinkOf(s)], Top.id, Written(s))
      BY <2>4, <3>1 DEF DumpInv, LinesOK
    <3>3. Written(s) + (IF s = 0 THEN 1 ELSE 0) = Written(s)
      BY <1>1, FollowsDone DEF Written
    <3> QED BY <1>2, <3>2, <3>3
  <2> QED BY <1>1, <1>2, <1>4, <1>5, <1>7, <2>1, <2>2, <2>4, DumpGoesOn
<1>8. line' = [id |-> Top.id, part |-> part, frames |-> IF part = "frames" THEN trace ELSE 0]
        => line'.id = Top.id /\ line'.part = part
  OBVIOUS
<1> QED BY <1>6, <1>7, <1>8 DEF Format

LEMMA DumpWrite ==
  ASSUME TypeOK, DumpInv, NEW part, NEW next, Follows(part, next), WriteTo(part, next)
  PROVE  DumpInv'
<1> DEFINE k == Top.step
           sink == fds[Top.dest]
<1>1. StackTyped /\ stack # <<>> /\ Top \in Handler /\ Top.at = part /\ k \in 1..3
      /\ proc = "running"
  BY IsRunning DEF WriteTo
<1>2. /\ UNCHANGED <<handled, fds, gbl, line>> /\ failed \subseteq failed' /\ proc' # "new"
      /\ next \in Stages /\ k \in 0..3
  BY <1>1, FollowsDone DEF WriteTo, WriteLine, Fails
<1>3. /\ out' = out \/ (sink \in Sinks /\ out' = [out EXCEPT ![sink] = Append(@, line)])
      /\ Alone' => out' = IF sink \in Sinks THEN [out EXCEPT ![sink] = Append(@, line)] ELSE out
  BY DEF WriteTo, WriteLine, Fails, Alone
<1>4. line'.id <= Len(handled)
  BY <1>2 DEF DumpInv, IdsOK
<1>5. \A s \in Sinks : \A i \in 1..Len(out'[s]) : out'[s][i].id <= Len(handled)
  <2> SUFFICES ASSUME NEW s \in Sinks, NEW i \in 1..Len(out'[s])
               PROVE  out'[s][i].id <= Len(handled)
    OBVIOUS
  <2>1. out[s] \in Seq(Line) /\ line.id <= Len(handled)
        /\ \A j \in 1..Len(out[s]) : out[s][j].id <= Len(handled)
    BY DEF TypeOK, DumpInv, IdsOK
  <2>2. out'[s] = out[s] \/ out'[s] = Append(out[s], line)
    BY <1>3 DEF TypeOK
  <2>3. CASE out'[s] = out[s]
    BY <2>1, <2>3
  <2>4. CASE out'[s] = Append(out[s], line)
    <3>1. PICK t \in Seq(Line) : t = out[s]
      BY <2>1
    <3>2. /\ Len(out'[s]) = Len(t) + 1 /\ out'[s][Len(t) + 1] = line
          /\ \A j \in 1..Len(t) : out'[s][j] = t[j]
      BY <2>4, <3>1
    <3> QED BY <2>1, <3>1, <3>2
  <2> QED BY <2>2, <2>3, <2>4
<1>6. EndsAt(k, next) \/ \E d \in (k + 1)..3 : GoesTo(k, d)
  BY <1>1, <1>2, GoOnGoes, DestinationType DEF WriteTo
<1>7. Moves
  BY <1>6 DEF EndsAt, Reaches, GoesTo
<1>8. ASSUME Alone'
      PROVE  /\ line'.id = Top.id /\ line'.part = part
             /\ \A s \in 1..3 : Has(s) =>
                  Ends(out'[SinkOf(s)], Top.id, Written(s) + IF s = k THEN 1 ELSE 0)
  <2>1. Alone
    BY <1>1, <1>2, <1>7, <1>8, AloneBefore
  <2>2. /\ Top.dest = Destination(k) /\ Top.dest # -1
        /\ line.id = Top.id /\ line.part = part
    BY <1>1, <2>1 DEF DumpInv, StepOK
  <2>3. /\ part \in ToSet(Parts) /\ PartsDone(part) \in 0..4
        /\ Parts[PartsDone(part) + 1] = part /\ part # "outputInit"
    BY FollowsDone, PartsType
  <2>4. SlotOK(1) /\ SlotOK(2) /\ SlotOK(3)
    BY <1>1, <2>1, <2>3 DEF DumpInv, SlotsOK
  <2>5. SlotOK(k)
    BY <1>1, <2>4
  <2>6. sink \in {SinkOf(k), "stdin"} /\ (Has(k) => sink = SinkOf(k))
    BY <2>2, <2>5 DEF SlotOK
  <2>7. ASSUME NEW s \in 1..3, Has(s)
        PROVE  Ends(out'[SinkOf(s)], Top.id, Written(s) + IF s = k THEN 1 ELSE 0)
    <3>1. Ends(out[SinkOf(s)], Top.id, Written(s))
      BY <2>1, <2>7 DEF DumpInv, LinesOK
    <3>2. SinkOf(s) \in Sinks /\ "stdin" \notin Sinks
      BY DEF SinkOf, Sinks
    <3>3. CASE s = k
      <4>1. Written(s) = PartsDone(part)
        BY <1>1, <2>3, <3>3 DEF Written
      <4>2. out'[SinkOf(s)] = Append(out[SinkOf(s)], line)
        BY <1>3, <1>8, <2>6, <2>7, <3>2, <3>3 DEF TypeOK
      <4>3. out[SinkOf(s)] \in Seq(Line) /\ line \in Line
        BY <3>2 DEF TypeOK
      <4> QED BY <2>2, <2>3, <3>1, <3>3, <4>1, <4>2, <4>3, EndsAppend
    <3>4. CASE s # k
      <4>1. SinkOf(s) # SinkOf(k)
        BY <1>1, <3>4 DEF SinkOf
      <4>2. out'[SinkOf(s)] = out[SinkOf(s)]
        BY <1>3, <1>8, <2>6, <3>2, <4>1 DEF TypeOK
      <4>3. Written(s) + (IF s = k THEN 1 ELSE 0) = Written(s)
        BY <1>1, <2>3, <3>4 DEF Written
      <4> QED BY <3>1, <4>2, <4>3
    <3> QED BY <3>3, <3>4
  <2> QED BY <1>2, <2>2, <2>7
<1> HIDE DEF k, sink
<1>9. Top.step = k
  BY DEF k
<1> QED BY <1>1, <1>2, <1>4, <1>5, <1>6, <1>8, <1>9, DumpGoesOn

LEMMA DumpRegister == ASSUME TypeOK, StreamInv, DumpInv, miscCrash_register PROVE DumpInv'
<1>1. /\ stack = <<>> /\ handled = <<>> /\ UNCHANGED <<stack, handled, line, out>>
      /\ fds[0] = "stdin" /\ fds[1] = "stdout" /\ proc' = "running"
  BY DEF miscCrash_register, StreamInv, DumpInv, Fresh
<1>2. OnlyOne' /\ IdsOK' /\ ~ Alone'
  BY <1>1 DEF DumpInv, OnlyOne, IdsOK, Alone
<1>3. 0 \in Fds /\ 1 \in Fds /\ -1 \notin Fds
  BY CrashAssumption DEF Fds
<1>6. Fresh'
  <2>1. PICK stat \in Fds, d \in Fds \cup {-1} :
           /\ fds[stat] = "closed" /\ d # stat /\ (d # -1 => fds[d] = "closed")
           /\ \A e \in Fds : fds'[e] = IF e = stat THEN "stat"
                                       ELSE IF e = d THEN "device" ELSE fds[e]
           /\ gbl'.filep /\ (d # -1 => gbl'.fd = d)
           /\ d = -1 => gbl'.fd \in {0, -1} /\ \E what \in {"path", "device"} : Fails(what)
    BY Registers
  <2>2. fds'[0] = "stdin" /\ fds'[1] = "stdout"
    BY <1>1, <1>3, <2>1
  <2>3. CASE d # -1
    BY <1>1, <1>3, <2>1, <2>2, <2>3 DEF Fresh
  <2>4. CASE d = -1
    <3>1. \E what \in {"path", "device"} : what \in failed'
      BY <2>1, <2>4 DEF Fails
    <3> QED BY <1>1, <1>3, <2>1, <2>2, <2>4, <3>1 DEF Fresh
  <2> QED BY <2>3, <2>4
<1> QED BY <1>2, <1>6 DEF DumpInv

\* The handler that the kernel enters.
LEMMA EnterNew ==
  ASSUME TypeOK, NEW s \in Signals, Enter(s)
  PROVE  /\ Top'.alone = (stack = <<>>) /\ Top'.id = Len(handled) + 1
         /\ Len(handled') = Len(handled) + 1 /\ handled' # <<>>
<1> DEFINE h == [sig |-> s, at |-> "outputInit", step |-> 0, dest |-> -1,
                 id |-> Len(handled) + 1, saved |-> "default", alone |-> stack = <<>>]
           below == [i \in DOMAIN stack |-> [stack[i] EXCEPT !.alone = FALSE]]
<1>1. PICK n \in Nat : n = Len(stack) /\ DOMAIN stack = 1..n
  BY DEF TypeOK
<1>2. DOMAIN below = 1..n
  BY <1>1
<1>3. stack' = Append(below, h)
  BY DEF Enter
<1>4. h.alone = (stack = <<>>) /\ h.id = Len(handled) + 1
  OBVIOUS
<1> HIDE DEF h, below
<1>5. Len(below) = n
  BY <1>1, <1>2
<1>6. stack'[n + 1] = h /\ Len(stack') = n + 1
  BY <1>1, <1>2, <1>3, <1>5
<1>7. handled \in Seq(Signals) /\ handled' = Append(handled, s)
  BY DEF Enter, TypeOK
<1>8. Len(handled') = Len(handled) + 1 /\ handled' # <<>>
  BY <1>7
<1> QED BY <1>4, <1>6, <1>8 DEF Top

LEMMA DumpEnter ==
  ASSUME TypeOK, StreamInv, DumpInv, NEW s \in Signals, Deliver(s), Enter(s)
  PROVE  DumpInv'
<1>1. PICK n \in Nat : n = Len(stack)
  BY DEF TypeOK
<1>2. /\ Len(stack') = n + 1 /\ Top'.at = "outputInit" /\ Top'.step = 0 /\ stack' # <<>>
      /\ \A i \in 1..n : stack'[i] = [stack[i] EXCEPT !.alone = FALSE]
  BY <1>1, EnterTop
<1>3. /\ Top'.alone = (stack = <<>>) /\ Top'.id = Len(handled) + 1
      /\ Len(handled') = Len(handled) + 1 /\ handled' # <<>> /\ Len(handled) \in Nat
  BY EnterNew DEF TypeOK
<1>4. proc = "running" /\ UNCHANGED <<proc, fds, gbl, line, out, failed>>
  BY DEF Deliver, Enter
<1>5. ASSUME NEW i \in 1..n
      PROVE  /\ ~ stack'[i].alone /\ stack'[i].id = stack[i].id
             /\ stack[i].id <= Len(handled) /\ stack[i].id \in Nat
  <2>1. stack[i] \in Handler
    BY <1>1 DEF TypeOK
  <2>2. stack'[i] = [stack[i] EXCEPT !.alone = FALSE]
    BY <1>2
  <2>3. stack[i].id \in 1..MaxSignals
    BY <2>1 DEF Handler
  <2>4. ~ stack'[i].alone /\ stack'[i].id = stack[i].id
    BY <2>1, <2>2 DEF Handler
  <2>5. stack[i].id <= Len(handled)
    BY <1>1 DEF DumpInv, IdsOK
  <2> QED BY <2>3, <2>4, <2>5
<1>6. \A i \in 1..(n + 1) : i \in 1..n \/ i = n + 1
  BY UpTo
<1>7. Top' = stack'[n + 1]
  BY <1>2 DEF Top
<1>8. OnlyOne'
  <2>1. ASSUME NEW i \in 1..(n + 1), stack'[i].alone PROVE n + 1 = 1
    <3>1. i = n + 1
      BY <1>5, <1>6, <2>1
    <3>2. stack = <<>>
      BY <1>3, <1>7, <2>1, <3>1
    <3> QED BY <1>1, <3>2
  <2> QED BY <1>2, <2>1 DEF OnlyOne
<1>9. IdsOK'
  <2>1. ASSUME NEW i \in 1..(n + 1) PROVE stack'[i].id <= Len(handled')
    <3>1. CASE i \in 1..n
      <4>1. stack'[i].id = stack[i].id /\ stack[i].id <= Len(handled) /\ stack[i].id \in Nat
        BY <1>5, <3>1
      <4> QED BY <1>3, <4>1
    <3>2. CASE i = n + 1
      <4>1. stack'[i].id = Len(handled) + 1
        BY <1>3, <1>7, <3>2
      <4> QED BY <1>3, <4>1
    <3> QED BY <1>6, <3>1, <3>2
  <2>2. line'.id <= Len(handled')
    <3>1. line.id \in Nat /\ line.id <= Len(handled)
      BY DEF DumpInv, IdsOK, TypeOK, Line
    <3> QED BY <1>3, <1>4, <3>1
  <2>3. ASSUME NEW k \in Sinks, NEW i \in 1..Len(out[k])
        PROVE  out[k][i].id <= Len(handled')
    <3>1. out[k] \in Seq(Line)
      BY DEF TypeOK
    <3>2. out[k][i] \in Line
      BY <3>1
    <3>3. out[k][i].id \in Nat /\ out[k][i].id <= Len(handled)
      BY <3>2 DEF DumpInv, IdsOK, Line
    <3> QED BY <1>3, <3>3
  <2> QED BY <1>2, <1>4, <2>1, <2>2, <2>3 DEF IdsOK
<1>10. Fresh'
  BY <1>3, <1>4 DEF Fresh
<1>11. ASSUME Alone' PROVE LinesOK' /\ SlotsOK' /\ StepOK'
  <2>1. stack = <<>>
    BY <1>3, <1>11 DEF Alone
  <2>2. ASSUME NEW k \in Sinks PROVE Ends(out[k], Top'.id, 0)
    <3>1. out[k] \in Seq(Line)
      BY DEF TypeOK
    <3>2. ASSUME NEW i \in 1..Len(out[k]) PROVE out[k][i].id # Top'.id
      <4>1. out[k][i] \in Line
        BY <3>1
      <4>2. out[k][i].id \in Nat /\ out[k][i].id <= Len(handled)
        BY <4>1 DEF DumpInv, IdsOK, Line
      <4> QED BY <1>3, <4>2
    <3>3. Len(out[k]) \in Nat
      BY <3>1
    <3> QED BY <3>2, <3>3 DEF Ends
  <2>3. LinesOK'
    <3>1. \A t \in 1..3 : Written(t)' = 0 /\ SinkOf(t) \in Sinks
      BY <1>2 DEF Written, PartsDone, SinkOf, Sinks
    <3> QED BY <1>4, <2>2, <3>1 DEF LinesOK
  <2>4. \A t : Destination(t)' = Destination(t)
    BY <1>4 DEF Destination
  <2>5. SlotOK(2)' /\ SlotOK(3)'
    <3>1. CASE handled = <<>>
      <4>1. /\ gbl.filep /\ fds[1] = "stdout"
            /\ gbl.fd # -1 => fds[gbl.fd] \in {"stdin", "device"}
            /\ failed \cap {"path", "device"} = {} => gbl.fd # -1 /\ fds[gbl.fd] = "device"
        BY <1>4, <3>1 DEF DumpInv, Fresh
      <4>2. /\ Destination(2) = 1 /\ Destination(3) = gbl.fd
            /\ SinkOf(2) = "stdout" /\ SinkOf(3) = "device"
        BY <4>1 DEF Destination, SinkOf
      <4> QED BY <1>4, <2>4, <4>1, <4>2 DEF SlotOK, Has
    <3>2. CASE handled # <<>>
      <4>1. ~ gbl.filep /\ gbl.fd = -1
        BY <1>4, <2>1, <3>2 DEF StreamInv
      <4>2. Destination(2) = -1 /\ Destination(3) = -1
        BY <4>1 DEF Destination
      <4>3. Len(handled) # 0
        BY <3>2 DEF TypeOK
      <4>4. Top'.id # 1
        BY <1>3, <4>3
      <4> QED BY <2>4, <4>2, <4>4 DEF SlotOK, Has
    <3> QED BY <3>1, <3>2
  <2>6. SlotsOK' /\ StepOK'
    BY <1>2, <2>5 DEF SlotsOK, StepOK
  <2> QED BY <2>3, <2>6
<1> QED BY <1>8, <1>9, <1>10, <1>11 DEF DumpInv

LEMMA DumpReturn == ASSUME TypeOK, DumpInv, Return PROVE DumpInv'
<1>1. PICK n \in Nat \ {0} : n = Len(stack)
  BY ReturnStack
<1>2. /\ StackTyped /\ Len(stack') = n - 1
      /\ \A i \in 1..(n - 1) : stack'[i] = stack[i]
  BY <1>1, ReturnStack
<1>3. ASSUME NEW i \in 1..(n - 1)
      PROVE  ~ stack'[i].alone /\ stack'[i].id <= Len(handled)
  <2>1. i \in 1..n /\ n # 1
    BY Below
  <2> QED BY <1>1, <1>2, <2>1 DEF DumpInv, OnlyOne, IdsOK
<1>4. UNCHANGED <<handled, line, out, fds, gbl, failed>> /\ proc = "running" /\ proc' # "new"
  BY DEF Return, Running, ghosts
<1>5. OnlyOne' /\ IdsOK'
  BY <1>2, <1>3, <1>4 DEF OnlyOne, IdsOK, DumpInv
<1>6. ~ Alone'
  <2> SUFFICES ASSUME stack' # <<>> PROVE ~ Top'.alone
    BY DEF Alone
  <2>1. n - 1 # 0
    <3> SUFFICES ASSUME n - 1 = 0 PROVE FALSE
      OBVIOUS
    <3>1. stack' \in Seq(Handler)
      BY ReturnType DEF TypeOK
    <3> QED BY <1>2, <3>1
  <2>2. n - 1 \in 1..(n - 1)
    BY <2>1
  <2> QED BY <1>2, <1>3, <2>2 DEF Top
<1>7. handled # <<>>
  <2>1. 1 \in 1..n /\ stack[1] \in Handler
    BY <1>1 DEF TypeOK
  <2>2. stack[1].id >= 1 /\ stack[1].id <= Len(handled) /\ stack[1].id \in Nat
    BY <1>1, <2>1 DEF Handler, IdsOK, DumpInv
  <2> SUFFICES ASSUME handled = <<>> PROVE FALSE
    OBVIOUS
  <2>3. Len(handled) = 0
    OBVIOUS
  <2> QED BY <2>2, <2>3
<1>8. Fresh'
  BY <1>4, <1>7 DEF Fresh
<1> QED BY <1>5, <1>6, <1>8 DEF DumpInv

LEMMA DumpStep == TypeOK /\ StreamInv /\ DumpInv /\ [Next]_vars => DumpInv'
<1> SUFFICES ASSUME TypeOK, StreamInv, DumpInv, [Next]_vars PROVE DumpInv'
  OBVIOUS
<1>1. CASE miscCrash_register
  BY <1>1, DumpRegister
<1>2. ASSUME NEW s \in Signals, Deliver(s) PROVE DumpInv'
  <2>1. CASE Enter(s)
    BY <1>2, <2>1, DumpEnter
  <2>2. CASE Kill
    <3>1. UNCHANGED <<stack, handled, line, out>> /\ proc' = "killed"
      BY <2>2 DEF Kill, ghosts
    <3> QED BY <3>1 DEF DumpInv, OnlyOne, IdsOK, Fresh, Alone
  <2> QED BY <1>2, <2>1, <2>2 DEF Deliver
<1>3. CASE outputInit
  BY <1>3, DumpOpen
<1>4. CASE outputBacktrace
  <2>1. ASSUME NEW part, NEW next, Follows(part, next), outputPrintf(part, next)
        PROVE  DumpInv'
    BY <2>1, DumpFormat, DumpWrite DEF outputPrintf
  <2> QED BY <1>4, <2>1, PrintPairs, DumpCmd, DumpGoto
<1>5. CASE outputFini \/ Reset
  BY <1>5, DumpGoto
<1>6. CASE Return
  BY <1>6, DumpReturn
<1>7. CASE UNCHANGED vars
  <2>1. UNCHANGED <<proc, fds, gbl, line, stack, out, handled, failed>>
    BY <1>7 DEF vars, ghosts
  <2>2. OnlyOne' /\ IdsOK' /\ Fresh' /\ (Alone' <=> Alone)
    BY <2>1 DEF DumpInv, OnlyOne, IdsOK, Fresh, Alone, Top
  <2>3. Top' = Top /\ (\A s : Destination(s)' = Destination(s))
        /\ (\A s : Has(s)' <=> Has(s)) /\ (\A s : Written(s)' = Written(s))
    BY <2>1 DEF Top, Destination, Has, Written
  <2>4. LinesOK /\ SlotsOK /\ StepOK => LinesOK' /\ SlotsOK' /\ StepOK'
    BY <2>1, <2>3 DEF LinesOK, SlotsOK, SlotOK, StepOK
  <2> QED BY <2>2, <2>4 DEF DumpInv
<1> QED BY <1>1, <1>2, <1>3, <1>4, <1>5, <1>6, <1>7 DEF Next, crash_handler

LEMMA DumpInit == Init => DumpInv
<1> SUFFICES ASSUME Init PROVE DumpInv
  OBVIOUS
<1>1. OnlyOne /\ IdsOK /\ ~ Alone
  BY DEF Init, OnlyOne, IdsOK, Alone
<1>2. 0 \in Fds /\ 1 \in Fds
  BY CrashAssumption DEF Fds
<1>3. Fresh
  BY <1>2 DEF Init, Fresh
<1> QED BY <1>1, <1>3 DEF DumpInv

LEMMA DumpInvHolds == Spec => [](TypeOK /\ DumpInv)
BY TypeCorrect, StreamInit, StreamStep, DumpInit, DumpStep, PTL DEF Spec

\* At its end an undisturbed dump is whole in every sink it has.
LEMMA WholeAtEnd ==
  ASSUME TypeOK, DumpInv, AtEnd, Top.alone, failed \subseteq {"path", "device", "open"},
         NEW s \in 1..3, Has(s)
  PROVE  Complete(SinkOf(s), Top.id)
<1>1. Alone /\ Top.at = "reset"
  BY DEF AtEnd, Alone
<1>2. Top.step = 0
  BY <1>1, NoStep, PartsType
<1>3. Written(s) = 5
  BY <1>1, <1>2 DEF Written, PartsDone
<1>4. Ends(out[SinkOf(s)], Top.id, 5)
  BY <1>1, <1>3 DEF DumpInv, LinesOK
<1> QED BY <1>4, EndsComplete DEF SinkOf, Sinks

(* A dump that nothing interrupts is in the file, whole and in order: also *)
(* when earlier handlers have closed stdout and the device and the file    *)
(* gets one of their numbers (outputInit, outputPrintf).                   *)
THEOREM UndisturbedIsInFile == Spec => []UndisturbedDumpIsInFile
<1>1. TypeOK /\ DumpInv => UndisturbedDumpIsInFile
  <2> SUFFICES ASSUME TypeOK, DumpInv, AtEnd, Top.alone, failed \subseteq {"path", "device"}
               PROVE  Complete("file", Top.id)
    BY DEF UndisturbedDumpIsInFile
  <2>1. Has(1) /\ failed \subseteq {"path", "device", "open"} /\ 1 \in 1..3
    BY DEF Has
  <2>2. Complete(SinkOf(1), Top.id)
    BY <2>1, WholeAtEnd
  <2> QED BY <2>2 DEF SinkOf
<1> QED BY <1>1, DumpInvHolds, PTL

(* The first dump, when nothing interrupts it, is whole in every sink the  *)
(* process has.                                                            *)
THEOREM FirstIsEverywhere == Spec => []FirstDumpIsEverywhere
<1>1. TypeOK /\ DumpInv => FirstDumpIsEverywhere
  <2> SUFFICES ASSUME TypeOK, DumpInv, AtEnd, Top.alone, Top.id = 1,
                      failed \subseteq {"path", "device", "open"}, NEW k \in Sinks,
                      ~ (k = "device" /\ failed \cap {"path", "device"} # {}),
                      ~ (k = "file" /\ "open" \in failed)
               PROVE  Complete(k, 1)
    BY DEF FirstDumpIsEverywhere
  <2>1. PICK s \in 1..3 : k = SinkOf(s) /\ Has(s)
    <3>1. CASE k = "file"
      <4>1. 1 \in 1..3 /\ SinkOf(1) = "file" /\ Has(1)
        BY <3>1 DEF SinkOf, Has
      <4> QED BY <3>1, <4>1
    <3>2. CASE k = "stdout"
      <4>1. 2 \in 1..3 /\ SinkOf(2) = "stdout" /\ Has(2)
        BY DEF SinkOf, Has
      <4> QED BY <3>2, <4>1
    <3>3. CASE k = "device"
      <4>1. 3 \in 1..3 /\ SinkOf(3) = "device" /\ Has(3)
        BY <3>3 DEF SinkOf, Has
      <4> QED BY <3>3, <4>1
    <3> QED BY <3>1, <3>2, <3>3 DEF Sinks
  <2> QED BY <2>1, WholeAtEnd
<1> QED BY <1>1, DumpInvHolds, PTL
=============================================================================
