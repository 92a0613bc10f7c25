------------------------------- MODULE Unwind -------------------------------
(***************************************************************************)
(* misc_mipsbt.c: mips_backtrace finds the callers of an interrupted       *)
(* function by reading its code backwards to the instructions that saved   *)
(* the return address and moved the stack pointer.                         *)
(*                                                                         *)
(* The code it reads is run by a small machine (external): calls, returns, *)
(* frames, branches, a library that is mapped and unmapped.  `callers'     *)
(* remembers who called whom, so that what the unwinder finds can be       *)
(* compared with what happened.  A dump begins between any two             *)
(* instructions, for signals arrive at any time.  Addresses count words;   *)
(* an instruction is the part of it the unwinder or the machine looks at,  *)
(* a call and its delay slot are one word.                                 *)
(***************************************************************************)
EXTENDS Integers, SequencesExt

CONSTANTS Text,       \* the code: an instruction for every word of it
          Start,      \* the first instruction of the process
          Startup,    \* the function that runs first, see CompilerAssumption
          Functions,  \* the functions of the code
          ImageMaps,  \* mappings the process has from the start
          LibMap,     \* the mapping of a library it may load and unload
          Stack,      \* the words of the stack
          StackTop,   \* sp of the process at Start, in Startup's frame
          Sizes,      \* values of size
          MaxDumps    \* bound on calls of mips_backtrace

Ops == {"addiu", "sw", "lw", "call", "jr", "branch", "hlt", "other"}
Instruction == [op : Ops, imm : Nat, to : Int]
pmapLine == [vmStart : Int, vmEnd : Int, readable : BOOLEAN]

ASSUME UnwindAssumption ==
  /\ DOMAIN Text \subseteq Int
  /\ \A a \in DOMAIN Text : Text[a] \in Instruction /\ Text[a].imm < 65536
  /\ Start \in Int /\ StackTop \in Int
  /\ ImageMaps \subseteq pmapLine /\ LibMap \in pmapLine
  /\ Stack \subseteq Int /\ Sizes \subseteq Nat /\ MaxDumps \in Nat

\* An immediate with its sign.
Short(half) == IF half < 32768 THEN half ELSE half - 65536

(* External: the code the unwinder counts on (misc_mipsbt.c:13 to 16, 172  *)
(* to 248), which gcc makes without optimisation.  A function may set up   *)
(* gp; then it makes its frame, whose size is fixed, and saves ra in it if *)
(* it calls others.  A return loads ra, restores what else it has saved,   *)
(* removes the frame and jumps.  No other instruction touches ra's slot,   *)
(* ra or sp, and branches do not leave the function.  Optimised code is    *)
(* left out: leaves without a frame, and instructions in another order.    *)
Function == [entry : Int,           \* where it is called
             first : Int,           \* the instruction that makes its frame
             last : Int, size : Nat, \* its last word; the size of its frame
             saves : Nat]           \* where in it ra is saved, 0 for a leaf
Body(f) == (f.first + (IF f.saves > 0 THEN 2 ELSE 1))..f.last

\* The words from the load of ra up to the one that removes the frame.
Epilogue(f) == {a \in Body(f) : \E l \in Body(f) :
  /\ Text[l].op = "lw" /\ l < a
  /\ \A b \in (l + 1)..(a - 1) : Text[b].op = "other"}

\* Where branches lead, calls return and one instruction follows another.
Inner(f) == {a \in Body(f) \ Epilogue(f) :
  Text[a].op \in {"call", "branch", "other", "hlt", IF f.saves > 0 THEN "lw" ELSE "addiu"}}

StaysInside(f) == \A a \in Inner(f) :
  /\ Text[a].op \in {"call", "branch", "other"} => a + 1 \in Inner(f)
  /\ Text[a].op = "branch" => Text[a].to \in Inner(f)
  /\ Text[a].op = "call" => \E g \in Functions : Text[a].to = g.entry

MakesFrame(f) == /\ f \in Function /\ f.entry <= f.first /\ f.entry..f.last \subseteq DOMAIN Text
                 /\ Text[f.first].op = "addiu" /\ Short(Text[f.first].imm) = -f.size

IsFunction(f) ==
  /\ MakesFrame(f) /\ f.saves < f.size
  /\ \A a \in f.entry..(f.first - 1) : Text[a].op = "other"
  /\ f.saves > 0 => /\ Text[f.first + 1].op = "sw"
                    /\ Short(Text[f.first + 1].imm) = f.saves
  /\ f.first + (IF f.saves > 0 THEN 2 ELSE 1) \in Inner(f) /\ StaysInside(f)
  /\ \A a \in Body(f) :
       /\ Text[a].op \in {"lw", "addiu", "jr", "call", "branch", "other"}
       /\ Text[a].op = "call" => f.saves > 0
       /\ Text[a].op = "lw" => /\ f.saves > 0 /\ Short(Text[a].imm) = f.saves
                               /\ a + 1 \in Body(f)
       /\ Text[a].op = "addiu" => /\ Short(Text[a].imm) = f.size
                                  /\ a + 1 \in Body(f) /\ Text[a + 1].op = "jr"
       /\ a \in Epilogue(f) => Text[a].op \in {"other", "addiu"} /\ a + 1 \in Body(f)

\* It has a frame but no caller, and saves no ra.
IsStartup(s) ==
  /\ MakesFrame(s) /\ s.saves = 0 /\ Start \in Inner(s) /\ StaysInside(s)
  /\ \A a \in Body(s) : Text[a].op \in {"call", "branch", "other", "hlt"}

Words(m) == m.vmStart..(m.vmEnd - 1)
LiesIn(words, m) == m.readable /\ words \subseteq Words(m)

\* A function is in one mapping, mappings do not overlap.
ASSUME CompilerAssumption ==
  /\ \A f \in Functions : IsFunction(f)
  /\ IsStartup(Startup) /\ Startup \notin Functions
  /\ \A f \in Functions \cup {Startup} :
       \/ \E m \in ImageMaps : LiesIn(f.entry..f.last, m)
       \/ f # Startup /\ LiesIn(f.entry..f.last, LibMap)
  /\ LibMap \notin ImageMaps
  /\ \A m \in ImageMaps : m.readable => Words(m) \cap Words(LibMap) = {}
  /\ \E m \in ImageMaps : LiesIn(Stack, m)
  /\ StackTop \in Stack /\ \A a, b \in Stack : a..b \subseteq Stack

VARIABLES pc, sp, ra,  \* registers
          stack,       \* the words of the stack
          callers,     \* the return addresses of the running calls, last first
          maps,        \* /proc/self/maps
          head,        \* the list from gbl_pmapLineHead; {} is NULL
          bt,          \* mips_backtrace: its parameters, locals and stage
          dumps        \* calls of it so far

machine == <<pc, sp, ra, stack, callers>>
vars == <<machine, maps, head, bt, dumps>>

NoScan(at, size) == [at |-> at, size |-> size, buffer |-> <<>>, addr |-> 0, ra |-> 0,
                     sp |-> 0, raOffset |-> 0]
Idle == NoScan("idle", 0)
Nothing(size) == NoScan("done", size)

(* What a read returns.  The stack holds no instructions, and an           *)
(* instruction taken for an address is one where nothing is mapped.        *)
Instr(a) == IF a \in DOMAIN Text THEN Text[a] ELSE [op |-> "other", imm |-> 0, to |-> 0]
Value(a) == IF a \in Stack THEN stack[a] ELSE 0
Mapped(a) == \E m \in maps : m.readable /\ a \in Words(m)

(* Definitions whose name ends in _wrong are what the definition that      *)
(* follows would be with a plausible slip; each breaks some property.      *)
-----------------------------------------------------------------------------
(* External: the process runs.  It calls a function only when the stack    *)
(* has room for its frame and the function is mapped.                      *)
Execute ==
  LET i == Text[pc]
      next == pc + 1
      imm == Short(i.imm)
  IN  /\ bt.at = "idle" /\ pc \in DOMAIN Text
      /\ \/ /\ i.op = "addiu"
            /\ sp' = sp + imm /\ pc' = next /\ UNCHANGED <<ra, stack, callers>>
         \/ /\ i.op = "sw" /\ stack' = [stack EXCEPT ![sp + imm] = ra]
            /\ pc' = next /\ UNCHANGED <<sp, ra, callers>>
         \/ /\ i.op = "lw" /\ ra' = Value(sp + imm)
            /\ pc' = next /\ UNCHANGED <<sp, stack, callers>>
         \/ /\ i.op = "call" /\ Mapped(i.to)
            /\ \E g \in Functions : i.to = g.entry /\ sp - g.size \in Stack
            /\ ra' = next /\ pc' = i.to /\ callers' = <<next>> \o callers
            /\ UNCHANGED <<sp, stack>>
         \/ /\ i.op = "jr" /\ pc' = ra /\ callers' = Tail(callers)
            /\ UNCHANGED <<sp, ra, stack>>
         \/ i.op = "branch" /\ pc' \in {next, i.to} /\ UNCHANGED <<sp, ra, stack, callers>>
         \/ i.op = "other" /\ pc' = next /\ UNCHANGED <<sp, ra, stack, callers>>
      /\ UNCHANGED <<maps, head, bt, dumps>>

InLib(a) == a \in Words(LibMap)

\* External: dlopen, and dlclose when no call of the library runs.
ChangeMaps ==
  /\ bt.at = "idle"
  /\ \/ maps' = maps \cup {LibMap}
     \/ /\ ~ InLib(pc) /\ \A i \in DOMAIN callers : ~ InLib(callers[i])
        /\ maps' = maps \ {LibMap}
  /\ UNCHANGED <<machine, head, bt, dumps>>

-----------------------------------------------------------------------------
bt_getProcessMaps_wrong ==
  head' = {[m EXCEPT !.vmStart = m.vmEnd, !.vmEnd = m.vmStart] : m \in maps}

(* The list is read anew but hung behind a head that is never freed: only  *)
(* the first call has an effect.  Without /proc there is no list.          *)
bt_getProcessMaps == head' = IF head = {} THEN maps ELSE head

bt_regularAddr(list, a) ==
  \E m \in list : m.readable /\ m.vmStart <= a /\ a <= m.vmEnd

\* The handlers are registered, so that the startup code has called main.
Begin(size) ==
  /\ bt.at = "idle" /\ dumps < MaxDumps /\ callers # <<>>
  /\ \/ /\ bt_getProcessMaps
        /\ bt' = IF bt_regularAddr(head', pc)
                 THEN [at |-> "scan", size |-> size, buffer |-> <<pc>>, addr |-> pc,
                       ra |-> ra, sp |-> sp, raOffset |-> 0]
                 ELSE Nothing(size)
     \/ /\ bt' = Nothing(size)
        /\ UNCHANGED head
  /\ dumps' = dumps + 1
  /\ UNCHANGED <<machine, maps>>

Scanning == bt.at = "scan"
Reads == Scanning /\ bt_regularAddr(head, bt.addr) /\ Mapped(bt.addr)
Code == Instr(bt.addr)
Immediate == Short(Code.imm)
IsFrame == Code.op = "addiu" /\ Immediate <= 0

End(at) == /\ bt' = [bt EXCEPT !.at = at]
           /\ UNCHANGED <<machine, maps, head, dumps>>

StepBack(offset) == /\ bt' = [bt EXCEPT !.addr = @ - 1, !.raOffset = offset]
                    /\ UNCHANGED <<machine, maps, head, dumps>>

ScanEnds == \/ Scanning /\ ~ bt_regularAddr(head, bt.addr) /\ End("done")
            \/ Reads /\ Code.op = "hlt" /\ End("done")

\* An address the list has but the process has not: the handler faults.
ScanFaults == /\ Scanning /\ bt_regularAddr(head, bt.addr) /\ ~ Mapped(bt.addr)
              /\ End("fault")

ScanSkips_wrong == Reads /\ Code.op = "addiu" /\ Immediate > 0 /\ UNCHANGED vars

\* A stack pointer that grows belongs to a return in the middle of a function.
ScanSkips == Reads /\ Code.op = "addiu" /\ Immediate > 0 /\ StepBack(bt.raOffset)

ScanSavesRa == Reads /\ Code.op = "sw" /\ StepBack(Immediate)

ScanOther == /\ Reads /\ Code.op \notin {"hlt", "addiu", "sw"}
             /\ StepBack(bt.raOffset)

FrameOk_wrong == /\ Immediate # 0 /\ bt.raOffset # 0
                 /\ bt_regularAddr(head, bt.sp + bt.raOffset)

\* Beyond the first frame a function must save ra; and ra must be readable.
FrameOk == /\ Len(bt.buffer) > 1 => Immediate # 0 /\ bt.raOffset # 0
           /\ bt_regularAddr(head, bt.sp + bt.raOffset)

FrameEnds == \/ Reads /\ IsFrame /\ ~ FrameOk /\ End("done")
             \/ /\ Reads /\ IsFrame /\ FrameOk
                /\ bt.raOffset # 0 /\ ~ Mapped(bt.sp + bt.raOffset)
                /\ End("fault")

IsFull_wrong(depth) == depth > bt.size

IsFull(depth) == depth >= bt.size - 1

CallerSp_wrong == bt.sp + Immediate

CallerSp == bt.sp - Immediate

(* The caller is where the stack says, or, as long as nothing has been     *)
(* saved in the first frame, where ra does.                                *)
FramePops ==
  /\ Reads /\ IsFrame /\ FrameOk
  /\ bt.raOffset # 0 => Mapped(bt.sp + bt.raOffset)
  /\ LET caller == IF bt.raOffset # 0 THEN Value(bt.sp + bt.raOffset) ELSE bt.ra
         entries == Append(bt.buffer, caller)
     IN  bt' = [at |-> IF IsFull(Len(entries)) THEN "done" ELSE "scan",
                size |-> bt.size, buffer |-> entries, addr |-> caller, ra |-> caller,
                sp |-> CallerSp, raOffset |-> 0]
  /\ UNCHANGED <<machine, maps, head, dumps>>

Scan == \/ ScanEnds \/ ScanFaults \/ ScanSkips \/ ScanSavesRa \/ ScanOther
        \/ FrameEnds \/ FramePops

\* The handler prints the buffer and returns.
Resume == /\ bt.at = "done" /\ bt' = Idle
          /\ UNCHANGED <<machine, maps, head, dumps>>

-----------------------------------------------------------------------------
Init ==
  /\ pc = Start /\ sp = StackTop /\ ra = 0
  /\ stack = [a \in Stack |-> 0]
  /\ callers = <<>>
  /\ maps = ImageMaps /\ head = {}
  /\ bt = Idle /\ dumps = 0

Next == \/ Execute \/ ChangeMaps
        \/ \E size \in Sizes : Begin(size)
        \/ Scan
        \/ Resume

Spec == Init /\ [][Next]_vars

\* The handler runs.
FairSpec == Spec /\ WF_vars(Scan)

-----------------------------------------------------------------------------
\* The variables stay in their types.
TypeOK ==
  /\ pc \in Int /\ sp \in Int /\ ra \in Int /\ stack \in [Stack -> Int]
  /\ maps \subseteq ImageMaps \cup {LibMap} /\ head \subseteq ImageMaps \cup {LibMap}
  /\ bt \in [at : {"idle", "scan", "done", "fault"}, size : Sizes \cup {0},
             buffer : Seq(Int), addr : Int, ra : Int, sp : Int, raOffset : Int]
  /\ dumps \in 0..MaxDumps

CallChain == <<pc>> \o callers

(* Where the frame is whole: the next instruction is not one that makes    *)
(* it, or returns from it.  Faults happen there; other signals come        *)
(* anywhere, and in between the unwinder follows a frame that is not.      *)
FrameIsWhole == /\ Text[pc].op # "jr"
                /\ \A f \in Functions : pc \in f.entry..f.last => pc \in Body(f)

(* The entries are callers of the interrupted function, in their order,    *)
(* with none left out or made up, whatever the list of mappings has missed *)
(* and through recursion, callbacks from a library, early returns, leaves. *)
FindsCallersOnly == bt.at # "idle" /\ FrameIsWhole => IsPrefix(bt.buffer, CallChain)

(* With the mappings of the first dump still in force, the whole chain is  *)
(* found, or all entries of the caller's buffer but the last are used.     *)
(* The last one is not, when there are more than two: line 228 stops one   *)
(* entry before the buffer is full, although misc_mipsbt.c:8 promises the  *)
(* "same functionality" as glibc's backtrace, which fills it.              *)
FindsAllCallers ==
  bt.at = "done" /\ bt.buffer # <<>> /\ FrameIsWhole /\ maps \subseteq head =>
    LET used == IF bt.size > 2 THEN bt.size - 1 ELSE bt.size
    IN  Len(bt.buffer) >= Min({Len(CallChain), used})

(* A dump of a whole frame never reads memory that is not there, although  *)
(* its list of mappings may have a library that is gone and the stack the  *)
(* return addresses of old calls: a fault would lose the dump.             *)
NeverFaults == FrameIsWhole => bt.at # "fault"

(* The entries fit into the caller's buffer, whatever the code and the     *)
(* stack hold.  The test of line 228 comes after the second entry is       *)
(* stored: a buffer of less than two is overrun.                           *)
EntriesFit == Len(bt.buffer) <= IF bt.size < 2 THEN 2 ELSE bt.size

\* The loop over the code ends.
BacktraceReturns == bt.at = "scan" ~> bt.at # "scan"
=============================================================================
