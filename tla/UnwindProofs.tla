---------------------------- MODULE UnwindProofs ----------------------------
(***************************************************************************)
(* The theorems about Unwind.  The first two, the types and the bound on   *)
(* what mips_backtrace stores, hold of every program and every stack.  The *)
(* others, about what it finds, need code that gcc makes without           *)
(* optimisation (CompilerAssumption) and argue with the frames of the calls that run:   *)
(* MachineOK relates them to registers, stack and mappings, DumpOK to the  *)
(* buffer and to where the loop is.                                        *)
(***************************************************************************)
EXTENDS Unwind, TLAPS

\* A sign-extended immediate is a number.
LEMMA ShortType == ASSUME NEW h \in Nat PROVE Short(h) \in Int
BY DEF Short

\* What a read returns has the type of a word.
LEMMA InstrType == ASSUME NEW a \in Int PROVE Instr(a) \in Instruction
<1>1. [op |-> "other", imm |-> 0, to |-> 0] \in Instruction
  BY DEF Instruction, Ops
<1>2. QED
  BY <1>1, UnwindAssumption DEF Instr

\* A value read is an address.
LEMMA ValueType == ASSUME TypeOK, NEW a \in Int PROVE Value(a) \in Int
BY DEF TypeOK, Value

BtType == [at : {"idle", "scan", "done", "fault"}, size : Sizes \cup {0},
           buffer : Seq(Int), addr : Int, ra : Int, sp : Int, raOffset : Int]

\* The fields of the unwinder's state.
LEMMA BtFields ==
  ASSUME TypeOK
  PROVE  /\ bt \in BtType
         /\ bt.at \in {"idle", "scan", "done", "fault"} /\ bt.size \in Nat
         /\ bt.buffer \in Seq(Int) /\ bt.addr \in Int /\ bt.ra \in Int /\ bt.sp \in Int
         /\ bt.raOffset \in Int
<1>1. bt \in BtType
  BY DEF TypeOK, BtType
<1>2. bt.size \in Nat
  <2>1. bt.size \in Sizes \cup {0}
    BY <1>1 DEF BtType
  <2>2. Sizes \subseteq Nat
    BY UnwindAssumption
  <2>3. CASE bt.size = 0
    BY <2>3
  <2>4. CASE bt.size \in Sizes
    BY <2>2, <2>4
  <2>5. QED
    BY <2>1, <2>3, <2>4
<1>3. QED
  BY <1>1, <1>2 DEF BtType

\* Between dumps the state has its type.
LEMMA IdleType == Idle \in BtType /\ Idle.size = 0 /\ Idle.buffer = <<>> /\ Idle.at = "idle"
BY DEF Idle, NoScan, BtType

\* Running the program keeps the registers and the stack words numbers.
LEMMA ExecuteType == ASSUME TypeOK, Execute PROVE TypeOK'
<1> DEFINE i == Text[pc]
           imm == Short(i.imm)
<1>1. i \in Instruction
  BY UnwindAssumption DEF Execute
<1>2. i.to \in Int /\ imm \in Int
  BY <1>1, ShortType DEF Instruction
<1>3. Value(sp + imm) \in Int
  BY <1>2, ValueType DEF TypeOK
<1> HIDE DEF imm, i
<1>4. /\ \/ sp' = sp + imm /\ pc' = pc + 1 /\ UNCHANGED <<ra, stack>>
         \/ stack' = [stack EXCEPT ![sp + imm] = ra] /\ pc' = pc + 1 /\ UNCHANGED <<sp, ra>>
         \/ ra' = Value(sp + imm) /\ pc' = pc + 1 /\ UNCHANGED <<sp, stack>>
         \/ ra' = pc + 1 /\ pc' = i.to /\ UNCHANGED <<sp, stack>>
         \/ pc' = ra /\ UNCHANGED <<sp, ra, stack>>
         \/ pc' \in {pc + 1, i.to} /\ UNCHANGED <<sp, ra, stack>>
      /\ UNCHANGED <<maps, head, bt, dumps>>
  BY DEF Execute, i, imm
<1>5. pc' \in Int /\ sp' \in Int /\ ra' \in Int
  BY <1>2, <1>3, <1>4 DEF TypeOK
<1>6. stack' \in [Stack -> Int]
  BY <1>4 DEF TypeOK
<1>7. QED
  BY <1>4, <1>5, <1>6 DEF TypeOK

\* The start of a dump, found readable or not.
LEMMA BeginType == ASSUME TypeOK, NEW size \in Sizes, Begin(size) PROVE TypeOK'
<1>1. bt' \in BtType
  <2>1. [at |-> "scan", size |-> size, buffer |-> <<pc>>, addr |-> pc,
         ra |-> ra, sp |-> sp, raOffset |-> 0] \in BtType
    BY DEF BtType, TypeOK
  <2>2. Nothing(size) \in BtType
    BY DEF Nothing, NoScan, BtType
  <2>3. QED
    BY <2>1, <2>2 DEF Begin
<1>2. head' \subseteq ImageMaps \cup {LibMap}
  BY DEF Begin, bt_getProcessMaps, TypeOK
<1>3. dumps' \in 0..MaxDumps
  BY UnwindAssumption DEF Begin, TypeOK
<1>4. UNCHANGED <<machine, maps>>
  BY DEF Begin
<1>5. QED
  BY <1>1, <1>2, <1>3, <1>4 DEF TypeOK, BtType, machine

\* A step of the loop that leaves the buffer alone.
LEMMA QuietScan ==
  ASSUME TypeOK, Scan, ~ FramePops
  PROVE  /\ bt' \in BtType /\ UNCHANGED <<machine, maps, head, dumps>>
         /\ bt'.buffer = bt.buffer /\ bt'.size = bt.size
         /\ bt.at = "scan" /\ bt'.at \in {"scan", "done", "fault"}
<1>1. Immediate \in Int
  BY InstrType, ShortType, BtFields DEF Immediate, Code, Instruction
<1>2. ASSUME NEW at \in {"done", "fault"}, End(at), bt.at = "scan"
      PROVE  /\ bt' \in BtType /\ UNCHANGED <<machine, maps, head, dumps>>
             /\ bt'.buffer = bt.buffer /\ bt'.size = bt.size /\ bt'.at = at
  BY <1>2, BtFields DEF End, BtType
<1>3. ASSUME NEW o \in Int, StepBack(o), bt.at = "scan"
      PROVE  /\ bt' \in BtType /\ UNCHANGED <<machine, maps, head, dumps>>
             /\ bt'.buffer = bt.buffer /\ bt'.size = bt.size /\ bt'.at = bt.at
  <2>1. bt' = [bt EXCEPT !.addr = bt.addr - 1, !.raOffset = o]
        /\ UNCHANGED <<machine, maps, head, dumps>>
    BY <1>3 DEF StepBack
  <2>2. bt \in BtType /\ bt.addr - 1 \in Int
    BY BtFields
  <2>3. /\ bt' \in BtType
        /\ bt'.buffer = bt.buffer /\ bt'.size = bt.size /\ bt'.at = bt.at
    BY <2>1, <2>2 DEF BtType
  <2>4. QED
    BY <2>1, <2>3
<1>4. CASE ScanEnds \/ ScanFaults \/ FrameEnds
  BY <1>2, <1>4 DEF ScanEnds, ScanFaults, FrameEnds, Reads, Scanning
<1>5. CASE ScanSkips \/ ScanOther
  BY <1>3, <1>5, BtFields DEF ScanSkips, ScanOther, Reads, Scanning
<1>6. CASE ScanSavesRa
  BY <1>1, <1>3, <1>6, BtFields DEF ScanSavesRa, Reads, Scanning
<1>7. QED
  BY <1>4, <1>5, <1>6 DEF Scan

\* A step of the loop that stores an entry.
LEMMA PopScan ==
  ASSUME TypeOK, FramePops
  PROVE  /\ bt' \in BtType /\ UNCHANGED <<machine, maps, head, dumps>>
         /\ Len(bt'.buffer) = Len(bt.buffer) + 1 /\ bt'.size = bt.size
         /\ bt.at = "scan"
         /\ bt'.at = IF Len(bt'.buffer) >= bt.size - 1 THEN "done" ELSE "scan"
<1> USE BtFields
<1> DEFINE caller == IF bt.raOffset # 0 THEN Value(bt.sp + bt.raOffset) ELSE bt.ra
           entries == Append(bt.buffer, caller)
<1>1. caller \in Int
  BY ValueType
<1>2. entries \in Seq(Int) /\ Len(entries) = Len(bt.buffer) + 1 /\ Len(entries) \in Nat
  BY <1>1
<1>3. Immediate \in Int
  BY InstrType, ShortType DEF Immediate, Code, Instruction
<1>4. CallerSp \in Int
  BY <1>3 DEF CallerSp
<1> HIDE DEF caller, entries
<1>5. bt' = [at |-> IF IsFull(Len(entries)) THEN "done" ELSE "scan",
             size |-> bt.size, buffer |-> entries, addr |-> caller, ra |-> caller,
             sp |-> CallerSp, raOffset |-> 0]
  BY DEF FramePops, caller, entries
<1>6. bt' \in BtType
  BY <1>1, <1>2, <1>4, <1>5 DEF BtType
<1>7. bt'.at = IF Len(bt'.buffer) >= bt.size - 1 THEN "done" ELSE "scan"
  BY <1>5 DEF IsFull
<1>8. QED
  BY <1>2, <1>5, <1>6, <1>7 DEF FramePops, Reads, Scanning

\* Every step keeps the types.
LEMMA NextType == ASSUME TypeOK, [Next]_vars PROVE TypeOK'
<1>1. CASE Execute
  BY <1>1, ExecuteType
<1>2. CASE ChangeMaps
  BY <1>2 DEF ChangeMaps, TypeOK, machine
<1>3. ASSUME NEW size \in Sizes, Begin(size) PROVE TypeOK'
  BY <1>3, BeginType
<1>4. CASE Scan
  <2>1. bt' \in BtType /\ UNCHANGED <<machine, maps, head, dumps>>
    BY <1>4, QuietScan, PopScan
  <2>2. QED
    BY <2>1 DEF TypeOK, BtType, machine
<1>5. CASE Resume
  BY <1>5, IdleType DEF Resume, TypeOK, BtType, machine
<1>6. CASE UNCHANGED vars
  BY <1>6 DEF vars, machine, TypeOK
<1>7. QED
  BY <1>1, <1>2, <1>3, <1>4, <1>5, <1>6 DEF Next

(* Types, for every program: the unwinder's state is well formed whatever  *)
(* words it takes for instructions and addresses.                          *)
THEOREM TypeCorrect == Spec => []TypeOK
<1>1. Init => TypeOK
  BY UnwindAssumption, IdleType DEF Init, TypeOK, BtType
<1>2. TypeOK /\ [Next]_vars => TypeOK'
  BY NextType
<1>3. QED
  BY <1>1, <1>2, PTL DEF Spec

(* While the loop runs there is an entry, and either it is the only one or *)
(* the test of line 228 has found room after the last.                     *)
ScanHasRoom ==
  bt.at = "scan" => Len(bt.buffer) = 1 \/ (Len(bt.buffer) > 1 /\ Len(bt.buffer) < bt.size - 1)

EntriesInv == EntriesFit /\ ScanHasRoom

\* One more entry, where the test of line 228 has found room after the last.
LEMMA OneMore ==
  ASSUME NEW n \in Nat, NEW size \in Nat, n = 1 \/ (n > 1 /\ n < size - 1)
  PROVE  n + 1 > 1 /\ n + 1 \in Nat /\ n + 1 <= IF size < 2 THEN 2 ELSE size
OBVIOUS

\* Every step keeps the bound.
LEMMA NextEntries == ASSUME TypeOK, EntriesInv, [Next]_vars PROVE EntriesInv'
<1> USE BtFields DEF EntriesInv, EntriesFit, ScanHasRoom
<1>1. CASE UNCHANGED bt
  BY <1>1
<1>2. ASSUME NEW size \in Sizes, Begin(size) PROVE EntriesInv'
  <2>1. size \in Nat
    BY UnwindAssumption
  <2>2. CASE bt' = [at |-> "scan", size |-> size, buffer |-> <<pc>>, addr |-> pc,
                    ra |-> ra, sp |-> sp, raOffset |-> 0]
    BY <2>1, <2>2
  <2>3. CASE bt' = Nothing(size)
    <3>1. bt'.buffer = <<>> /\ bt'.at = "done" /\ bt'.size = size
      BY <2>3 DEF Nothing, NoScan
    <3>2. QED
      BY <2>1, <3>1
  <2>4. QED
    BY <1>2, <2>2, <2>3 DEF Begin
<1>3. CASE Scan
  <2>1. CASE FramePops
    <3>1. /\ Len(bt'.buffer) = Len(bt.buffer) + 1 /\ bt'.size = bt.size /\ bt.at = "scan"
          /\ bt'.at = IF Len(bt'.buffer) >= bt.size - 1 THEN "done" ELSE "scan"
      BY <2>1, PopScan
    <3>2. Len(bt.buffer) \in Nat /\ bt.size \in Nat
      OBVIOUS
    <3>3. Len(bt.buffer) = 1 \/ (Len(bt.buffer) > 1 /\ Len(bt.buffer) < bt.size - 1)
      BY <3>1
    <3>4. /\ Len(bt'.buffer) > 1 /\ Len(bt'.buffer) \in Nat
          /\ Len(bt'.buffer) <= IF bt.size < 2 THEN 2 ELSE bt.size
      BY <3>1, <3>2, <3>3, OneMore
    <3>5. ScanHasRoom'
      BY <3>1, <3>2, <3>4
    <3>6. EntriesFit'
      BY <3>1, <3>4
    <3>7. QED
      BY <3>5, <3>6
  <2>2. CASE ~ FramePops
    <3>1. bt'.buffer = bt.buffer /\ bt'.size = bt.size /\ bt.at = "scan"
      BY <1>3, <2>2, QuietScan
    <3>2. QED
      BY <3>1
  <2>3. QED
    BY <2>1, <2>2
<1>4. CASE Resume
  BY <1>4, IdleType DEF Resume
<1>5. QED
  BY <1>1, <1>2, <1>3, <1>4 DEF Next, Execute, ChangeMaps, vars

(* EntriesFit: the buffer of the caller, when it has two entries or more,  *)
(* is not overrun, for every program, stack, list of mappings and sequence *)
(* of dumps.                                                               *)
THEOREM BufferBound == Spec => []EntriesFit
<1>1. Init => EntriesInv
  BY IdleType DEF Init, EntriesInv, EntriesFit, ScanHasRoom
<1>2. TypeOK /\ EntriesInv /\ [Next]_vars => EntriesInv'
  BY NextEntries
<1>3. EntriesInv => EntriesFit
  BY DEF EntriesInv
<1>4. QED
  BY <1>1, <1>2, <1>3, TypeCorrect, PTL DEF Spec

-----------------------------------------------------------------------------
(* The process.  From here on the code is what CompilerAssumption says.    *)
(* `fr' has the frame of every call that runs, the current one first: its  *)
(* function, and sp while the frame is there.                              *)

Frame == [fn : Functions \cup {Startup}, sp : Int]
Depth == Len(callers) + 1
Where(i) == IF i = 1 THEN pc ELSE callers[i - 1]
Loaded(f) == \E m \in maps : LiesIn(f.entry..f.last, m)
Holds(g, word) == stack[g.sp + g.fn.saves] = word

FramesFit(fr) ==
  /\ fr \in [1..Depth -> Frame]
  /\ fr[Depth] = [fn |-> Startup, sp |-> StackTop]
  /\ \A i \in 1..Len(callers) : /\ fr[i].fn \in Functions
                                /\ fr[i + 1].sp = fr[i].sp + fr[i].fn.size
  /\ \A i, j \in 1..Depth : i < j => fr[i].sp + fr[i].fn.size <= fr[j].sp
FramesThere(fr) == \A i \in 1..Depth : fr[i].sp \in Stack /\ Loaded(fr[i].fn)
CallersWait(fr) == \A i \in 1..Len(callers) : callers[i] \in Inner(fr[i + 1].fn)
CallersSaved(fr) == \A i \in 2..Len(callers) : fr[i].fn.saves > 0 /\ Holds(fr[i], callers[i])

\* The current function, by the part of it that runs.
IsWhole(g) == /\ pc \in Inner(g.fn) /\ sp = g.sp
              /\ g.fn \in Functions => IF g.fn.saves > 0 THEN Holds(g, callers[1])
                                       ELSE ra = callers[1]
IsEntered(g) == /\ g.fn \in Functions /\ ra = callers[1]
                /\ pc \in g.fn.entry..g.fn.first /\ sp = g.sp + g.fn.size
IsMade(g) == /\ g.fn \in Functions /\ ra = callers[1]
             /\ g.fn.saves > 0 /\ pc = g.fn.first + 1 /\ sp = g.sp
IsLoaded(g) == /\ g.fn \in Functions /\ ra = callers[1] /\ Holds(g, callers[1])
               /\ g.fn.saves > 0 /\ pc \in Epilogue(g.fn) /\ sp = g.sp
IsRemoved(g) == /\ g.fn \in Functions /\ ra = callers[1]
                /\ pc \in Body(g.fn) /\ Text[pc].op = "jr" /\ sp = g.sp + g.fn.size
Runs(g) == IsWhole(g) \/ IsEntered(g) \/ IsMade(g) \/ IsLoaded(g) \/ IsRemoved(g)

MachineOK(fr) == /\ ImageMaps \subseteq maps /\ callers \in Seq(Int)
                 /\ FramesFit(fr) /\ FramesThere(fr) /\ CallersWait(fr) /\ CallersSaved(fr)
                 /\ Runs(fr[1])

\* The code.
LEMMA CodeType ==
  ASSUME NEW a \in DOMAIN Text
  PROVE  /\ a \in Int /\ Text[a] \in Instruction /\ Text[a].to \in Int
         /\ Short(Text[a].imm) \in Int
BY UnwindAssumption, ShortType DEF Instruction

LEMMA FunctionType ==
  ASSUME NEW f \in Functions \cup {Startup}
  PROVE  /\ f.entry \in Int /\ f.first \in Int /\ f.last \in Int /\ f.size \in Nat
         /\ f.saves \in Nat
         /\ f.entry <= f.first /\ f.entry..f.last \subseteq DOMAIN Text
         /\ Text[f.first].op = "addiu" /\ Short(Text[f.first].imm) = -f.size
<1>1. MakesFrame(f)
  BY CompilerAssumption DEF IsFunction, IsStartup
<1> QED BY <1>1 DEF MakesFrame, Function

LEMMA BodyType ==
  ASSUME NEW f \in Functions \cup {Startup}, NEW a \in Body(f)
  PROVE  /\ a \in DOMAIN Text /\ a \in f.entry..f.last /\ a \in f.first..f.last /\ a \in Int
         /\ a >= f.first + (IF f.saves > 0 THEN 2 ELSE 1) /\ a # f.first
<1>1. PICK entry \in Int, first \in Int, last \in Int :
        /\ entry = f.entry /\ first = f.first /\ last = f.last /\ entry <= first
        /\ entry..last \subseteq DOMAIN Text
  BY FunctionType
<1>2. a \in (first + (IF f.saves > 0 THEN 2 ELSE 1))..last
  BY <1>1 DEF Body
<1> QED BY <1>1, <1>2

LEMMA FunctionCode ==
  ASSUME NEW f \in Functions
  PROVE  /\ f.size > 0 /\ f.saves < f.size /\ f.first <= f.last
         /\ \A a \in f.entry..f.first : a # f.first => Text[a].op = "other"
         /\ f.saves > 0 => /\ f.first + 1 \in f.first..f.last
                           /\ Text[f.first + 1].op = "sw"
                           /\ Short(Text[f.first + 1].imm) = f.saves
         /\ f.first + (IF f.saves > 0 THEN 2 ELSE 1) \in Inner(f)
<1>1. IsFunction(f)
  BY CompilerAssumption
<1>2. f.saves < f.size /\ f.size > 0
  BY <1>1, FunctionType DEF IsFunction
<1>3. f.first + (IF f.saves > 0 THEN 2 ELSE 1) \in Body(f)
  BY <1>1 DEF IsFunction, Inner
<1>4. f.first + (IF f.saves > 0 THEN 2 ELSE 1) <= f.last
  BY <1>3, FunctionType, BodyType
<1>5. \A a \in f.entry..f.first : a # f.first => a \in f.entry..(f.first - 1)
  BY FunctionType
<1>6. f.first <= f.last /\ (f.saves > 0 => f.first + 1 \in f.first..f.last)
  BY <1>4, FunctionType
<1> QED BY <1>1, <1>2, <1>5, <1>6 DEF IsFunction

LEMMA StartupCode ==
  /\ Startup \notin Functions /\ Startup.saves = 0
  /\ \A a \in Body(Startup) : Text[a].op \in {"call", "branch", "other", "hlt"}
  /\ Start \in Inner(Startup)
BY CompilerAssumption DEF IsStartup

LEMMA BodyCode ==
  ASSUME NEW f \in Functions \cup {Startup}, NEW a \in Body(f)
  PROVE  /\ Text[a].op \in {"lw", "addiu", "jr", "call", "branch", "other", "hlt"}
         /\ f \in Functions /\ Text[a].op = "call" => f.saves > 0
         /\ Text[a].op = "lw" => /\ f \in Functions /\ f.saves > 0
                                 /\ Short(Text[a].imm) = f.saves /\ a + 1 \in Body(f)
         /\ Text[a].op = "addiu" => /\ f \in Functions /\ Short(Text[a].imm) = f.size
                                    /\ a + 1 \in Body(f) /\ Text[a + 1].op = "jr"
         /\ Text[a].op = "jr" => f \in Functions
         /\ Text[a].op = "hlt" => f = Startup
<1>1. CASE f \in Functions
  <2>1. IsFunction(f)
    BY <1>1, CompilerAssumption
  <2> QED BY <1>1, <2>1 DEF IsFunction
<1>2. CASE f = Startup
  <2>1. Text[a].op \in {"call", "branch", "other", "hlt"}
    BY <1>2, StartupCode
  <2> QED BY <1>2, <2>1, StartupCode
<1> QED BY <1>1, <1>2

\* Where an instruction of a function leads.
LEMMA InnerLeads ==
  ASSUME NEW f \in Functions \cup {Startup}, NEW a \in Inner(f)
  PROVE  /\ Text[a].op \in {"call", "branch", "other"} => a + 1 \in Inner(f)
         /\ Text[a].op = "branch" => Text[a].to \in Inner(f)
<1>1. StaysInside(f)
  BY CompilerAssumption DEF IsFunction, IsStartup
<1> QED BY <1>1 DEF StaysInside

\* The load of ra leads to the epilogue, and that to the end of the frame.
LEMMA EpilogueBegins ==
  ASSUME NEW f \in Functions, NEW a \in Body(f), Text[a].op = "lw"
  PROVE  a + 1 \in Epilogue(f)
<1>1. a + 1 \in Body(f) /\ a \in Int
  BY BodyCode, BodyType
<1>2. a < a + 1 /\ (a + 1)..((a + 1) - 1) = {}
  BY <1>1
<1> QED BY <1>1, <1>2 DEF Epilogue

LEMMA EpilogueCode ==
  ASSUME NEW f \in Functions, NEW a \in Epilogue(f)
  PROVE  /\ a \in Body(f) /\ Text[a].op \in {"other", "addiu"}
         /\ Text[a].op = "other" => a + 1 \in Epilogue(f)
<1>1. a \in Body(f) /\ a \in Int
  BY BodyType DEF Epilogue
<1>2. IsFunction(f)
  BY CompilerAssumption
<1>3. Text[a].op \in {"other", "addiu"} /\ a + 1 \in Body(f)
  BY <1>1, <1>2 DEF IsFunction
<1>4. ASSUME Text[a].op = "other" PROVE a + 1 \in Epilogue(f)
  <2>1. PICK l \in Body(f) : /\ Text[l].op = "lw" /\ l < a
                             /\ \A b \in (l + 1)..(a - 1) : Text[b].op = "other"
    BY DEF Epilogue
  <2>2. l \in Int
    BY BodyType
  <2>3. l < a + 1 /\ \A b \in (l + 1)..((a + 1) - 1) : b = a \/ b \in (l + 1)..(a - 1)
    BY <1>1, <2>1, <2>2
  <2> QED BY <1>3, <1>4, <2>1, <2>3 DEF Epilogue
<1> QED BY <1>1, <1>3, <1>4

LEMMA InnerCode ==
  ASSUME NEW f \in Functions \cup {Startup}, NEW a \in Inner(f)
  PROVE  /\ a \in Body(f)
         /\ Text[a].op \in {"call", "branch", "other", "hlt", "lw", "addiu"}
         /\ Text[a].op = "lw" => f.saves > 0
         /\ Text[a].op = "addiu" => f.saves = 0
BY FunctionType DEF Inner

\* The frames.
LEMMA FrameType ==
  ASSUME NEW fr, MachineOK(fr)
  PROVE  /\ Len(callers) \in Nat /\ Depth \in Nat /\ Depth = Len(callers) + 1
         /\ \A i \in 1..Depth : /\ fr[i].fn \in Functions \cup {Startup}
                                /\ fr[i].sp \in Int /\ fr[i].sp \in Stack
         /\ \A i \in 1..Len(callers) : /\ callers[i] \in Int /\ fr[i].fn \in Functions
                                       /\ fr[i + 1].sp = fr[i].sp + fr[i].fn.size
         /\ fr[Depth].fn = Startup
         /\ fr[1].fn \in Functions => Len(callers) > 0
<1>1. callers \in Seq(Int) /\ Depth = Len(callers) + 1
  BY DEF MachineOK, Depth
<1>2. Len(callers) \in Nat /\ Depth \in Nat /\ \A i \in 1..Len(callers) : callers[i] \in Int
  BY <1>1
<1>3. \A i \in 1..Depth : fr[i] \in Frame /\ fr[i].sp \in Stack
  BY DEF MachineOK, FramesFit, FramesThere
<1>4. \A i \in 1..Depth : fr[i].fn \in Functions \cup {Startup} /\ fr[i].sp \in Int
  BY <1>3 DEF Frame
<1>5. fr[Depth] = [fn |-> Startup, sp |-> StackTop]
  BY DEF MachineOK, FramesFit
<1>6. fr[1].fn \in Functions => Depth # 1
  BY <1>5, StartupCode
<1> QED BY <1>1, <1>2, <1>3, <1>4, <1>5, <1>6 DEF MachineOK, FramesFit

\* The word in which a frame keeps ra is on the stack.
LEMMA SlotOnStack ==
  ASSUME NEW fr, MachineOK(fr), NEW i \in 1..Len(callers)
  PROVE  fr[i].sp + fr[i].fn.saves \in Stack
<1>1. i \in 1..Depth /\ i + 1 \in 1..Depth /\ fr[i].fn \in Functions
      /\ fr[i + 1].sp = fr[i].sp + fr[i].fn.size
      /\ fr[i].sp \in Stack /\ fr[i + 1].sp \in Stack /\ fr[i].sp \in Int
  BY FrameType
<1>2. fr[i].fn.saves \in Nat /\ fr[i].fn.size \in Nat /\ fr[i].fn.saves < fr[i].fn.size
  BY <1>1, FunctionType, FunctionCode
<1>3. fr[i].sp + fr[i].fn.saves \in fr[i].sp..fr[i + 1].sp
  <2>1. PICK p \in Int, size \in Nat, saves \in Nat :
          p = fr[i].sp /\ size = fr[i].fn.size /\ saves = fr[i].fn.saves
    BY <1>1, <1>2
  <2>2. saves < size
    BY <1>2, <2>1
  <2>3. p + saves \in p..(p + size)
    BY <2>2
  <2> QED BY <1>1, <2>1, <2>3
<1> QED BY <1>1, <1>3, CompilerAssumption

\* A step within the current function.
LEMMA SameFrames ==
  ASSUME NEW fr, MachineOK(fr), UNCHANGED <<callers, maps>>, Runs(fr[1])',
         \A i \in 2..Len(callers) : Holds(fr[i], callers[i])' <=> Holds(fr[i], callers[i])
  PROVE  MachineOK(fr)'
<1>1. Depth' = Depth
  BY DEF Depth
<1>2. FramesFit(fr)'
  BY <1>1 DEF MachineOK, FramesFit
<1>3. FramesThere(fr)'
  BY <1>1 DEF MachineOK, FramesThere, Loaded
<1>4. CallersWait(fr)' /\ CallersSaved(fr)'
  BY DEF MachineOK, CallersWait, CallersSaved
<1> QED BY <1>2, <1>3, <1>4 DEF MachineOK

\* What an instruction does, by its name.
LEMMA Executes ==
  ASSUME TypeOK, Execute
  PROVE  /\ bt.at = "idle" /\ pc \in DOMAIN Text /\ UNCHANGED <<maps, head, bt, dumps>>
         /\ Text[pc].op = "addiu" => /\ sp' = sp + Short(Text[pc].imm) /\ pc' = pc + 1
                                     /\ UNCHANGED <<ra, stack, callers>>
         /\ Text[pc].op = "sw" => /\ stack' = [stack EXCEPT ![sp + Short(Text[pc].imm)] = ra]
                                  /\ pc' = pc + 1 /\ UNCHANGED <<sp, ra, callers>>
         /\ Text[pc].op = "lw" => /\ ra' = Value(sp + Short(Text[pc].imm)) /\ pc' = pc + 1
                                  /\ UNCHANGED <<sp, stack, callers>>
         /\ Text[pc].op = "call" => /\ Mapped(Text[pc].to)
                                    /\ \E g \in Functions : /\ Text[pc].to = g.entry
                                                            /\ sp - g.size \in Stack
                                    /\ ra' = pc + 1 /\ pc' = Text[pc].to
                                    /\ callers' = <<pc + 1>> \o callers
                                    /\ UNCHANGED <<sp, stack>>
         /\ Text[pc].op = "jr" => /\ pc' = ra /\ callers' = Tail(callers)
                                  /\ UNCHANGED <<sp, ra, stack>>
         /\ Text[pc].op = "branch" => /\ pc' \in {pc + 1, Text[pc].to}
                                      /\ UNCHANGED <<sp, ra, stack, callers>>
         /\ Text[pc].op = "other" => pc' = pc + 1 /\ UNCHANGED <<sp, ra, stack, callers>>
         /\ Text[pc].op # "hlt"
BY DEF Execute

LEMMA RunsEntered ==
  ASSUME TypeOK, Execute, NEW fr, MachineOK(fr), IsEntered(fr[1])
  PROVE  MachineOK(fr)'
<1> DEFINE g == fr[1]
           f == g.fn
<1>1. /\ f \in Functions /\ ra = callers[1] /\ pc \in f.entry..f.first
      /\ sp = g.sp + f.size /\ f.entry \in Int
      /\ f.first \in Int /\ f.size \in Nat /\ f.saves \in Nat /\ g.sp \in Int
  BY FunctionType, FrameType DEF IsEntered
<1>2. CASE pc # f.first
  <2>1. Text[pc].op = "other"
    BY <1>1, <1>2, FunctionCode
  <2>2. UNCHANGED <<sp, ra, stack, callers, maps>> /\ pc' = pc + 1
    BY <2>1, Executes
  <2>3. pc' \in f.entry..f.first
    <3>1. PICK entry \in Int, first \in Int :
            entry = f.entry /\ first = f.first /\ pc \in entry..first
      BY <1>1
    <3> QED BY <1>2, <2>2, <3>1
  <2>4. IsEntered(g)'
    BY <1>1, <2>2, <2>3 DEF IsEntered
  <2> QED BY <2>2, <2>4, SameFrames DEF Runs, Holds
<1>3. CASE pc = f.first
  <2>1. Text[pc].op = "addiu" /\ Short(Text[pc].imm) = -f.size
    BY <1>1, <1>3, FunctionType
  <2>2. /\ UNCHANGED <<ra, stack, callers, maps>> /\ sp' = sp + -f.size /\ pc' = pc + 1
    BY <2>1, Executes
  <2>3. sp' = g.sp
    BY <1>1, <2>2
  <2>4. CASE f.saves > 0
    <3>1. IsMade(g)'
      BY <1>1, <1>3, <2>2, <2>3, <2>4 DEF IsMade
    <3> QED BY <2>2, <3>1, SameFrames DEF Runs, Holds
  <2>5. CASE f.saves = 0
    <3>1. pc' \in Inner(f)
      BY <1>1, <1>3, <2>2, <2>5, FunctionCode
    <3>2. IsWhole(g)'
      BY <1>1, <2>2, <2>3, <2>5, <3>1 DEF IsWhole
    <3> QED BY <2>2, <3>2, SameFrames DEF Runs, Holds
  <2> QED BY <1>1, <2>4, <2>5
<1> QED BY <1>2, <1>3

LEMMA RunsMade ==
  ASSUME TypeOK, Execute, NEW fr, MachineOK(fr), IsMade(fr[1])
  PROVE  MachineOK(fr)'
<1> DEFINE g == fr[1]
           f == g.fn
<1>1. /\ f \in Functions /\ ra = callers[1] /\ pc = f.first + 1 /\ sp = g.sp /\ f.saves > 0
      /\ f.first \in Int /\ f.size \in Nat /\ f.saves \in Nat /\ g.sp \in Int
      /\ Len(callers) > 0
  BY FunctionType, FrameType DEF IsMade
<1>2. /\ Text[pc].op = "sw" /\ Short(Text[pc].imm) = f.saves /\ f.saves < f.size
      /\ f.first + 2 \in Inner(f)
  BY <1>1, FunctionCode
<1>3. /\ UNCHANGED <<sp, ra, callers, maps>> /\ pc' = pc + 1
      /\ stack' = [stack EXCEPT ![g.sp + f.saves] = ra]
  BY <1>1, <1>2, Executes
<1>4. pc' \in Inner(f)
  BY <1>1, <1>2, <1>3
<1>5. g.sp + f.saves \in Stack /\ stack \in [Stack -> Int]
  <2>1. 1 \in 1..Len(callers)
    BY <1>1, FrameType
  <2> QED BY <2>1, SlotOnStack DEF TypeOK
<1>6. Holds(g, callers[1])'
  BY <1>1, <1>3, <1>5 DEF Holds
<1>7. ASSUME NEW i \in 2..Len(callers)
      PROVE  Holds(fr[i], callers[i])' <=> Holds(fr[i], callers[i])
  <2>1. i \in 1..Depth /\ 1 \in 1..Depth /\ 1 < i
    BY FrameType
  <2>2. g.sp + f.size <= fr[i].sp /\ fr[i].sp \in Int /\ fr[i].fn \in Functions \cup {Startup}
    BY <2>1, FrameType DEF MachineOK, FramesFit
  <2>3. fr[i].fn.saves \in Nat
    BY <2>2, FunctionType
  <2>4. PICK p \in Int, q \in Int, saves \in Nat, own \in Nat, size \in Nat :
          /\ p = g.sp /\ q = fr[i].sp /\ saves = fr[i].fn.saves
          /\ own = f.saves /\ size = f.size
    BY <1>1, <2>2, <2>3
  <2>5. p + size <= q /\ own < size
    BY <1>2, <2>2, <2>4
  <2>6. q + saves # p + own
    BY <2>5
  <2>7. stack'[q + saves] = stack[q + saves]
    BY <1>3, <1>5, <2>4, <2>6
  <2> QED BY <1>3, <2>4, <2>7 DEF Holds
<1>8. IsWhole(g)'
  BY <1>1, <1>3, <1>4, <1>6 DEF IsWhole
<1> QED BY <1>3, <1>7, <1>8, SameFrames DEF Runs

LEMMA RunsLoaded ==
  ASSUME TypeOK, Execute, NEW fr, MachineOK(fr), IsLoaded(fr[1])
  PROVE  MachineOK(fr)'
<1> DEFINE g == fr[1]
           f == g.fn
<1>1. /\ f \in Functions /\ ra = callers[1] /\ pc \in Epilogue(f) /\ sp = g.sp
      /\ Holds(g, callers[1]) /\ f.saves > 0
  BY DEF IsLoaded
<1>2. /\ pc \in Body(f) /\ Text[pc].op \in {"other", "addiu"}
      /\ Text[pc].op = "other" => pc + 1 \in Epilogue(f)
  BY <1>1, EpilogueCode
<1>3. CASE Text[pc].op = "other"
  <2>1. UNCHANGED <<sp, ra, stack, callers, maps>> /\ pc' = pc + 1
    BY <1>3, Executes
  <2>2. IsLoaded(g)'
    BY <1>1, <1>2, <1>3, <2>1 DEF IsLoaded, Holds
  <2> QED BY <2>1, <2>2, SameFrames DEF Runs, Holds
<1>4. CASE Text[pc].op = "addiu"
  <2>1. Short(Text[pc].imm) = f.size /\ pc + 1 \in Body(f) /\ Text[pc + 1].op = "jr"
    BY <1>1, <1>2, <1>4, BodyCode
  <2>2. /\ UNCHANGED <<ra, stack, callers, maps>> /\ sp' = sp + f.size /\ pc' = pc + 1
    BY <1>4, <2>1, Executes
  <2>3. IsRemoved(g)'
    BY <1>1, <2>1, <2>2 DEF IsRemoved
  <2> QED BY <2>2, <2>3, SameFrames DEF Runs, Holds
<1> QED BY <1>2, <1>3, <1>4

\* A function that is called: its frame comes first.
LEMMA RunsCall ==
  ASSUME TypeOK, Execute, NEW fr, MachineOK(fr), IsWhole(fr[1]), Text[pc].op = "call"
  PROVE  \E new : MachineOK(new)'
<1> DEFINE f == fr[1].fn
<1>1. /\ f \in Functions \cup {Startup} /\ pc \in Inner(f) /\ pc \in Body(f)
      /\ sp = fr[1].sp /\ fr[1].sp \in Int /\ 1 \in 1..Depth
  BY FrameType, InnerCode DEF IsWhole
<1>2. PICK t \in Functions : Text[pc].to = t.entry /\ sp - t.size \in Stack
  BY Executes
<1>3. /\ pc + 1 \in Inner(f) /\ pc + 1 \in Int
      /\ f \in Functions => f.saves > 0 /\ Holds(fr[1], callers[1])
  BY <1>1, BodyCode, BodyType, InnerLeads DEF IsWhole
<1>4. /\ Mapped(t.entry) /\ sp - t.size \in Stack /\ ra' = pc + 1 /\ pc' = t.entry
      /\ callers' = <<pc + 1>> \o callers /\ UNCHANGED <<sp, stack, maps>>
  BY <1>2, Executes
<1>5. PICK n \in Nat : n = Len(callers) /\ Depth = n + 1
  BY FrameType
<1>6. PICK word \in Int : word = pc + 1
  BY <1>3
<1>7. /\ callers' \in Seq(Int) /\ Len(callers') = n + 1 /\ callers'[1] = word
      /\ \A i \in 1..n : callers'[i + 1] = callers[i]
  BY <1>4, <1>5, <1>6 DEF MachineOK
<1>8. /\ t.size \in Nat /\ t.entry \in Int /\ t.first \in Int /\ t.last \in Int
      /\ t.entry <= t.first /\ t.first <= t.last
  BY FunctionType, FunctionCode
<1>9. PICK g \in Frame : g = [fn |-> t, sp |-> sp - t.size]
  <2>1. sp - t.size \in Int
    BY <1>1, <1>8
  <2>2. [fn |-> t, sp |-> sp - t.size] \in Frame
    BY <2>1 DEF Frame
  <2> QED BY <2>2
<1>10. g.fn = t /\ g.sp \in Int /\ g.sp + t.size = sp /\ g.sp \in Stack
  BY <1>1, <1>4, <1>8, <1>9
<1>11. PICK new : new = [i \in 1..(n + 2) |-> IF i = 1 THEN g ELSE fr[i - 1]]
  OBVIOUS
<1>12. /\ new[1] = g /\ \A i \in 1..(n + 1) : new[i + 1] = fr[i]
       /\ \A i \in 1..(n + 2) : i = 1 \/ i - 1 \in 1..(n + 1)
  BY <1>5, <1>11
<1>13. Depth' = n + 2
  BY <1>5, <1>7 DEF Depth
<1>14. FramesFit(new)'
  <2>1. new \in [1..(n + 2) -> Frame]
    <3>1. \A i \in 1..(n + 1) : fr[i] \in Frame
      BY <1>5 DEF MachineOK, FramesFit
    <3> QED BY <1>11, <1>12, <3>1
  <2>2. new[n + 2] = [fn |-> Startup, sp |-> StackTop]
    <3>1. n + 1 \in 1..(n + 1) /\ (n + 1) + 1 = n + 2
      BY <1>5
    <3> QED BY <1>5, <1>12, <3>1 DEF MachineOK, FramesFit
  <2>3. ASSUME NEW i \in 1..(n + 1)
        PROVE  new[i].fn \in Functions /\ new[i + 1].sp = new[i].sp + new[i].fn.size
    <3>1. CASE i = 1
      BY <1>1, <1>10, <1>12, <3>1
    <3>2. CASE i # 1
      <4>1. PICK j \in 1..n : i = j + 1
        <5>1. i - 1 \in 1..n /\ i = (i - 1) + 1
          BY <1>5, <3>2
        <5> QED BY <5>1
      <4>2. j \in 1..(n + 1) /\ j + 1 \in 1..(n + 1) /\ new[i] = fr[j] /\ new[i + 1] = fr[j + 1]
        BY <1>5, <1>12, <4>1
      <4> QED BY <1>5, <4>1, <4>2, FrameType
    <3> QED BY <3>1, <3>2
  <2>4. ASSUME NEW i \in 1..(n + 2), NEW j \in 1..(n + 2), i < j
        PROVE  new[i].sp + new[i].fn.size <= new[j].sp
    <3>1. PICK l \in 1..(n + 1) : j = l + 1 /\ new[j] = fr[l]
      <4>1. j - 1 \in 1..(n + 1) /\ j = (j - 1) + 1
        BY <1>5, <2>4
      <4> QED BY <1>12, <4>1
    <3>2. CASE i = 1
      <4>1. CASE l = 1
        BY <1>1, <1>10, <1>12, <3>1, <3>2, <4>1
      <4>2. CASE l # 1
        <5>1. fr[1].sp + f.size <= fr[l].sp /\ fr[l].sp \in Int /\ f.size \in Nat
          <6>1. 1 \in 1..Depth /\ l \in 1..Depth /\ 1 < l
            BY <1>1, <1>5, <4>2
          <6>2. fr[1].sp + f.size <= fr[l].sp
            BY <6>1 DEF MachineOK, FramesFit
          <6>3. fr[l].sp \in Int
            BY <6>1, FrameType
          <6>4. f.size \in Nat
            BY <1>1, FunctionType
          <6> QED BY <6>2, <6>3, <6>4
        <5>2. sp <= fr[l].sp
          BY <1>1, <5>1
        <5> QED BY <1>10, <1>12, <3>1, <3>2, <5>2
      <4> QED BY <4>1, <4>2
    <3>3. CASE i # 1
      <4>1. PICK k \in 1..(n + 1) : i = k + 1 /\ new[i] = fr[k]
        <5>1. i - 1 \in 1..(n + 1) /\ i = (i - 1) + 1
          BY <1>5, <3>3
        <5> QED BY <1>12, <5>1
      <4>2. k < l
        BY <2>4, <3>1, <4>1
      <4> QED BY <1>5, <3>1, <4>1, <4>2 DEF MachineOK, FramesFit
    <3> QED BY <3>2, <3>3
  <2> QED BY <1>7, <1>13, <2>1, <2>2, <2>3, <2>4 DEF FramesFit
<1>15. FramesThere(new)'
  <2>1. Loaded(t)
    <3>1. t.entry \in t.entry..t.last
      BY <1>8
    <3>2. PICK m \in maps : m.readable /\ t.entry \in Words(m)
      BY <1>4 DEF Mapped
    <3>3. CASE \E o \in ImageMaps : LiesIn(t.entry..t.last, o)
      BY <3>3 DEF Loaded, MachineOK
    <3>4. CASE LiesIn(t.entry..t.last, LibMap)
      <4>1. t.entry \in Words(LibMap)
        BY <3>1, <3>4 DEF LiesIn
      <4>2. m = LibMap
        BY <3>2, <4>1, CompilerAssumption DEF TypeOK
      <4> QED BY <3>4, <4>2 DEF Loaded
    <3> QED BY <3>3, <3>4, CompilerAssumption
  <2>2. ASSUME NEW i \in 1..(n + 2) PROVE new[i].sp \in Stack /\ Loaded(new[i].fn)
    <3>1. CASE i = 1
      BY <1>10, <1>12, <2>1, <3>1
    <3>2. CASE i # 1
      <4>1. i - 1 \in 1..(n + 1) /\ i = (i - 1) + 1
        BY <1>5, <3>2
      <4>2. new[i] = fr[i - 1]
        BY <1>12, <4>1
      <4> QED BY <1>5, <4>1, <4>2 DEF MachineOK, FramesThere
    <3> QED BY <3>1, <3>2
  <2> QED BY <1>4, <1>13, <2>2 DEF FramesThere, Loaded
<1>16. CallersWait(new)'
  <2>1. ASSUME NEW i \in 1..(n + 1) PROVE callers'[i] \in Inner(new[i + 1].fn)
    <3>1. CASE i = 1
      BY <1>1, <1>3, <1>5, <1>6, <1>7, <1>12, <3>1
    <3>2. CASE i # 1
      <4>1. PICK j \in 1..n : i = j + 1
        <5>1. i - 1 \in 1..n /\ i = (i - 1) + 1
          BY <1>5, <3>2
        <5> QED BY <5>1
      <4>2. j + 1 \in 1..(n + 1) /\ new[i + 1] = fr[j + 1] /\ callers'[i] = callers[j]
        BY <1>5, <1>7, <1>12, <4>1
      <4> QED BY <1>5, <4>1, <4>2 DEF MachineOK, CallersWait
    <3> QED BY <3>1, <3>2
  <2> QED BY <1>7, <2>1 DEF CallersWait
<1>17. CallersSaved(new)'
  <2>1. ASSUME NEW i \in 2..(n + 1)
        PROVE  new[i].fn.saves > 0 /\ Holds(new[i], callers'[i])
    <3>1. PICK j \in 1..n : i = j + 1
      <4>1. i - 1 \in 1..n /\ i = (i - 1) + 1
        BY <1>5
      <4> QED BY <4>1
    <3>2. j \in 1..(n + 1) /\ new[i] = fr[j] /\ callers'[i] = callers[j]
      BY <1>5, <1>7, <1>12, <3>1
    <3>3. CASE j = 1
      <4>1. f \in Functions
        BY <1>5, <3>1, <3>3, FrameType
      <4> QED BY <1>3, <3>2, <3>3, <4>1
    <3>4. CASE j # 1
      <4>1. j \in 2..Len(callers)
        BY <1>5, <3>4
      <4> QED BY <3>2, <4>1 DEF MachineOK, CallersSaved
    <3> QED BY <3>3, <3>4
  <2> QED BY <1>4, <1>7, <2>1 DEF CallersSaved, Holds
<1>18. IsEntered(new[1])'
  <2>1. t.entry \in t.entry..t.first
    BY <1>8
  <2> QED BY <1>4, <1>6, <1>7, <1>10, <1>12, <2>1 DEF IsEntered
<1> QED BY <1>4, <1>7, <1>14, <1>15, <1>16, <1>17, <1>18 DEF MachineOK, Runs

LEMMA RunsWhole ==
  ASSUME TypeOK, Execute, NEW fr, MachineOK(fr), IsWhole(fr[1])
  PROVE  \E new : MachineOK(new)'
<1> DEFINE g == fr[1]
           f == g.fn
<1>1. /\ f \in Functions \cup {Startup} /\ pc \in Inner(f) /\ pc \in Body(f) /\ sp = g.sp
      /\ g.sp \in Int /\ 1 \in 1..Depth
  BY FrameType, InnerCode DEF IsWhole
<1>2. CASE Text[pc].op = "call"
  BY <1>2, RunsCall
<1>3. CASE Text[pc].op \in {"branch", "other"}
  <2>1. UNCHANGED <<sp, ra, stack, callers, maps>> /\ pc' \in {pc + 1, Text[pc].to}
        /\ (Text[pc].op = "other" => pc' = pc + 1)
    BY <1>3, Executes
  <2>2. pc' \in Inner(f)
    BY <1>1, <1>3, <2>1, InnerLeads
  <2>3. IsWhole(g)'
    BY <1>1, <2>1, <2>2 DEF IsWhole, Holds
  <2> QED BY <2>1, <2>3, SameFrames DEF Runs, Holds
<1>4. CASE Text[pc].op = "lw"
  <2>1. /\ f \in Functions /\ f.saves > 0 /\ Short(Text[pc].imm) = f.saves
        /\ pc + 1 \in Epilogue(f)
    BY <1>1, <1>4, BodyCode, EpilogueBegins
  <2>2. /\ ra' = Value(sp + f.saves) /\ pc' = pc + 1 /\ UNCHANGED <<sp, stack, callers, maps>>
    BY <1>4, <2>1, Executes
  <2>3. 1 \in 1..Len(callers)
    BY <2>1, FrameType
  <2>4. Value(g.sp + f.saves) = callers[1]
    <3>1. g.sp + f.saves \in Stack
      BY <2>3, SlotOnStack
    <3> QED BY <2>1, <3>1 DEF Value, IsWhole, Holds
  <2>5. IsLoaded(g)'
    BY <1>1, <2>1, <2>2, <2>4 DEF IsLoaded, IsWhole, Holds
  <2> QED BY <2>2, <2>5, SameFrames DEF Runs, Holds
<1>5. CASE Text[pc].op = "addiu"
  <2>1. /\ f \in Functions /\ f.saves = 0 /\ Short(Text[pc].imm) = f.size
        /\ pc + 1 \in Body(f) /\ Text[pc + 1].op = "jr"
    BY <1>1, <1>5, BodyCode, InnerCode
  <2>2. sp' = sp + f.size /\ pc' = pc + 1 /\ UNCHANGED <<ra, stack, callers, maps>>
    BY <1>5, <2>1, Executes
  <2>3. IsRemoved(g)'
    BY <1>1, <2>1, <2>2 DEF IsRemoved, IsWhole
  <2> QED BY <2>2, <2>3, SameFrames DEF Runs, Holds
<1>6. Text[pc].op # "hlt"
  BY Executes
<1> QED BY <1>1, <1>2, <1>3, <1>4, <1>5, <1>6, InnerCode

\* A function that returns: its frame goes.
LEMMA RunsRemoved ==
  ASSUME TypeOK, Execute, NEW fr, MachineOK(fr), IsRemoved(fr[1])
  PROVE  \E new : MachineOK(new)'
<1> DEFINE f == fr[1].fn
<1>1. /\ f \in Functions /\ ra = callers[1] /\ Text[pc].op = "jr" /\ sp = fr[1].sp + f.size
      /\ callers \in Seq(Int)
  BY DEF IsRemoved, MachineOK
<1>2. PICK n \in Nat : Len(callers) = n + 1 /\ Depth = n + 2
  <2>1. Len(callers) \in Nat /\ Len(callers) > 0 /\ Depth = Len(callers) + 1
    BY <1>1, FrameType
  <2>2. PICK n \in Nat : n = Len(callers) - 1
    <3>1. Len(callers) - 1 \in Nat
      BY <2>1
    <3> QED BY <3>1
  <2>3. Len(callers) = n + 1 /\ Depth = n + 2
    BY <2>1, <2>2
  <2> QED BY <2>3
<1>3. pc' = ra /\ callers' = Tail(callers) /\ UNCHANGED <<sp, ra, stack, maps>>
  BY <1>1, Executes
<1>4. /\ callers' \in Seq(Int) /\ Len(callers') = n /\ \A i \in 1..n : callers'[i] = callers[i + 1]
  BY <1>1, <1>2, <1>3
<1>5. Depth' = n + 1
  BY <1>4 DEF Depth
<1>6. PICK new : new = [i \in 1..(n + 1) |-> fr[i + 1]]
  OBVIOUS
<1>7. \A i \in 1..(n + 1) : new[i] = fr[i + 1] /\ i + 1 \in 1..(n + 2)
  BY <1>2, <1>6
<1>8. \A i \in 1..n : i \in 1..(n + 1) /\ i + 1 \in 1..(n + 1)
  BY <1>2
<1>9. FramesFit(new)'
  <2>1. new \in [1..(n + 1) -> Frame]
    <3>1. \A i \in 1..(n + 2) : fr[i] \in Frame
      BY <1>2 DEF MachineOK, FramesFit
    <3> QED BY <1>6, <1>7, <3>1
  <2>2. new[n + 1] = [fn |-> Startup, sp |-> StackTop]
    <3>1. n + 1 \in 1..(n + 1) /\ (n + 1) + 1 = n + 2
      BY <1>2
    <3> QED BY <1>2, <1>7, <3>1 DEF MachineOK, FramesFit
  <2>3. ASSUME NEW i \in 1..n
        PROVE  new[i].fn \in Functions /\ new[i + 1].sp = new[i].sp + new[i].fn.size
    <3>1. new[i] = fr[i + 1] /\ new[i + 1] = fr[(i + 1) + 1] /\ i + 1 \in 1..Len(callers)
      BY <1>2, <1>7, <1>8
    <3> QED BY <3>1, FrameType
  <2>4. ASSUME NEW i \in 1..(n + 1), NEW j \in 1..(n + 1), i < j
        PROVE  new[i].sp + new[i].fn.size <= new[j].sp
    <3>1. i + 1 \in 1..Depth /\ j + 1 \in 1..Depth /\ i + 1 < j + 1
      BY <1>2, <2>4
    <3> QED BY <1>7, <3>1 DEF MachineOK, FramesFit
  <2> QED BY <1>4, <1>5, <2>1, <2>2, <2>3, <2>4 DEF FramesFit
<1>10. FramesThere(new)'
  <2>1. ASSUME NEW i \in 1..(n + 1) PROVE new[i].sp \in Stack /\ Loaded(new[i].fn)
    BY <1>2, <1>7 DEF MachineOK, FramesThere
  <2> QED BY <1>3, <1>5, <2>1 DEF FramesThere, Loaded
<1>11. CallersWait(new)'
  <2>1. ASSUME NEW i \in 1..n PROVE callers'[i] \in Inner(new[i + 1].fn)
    <3>1. /\ callers'[i] = callers[i + 1] /\ new[i + 1] = fr[(i + 1) + 1]
          /\ i + 1 \in 1..Len(callers)
      BY <1>2, <1>4, <1>7, <1>8
    <3> QED BY <3>1 DEF MachineOK, CallersWait
  <2> QED BY <1>4, <2>1 DEF CallersWait
<1>12. CallersSaved(new)'
  <2>1. ASSUME NEW i \in 2..n PROVE new[i].fn.saves > 0 /\ Holds(new[i], callers'[i])
    <3>1. i \in 1..n /\ i + 1 \in 2..Len(callers)
      BY <1>2
    <3>2. callers'[i] = callers[i + 1] /\ new[i] = fr[i + 1]
      BY <1>4, <1>7, <1>8, <3>1
    <3> QED BY <3>1, <3>2 DEF MachineOK, CallersSaved
  <2> QED BY <1>3, <1>4, <2>1 DEF CallersSaved, Holds
<1>13. IsWhole(new[1])'
  <2>1. 1 \in 1..Len(callers) /\ new[1] = fr[2] /\ 1 \in 1..Depth /\ 1 + 1 = 2
    BY <1>2, <1>7
  <2>2. callers[1] \in Inner(fr[2].fn)
    BY <2>1 DEF MachineOK, CallersWait
  <2>3. sp = fr[2].sp
    BY <1>1, <2>1, FrameType
  <2>4. ASSUME fr[2].fn \in Functions
        PROVE  fr[2].fn.saves > 0 /\ Holds(fr[2], callers[2]) /\ callers'[1] = callers[2]
    <3>1. n # 0
      BY <1>2, <2>4, FrameType, StartupCode
    <3>2. 2 \in 2..Len(callers) /\ 1 \in 1..n
      BY <1>2, <3>1
    <3> QED BY <1>4, <3>2 DEF MachineOK, CallersSaved
  <2> QED BY <1>1, <1>3, <2>1, <2>2, <2>3, <2>4 DEF IsWhole, Holds
<1> QED BY <1>3, <1>4, <1>9, <1>10, <1>11, <1>12, <1>13 DEF MachineOK, Runs

LEMMA ExecuteKeeps ==
  ASSUME TypeOK, Execute, NEW fr, MachineOK(fr)
  PROVE  \E new : MachineOK(new)'
BY RunsWhole, RunsEntered, RunsMade, RunsLoaded, RunsRemoved DEF MachineOK, Runs

\* The process is in the function whose frame is first.
LEMMA RunsThere ==
  ASSUME NEW fr, MachineOK(fr)
  PROVE  pc \in fr[1].fn.entry..fr[1].fn.last
<1> DEFINE f == fr[1].fn
<1>1. f \in Functions \cup {Startup}
  BY FrameType
<1>2. CASE IsWhole(fr[1])
  BY <1>1, <1>2, InnerCode, BodyType DEF IsWhole
<1>3. CASE IsEntered(fr[1]) \/ IsMade(fr[1])
  <2>1. /\ pc \in f.entry..f.first \/ pc = f.first + 1
        /\ f \in Functions /\ (pc = f.first + 1 => f.saves > 0)
    BY <1>3, FunctionType DEF IsEntered, IsMade
  <2>2. f.first <= f.last /\ (f.saves > 0 => f.first + 1 \in f.first..f.last)
    BY <2>1, FunctionCode
  <2> QED BY <1>1, <2>1, <2>2, FunctionType
<1>4. CASE IsLoaded(fr[1]) \/ IsRemoved(fr[1])
  BY <1>1, <1>4, BodyType, EpilogueCode DEF IsLoaded, IsRemoved
<1> QED BY <1>2, <1>3, <1>4 DEF MachineOK, Runs

\* The library goes only when none of its functions runs.
LEMMA ChangeMapsKeeps ==
  ASSUME TypeOK, ChangeMaps, NEW fr, MachineOK(fr)
  PROVE  MachineOK(fr)'
<1>1. /\ UNCHANGED <<pc, sp, ra, stack, callers>> /\ Depth' = Depth
      /\ \/ maps' = maps \cup {LibMap}
         \/ /\ maps' = maps \ {LibMap}
            /\ ~ InLib(pc) /\ \A i \in DOMAIN callers : ~ InLib(callers[i])
  BY DEF ChangeMaps, machine, Depth
<1>2. ImageMaps \subseteq maps'
  BY <1>1, CompilerAssumption DEF MachineOK
<1>3. FramesThere(fr)'
  <2> SUFFICES ASSUME NEW i \in 1..Depth PROVE fr[i].sp \in Stack /\ Loaded(fr[i].fn)'
    BY <1>1 DEF FramesThere
  <2> DEFINE f == fr[i].fn
  <2>1. f \in Functions \cup {Startup} /\ fr[i].sp \in Stack /\ Loaded(f)
    BY FrameType DEF MachineOK, FramesThere
  <2>2. CASE maps' = maps \cup {LibMap}
    BY <2>1, <2>2 DEF Loaded
  <2>3. CASE \E m \in ImageMaps : LiesIn(f.entry..f.last, m)
    BY <1>2, <2>1, <2>3 DEF Loaded
  <2>4. CASE LiesIn(f.entry..f.last, LibMap) /\ maps' # maps \cup {LibMap}
    <3>1. Where(i) \in f.entry..f.last
      <4>1. CASE i = 1
        BY <2>1, <4>1, RunsThere DEF Where
      <4>2. CASE i # 1
        <5>1. PICK j \in 1..Len(callers) : i = j + 1
          <6>1. i - 1 \in 1..Len(callers) /\ i = (i - 1) + 1
            BY <4>2, FrameType
          <6> QED BY <6>1
        <5>2. Where(i) = callers[j]
          BY <5>1, FrameType DEF Where
        <5>3. callers[j] \in Inner(f)
          BY <5>1 DEF MachineOK, CallersWait
        <5> QED BY <2>1, <5>2, <5>3, InnerCode, BodyType
      <4> QED BY <4>1, <4>2
    <3>2. InLib(Where(i))
      BY <2>4, <3>1 DEF LiesIn, InLib
    <3>3. i = 1 \/ i - 1 \in DOMAIN callers
      BY FrameType DEF MachineOK
    <3> QED BY <1>1, <2>4, <3>2, <3>3 DEF Where
  <2> QED BY <2>1, <2>2, <2>3, <2>4, CompilerAssumption
<1>4. FramesFit(fr)' /\ CallersWait(fr)' /\ CallersSaved(fr)'
  BY <1>1 DEF MachineOK, FramesFit, CallersWait, CallersSaved, Holds
<1>5. Runs(fr[1])'
  BY <1>1 DEF MachineOK, Runs, IsWhole, IsEntered, IsMade, IsLoaded, IsRemoved, Holds
<1> QED BY <1>1, <1>2, <1>3, <1>4, <1>5 DEF MachineOK

LEMMA MachineRests ==
  ASSUME NEW fr, MachineOK(fr), UNCHANGED <<machine, maps>>
  PROVE  MachineOK(fr)'
<1>1. UNCHANGED <<pc, sp, ra, stack, callers, maps>>
  BY DEF machine
<1>2. Runs(fr[1])'
  BY <1>1 DEF MachineOK, Runs, IsWhole, IsEntered, IsMade, IsLoaded, IsRemoved, Holds
<1> QED BY <1>1, <1>2, SameFrames DEF Holds

LEMMA MachineBegins == Init => \E fr : MachineOK(fr)
<1> SUFFICES ASSUME Init PROVE \E fr : MachineOK(fr)
  OBVIOUS
<1>1. /\ pc = Start /\ sp = StackTop /\ callers = <<>> /\ maps = ImageMaps
      /\ callers \in Seq(Int) /\ Len(callers) = 0
  BY DEF Init
<1>2. Depth = 1
  BY <1>1 DEF Depth
<1>3. StackTop \in Int
  BY UnwindAssumption
<1>4. PICK g \in Frame : g = [fn |-> Startup, sp |-> StackTop]
  <2>1. [fn |-> Startup, sp |-> StackTop] \in Frame
    BY <1>3 DEF Frame
  <2> QED BY <2>1
<1>5. g.fn = Startup /\ g.sp = StackTop
  BY <1>4
<1>6. PICK fr : fr = [i \in 1..1 |-> g]
  OBVIOUS
<1>7. fr \in [1..1 -> Frame] /\ fr[1] = g
  BY <1>6
<1>8. FramesFit(fr)
  BY <1>1, <1>2, <1>4, <1>7 DEF FramesFit
<1>9. FramesThere(fr)
  <2>1. \E m \in ImageMaps : LiesIn(Startup.entry..Startup.last, m)
    BY CompilerAssumption
  <2>2. Loaded(Startup)
    BY <1>1, <2>1 DEF Loaded
  <2> QED BY <1>2, <1>5, <1>7, <2>2, CompilerAssumption DEF FramesThere
<1>10. CallersWait(fr) /\ CallersSaved(fr)
  BY <1>1 DEF CallersWait, CallersSaved
<1>11. IsWhole(fr[1])
  BY <1>1, <1>5, <1>7, StartupCode DEF IsWhole
<1> QED BY <1>1, <1>8, <1>9, <1>10, <1>11 DEF MachineOK, Runs

-----------------------------------------------------------------------------
(* The dump.  With k entries in the buffer the loop is in the function of  *)
(* the k-th frame, has its stack pointer, and knows where ra is saved once *)
(* it is past the instruction that saves it.                               *)

Scans(fr, k) ==
  /\ k \in 1..Depth /\ bt.sp = fr[k].sp
  /\ bt.addr \in fr[k].fn.first..fr[k].fn.last
  /\ k = 1 => bt.ra = ra
  /\ bt.raOffset = IF bt.addr = fr[k].fn.first THEN fr[k].fn.saves ELSE 0

HasCallers == Len(bt.buffer) <= Depth /\ \A i \in 1..Len(bt.buffer) : bt.buffer[i] = Where(i)
Used == IF bt.size > 2 THEN bt.size - 1 ELSE bt.size
HasEnough == Len(bt.buffer) = Depth \/ Len(bt.buffer) >= Used

DumpOK(fr) ==
  bt.at # "idle" /\ FrameIsWhole =>
    /\ bt.at # "fault" /\ HasCallers /\ Len(callers) > 0
    /\ bt.at = "scan" => Scans(fr, Len(bt.buffer))
    /\ bt.at = "done" /\ bt.buffer # <<>> /\ maps \subseteq head => HasEnough

\* A whole frame: the current function has sp, and ra is saved or not used yet.
LEMMA WholeRuns ==
  ASSUME TypeOK, NEW fr, MachineOK(fr), FrameIsWhole
  PROVE  IsWhole(fr[1]) \/ IsLoaded(fr[1])
<1> DEFINE f == fr[1].fn
<1>1. ~ IsEntered(fr[1]) /\ ~ IsMade(fr[1])
  <2> SUFFICES ASSUME IsEntered(fr[1]) \/ IsMade(fr[1]) PROVE FALSE
    OBVIOUS
  <2>1. f \in Functions /\ f \in Functions \cup {Startup}
    BY DEF IsEntered, IsMade
  <2>2. /\ pc \in f.entry..f.first \/ (pc = f.first + 1 /\ f.saves > 0)
        /\ f.first <= f.last /\ (f.saves > 0 => f.first + 1 \in f.first..f.last)
    BY <2>1, FunctionCode DEF IsEntered, IsMade
  <2>3. pc \in f.entry..f.last
    BY <2>1, <2>2, FunctionType
  <2>4. pc \in Body(f)
    BY <2>1, <2>3 DEF FrameIsWhole
  <2>5. pc >= f.first + (IF f.saves > 0 THEN 2 ELSE 1) /\ pc \in Int
    BY <2>1, <2>4, BodyType
  <2> QED BY <2>1, <2>2, <2>5, FunctionType
<1>2. ~ IsRemoved(fr[1])
  BY DEF IsRemoved, FrameIsWhole
<1> QED BY <1>1, <1>2 DEF MachineOK, Runs

LEMMA WholeFrame ==
  ASSUME TypeOK, NEW fr, MachineOK(fr), FrameIsWhole
  PROVE  pc \in Body(fr[1].fn) /\ sp = fr[1].sp
BY WholeRuns, FrameType, InnerCode, EpilogueCode DEF IsWhole, IsLoaded

LEMMA CallerIsKnown ==
  ASSUME TypeOK, NEW fr, MachineOK(fr), FrameIsWhole, NEW k \in 1..Len(callers)
  PROVE  IF fr[k].fn.saves > 0 THEN stack[fr[k].sp + fr[k].fn.saves] = callers[k]
         ELSE k = 1 /\ ra = callers[1]
<1>1. CASE k # 1
  <2>1. k \in 2..Len(callers)
    BY <1>1, FrameType
  <2> QED BY <2>1 DEF MachineOK, CallersSaved, Holds
<1>2. CASE k = 1
  <2>1. fr[1].fn \in Functions
    BY <1>2, FrameType
  <2> QED BY <1>2, <2>1, WholeRuns DEF IsWhole, IsLoaded, Holds
<1> QED BY <1>1, <1>2

\* Words of a function or of the stack that are there can be read.
LEMMA LoadedWord ==
  ASSUME TypeOK, NEW f \in Functions \cup {Startup}, Loaded(f), NEW a \in f.entry..f.last
  PROVE  /\ a \in Int /\ a \in DOMAIN Text /\ Instr(a) = Text[a] /\ Mapped(a)
         /\ maps \subseteq head => bt_regularAddr(head, a)
<1>1. a \in Int /\ a \in DOMAIN Text
  BY FunctionType
<1>2. PICK m \in maps : m.readable /\ a \in Words(m)
  BY DEF Loaded, LiesIn
<1>3. m.vmStart \in Int /\ m.vmEnd \in Int
  BY UnwindAssumption DEF TypeOK, pmapLine
<1>4. m.vmStart <= a /\ a <= m.vmEnd
  BY <1>1, <1>2, <1>3 DEF Words
<1> QED BY <1>1, <1>2, <1>4 DEF Mapped, Instr, bt_regularAddr

LEMMA StackWord ==
  ASSUME TypeOK, ImageMaps \subseteq maps, NEW a \in Stack
  PROVE  Mapped(a) /\ (maps \subseteq head => bt_regularAddr(head, a))
<1>1. a \in Int
  BY UnwindAssumption
<1>2. PICK m \in ImageMaps : m.readable /\ a \in Words(m)
  BY CompilerAssumption DEF LiesIn
<1>3. m.vmStart \in Int /\ m.vmEnd \in Int
  BY UnwindAssumption DEF pmapLine
<1>4. m.vmStart <= a /\ a <= m.vmEnd
  BY <1>1, <1>2, <1>3 DEF Words
<1> QED BY <1>2, <1>4 DEF Mapped, bt_regularAddr

\* What the loop reads in a function.
AtFrame(f) == /\ bt.addr = f.first /\ bt.raOffset = f.saves
              /\ Code.op = "addiu" /\ Immediate = -f.size
AtSave(f) == /\ f.saves > 0 /\ bt.addr = f.first + 1
             /\ Code.op = "sw" /\ Immediate = f.saves
InBody(f) == /\ bt.addr \in Body(f) /\ bt.raOffset = 0
             /\ Code.op \in {"lw", "addiu", "jr", "call", "branch", "other", "hlt"}
             /\ Code.op = "addiu" => f \in Functions /\ Immediate = f.size
             /\ Code.op = "hlt" => f = Startup
             /\ bt.addr - 1 \in f.first..f.last
             /\ bt.addr - 1 = f.first => f.saves = 0

LEMMA ScanInFunction ==
  ASSUME TypeOK, NEW fr, MachineOK(fr), NEW k, Scans(fr, k)
  PROVE  LET f == fr[k].fn
         IN  /\ f \in Functions \cup {Startup}
             /\ IF k = Depth THEN f = Startup ELSE k \in 1..Len(callers) /\ f \in Functions
             /\ Mapped(bt.addr) /\ (maps \subseteq head => bt_regularAddr(head, bt.addr))
             /\ AtFrame(f) \/ AtSave(f) \/ InBody(f)
<1> DEFINE f == fr[k].fn
<1>1. k \in 1..Depth /\ (k # Depth => k \in 1..Len(callers))
  BY FrameType DEF Scans
<1>2. /\ f \in Functions \cup {Startup} /\ Loaded(f)
      /\ IF k = Depth THEN f = Startup ELSE k \in 1..Len(callers) /\ f \in Functions
  BY <1>1, FrameType DEF MachineOK, FramesThere
<1>3. /\ bt.addr \in f.first..f.last /\ bt.addr \in f.entry..f.last
      /\ bt.raOffset = IF bt.addr = f.first THEN f.saves ELSE 0
  BY <1>2, FunctionType DEF Scans
<1>4. Code = Text[bt.addr] /\ Mapped(bt.addr)
      /\ (maps \subseteq head => bt_regularAddr(head, bt.addr))
  BY <1>2, <1>3, LoadedWord DEF Code
<1>5. PICK first \in Int, last \in Int, a \in Int :
        first = f.first /\ last = f.last /\ a = bt.addr /\ a \in first..last
  BY <1>2, <1>3, FunctionType
<1>6. f.saves \in Nat
  BY <1>2, FunctionType
<1>7. CASE a = first
  <2>1. bt.addr = f.first /\ bt.raOffset = f.saves /\ Code = Text[f.first]
    BY <1>3, <1>4, <1>5, <1>7
  <2>2. Text[f.first].op = "addiu" /\ Short(Text[f.first].imm) = -f.size
    BY <1>2, FunctionType
  <2>3. AtFrame(f)
    BY <2>1, <2>2 DEF AtFrame, Immediate
  <2> QED BY <1>2, <1>4, <2>3
<1>8. CASE a = first + 1 /\ f.saves > 0
  <2>1. bt.addr = f.first + 1 /\ Code = Text[f.first + 1]
    BY <1>4, <1>5, <1>8
  <2>2. f \in Functions
    BY <1>2, <1>8, StartupCode
  <2>3. Text[f.first + 1].op = "sw" /\ Short(Text[f.first + 1].imm) = f.saves
    BY <1>8, <2>2, FunctionCode
  <2>4. AtSave(f)
    BY <1>8, <2>1, <2>3 DEF AtSave, Immediate
  <2> QED BY <1>2, <1>4, <2>4
<1>9. CASE a # first /\ ~ (a = first + 1 /\ f.saves > 0)
  <2>1. a \in Body(f) /\ a - 1 \in first..last /\ (a - 1 = first => f.saves = 0)
    BY <1>5, <1>6, <1>9 DEF Body
  <2>2. /\ Text[a].op \in {"lw", "addiu", "jr", "call", "branch", "other", "hlt"}
        /\ Text[a].op = "addiu" => f \in Functions /\ Short(Text[a].imm) = f.size
        /\ Text[a].op = "hlt" => f = Startup
    BY <1>2, <2>1, BodyCode
  <2>3. bt.raOffset = 0
    BY <1>3, <1>5, <1>9
  <2>4. /\ Code.op \in {"lw", "addiu", "jr", "call", "branch", "other", "hlt"}
        /\ Code.op = "addiu" => f \in Functions /\ Immediate = f.size
        /\ Code.op = "hlt" => f = Startup
    BY <1>4, <1>5, <2>2 DEF Immediate
  <2>5. /\ bt.addr \in Body(f) /\ bt.addr - 1 \in f.first..f.last
        /\ bt.addr - 1 = f.first => f.saves = 0
    BY <1>5, <2>1
  <2>6. InBody(f)
    BY <2>3, <2>4, <2>5 DEF InBody
  <2> QED BY <1>2, <1>4, <2>6
<1> QED BY <1>7, <1>8, <1>9

\* While a dump runs the process stands still.
LEMMA ProcessWaits ==
  ASSUME UNCHANGED <<machine, maps, head>>
  PROVE  /\ Depth' = Depth /\ ra' = ra /\ maps' = maps /\ head' = head
         /\ FrameIsWhole' = FrameIsWhole /\ \A i : Where(i)' = Where(i)
BY DEF machine, Depth, FrameIsWhole, Where

LEMMA StepsBack ==
  ASSUME TypeOK, NEW o \in Int, StepBack(o)
  PROVE  /\ bt'.at = bt.at /\ bt'.buffer = bt.buffer /\ bt'.size = bt.size
         /\ bt'.sp = bt.sp /\ bt'.ra = bt.ra
         /\ bt'.addr = bt.addr - 1 /\ bt'.raOffset = o
         /\ UNCHANGED <<machine, maps, head>>
<1>1. bt' = [bt EXCEPT !.addr = bt.addr - 1, !.raOffset = o]
      /\ UNCHANGED <<machine, maps, head>>
  BY DEF StepBack
<1>2. bt \in BtType
  BY BtFields
<1> QED BY <1>1, <1>2 DEF BtType

LEMMA Ends ==
  ASSUME TypeOK, NEW at \in {"done", "fault"}, End(at)
  PROVE  /\ bt'.at = at /\ bt'.buffer = bt.buffer /\ bt'.size = bt.size
         /\ UNCHANGED <<machine, maps, head>>
<1>1. bt' = [bt EXCEPT !.at = at] /\ UNCHANGED <<machine, maps, head>>
  BY DEF End
<1>2. bt \in BtType
  BY BtFields
<1> QED BY <1>1, <1>2 DEF BtType

\* A step that stores no entry keeps what is known if it goes on in the
\* function, or ends where there is reason to.
LEMMA QuietKeeps ==
  ASSUME TypeOK, NEW fr, DumpOK(fr), FrameIsWhole, bt.at = "scan",
         UNCHANGED <<machine, maps, head>>, bt'.buffer = bt.buffer, bt'.size = bt.size,
         \/ bt'.at = "scan" /\ Scans(fr, Len(bt.buffer))'
         \/ bt'.at = "done" /\ (maps \subseteq head => HasEnough)
  PROVE  DumpOK(fr)'
<1>1. HasCallers /\ UNCHANGED <<Depth, callers, maps, head>> /\ Len(callers) > 0
       /\ \A i : Where(i)' = Where(i)
  BY ProcessWaits DEF DumpOK, machine
<1>2. HasCallers'
  BY <1>1 DEF HasCallers
<1>3. maps' \subseteq head' /\ bt'.at = "done" => HasEnough'
  BY <1>1 DEF HasEnough, Used
<1> QED BY <1>1, <1>2, <1>3 DEF DumpOK

\* The steps of the loop, by what it reads.
LEMMA StepAtFrame ==
  ASSUME TypeOK, NEW fr, MachineOK(fr), NEW k, Scans(fr, k), Scan, Len(callers) > 0,
         k = Len(bt.buffer), AtFrame(fr[k].fn), ~ FramePops
  PROVE  End("done") /\ (maps \subseteq head => k = Depth)
<1> DEFINE f == fr[k].fn
           slot == bt.sp + bt.raOffset
<1>1. /\ f \in Functions \cup {Startup}
      /\ IF k = Depth THEN f = Startup ELSE k \in 1..Len(callers) /\ f \in Functions
      /\ Mapped(bt.addr) /\ (maps \subseteq head => bt_regularAddr(head, bt.addr))
  BY ScanInFunction
<1>2. f.size \in Nat /\ f.saves \in Nat /\ Immediate = -f.size /\ bt.raOffset = f.saves
  BY <1>1, FunctionType DEF AtFrame
<1>3. IsFrame /\ ~ (Immediate > 0) /\ Code.op = "addiu"
  BY <1>2 DEF AtFrame, IsFrame
<1>4. ScanEnds \/ FrameEnds
  BY <1>1, <1>3 DEF Scan, ScanFaults, ScanSkips, ScanSavesRa, ScanOther
<1>5. CASE k = Depth
  <2>1. bt.raOffset = 0 /\ Len(bt.buffer) > 1
    BY <1>1, <1>2, <1>5, StartupCode, FrameType
  <2>2. ~ FrameOk
    BY <2>1 DEF FrameOk
  <2>3. End("done")
    BY <1>4, <2>2 DEF ScanEnds, FrameEnds
  <2> QED BY <1>5, <2>3
<1>6. CASE k # Depth
  <2>1. k \in 1..Len(callers) /\ f \in Functions /\ f.size > 0 /\ Immediate # 0
    BY <1>1, <1>2, <1>6, FunctionCode
  <2>2. slot \in Stack
    <3>1. bt.raOffset = f.saves /\ bt.sp = fr[k].sp
      BY DEF AtFrame, Scans
    <3> QED BY <2>1, <3>1, SlotOnStack
  <2>3. Mapped(slot) /\ (maps \subseteq head => bt_regularAddr(head, slot))
    BY <2>2, StackWord DEF MachineOK
  <2>4. k > 1 => bt.raOffset # 0
    <3>1. k > 1 => k \in 2..Len(callers)
      BY <2>1
    <3> QED BY <3>1 DEF MachineOK, CallersSaved, AtFrame
  <2>5. maps \subseteq head => FrameOk
    BY <2>1, <2>3, <2>4 DEF FrameOk
  <2>6. CASE ScanEnds
    BY <1>1, <1>3, <2>6 DEF ScanEnds
  <2>7. CASE FrameEnds
    BY <2>3, <2>5, <2>7 DEF FrameEnds
  <2> QED BY <1>4, <2>6, <2>7
<1> QED BY <1>5, <1>6

LEMMA StepInFunction ==
  ASSUME TypeOK, NEW fr, MachineOK(fr), NEW k, Scans(fr, k), Scan, ~ FramePops,
         Len(callers) > 0, k = Len(bt.buffer)
  PROVE  \/ End("done") /\ (maps \subseteq head => k = Depth)
         \/ /\ StepBack(IF bt.addr - 1 = fr[k].fn.first THEN fr[k].fn.saves ELSE 0)
            /\ bt.addr - 1 \in fr[k].fn.first..fr[k].fn.last
<1> DEFINE f == fr[k].fn
           back == StepBack(IF bt.addr - 1 = f.first THEN f.saves ELSE 0)
<1>1. /\ f \in Functions \cup {Startup}
      /\ IF k = Depth THEN f = Startup ELSE k \in 1..Len(callers) /\ f \in Functions
      /\ Mapped(bt.addr) /\ (maps \subseteq head => bt_regularAddr(head, bt.addr))
      /\ AtFrame(f) \/ AtSave(f) \/ InBody(f)
  BY ScanInFunction
<1>2. f.size \in Nat /\ f.saves \in Nat /\ f.first \in Int /\ f.last \in Int
  BY <1>1, FunctionType
<1>3. CASE AtFrame(f)
  BY <1>3, StepAtFrame
<1>4. CASE AtSave(f)
  <2>1. Code.op = "sw" /\ bt.addr = f.first + 1 /\ Immediate = f.saves
    BY <1>4 DEF AtSave
  <2>2. ScanEnds \/ ScanSavesRa
    BY <1>1, <2>1 DEF Scan, ScanFaults, ScanSkips, ScanOther, FrameEnds, IsFrame
  <2>3. CASE ScanEnds
    BY <1>1, <2>1, <2>3 DEF ScanEnds
  <2>4. CASE ScanSavesRa
    <3>1. bt.addr - 1 = f.first /\ bt.addr - 1 \in f.first..f.last
      BY <1>2, <2>1 DEF Scans
    <3>2. StepBack(f.saves)
      BY <2>1, <2>4 DEF ScanSavesRa
    <3>3. back
      BY <3>1, <3>2
    <3> QED BY <3>1, <3>3
  <2> QED BY <2>2, <2>3, <2>4
<1>5. CASE InBody(f)
  <2>1. /\ Code.op \in {"lw", "addiu", "jr", "call", "branch", "other", "hlt"}
        /\ Code.op = "addiu" => f \in Functions /\ Immediate = f.size
        /\ Code.op = "hlt" => f = Startup
        /\ bt.raOffset = 0 /\ bt.addr - 1 \in f.first..f.last
        /\ bt.addr - 1 = f.first => f.saves = 0
    BY <1>5 DEF InBody
  <2>2. ~ IsFrame
    BY <1>2, <2>1, FunctionCode DEF IsFrame
  <2>3. ScanEnds \/ ScanSkips \/ ScanOther
    BY <1>1, <2>1, <2>2 DEF Scan, ScanFaults, ScanSavesRa, FrameEnds
  <2>4. CASE ScanEnds
    BY <1>1, <2>1, <2>4, StartupCode DEF ScanEnds
  <2>5. CASE ScanSkips \/ ScanOther
    <3>1. StepBack(0)
      BY <2>1, <2>5 DEF ScanSkips, ScanOther
    <3>2. back
      BY <2>1, <3>1
    <3> QED BY <2>1, <3>2
  <2> QED BY <2>3, <2>4, <2>5
<1> QED BY <1>1, <1>3, <1>4, <1>5

LEMMA QuietStepKeeps ==
  ASSUME TypeOK, NEW fr, MachineOK(fr), DumpOK(fr), FrameIsWhole, Scan, ~ FramePops
  PROVE  DumpOK(fr)'
<1>1. bt.at = "scan"
  BY QuietScan
<1>2. PICK k : k = Len(bt.buffer) /\ Scans(fr, k) /\ k \in 1..Depth /\ bt.sp = fr[k].sp
  BY <1>1 DEF DumpOK, Scans
<1>3. CASE End("done") /\ (maps \subseteq head => k = Depth)
  <2>1. maps \subseteq head => HasEnough
    BY <1>2, <1>3 DEF HasEnough
  <2>2. bt'.at = "done" /\ bt'.buffer = bt.buffer /\ bt'.size = bt.size
        /\ UNCHANGED <<machine, maps, head>>
    BY <1>3, Ends
  <2> QED BY <1>1, <2>1, <2>2, QuietKeeps
<1>4. ASSUME NEW o \in Int, StepBack(o),
             bt.addr - 1 \in fr[k].fn.first..fr[k].fn.last,
             o = IF bt.addr - 1 = fr[k].fn.first THEN fr[k].fn.saves ELSE 0
      PROVE  DumpOK(fr)'
  <2>1. /\ bt'.at = bt.at /\ bt'.buffer = bt.buffer /\ bt'.size = bt.size
        /\ bt'.sp = bt.sp /\ bt'.ra = bt.ra
        /\ bt'.addr = bt.addr - 1 /\ bt'.raOffset = o
        /\ UNCHANGED <<machine, maps, head>>
    BY <1>4, StepsBack
  <2>2. Depth' = Depth /\ ra' = ra
    BY <2>1, ProcessWaits
  <2>3. k = 1 => bt'.ra = ra'
    BY <1>2, <2>1, <2>2 DEF Scans
  <2>4. Scans(fr, k)'
    BY <1>2, <1>4, <2>1, <2>2, <2>3 DEF Scans
  <2>5. Scans(fr, Len(bt.buffer))'
    BY <1>2, <2>1, <2>4
  <2> QED BY <1>1, <2>1, <2>5, QuietKeeps
<1>5. fr[k].fn.saves \in Int /\ Len(callers) > 0
  BY <1>1, <1>2, FrameType, FunctionType DEF DumpOK
<1> QED BY <1>2, <1>3, <1>4, <1>5, StepInFunction

\* The entry stored is the caller, and the loop goes on where it called.
LEMMA PopFinds ==
  ASSUME TypeOK, NEW fr, MachineOK(fr), NEW k, Scans(fr, k), FramePops, Len(callers) > 0,
         k = Len(bt.buffer), FrameIsWhole
  PROVE  /\ k \in 1..Len(callers) /\ bt'.buffer = Append(bt.buffer, callers[k])
         /\ bt'.addr = callers[k] /\ bt'.sp = fr[k + 1].sp /\ bt'.raOffset = 0
<1> DEFINE f == fr[k].fn
<1>1. /\ f \in Functions \cup {Startup}
      /\ IF k = Depth THEN f = Startup ELSE k \in 1..Len(callers) /\ f \in Functions
      /\ AtFrame(f) \/ AtSave(f) \/ InBody(f)
  BY ScanInFunction
<1>2. AtFrame(f)
  <2>1. Code.op = "addiu" /\ Immediate <= 0
    BY DEF FramePops, IsFrame
  <2>2. ~ InBody(f)
    BY <1>1, <2>1, FunctionCode, FunctionType DEF InBody
  <2> QED BY <1>1, <2>1, <2>2 DEF AtSave
<1>3. k # Depth
  <2> SUFFICES ASSUME k = Depth PROVE FALSE
    OBVIOUS
  <2>1. bt.raOffset = 0 /\ Len(bt.buffer) > 1
    BY <1>1, <1>2, StartupCode, FrameType DEF AtFrame
  <2> QED BY <2>1 DEF FramePops, FrameOk
<1>4. /\ k \in 1..Len(callers) /\ f \in Functions
      /\ f.size > 0 /\ f.size \in Nat /\ f.saves \in Nat
  BY <1>1, <1>3, FunctionCode, FunctionType
<1>5. bt.addr = f.first /\ bt.raOffset = f.saves /\ Immediate = -f.size /\ bt.sp = fr[k].sp
  BY <1>2 DEF AtFrame, Scans
<1>6. (IF bt.raOffset # 0 THEN Value(bt.sp + bt.raOffset) ELSE bt.ra) = callers[k]
  <2>1. CASE f.saves > 0
    <3>1. fr[k].sp + f.saves \in Stack /\ stack[fr[k].sp + f.saves] = callers[k]
      BY <1>4, <2>1, SlotOnStack, CallerIsKnown
    <3>2. Value(bt.sp + bt.raOffset) = callers[k]
      BY <1>5, <3>1 DEF Value
    <3> QED BY <1>4, <1>5, <2>1, <3>2
  <2>2. CASE f.saves = 0
    <3>0. ~ (f.saves > 0)
      BY <2>2
    <3>1. k = 1 /\ ra = callers[1]
      BY <1>4, <3>0, CallerIsKnown
    <3>2. bt.ra = ra
      BY <3>1 DEF Scans
    <3> QED BY <1>5, <2>2, <3>1, <3>2
  <2> QED BY <1>4, <2>1, <2>2
<1>7. CallerSp = fr[k + 1].sp
  <2>1. fr[k + 1].sp = fr[k].sp + f.size /\ fr[k].sp \in Int
    BY <1>4, FrameType
  <2> QED BY <1>4, <1>5, <2>1 DEF CallerSp
<1>8. bt' = [at |-> IF IsFull(Len(Append(bt.buffer, callers[k]))) THEN "done" ELSE "scan",
             size |-> bt.size, buffer |-> Append(bt.buffer, callers[k]),
             addr |-> callers[k], ra |-> callers[k], sp |-> CallerSp, raOffset |-> 0]
  BY <1>6 DEF FramePops
<1> QED BY <1>4, <1>7, <1>8

LEMMA EnoughUsed ==
  ASSUME NEW n \in Nat, NEW size \in Nat, n > 1, n >= size - 1
  PROVE  n >= IF size > 2 THEN size - 1 ELSE size
OBVIOUS

LEMMA PopKeeps ==
  ASSUME TypeOK, NEW fr, MachineOK(fr), DumpOK(fr), FrameIsWhole, FramePops
  PROVE  DumpOK(fr)'
<1>1. /\ bt.at = "scan" /\ UNCHANGED <<machine, maps, head>>
      /\ Len(bt'.buffer) = Len(bt.buffer) + 1 /\ bt'.size = bt.size
      /\ bt'.at = IF Len(bt'.buffer) >= bt.size - 1 THEN "done" ELSE "scan"
  BY PopScan
<1>2. PICK k : k = Len(bt.buffer) /\ Scans(fr, k)
  BY <1>1 DEF DumpOK
<1>3. /\ k \in 1..Len(callers) /\ bt'.buffer = Append(bt.buffer, callers[k])
      /\ bt'.addr = callers[k] /\ bt'.sp = fr[k + 1].sp /\ bt'.raOffset = 0
  BY <1>1, <1>2, PopFinds DEF DumpOK
<1>4. /\ Depth' = Depth /\ Depth = Len(callers) + 1 /\ Len(callers) \in Nat
      /\ \A i : Where(i)' = Where(i)
  BY <1>1, ProcessWaits, FrameType
<1>5. k \in Nat /\ k + 1 \in 1..Depth /\ Len(bt'.buffer) = k + 1 /\ k + 1 > 1
  BY <1>1, <1>2, <1>3, <1>4
<1>6. HasCallers'
  <2>1. ASSUME NEW i \in 1..Len(bt'.buffer) PROVE bt'.buffer[i] = Where(i)
    <3>1. bt.buffer \in Seq(Int) /\ callers[k] \in Int
      BY <1>3, BtFields, FrameType
    <3>2. CASE i = k + 1
      <4>1. bt'.buffer[k + 1] = callers[k]
        BY <1>2, <1>3, <3>1
      <4>2. Where(k + 1) = callers[k]
        BY <1>5 DEF Where
      <4> QED BY <3>2, <4>1, <4>2
    <3>3. CASE i # k + 1
      <4>1. i \in 1..Len(bt.buffer)
        BY <1>2, <1>5, <3>3
      <4>2. bt'.buffer[i] = bt.buffer[i]
        BY <1>3, <3>1, <4>1
      <4>3. bt.buffer[i] = Where(i)
        BY <1>1, <4>1 DEF DumpOK, HasCallers
      <4> QED BY <4>2, <4>3
    <3> QED BY <3>2, <3>3
  <2>2. Len(bt'.buffer) <= Depth
    BY <1>5, <1>4
  <2> QED BY <1>4, <2>1, <2>2 DEF HasCallers
<1>7. Scans(fr, k + 1)'
  <2>1. callers[k] \in Inner(fr[k + 1].fn)
    BY <1>3 DEF MachineOK, CallersWait
  <2>2. fr[k + 1].fn \in Functions \cup {Startup}
    BY <1>5, FrameType
  <2>3. callers[k] \in Body(fr[k + 1].fn)
    BY <2>1, <2>2, InnerCode
  <2>4. callers[k] \in fr[k + 1].fn.first..fr[k + 1].fn.last /\ callers[k] # fr[k + 1].fn.first
    BY <2>2, <2>3, BodyType
  <2> QED BY <1>3, <1>4, <1>5, <2>4 DEF Scans
<1>8. bt'.at = "done" => HasEnough'
  <2> SUFFICES ASSUME bt'.at = "done" PROVE Len(bt'.buffer) >= Used'
    BY DEF HasEnough
  <2>1. Len(bt'.buffer) >= bt.size - 1 /\ bt.size \in Nat
    BY <1>1, BtFields
  <2>2. Len(bt'.buffer) >= IF bt.size > 2 THEN bt.size - 1 ELSE bt.size
    BY <1>5, <2>1, EnoughUsed
  <2> QED BY <1>1, <2>2 DEF Used
<1>9. bt'.at # "fault" /\ Scans(fr, Len(bt.buffer))' /\ Len(callers') > 0
  BY <1>1, <1>3, <1>4, <1>5, <1>7 DEF machine
<1> QED BY <1>6, <1>8, <1>9 DEF DumpOK

\* The first entry is where the process was interrupted.
LEMMA BeginFinds ==
  ASSUME TypeOK, NEW fr, MachineOK(fr), NEW size \in Sizes, Begin(size)
  PROVE  DumpOK(fr)'
<1>1. UNCHANGED <<pc, sp, ra, callers>> /\ UNCHANGED <<machine, maps>> /\ FrameIsWhole' = FrameIsWhole
      /\ Len(callers) > 0
  <2>1. callers # <<>> /\ callers \in Seq(Int)
    BY DEF Begin, MachineOK
  <2>2. Len(callers) > 0
    BY <2>1
  <2> QED BY <2>2 DEF Begin, machine, FrameIsWhole
<1>2. Depth' = Depth /\ Depth = Len(callers) + 1 /\ Len(callers) \in Nat /\ \A i : Where(i)' = Where(i)
  BY <1>1, FrameType DEF Depth, Where
<1>3. CASE bt' = Nothing(size)
  <2>1. bt'.at = "done" /\ bt'.buffer = <<>> /\ Len(bt'.buffer) = 0
    BY <1>3 DEF Nothing, NoScan
  <2> QED BY <1>1, <1>2, <2>1 DEF DumpOK, HasCallers
<1>4. CASE bt' = [at |-> "scan", size |-> size, buffer |-> <<pc>>, addr |-> pc,
                  ra |-> ra, sp |-> sp, raOffset |-> 0]
  <2>1. /\ bt'.at = "scan" /\ bt'.buffer = <<pc>> /\ bt'.addr = pc /\ bt'.ra = ra
        /\ bt'.sp = sp /\ bt'.raOffset = 0
    BY <1>4
  <2>2. Len(bt'.buffer) = 1 /\ bt'.buffer[1] = pc
    BY <2>1
  <2>3. HasCallers'
    BY <1>1, <1>2, <2>2 DEF HasCallers, Where
  <2>4. ASSUME FrameIsWhole PROVE Scans(fr, 1)'
    <3> DEFINE f == fr[1].fn
    <3>1. f \in Functions \cup {Startup} /\ pc \in Body(f) /\ sp = fr[1].sp /\ 1 \in 1..Depth
      BY <1>2, <2>4, FrameType, WholeFrame
    <3>2. pc \in f.first..f.last /\ pc # f.first
      BY <3>1, BodyType
    <3> QED BY <1>1, <1>2, <2>1, <3>1, <3>2 DEF Scans
  <2>5. FrameIsWhole => Scans(fr, Len(bt.buffer))'
    BY <2>2, <2>4
  <2> QED BY <1>1, <2>1, <2>3, <2>5 DEF DumpOK
<1> QED BY <1>3, <1>4 DEF Begin

(* The frames, and what the dump has found of them.                        *)
UnwindInv == \E fr : MachineOK(fr) /\ DumpOK(fr)

LEMMA NextUnwind ==
  ASSUME TypeOK, EntriesInv, UnwindInv, [Next]_vars
  PROVE  UnwindInv'
<1>1. PICK fr : MachineOK(fr) /\ DumpOK(fr)
  BY DEF UnwindInv
<1>2. TypeOK' /\ EntriesInv'
  BY NextType, NextEntries
<1>3. CASE Execute
  <2>1. PICK new : MachineOK(new)'
    BY <1>1, <1>3, ExecuteKeeps
  <2>2. bt'.at = "idle"
    BY <1>3 DEF Execute
  <2>3. DumpOK(new)'
    BY <2>2 DEF DumpOK
  <2> QED BY <2>1, <2>3 DEF UnwindInv
<1>4. CASE ChangeMaps
  <2>1. bt'.at = "idle" /\ MachineOK(fr)'
    BY <1>1, <1>4, ChangeMapsKeeps DEF ChangeMaps
  <2>2. DumpOK(fr)'
    BY <2>1 DEF DumpOK
  <2> QED BY <2>1, <2>2 DEF UnwindInv
<1>5. ASSUME NEW size \in Sizes, Begin(size) PROVE UnwindInv'
  <2>1. MachineOK(fr)'
    BY <1>1, <1>5, MachineRests DEF Begin
  <2>2. DumpOK(fr)'
    BY <1>1, <1>5, BeginFinds
  <2> QED BY <2>1, <2>2 DEF UnwindInv
<1>6. CASE Scan
  <2>1. UNCHANGED <<machine, maps, head>>
    BY <1>6, QuietScan, PopScan
  <2>2. MachineOK(fr)'
    BY <1>1, <2>1, MachineRests
  <2>3. FrameIsWhole' = FrameIsWhole
    BY <2>1, ProcessWaits
  <2>4. CASE ~ FrameIsWhole
    <3>1. DumpOK(fr)'
      BY <2>3, <2>4 DEF DumpOK
    <3> QED BY <2>2, <3>1 DEF UnwindInv
  <2>5. CASE FrameIsWhole
    <3>1. DumpOK(fr)'
      BY <1>1, <1>2, <1>6, <2>5, QuietStepKeeps, PopKeeps
    <3> QED BY <2>2, <3>1 DEF UnwindInv
  <2> QED BY <2>4, <2>5
<1>7. CASE Resume
  <2>1. MachineOK(fr)'
    BY <1>1, <1>7, MachineRests DEF Resume
  <2>2. bt'.at = "idle"
    BY <1>7, IdleType DEF Resume
  <2>3. DumpOK(fr)'
    BY <2>2 DEF DumpOK
  <2> QED BY <2>1, <2>3 DEF UnwindInv
<1>8. CASE UNCHANGED vars
  <2>1. UNCHANGED <<machine, maps, head, bt>>
    BY <1>8 DEF vars
  <2>2. MachineOK(fr)'
    BY <1>1, <2>1, MachineRests
  <2>3. /\ Depth' = Depth /\ ra' = ra /\ FrameIsWhole' = FrameIsWhole /\ callers' = callers
        /\ \A i : Where(i)' = Where(i)
    BY <2>1, ProcessWaits DEF machine
  <2>4. DumpOK(fr)'
    BY <1>1, <2>1, <2>3 DEF DumpOK, HasCallers, HasEnough, Used, Scans
  <2> QED BY <2>2, <2>4 DEF UnwindInv
<1> QED BY <1>3, <1>4, <1>5, <1>6, <1>7, <1>8 DEF Next

LEMMA UnwindCorrect == Spec => [](TypeOK /\ EntriesInv /\ UnwindInv)
<1>1. Init => TypeOK /\ EntriesInv
  BY UnwindAssumption, IdleType
     DEF Init, TypeOK, BtType, EntriesInv, EntriesFit, ScanHasRoom
<1>2. Init => UnwindInv
  <2> SUFFICES ASSUME Init PROVE UnwindInv
    OBVIOUS
  <2>1. PICK fr : MachineOK(fr)
    BY MachineBegins
  <2>2. DumpOK(fr)
    BY IdleType DEF Init, DumpOK
  <2> QED BY <2>1, <2>2 DEF UnwindInv
<1>3. TypeOK /\ EntriesInv /\ UnwindInv /\ [Next]_vars => (TypeOK /\ EntriesInv /\ UnwindInv)'
  BY NextType, NextEntries, NextUnwind
<1> QED BY <1>1, <1>2, <1>3, PTL DEF Spec

\* The chain of calls, entry by entry.
LEMMA ChainIs ==
  ASSUME TypeOK, NEW fr, MachineOK(fr)
  PROVE  /\ CallChain \in Seq(Int) /\ Len(CallChain) = Depth /\ Depth \in Nat
         /\ \A i \in 1..Depth : CallChain[i] = Where(i)
<1>1. callers \in Seq(Int) /\ <<pc>> \in Seq(Int) /\ Len(<<pc>>) = 1 /\ <<pc>>[1] = pc
  BY DEF MachineOK, TypeOK
<1>2. CallChain \in Seq(Int) /\ Len(CallChain) = Depth /\ Depth \in Nat
  BY <1>1 DEF CallChain, Depth
<1>3. \A i \in 1..Depth : CallChain[i] = IF i = 1 THEN pc ELSE callers[i - 1]
  BY <1>1 DEF CallChain, Depth
<1> QED BY <1>2, <1>3 DEF Where

(* FindsCallersOnly: the buffer holds callers of the interrupted function, *)
(* in their order, none left out and none made up: for code as gcc makes   *)
(* it without optimisation (CompilerAssumption, misc_mipsbt.c:13), every   *)
(* depth of calls and recursion, whatever mappings the list has missed.    *)
THEOREM CallersOnly == Spec => []FindsCallersOnly
<1>1. TypeOK /\ UnwindInv => FindsCallersOnly
  <2> SUFFICES ASSUME TypeOK, UnwindInv, bt.at # "idle", FrameIsWhole
               PROVE  IsPrefix(bt.buffer, CallChain)
    BY DEF FindsCallersOnly
  <2>1. PICK fr : MachineOK(fr) /\ DumpOK(fr)
    BY DEF UnwindInv
  <2>2. /\ CallChain \in Seq(Int) /\ Len(CallChain) = Depth /\ Depth \in Nat
        /\ \A i \in 1..Depth : CallChain[i] = Where(i)
    BY <2>1, ChainIs
  <2>3. PICK n \in Nat : n = Len(bt.buffer)
    BY BtFields
  <2>4. n <= Depth /\ \A i \in 1..n : bt.buffer[i] = CallChain[i]
    BY <2>1, <2>2, <2>3 DEF DumpOK, HasCallers
  <2>5. SubSeq(bt.buffer, 1, n) = SubSeq(CallChain, 1, n)
    BY <2>2, <2>3, <2>4, BtFields
  <2> QED BY <2>2, <2>3, <2>4, <2>5 DEF IsPrefix
<1> QED BY <1>1, UnwindCorrect, PTL

(* FindsAllCallers, for the same code: with the mappings of the first dump *)
(* still in force the buffer holds the whole chain of calls, or at most    *)
(* its last entry is not used.                                             *)
THEOREM AllCallers == Spec => []FindsAllCallers
<1>1. TypeOK /\ UnwindInv => FindsAllCallers
  <2> DEFINE used == IF bt.size > 2 THEN bt.size - 1 ELSE bt.size
  <2> SUFFICES ASSUME TypeOK, UnwindInv, bt.at = "done", bt.buffer # <<>>,
                      FrameIsWhole, maps \subseteq head
               PROVE  Len(bt.buffer) >= Min({Len(CallChain), used})
    BY DEF FindsAllCallers
  <2>1. PICK fr : MachineOK(fr) /\ DumpOK(fr)
    BY DEF UnwindInv
  <2>2. PICK n \in Nat, d \in Nat, r \in Int :
          n = Len(bt.buffer) /\ d = Len(CallChain) /\ r = used
    <3>1. Len(bt.buffer) \in Nat /\ bt.size \in Nat
      BY BtFields
    <3>2. used \in Int
      BY <3>1
    <3>3. Len(CallChain) \in Nat
      BY <2>1, ChainIs
    <3> QED BY <3>1, <3>2, <3>3
  <2>3. n = d \/ n >= r
    <3>1. HasEnough
      BY <2>1 DEF DumpOK
    <3> QED BY <2>1, <2>2, <3>1, ChainIs DEF HasEnough, Used
  <2>4. PICK m \in {d, r} : \A x \in {d, r} : m <= x
    <3>1. d <= r \/ r <= d
      OBVIOUS
    <3> QED BY <3>1
  <2>5. \A y \in {d, r} : (\A x \in {d, r} : y <= x) => y = m
    BY <2>4
  <2>6. Min({d, r}) = m
    BY <2>4, <2>5 DEF Min
  <2>7. n >= m
    BY <2>3, <2>4
  <2> QED BY <2>2, <2>6, <2>7
<1> QED BY <1>1, UnwindCorrect, PTL

(* NeverFaults, for the same code: no dump of a whole frame reads memory   *)
(* that is not there, although the list of mappings is the first dump's.   *)
THEOREM DumpsDoNotFault == Spec => []NeverFaults
<1>1. UnwindInv => NeverFaults
  BY DEF UnwindInv, DumpOK, NeverFaults
<1> QED BY <1>1, UnwindCorrect, PTL
=============================================================================
