---------------------------------- MODULE Log ----------------------------------
(***************************************************************************)
(* misc_log.c, with the nvram reads of misc_oil.c: before every message    *)
(* log_log reads level, destination and header mask from the nvram, which  *)
(* the CLI may change between any two reads, and then builds the line in a *)
(* buffer of fixed size.  The path behind SHM_SUPPORT does not compile.    *)
(*                                                                         *)
(* Of a name or a piece of text only the length matters.  The process      *)
(* calls log_init first, and logs from one thread: the value of a key is   *)
(* returned in a static buffer.                                            *)
(***************************************************************************)
EXTENDS Integers, SequencesExt

CONSTANTS NameLengths,    \* of the basename of the application
          LevelValues,    \* what atoi makes of the values the CLI sets
          DestValues,
          MaskValues,
          Levels,         \* of messages
          LocationLengths, \* of "func.line:"
          MessageLengths

Unset == -1
LOG_DEST_STDERR == 1
LOG_DEST_TELNET == 3
DEFAULT_LOG_LEVEL == 3
DEFAULT_LOG_DESTINATION == 2
DEFAULT_LOG_HEADER_MASK == 1
MAX_LOG_NAME_LENGTH == 16
MAX_LOG_LINE_LENGTH == 512

Settings == LevelValues \cup DestValues \cup MaskValues
Attrs == {"log_level", "log_dest", "log_mask"}
ReadOrder == <<"log_level", "log_dest", "log_mask", "read">>

ASSUME LogAssumption ==
  /\ NameLengths \subseteq Nat \ {0} /\ Settings \subseteq Nat /\ Levels \subseteq Nat
  /\ LocationLengths \subseteq Nat /\ MessageLengths \subseteq Nat

VARIABLES appname,      \* length of the basename given to log_init
          nvram,        \* its keys
          name,         \* logApplicationName: its length, 0 before log_init
          logAttribute, \* level, destination and mask of logAttr
          call,         \* the running call
          changed       \* the attributes changed since the call began

vars == <<appname, nvram, name, logAttribute, call, changed>>

AttrLength(a) == IF a = "log_level" THEN 9 ELSE 8

Key_wrong(length, a) ==
  LET kept == MAX_LOG_NAME_LENGTH - 3 - length
  IN  [name |-> Min({length, MAX_LOG_NAME_LENGTH - 1}),
       attr |-> IF kept < 5 THEN "shared" ELSE a,
       whole |-> kept >= AttrLength(a)]

(* The key log_log reads an attribute under: name_attr, cut to 15          *)
(* characters.  From a name of 6 the level's is not whole, from 7 none is, *)
(* and from 10 the three of them are one.                                  *)
Key(length, a) ==
  LET kept == MAX_LOG_NAME_LENGTH - 2 - length
  IN  [name |-> Min({length, MAX_LOG_NAME_LENGTH - 1}),
       attr |-> IF kept < 5 THEN "shared" ELSE a,
       whole |-> kept >= AttrLength(a)]

(* The key an attribute is set under: name_attr, and only when that has    *)
(* more than 15 characters the key it is cut to.                           *)
Fits(length, a) == length + 1 + AttrLength(a) < MAX_LOG_NAME_LENGTH
SetKey(length, a) == IF Fits(length, a) THEN [name |-> length, attr |-> a, whole |-> TRUE]
                     ELSE Key(length, a)
Keys == {SetKey(length, a) : length \in NameLengths, a \in Attrs}

Values(k) == CASE k.attr = "log_level" -> LevelValues
               [] k.attr = "log_dest" -> DestValues
               [] k.attr = "log_mask" -> MaskValues
               [] OTHER -> Settings

Default == [log_level |-> DEFAULT_LOG_LEVEL, log_dest |-> DEFAULT_LOG_DESTINATION,
            log_mask |-> DEFAULT_LOG_HEADER_MASK]

\* What an attribute is when it is read: an absent or empty value is none.
Setting(length, a) ==
  LET k == Key(length, a)
  IN  IF k \notin Keys \/ nvram[k] = Unset THEN Default[a] ELSE nvram[k]

Idle == [op |-> "none", at |-> "idle", name |-> 0, level |-> 0, wanted |-> <<>>, text |-> <<>>, to |-> "none"]

(* Definitions whose name ends in _wrong are what the definition that      *)
(* follows would be with a plausible slip; each breaks some property.      *)
-----------------------------------------------------------------------------
\* External: the CLI sets or removes a key; others than SetKey's it leaves alone.
Configure ==
  /\ \E a \in Attrs, value \in Settings \cup {Unset} :
       LET k == SetKey(appname, a)
       IN  /\ value \in Values(k) \cup {Unset}
           /\ nvram' = [nvram EXCEPT ![k] = value]
           /\ changed' = changed \cup {b \in Attrs : SetKey(appname, b) = k}
  /\ UNCHANGED <<appname, name, logAttribute, call>>

Start(op, length, level) ==
  /\ call.at = "idle"
  /\ call' = [Idle EXCEPT !.op = op, !.at = "log_level", !.name = length, !.level = level]
  /\ changed' = {}

\* log_init reads the attributes under the whole name...
log_init == /\ Start("log_init", appname, 0)
            /\ UNCHANGED <<appname, nvram, name, logAttribute>>

log_log(level) == /\ name # 0
                  /\ Start("log_log", name, level)
                  /\ UNCHANGED <<appname, nvram, name, logAttribute>>

updateLogAttr_wrong(a) ==
  logAttribute' = [logAttribute EXCEPT ![a] = IF nvram[Key(call.name, a)] = Unset
                                              THEN @ ELSE Setting(call.name, a)]

updateLogAttr(a) ==
  logAttribute' = [logAttribute EXCEPT ![a] = Setting(call.name, a)]

ReadAttr(i) ==
  /\ call.at = ReadOrder[i]
  /\ updateLogAttr(ReadOrder[i])
  /\ call' = [call EXCEPT !.at = ReadOrder[i + 1]]
  /\ UNCHANGED <<appname, nvram, name, changed>>

\* ... and stores what of it has room.
InitReturns ==
  /\ call.op = "log_init" /\ call.at = "read"
  /\ name' = Min({appname, MAX_LOG_NAME_LENGTH - 1})
  /\ call' = Idle
  /\ UNCHANGED <<appname, nvram, logAttribute, changed>>

-----------------------------------------------------------------------------
HasBit(mask, bit) == (mask \div bit) % 2 = 1

\* "error", "notice", "info", "debug", or "invalid" with a colon.
LevelLength(level) == IF level \in {3, 5, 6, 7} THEN <<6, 0, 7, 5, 6>>[level - 2] ELSE 8

(* snprintf(&buf[len], size, ...): size counts the closing 0, and as a     *)
(* size_t a negative one is no bound at all.                               *)
snprintf(text, len, size, piece) ==
  IF size = 0 THEN text
  ELSE Append(text, [part |-> piece.part, at |-> len,
                     chars |-> IF size < 0 THEN piece.chars ELSE Min({piece.chars, size - 1})])

Empty == [len |-> 0, text |-> <<>>, wanted |-> <<>>]

Add_wrong(buf, piece) ==
  [len |-> buf.len + piece.chars, wanted |-> Append(buf.wanted, piece),
   text |-> snprintf(buf.text, buf.len, MAX_LOG_LINE_LENGTH - buf.len, piece)]

(* len grows by the length the piece would have: it may pass the end.      *)
(* `wanted' remembers the pieces the line was to have.                     *)
Add(buf, piece) ==
  LET wanted == Append(buf.wanted, piece)
  IN  IF buf.len < MAX_LOG_LINE_LENGTH
      THEN [len |-> buf.len + piece.chars, wanted |-> wanted,
            text |-> snprintf(buf.text, buf.len, MAX_LOG_LINE_LENGTH - buf.len, piece)]
      ELSE [buf EXCEPT !.wanted = wanted]

AddHeader(buf, bit, part, chars) ==
  IF HasBit(logAttribute.log_mask, bit) THEN Add(buf, [part |-> part, chars |-> chars]) ELSE buf

(* The level only for stderr, because syslog has its own.  A time stamp is *)
(* seconds % 1000, without leading zeros, and three digits of a second.    *)
StampLengths == 6..8
Named == AddHeader(Empty, 1, "appname", name + 1)
Graded == IF logAttribute.log_dest = LOG_DEST_STDERR
          THEN AddHeader(Named, 2, "level", LevelLength(call.level)) ELSE Named
Stamped(stamp) == AddHeader(Graded, 4, "timestamp", stamp)
FullLine(stamp, location, message) == Add(AddHeader(Stamped(stamp), 8, "location", location),
                                          [part |-> "message", chars |-> message])

Filter ==
  /\ call.op = "log_log" /\ call.at = "read"
  /\ call.level > logAttribute.log_level
  /\ call' = [call EXCEPT !.at = "done"]
  /\ UNCHANGED <<appname, nvram, name, logAttribute, changed>>

(* A line for telnet is lost when the terminal cannot be opened; whatever  *)
(* is neither stderr nor telnet is syslog.  To syslog the line is given as *)
(* a format: what is in the log is what syslog makes of it.                *)
Send ==
  /\ call.op = "log_log" /\ call.at = "read"
  /\ call.level <= logAttribute.log_level
  /\ \E stamp \in StampLengths, location \in LocationLengths, message \in MessageLengths :
       LET line == FullLine(stamp, location, message)
           dest == logAttribute.log_dest
       IN  \E to \in IF dest = LOG_DEST_STDERR THEN {"stderr"}
                     ELSE IF dest = LOG_DEST_TELNET THEN {"telnet", "lost"}
                     ELSE {"syslog"} :
             call' = [call EXCEPT !.at = "done", !.wanted = line.wanted, !.text = line.text, !.to = to]
  /\ UNCHANGED <<appname, nvram, name, logAttribute, changed>>

LogReturns == /\ call.at = "done"
              /\ call' = Idle
              /\ UNCHANGED <<appname, nvram, name, logAttribute, changed>>

Init ==
  /\ appname \in NameLengths
  /\ nvram = [k \in Keys |-> Unset]
  /\ name = 0
  /\ logAttribute = [a \in Attrs |-> 0]
  /\ call = Idle
  /\ changed = {}

Next == \/ Configure
        \/ log_init
        \/ \E level \in Levels : log_log(level)
        \/ \E i \in 1..3 : ReadAttr(i)
        \/ InitReturns
        \/ Filter \/ Send \/ LogReturns

Spec == Init /\ [][Next]_vars

-----------------------------------------------------------------------------
(* misc_log.c:22 "changeable from CLI": whether and where a message goes   *)
(* is what the configuration has said since log_log was called, also       *)
(* after a key has been removed, and when only some of the attributes were *)
(* left alone during the call.  The configuration is what stands under the *)
(* whole key of an attribute, or under the cut one where the whole one has *)
(* more than 15 characters: there the key the CLI is to set is not the one *)
(* the name suggests.  Where a message goes while its key is absent is     *)
(* left open: misc_log.h:47 says that the default destination is standard  *)
(* error, line 48 makes it syslog.                                         *)
Configured(a) == LET value == nvram[SetKey(appname, a)]
                 IN  IF value = Unset THEN Default[a] ELSE value

FollowsConfiguration ==
  LET Kept(a) == a \notin changed
      IsSet(a) == nvram[SetKey(appname, a)] # Unset
      sent == call.to # "none"
      Asked(bit, part) == HasBit(Configured("log_mask"), bit) <=>
                            \E i \in DOMAIN call.wanted : call.wanted[i].part = part
  IN  call.at = "done" =>
        /\ Kept("log_level") => sent = (call.level <= Configured("log_level"))
        /\ sent /\ Kept("log_dest") /\ IsSet("log_dest") =>
             /\ call.to = "stderr" <=> Configured("log_dest") = LOG_DEST_STDERR
             /\ call.to \in {"telnet", "lost"} <=> Configured("log_dest") = LOG_DEST_TELNET
        /\ sent /\ Kept("log_mask") =>
             /\ Asked(1, "appname") /\ Asked(4, "timestamp") /\ Asked(8, "location")
             /\ call.to = "stderr" => Asked(2, "level")

(* A line is its pieces one after the other, without a gap and cut at 511  *)
(* characters: nothing is written beyond the buffer, although len may pass *)
(* its end, and nothing that has room is left out.                         *)
Capacity == MAX_LOG_LINE_LENGTH - 1
EndOf(chunk) == chunk.at + chunk.chars

InOnePiece(text) == /\ text # <<>> => text[1].at = 0
                    /\ \A i \in 1..(Len(text) - 1) : text[i + 1].at = EndOf(text[i])
CutFrom(text, wanted) ==
  /\ Len(text) <= Len(wanted)
  /\ \A i \in 1..Len(text) : /\ text[i].part = wanted[i].part
                             /\ text[i].chars <= wanted[i].chars /\ EndOf(text[i]) <= Capacity
IsAll(text, wanted) == /\ Len(text) = Len(wanted)
                       /\ \A i \in 1..Len(text) : text[i].chars = wanted[i].chars

LineIsWhole ==
  call.at = "done" /\ call.to # "none" =>
    /\ call.text # <<>> /\ InOnePiece(call.text) /\ CutFrom(call.text, call.wanted)
    /\ IsAll(call.text, call.wanted) \/ EndOf(call.text[Len(call.text)]) = Capacity
=============================================================================
