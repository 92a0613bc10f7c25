----------------------------- MODULE LogProofs -----------------------------
(***************************************************************************)
(* What Log promises for names, settings and texts of every length.        *)
(***************************************************************************)
EXTENDS Log, TLAPS

PartNames == {"appname", "level", "timestamp", "location", "message"}
Piece == [part : PartNames, chars : Nat]
Chunk == [part : PartNames, at : Nat, chars : Nat]
Buffer == [len : Nat, text : Seq(Chunk), wanted : Seq(Piece)]
Destinations == {"none", "stderr", "telnet", "lost", "syslog"}
Call == [op : {"none", "log_init", "log_log"}, at : {"idle", "read", "done"} \cup Attrs,
         name : Nat, level : Nat, wanted : Seq(Piece), text : Seq(Chunk), to : Destinations]

LEMMA MinOfTwo ==
  ASSUME NEW a \in Int, NEW b \in Int
  PROVE  Min({a, b}) = IF a <= b THEN a ELSE b
<1>1. CASE a <= b
  <2>1. \A x \in {a, b} : (\A y \in {a, b} : x <= y) <=> x = a
    BY <1>1
  <2> QED BY <1>1, <2>1 DEF Min
<1>2. CASE b < a
  <2>1. \A x \in {a, b} : (\A y \in {a, b} : x <= y) <=> x = b
    BY <1>2
  <2> QED BY <1>2, <2>1 DEF Min
<1> QED BY <1>1, <1>2

-----------------------------------------------------------------------------
(* The line.  As long as len is inside the buffer the line has every piece *)
(* whole; once it is outside the line is full.                             *)

EndsAt(text, n) == IF Len(text) = 0 THEN n = 0 ELSE EndOf(text[Len(text)]) = n

Good(buf) ==
  /\ buf \in Buffer
  /\ InOnePiece(buf.text) /\ CutFrom(buf.text, buf.wanted)
  /\ buf.len <= Capacity => IsAll(buf.text, buf.wanted) /\ EndsAt(buf.text, buf.len)
  /\ buf.len > Capacity => buf.text # <<>> /\ EndsAt(buf.text, Capacity)

Wants(buf, part) == \E i \in DOMAIN buf.wanted : buf.wanted[i].part = part

LEMMA EmptyIsGood == Good(Empty) /\ \A part : ~ Wants(Empty, part)
BY DEF Good, Empty, Buffer, InOnePiece, CutFrom, IsAll, EndsAt, Wants, Capacity,
       MAX_LOG_LINE_LENGTH

LEMMA Written ==
  ASSUME NEW text \in Seq(Chunk), NEW len \in 0..Capacity, NEW piece \in Piece,
         EndsAt(text, len)
  PROVE  \E chunk \in Chunk :
           /\ snprintf(text, len, MAX_LOG_LINE_LENGTH - len, piece) = Append(text, chunk)
           /\ chunk.part = piece.part /\ chunk.at = len
           /\ chunk.chars = IF len + piece.chars <= Capacity THEN piece.chars ELSE Capacity - len
<1> DEFINE size == MAX_LOG_LINE_LENGTH - len
           chars == IF len + piece.chars <= Capacity THEN piece.chars ELSE Capacity - len
           chunk == [part |-> piece.part, at |-> len, chars |-> chars]
<1>1. piece.chars \in Nat /\ piece.part \in PartNames
  BY DEF Piece
<1>2. size \in Int /\ size > 0 /\ size - 1 = Capacity - len /\ chars \in Nat
  BY <1>1 DEF MAX_LOG_LINE_LENGTH, Capacity
<1>3. Min({piece.chars, size - 1}) = chars
  BY <1>1, <1>2, MinOfTwo DEF Capacity, MAX_LOG_LINE_LENGTH
<1>4. chunk \in Chunk
  BY <1>1, <1>2 DEF Chunk
<1>5. snprintf(text, len, size, piece) = Append(text, chunk)
  BY <1>2, <1>3 DEF snprintf
<1> QED BY <1>4, <1>5

LEMMA AddIsGood ==
  ASSUME NEW buf, Good(buf), NEW piece \in Piece
  PROVE  Good(Add(buf, piece)) /\ Add(buf, piece).text # <<>>
<1> DEFINE new == Add(buf, piece)
<1>0. PICK len \in Nat, text \in Seq(Chunk), wanted \in Seq(Piece) :
        buf = [len |-> len, text |-> text, wanted |-> wanted]
  BY DEF Good, Buffer
<1>1. /\ len \in Nat /\ text \in Seq(Chunk) /\ wanted \in Seq(Piece)
      /\ buf.len = len /\ buf.text = text /\ buf.wanted = wanted
      /\ InOnePiece(text) /\ CutFrom(text, wanted)
      /\ len <= Capacity => IsAll(text, wanted) /\ EndsAt(text, len)
      /\ len > Capacity => text # <<>> /\ EndsAt(text, Capacity)
  BY <1>0 DEF Good
<1>2. PICK w \in Seq(Piece) : w = Append(wanted, piece)
  <2>1. Append(wanted, piece) \in Seq(Piece)
    OBVIOUS
  <2> QED BY <2>1
<1>3. PICK n \in Nat : n = Len(text)
  BY <1>1
<1>4. PICK m \in Nat : m = Len(wanted)
  BY <1>1
<1>5. /\ Len(w) = m + 1 /\ w[m + 1] = piece /\ n <= m
      /\ \A i \in 1..m : w[i] = wanted[i]
  BY <1>1, <1>2, <1>3, <1>4 DEF CutFrom
<1>6. piece.chars \in Nat /\ Capacity \in Nat /\ MAX_LOG_LINE_LENGTH = Capacity + 1
  BY DEF Piece, Capacity, MAX_LOG_LINE_LENGTH
<1>7. CASE len <= Capacity
  <2>1. IsAll(text, wanted) /\ EndsAt(text, len) /\ n = m
    BY <1>1, <1>3, <1>4, <1>7 DEF IsAll
  <2>2. PICK chunk \in Chunk :
           /\ snprintf(text, len, MAX_LOG_LINE_LENGTH - len, piece) = Append(text, chunk)
           /\ chunk.part = piece.part /\ chunk.at = len
           /\ chunk.chars = IF len + piece.chars <= Capacity THEN piece.chars ELSE Capacity - len
    BY <1>1, <1>7, <2>1, Written
  <2>3. PICK t \in Seq(Chunk) : t = Append(text, chunk)
    <3>1. Append(text, chunk) \in Seq(Chunk)
      OBVIOUS
    <3> QED BY <3>1
  <2>4. Len(t) = n + 1 /\ t[n + 1] = chunk /\ (\A i \in 1..n : t[i] = text[i]) /\ t # <<>>
    BY <1>1, <1>3, <2>3
  <2>5. new = [len |-> len + piece.chars, text |-> t, wanted |-> w]
    <3>1. len < MAX_LOG_LINE_LENGTH
      BY <1>6, <1>7
    <3>2. t = snprintf(buf.text, buf.len, MAX_LOG_LINE_LENGTH - buf.len, piece)
      BY <1>1, <2>2, <2>3
    <3> QED BY <1>1, <1>2, <3>1, <3>2 DEF Add
  <2>6. new.text = t /\ new.wanted = w /\ new.len = len + piece.chars /\ new \in Buffer
    BY <1>1, <1>6, <2>5 DEF Buffer
  <2>7. chunk.chars \in Nat /\ chunk.chars <= piece.chars /\ EndOf(chunk) <= Capacity
    <3>1. EndOf(chunk) = len + chunk.chars
      BY <2>2 DEF EndOf
    <3> QED BY <1>6, <1>7, <2>2, <3>1
  <2>8. InOnePiece(t)
    <3>1. t[1].at = 0
      <4>1. CASE n = 0
        <5>2. len = 0
          BY <1>3, <2>1, <4>1 DEF EndsAt
        <5> QED BY <2>2, <2>4, <4>1, <5>2
      <4>2. CASE n > 0
        <5>1. text # <<>> /\ t[1] = text[1]
          BY <1>1, <1>3, <2>4, <4>2
        <5> QED BY <1>1, <5>1 DEF InOnePiece
      <4> QED BY <4>1, <4>2
    <3>2. ASSUME NEW i \in 1..n PROVE t[i + 1].at = EndOf(t[i])
      <4>1. t[i] = text[i]
        BY <2>4
      <4>2. CASE i = n
        <5>1. text # <<>> /\ EndOf(text[n]) = len
          <6>1. Len(text) # 0
            BY <1>3, <4>2
          <6>2. EndOf(text[n]) = len
            BY <1>3, <2>1, <6>1 DEF EndsAt
          <6> QED BY <6>1, <6>2
        <5> QED BY <2>2, <2>4, <4>1, <4>2, <5>1
      <4>3. CASE i # n
        <5>1. i \in 1..(n - 1) /\ i + 1 \in 1..n
          BY <1>3, <4>3
        <5>2. t[i + 1] = text[i + 1] /\ text[i + 1].at = EndOf(text[i])
          BY <1>1, <1>3, <2>4, <5>1 DEF InOnePiece
        <5> QED BY <4>1, <5>2
      <4> QED BY <4>2, <4>3
    <3>3. Len(t) - 1 = n
      BY <1>3, <2>4
    <3> QED BY <3>1, <3>2, <3>3 DEF InOnePiece
  <2>9. CutFrom(t, w)
    <3>1. ASSUME NEW i \in 1..(n + 1)
          PROVE  t[i].part = w[i].part /\ t[i].chars <= w[i].chars /\ EndOf(t[i]) <= Capacity
      <4>1. CASE i = n + 1
        BY <1>5, <2>1, <2>2, <2>4, <2>7, <4>1
      <4>2. CASE i # n + 1
        <5>1. i \in 1..n
          BY <1>3, <4>2
        <5> QED BY <1>1, <1>3, <1>5, <2>1, <2>4, <5>1 DEF CutFrom
      <4> QED BY <4>1, <4>2
    <3> QED BY <1>3, <1>4, <1>5, <2>1, <2>4, <3>1 DEF CutFrom
  <2>10. EndOf(chunk) = len + chunk.chars
    BY <2>2 DEF EndOf
  <2>11. CASE len + piece.chars <= Capacity
    <3>1. IsAll(t, w)
      <4>1. ASSUME NEW i \in 1..(n + 1) PROVE t[i].chars = w[i].chars
        <5>1. CASE i = n + 1
          BY <1>5, <2>1, <2>2, <2>4, <2>11, <5>1
        <5>2. CASE i # n + 1
          <6>1. i \in 1..n
            BY <1>3, <5>2
          <6> QED BY <1>3, <1>5, <2>1, <2>4, <6>1 DEF IsAll
        <5> QED BY <5>1, <5>2
      <4> QED BY <1>5, <2>1, <2>4, <4>1 DEF IsAll
    <3>2. EndsAt(t, len + piece.chars)
      BY <2>2, <2>4, <2>10, <2>11 DEF EndsAt
    <3> QED BY <1>1, <1>6, <2>4, <2>6, <2>8, <2>9, <2>11, <3>1, <3>2 DEF Good
  <2>12. CASE len + piece.chars > Capacity
    <3>1. EndOf(chunk) = Capacity
      BY <1>1, <1>6, <2>2, <2>10, <2>12
    <3>2. EndsAt(t, Capacity)
      BY <2>4, <3>1 DEF EndsAt
    <3> QED BY <1>1, <1>6, <2>4, <2>6, <2>8, <2>9, <2>12, <3>2 DEF Good
  <2> QED BY <1>1, <1>6, <2>11, <2>12
<1>8. CASE len > Capacity
  <2>1. text # <<>> /\ EndsAt(text, Capacity)
    BY <1>1, <1>8
  <2>2. new = [len |-> len, text |-> text, wanted |-> w]
    <3>1. ~ (len < MAX_LOG_LINE_LENGTH)
      BY <1>6, <1>8
    <3>2. new = [buf EXCEPT !.wanted = w]
      BY <1>1, <1>2, <3>1 DEF Add
    <3> QED BY <1>0, <3>2
  <2>3. new.text = text /\ new.wanted = w /\ new.len = len /\ new \in Buffer
    BY <1>1, <2>2 DEF Buffer
  <2>4. CutFrom(text, w)
    <3>1. \A i \in 1..n : i \in 1..m
      BY <1>5
    <3>2. /\ \A i \in 1..n : w[i] = wanted[i]
          /\ \A i \in 1..n : /\ text[i].part = wanted[i].part
                             /\ text[i].chars <= wanted[i].chars /\ EndOf(text[i]) <= Capacity
      BY <1>1, <1>3, <1>5, <3>1 DEF CutFrom
    <3>3. Len(text) <= Len(w)
      BY <1>3, <1>4, <1>5
    <3>4. ASSUME NEW i \in 1..n
          PROVE  text[i].part = w[i].part /\ text[i].chars <= w[i].chars /\ EndOf(text[i]) <= Capacity
      BY <3>2
    <3> QED BY <1>3, <3>3, <3>4 DEF CutFrom
  <2> QED BY <1>1, <1>6, <1>8, <2>1, <2>3, <2>4 DEF Good
<1> QED BY <1>1, <1>6, <1>7, <1>8

LEMMA AddWants ==
  ASSUME NEW buf, Good(buf), NEW piece \in Piece
  PROVE  \A part : Wants(Add(buf, piece), part) <=> Wants(buf, part) \/ piece.part = part
<1>1. buf \in Buffer /\ buf.wanted \in Seq(Piece)
  BY DEF Good, Buffer
<1>2. PICK w : w = Append(buf.wanted, piece)
  OBVIOUS
<1>3. Add(buf, piece).wanted = w
  BY <1>1, <1>2 DEF Add, Buffer
<1>4. PICK m \in Nat : m = Len(buf.wanted) /\ DOMAIN buf.wanted = 1..m
  BY <1>1
<1>5. DOMAIN w = 1..(m + 1) /\ w[m + 1] = piece /\ \A i \in 1..m : w[i] = buf.wanted[i]
  BY <1>1, <1>2, <1>4
<1>6. \A i \in 1..(m + 1) : i \in 1..m \/ i = m + 1
  BY <1>4
<1>7. (\A i \in 1..m : i \in 1..(m + 1)) /\ m + 1 \in 1..(m + 1)
  BY <1>4
<1> QED BY <1>3, <1>4, <1>5, <1>6, <1>7, Zenon DEF Wants

LEMMA HeaderIsGood ==
  ASSUME NEW buf, Good(buf), NEW bit, NEW part \in PartNames, NEW chars \in Nat
  PROVE  /\ Good(AddHeader(buf, bit, part, chars))
         /\ \A p : Wants(AddHeader(buf, bit, part, chars), p) <=>
                     Wants(buf, p) \/ (p = part /\ HasBit(logAttribute.log_mask, bit))
<1> DEFINE piece == [part |-> part, chars |-> chars]
<1>1. piece \in Piece /\ piece.part = part
  BY DEF Piece
<1> HIDE DEF piece
<1>2. CASE HasBit(logAttribute.log_mask, bit)
  <2>1. AddHeader(buf, bit, part, chars) = Add(buf, piece)
    BY <1>2 DEF AddHeader, piece
  <2> QED BY <1>1, <1>2, <2>1, AddIsGood, AddWants
<1>3. CASE ~ HasBit(logAttribute.log_mask, bit)
  <2>1. AddHeader(buf, bit, part, chars) = buf
    BY <1>3 DEF AddHeader
  <2> QED BY <1>3, <2>1
<1> QED BY <1>2, <1>3

LEMMA FullLineIsGood ==
  ASSUME name \in Nat, NEW stamp \in Nat, NEW location \in Nat, NEW message \in Nat
  PROVE  LET line == FullLine(stamp, location, message)
             Asks(bit) == HasBit(logAttribute.log_mask, bit)
         IN  /\ Good(line) /\ line.text # <<>>
             /\ Wants(line, "appname") <=> Asks(1)
             /\ Wants(line, "level") <=> Asks(2) /\ logAttribute.log_dest = LOG_DEST_STDERR
             /\ Wants(line, "timestamp") <=> Asks(4)
             /\ Wants(line, "location") <=> Asks(8)
<1> DEFINE Asks(bit) == HasBit(logAttribute.log_mask, bit)
<1>0. {"appname", "level", "timestamp", "location", "message"} = PartNames
  BY DEF PartNames
<1>1. Good(Named) /\ \A p : Wants(Named, p) <=> p = "appname" /\ Asks(1)
  <2>1. name + 1 \in Nat
    OBVIOUS
  <2>2. /\ Good(AddHeader(Empty, 1, "appname", name + 1))
        /\ \A p : Wants(AddHeader(Empty, 1, "appname", name + 1), p) <=>
                    Wants(Empty, p) \/ (p = "appname" /\ Asks(1))
    BY <1>0, <2>1, EmptyIsGood, HeaderIsGood
  <2> QED BY <2>2, EmptyIsGood, Zenon DEF Named
<1>2. Good(Graded) /\ \A p : Wants(Graded, p) <=>
        Wants(Named, p) \/ (p = "level" /\ Asks(2) /\ logAttribute.log_dest = LOG_DEST_STDERR)
  <2>1. LevelLength(call.level) \in Nat
    BY DEF LevelLength
  <2>2. CASE logAttribute.log_dest = LOG_DEST_STDERR
    <3>1. Graded = AddHeader(Named, 2, "level", LevelLength(call.level))
      BY <2>2 DEF Graded
    <3>2. /\ Good(AddHeader(Named, 2, "level", LevelLength(call.level)))
          /\ \A p : Wants(AddHeader(Named, 2, "level", LevelLength(call.level)), p) <=>
                      Wants(Named, p) \/ (p = "level" /\ Asks(2))
      BY <1>0, <1>1, <2>1, HeaderIsGood
    <3> QED BY <2>2, <3>1, <3>2, Zenon
  <2>3. CASE logAttribute.log_dest # LOG_DEST_STDERR
    <3>1. Graded = Named
      BY <2>3 DEF Graded
    <3> QED BY <1>1, <2>3, <3>1
  <2> QED BY <2>2, <2>3
<1>3. Good(Stamped(stamp)) /\ \A p : Wants(Stamped(stamp), p) <=> Wants(Graded, p) \/ (p = "timestamp" /\ Asks(4))
  <2>1. /\ Good(AddHeader(Graded, 4, "timestamp", stamp))
        /\ \A p : Wants(AddHeader(Graded, 4, "timestamp", stamp), p) <=>
                    Wants(Graded, p) \/ (p = "timestamp" /\ Asks(4))
    <3>1. Good(Graded)
      BY <1>2
    <3> QED BY <1>0, <3>1, HeaderIsGood
  <2> QED BY <2>1, Zenon DEF Stamped
<1>4. PICK last : last = AddHeader(Stamped(stamp), 8, "location", location)
  OBVIOUS
<1>5. Good(last) /\ \A p : Wants(last, p) <=> Wants(Stamped(stamp), p) \/ (p = "location" /\ Asks(8))
  <2>1. /\ Good(AddHeader(Stamped(stamp), 8, "location", location))
        /\ \A p : Wants(AddHeader(Stamped(stamp), 8, "location", location), p) <=>
                    Wants(Stamped(stamp), p) \/ (p = "location" /\ Asks(8))
    <3>1. Good(Stamped(stamp))
      BY <1>3
    <3> QED BY <1>0, <3>1, HeaderIsGood
  <2> QED BY <1>4, <2>1, Zenon
<1>6. PICK piece \in Piece : piece = [part |-> "message", chars |-> message]
  BY <1>0 DEF Piece
<1>7. piece.part = "message"
  BY <1>6
<1>8. PICK line : line = FullLine(stamp, location, message)
  OBVIOUS
<1>9. line = Add(last, piece)
  BY <1>4, <1>6, <1>8 DEF FullLine
<1>10. Good(line) /\ line.text # <<>>
       /\ \A p : Wants(line, p) <=> Wants(last, p) \/ p = "message"
  BY <1>5, <1>7, <1>9, AddIsGood, AddWants
<1>11. /\ Wants(line, "appname") <=> Asks(1)
       /\ Wants(line, "level") <=> Asks(2) /\ logAttribute.log_dest = LOG_DEST_STDERR
       /\ Wants(line, "timestamp") <=> Asks(4)
       /\ Wants(line, "location") <=> Asks(8)
  BY <1>1, <1>2, <1>3, <1>5, <1>10
<1> QED BY <1>8, <1>10, <1>11

-----------------------------------------------------------------------------
(* The configuration.  An attribute that has been read, and has not been   *)
(* changed since the call began, is what the nvram holds now; what the     *)
(* call has done with the message follows from the attributes it read.     *)

Types ==
  /\ appname \in NameLengths
  /\ nvram \in [Keys -> Settings \cup {Unset}]
  /\ name \in Nat /\ logAttribute \in [Attrs -> Nat]
  /\ call \in Call /\ changed \subseteq Attrs

StagesAfter(a) == CASE a = "log_level" -> {"log_dest", "log_mask", "read", "done"}
                    [] a = "log_dest" -> {"log_mask", "read", "done"}
                    [] OTHER -> {"read", "done"}

AttributesAreRead ==
  call.op = "log_log" =>
    \A a \in Attrs : call.at \in StagesAfter(a) /\ a \notin changed =>
                       logAttribute[a] = Setting(appname, a)

NameIsCut ==
  /\ name # 0 => name = Min({appname, MAX_LOG_NAME_LENGTH - 1})
  /\ call.op = "log_log" => name # 0 /\ call.name = name
  /\ call.op = "log_init" => call.name = appname
  /\ call.op = "none" => call.at = "idle"

Answered ==
  call.at = "done" =>
    /\ call.op = "log_log"
    /\ call.to # "none" <=> call.level <= logAttribute.log_level
    /\ call.to # "none" =>
         /\ call.to = "stderr" <=> logAttribute.log_dest = LOG_DEST_STDERR
         /\ call.to \in {"telnet", "lost"} <=> logAttribute.log_dest = LOG_DEST_TELNET
         /\ Wants(call, "appname") <=> HasBit(logAttribute.log_mask, 1)
         /\ Wants(call, "level") <=> /\ HasBit(logAttribute.log_mask, 2)
                                     /\ logAttribute.log_dest = LOG_DEST_STDERR
         /\ Wants(call, "timestamp") <=> HasBit(logAttribute.log_mask, 4)
         /\ Wants(call, "location") <=> HasBit(logAttribute.log_mask, 8)

NothingSent == call.at # "done" => call.to = "none"

LogInv == Types /\ AttributesAreRead /\ NameIsCut /\ Answered /\ NothingSent
          /\ LineIsWhole

\* A name that was cut leads to the keys the whole name leads to.
LEMMA KeyOfLongName ==
  ASSUME NEW length \in Nat, length > 14, NEW a
  PROVE  Key(length, a) = [name |-> 15, attr |-> "shared", whole |-> FALSE]
<1>1. PICK kept \in Int : kept = MAX_LOG_NAME_LENGTH - 2 - length /\ kept < 0
  BY DEF MAX_LOG_NAME_LENGTH
<1>2. PICK n \in Nat : n = AttrLength(a)
  BY DEF AttrLength
<1>3. kept < 5 /\ (kept >= AttrLength(a)) = FALSE
  BY <1>1, <1>2
<1>4. Min({length, MAX_LOG_NAME_LENGTH - 1}) = 15
  <2>1. MAX_LOG_NAME_LENGTH - 1 = 15 /\ (length <= 15 => length = 15)
    BY DEF MAX_LOG_NAME_LENGTH
  <2> QED BY <2>1, MinOfTwo
<1> QED BY <1>1, <1>3, <1>4, Zenon DEF Key

LEMMA CutNameHasTheKeys ==
  ASSUME NEW length \in Nat \ {0}, NEW a
  PROVE  Key(Min({length, MAX_LOG_NAME_LENGTH - 1}), a) = Key(length, a)
<1>1. MAX_LOG_NAME_LENGTH - 1 = 15
  BY DEF MAX_LOG_NAME_LENGTH
<1>2. Min({length, 15}) = IF length <= 15 THEN length ELSE 15
  BY MinOfTwo
<1>3. CASE length <= 15
  BY <1>1, <1>2, <1>3
<1>4. CASE length > 15
  <2>1. Key(length, a) = Key(15, a)
    <3>1. length \in Nat /\ 15 \in Nat /\ 15 > 14 /\ length > 14
      BY <1>4
    <3>2. Key(15, a) = [name |-> 15, attr |-> "shared", whole |-> FALSE]
      BY <3>1, KeyOfLongName
    <3>3. Key(length, a) = [name |-> 15, attr |-> "shared", whole |-> FALSE]
      BY <3>1, KeyOfLongName
    <3> QED BY <3>2, <3>3
  <2> QED BY <1>1, <1>2, <1>4, <2>1
<1> QED BY <1>3, <1>4

\* A setting is read where it has been set.
LEMMA KeyIsSetKey ==
  ASSUME NEW length \in Nat \ {0}, NEW a \in Attrs
  PROVE  SetKey(length, a) = Key(length, a)
<1>1. CASE Fits(length, a)
  <2>1. PICK n \in Nat : n = AttrLength(a) /\ n > 7 /\ length + 1 + n < 16
    BY <1>1 DEF Fits, AttrLength, MAX_LOG_NAME_LENGTH
  <2>2. PICK kept \in Int : kept = MAX_LOG_NAME_LENGTH - 2 - length /\ kept >= n
    BY <2>1 DEF MAX_LOG_NAME_LENGTH
  <2>3. ~ (kept < 5) /\ (kept >= AttrLength(a)) = TRUE
    BY <2>1, <2>2
  <2>4. Min({length, MAX_LOG_NAME_LENGTH - 1}) = length
    <3>1. MAX_LOG_NAME_LENGTH - 1 = 15 /\ length <= 15
      BY <2>1 DEF MAX_LOG_NAME_LENGTH
    <3> QED BY <3>1, MinOfTwo
  <2>5. Key(length, a) = [name |-> length, attr |-> a, whole |-> TRUE]
    BY <2>2, <2>3, <2>4, Zenon DEF Key
  <2> QED BY <1>1, <2>5 DEF SetKey
<1>2. CASE ~ Fits(length, a)
  BY <1>2 DEF SetKey
<1> QED BY <1>1, <1>2

LEMMA KeyIsOne ==
  ASSUME NEW length \in NameLengths, NEW a \in Attrs
  PROVE  SetKey(length, a) \in Keys /\ Key(length, a) \in Keys
<1>1. SetKey(length, a) \in Keys /\ length \in Nat \ {0}
  BY LogAssumption DEF Keys
<1> QED BY <1>1, KeyIsSetKey

LEMMA SettingIsNat ==
  ASSUME Types, NEW length, NEW a \in Attrs, Key(length, a) \in Keys
  PROVE  Setting(length, a) \in Nat
<1>1. nvram[Key(length, a)] \in Settings \cup {Unset} /\ Settings \subseteq Nat
  BY LogAssumption DEF Types
<1>2. Default[a] \in Nat
  BY DEF Default, Attrs, DEFAULT_LOG_LEVEL, DEFAULT_LOG_DESTINATION, DEFAULT_LOG_HEADER_MASK
<1> QED BY <1>1, <1>2 DEF Setting

LEMMA LogInvInit == Init => LogInv
<1> SUFFICES ASSUME Init PROVE LogInv
  OBVIOUS
<1>1. call \in Call /\ call.op = "none" /\ call.at = "idle" /\ call.to = "none"
  BY DEF Init, Idle, Call, Destinations
<1>2. Types
  <2>1. nvram \in [Keys -> Settings \cup {Unset}] /\ logAttribute \in [Attrs -> Nat]
    BY DEF Init
  <2> QED BY <1>1, <2>1 DEF Init, Types
<1> QED BY <1>1, <1>2 DEF Init, LogInv, AttributesAreRead, NameIsCut, Answered, NothingSent, LineIsWhole

LEMMA ConfigureKeeps == ASSUME LogInv, Configure PROVE LogInv'
<1>1. PICK a \in Attrs, value \in Settings \cup {Unset} :
        /\ nvram' = [nvram EXCEPT ![SetKey(appname, a)] = value]
        /\ changed' = changed \cup {b \in Attrs : SetKey(appname, b) = SetKey(appname, a)}
  BY DEF Configure
<1>2. UNCHANGED <<appname, name, logAttribute, call>>
  BY DEF Configure
<1>3. Types'
  BY <1>1, <1>2 DEF LogInv, Types
<1>4. AttributesAreRead'
  <2> SUFFICES ASSUME call.op = "log_log", NEW b \in Attrs, call.at \in StagesAfter(b), b \notin changed'
               PROVE  logAttribute[b] = Setting(appname, b)'
    BY <1>2 DEF AttributesAreRead, StagesAfter
  <2>1. b \notin changed /\ SetKey(appname, b) # SetKey(appname, a)
    BY <1>1
  <2>2. Key(appname, b) = SetKey(appname, b) /\ SetKey(appname, b) \in Keys
    BY LogAssumption, KeyIsOne, KeyIsSetKey DEF LogInv, Types
  <2>4. nvram'[Key(appname, b)] = nvram[Key(appname, b)]
    BY <1>1, <2>1, <2>2 DEF LogInv, Types
  <2>3. Setting(appname, b)' = Setting(appname, b)
    BY <1>2, <2>4 DEF Setting
  <2> QED BY <2>1, <2>3 DEF LogInv, AttributesAreRead
<1> QED BY <1>2, <1>3, <1>4 DEF LogInv, NameIsCut, Answered, NothingSent, LineIsWhole, Wants

LEMMA StartKeeps ==
  ASSUME LogInv, NEW op \in {"log_init", "log_log"}, NEW length \in Nat, NEW level \in Nat,
         Start(op, length, level), UNCHANGED <<appname, nvram, name, logAttribute>>,
         op = "log_init" => length = appname, op = "log_log" => name # 0 /\ length = name
  PROVE  LogInv'
<1>1. /\ call' \in Call /\ call'.op = op /\ call'.at = "log_level" /\ call'.name = length
      /\ call'.to = "none" /\ changed' = {}
  <2>1. Idle \in Call /\ Idle.to = "none"
    BY DEF Idle, Call, Destinations
  <2>2. call' = [Idle EXCEPT !.op = op, !.at = "log_level", !.name = length, !.level = level]
        /\ changed' = {}
    BY DEF Start
  <2> QED BY <2>1, <2>2 DEF Call, Attrs
<1>2. Types'
  BY <1>1 DEF LogInv, Types
<1>3. AttributesAreRead'
  BY <1>1 DEF AttributesAreRead, StagesAfter
<1>4. NameIsCut'
  BY <1>1 DEF LogInv, NameIsCut
<1> QED BY <1>1, <1>2, <1>3, <1>4 DEF LogInv, Answered, NothingSent, LineIsWhole

LEMMA ReadKeeps == ASSUME LogInv, NEW i \in 1..3, ReadAttr(i) PROVE LogInv'
<1>1. PICK a, next :
        /\ a \in Attrs /\ call.at = a /\ next \in {"log_dest", "log_mask", "read"}
        /\ a = ReadOrder[i] /\ next = ReadOrder[i + 1]
        /\ \A b \in Attrs : next \in StagesAfter(b) => b = a \/ call.at \in StagesAfter(b)
  <2>1. ReadOrder = <<"log_level", "log_dest", "log_mask", "read">>
    BY DEF ReadOrder
  <2>2. call.at = ReadOrder[i]
    BY DEF ReadAttr
  <2>3. CASE i = 1
    <3>1. ReadOrder[i] = "log_level" /\ ReadOrder[i + 1] = "log_dest"
      BY <2>1, <2>3
    <3> QED BY <2>2, <3>1 DEF Attrs, StagesAfter
  <2>4. CASE i = 2
    <3>1. ReadOrder[i] = "log_dest" /\ ReadOrder[i + 1] = "log_mask"
      BY <2>1, <2>4
    <3> QED BY <2>2, <3>1 DEF Attrs, StagesAfter
  <2>5. CASE i = 3
    <3>1. ReadOrder[i] = "log_mask" /\ ReadOrder[i + 1] = "read"
      BY <2>1, <2>5
    <3> QED BY <2>2, <3>1 DEF Attrs, StagesAfter
  <2>6. i = 1 \/ i = 2 \/ i = 3
    OBVIOUS
  <2> QED BY <2>3, <2>4, <2>5, <2>6
<1>2. /\ logAttribute' = [logAttribute EXCEPT ![a] = Setting(call.name, a)]
      /\ call' = [call EXCEPT !.at = next] /\ UNCHANGED <<appname, nvram, name, changed>>
  BY <1>1 DEF ReadAttr, updateLogAttr
<1>3. call \in Call
  BY DEF LogInv, Types
<1>4. call' \in Call /\ call'.op = call.op /\ call'.name = call.name /\ call'.at = next
      /\ call'.to = call.to
  BY <1>1, <1>2, <1>3 DEF Call, Attrs
<1>5. call.op \in {"log_init", "log_log"} /\ appname \in NameLengths /\ appname \in Nat \ {0}
  <2>1. call.op # "none"
    BY <1>1 DEF LogInv, NameIsCut, Attrs
  <2> QED BY <1>3, <2>1, LogAssumption DEF Call, LogInv, Types
<1>6. Key(call.name, a) = Key(appname, a)
  <2>1. CASE call.op = "log_init"
    BY <2>1 DEF LogInv, NameIsCut
  <2>2. CASE call.op = "log_log"
    <3>1. call.name = Min({appname, MAX_LOG_NAME_LENGTH - 1})
      BY <2>2 DEF LogInv, NameIsCut
    <3> QED BY <1>5, <3>1, CutNameHasTheKeys
  <2> QED BY <1>5, <2>1, <2>2
<1>7. Setting(call.name, a) = Setting(appname, a) /\ Setting(appname, a) \in Nat
  <2>1. Setting(call.name, a) = Setting(appname, a)
    BY <1>6 DEF Setting
  <2> QED BY <1>1, <1>5, <2>1, KeyIsOne, SettingIsNat DEF LogInv
<1>8. Types'
  BY <1>1, <1>2, <1>4, <1>7 DEF LogInv, Types
<1>9. AttributesAreRead'
  <2> SUFFICES ASSUME call.op = "log_log", NEW b \in Attrs, next \in StagesAfter(b), b \notin changed
               PROVE  logAttribute'[b] = Setting(appname, b)
    BY <1>2, <1>4 DEF AttributesAreRead, StagesAfter, Setting
  <2>1. logAttribute'[b] = IF b = a THEN Setting(appname, a) ELSE logAttribute[b]
    BY <1>2, <1>7 DEF LogInv, Types
  <2> QED BY <1>1, <2>1 DEF LogInv, AttributesAreRead
<1>10. NameIsCut'
  BY <1>2, <1>4, <1>5 DEF LogInv, NameIsCut
<1>11. NothingSent' /\ call'.at # "done"
  <2>1. call.at # "done"
    BY <1>1 DEF Attrs
  <2> QED BY <1>1, <1>4, <2>1 DEF LogInv, NothingSent
<1> QED BY <1>8, <1>9, <1>10, <1>11 DEF LogInv, Answered, LineIsWhole

LEMMA EndKeeps ==
  ASSUME LogInv, call' = Idle, name' \in Nat,
         UNCHANGED <<appname, nvram, logAttribute, changed>>,
         name' # 0 => name' = Min({appname, MAX_LOG_NAME_LENGTH - 1})
  PROVE  LogInv'
<1>1. call' \in Call /\ call'.op = "none" /\ call'.at = "idle" /\ call'.to = "none"
  BY DEF Idle, Call, Destinations
<1>2. Types'
  BY <1>1 DEF LogInv, Types
<1>3. AttributesAreRead' /\ NameIsCut'
  BY <1>1 DEF AttributesAreRead, NameIsCut
<1> QED BY <1>1, <1>2, <1>3 DEF LogInv, Answered, NothingSent, LineIsWhole

\* The last attribute has been read: the call is done with them.
LEMMA AttributesStay ==
  ASSUME AttributesAreRead, call.at = "read", call'.at = "done", call'.op = call.op,
         UNCHANGED <<appname, nvram, logAttribute, changed>>
  PROVE  AttributesAreRead'
BY DEF AttributesAreRead, StagesAfter, Setting

LEMMA FilterKeeps == ASSUME LogInv, Filter PROVE LogInv'
<1>1. call \in Call /\ call.to = "none" /\ call.level > logAttribute.log_level
  BY DEF Filter, LogInv, Types, NothingSent
<1>2. /\ call' = [call EXCEPT !.at = "done"] /\ call.op = "log_log" /\ call.at = "read"
      /\ UNCHANGED <<appname, nvram, name, logAttribute, changed>>
  BY DEF Filter
<1>3. /\ call' \in Call /\ call'.at = "done" /\ call'.op = "log_log" /\ call'.to = "none"
      /\ call'.name = call.name /\ call'.level = call.level
  BY <1>1, <1>2 DEF Call
<1>4. Types'
  BY <1>2, <1>3 DEF LogInv, Types
<1>5. AttributesAreRead'
  BY <1>2, <1>3, AttributesStay DEF LogInv
<1>6. NameIsCut'
  BY <1>2, <1>3 DEF LogInv, NameIsCut
<1>7. call.level \in Nat /\ logAttribute.log_level \in Nat
  BY <1>1 DEF LogInv, Types, Call, Attrs
<1>8. Answered' /\ NothingSent'
  BY <1>1, <1>2, <1>3, <1>7 DEF Answered, NothingSent
<1> QED BY <1>3, <1>4, <1>5, <1>6, <1>8 DEF LogInv, LineIsWhole

LEMMA SendKeeps == ASSUME LogInv, Send PROVE LogInv'
<1>1. /\ call \in Call /\ call.op = "log_log" /\ call.at = "read" /\ name \in Nat
      /\ UNCHANGED <<appname, nvram, name, logAttribute, changed>>
      /\ call.level <= logAttribute.log_level
  BY DEF Send, LogInv, Types
<1>2. PICK stamp \in StampLengths, location \in LocationLengths, message \in MessageLengths :
        LET line == FullLine(stamp, location, message)
        IN  \E to \in IF logAttribute.log_dest = LOG_DEST_STDERR THEN {"stderr"}
                      ELSE IF logAttribute.log_dest = LOG_DEST_TELNET THEN {"telnet", "lost"}
                      ELSE {"syslog"} :
              call' = [call EXCEPT !.at = "done", !.wanted = line.wanted, !.text = line.text, !.to = to]
  BY DEF Send
<1>3. PICK line, to :
        /\ line = FullLine(stamp, location, message)
        /\ to \in IF logAttribute.log_dest = LOG_DEST_STDERR THEN {"stderr"}
                  ELSE IF logAttribute.log_dest = LOG_DEST_TELNET THEN {"telnet", "lost"}
                  ELSE {"syslog"}
        /\ call' = [call EXCEPT !.at = "done", !.wanted = line.wanted, !.text = line.text, !.to = to]
  BY <1>2
<1>4. /\ Good(line) /\ line.text # <<>>
      /\ Wants(line, "appname") <=> HasBit(logAttribute.log_mask, 1)
      /\ Wants(line, "level") <=> /\ HasBit(logAttribute.log_mask, 2)
                                  /\ logAttribute.log_dest = LOG_DEST_STDERR
      /\ Wants(line, "timestamp") <=> HasBit(logAttribute.log_mask, 4)
      /\ Wants(line, "location") <=> HasBit(logAttribute.log_mask, 8)
  <2>1. stamp \in Nat /\ location \in Nat /\ message \in Nat
    BY LogAssumption DEF StampLengths
  <2> QED BY <1>1, <1>3, <2>1, FullLineIsGood
<1>5. line.text \in Seq(Chunk) /\ line.wanted \in Seq(Piece) /\ line.len \in Nat
  BY <1>4 DEF Good, Buffer
<1>6. /\ to \in Destinations \ {"none"}
      /\ to = "stderr" <=> logAttribute.log_dest = LOG_DEST_STDERR
      /\ to \in {"telnet", "lost"} <=> logAttribute.log_dest = LOG_DEST_TELNET
  BY <1>3 DEF Destinations, LOG_DEST_STDERR, LOG_DEST_TELNET
<1>7. /\ call' \in Call /\ call'.at = "done" /\ call'.op = "log_log" /\ call'.to = to
      /\ call'.name = call.name /\ call'.level = call.level
      /\ call'.text = line.text /\ call'.wanted = line.wanted
  BY <1>1, <1>5, <1>6, <1>3 DEF Call
<1>8. Types'
  BY <1>1, <1>7 DEF LogInv, Types
<1>9. AttributesAreRead'
  BY <1>1, <1>7, AttributesStay DEF LogInv
<1>10. NameIsCut'
  BY <1>1, <1>7 DEF LogInv, NameIsCut
<1>11. Answered' /\ NothingSent'
  <2>1. \A part : Wants(call, part)' <=> Wants(line, part)
    BY <1>7 DEF Wants
  <2> QED BY <1>1, <1>4, <1>6, <1>7, <2>1 DEF Answered, NothingSent
<1>12. LineIsWhole'
  <2>1. Len(line.text) # 0
    BY <1>4, <1>5
  <2>2. InOnePiece(line.text) /\ CutFrom(line.text, line.wanted)
        /\ (IsAll(line.text, line.wanted) \/ EndOf(line.text[Len(line.text)]) = Capacity)
    <3>1. line.len <= Capacity \/ line.len > Capacity
      BY <1>5 DEF Capacity, MAX_LOG_LINE_LENGTH
    <3> QED BY <1>4, <2>1, <3>1 DEF Good, EndsAt
  <2> QED BY <1>4, <1>7, <2>2 DEF LineIsWhole
<1> QED BY <1>8, <1>9, <1>10, <1>11, <1>12 DEF LogInv

LEMMA LogInvNext == LogInv /\ [Next]_vars => LogInv'
<1> SUFFICES ASSUME LogInv, [Next]_vars PROVE LogInv'
  OBVIOUS
<1>1. appname \in Nat /\ name \in Nat
  BY LogAssumption DEF LogInv, Types
<1>2. CASE log_init
  BY <1>1, <1>2, StartKeeps DEF log_init
<1>3. ASSUME NEW level \in Levels, log_log(level) PROVE LogInv'
  <2>1. level \in Nat
    BY LogAssumption
  <2> QED BY <1>1, <1>3, <2>1, StartKeeps DEF log_log
<1>4. CASE InitReturns
  <2>1. Min({appname, MAX_LOG_NAME_LENGTH - 1}) \in Nat
    BY <1>1, MinOfTwo DEF MAX_LOG_NAME_LENGTH
  <2> QED BY <1>4, <2>1, EndKeeps DEF InitReturns
<1>5. CASE LogReturns
  BY <1>1, <1>5, EndKeeps DEF LogReturns, LogInv, NameIsCut
<1>6. CASE UNCHANGED vars
  BY <1>6 DEF vars, LogInv, Types, AttributesAreRead, StagesAfter, NameIsCut, Answered, NothingSent,
              LineIsWhole, Setting, Wants
<1> QED BY <1>2, <1>3, <1>4, <1>5, <1>6, ConfigureKeeps, ReadKeeps, FilterKeeps, SendKeeps DEF Next

LEMMA LogInvHolds == Spec => []LogInv
BY LogInvInit, LogInvNext, PTL DEF Spec

LEMMA InvFollows == LogInv => FollowsConfiguration
<1> SUFFICES ASSUME LogInv, call.at = "done" PROVE FollowsConfiguration
  BY DEF FollowsConfiguration
<1>0. \A a \in Attrs : Setting(appname, a) = Configured(a)
  <2> TAKE a \in Attrs
  <2>1. Key(appname, a) = SetKey(appname, a) /\ SetKey(appname, a) \in Keys
    BY LogAssumption, KeyIsOne, KeyIsSetKey DEF LogInv, Types
  <2> QED BY <2>1 DEF Setting, Configured
<1>1. call.op = "log_log" /\ \A a \in Attrs : a \notin changed => logAttribute[a] = Configured(a)
  BY <1>0 DEF LogInv, Answered, AttributesAreRead, StagesAfter
<1>2. "log_level" \in Attrs /\ "log_dest" \in Attrs /\ "log_mask" \in Attrs
  BY DEF Attrs
<1>3. /\ "log_level" \notin changed => logAttribute.log_level = Configured("log_level")
      /\ "log_dest" \notin changed => logAttribute.log_dest = Configured("log_dest")
      /\ "log_mask" \notin changed => logAttribute.log_mask = Configured("log_mask")
  BY <1>1, <1>2
<1>4. Answered /\ LineIsWhole
  BY DEF LogInv
<1>5. "log_level" \notin changed =>
        (call.to # "none") = (call.level <= Configured("log_level"))
  BY <1>3, <1>4 DEF Answered
<1>6. call.to # "none" /\ "log_dest" \notin changed =>
        /\ call.to = "stderr" <=> Configured("log_dest") = LOG_DEST_STDERR
        /\ call.to \in {"telnet", "lost"} <=> Configured("log_dest") = LOG_DEST_TELNET
  BY <1>3, <1>4 DEF Answered
<1>7. ASSUME call.to # "none", "log_mask" \notin changed
      PROVE  /\ HasBit(Configured("log_mask"), 1) <=> Wants(call, "appname")
             /\ HasBit(Configured("log_mask"), 4) <=> Wants(call, "timestamp")
             /\ HasBit(Configured("log_mask"), 8) <=> Wants(call, "location")
             /\ call.to = "stderr" =>
                  (HasBit(Configured("log_mask"), 2) <=> Wants(call, "level"))
  BY <1>3, <1>4, <1>7 DEF Answered
<1> QED BY <1>5, <1>6, <1>7, Zenon DEF FollowsConfiguration, Wants

(* Whether, where and with which header log_log sends a message is what    *)
(* the nvram has said since the call began, for every name, setting and    *)
(* order in which the CLI changes the keys the call reads one by one.      *)
THEOREM ConfigurationIsFollowed == Spec => []FollowsConfiguration
BY LogInvHolds, InvFollows, PTL

(* The line log_log sends is its pieces, one after the other, complete or  *)
(* cut at the end of the buffer and never beyond it, for texts of every    *)
(* length.                                                                 *)
THEOREM LinesAreWhole == Spec => []LineIsWhole
<1>1. LogInv => LineIsWhole
  BY DEF LogInv
<1> QED BY <1>1, LogInvHolds, PTL
=============================================================================
