---------------------------- MODULE TimerLemmas -----------------------------
(***************************************************************************)
(* What the proofs of both timer libraries use: RemoveAt, InsertAt, Tail   *)
(* and Front of a sequence, position by position, timeval arithmetic, and  *)
(* the least number of a set.                                              *)
(***************************************************************************)
EXTENDS Timeval, SequencesExt, WellFoundedInduction, TLAPS

LEMMA SubSeqShape ==
  ASSUME NEW S, NEW s \in Seq(S), NEW m \in Int, NEW n \in Int,
         1 <= m, m <= n + 1, n <= Len(s)
  PROVE  /\ SubSeq(s, m, n) \in Seq(S)
         /\ Len(SubSeq(s, m, n)) = n - m + 1
         /\ \A j \in 1..(n - m + 1) : SubSeq(s, m, n)[j] = s[m + j - 1]
OBVIOUS

LEMMA ConcatShape ==
  ASSUME NEW S, NEW s \in Seq(S), NEW t \in Seq(S)
  PROVE  /\ s \o t \in Seq(S)
         /\ Len(s \o t) = Len(s) + Len(t)
         /\ \A j \in 1..(Len(s) + Len(t)) :
               (s \o t)[j] = IF j <= Len(s) THEN s[j] ELSE t[j - Len(s)]
OBVIOUS

LEMMA FrontShape ==
  ASSUME NEW S, NEW s \in Seq(S), Len(s) > 0
  PROVE  /\ SubSeq(s, 1, Len(s) - 1) \in Seq(S)
         /\ Len(SubSeq(s, 1, Len(s) - 1)) = Len(s) - 1
         /\ \A j \in 1..(Len(s) - 1) : SubSeq(s, 1, Len(s) - 1)[j] = s[j]
<1> DEFINE n == Len(s) - 1
<1>1. n \in Int /\ 1 <= n + 1 /\ n <= Len(s) /\ n - 1 + 1 = n
      /\ \A j \in 1..n : 1 + j - 1 = j
  OBVIOUS
<1> HIDE DEF n
<1>2. /\ SubSeq(s, 1, n) \in Seq(S) /\ Len(SubSeq(s, 1, n)) = n
      /\ \A j \in 1..n : SubSeq(s, 1, n)[j] = s[j]
  BY <1>1, SubSeqShape
<1> QED BY <1>2 DEF n

LEMMA RemoveAtShape ==
  ASSUME NEW S, NEW s \in Seq(S), NEW i \in 1..Len(s)
  PROVE  /\ RemoveAt(s, i) \in Seq(S)
         /\ Len(RemoveAt(s, i)) = Len(s) - 1
         /\ \A j \in 1..(Len(s) - 1) :
               RemoveAt(s, i)[j] = s[IF j < i THEN j ELSE j + 1]
<1> DEFINE a == SubSeq(s, 1, i - 1)
           b == SubSeq(s, i + 1, Len(s))
<1>1. /\ a \in Seq(S) /\ Len(a) = i - 1
      /\ \A j \in 1..(i - 1) : a[j] = s[j]
  BY SubSeqShape
<1>2. /\ b \in Seq(S) /\ Len(b) = Len(s) - i
      /\ \A j \in 1..(Len(s) - i) : b[j] = s[i + j]
  BY SubSeqShape
<1> HIDE DEF a, b
<1>3. /\ a \o b \in Seq(S) /\ Len(a \o b) = Len(s) - 1
      /\ \A j \in 1..(Len(s) - 1) :
            (a \o b)[j] = IF j <= i - 1 THEN a[j] ELSE b[j - (i - 1)]
  <2>1. a \o b \in Seq(S)
    BY <1>1, <1>2, ConcatShape
  <2>2. Len(a \o b) = Len(a) + Len(b)
    BY <1>1, <1>2, ConcatShape
  <2>3. Len(a) = i - 1 /\ Len(a) + Len(b) = Len(s) - 1
    <3>1. Len(a) = i - 1
      BY <1>1, Zenon
    <3>2. Len(b) = Len(s) - i
      BY <1>2, Zenon
    <3> QED BY <3>1, <3>2
  <2>4. \A j \in 1..(Len(a) + Len(b)) :
            (a \o b)[j] = IF j <= Len(a) THEN a[j] ELSE b[j - Len(a)]
    BY <1>1, <1>2, ConcatShape
  <2> QED BY <2>1, <2>2, <2>3, <2>4, Zenon
<1>4. RemoveAt(s, i) = a \o b
  BY DEF RemoveAt, a, b
<1>5. ASSUME NEW j \in 1..(Len(s) - 1)
      PROVE  (a \o b)[j] = s[IF j < i THEN j ELSE j + 1]
  <2>1. j \in Int /\ i \in Int /\ Len(s) \in Nat
    OBVIOUS
  <2>2. CASE j < i
    BY <1>1, <1>3, <2>1, <2>2
  <2>3. CASE ~ (j < i)
    BY <1>2, <1>3, <2>1, <2>3
  <2> QED BY <2>2, <2>3
<1> QED BY <1>3, <1>4, <1>5

LEMMA InsertAtShape ==
  ASSUME NEW S, NEW s \in Seq(S), NEW e \in S, NEW i \in 1..(Len(s) + 1)
  PROVE  /\ InsertAt(s, i, e) \in Seq(S)
         /\ Len(InsertAt(s, i, e)) = Len(s) + 1
         /\ \A j \in 1..(Len(s) + 1) :
               InsertAt(s, i, e)[j] = IF j < i THEN s[j]
                                      ELSE IF j = i THEN e ELSE s[j - 1]
<1> DEFINE a == SubSeq(s, 1, i - 1)
           b == SubSeq(s, i, Len(s))
<1>1. /\ a \in Seq(S) /\ Len(a) = i - 1
      /\ \A j \in 1..(i - 1) : a[j] = s[j]
  BY SubSeqShape
<1>2. /\ b \in Seq(S) /\ Len(b) = Len(s) - i + 1
      /\ \A j \in 1..(Len(s) - i + 1) : b[j] = s[i + j - 1]
  BY SubSeqShape
<1> HIDE DEF a, b
<1>3. <<e>> \in Seq(S) /\ Len(<<e>>) = 1 /\ <<e>>[1] = e
  OBVIOUS
<1>4. /\ a \o <<e>> \in Seq(S) /\ Len(a \o <<e>>) = i
      /\ \A j \in 1..i :
            (a \o <<e>>)[j] = IF j <= i - 1 THEN a[j] ELSE <<e>>[j - (i - 1)]
  BY <1>1, <1>3, ConcatShape
<1>5. /\ (a \o <<e>>) \o b \in Seq(S) /\ Len((a \o <<e>>) \o b) = Len(s) + 1
      /\ \A j \in 1..(Len(s) + 1) :
            ((a \o <<e>>) \o b)[j] =
               IF j <= i THEN (a \o <<e>>)[j] ELSE b[j - i]
  <2>1. (a \o <<e>>) \o b \in Seq(S)
    BY <1>2, <1>4, ConcatShape
  <2>2. Len((a \o <<e>>) \o b) = Len(a \o <<e>>) + Len(b)
    BY <1>2, <1>4, ConcatShape
  <2>3. Len(a \o <<e>>) = i /\ Len(a \o <<e>>) + Len(b) = Len(s) + 1
    <3>1. Len(a \o <<e>>) = i
      BY <1>4, Zenon
    <3>2. Len(b) = Len(s) - i + 1
      BY <1>2, Zenon
    <3>3. i + Len(b) = Len(s) + 1
      BY <3>2
    <3> QED BY <3>1, <3>3
  <2>4. \A j \in 1..(Len(a \o <<e>>) + Len(b)) :
            ((a \o <<e>>) \o b)[j] =
               IF j <= Len(a \o <<e>>) THEN (a \o <<e>>)[j]
               ELSE b[j - Len(a \o <<e>>)]
    BY <1>2, <1>4, ConcatShape
  <2> QED BY <2>1, <2>2, <2>3, <2>4, Zenon
<1>6. InsertAt(s, i, e) = (a \o <<e>>) \o b
  BY DEF InsertAt, a, b
<1>7. ASSUME NEW j \in 1..(Len(s) + 1)
      PROVE  ((a \o <<e>>) \o b)[j] = IF j < i THEN s[j]
                                      ELSE IF j = i THEN e ELSE s[j - 1]
  <2>1. j \in Int /\ i \in Int /\ Len(s) \in Nat
    OBVIOUS
  <2>2. CASE j < i
    BY <1>1, <1>4, <1>5, <2>1, <2>2
  <2>3. CASE j = i
    BY <1>3, <1>4, <1>5, <2>1, <2>3
  <2>4. CASE ~ (j < i) /\ j # i
    <3>1. ~ (j <= i) /\ j - i \in 1..(Len(s) - i + 1) /\ i + (j - i) - 1 = j - 1
      BY <2>1, <2>4
    <3>2. ((a \o <<e>>) \o b)[j] = b[j - i]
      BY <1>5, <3>1
    <3>3. b[j - i] = s[j - 1]
      BY <1>2, <3>1
    <3> QED BY <2>4, <3>2, <3>3
  <2> QED BY <2>2, <2>3, <2>4
<1> QED BY <1>5, <1>6, <1>7

-----------------------------------------------------------------------------
(* Timeval arithmetic.                                                     *)

LEMMA UsecsPositive == USECS_IN_SEC \in Nat /\ USECS_IN_SEC > 0
<1> DEFINE M == MSECS_IN_SEC
<1>1. M \in Nat /\ M > 0
  BY MsecsAssumption
<1>2. M * M \in Nat /\ M * M > 0
  BY <1>1
<1> QED BY <1>2 DEF USECS_IN_SEC

\* Division with a remainder, for any positive divisor.
LEMMA DivMod ==
  ASSUME NEW t \in Nat, NEW u \in Nat, u > 0
  PROVE  /\ t \div u \in Nat /\ t % u \in Nat /\ t % u < u
         /\ t = (t \div u) * u + (t % u)
OBVIOUS

LEMMA GettimeofdayType ==
  ASSUME NEW t \in Nat
  PROVE  /\ gettimeofday(t) \in Timeval
         /\ gettimeofday(t).usec < USECS_IN_SEC
         /\ Usecs(gettimeofday(t)) = t
<1>1. /\ t \div USECS_IN_SEC \in Nat /\ t % USECS_IN_SEC \in Nat
      /\ t % USECS_IN_SEC < USECS_IN_SEC
      /\ t = (t \div USECS_IN_SEC) * USECS_IN_SEC + (t % USECS_IN_SEC)
  BY DivMod, UsecsPositive
<1> QED BY <1>1 DEF gettimeofday, Timeval, Usecs

LEMMA AddMsecType ==
  ASSUME NEW tv \in Timeval, NEW ms \in Nat
  PROVE  /\ AddMsec(tv, ms) \in Timeval
         /\ AddMsec(tv, ms).sec >= tv.sec
         /\ AddMsec(tv, ms).usec >= tv.usec
         /\ AddMsec(tv, ms).usec < tv.usec + USECS_IN_SEC
         /\ Usecs(AddMsec(tv, ms)) = Usecs(tv) + ms * MSECS_IN_SEC
<1> DEFINE M == MSECS_IN_SEC
           q == ms \div M
           r == ms % M
<1>1. M \in Nat /\ M > 0
  BY MsecsAssumption
<1>2. q \in Nat /\ r \in Nat /\ r < M /\ ms = q * M + r
  BY <1>1, DivMod
<1>3. r * M \in Nat /\ r * M < M * M
  BY <1>1, <1>2
<1>4. tv.sec \in Nat /\ tv.usec \in Nat
  BY DEF Timeval
<1>5. AddMsec(tv, ms) = [sec |-> tv.sec + q, usec |-> tv.usec + r * M]
  BY DEF AddMsec
<1> HIDE DEF q, r
<1>6. (tv.sec + q) * (M * M) + (tv.usec + r * M)
        = (tv.sec * (M * M) + tv.usec) + (q * M + r) * M
  BY <1>1, <1>2, <1>4
<1>7. tv.sec + q \in Nat /\ tv.usec + r * M \in Nat
  BY <1>2, <1>3, <1>4
<1>8. AddMsec(tv, ms) \in Timeval
  BY <1>5, <1>7 DEF Timeval
<1>9. /\ AddMsec(tv, ms).sec >= tv.sec
      /\ AddMsec(tv, ms).usec >= tv.usec
      /\ AddMsec(tv, ms).usec < tv.usec + USECS_IN_SEC
  <2> DEFINE w == r * M
  <2>1. w \in Nat /\ w < USECS_IN_SEC /\ USECS_IN_SEC \in Nat
    BY <1>3, UsecsPositive DEF USECS_IN_SEC
  <2>2. AddMsec(tv, ms) = [sec |-> tv.sec + q, usec |-> tv.usec + w]
    BY <1>5
  <2> HIDE DEF w
  <2> QED BY <1>2, <1>4, <2>1, <2>2
<1>10. Usecs(AddMsec(tv, ms)) = Usecs(tv) + ms * M
  <2>1. Usecs(AddMsec(tv, ms)) = (tv.sec + q) * (M * M) + (tv.usec + r * M)
    BY <1>5 DEF Usecs, USECS_IN_SEC
  <2>2. Usecs(tv) = tv.sec * (M * M) + tv.usec
    BY DEF Usecs, USECS_IN_SEC
  <2> QED BY <1>2, <1>6, <2>1, <2>2
<1> QED BY <1>8, <1>9, <1>10

-----------------------------------------------------------------------------
(* Induction, as the least counterexample: a set that is not empty has a   *)
(* least element.                                                          *)
LEMMA LeastNumber ==
  ASSUME NEW T \in SUBSET Nat, T # {}
  PROVE  \E n \in T : \A m \in T : n <= m
<1>1. IsWellFoundedOn(OpToRel(<, Nat), Nat)
  BY NatLessThanWellFounded
<1>2. PICK n \in T : \A m \in T : ~ (<<m, n>> \in OpToRel(<, Nat))
  BY <1>1, WFMin
<1>3. \A m \in T : ~ (m < n)
  BY <1>2 DEF OpToRel
<1> QED BY <1>3
=============================================================================
