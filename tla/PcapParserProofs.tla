-------------------------- MODULE PcapParserProofs --------------------------
(***************************************************************************)
(* The gateway's parser, for every stream of bytes and every way of        *)
(* cutting it.  Its loop is a recursive function of the position, so that  *)
(* there are two things to show of it first: that such a function exists,  *)
(* and that it depends on nothing but the bytes from its position on.      *)
(* Both are induction over the bytes that are left.                        *)
(***************************************************************************)
EXTENDS PcapParser, FrameCodecProofs, WellFoundedInduction

(* Induction, for a set of numbers.                                        *)
LEMMA Descent ==
    ASSUME NEW S, \A n \in Nat : (\A m \in Nat : m < n => m \in S) => n \in S
    PROVE  Nat \subseteq S
  <1> SUFFICES ASSUME Nat \ S # {} PROVE FALSE
    OBVIOUS
  <1>1. PICK n \in Nat \ S : \A m \in Nat \ S : ~(<<m, n>> \in OpToRel(<, Nat))
    BY WFMin, NatLessThanWellFounded
  <1>2. ASSUME NEW m \in Nat, m < n PROVE m \in S
    BY <1>1, <1>2 DEF OpToRel
  <1> QED
    BY <1>1, <1>2

(* F computes entries of a table of numbers up to N from later entries.    *)
FromLater(F, N, T) ==
    /\ F \in [0 .. N -> [[0 .. N -> T] -> T]]
    /\ \A i \in 0 .. N : \A g, h \in [0 .. N -> T] :
          (\A j \in i + 1 .. N : g[j] = h[j]) => F[i][g] = F[i][h]

Computes(F, N, T) == \E g \in [0 .. N -> T] : \A i \in 0 .. N : g[i] = F[i][g]

(* There is such a table: entries are filled in from the end.              *)
LEMMA TableExists ==
    ASSUME NEW N \in Nat, NEW T, T # {}, NEW F, FromLater(F, N, T)
    PROVE  Computes(F, N, T)
  <1> DEFINE Filled(k) == \E g \in [0 .. N -> T] :
                             \A i \in 0 .. N : N - i < k => g[i] = F[i][g]
             S == {k \in Nat : Filled(k)}
  <1>0. /\ F \in [0 .. N -> [[0 .. N -> T] -> T]]
        /\ \A i \in 0 .. N : \A g, h \in [0 .. N -> T] :
              (\A j \in i + 1 .. N : g[j] = h[j]) => F[i][g] = F[i][h]
    BY DEF FromLater
  <1>1. Filled(0)
    <2>1. PICK t \in T : TRUE
      OBVIOUS
    <2>2. [i \in 0 .. N |-> t] \in [0 .. N -> T]
      BY <2>1
    <2>3. \A i \in 0 .. N : ~(N - i < 0)
      OBVIOUS
    <2> QED
      BY <2>2, <2>3
  <1>2. ASSUME NEW k \in Nat, Filled(k) PROVE Filled(k + 1)
    <2>1. PICK g \in [0 .. N -> T] : \A i \in 0 .. N : N - i < k => g[i] = F[i][g]
      BY <1>2
    <2>2. CASE k > N
      <3>1. \A i \in 0 .. N : N - i < k
        BY <2>2
      <3> QED
        BY <2>1, <3>1
    <2>3. CASE k <= N
      <3>1. PICK p : p = N - k
        OBVIOUS
      <3>2. p \in 0 .. N
        BY <2>3, <3>1
      <3>3. F[p][g] \in T
        BY <1>0, <3>2
      <3> DEFINE h == [g EXCEPT ![p] = F[p][g]]
      <3>4. /\ h \in [0 .. N -> T] /\ h[p] = F[p][g]
            /\ \A j \in 0 .. N : j # p => h[j] = g[j]
        BY <3>2, <3>3
      <3> HIDE DEF h
      <3>5. ASSUME NEW i \in 0 .. N, N - i < k + 1 PROVE h[i] = F[i][h]
        <4>1. \A j \in i + 1 .. N : j \in 0 .. N /\ j # p
          BY <3>1, <3>5
        <4>2. F[i][h] = F[i][g]
          BY <1>0, <3>4, <4>1
        <4>3. i # p => N - i < k
          BY <3>1, <3>5
        <4> QED
          BY <2>1, <3>4, <4>2, <4>3
      <3> QED
        BY <3>4, <3>5
    <2>4. k > N \/ k <= N
      OBVIOUS
    <2> QED
      BY ONLY <2>2, <2>3, <2>4
  <1> HIDE DEF Filled
  <1>3. ASSUME NEW n \in Nat, \A m \in Nat : m < n => m \in S PROVE n \in S
    <2>1. CASE n = 0
      BY <1>1, <2>1
    <2>2. CASE n # 0
      <3>1. n - 1 \in Nat /\ n - 1 < n /\ (n - 1) + 1 = n
        BY <2>2
      <3>2. Filled(n - 1)
        BY <1>3, <3>1
      <3> QED
        BY <1>2, <3>1, <3>2
    <2> QED
      BY <2>1, <2>2
  <1>4. Nat \subseteq S
    <2> HIDE DEF S
    <2> QED
      BY <1>3, Descent
  <1>5. Filled(N + 1)
    BY <1>4
  <1>6. \A i \in 0 .. N : N - i < N + 1
    OBVIOUS
  <1> QED
    BY <1>5, <1>6 DEF Filled, Computes

------------------------------------------------------------------------------
(* What is read at a position.                                             *)

Frame == [type : MessageType, payload : Seq(Byte)]
Result == [frames : Seq(Frame), rest : Seq(Byte)]

Digits(a, b, c, d) == ((a * Base + b) * Base + c) * Base + d

(* A number put together from bytes is one.                                *)
LEMMA DigitsType ==
    ASSUME NEW a \in Byte, NEW b \in Byte, NEW c \in Byte, NEW d \in Byte
    PROVE  Digits(a, b, c, d) \in Nat
  <1>1. Base \in Nat /\ a \in Nat /\ b \in Nat /\ c \in Nat /\ d \in Nat
    BY CodecAssumption DEF Byte
  <1>2. ASSUME NEW x \in Nat, NEW y \in Nat PROVE x * Base + y \in Nat
    <2>1. x * Base \in Nat
      BY <1>1
    <2> QED
      BY <2>1
  <1> DEFINE ab == a * Base + b
             abc == ab * Base + c
  <1>3. ab \in Nat
    BY <1>1, <1>2
  <1> HIDE DEF ab
  <1>4. abc \in Nat
    BY <1>1, <1>2, <1>3
  <1> HIDE DEF abc
  <1>5. abc * Base + d \in Nat
    BY <1>1, <1>2, <1>4
  <1> QED
    BY <1>5 DEF Digits, ab, abc

(* A piece of a string, byte by byte.                                      *)
LEMMA PieceParts ==
    ASSUME NEW s \in Seq(Byte), NEW m \in Nat \ {0}, NEW n \in Nat,
           m - 1 <= n, n <= Len(s)
    PROVE  /\ SubSeq(s, m, n) \in Seq(Byte)
           /\ Len(SubSeq(s, m, n)) = n - m + 1
           /\ \A i \in 1 .. n - m + 1 : SubSeq(s, m, n)[i] = s[m + i - 1]
  <1>1. \A i \in m .. n : s[i] \in Byte
    <2>1. \A i \in m .. n : i \in 1 .. Len(s)
      BY LenProperties
    <2> QED
      BY <2>1, ElementOfSeq
  <1>2. m \in Int /\ n \in Int
    OBVIOUS
  <1>3. /\ SubSeq(s, m, n) \in Seq(Byte)
        /\ Len(SubSeq(s, m, n)) = IF m <= n THEN n - m + 1 ELSE 0
        /\ \A i \in 1 .. n - m + 1 : SubSeq(s, m, n)[i] = s[m + i - 1]
    BY <1>1, <1>2, SubSeqProperties
  <1>4. Len(SubSeq(s, m, n)) = n - m + 1
    BY <1>3
  <1> QED
    BY <1>3, <1>4

(* What follows a position, byte by byte.                                  *)
LEMMA SuffixParts ==
    ASSUME NEW s \in Seq(Byte), NEW i \in 0 .. Len(s)
    PROVE  /\ Len(s) \in Nat
           /\ Suffix(s, i) \in Seq(Byte)
           /\ Len(Suffix(s, i)) = Len(s) - i
           /\ \A x \in 1 .. Len(s) - i : Suffix(s, i)[x] = s[i + x]
  <1>1. Len(s) \in Nat
    BY LenProperties
  <1>2. /\ i + 1 \in Nat \ {0} /\ (i + 1) - 1 <= Len(s)
        /\ Len(s) - (i + 1) + 1 = Len(s) - i
    BY <1>1
  <1>3. /\ SubSeq(s, i + 1, Len(s)) \in Seq(Byte)
        /\ Len(SubSeq(s, i + 1, Len(s))) = Len(s) - (i + 1) + 1
        /\ \A x \in 1 .. Len(s) - (i + 1) + 1 : SubSeq(s, i + 1, Len(s))[x] = s[i + 1 + x - 1]
    <2> DEFINE m == i + 1
    <2>1. m \in Nat \ {0} /\ m - 1 <= Len(s) /\ Len(s) <= Len(s)
      BY <1>1, <1>2
    <2> HIDE DEF m
    <2>2. /\ SubSeq(s, m, Len(s)) \in Seq(Byte)
          /\ Len(SubSeq(s, m, Len(s))) = Len(s) - m + 1
          /\ \A x \in 1 .. Len(s) - m + 1 : SubSeq(s, m, Len(s))[x] = s[m + x - 1]
      BY <1>1, <2>1, PieceParts
    <2> QED
      BY <2>2 DEF m
  <1>4. \A x \in 1 .. Len(s) - i : i + 1 + x - 1 = i + x
    OBVIOUS
  <1>5. \A x \in 1 .. Len(s) - i : SubSeq(s, i + 1, Len(s))[x] = s[i + x]
    BY <1>2, <1>3, <1>4
  <1> QED
    BY <1>1, <1>2, <1>3, <1>5 DEF Suffix

(* The end of a frame lies behind its header.                              *)
LEMMA EndAtIs ==
    ASSUME NEW s \in Seq(Byte), NEW i \in Nat, HasHeader(s, i)
    PROVE  /\ EndAt(s, i) = i + 5 + Digits(s[i + 2], s[i + 3], s[i + 4], s[i + 5])
           /\ EndAt(s, i) \in Nat /\ EndAt(s, i) >= i + 5
           /\ Len(s) \in Nat /\ i + 5 <= Len(s)
           /\ s[i + 1] \in Byte
  <1>1. Len(s) \in Nat /\ i + 5 <= Len(s)
    BY LenProperties DEF HasHeader, HeaderSize
  <1> DEFINE h == SubSeq(s, i + 1, i + 5)
  <1>2. h[2] = s[i + 2] /\ h[3] = s[i + 3] /\ h[4] = s[i + 4] /\ h[5] = s[i + 5]
    <2> DEFINE m == i + 1
               n == i + 5
    <2>1. /\ m \in Nat \ {0} /\ n \in Nat /\ m - 1 <= n /\ n <= Len(s) /\ n - m + 1 = 5
          /\ m + 2 - 1 = i + 2 /\ m + 3 - 1 = i + 3 /\ m + 4 - 1 = i + 4 /\ m + 5 - 1 = i + 5
      BY <1>1
    <2> HIDE DEF m, n
    <2>2. \A x \in 1 .. n - m + 1 : SubSeq(s, m, n)[x] = s[m + x - 1]
      BY <2>1, PieceParts
    <2>3. \A x \in 1 .. 5 : SubSeq(s, m, n)[x] = s[m + x - 1]
      BY <2>1, <2>2
    <2>4. /\ SubSeq(s, m, n)[2] = s[i + 2] /\ SubSeq(s, m, n)[3] = s[i + 3]
          /\ SubSeq(s, m, n)[4] = s[i + 4] /\ SubSeq(s, m, n)[5] = s[i + 5]
      BY <2>1, <2>3
    <2>5. h = SubSeq(s, m, n)
      BY DEF m, n
    <2> HIDE DEF h
    <2> QED
      BY <2>4, <2>5
  <1> HIDE DEF h
  <1>3. DecodeLength(h) = Digits(s[i + 2], s[i + 3], s[i + 4], s[i + 5])
    BY <1>2 DEF DecodeLength, Digits
  <1>4. /\ s[i + 1] \in Byte /\ s[i + 2] \in Byte /\ s[i + 3] \in Byte
        /\ s[i + 4] \in Byte /\ s[i + 5] \in Byte
    <2>1. /\ i + 1 \in 1 .. Len(s) /\ i + 2 \in 1 .. Len(s) /\ i + 3 \in 1 .. Len(s)
          /\ i + 4 \in 1 .. Len(s) /\ i + 5 \in 1 .. Len(s)
      BY <1>1
    <2>2. \A x \in 1 .. Len(s) : s[x] \in Byte
      BY ElementOfSeq
    <2> QED
      BY <2>1, <2>2
  <1>5. Digits(s[i + 2], s[i + 3], s[i + 4], s[i + 5]) \in Nat
    BY <1>4, DigitsType
  <1>6. EndAt(s, i) = i + 5 + Digits(s[i + 2], s[i + 3], s[i + 4], s[i + 5])
    BY <1>3 DEF EndAt, HeaderSize, h
  <1> QED
    BY <1>1, <1>4, <1>5, <1>6

(* A whole frame with a known opcode is a frame.                           *)
LEMMA FrameAtType ==
    ASSUME NEW s \in Seq(Byte), NEW i \in Nat, HasHeader(s, i), ~Unknown(s, i),
           EndAt(s, i) <= Len(s)
    PROVE  FrameAt(s, i, EndAt(s, i)) \in Frame
  <1> DEFINE m == i + HeaderSize + 1
             e == EndAt(s, i)
  <1>1. m \in Nat \ {0} /\ e \in Nat /\ m - 1 <= e /\ e <= Len(s)
    BY EndAtIs DEF HeaderSize
  <1>2. FrameAt(s, i, e) = [type |-> s[i + 1], payload |-> SubSeq(s, m, e)]
    BY DEF FrameAt
  <1> HIDE DEF m, e
  <1>3. SubSeq(s, m, e) \in Seq(Byte)
    BY <1>1, PieceParts
  <1> QED
    BY <1>2, <1>3 DEF Frame, Unknown, e

------------------------------------------------------------------------------
(* The loops as functions of the position, and their existence.            *)

Nothing(s, i) == [frames |-> <<>>, rest |-> Suffix(s, i)]

Before(f, result) == [result EXCEPT !.frames = <<f>> \o @]

Step(s, g, i) ==
    IF ~HasHeader(s, i) THEN Nothing(s, i)
    ELSE IF Unknown(s, i) THEN g[i + 1]
    ELSE IF Len(s) < EndAt(s, i) THEN Nothing(s, i)
    ELSE Before(FrameAt(s, i, EndAt(s, i)), g[EndAt(s, i)])

Table(s) == CHOOSE g : g = [i \in 0 .. Len(s) |-> Step(s, g, i)]

(* Scan reads the table at its start.                                      *)
LEMMA ScanTable ==
    ASSUME NEW s
    PROVE  Scan(s) = Table(s)[0]
  BY DEF Scan, Table, Step, Nothing, Before

(* A frame before what the rest of the string gives.                       *)
LEMMA BeforeType ==
    ASSUME NEW f \in Frame, NEW r \in Result
    PROVE  /\ Before(f, r) \in Result
           /\ Before(f, r).frames = <<f>> \o r.frames /\ Before(f, r).rest = r.rest
  <1>1. r.frames \in Seq(Frame) /\ <<f>> \in Seq(Frame)
    BY DEF Result
  <1>2. <<f>> \o r.frames \in Seq(Frame)
    BY <1>1, ConcatProperties
  <1> DEFINE fs == <<f>> \o r.frames
  <1>3. Before(f, r) = [r EXCEPT !.frames = fs]
    BY DEF Before
  <1> HIDE DEF fs
  <1>4. fs \in Seq(Frame)
    BY <1>2 DEF fs
  <1>5. Before(f, r) \in Result /\ Before(f, r).frames = fs /\ Before(f, r).rest = r.rest
    BY <1>3, <1>4 DEF Result
  <1> QED
    BY <1>5 DEF fs

(* A string without a whole frame gives a result, too.                     *)
LEMMA NothingType ==
    ASSUME NEW s \in Seq(Byte), NEW i \in 0 .. Len(s)
    PROVE  Nothing(s, i) \in Result
  <1>1. Suffix(s, i) \in Seq(Byte) /\ <<>> \in Seq(Frame)
    BY SuffixParts
  <1> QED
    BY <1>1 DEF Nothing, Result

(* What a position looks up lies behind it.                                *)
LEMMA Onwards ==
    ASSUME NEW s \in Seq(Byte), NEW i \in 0 .. Len(s), HasHeader(s, i)
    PROVE  /\ i \in Nat /\ i + 1 \in i + 1 .. Len(s)
           /\ ~(Len(s) < EndAt(s, i)) => EndAt(s, i) \in i + 1 .. Len(s)
  <1>1. Len(s) \in Nat /\ i \in Nat
    BY LenProperties
  <1> QED
    BY <1>1, EndAtIs

(* An entry is a result when the later ones are.                           *)
LEMMA StepType ==
    ASSUME NEW s \in Seq(Byte), NEW i \in 0 .. Len(s), NEW g,
           \A j \in i + 1 .. Len(s) : g[j] \in Result
    PROVE  Step(s, g, i) \in Result
  <1>1. CASE ~HasHeader(s, i)
    BY <1>1, NothingType DEF Step
  <1>2. CASE HasHeader(s, i) /\ Unknown(s, i)
    BY <1>2, Onwards DEF Step
  <1>3. CASE HasHeader(s, i) /\ ~Unknown(s, i) /\ Len(s) < EndAt(s, i)
    BY <1>3, NothingType DEF Step
  <1>4. CASE HasHeader(s, i) /\ ~Unknown(s, i) /\ ~(Len(s) < EndAt(s, i))
    <2>1. EndAt(s, i) \in i + 1 .. Len(s) /\ i \in Nat
      BY <1>4, Onwards
    <2>2. EndAt(s, i) <= Len(s)
      BY <2>1
    <2>3. FrameAt(s, i, EndAt(s, i)) \in Frame /\ g[EndAt(s, i)] \in Result
      BY <1>4, <2>1, <2>2, FrameAtType
    <2> QED
      BY <1>4, <2>3, BeforeType DEF Step
  <1> QED
    BY <1>1, <1>2, <1>3, <1>4

(* An entry depends on later ones only.                                    *)
LEMMA StepLocal ==
    ASSUME NEW s \in Seq(Byte), NEW i \in 0 .. Len(s), NEW g, NEW h,
           \A j \in i + 1 .. Len(s) : g[j] = h[j]
    PROVE  Step(s, g, i) = Step(s, h, i)
  <1>1. CASE ~HasHeader(s, i)
    BY <1>1 DEF Step
  <1>2. CASE HasHeader(s, i)
    BY <1>2, Onwards DEF Step
  <1> QED
    BY <1>1, <1>2

(* The loop of push.                                                       *)
LEMMA TableIs ==
    ASSUME NEW s \in Seq(Byte)
    PROVE  \A i \in 0 .. Len(s) : Table(s)[i] = Step(s, Table(s), i)
  <1> DEFINE N == Len(s)
             F == [i \in 0 .. N |-> [g \in [0 .. N -> Result] |-> Step(s, g, i)]]
  <1>1. N \in Nat
    BY LenProperties
  <1>2. Result # {}
    <2>1. 0 \in 0 .. Len(s)
      BY <1>1
    <2> QED
      BY <2>1, NothingType
  <1>3. ASSUME NEW i \in 0 .. N, NEW g \in [0 .. N -> Result]
        PROVE  F[i][g] = Step(s, g, i) /\ Step(s, g, i) \in Result
    <2>1. \A j \in i + 1 .. Len(s) : g[j] \in Result
      <3>1. \A j \in i + 1 .. N : j \in 0 .. N
        BY <1>1
      <3> QED
        BY <3>1
    <2> QED
      BY <2>1, StepType
  <1>4. F \in [0 .. N -> [[0 .. N -> Result] -> Result]]
    <2>1. \A i \in 0 .. N :
             [g \in [0 .. N -> Result] |-> Step(s, g, i)] \in [[0 .. N -> Result] -> Result]
      BY <1>3
    <2> QED
      BY <2>1
  <1>5. ASSUME NEW i \in 0 .. N, NEW g \in [0 .. N -> Result], NEW h \in [0 .. N -> Result],
               \A j \in i + 1 .. N : g[j] = h[j]
        PROVE  F[i][g] = F[i][h]
    BY <1>3, <1>5, StepLocal
  <1> HIDE DEF F
  <1>6. PICK g \in [0 .. N -> Result] : \A i \in 0 .. N : g[i] = F[i][g]
    <2>1. FromLater(F, N, Result)
      BY <1>4, <1>5 DEF FromLater
    <2> HIDE DEF N
    <2>2. Computes(F, N, Result)
      BY <1>1, <1>2, <2>1, TableExists
    <2> QED
      BY <2>2 DEF Computes
  <1>7. g = [i \in 0 .. Len(s) |-> Step(s, g, i)]
    <2>1. \A i \in 0 .. N : g[i] = Step(s, g, i)
      BY <1>3, <1>6
    <2>2. g = [i \in 0 .. N |-> g[i]]
      OBVIOUS
    <2> QED
      BY <2>1, <2>2
  <1>8. Table(s) = [i \in 0 .. Len(s) |-> Step(s, Table(s), i)]
    BY <1>7 DEF Table
  <1> QED
    BY <1>8

------------------------------------------------------------------------------
(* The loop looks only ahead: what it makes of a string from a position on *)
(* is what it makes of the rest of the string.                             *)

(* Positions in a suffix.                                                  *)
LEMMA SuffixOfSuffix ==
    ASSUME NEW s \in Seq(Byte), NEW i \in 0 .. Len(s), NEW j \in 0 .. Len(s) - i
    PROVE  Suffix(Suffix(s, i), j) = Suffix(s, i + j)
  <1> DEFINE t == Suffix(s, i)
             u == Suffix(t, j)
             v == Suffix(s, i + j)
  <1>1. /\ Len(s) \in Nat /\ t \in Seq(Byte) /\ Len(t) = Len(s) - i
        /\ \A x \in 1 .. Len(s) - i : t[x] = s[i + x]
    BY SuffixParts
  <1>2. i \in Nat /\ j \in Nat /\ i + j \in 0 .. Len(s) /\ j \in 0 .. Len(t)
    BY <1>1
  <1> HIDE DEF t
  <1>3. /\ u \in Seq(Byte) /\ Len(u) = Len(t) - j
        /\ \A x \in 1 .. Len(t) - j : u[x] = t[j + x]
    BY <1>1, <1>2, SuffixParts
  <1>4. /\ v \in Seq(Byte) /\ Len(v) = Len(s) - (i + j)
        /\ \A x \in 1 .. Len(s) - (i + j) : v[x] = s[i + j + x]
    BY <1>2, SuffixParts
  <1> HIDE DEF u, v
  <1>5. Len(u) = Len(v)
    BY <1>1, <1>2, <1>3, <1>4
  <1>6. ASSUME NEW x \in 1 .. Len(u) PROVE u[x] = v[x]
    <2>1. /\ x \in 1 .. Len(t) - j /\ j + x \in 1 .. Len(s) - i
          /\ x \in 1 .. Len(s) - (i + j) /\ i + (j + x) = i + j + x
      BY <1>1, <1>2, <1>3
    <2> QED
      BY <1>1, <1>3, <1>4, <2>1
  <1>7. u = v
    BY <1>3, <1>4, <1>5, <1>6, SeqEqual
  <1> QED
    BY <1>7 DEF t, u, v

(* Two strings that agree from a position of each on, for n bytes.         *)
Agree(s, i, t, j, n) == \A x \in 1 .. n : s[i + x] = t[j + x]

(* Five equal bytes are the same header.                                   *)
LEMMA AgreeHeader ==
    ASSUME NEW s \in Seq(Byte), NEW i \in Nat, HasHeader(s, i),
           NEW t \in Seq(Byte), NEW j \in Nat, HasHeader(t, j),
           Agree(s, i, t, j, 5)
    PROVE  /\ Unknown(s, i) = Unknown(t, j)
           /\ EndAt(s, i) - i = EndAt(t, j) - j
           /\ s[i + 1] = t[j + 1]
  <1>1. /\ s[i + 1] = t[j + 1] /\ s[i + 2] = t[j + 2] /\ s[i + 3] = t[j + 3]
        /\ s[i + 4] = t[j + 4] /\ s[i + 5] = t[j + 5]
    <2>1. 1 \in 1 .. 5 /\ 2 \in 1 .. 5 /\ 3 \in 1 .. 5 /\ 4 \in 1 .. 5 /\ 5 \in 1 .. 5
      OBVIOUS
    <2> QED
      BY <2>1 DEF Agree
  <1> DEFINE d == Digits(s[i + 2], s[i + 3], s[i + 4], s[i + 5])
  <1>2. d = Digits(t[j + 2], t[j + 3], t[j + 4], t[j + 5])
    BY <1>1
  <1> HIDE DEF d
  <1>3. EndAt(s, i) = i + 5 + d /\ EndAt(s, i) \in Nat
    BY EndAtIs DEF d
  <1>4. EndAt(t, j) = j + 5 + d /\ EndAt(t, j) \in Nat
    BY <1>2, EndAtIs
  <1>5. d \in Nat
    <2>1. d \in Nat
      <3>1. \A x \in 1 .. Len(s) : s[x] \in Byte
        BY ElementOfSeq
      <3>2. /\ i + 2 \in 1 .. Len(s) /\ i + 3 \in 1 .. Len(s)
            /\ i + 4 \in 1 .. Len(s) /\ i + 5 \in 1 .. Len(s)
        BY EndAtIs
      <3> QED
        BY <3>1, <3>2, DigitsType DEF d
    <2> QED
      BY <2>1
  <1> QED
    BY <1>1, <1>3, <1>4, <1>5 DEF Unknown

(* Equal bytes are the same frame.                                         *)
LEMMA AgreeFrame ==
    ASSUME NEW s \in Seq(Byte), NEW i \in Nat, HasHeader(s, i), EndAt(s, i) <= Len(s),
           NEW t \in Seq(Byte), NEW j \in Nat, HasHeader(t, j), EndAt(t, j) <= Len(t),
           Agree(s, i, t, j, EndAt(s, i) - i)
    PROVE  FrameAt(s, i, EndAt(s, i)) = FrameAt(t, j, EndAt(t, j))
  <1>1. /\ EndAt(s, i) \in Nat /\ EndAt(s, i) >= i + 5
        /\ EndAt(t, j) \in Nat /\ EndAt(t, j) >= j + 5
    BY EndAtIs
  <1>2. Agree(s, i, t, j, 5)
    <2>1. \A x \in 1 .. 5 : x \in 1 .. EndAt(s, i) - i
      BY <1>1
    <2> QED
      BY <2>1 DEF Agree
  <1>3. EndAt(s, i) - i = EndAt(t, j) - j /\ s[i + 1] = t[j + 1]
    BY <1>2, AgreeHeader
  <1> DEFINE m == i + HeaderSize + 1
             e == EndAt(s, i)
             n == j + HeaderSize + 1
             f == EndAt(t, j)
  <1>4. /\ m \in Nat \ {0} /\ e \in Nat /\ m - 1 <= e /\ e <= Len(s)
        /\ n \in Nat \ {0} /\ f \in Nat /\ n - 1 <= f /\ f <= Len(t)
        /\ e - m + 1 = f - n + 1 /\ m = i + 6 /\ n = j + 6 /\ e - i = f - j
    BY <1>1, <1>3 DEF HeaderSize
  <1>5. /\ FrameAt(s, i, e) = [type |-> s[i + 1], payload |-> SubSeq(s, m, e)]
        /\ FrameAt(t, j, f) = [type |-> t[j + 1], payload |-> SubSeq(t, n, f)]
    BY DEF FrameAt
  <1>6. Agree(s, i, t, j, e - i)
    OBVIOUS
  <1> HIDE DEF m, e, n, f
  <1>7. /\ SubSeq(s, m, e) \in Seq(Byte) /\ Len(SubSeq(s, m, e)) = e - m + 1
        /\ \A x \in 1 .. e - m + 1 : SubSeq(s, m, e)[x] = s[m + x - 1]
    BY <1>4, PieceParts
  <1>8. /\ SubSeq(t, n, f) \in Seq(Byte) /\ Len(SubSeq(t, n, f)) = f - n + 1
        /\ \A x \in 1 .. f - n + 1 : SubSeq(t, n, f)[x] = t[n + x - 1]
    BY <1>4, PieceParts
  <1>9. ASSUME NEW x \in 1 .. e - m + 1
        PROVE  SubSeq(s, m, e)[x] = SubSeq(t, n, f)[x]
    <2>1. /\ x + 5 \in 1 .. e - i /\ m + x - 1 = i + (x + 5) /\ n + x - 1 = j + (x + 5)
          /\ x \in 1 .. f - n + 1
      BY <1>4
    <2>2. s[i + (x + 5)] = t[j + (x + 5)]
      BY <1>6, <2>1 DEF Agree
    <2> QED
      BY <1>7, <1>8, <2>1, <2>2
  <1>10. SubSeq(s, m, e) = SubSeq(t, n, f)
    <2> DEFINE a == SubSeq(s, m, e)
               b == SubSeq(t, n, f)
    <2>1. /\ a \in Seq(Byte) /\ b \in Seq(Byte) /\ Len(a) = Len(b)
          /\ \A x \in 1 .. Len(a) : a[x] = b[x]
      BY <1>4, <1>7, <1>8, <1>9
    <2> HIDE DEF a, b
    <2>2. a = b
      BY <2>1, SeqEqual
    <2> QED
      BY <2>2 DEF a, b
  <1>11. FrameAt(s, i, e) = FrameAt(t, j, f)
    BY <1>3, <1>5, <1>10
  <1> QED
    BY <1>11 DEF e, f

(* One step of the loop, in a string and in its rest.                      *)
LEMMA StepShift ==
    ASSUME NEW s \in Seq(Byte), NEW i \in 0 .. Len(s), NEW t, t = Suffix(s, i),
           NEW j \in 0 .. Len(t),
           \A k \in j + 1 .. Len(t) : Table(t)[k] = Table(s)[i + k]
    PROVE  Table(t)[j] = Table(s)[i + j]
  <1>1. /\ Len(s) \in Nat /\ t \in Seq(Byte) /\ Len(t) = Len(s) - i
        /\ \A x \in 1 .. Len(s) - i : t[x] = s[i + x]
    BY SuffixParts
  <1>2. PICK p : p = i + j
    OBVIOUS
  <1>3. i \in Nat /\ j \in Nat /\ p \in Nat /\ p \in 0 .. Len(s)
    BY <1>1, <1>2
  <1>4. Table(t)[j] = Step(t, Table(t), j) /\ Table(s)[p] = Step(s, Table(s), p)
    BY <1>1, <1>3, TableIs
  <1>5. HasHeader(t, j) = HasHeader(s, p)
    <2>1. Len(t) - j = Len(s) - p
      BY <1>1, <1>2, <1>3
    <2> QED
      BY <2>1 DEF HasHeader
  <1>6. Nothing(t, j) = Nothing(s, p)
    <2>1. j \in 0 .. Len(s) - i
      BY <1>1
    <2> QED
      BY <1>2, <2>1, SuffixOfSuffix DEF Nothing
  <1>7. ASSUME NEW n \in Nat, j + n <= Len(t) PROVE Agree(s, p, t, j, n)
    <2>1. ASSUME NEW x \in 1 .. n PROVE s[p + x] = t[j + x]
      <3>1. j + x \in 1 .. Len(s) - i /\ i + (j + x) = p + x
        BY <1>1, <1>2, <1>3, <1>7
      <3> QED
        BY <1>1, <3>1
    <2> QED
      BY <2>1 DEF Agree
  <1>8. CASE ~HasHeader(t, j)
    BY <1>2, <1>4, <1>5, <1>6, <1>8 DEF Step
  <1>9. CASE HasHeader(t, j)
    <2>0. /\ s \in Seq(Byte) /\ p \in Nat /\ HasHeader(s, p)
          /\ t \in Seq(Byte) /\ j \in Nat /\ HasHeader(t, j)
      BY <1>1, <1>3, <1>5, <1>9
    <2>1. /\ EndAt(t, j) \in Nat /\ EndAt(t, j) >= j + 5 /\ j + 5 <= Len(t)
          /\ EndAt(s, p) \in Nat /\ Len(t) \in Nat
      BY <1>1, <1>3, <1>5, <1>9, EndAtIs
    <2>2. Unknown(s, p) = Unknown(t, j) /\ EndAt(s, p) - p = EndAt(t, j) - j
      <3>1. Agree(s, p, t, j, 5)
        BY <1>7, <2>1
      <3> QED
        BY ONLY <2>0, <3>1, AgreeHeader
    <2>3. EndAt(s, p) = i + EndAt(t, j)
      <3>1. ASSUME NEW a \in Nat, NEW b \in Nat, a - p = b - j PROVE a = i + b
        BY <1>2, <1>3, <3>1
      <3> QED
        BY <2>1, <2>2, <3>1
    <2>4. (Len(t) < EndAt(t, j)) = (Len(s) < EndAt(s, p))
      BY <1>1, <1>3, <2>1, <2>3
    <2>5. CASE Unknown(t, j)
      <3>1. j + 1 \in j + 1 .. Len(t) /\ i + (j + 1) = p + 1
        BY <1>2, <1>3, <2>1
      <3>2. Table(t)[j + 1] = Table(s)[p + 1]
        BY <3>1
      <3> QED
        BY <1>2, <1>4, <1>5, <1>9, <2>2, <2>5, <3>2 DEF Step
    <2>6. CASE ~Unknown(t, j) /\ Len(t) < EndAt(t, j)
      BY <1>2, <1>4, <1>5, <1>6, <1>9, <2>2, <2>4, <2>6 DEF Step
    <2>7. CASE ~Unknown(t, j) /\ ~(Len(t) < EndAt(t, j))
      <3>1. EndAt(t, j) \in j + 1 .. Len(t) /\ EndAt(t, j) <= Len(t)
        BY <1>3, <2>1, <2>7
      <3>2. Table(t)[EndAt(t, j)] = Table(s)[EndAt(s, p)]
        BY <2>3, <3>1
      <3>3. EndAt(s, p) <= Len(s)
        BY <1>1, <1>3, <2>1, <2>3, <3>1
      <3>4. Agree(s, p, t, j, EndAt(s, p) - p)
        <4>1. EndAt(t, j) - j \in Nat /\ j + (EndAt(t, j) - j) <= Len(t)
          BY <1>3, <2>1, <3>1
        <4> QED
          BY <1>7, <2>2, <4>1
      <3>5. FrameAt(s, p, EndAt(s, p)) = FrameAt(t, j, EndAt(t, j))
        BY ONLY <2>0, <3>1, <3>3, <3>4, AgreeFrame
      <3> QED
        BY <1>2, <1>4, <1>5, <1>9, <2>2, <2>4, <2>7, <3>2, <3>5 DEF Step
    <2> QED
      BY <2>5, <2>6, <2>7
  <1> QED
    BY <1>8, <1>9

(* The table at a position is the scan of what follows it.                 *)
LEMMA TableShift ==
    ASSUME NEW s \in Seq(Byte), NEW i \in 0 .. Len(s)
    PROVE  Table(s)[i] = Scan(Suffix(s, i))
  <1> DEFINE t == Suffix(s, i)
             Same(k) == \A j \in 0 .. Len(t) : Len(t) - j = k => Table(t)[j] = Table(s)[i + j]
             S == {k \in Nat : Same(k)}
  <1>1. Len(t) \in Nat /\ i \in Nat
    BY SuffixParts, LenProperties
  <1>2. ASSUME NEW n \in Nat, \A m \in Nat : m < n => m \in S
        PROVE  n \in S
    <2> SUFFICES ASSUME NEW j \in 0 .. Len(t), Len(t) - j = n
                 PROVE  Table(t)[j] = Table(s)[i + j]
      OBVIOUS
    <2>1. ASSUME NEW k \in j + 1 .. Len(t) PROVE Table(t)[k] = Table(s)[i + k]
      <3>1. Len(t) - k \in Nat /\ Len(t) - k < n /\ k \in 0 .. Len(t)
        BY <1>1
      <3>2. Same(Len(t) - k)
        BY <1>2, <3>1
      <3> QED
        BY <3>1, <3>2
    <2> HIDE DEF Same
    <2> QED
      BY <2>1, StepShift
  <1>3. Len(t) \in S
    <2> HIDE DEF S
    <2> QED
      BY <1>1, <1>2, Descent
  <1>4. 0 \in 0 .. Len(t) /\ Len(t) - 0 = Len(t) /\ i + 0 = i
    BY <1>1
  <1>5. Table(t)[0] = Table(s)[i]
    <2>1. Same(Len(t))
      BY <1>3
    <2> HIDE DEF t
    <2> QED
      BY <1>4, <2>1
  <1> QED
    BY <1>5, ScanTable

(* The loop, by the beginning of the string.                               *)
LEMMA ScanIs ==
    ASSUME NEW s \in Seq(Byte)
    PROVE  /\ ~HasHeader(s, 0) => Scan(s) = [frames |-> <<>>, rest |-> s]
           /\ HasHeader(s, 0) /\ Unknown(s, 0) => Scan(s) = Scan(Suffix(s, 1))
           /\ HasHeader(s, 0) /\ ~Unknown(s, 0) /\ Len(s) < EndAt(s, 0) =>
                 Scan(s) = [frames |-> <<>>, rest |-> s]
           /\ HasHeader(s, 0) /\ ~Unknown(s, 0) /\ EndAt(s, 0) <= Len(s) =>
                 Scan(s) = Before(FrameAt(s, 0, EndAt(s, 0)), Scan(Suffix(s, EndAt(s, 0))))
  <1>1. Len(s) \in Nat /\ 0 \in 0 .. Len(s)
    BY LenProperties
  <1>2. Scan(s) = Step(s, Table(s), 0)
    BY <1>1, ScanTable, TableIs
  <1>3. Nothing(s, 0) = [frames |-> <<>>, rest |-> s]
    <2>1. 0 + 1 = 1
      OBVIOUS
    <2>2. SubSeq(s, 1, Len(s)) = s
      BY SubSeqFull
    <2> QED
      BY <2>1, <2>2 DEF Nothing, Suffix
  <1>4. ASSUME HasHeader(s, 0)
        PROVE  /\ Table(s)[0 + 1] = Scan(Suffix(s, 1))
               /\ EndAt(s, 0) <= Len(s) =>
                     Table(s)[EndAt(s, 0)] = Scan(Suffix(s, EndAt(s, 0)))
    <2>1. /\ EndAt(s, 0) \in Nat /\ 0 + 5 <= Len(s) /\ 1 \in 0 .. Len(s) /\ 0 + 1 = 1
          /\ EndAt(s, 0) <= Len(s) => EndAt(s, 0) \in 0 .. Len(s)
      BY <1>1, <1>4, EndAtIs
    <2> QED
      BY <2>1, TableShift
  <1>5. HasHeader(s, 0) => EndAt(s, 0) \in Nat
    BY EndAtIs
  <1>6. HasHeader(s, 0) /\ EndAt(s, 0) <= Len(s) => ~(Len(s) < EndAt(s, 0))
    BY <1>1, <1>5
  <1> QED
    BY <1>2, <1>3, <1>4, <1>6 DEF Step

------------------------------------------------------------------------------
(* Two pushes are one.                                                     *)

(* What is behind a position that the loop goes on with is shorter.        *)
LEMMA Shorter ==
    ASSUME NEW s \in Seq(Byte), HasHeader(s, 0)
    PROVE  /\ Suffix(s, 1) \in Seq(Byte) /\ Len(Suffix(s, 1)) \in Nat
           /\ Len(Suffix(s, 1)) < Len(s) /\ 1 \in 0 .. Len(s)
           /\ EndAt(s, 0) <= Len(s) =>
                 /\ Suffix(s, EndAt(s, 0)) \in Seq(Byte)
                 /\ Len(Suffix(s, EndAt(s, 0))) \in Nat
                 /\ Len(Suffix(s, EndAt(s, 0))) < Len(s)
                 /\ EndAt(s, 0) \in 0 .. Len(s)
  <1>1. /\ EndAt(s, 0) \in Nat /\ EndAt(s, 0) >= 0 + 5
        /\ Len(s) \in Nat /\ 0 + 5 <= Len(s)
    BY EndAtIs
  <1>2. 1 \in 0 .. Len(s)
    BY <1>1
  <1>3. Suffix(s, 1) \in Seq(Byte) /\ Len(Suffix(s, 1)) = Len(s) - 1
    BY <1>2, SuffixParts
  <1>4. ASSUME EndAt(s, 0) <= Len(s)
        PROVE  /\ EndAt(s, 0) \in 0 .. Len(s)
               /\ Suffix(s, EndAt(s, 0)) \in Seq(Byte)
               /\ Len(Suffix(s, EndAt(s, 0))) = Len(s) - EndAt(s, 0)
    <2>1. EndAt(s, 0) \in 0 .. Len(s)
      BY <1>1, <1>4
    <2> QED
      BY <2>1, SuffixParts
  <1> QED
    BY <1>1, <1>2, <1>3, <1>4

(* push returns frames and keeps bytes.                                    *)
LEMMA ScanType ==
    ASSUME NEW s \in Seq(Byte)
    PROVE  Scan(s) \in Result
  <1> DEFINE S == {n \in Nat : \A b \in Seq(Byte) : Len(b) = n => Scan(b) \in Result}
  <1>1. ASSUME NEW n \in Nat, \A m \in Nat : m < n => m \in S
        PROVE  n \in S
    <2> SUFFICES ASSUME NEW b \in Seq(Byte), Len(b) = n PROVE Scan(b) \in Result
      OBVIOUS
    <2>1. ASSUME NEW c \in Seq(Byte), Len(c) \in Nat, Len(c) < Len(b)
          PROVE  Scan(c) \in Result
      BY <1>1, <2>1
    <2>2. CASE Scan(b) = [frames |-> <<>>, rest |-> b]
      BY <2>2 DEF Result
    <2>3. CASE HasHeader(b, 0) /\ Unknown(b, 0)
      BY <2>1, <2>3, Shorter, ScanIs
    <2>4. CASE HasHeader(b, 0) /\ ~Unknown(b, 0) /\ EndAt(b, 0) <= Len(b)
      <3>1. FrameAt(b, 0, EndAt(b, 0)) \in Frame
        BY <2>4, FrameAtType
      <3>2. Scan(Suffix(b, EndAt(b, 0))) \in Result
        BY <2>1, <2>4, Shorter
      <3> QED
        BY <2>4, <3>1, <3>2, ScanIs, BeforeType
    <2>5. HasHeader(b, 0) => Len(b) < EndAt(b, 0) \/ EndAt(b, 0) <= Len(b)
      BY EndAtIs
    <2> QED
      BY <2>2, <2>3, <2>4, <2>5, ScanIs
  <1>2. Len(s) \in S
    <2> HIDE DEF S
    <2> QED
      BY <1>1, Descent, LenProperties
  <1> QED
    BY <1>2

(* More bytes at the end of a string are at the end of its suffixes.       *)
LEMMA SuffixOfConcat ==
    ASSUME NEW s \in Seq(Byte), NEW c \in Seq(Byte), NEW i \in 0 .. Len(s)
    PROVE  Suffix(s \o c, i) = Suffix(s, i) \o c
  <1> DEFINE t == s \o c
             u == Suffix(t, i)
             r == Suffix(s, i)
             v == r \o c
  <1>1. Len(s) \in Nat /\ Len(c) \in Nat /\ i \in Nat
    BY LenProperties
  <1>2. /\ t \in Seq(Byte) /\ Len(t) = Len(s) + Len(c)
        /\ \A x \in 1 .. Len(s) + Len(c) : t[x] = IF x <= Len(s) THEN s[x] ELSE c[x - Len(s)]
    BY ConcatProperties
  <1>3. i \in 0 .. Len(t)
    BY <1>1, <1>2
  <1> HIDE DEF t
  <1>4. /\ u \in Seq(Byte) /\ Len(u) = Len(t) - i
        /\ \A x \in 1 .. Len(t) - i : u[x] = t[i + x]
    BY <1>2, <1>3, SuffixParts
  <1>5. /\ r \in Seq(Byte) /\ Len(r) = Len(s) - i
        /\ \A x \in 1 .. Len(s) - i : r[x] = s[i + x]
    BY SuffixParts
  <1> HIDE DEF u, r
  <1>6. /\ v \in Seq(Byte) /\ Len(v) = Len(r) + Len(c)
        /\ \A x \in 1 .. Len(r) + Len(c) : v[x] = IF x <= Len(r) THEN r[x] ELSE c[x - Len(r)]
    BY <1>5, ConcatProperties
  <1> HIDE DEF v
  <1>7. Len(u) = Len(v)
    BY <1>1, <1>2, <1>4, <1>5, <1>6
  <1>8. ASSUME NEW x \in 1 .. Len(u) PROVE u[x] = v[x]
    <2>1. /\ x \in 1 .. Len(t) - i /\ i + x \in 1 .. Len(s) + Len(c)
          /\ x \in 1 .. Len(r) + Len(c)
      BY <1>1, <1>2, <1>4, <1>5
    <2>2. CASE x <= Len(r)
      <3>1. x \in 1 .. Len(s) - i /\ i + x <= Len(s)
        BY <1>1, <1>5, <2>1, <2>2
      <3> QED
        BY <1>2, <1>4, <1>5, <1>6, <2>1, <2>2, <3>1
    <2>3. CASE ~(x <= Len(r))
      <3>1. ~(i + x <= Len(s)) /\ (i + x) - Len(s) = x - Len(r)
        BY <1>1, <1>5, <2>1, <2>3
      <3> QED
        BY <1>2, <1>4, <1>6, <2>1, <2>3, <3>1
    <2> QED
      BY <2>2, <2>3
  <1>9. u = v
    BY <1>4, <1>6, <1>7, <1>8, SeqEqual
  <1> QED
    BY <1>9 DEF u, v, t, r

(* More bytes change nothing about a header that is there, or a frame.     *)
LEMMA StillThere ==
    ASSUME NEW s \in Seq(Byte), NEW c \in Seq(Byte), HasHeader(s, 0)
    PROVE  /\ s \o c \in Seq(Byte) /\ HasHeader(s \o c, 0)
           /\ Unknown(s \o c, 0) = Unknown(s, 0) /\ EndAt(s \o c, 0) = EndAt(s, 0)
           /\ EndAt(s, 0) <= Len(s) =>
                 /\ EndAt(s \o c, 0) <= Len(s \o c)
                 /\ FrameAt(s \o c, 0, EndAt(s, 0)) = FrameAt(s, 0, EndAt(s, 0))
  <1> DEFINE t == s \o c
  <1>1. /\ t \in Seq(Byte) /\ Len(t) = Len(s) + Len(c) /\ Len(s) \in Nat /\ Len(c) \in Nat
        /\ \A x \in 1 .. Len(s) + Len(c) : t[x] = IF x <= Len(s) THEN s[x] ELSE c[x - Len(s)]
    BY ConcatProperties, LenProperties
  <1> HIDE DEF t
  <1>2. \A n \in Nat : n <= Len(s) => Agree(s, 0, t, 0, n)
    <2> SUFFICES ASSUME NEW n \in Nat, n <= Len(s), NEW x \in 1 .. n
                 PROVE  s[0 + x] = t[0 + x]
      BY DEF Agree
    <2>1. 0 + x = x /\ x \in 1 .. Len(s) + Len(c) /\ x <= Len(s)
      BY <1>1
    <2> QED
      BY <1>1, <2>1
  <1>3. /\ EndAt(s, 0) \in Nat /\ 0 + 5 <= Len(s)
    BY EndAtIs
  <1>4. HasHeader(t, 0)
    <2>1. Len(t) - 0 >= 5
      BY <1>1, <1>3
    <2> QED
      BY <2>1 DEF HasHeader, HeaderSize
  <1>5. EndAt(t, 0) \in Nat
    BY <1>1, <1>4, EndAtIs
  <1>6. Unknown(t, 0) = Unknown(s, 0) /\ EndAt(t, 0) = EndAt(s, 0)
    <2>1. Agree(s, 0, t, 0, 5)
      BY <1>1, <1>2, <1>3
    <2>2. Unknown(s, 0) = Unknown(t, 0) /\ EndAt(s, 0) - 0 = EndAt(t, 0) - 0
      BY <1>1, <1>4, <2>1, AgreeHeader
    <2>3. EndAt(t, 0) = EndAt(s, 0)
      BY <1>3, <1>5, <2>2
    <2> QED
      BY <2>2, <2>3
  <1>7. ASSUME EndAt(s, 0) <= Len(s)
        PROVE  /\ EndAt(t, 0) <= Len(t)
               /\ FrameAt(t, 0, EndAt(s, 0)) = FrameAt(s, 0, EndAt(s, 0))
    <2>1. EndAt(t, 0) <= Len(t)
      BY <1>1, <1>3, <1>6, <1>7
    <2>2. EndAt(s, 0) - 0 \in Nat /\ EndAt(s, 0) - 0 <= Len(s)
      BY <1>3, <1>7
    <2>3. Agree(s, 0, t, 0, EndAt(s, 0) - 0)
      BY <1>2, <2>2
    <2>4. 0 \in Nat /\ t \in Seq(Byte)
      BY <1>1
    <2>5. FrameAt(s, 0, EndAt(s, 0)) = FrameAt(t, 0, EndAt(t, 0))
      BY <1>4, <1>7, <2>1, <2>3, <2>4, AgreeFrame, Zenon
    <2> QED
      BY <1>6, <2>1, <2>5
  <1> QED
    BY <1>1, <1>4, <1>6, <1>7 DEF t

(* Frames in three parts.                                                  *)
LEMMA InThree ==
    ASSUME NEW p \in Seq(Frame), NEW q \in Seq(Frame), NEW r \in Seq(Frame)
    PROVE  p \o (q \o r) = (p \o q) \o r
  BY ConcatAssociative

(* To push bytes at once is to push them in two parts: the frames of the   *)
(* first come before those that its rest and the second make.              *)
Parts(s, c) ==
    /\ Scan(s \o c).frames = Scan(s).frames \o Scan(Scan(s).rest \o c).frames
    /\ Scan(s \o c).rest = Scan(Scan(s).rest \o c).rest

(* Where the string is cut makes no difference.                            *)
LEMMA PushedInParts ==
    ASSUME NEW s \in Seq(Byte), NEW c \in Seq(Byte)
    PROVE  Parts(s, c)
  <1> DEFINE S == {n \in Nat : \A b \in Seq(Byte) : Len(b) = n => Parts(b, c)}
  <1>1. ASSUME NEW n \in Nat, \A m \in Nat : m < n => m \in S
        PROVE  n \in S
    <2> SUFFICES ASSUME NEW b \in Seq(Byte), Len(b) = n PROVE Parts(b, c)
      OBVIOUS
    <2>1. ASSUME NEW d \in Seq(Byte), Len(d) \in Nat, Len(d) < Len(b)
          PROVE  Parts(d, c)
      BY <1>1, <2>1
    <2>2. b \o c \in Seq(Byte)
      BY ConcatProperties
    <2>3. CASE Scan(b) = [frames |-> <<>>, rest |-> b]
      <3>1. Scan(b \o c).frames \in Seq(Frame)
        BY <2>2, ScanType DEF Result
      <3>2. <<>> \o Scan(b \o c).frames = Scan(b \o c).frames
        BY <3>1, ConcatEmptySeq
      <3>3. Scan(b).frames = <<>> /\ Scan(b).rest = b
        BY <2>3
      <3> QED
        BY <3>2, <3>3, Zenon DEF Parts
    <2>4. CASE HasHeader(b, 0) /\ Unknown(b, 0)
      <3>1. Scan(b) = Scan(Suffix(b, 1))
        BY <2>4, ScanIs
      <3>2. Scan(b \o c) = Scan(Suffix(b, 1) \o c)
        <4>1. Scan(b \o c) = Scan(Suffix(b \o c, 1))
          BY <2>2, <2>4, StillThere, ScanIs
        <4> QED
          BY <2>4, <4>1, Shorter, SuffixOfConcat
      <3>3. Parts(Suffix(b, 1), c)
        BY <2>1, <2>4, Shorter
      <3> QED
        BY <3>1, <3>2, <3>3 DEF Parts
    <2>5. CASE HasHeader(b, 0) /\ ~Unknown(b, 0) /\ EndAt(b, 0) <= Len(b)
      <3> DEFINE e == EndAt(b, 0)
                 f == FrameAt(b, 0, e)
                 d == Suffix(b, e)
      <3>1. /\ d \in Seq(Byte) /\ Len(d) \in Nat /\ Len(d) < Len(b) /\ e \in 0 .. Len(b)
            /\ f \in Frame
        BY <2>5, Shorter, FrameAtType
      <3>2. Scan(b) = Before(f, Scan(d))
        BY <2>5, ScanIs
      <3>3. Scan(b \o c) = Before(f, Scan(d \o c))
        <4>1. /\ HasHeader(b \o c, 0) /\ ~Unknown(b \o c, 0)
              /\ EndAt(b \o c, 0) = e /\ EndAt(b \o c, 0) <= Len(b \o c)
              /\ FrameAt(b \o c, 0, e) = f
          BY <2>5, StillThere
        <4>2. Scan(b \o c) = Before(f, Scan(Suffix(b \o c, e)))
          BY <2>2, <4>1, ScanIs
        <4> QED
          BY <3>1, <4>2, SuffixOfConcat
      <3>4. Parts(d, c)
        BY <2>1, <3>1
      <3> HIDE DEF d, f, e
      <3>5. Scan(d) \in Result /\ Scan(d \o c) \in Result /\ Scan(Scan(d).rest \o c) \in Result
        <4>1. Scan(d) \in Result /\ d \o c \in Seq(Byte)
          BY <3>1, ScanType, ConcatProperties
        <4>2. Scan(d).rest \o c \in Seq(Byte)
          <5>1. Scan(d).rest \in Seq(Byte)
            BY <4>1 DEF Result
          <5> QED
            BY <5>1, ConcatProperties
        <4> QED
          BY <4>1, <4>2, ScanType
      <3>6. /\ Scan(b).frames = <<f>> \o Scan(d).frames /\ Scan(b).rest = Scan(d).rest
            /\ Scan(b \o c).frames = <<f>> \o Scan(d \o c).frames
            /\ Scan(b \o c).rest = Scan(d \o c).rest
        BY <3>1, <3>2, <3>3, <3>5, BeforeType
      <3>7. <<f>> \o (Scan(d).frames \o Scan(Scan(d).rest \o c).frames)
               = (<<f>> \o Scan(d).frames) \o Scan(Scan(d).rest \o c).frames
        <4>1. /\ <<f>> \in Seq(Frame) /\ Scan(d).frames \in Seq(Frame)
              /\ Scan(Scan(d).rest \o c).frames \in Seq(Frame)
          BY <3>1, <3>5 DEF Result
        <4> QED
          BY ONLY <4>1, InThree, Zenon
      <3> QED
        BY <3>4, <3>6, <3>7 DEF Parts
    <2>6. HasHeader(b, 0) => Len(b) < EndAt(b, 0) \/ EndAt(b, 0) <= Len(b)
      BY EndAtIs
    <2> QED
      BY <2>3, <2>4, <2>5, <2>6, ScanIs
  <1>2. Len(s) \in S
    <2> HIDE DEF S
    <2> QED
      BY <1>1, Descent, LenProperties
  <1> QED
    BY <1>2

------------------------------------------------------------------------------
(* Nothing is found in nothing.                                            *)
LEMMA ScanNothing ==
    /\ <<>> \in Seq(Byte)
    /\ Scan(<<>>).frames = <<>> /\ Scan(<<>>).rest = <<>>
  <1>1. <<>> \in Seq(Byte) /\ Len(<<>>) = 0
    BY EmptySeq
  <1>2. ~HasHeader(<<>>, 0)
    BY <1>1 DEF HasHeader, HeaderSize
  <1>3. Scan(<<>>) = [frames |-> <<>>, rest |-> <<>>]
    BY <1>1, <1>2, ScanIs
  <1> QED
    BY <1>1, <1>3

ChunkInv ==
    /\ wire \in Seq(Byte) /\ pushed \in Seq(Byte)
    /\ ChunkingIrrelevant

(* Nothing has been pushed at the start.                                   *)
LEMMA ChunkInit == Init => ChunkInv
  BY ScanNothing DEF Init, ChunkInv, ChunkingIrrelevant

(* A "data" event, for any number of bytes.                                *)
LEMMA PushStep ==
    ASSUME ChunkInv, NEW n \in 1 .. Len(wire), Push(n)
    PROVE  ChunkInv' /\ pushed' \o wire' = pushed \o wire
  <1> DEFINE c == SubSeq(wire, 1, n)
             d == SubSeq(wire, n + 1, Len(wire))
  <1>1. wire \in Seq(Byte) /\ pushed \in Seq(Byte)
    BY DEF ChunkInv
  <1>2. n \in 0 .. Len(wire)
    BY <1>1, LenProperties
  <1>3. c \in Seq(Byte) /\ d \in Seq(Byte) /\ wire = c \o d
    BY <1>1, <1>2, Piece
  <1>4. /\ frames = Scan(pushed).frames /\ buffer = Scan(pushed).rest
    BY DEF ChunkInv, ChunkingIrrelevant
  <1>5. /\ frames' = frames \o Scan(buffer \o c).frames
        /\ buffer' = Scan(buffer \o c).rest
        /\ pushed' = pushed \o c /\ wire' = d
    BY DEF Push
  <1> HIDE DEF c, d
  <1>6. Parts(pushed, c)
    BY <1>1, <1>3, PushedInParts
  <1>7. frames' = Scan(pushed').frames /\ buffer' = Scan(pushed').rest
    BY <1>4, <1>5, <1>6 DEF Parts
  <1>8. pushed' \in Seq(Byte) /\ wire' \in Seq(Byte)
    BY <1>1, <1>3, <1>5, ConcatProperties
  <1>9. (pushed \o c) \o d = pushed \o (c \o d)
    BY <1>1, <1>3, Regroup
  <1> QED
    BY <1>3, <1>5, <1>7, <1>8, <1>9 DEF ChunkInv, ChunkingIrrelevant

(* A message of the server is a frame, and can be sent as one.             *)
LEMMA MessageSendable ==
    ASSUME NEW m \in Message
    PROVE  m \in Sendable /\ Fits(m) /\ m \in Frame
  BY ParserAssumption, ServerAssumption DEF Sendable, Fits, Frame

(* Sending leaves the parser alone; a push keeps it.                       *)
LEMMA ChunkStep == ChunkInv /\ [Next]_vars => ChunkInv'
  <1> SUFFICES ASSUME ChunkInv, [Next]_vars PROVE ChunkInv'
    OBVIOUS
  <1>1. wire \in Seq(Byte) /\ pushed \in Seq(Byte)
    BY DEF ChunkInv
  <1>2. ASSUME NEW m \in Message, ServerSend(m) PROVE ChunkInv'
    <2>1. Serialize(m) \in Seq(Byte)
      BY MessageSendable, SerializeType
    <2>2. wire' \in Seq(Byte)
      BY <1>1, <1>2, <2>1, ConcatProperties DEF ServerSend
    <2> QED
      BY <1>2, <2>2 DEF ServerSend, ChunkInv, ChunkingIrrelevant
  <1>3. ASSUME NEW bytes \in Junk, OtherSend(bytes) PROVE ChunkInv'
    <2>1. wire' \in Seq(Byte)
      BY <1>1, <1>3, ParserAssumption, ConcatProperties DEF OtherSend
    <2> QED
      BY <1>3, <2>1 DEF OtherSend, ChunkInv, ChunkingIrrelevant
  <1>4. ASSUME NEW n \in 1 .. Len(wire), Push(n) PROVE ChunkInv'
    BY <1>4, PushStep
  <1>5. CASE UNCHANGED vars
    BY <1>5 DEF vars, ChunkInv, ChunkingIrrelevant
  <1> QED
    BY <1>2, <1>3, <1>4, <1>5 DEF Next

(* However TCP cuts the stream, the parser has returned and keeps what a   *)
(* single push of all the bytes would have left it with, for every stream. *)
THEOREM AnyCutting == Spec => []ChunkingIrrelevant
  <1>1. ChunkInv => ChunkingIrrelevant
    BY DEF ChunkInv
  <1> QED
    BY <1>1, ChunkInit, ChunkStep, PTL DEF Spec

------------------------------------------------------------------------------
(* A message that was sent is found in its frame, and nothing is left.     *)
LEMMA ScanOne ==
    ASSUME NEW m \in Message
    PROVE  /\ Scan(Serialize(m)).frames = <<m>>
           /\ Scan(Serialize(m)).rest = <<>>
  <1> DEFINE s == Serialize(m)
             n == Len(m.payload)
  <1>1. /\ m \in Sendable /\ Fits(m) /\ m \in Frame
    BY MessageSendable
  <1>2. /\ m.type \in MessageType /\ n \in Nat
        /\ m = [type |-> m.type, payload |-> m.payload]
    BY <1>1, LenProperties DEF Sendable
  <1>3. s \in Seq(Byte)
    BY <1>1, SerializeType
  <1>4. /\ Len(s) = 5 + n /\ s[1] = m.type /\ DecodeLength(s) = n
        /\ SubSeq(s, 5 + 1, 5 + n) = m.payload
    BY <1>1, FrameParts DEF HeaderSize
  <1> HIDE DEF s, n
  <1>5. HasHeader(s, 0)
    BY <1>2, <1>4 DEF HasHeader, HeaderSize
  <1>6. ~Unknown(s, 0)
    <2>1. s[0 + 1] = m.type
      BY <1>4
    <2> QED
      BY <1>2, <2>1 DEF Unknown
  <1>7. EndAt(s, 0) = 5 + n
    <2>1. EndAt(s, 0) = 0 + 5 + Digits(s[0 + 2], s[0 + 3], s[0 + 4], s[0 + 5])
      BY <1>3, <1>5, EndAtIs
    <2>2. Digits(s[0 + 2], s[0 + 3], s[0 + 4], s[0 + 5]) = n
      BY <1>4 DEF DecodeLength, Digits
    <2> QED
      BY <1>2, <2>1, <2>2
  <1>8. FrameAt(s, 0, 5 + n) = m
    <2>1. FrameAt(s, 0, 5 + n) = [type |-> s[0 + 1], payload |-> SubSeq(s, 0 + 5 + 1, 5 + n)]
      BY DEF FrameAt, HeaderSize
    <2>2. 0 + 1 = 1 /\ 0 + 5 + 1 = 5 + 1
      OBVIOUS
    <2>3. FrameAt(s, 0, 5 + n) = [type |-> m.type, payload |-> m.payload]
      BY <1>4, <2>1, <2>2
    <2> QED
      BY <1>2, <2>3
  <1>9. Suffix(s, 5 + n) = <<>>
    <2>1. 5 + n + 1 \in Int /\ Len(s) \in Int /\ Len(s) < 5 + n + 1
      BY <1>2, <1>4
    <2> QED
      BY <2>1, SubSeqEmpty DEF Suffix
  <1>10. Scan(s) = Before(m, Scan(<<>>))
    <2>1. EndAt(s, 0) <= Len(s)
      BY <1>2, <1>4, <1>7
    <2>2. Scan(s) = Before(FrameAt(s, 0, EndAt(s, 0)), Scan(Suffix(s, EndAt(s, 0))))
      BY <1>3, <1>5, <1>6, <2>1, ScanIs
    <2> QED
      BY <1>7, <1>8, <1>9, <2>2
  <1>11. Scan(<<>>) \in Result /\ Scan(<<>>).frames = <<>> /\ Scan(<<>>).rest = <<>>
    BY ScanNothing, ScanType
  <1>12. Scan(s).frames = <<m>> \o <<>> /\ Scan(s).rest = <<>>
    BY <1>1, <1>10, <1>11, BeforeType
  <1>13. <<m>> \o <<>> = <<m>>
    <2>1. <<m>> \in Seq(Frame)
      BY <1>1
    <2> QED
      BY <2>1, ConcatEmptySeq
  <1> QED
    BY <1>12, <1>13 DEF s

(* Until something else is sent, what has arrived and what is under way    *)
(* hold the messages that were sent and nothing else.                      *)
OrderInv ==
    /\ ChunkInv
    /\ sent \in Seq(Message)
    /\ ~junk => /\ Scan(pushed \o wire).frames = sent
                /\ Scan(pushed \o wire).rest = <<>>

(* Nothing is under way at the start.                                      *)
LEMMA OrderInit == Init => OrderInv
  <1> SUFFICES ASSUME Init PROVE OrderInv
    OBVIOUS
  <1>1. pushed = <<>> /\ wire = <<>> /\ sent = <<>>
    BY DEF Init
  <1>2. <<>> \o <<>> = <<>>
    BY ScanNothing, ConcatEmptySeq
  <1>3. sent \in Seq(Message)
    BY <1>1, EmptySeq
  <1> QED
    BY <1>1, <1>2, <1>3, ChunkInit, ScanNothing DEF OrderInv

(* A message is added at the end; a push moves bytes only.                 *)
LEMMA OrderStep == OrderInv /\ [Next]_vars => OrderInv'
  <1> SUFFICES ASSUME OrderInv, [Next]_vars PROVE OrderInv'
    OBVIOUS
  <1>1. ChunkInv /\ ChunkInv'
    BY ChunkStep DEF OrderInv
  <1>2. wire \in Seq(Byte) /\ pushed \in Seq(Byte) /\ sent \in Seq(Message)
    BY DEF OrderInv, ChunkInv
  <1>3. ASSUME NEW m \in Message, ServerSend(m) PROVE OrderInv'
    <2> DEFINE f == Serialize(m)
               all == pushed \o wire
    <2>1. f \in Seq(Byte)
      BY MessageSendable, SerializeType
    <2>2. /\ sent' = Append(sent, m) /\ wire' = wire \o f
          /\ pushed' = pushed /\ junk' = junk
      BY <1>3 DEF ServerSend
    <2>3. Scan(f).frames = <<m>> /\ Scan(f).rest = <<>>
      BY ScanOne
    <2>4. all \in Seq(Byte)
      BY <1>2, ConcatProperties
    <2>5. pushed \o (wire \o f) = all \o f
      <3> HIDE DEF f
      <3> QED
        BY <1>2, <2>1, Regroup
    <2>6. sent' \in Seq(Message) /\ sent' = sent \o <<m>>
      BY <1>2, <2>2, AppendProperties, AppendIsConcat
    <2>7. ~junk => Scan(all).frames = sent /\ Scan(all).rest = <<>>
      BY DEF OrderInv
    <2> HIDE DEF f, all
    <2>8. ~junk => /\ Scan(all \o f).frames = sent \o <<m>>
                   /\ Scan(all \o f).rest = <<>>
      <3>1. <<>> \o f = f
        BY <2>1, ConcatEmptySeq
      <3>2. Parts(all, f)
        BY <2>1, <2>4, PushedInParts
      <3> QED
        BY <2>3, <2>7, <3>1, <3>2 DEF Parts
    <2> QED
      BY <1>1, <2>2, <2>5, <2>6, <2>8 DEF OrderInv
  <1>4. ASSUME NEW bytes \in Junk, OtherSend(bytes) PROVE OrderInv'
    BY <1>1, <1>2, <1>4 DEF OtherSend, OrderInv
  <1>5. ASSUME NEW n \in 1 .. Len(wire), Push(n) PROVE OrderInv'
    <2>1. pushed' \o wire' = pushed \o wire /\ sent' = sent /\ junk' = junk
      BY <1>1, <1>5, PushStep DEF Push
    <2> QED
      BY <1>1, <1>2, <2>1 DEF OrderInv
  <1>6. CASE UNCHANGED vars
    BY <1>1, <1>6 DEF vars, OrderInv
  <1> QED
    BY <1>3, <1>4, <1>5, <1>6 DEF Next

(* A sequence begins with its first part.                                  *)
LEMMA PrefixOf ==
    ASSUME NEW p \in Seq(Frame), NEW q \in Seq(Frame)
    PROVE  IsPrefix(p, p \o q)
  <1> DEFINE t == p \o q
  <1>1. /\ t \in Seq(Frame) /\ Len(t) = Len(p) + Len(q) /\ Len(p) \in Nat /\ Len(q) \in Nat
        /\ \A i \in 1 .. Len(p) + Len(q) : t[i] = IF i <= Len(p) THEN p[i] ELSE q[i - Len(p)]
    BY ConcatProperties, LenProperties
  <1> HIDE DEF t
  <1>2. \A i \in 1 .. Len(p) : t[i] = p[i] /\ p[i] \in Frame
    <2>1. \A i \in 1 .. Len(p) : p[i] \in Frame
      BY ElementOfSeq
    <2> QED
      BY <1>1, <2>1
  <1>3. /\ SubSeq(t, 1, Len(p)) \in Seq(Frame)
        /\ Len(SubSeq(t, 1, Len(p))) = Len(p)
        /\ \A i \in 1 .. Len(p) : SubSeq(t, 1, Len(p))[i] = t[i]
    <2>1. 1 \in Int /\ Len(p) \in Int /\ \A i \in 1 .. Len(p) : t[i] \in Frame
      BY <1>1, <1>2
    <2>2. /\ SubSeq(t, 1, Len(p)) \in Seq(Frame)
          /\ Len(SubSeq(t, 1, Len(p))) = IF 1 <= Len(p) THEN Len(p) - 1 + 1 ELSE 0
          /\ \A i \in 1 .. Len(p) - 1 + 1 : SubSeq(t, 1, Len(p))[i] = t[1 + i - 1]
      BY <2>1, SubSeqProperties
    <2>3. Len(p) - 1 + 1 = Len(p) /\ \A i \in 1 .. Len(p) : 1 + i - 1 = i
      BY <1>1
    <2> QED
      BY <1>1, <2>2, <2>3
  <1>4. SubSeq(t, 1, Len(p)) = p
    BY <1>2, <1>3, SeqEqual
  <1>5. SubSeq(p, 1, Len(p)) = p
    BY SubSeqFull
  <1> QED
    BY <1>1, <1>4, <1>5 DEF IsPrefix, t

(* What the server sends is returned in order and none of it is withheld,  *)
(* for any messages whose length the header can tell.                      *)
THEOREM NoneWithheld == Spec => []FramesInOrder
  <1>1. OrderInv => FramesInOrder
    <2> SUFFICES ASSUME OrderInv, ~junk
                 PROVE  /\ IsPrefix(frames, sent)
                        /\ wire = <<>> => frames = sent
      BY DEF FramesInOrder
    <2>1. /\ wire \in Seq(Byte) /\ pushed \in Seq(Byte)
          /\ frames = Scan(pushed).frames /\ buffer = Scan(pushed).rest
          /\ sent = Scan(pushed \o wire).frames
      BY DEF OrderInv, ChunkInv, ChunkingIrrelevant
    <2>2. sent = frames \o Scan(buffer \o wire).frames
      BY <2>1, PushedInParts DEF Parts
    <2>3. frames \in Seq(Frame) /\ Scan(buffer \o wire).frames \in Seq(Frame)
      <3>1. Scan(pushed) \in Result
        BY <2>1, ScanType
      <3>2. buffer \in Seq(Byte) /\ frames \in Seq(Frame)
        BY <2>1, <3>1 DEF Result
      <3>3. Scan(buffer \o wire) \in Result
        BY <2>1, <3>2, ConcatProperties, ScanType
      <3> QED
        BY <3>2, <3>3 DEF Result
    <2>4. IsPrefix(frames, sent)
      BY <2>2, <2>3, PrefixOf
    <2>5. ASSUME wire = <<>> PROVE frames = sent
      <3>1. pushed \o <<>> = pushed
        BY <2>1, ConcatEmptySeq
      <3> QED
        BY <2>1, <2>5, <3>1
    <2> QED
      BY <2>4, <2>5
  <1> QED
    BY <1>1, OrderInit, OrderStep, PTL DEF Spec

------------------------------------------------------------------------------
(* The C++ codec's loop, in the same way.                                  *)
Refused(s, i) ==
    \/ Len(s) - i < HeaderSize
    \/ s[i + 1] \notin MessageType
    \/ EndAt(s, i) > i + HeaderSize + MaxPayload
    \/ EndAt(s, i) > Len(s)

CodecStep(s, g, i) ==
    IF Refused(s, i) THEN <<>>
    ELSE <<FrameAt(s, i, EndAt(s, i))>> \o g[EndAt(s, i)]

CodecTable(s) == CHOOSE g : g = [i \in 0 .. Len(s) |-> CodecStep(s, g, i)]

(* CodecFrames reads its table at the start.                               *)
LEMMA CodecFramesTable ==
    ASSUME NEW s
    PROVE  CodecFrames(s) = CodecTable(s)[0]
  BY DEF CodecFrames, CodecTable, CodecStep, Refused

(* A header that the C++ codec takes, the gateway's takes too.             *)
LEMMA NotRefused ==
    ASSUME NEW s \in Seq(Byte), NEW i \in 0 .. Len(s), ~Refused(s, i)
    PROVE  /\ HasHeader(s, i) /\ ~Unknown(s, i) /\ ~(Len(s) < EndAt(s, i))
           /\ EndAt(s, i) \in i + 1 .. Len(s)
           /\ FrameAt(s, i, EndAt(s, i)) \in Frame
  <1>1. i \in Nat /\ Len(s) \in Nat
    BY LenProperties
  <1>2. HasHeader(s, i) /\ ~Unknown(s, i)
    BY <1>1 DEF Refused, HasHeader, HeaderSize, Unknown
  <1>3. EndAt(s, i) \in Nat
    BY <1>1, <1>2, EndAtIs
  <1>4. ~(Len(s) < EndAt(s, i)) /\ EndAt(s, i) <= Len(s)
    BY <1>1, <1>3 DEF Refused
  <1> QED
    BY <1>1, <1>2, <1>4, Onwards, FrameAtType

(* An entry is frames when the later ones are.                             *)
LEMMA CodecStepType ==
    ASSUME NEW s \in Seq(Byte), NEW i \in 0 .. Len(s), NEW g,
           \A j \in i + 1 .. Len(s) : g[j] \in Seq(Frame)
    PROVE  CodecStep(s, g, i) \in Seq(Frame)
  <1>1. CASE Refused(s, i)
    BY <1>1, EmptySeq DEF CodecStep
  <1>2. CASE ~Refused(s, i)
    <2> DEFINE f == FrameAt(s, i, EndAt(s, i))
               r == g[EndAt(s, i)]
    <2>1. f \in Frame /\ r \in Seq(Frame)
      BY <1>2, NotRefused
    <2>2. CodecStep(s, g, i) = <<f>> \o r
      BY <1>2 DEF CodecStep
    <2> HIDE DEF f, r
    <2>3. <<f>> \in Seq(Frame)
      BY <2>1
    <2>4. <<f>> \o r \in Seq(Frame)
      BY <2>1, <2>3, ConcatProperties
    <2> QED
      BY <2>2, <2>4
  <1> QED
    BY <1>1, <1>2

(* An entry depends on later ones only.                                    *)
LEMMA CodecStepLocal ==
    ASSUME NEW s \in Seq(Byte), NEW i \in 0 .. Len(s), NEW g, NEW h,
           \A j \in i + 1 .. Len(s) : g[j] = h[j]
    PROVE  CodecStep(s, g, i) = CodecStep(s, h, i)
  <1>1. CASE Refused(s, i)
    BY <1>1 DEF CodecStep
  <1>2. CASE ~Refused(s, i)
    BY <1>2, NotRefused DEF CodecStep
  <1> QED
    BY <1>1, <1>2

(* The codec's table exists, and its entries are frames.                   *)
LEMMA CodecTableIs ==
    ASSUME NEW s \in Seq(Byte)
    PROVE  \A i \in 0 .. Len(s) :
              /\ CodecTable(s)[i] = CodecStep(s, CodecTable(s), i)
              /\ CodecTable(s)[i] \in Seq(Frame)
  <1> DEFINE N == Len(s)
             T == Seq(Frame)
             F == [i \in 0 .. N |-> [g \in [0 .. N -> T] |-> CodecStep(s, g, i)]]
  <1>1. N \in Nat /\ <<>> \in T
    BY LenProperties, EmptySeq
  <1>2. ASSUME NEW i \in 0 .. N, NEW g \in [0 .. N -> T]
        PROVE  F[i][g] = CodecStep(s, g, i) /\ CodecStep(s, g, i) \in T
    <2>1. \A j \in i + 1 .. Len(s) : g[j] \in Seq(Frame)
      <3>1. \A j \in i + 1 .. N : j \in 0 .. N
        BY <1>1
      <3> QED
        BY <3>1
    <2> QED
      BY <2>1, CodecStepType
  <1>3. F \in [0 .. N -> [[0 .. N -> T] -> T]]
    <2>1. \A i \in 0 .. N : [g \in [0 .. N -> T] |-> CodecStep(s, g, i)] \in [[0 .. N -> T] -> T]
      BY <1>2
    <2> QED
      BY <2>1
  <1>4. ASSUME NEW i \in 0 .. N, NEW g \in [0 .. N -> T], NEW h \in [0 .. N -> T],
               \A j \in i + 1 .. N : g[j] = h[j]
        PROVE  F[i][g] = F[i][h]
    BY <1>2, <1>4, CodecStepLocal
  <1> HIDE DEF F, T
  <1>5. PICK g \in [0 .. N -> T] : \A i \in 0 .. N : g[i] = F[i][g]
    <2>1. FromLater(F, N, T)
      BY <1>3, <1>4 DEF FromLater
    <2> HIDE DEF N
    <2>2. Computes(F, N, T)
      BY <1>1, <2>1, TableExists
    <2> QED
      BY <2>2 DEF Computes
  <1>6. g = [i \in 0 .. Len(s) |-> CodecStep(s, g, i)]
    <2>1. \A i \in 0 .. N : g[i] = CodecStep(s, g, i)
      BY <1>2, <1>5
    <2>2. g = [i \in 0 .. N |-> g[i]]
      OBVIOUS
    <2> QED
      BY <2>1, <2>2
  <1>7. CodecTable(s) = [i \in 0 .. Len(s) |-> CodecStep(s, CodecTable(s), i)]
    BY <1>6 DEF CodecTable
  <1>8. \A i \in 0 .. N : CodecTable(s)[i] = CodecStep(s, CodecTable(s), i)
    BY <1>7
  <1> DEFINE S == {k \in Nat : \A i \in 0 .. N : N - i = k => CodecTable(s)[i] \in Seq(Frame)}
  <1>9. Nat \subseteq S
    <2>1. ASSUME NEW n \in Nat, \A m \in Nat : m < n => m \in S PROVE n \in S
      <3> SUFFICES ASSUME NEW i \in 0 .. N, N - i = n PROVE CodecTable(s)[i] \in Seq(Frame)
        OBVIOUS
      <3>1. ASSUME NEW j \in i + 1 .. Len(s) PROVE CodecTable(s)[j] \in Seq(Frame)
        <4>1. j \in 0 .. N /\ N - j \in Nat /\ N - j < n
          BY <1>1
        <4> QED
          BY <2>1, <4>1
      <3> QED
        BY <1>8, <3>1, CodecStepType
    <2> HIDE DEF S
    <2> QED
      BY <2>1, Descent
  <1>10. ASSUME NEW i \in 0 .. N PROVE CodecTable(s)[i] \in Seq(Frame)
    <2>1. N - i \in Nat
      BY <1>1
    <2> QED
      BY <1>9, <2>1
  <1> QED
    BY <1>8, <1>10

(* What t has after p.                                                     *)
Begins(p, t) == \E r \in Seq(Frame) : t = p \o r

(* The gateway's frames begin with the C++ codec's, from any position.     *)
LEMMA CodecFirst ==
    ASSUME NEW s \in Seq(Byte)
    PROVE  Begins(CodecFrames(s), Scan(s).frames)
  <1> DEFINE N == Len(s)
             Good(i) == Table(s)[i] \in Result /\ Begins(CodecTable(s)[i], Table(s)[i].frames)
             S == {k \in Nat : \A i \in 0 .. N : N - i = k => Good(i)}
  <1>1. N \in Nat
    BY LenProperties
  <1>2. ASSUME NEW n \in Nat, \A m \in Nat : m < n => m \in S PROVE n \in S
    <2> SUFFICES ASSUME NEW i \in 0 .. N, N - i = n PROVE Good(i)
      OBVIOUS
    <2>1. ASSUME NEW j \in i + 1 .. Len(s) PROVE Good(j)
      <3>1. j \in 0 .. N /\ N - j \in Nat /\ N - j < n
        BY <1>1
      <3> QED
        BY <1>2, <3>1
    <2>2. Table(s)[i] = Step(s, Table(s), i) /\ Table(s)[i] \in Result
      BY <2>1, TableIs, StepType
    <2>3. CodecTable(s)[i] = CodecStep(s, CodecTable(s), i)
      BY CodecTableIs
    <2>4. CASE Refused(s, i)
      <3>1. Table(s)[i].frames \in Seq(Frame)
        BY <2>2 DEF Result
      <3>2. <<>> \o Table(s)[i].frames = Table(s)[i].frames
        BY <3>1, ConcatEmptySeq
      <3>3. CodecTable(s)[i] = <<>>
        BY <2>3, <2>4 DEF CodecStep
      <3>4. Begins(CodecTable(s)[i], Table(s)[i].frames)
        BY <3>1, <3>2, <3>3, Zenon DEF Begins
      <3> QED
        BY <2>2, <3>4
    <2>5. CASE ~Refused(s, i)
      <3> DEFINE e == EndAt(s, i)
                 f == FrameAt(s, i, e)
                 c == CodecTable(s)[e]
                 t == Table(s)[e]
      <3>1. /\ HasHeader(s, i) /\ ~Unknown(s, i) /\ ~(Len(s) < e)
            /\ e \in i + 1 .. Len(s) /\ f \in Frame
        BY <2>5, NotRefused
      <3>2. CodecTable(s)[i] = <<f>> \o c
        BY <2>3, <2>5 DEF CodecStep
      <3>3. Table(s)[i] = Before(f, t)
        BY <2>2, <3>1 DEF Step
      <3>4. t \in Result /\ Begins(c, t.frames)
        BY <2>1, <3>1
      <3>5. c \in Seq(Frame)
        <4>1. e \in 0 .. Len(s)
          BY <1>1, <3>1
        <4> QED
          BY <4>1, CodecTableIs
      <3> HIDE DEF f, c, t
      <3>6. PICK r \in Seq(Frame) : t.frames = c \o r
        BY <3>4 DEF Begins
      <3>7. Table(s)[i].frames = <<f>> \o t.frames
        BY <3>1, <3>3, <3>4, BeforeType
      <3>8. <<f>> \o (c \o r) = (<<f>> \o c) \o r
        <4>1. <<f>> \in Seq(Frame)
          BY <3>1
        <4> QED
          BY <3>5, <4>1, InThree, Zenon
      <3>9. Table(s)[i].frames = CodecTable(s)[i] \o r
        BY <3>2, <3>6, <3>7, <3>8
      <3> QED
        BY <2>2, <3>9 DEF Begins
    <2> QED
      BY <2>4, <2>5
  <1>3. Nat \subseteq S
    <2> HIDE DEF S
    <2> QED
      BY <1>2, Descent
  <1>4. Good(0)
    <2>1. N - 0 \in Nat /\ 0 \in 0 .. N
      BY <1>1
    <2> QED
      BY <1>3, <2>1
  <1> QED
    BY <1>4, ScanTable, CodecFramesTable

(* The gateway sees every frame that the C++ codec finds in the same       *)
(* bytes, before whatever else it makes of them, for any bytes.            *)
THEOREM NoFrameMissed == Spec => []SeesCodecFrames
  <1>1. ChunkInv => SeesCodecFrames
    <2> SUFFICES ASSUME ChunkInv PROVE IsPrefix(CodecFrames(pushed), frames)
      BY DEF SeesCodecFrames
    <2>1. pushed \in Seq(Byte) /\ frames = Scan(pushed).frames
      BY DEF ChunkInv, ChunkingIrrelevant
    <2>2. PICK r \in Seq(Frame) : frames = CodecFrames(pushed) \o r
      BY <2>1, CodecFirst DEF Begins
    <2>3. CodecFrames(pushed) \in Seq(Frame)
      <3>1. 0 \in 0 .. Len(pushed)
        BY <2>1, LenProperties
      <3> QED
        BY <2>1, <3>1, CodecTableIs, CodecFramesTable
    <2> QED
      BY <2>2, <2>3, PrefixOf
  <1> QED
    BY <1>1, ChunkInit, ChunkStep, PTL DEF Spec
=============================================================================
