------------------------ MODULE SignatureTextProofs ------------------------
(***************************************************************************)
(* Proofs about the text of a signature: for every width of the MAC and    *)
(* every header value, a value is parsed to the MAC it denotes or refused, *)
(* and a MAC printed denotes itself, so that parsing gives it back.        *)
(***************************************************************************)
EXTENDS SignatureText, SequenceTheorems, WellFoundedInduction, TLAPS

Byte == 0 .. 255
Mac == [1 .. Sha256Bytes -> Byte]

\* A value parsed stays beside what it was parsed to, and one received on the
\* way is what a MAC was printed as.
SignatureInv ==
  /\ text \in Seq(Byte)
  /\ stage \in {"received", "parsed"}
  /\ stage = "parsed" => signature = ParseSignature(text)
  /\ stage = "received" /\ signature # {} =>
       \E mac \in Mac : signature = {mac} /\ text = Display(mac)

-----------------------------------------------------------------------------
(* Digits *)

\* Induction over the naturals, about a set: a nonempty set of naturals
\* outside S would have a least element, and its predecessor is in S.
LEMMA SetInduction ==
  ASSUME NEW S, 0 \in S, \A n \in Nat : n \in S => n + 1 \in S
  PROVE  Nat \subseteq S
<1> DEFINE T == Nat \ S
<1> SUFFICES ASSUME T # {} PROVE FALSE
  OBVIOUS
<1> DEFINE R == OpToRel(<, Nat)
<1>1. IsWellFoundedOn(R, Nat)
  BY NatLessThanWellFounded
<1>2. T \subseteq Nat
  OBVIOUS
<1>h. HIDE DEF T, R
<1>3. PICK x \in T : \A y \in T : ~ (<<y, x>> \in R)
  BY <1>1, <1>2, WFMin
<1>4. x \in Nat \ {0} /\ x - 1 \in Nat
  BY <1>3 DEF T
<1>5. <<x - 1, x>> \in R
  BY <1>4 DEF R, OpToRel
<1>6. x - 1 \in S
  BY <1>3, <1>4, <1>5 DEF T
<1> QED BY <1>3, <1>4, <1>6 DEF T

\* A digit is read as the one nibble it writes, in either case, and nothing
\* else is read.
LEMMA NibbleIsWritten ==
  ASSUME NEW b \in Byte
  PROVE  HexNibble(b) = {n \in 0 .. 15 : Lower(b) = LowerDigit(n)}
<1>1. CASE b \in 48 .. 57
  BY <1>1 DEF HexNibble, Lower, LowerDigit, Zero, UpperA, LowerA
<1>2. CASE b \in 97 .. 102
  BY <1>2 DEF HexNibble, Lower, LowerDigit, Zero, UpperA, LowerA
<1>3. CASE b \in 65 .. 70
  BY <1>3 DEF HexNibble, Lower, LowerDigit, Zero, UpperA, LowerA
<1>4. CASE b \notin 48 .. 57 /\ b \notin 97 .. 102 /\ b \notin 65 .. 70
  <2>1. HexNibble(b) = {}
    BY <1>4 DEF HexNibble, Zero, UpperA, LowerA
  <2>2. \A n \in 0 .. 15 : Lower(b) # LowerDigit(n)
    BY <1>4 DEF Lower, LowerDigit, Zero, UpperA, LowerA, Byte
  <2> QED BY <2>1, <2>2
<1> QED BY <1>1, <1>2, <1>3, <1>4

LEMMA NibbleIsOne ==
  ASSUME NEW b \in Byte
  PROVE  HexNibble(b) = {} \/ \E n \in 0 .. 15 : HexNibble(b) = {n}
BY DEF HexNibble, Zero, UpperA, LowerA, Byte

LEMMA DigitIsRead ==
  ASSUME NEW n \in 0 .. 15
  PROVE  LowerDigit(n) \in Byte /\ HexNibble(LowerDigit(n)) = {n}
<1>1. CASE n < 10
  BY <1>1 DEF HexNibble, LowerDigit, Zero, UpperA, LowerA, Byte
<1>2. CASE ~ (n < 10)
  BY <1>2 DEF HexNibble, LowerDigit, Zero, UpperA, LowerA, Byte
<1> QED BY <1>1, <1>2

LEMMA Halves ==
  ASSUME NEW byte \in Byte
  PROVE  /\ byte \div 16 \in 0 .. 15 /\ byte % 16 \in 0 .. 15
         /\ 16 * (byte \div 16) + (byte % 16) = byte
<1> DEFINE S == {n \in Nat : \E q \in Nat, r \in 0 .. 15 : n = 16 * q + r}
<1>1. 0 \in S
  <2>1. 0 = 16 * 0 + 0 /\ 0 \in 0 .. 15
    OBVIOUS
  <2> QED BY <2>1
<1>2. ASSUME NEW n \in Nat, n \in S
      PROVE  n + 1 \in S
  <2>1. PICK q \in Nat, r \in 0 .. 15 : n = 16 * q + r
    BY <1>2
  <2>2. CASE r < 15
    <3>1. r + 1 \in 0 .. 15 /\ n + 1 = 16 * q + (r + 1)
      BY <2>1, <2>2
    <3> QED BY <3>1
  <2>3. CASE r = 15
    <3>1. PICK p \in Nat : p = q + 1
      OBVIOUS
    <3>2. 0 \in 0 .. 15 /\ n + 1 \in Nat /\ n + 1 = 16 * p + 0
      BY <2>1, <2>3, <3>1
    <3> QED BY <3>2
  <2> QED BY <2>2, <2>3
<1>3. byte \in S
  <2> HIDE DEF S
  <2>1. Nat \subseteq S
    BY <1>1, <1>2, SetInduction
  <2> QED BY <2>1 DEF Byte
<1>4. PICK q \in Nat, r \in 0 .. 15 : byte = 16 * q + r
  BY <1>3
<1>5. byte \div 16 = q /\ byte % 16 = r
  BY <1>4
<1>6. q \in 0 .. 15
  BY <1>4 DEF Byte
<1> QED BY <1>4, <1>5, <1>6

\* What two digits are read as is what they write: one byte, or none.
LEMMA ByteIsWritten ==
  ASSUME NEW a \in Byte, NEW b \in Byte
  PROVE  /\ Written(a, b) = {16 * high + low : high \in HexNibble(a), low \in HexNibble(b)}
         /\ Written(a, b) = {} \/ \E byte \in Byte : Written(a, b) = {byte}
<1>1. Written(a, b) = {16 * high + low : high \in HexNibble(a), low \in HexNibble(b)}
  BY NibbleIsWritten DEF Written
<1>2. CASE HexNibble(a) = {} \/ HexNibble(b) = {}
  BY <1>1, <1>2
<1>3. CASE HexNibble(a) # {} /\ HexNibble(b) # {}
  <2>1. PICK h \in 0 .. 15, l \in 0 .. 15 : HexNibble(a) = {h} /\ HexNibble(b) = {l}
    BY <1>3, NibbleIsOne
  <2>2. Written(a, b) = {16 * h + l}
    BY <1>1, <2>1
  <2>3. 16 * h + l \in Byte
    BY DEF Byte
  <2>4. \E byte \in Byte : Written(a, b) = {byte}
    BY <2>2, <2>3
  <2> QED BY <1>1, <2>4
<1>4. HexNibble(a) = {} \/ HexNibble(b) = {} \/ (HexNibble(a) # {} /\ HexNibble(b) # {})
  OBVIOUS
<1> QED BY <1>2, <1>3, <1>4

\* The digits printed for a byte write it and no other.
LEMMA DigitsWrite ==
  ASSUME NEW byte \in Byte
  PROVE  /\ Digits(byte) \in Seq(Byte) /\ Len(Digits(byte)) = 2
         /\ Written(Digits(byte)[1], Digits(byte)[2]) = {byte}
<1> DEFINE a == LowerDigit(byte \div 16)
           b == LowerDigit(byte % 16)
<1>1. /\ a \in Byte /\ b \in Byte
      /\ HexNibble(a) = {byte \div 16} /\ HexNibble(b) = {byte % 16}
  BY Halves, DigitIsRead
<1>2. Digits(byte) = <<a, b>>
  BY DEF Digits
<1> HIDE DEF a, b
<1>3. Written(a, b) = {16 * (byte \div 16) + (byte % 16)}
  <2>1. Written(a, b) = {16 * high + low : high \in HexNibble(a), low \in HexNibble(b)}
    BY <1>1, ByteIsWritten
  <2> DEFINE x == byte \div 16
             y == byte % 16
  <2>2. HexNibble(a) = {x} /\ HexNibble(b) = {y}
    BY <1>1
  <2> HIDE DEF x, y
  <2>3. Written(a, b) = {16 * x + y}
    BY <2>1, <2>2
  <2> QED BY <2>3 DEF x, y
<1> QED BY <1>1, <1>2, <1>3, Halves

-----------------------------------------------------------------------------
(* Parsing *)

LEMMA PrefixIsBytes ==
  /\ Prefix \in Seq(Byte) /\ Len(Prefix) = 7
  /\ \A t \in Seq(Byte) :
       IsPrefix(Prefix, t) <=> Len(t) >= 7 /\ \A i \in 1 .. 7 : t[i] = Prefix[i]
<1>1. Prefix \in Seq(Byte) /\ Len(Prefix) = 7
  BY DEF Prefix, Byte
<1>2. ASSUME NEW t \in Seq(Byte)
      PROVE  IsPrefix(Prefix, t) <=> Len(t) >= 7 /\ \A i \in 1 .. 7 : t[i] = Prefix[i]
  <2> HIDE <1>2
  <2>1. CASE Len(t) >= 7
    <3>1. /\ SubSeq(Prefix, 1, 7) \in Seq(Byte) /\ Len(SubSeq(Prefix, 1, 7)) = 7
          /\ SubSeq(t, 1, 7) \in Seq(Byte) /\ Len(SubSeq(t, 1, 7)) = 7
          /\ \A i \in 1 .. 7 : SubSeq(Prefix, 1, 7)[i] = Prefix[i]
          /\ \A i \in 1 .. 7 : SubSeq(t, 1, 7)[i] = t[i]
      <4>1. \A i \in 1 .. 7 : Prefix[i] \in Byte
        <5>1. \A i \in 1 .. Len(Prefix) : Prefix[i] \in Byte
          BY <1>1, ElementOfSeq, Zenon
        <5> QED BY <1>1, <5>1
      <4>2. \A i \in 1 .. 7 : t[i] \in Byte
        <5>1. \A i \in 1 .. Len(t) : t[i] \in Byte
          OBVIOUS
        <5> QED BY <2>1, <5>1
      <4>3. ASSUME NEW s, \A i \in 1 .. 7 : s[i] \in Byte
            PROVE  /\ SubSeq(s, 1, 7) \in Seq(Byte) /\ Len(SubSeq(s, 1, 7)) = 7
                   /\ \A i \in 1 .. 7 : SubSeq(s, 1, 7)[i] = s[i]
        <5>1. SubSeq(s, 1, 7) \in Seq(Byte) /\ Len(SubSeq(s, 1, 7)) = 7
          BY <4>3, SubSeqProperties
        <5>2. ASSUME NEW i \in 1 .. 7
              PROVE  SubSeq(s, 1, 7)[i] = s[i]
          <6>1. i \in 1 .. 7 - 1 + 1 /\ 1 + i - 1 = i
            OBVIOUS
          <6> QED BY <4>3, <6>1, SubSeqProperties
        <5> QED BY <5>1, <5>2
      <4> QED BY <4>1, <4>2, <4>3
    <3>2. SubSeq(Prefix, 1, 7) = SubSeq(t, 1, 7) <=> \A i \in 1 .. 7 : t[i] = Prefix[i]
      BY <3>1, SeqEqual
    <3> QED BY <1>1, <2>1, <3>2 DEF IsPrefix
  <2>2. CASE ~ (Len(t) >= 7)
    BY <1>1, <2>2 DEF IsPrefix
  <2> QED BY <2>1, <2>2
<1> QED BY <1>1, <1>2

\* A value of the prefix and the length, with digits that write bytes.
WellFormed(t) ==
  /\ Len(t) = 7 + 2 * Sha256Bytes
  /\ \A i \in 1 .. 7 : t[i] = Prefix[i]
  /\ \A i \in 1 .. Sha256Bytes : Written(t[7 + 2 * i - 1], t[7 + 2 * i]) # {}

LEMMA ParsedByDigits ==
  ASSUME NEW t \in Seq(Byte)
  PROVE  ParseSignature(t) =
           IF WellFormed(t)
             THEN {[i \in 1 .. Sha256Bytes |->
                      CHOOSE byte \in Written(t[7 + 2 * i - 1], t[7 + 2 * i]) : TRUE]}
             ELSE {}
<1> DEFINE hex == SubSeq(t, Len(Prefix) + 1, Len(t))
           bytes == 1 .. Sha256Bytes
           value(i) == Written(t[7 + 2 * i - 1], t[7 + 2 * i])
<1>1. CASE IsPrefix(Prefix, t) /\ HasLength(hex)
  <2>1. /\ Len(t) = 7 + 2 * Sha256Bytes /\ \A i \in 1 .. 7 : t[i] = Prefix[i]
        /\ \A j \in 1 .. 2 * Sha256Bytes : hex[j] = t[7 + j]
    <3>1. Len(t) >= 7 /\ (\A i \in 1 .. 7 : t[i] = Prefix[i]) /\ Len(Prefix) = 7
      BY <1>1, PrefixIsBytes
    <3>2. Len(hex) = Len(t) - 7 /\ \A j \in 1 .. Len(t) - 7 : hex[j] = t[7 + j]
      <4>1. hex = SubSeq(t, 8, Len(t)) /\ \A i \in 8 .. Len(t) : t[i] \in Byte
        BY <3>1
      <4> HIDE DEF hex
      <4>2. /\ Len(hex) = IF 8 <= Len(t) THEN Len(t) - 8 + 1 ELSE 0
            /\ \A j \in 1 .. Len(t) - 8 + 1 : hex[j] = t[8 + j - 1]
        BY <4>1, SubSeqProperties
      <4>3. ASSUME NEW j \in 1 .. Len(t) - 7
            PROVE  j \in 1 .. Len(t) - 8 + 1 /\ 8 + j - 1 = 7 + j
        BY <3>1
      <4>4. Len(hex) = Len(t) - 7
        <5>1. PICK n \in Nat : n = Len(t)
          OBVIOUS
        <5>2. n >= 7 /\ Len(hex) = IF 8 <= n THEN n - 8 + 1 ELSE 0
          BY <3>1, <4>2, <5>1
        <5>3. Len(hex) = n - 7
          BY <5>2
        <5> QED BY <5>1, <5>3
      <4> QED BY <4>2, <4>3, <4>4, Zenon
    <3>3. Len(t) - 7 = 2 * Sha256Bytes
      BY <1>1, <3>2 DEF HasLength
    <3> QED BY <3>1, <3>2, <3>3, WidthAssumption
  <2>2. ASSUME NEW i \in bytes
        PROVE  ByteAt(hex, i) = value(i)
    <3>1. /\ 2 * i - 1 \in 1 .. 2 * Sha256Bytes /\ 2 * i \in 1 .. 2 * Sha256Bytes
          /\ 7 + (2 * i - 1) = 7 + 2 * i - 1
          /\ 7 + 2 * i - 1 \in 1 .. Len(t) /\ 7 + 2 * i \in 1 .. Len(t)
      BY <2>1, WidthAssumption
    <3>2. hex[2 * i - 1] = t[7 + 2 * i - 1] /\ hex[2 * i] = t[7 + 2 * i]
      BY <2>1, <3>1
    <3>3. t[7 + 2 * i - 1] \in Byte /\ t[7 + 2 * i] \in Byte
      BY <3>1
    <3> HIDE DEF hex
    <3> QED BY <3>2, <3>3, ByteIsWritten DEF ByteAt
  <2>3. WellFormed(t) <=> \A i \in bytes : ByteAt(hex, i) # {}
    BY <2>1, <2>2 DEF WellFormed
  <2>4. [i \in bytes |-> CHOOSE byte \in ByteAt(hex, i) : TRUE] =
          [i \in bytes |-> CHOOSE byte \in value(i) : TRUE]
    BY <2>2
  <2> QED BY <1>1, <2>3, <2>4 DEF ParseSignature
<1>2. CASE ~ (IsPrefix(Prefix, t) /\ HasLength(hex))
  <2>1. ParseSignature(t) = {}
    BY <1>2 DEF ParseSignature
  <2>2. ~ WellFormed(t)
    <3>1. SUFFICES ASSUME WellFormed(t) PROVE IsPrefix(Prefix, t) /\ HasLength(hex)
      BY <1>2
    <3>2. Len(t) = 7 + 2 * Sha256Bytes /\ \A i \in 1 .. 7 : t[i] = Prefix[i]
      BY <3>1 DEF WellFormed
    <3>3. IsPrefix(Prefix, t) /\ Len(Prefix) = 7
      <4>1. PICK n \in Nat : n = Sha256Bytes
        BY WidthAssumption
      <4>2. 7 + 2 * n >= 7
        OBVIOUS
      <4>3. Len(t) >= 7
        BY <3>2, <4>1, <4>2
      <4> QED BY <3>2, <4>3, PrefixIsBytes, Zenon
    <3>4. Len(hex) = 2 * Sha256Bytes
      BY <3>2, <3>3, WidthAssumption
    <3> QED BY <3>3, <3>4 DEF HasLength
  <2> QED BY <2>1, <2>2
<1> QED BY <1>1, <1>2

-----------------------------------------------------------------------------
(* Printing *)

\* The concatenation of sequences, one sequence at a time.
LEMMA FlattenStep ==
  ASSUME NEW S, NEW seqs \in Seq(Seq(S)), Len(seqs) # 0
  PROVE  \E flatten : /\ FlattenSeq(seqs) = flatten[Len(seqs)]
                      /\ flatten[1] = seqs[1]
                      /\ \A i \in 2 .. Len(seqs) : flatten[i] = flatten[i - 1] \o seqs[i]
<1> DEFINE Step(g, i) == IF i = 1 THEN seqs[i] ELSE g[i - 1] \o seqs[i]
           Defined == {n \in Nat : \E g : g = [i \in 1 .. n |-> Step(g, i)]}
           flatten == CHOOSE g : g = [i \in 1 .. Len(seqs) |-> Step(g, i)]
<1>1. 0 \in Defined
  <2>1. PICK g : g = [i \in 1 .. 0 |-> 0]
    OBVIOUS
  <2>2. g = [i \in 1 .. 0 |-> Step(g, i)]
    BY <2>1
  <2> QED BY <2>2
<1>2. ASSUME NEW n \in Nat, n \in Defined
      PROVE  n + 1 \in Defined
  <2>1. PICK g : g = [i \in 1 .. n |-> Step(g, i)]
    BY <1>2
  <2>2. PICK h : h = [i \in 1 .. n + 1 |-> IF i = n + 1 THEN Step(g, i) ELSE g[i]]
    OBVIOUS
  <2>3. \A i \in 1 .. n : g[i] = Step(g, i)
    BY <2>1
  <2> HIDE DEF Step
  <2>4. \A i \in 1 .. n : h[i] = g[i]
    BY <2>2
  <2>5. \A i \in 1 .. n + 1 : h[i] = Step(g, i)
    <3>1. h[n + 1] = Step(g, n + 1)
      BY <2>2
    <3>2. \A i \in 1 .. n : h[i] = Step(g, i)
      BY <2>3, <2>4
    <3> QED BY <3>1, <3>2
  <2>6. \A i \in 1 .. n + 1 : Step(g, i) = Step(h, i)
    BY <2>4 DEF Step
  <2>7. h = [i \in 1 .. n + 1 |-> Step(h, i)]
    BY <2>2, <2>5, <2>6
  <2> QED BY <2>7
<1>3. Len(seqs) \in Defined
  <2> HIDE DEF Defined
  <2>1. Nat \subseteq Defined
    BY <1>1, <1>2, SetInduction
  <2> QED BY <2>1
<1>4. flatten = [i \in 1 .. Len(seqs) |-> Step(flatten, i)]
  <2>1. \E g : g = [i \in 1 .. Len(seqs) |-> Step(g, i)]
    BY <1>3
  <2> QED BY <2>1
<1>5. FlattenSeq(seqs) = flatten[Len(seqs)]
  BY DEF FlattenSeq
<1> HIDE DEF flatten
<1>6. \A i \in 1 .. Len(seqs) : flatten[i] = Step(flatten, i)
  BY <1>4
<1>7. flatten[1] = seqs[1]
  <2>1. 1 \in 1 .. Len(seqs)
    OBVIOUS
  <2> QED BY <1>6, <2>1
<1>8. ASSUME NEW i \in 2 .. Len(seqs)
      PROVE  flatten[i] = flatten[i - 1] \o seqs[i]
  <2>1. i \in 1 .. Len(seqs) /\ i # 1
    OBVIOUS
  <2>2. flatten[i] = Step(flatten, i)
    BY <1>6, <2>1
  <2> QED BY <2>1, <2>2
<1> QED BY <1>5, <1>7, <1>8

\* u is made of the m bytes of s and the n bytes of t.
Joins(u, s, m, t, n) ==
  /\ u \in Seq(Byte) /\ Len(u) = m + n
  /\ \A j \in 1 .. m : u[j] = s[j]
  /\ \A j \in 1 .. n : u[m + j] = t[j]

LEMMA ConcatJoins ==
  ASSUME NEW s \in Seq(Byte), NEW t \in Seq(Byte)
  PROVE  Joins(s \o t, s, Len(s), t, Len(t))
<1>1. Len(s) \in Nat /\ Len(t) \in Nat
  OBVIOUS
<1>2. s \o t \in Seq(Byte) /\ Len(s \o t) = Len(s) + Len(t)
  BY ConcatProperties
<1>3. ASSUME NEW j \in 1 .. Len(s)
      PROVE  (s \o t)[j] = s[j]
  <2>1. j \in 1 .. Len(s) + Len(t) /\ j <= Len(s)
    BY <1>1
  <2> QED BY <2>1, ConcatProperties
<1>4. ASSUME NEW j \in 1 .. Len(t)
      PROVE  (s \o t)[Len(s) + j] = t[j]
  <2>1. /\ Len(s) + j \in 1 .. Len(s) + Len(t)
        /\ ~ (Len(s) + j <= Len(s)) /\ Len(s) + j - Len(s) = j
    BY <1>1
  <2> QED BY <2>1, ConcatProperties
<1> QED BY <1>2, <1>3, <1>4 DEF Joins

\* A MAC printed has the prefix, and the two digits of each byte in its place.
LEMMA DisplayWrites ==
  ASSUME NEW mac \in Mac
  PROVE  /\ Display(mac) \in Seq(Byte)
         /\ Len(Display(mac)) = 7 + 2 * Sha256Bytes
         /\ \A i \in 1 .. 7 : Display(mac)[i] = Prefix[i]
         /\ \A i \in 1 .. Sha256Bytes :
              /\ Display(mac)[7 + 2 * i - 1] = Digits(mac[i])[1]
              /\ Display(mac)[7 + 2 * i] = Digits(mac[i])[2]
<1> DEFINE N == Sha256Bytes
           pair == [i \in 1 .. N |-> Digits(mac[i])]
<1>1. \A i \in 1 .. N : mac[i] \in Byte
  BY DEF Mac
<1>2. /\ DOMAIN pair = 1 .. N
      /\ \A i \in 1 .. N : pair[i] = Digits(mac[i]) /\ pair[i] \in Seq(Byte) /\ Len(pair[i]) = 2
  BY <1>1, DigitsWrite
<1>3. pair \in Seq(Seq(Byte)) /\ Len(pair) = N /\ N \in Nat /\ N # 0
  <2>1. N \in Nat /\ N # 0
    BY WidthAssumption
  <2>2. pair \in [1 .. N -> Seq(Byte)]
    BY <1>1, DigitsWrite
  <2> HIDE DEF pair
  <2> QED BY <2>1, <2>2
<1>4. Display(mac) = Prefix \o FlattenSeq(pair)
  <2>1. DOMAIN mac = 1 .. N
    BY DEF Mac
  <2> QED BY <2>1 DEF Display
<1> HIDE DEF pair, N
<1>5. PICK flatten : /\ FlattenSeq(pair) = flatten[N]
                     /\ flatten[1] = pair[1]
                     /\ \A i \in 2 .. N : flatten[i] = flatten[i - 1] \o pair[i]
  BY <1>3, FlattenStep
<1> DEFINE Good(n) ==
             /\ flatten[n] \in Seq(Byte) /\ Len(flatten[n]) = 2 * n
             /\ \A i \in 1 .. n : /\ flatten[n][2 * i - 1] = pair[i][1]
                                  /\ flatten[n][2 * i] = pair[i][2]
           S == {n \in Nat : n \in 1 .. N => Good(n)}
<1>6. Good(1)
  <2>1. 1 \in 1 .. N
    BY <1>3
  <2>2. flatten[1] \in Seq(Byte) /\ Len(flatten[1]) = 2
    BY <1>2, <1>5, <2>1
  <2>3. \A i \in 1 .. 1 : i = 1 /\ 2 * i - 1 = 1 /\ 2 * i = 2
    OBVIOUS
  <2> QED BY <1>5, <2>2, <2>3
<1>7. ASSUME NEW n \in Nat, n # 0, n + 1 \in 1 .. N, Good(n)
      PROVE  Good(n + 1)
  <2>1. flatten[n + 1] = flatten[n] \o pair[n + 1]
    <3>1. n + 1 \in 2 .. N /\ (n + 1) - 1 = n
      BY <1>3, <1>7
    <3> QED BY <1>5, <3>1
  <2>2. pair[n + 1] \in Seq(Byte) /\ Len(pair[n + 1]) = 2
    BY <1>2, <1>7
  <2>3. /\ flatten[n + 1] \in Seq(Byte)
        /\ Len(flatten[n + 1]) = 2 * n + 2
        /\ \A j \in 1 .. 2 * n : flatten[n + 1][j] = flatten[n][j]
        /\ \A j \in 1 .. 2 : flatten[n + 1][2 * n + j] = pair[n + 1][j]
    <3>1. flatten[n] \in Seq(Byte) /\ Len(flatten[n]) = 2 * n /\ 2 * n \in Nat /\ 2 \in Nat
      BY <1>7
    <3>2. Joins(flatten[n + 1], flatten[n], 2 * n, pair[n + 1], 2)
      <4> HIDE DEF Good, S
      <4> QED BY <2>1, <2>2, <3>1, ConcatJoins
    <3> QED BY <3>2 DEF Joins
  <2>4. ASSUME NEW i \in 1 .. n
        PROVE  /\ flatten[n + 1][2 * i - 1] = pair[i][1]
               /\ flatten[n + 1][2 * i] = pair[i][2]
    <3>1. 2 * i - 1 \in 1 .. 2 * n /\ 2 * i \in 1 .. 2 * n
      OBVIOUS
    <3> QED BY <1>7, <2>3, <3>1
  <2>5. /\ flatten[n + 1][2 * (n + 1) - 1] = pair[n + 1][1]
        /\ flatten[n + 1][2 * (n + 1)] = pair[n + 1][2]
    <3>1. /\ 1 \in 1 .. 2 /\ 2 * (n + 1) - 1 = 2 * n + 1
          /\ 2 \in 1 .. 2 /\ 2 * (n + 1) = 2 * n + 2
      OBVIOUS
    <3> QED BY <2>3, <3>1
  <2>6. \A i \in 1 .. n + 1 : i \in 1 .. n \/ i = n + 1
    OBVIOUS
  <2>7. Len(flatten[n + 1]) = 2 * (n + 1)
    BY <2>3
  <2> QED BY <2>3, <2>4, <2>5, <2>6, <2>7, Zenon
<1>8. N \in S
  <2> HIDE DEF Good
  <2>1. 0 \in S
    OBVIOUS
  <2>2. ASSUME NEW n \in Nat, n \in S
        PROVE  n + 1 \in S
    <3>1. CASE n = 0
      BY <1>6, <3>1
    <3>2. CASE n # 0
      <4>1. n + 1 \in 1 .. N => n \in 1 .. N
        BY <1>3, <3>2
      <4> QED BY <1>7, <2>2, <3>2, <4>1
    <3> QED BY <3>1, <3>2
  <2> HIDE DEF S
  <2>3. Nat \subseteq S
    BY <2>1, <2>2, SetInduction
  <2> QED BY <1>3, <2>3
<1>9. Good(N)
  BY <1>3, <1>8
<1> DEFINE digits == flatten[N]
<1>10. Display(mac) = Prefix \o digits
  BY <1>4, <1>5
<1>11. /\ digits \in Seq(Byte) /\ Len(digits) = 2 * N
       /\ \A i \in 1 .. N : digits[2 * i - 1] = pair[i][1] /\ digits[2 * i] = pair[i][2]
  BY <1>9
<1> HIDE DEF Good, S, digits
<1>12. /\ Display(mac) \in Seq(Byte)
       /\ Len(Display(mac)) = 7 + 2 * N
       /\ \A j \in 1 .. 7 : Display(mac)[j] = Prefix[j]
       /\ \A j \in 1 .. 2 * N : Display(mac)[7 + j] = digits[j]
  <2>1. Prefix \in Seq(Byte) /\ Len(Prefix) = 7 /\ 7 \in Nat /\ 2 * N \in Nat
    BY <1>3, PrefixIsBytes
  <2>2. Joins(Display(mac), Prefix, 7, digits, 2 * N)
    BY <1>10, <1>11, <2>1, ConcatJoins
  <2> QED BY <2>2 DEF Joins
<1>13. ASSUME NEW i \in 1 .. N
       PROVE  /\ Display(mac)[7 + 2 * i - 1] = Digits(mac[i])[1]
              /\ Display(mac)[7 + 2 * i] = Digits(mac[i])[2]
  <2>1. /\ 2 * i - 1 \in 1 .. 2 * N /\ 7 + (2 * i - 1) = 7 + 2 * i - 1
        /\ 2 * i \in 1 .. 2 * N
    BY <1>3
  <2>2. pair[i] = Digits(mac[i])
    BY <1>2
  <2> QED BY <1>11, <1>12, <2>1, <2>2
<1> QED BY <1>12, <1>13 DEF N

-----------------------------------------------------------------------------
(* Parsing what was printed *)

\* A value is well formed and parsed to the one MAC its digits write, or refused.
LEMMA ParsedIsMac ==
  ASSUME NEW t \in Seq(Byte)
  PROVE  \/ ParseSignature(t) = {} /\ ~ WellFormed(t)
         \/ \E mac \in Mac :
              /\ ParseSignature(t) = {mac} /\ WellFormed(t)
              /\ \A i \in 1 .. Sha256Bytes :
                   Written(t[7 + 2 * i - 1], t[7 + 2 * i]) = {mac[i]}
<1>1. CASE ~ WellFormed(t)
  BY <1>1, ParsedByDigits
<1>2. CASE WellFormed(t)
  <2> DEFINE value(i) == Written(t[7 + 2 * i - 1], t[7 + 2 * i])
             mac == [i \in 1 .. Sha256Bytes |-> CHOOSE byte \in value(i) : TRUE]
  <2>1. ParseSignature(t) = {mac}
    BY <1>2, ParsedByDigits
  <2>2. ASSUME NEW i \in 1 .. Sha256Bytes
        PROVE  mac[i] \in Byte /\ value(i) = {mac[i]}
    <3>1. t[7 + 2 * i - 1] \in Byte /\ t[7 + 2 * i] \in Byte
      <4>1. Len(t) = 7 + 2 * Sha256Bytes
        BY <1>2 DEF WellFormed
      <4>2. 7 + 2 * i - 1 \in 1 .. Len(t) /\ 7 + 2 * i \in 1 .. Len(t)
        BY <4>1, WidthAssumption
      <4> QED BY <4>2, ElementOfSeq, Zenon
    <3>2. value(i) # {}
      BY <1>2 DEF WellFormed
    <3>3. PICK byte \in Byte : value(i) = {byte}
      <4>1. value(i) = {} \/ \E byte \in Byte : value(i) = {byte}
        <5> DEFINE a == t[7 + 2 * i - 1]
                   b == t[7 + 2 * i]
        <5>1. a \in Byte /\ b \in Byte /\ value(i) = Written(a, b)
          BY <3>1
        <5> HIDE DEF a, b, value, mac
        <5>2. Written(a, b) = {} \/ \E byte \in Byte : Written(a, b) = {byte}
          BY <5>1, ByteIsWritten
        <5> QED BY <5>1, <5>2, Zenon
      <4> QED BY <3>2, <4>1, Zenon
    <3>4. mac[i] = CHOOSE byte_1 \in value(i) : TRUE
      OBVIOUS
    <3> HIDE DEF value, mac
    <3>5. mac[i] = byte
      BY <3>3, <3>4
    <3> QED BY <3>3, <3>5
  <2>3. mac \in Mac
    <3>1. DOMAIN mac = 1 .. Sha256Bytes /\ mac = [i \in DOMAIN mac |-> mac[i]]
      OBVIOUS
    <3> HIDE DEF mac
    <3> QED BY <2>2, <3>1 DEF Mac
  <2> HIDE DEF mac
  <2> QED BY <1>2, <2>1, <2>2, <2>3
<1> QED BY <1>1, <1>2

\* A MAC printed is a value received that is parsed back to it.
LEMMA ParsedBack ==
  ASSUME NEW mac \in Mac
  PROVE  Display(mac) \in Seq(Byte) /\ ParseSignature(Display(mac)) = {mac}
<1> DEFINE t == Display(mac)
<1>1. /\ t \in Seq(Byte) /\ Len(t) = 7 + 2 * Sha256Bytes
      /\ \A i \in 1 .. 7 : t[i] = Prefix[i]
      /\ \A i \in 1 .. Sha256Bytes :
           /\ t[7 + 2 * i - 1] = Digits(mac[i])[1]
           /\ t[7 + 2 * i] = Digits(mac[i])[2]
  BY DisplayWrites
<1> HIDE DEF t
<1>2. ASSUME NEW i \in 1 .. Sha256Bytes
      PROVE  Written(t[7 + 2 * i - 1], t[7 + 2 * i]) = {mac[i]}
  <2>1. mac[i] \in Byte
    BY DEF Mac
  <2> QED BY <1>1, <2>1, DigitsWrite
<1>3. WellFormed(t)
  BY <1>1, <1>2 DEF WellFormed
<1>4. PICK other \in Mac :
        /\ ParseSignature(t) = {other}
        /\ \A i \in 1 .. Sha256Bytes :
             Written(t[7 + 2 * i - 1], t[7 + 2 * i]) = {other[i]}
  BY <1>1, <1>3, ParsedIsMac
<1>5. other = mac
  <2>1. \A i \in 1 .. Sha256Bytes : other[i] = mac[i]
    BY <1>2, <1>4
  <2>2. /\ other = [i \in 1 .. Sha256Bytes |-> other[i]]
        /\ mac = [i \in 1 .. Sha256Bytes |-> mac[i]]
    BY DEF Mac
  <2>3. [i \in 1 .. Sha256Bytes |-> other[i]] = [i \in 1 .. Sha256Bytes |-> mac[i]]
    BY <2>1
  <2> QED BY <2>2, <2>3, Zenon
<1> QED BY <1>1, <1>4, <1>5 DEF t

-----------------------------------------------------------------------------
(* The theorems *)

LEMMA SignatureInvInit == Init => SignatureInv
<1>1. Init => text \in Seq(Byte)
  BY TextsAssumption DEF Init, Byte
<1> QED BY <1>1 DEF Init, SignatureInv

LEMMA SignatureInvStep ==
  ASSUME SignatureInv, [Next]_vars
  PROVE  SignatureInv'
<1>1. CASE Parse
  BY <1>1 DEF SignatureInv, Parse
<1>2. CASE Forward
  <2>1. stage = "parsed" /\ text \in Seq(Byte) /\ signature = ParseSignature(text)
    BY <1>2 DEF SignatureInv, Forward
  <2>2. PICK mac \in signature : text' = Display(mac)
    BY <1>2 DEF Forward
  <2>3. mac \in Mac /\ signature = {mac}
    BY <2>1, <2>2, ParsedIsMac
  <2>4. text' \in Seq(Byte)
    BY <2>2, <2>3, ParsedBack
  <2>5. stage' = "received" /\ signature' = signature
    BY <1>2 DEF Forward
  <2> QED BY <2>2, <2>3, <2>4, <2>5 DEF SignatureInv
<1>3. CASE UNCHANGED vars
  BY <1>3 DEF SignatureInv, vars
<1> QED BY <1>1, <1>2, <1>3 DEF Next

\* A value parsed stays beside what it was parsed to, and one received on the
\* way is what a MAC was printed as.
THEOREM SignatureInvariant == Spec => []SignatureInv
BY SignatureInvInit, SignatureInvStep, PTL DEF Spec

\* parse_signature accepts exactly the values that denote a MAC, of any bytes
\* and any length, and gives the MAC they denote.
THEOREM DenotedIsParsed == Spec => []ParsedAsDenoted
<1>1. SignatureInv => ParsedAsDenoted
  <2> SUFFICES ASSUME SignatureInv, stage = "parsed"
               PROVE  /\ \A mac \in signature : Denotes(text, mac)
                      /\ signature = {} =>
                           \/ Len(text) # Len(Prefix) + 2 * Sha256Bytes
                           \/ \E i \in 1 .. Len(Prefix) : text[i] # Prefix[i]
                           \/ \E i \in 1 .. Sha256Bytes :
                                Written(text[Len(Prefix) + 2 * i - 1],
                                        text[Len(Prefix) + 2 * i]) = {}
    BY DEF ParsedAsDenoted
  <2>1. text \in Seq(Byte) /\ signature = ParseSignature(text)
    BY DEF SignatureInv
  <2>2. Len(Prefix) = 7
    BY PrefixIsBytes
  <2>3. ASSUME NEW mac \in signature
        PROVE  Denotes(text, mac)
    <3>1. /\ WellFormed(text)
          /\ \A i \in 1 .. Sha256Bytes :
               Written(text[7 + 2 * i - 1], text[7 + 2 * i]) = {mac[i]}
      BY <2>1, <2>3, ParsedIsMac
    <3> QED BY <2>2, <3>1 DEF Denotes, WellFormed
  <2>4. ASSUME signature = {}
        PROVE  \/ Len(text) # Len(Prefix) + 2 * Sha256Bytes
               \/ \E i \in 1 .. Len(Prefix) : text[i] # Prefix[i]
               \/ \E i \in 1 .. Sha256Bytes :
                    Written(text[Len(Prefix) + 2 * i - 1], text[Len(Prefix) + 2 * i]) = {}
    <3>1. ~ WellFormed(text)
      BY <2>1, <2>4, ParsedIsMac
    <3> QED BY <2>2, <3>1 DEF WellFormed
  <2> QED BY <2>3, <2>4
<1> QED BY <1>1, SignatureInvariant, PTL

\* Display and parse_signature are inverse to each other: a signature forwarded
\* is received as the one that was forwarded, with no bound on how often.
THEOREM PrintingIsInvertible == Spec => PrintedAndParsedBack
<1>1. ASSUME SignatureInv, [Next]_vars
      PROVE  [stage = "received" /\ signature # {} => signature' = signature]_vars
  <2> SUFFICES ASSUME stage = "received", signature # {}, Next
               PROVE  signature' = signature
    BY <1>1
  <2>1. CASE Parse
    <3>1. PICK mac \in Mac : signature = {mac} /\ text = Display(mac)
      BY <1>1 DEF SignatureInv
    <3> QED BY <2>1, <3>1, ParsedBack DEF Parse
  <2>2. CASE Forward
    BY <2>2 DEF Forward
  <2> QED BY <2>1, <2>2 DEF Next
<1> QED BY <1>1, SignatureInvariant, PTL DEF Spec, PrintedAndParsedBack
=============================================================================
