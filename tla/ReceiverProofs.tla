--------------------------- MODULE ReceiverProofs ---------------------------
(***************************************************************************)
(* Proofs about the receiver. read_body: for every body, limit and width   *)
(* of integers the accumulator is the data taken, whole and in order,      *)
(* within the limit, and a read is refused for what is true of its body.   *)
(* WebhookReceiver: for every store and every rotation of it, any number   *)
(* of requests, whatever clients send and transports hand over, a handler  *)
(* is started only on a whole body that a vouched-for secret signed,       *)
(* nothing is read for a request its headers refuse, and every answer is   *)
(* the one the documented order of the checks gives.                       *)
(***************************************************************************)
EXTENDS Receiver, WellFoundedInduction, TLAPS

-----------------------------------------------------------------------------
(* DataOf and Length satisfy the equations that define them: the recursive  *)
(* functions they are made of exist, by induction on the frames.            *)

\* Induction over the naturals, about a set: a nonempty set of naturals
\* outside S would have a least element, and its predecessor is in S.
LEMMA SetInduction ==
  ASSUME NEW S, 0 \in S, \A n \in Nat : n \in S => n + 1 \in S
  PROVE  Nat \subseteq S
<1> DEFINE T == Nat \ S
<1> SUFFICES ASSUME T # {} PROVE FALSE
  OBVIOUS
<1> DEFINE R == OpToRel(<, Nat)
<1>1. IsWellFoundedOn(R, Nat)
  BY NatLessThanWellFounded
<1>2. T \subseteq Nat
  OBVIOUS
<1>h. HIDE DEF T, R
<1>3. PICK x \in T : \A y \in T : ~ (<<y, x>> \in R)
  BY <1>1, <1>2, WFMin
<1>4. x \in Nat \ {0} /\ x - 1 \in Nat
  BY <1>3 DEF T
<1>5. <<x - 1, x>> \in R
  BY <1>4 DEF R, OpToRel
<1>6. x - 1 \in S
  BY <1>3, <1>4, <1>5 DEF T
<1> QED BY <1>3, <1>4, <1>6 DEF T

\* The data of one frame more is the data so far, and that frame if it is data.
LEMMA DataOfStep ==
  ASSUME NEW frames \in Seq(Frame)
  PROVE  /\ DataOf(frames, 0) = <<>>
         /\ \A i \in 1 .. Len(frames) :
              DataOf(frames, i) =
                IF IsData(frames[i]) THEN Append(DataOf(frames, i - 1), frames[i])
                ELSE DataOf(frames, i - 1)
<1> DEFINE Step(g, i) == IF i = 0 THEN <<>>
                         ELSE IF IsData(frames[i]) THEN Append(g[i - 1], frames[i])
                         ELSE g[i - 1]
           Defined == {n \in Nat : \E g : g = [i \in 0 .. n |-> Step(g, i)]}
           taken == CHOOSE g : g = [i \in 0 .. Len(frames) |-> Step(g, i)]
<1>1. 0 \in Defined
  <2>1. \E g : g = [i \in 0 .. 0 |-> <<>>]
    OBVIOUS
  <2>2. PICK g : g = [i \in 0 .. 0 |-> <<>>]
    BY <2>1
  <2>3. g = [i \in 0 .. 0 |-> Step(g, i)]
    BY <2>2
  <2> QED BY <2>3
<1>2. ASSUME NEW n \in Nat, n \in Defined
      PROVE  n + 1 \in Defined
  <2>1. PICK g : g = [i \in 0 .. n |-> Step(g, i)]
    BY <1>2
  <2>2. PICK h : h = [i \in 0 .. n + 1 |-> IF i = n + 1 THEN Step(g, i) ELSE g[i]]
    OBVIOUS
  <2>0. \A i \in 0 .. n : g[i] = Step(g, i)
    BY <2>1
  <2> HIDE DEF Step
  <2>3. \A i \in 0 .. n : h[i] = g[i]
    BY <2>2
  <2>4. \A i \in 0 .. n + 1 : h[i] = Step(g, i)
    <3>1. h[n + 1] = Step(g, n + 1)
      BY <2>2
    <3>2. \A i \in 0 .. n : h[i] = Step(g, i)
      BY <2>0, <2>3
    <3> QED BY <3>1, <3>2
  <2>5. \A i \in 0 .. n + 1 : Step(g, i) = Step(h, i)
    BY <2>3 DEF Step
  <2>6. h = [i \in 0 .. n + 1 |-> Step(h, i)]
    BY <2>2, <2>4, <2>5
  <2> QED BY <2>6
<1>3. Len(frames) \in Defined
  <2> HIDE DEF Defined
  <2>1. Nat \subseteq Defined
    BY <1>1, <1>2, SetInduction
  <2> QED BY <2>1
<1>4. taken = [i \in 0 .. Len(frames) |-> Step(taken, i)]
  <2>1. \E g : g = [i \in 0 .. Len(frames) |-> Step(g, i)]
    BY <1>3
  <2> QED BY <2>1
<1>5. \A n : DataOf(frames, n) = taken[n]
  BY DEF DataOf
<1> HIDE DEF taken
<1>6. \A i \in 0 .. Len(frames) : taken[i] = Step(taken, i)
  BY <1>4
<1>7. taken[0] = <<>>
  BY <1>6
<1>8. ASSUME NEW i \in 1 .. Len(frames)
      PROVE  taken[i] = IF IsData(frames[i]) THEN Append(taken[i - 1], frames[i]) ELSE taken[i - 1]
  <2>1. i \in 0 .. Len(frames) /\ i # 0
    OBVIOUS
  <2>2. taken[i] = Step(taken, i)
    BY <1>6, <2>1
  <2> QED BY <2>1, <2>2
<1> QED BY <1>5, <1>7, <1>8

\* The sum of the first frames' sizes exists, as the data does.
LEMMA LengthStep ==
  ASSUME NEW data \in Seq(Frame)
  PROVE  \E sum : /\ Length(data) = sum[Len(data)]
                  /\ sum[0] = 0
                  /\ \A i \in 1 .. Len(data) : sum[i] = sum[i - 1] + data[i].size
<1> DEFINE Step(g, i) == IF i = 0 THEN 0 ELSE g[i - 1] + data[i].size
           Defined == {n \in Nat : \E g : g = [i \in 0 .. n |-> Step(g, i)]}
           sum == CHOOSE g : g = [i \in 0 .. Len(data) |-> Step(g, i)]
<1>1. 0 \in Defined
  <2>1. PICK g : g = [i \in 0 .. 0 |-> 0]
    OBVIOUS
  <2>2. g = [i \in 0 .. 0 |-> Step(g, i)]
    BY <2>1
  <2> QED BY <2>2
<1>2. ASSUME NEW n \in Nat, n \in Defined
      PROVE  n + 1 \in Defined
  <2>1. PICK g : g = [i \in 0 .. n |-> Step(g, i)]
    BY <1>2
  <2>2. PICK h : h = [i \in 0 .. n + 1 |-> IF i = n + 1 THEN Step(g, i) ELSE g[i]]
    OBVIOUS
  <2>3. \A i \in 0 .. n : g[i] = Step(g, i)
    BY <2>1
  <2> HIDE DEF Step
  <2>4. \A i \in 0 .. n : h[i] = g[i]
    BY <2>2
  <2>5. \A i \in 0 .. n + 1 : h[i] = Step(g, i)
    <3>1. h[n + 1] = Step(g, n + 1)
      BY <2>2
    <3>2. \A i \in 0 .. n : h[i] = Step(g, i)
      BY <2>3, <2>4
    <3> QED BY <3>1, <3>2
  <2>6. \A i \in 0 .. n + 1 : Step(g, i) = Step(h, i)
    BY <2>4 DEF Step
  <2>7. h = [i \in 0 .. n + 1 |-> Step(h, i)]
    BY <2>2, <2>5, <2>6
  <2> QED BY <2>7
<1>3. Len(data) \in Defined
  <2> HIDE DEF Defined
  <2>1. Nat \subseteq Defined
    BY <1>1, <1>2, SetInduction
  <2> QED BY <2>1
<1>4. sum = [i \in 0 .. Len(data) |-> Step(sum, i)]
  <2>1. \E g : g = [i \in 0 .. Len(data) |-> Step(g, i)]
    BY <1>3
  <2> QED BY <2>1
<1>5. Length(data) = sum[Len(data)]
  BY DEF Length
<1> HIDE DEF sum
<1>6. \A i \in 0 .. Len(data) : sum[i] = Step(sum, i)
  BY <1>4
<1>7. sum[0] = 0
  BY <1>6
<1>8. ASSUME NEW i \in 1 .. Len(data)
      PROVE  sum[i] = sum[i - 1] + data[i].size
  <2>1. i \in 0 .. Len(data) /\ i # 0
    OBVIOUS
  <2>2. sum[i] = Step(sum, i)
    BY <1>6, <2>1
  <2> QED BY <2>1, <2>2
<1> QED BY <1>5, <1>7, <1>8

LEMMA FrameSize ==
  ASSUME NEW data \in Seq(Frame), NEW i \in 1 .. Len(data)
  PROVE  data[i].size \in Nat
<1>1. data[i] \in Frame
  OBVIOUS
<1> QED BY <1>1, WidthAssumption DEF Frame

\* A length is a natural number; one frame more adds its size.
LEMMA LengthIsNat ==
  ASSUME NEW data \in Seq(Frame)
  PROVE  Length(data) \in Nat
<1>1. PICK sum : /\ Length(data) = sum[Len(data)] /\ sum[0] = 0
                 /\ \A i \in 1 .. Len(data) : sum[i] = sum[i - 1] + data[i].size
  BY LengthStep
<1> DEFINE S == {n \in Nat : n <= Len(data) => sum[n] \in Nat}
<1>2. 0 \in S
  BY <1>1
<1>3. ASSUME NEW n \in Nat, n \in S
      PROVE  n + 1 \in S
  <2>1. SUFFICES ASSUME n + 1 <= Len(data)
                 PROVE  sum[n + 1] \in Nat
    OBVIOUS
  <2>2. n + 1 \in 1 .. Len(data) /\ (n + 1) - 1 = n
    BY <2>1
  <2>3. sum[n + 1] = sum[n] + data[n + 1].size
    BY <1>1, <2>2
  <2>4. sum[n] \in Nat
    BY <1>3, <2>1
  <2> QED BY <2>2, <2>3, <2>4, FrameSize
<1>4. Len(data) \in S
  <2> HIDE DEF S
  <2>1. Nat \subseteq S
    BY <1>2, <1>3, SetInduction
  <2> QED BY <2>1
<1> QED BY <1>1, <1>4

LEMMA LengthOfNone == Length(<<>>) = 0
<1>1. <<>> \in Seq(Frame) /\ Len(<<>>) = 0
  OBVIOUS
<1> QED BY <1>1, LengthStep

LEMMA LengthOfAppend ==
  ASSUME NEW data \in Seq(Frame), NEW frame \in Frame
  PROVE  Length(Append(data, frame)) = Length(data) + frame.size
<1> DEFINE longer == Append(data, frame)
<1>1. PICK sum : /\ Length(data) = sum[Len(data)] /\ sum[0] = 0
                 /\ \A i \in 1 .. Len(data) : sum[i] = sum[i - 1] + data[i].size
  BY LengthStep
<1>2. /\ longer \in Seq(Frame) /\ Len(longer) = Len(data) + 1
      /\ longer[Len(data) + 1] = frame
      /\ \A i \in 1 .. Len(data) : longer[i] = data[i]
  OBVIOUS
<1> HIDE DEF longer
<1>3. PICK more : /\ Length(longer) = more[Len(longer)] /\ more[0] = 0
                  /\ \A i \in 1 .. Len(longer) : more[i] = more[i - 1] + longer[i].size
  BY <1>2, LengthStep
<1> DEFINE S == {n \in Nat : n <= Len(data) => more[n] = sum[n]}
<1>4. 0 \in S
  BY <1>1, <1>3
<1>5. ASSUME NEW n \in Nat, n \in S
      PROVE  n + 1 \in S
  <2>1. SUFFICES ASSUME n + 1 <= Len(data)
                 PROVE  more[n + 1] = sum[n + 1]
    OBVIOUS
  <2>2. /\ n + 1 \in 1 .. Len(data) /\ n + 1 \in 1 .. Len(longer)
        /\ (n + 1) - 1 = n
    BY <1>2, <2>1
  <2>3. more[n] = sum[n]
    BY <1>5, <2>1
  <2>4. longer[n + 1] = data[n + 1]
    BY <1>2, <2>2
  <2>5. sum[n + 1] = sum[n] + data[n + 1].size
    BY <1>1, <2>2
  <2>6. more[n + 1] = more[n] + longer[n + 1].size
    BY <1>3, <2>2
  <2> QED BY <2>3, <2>4, <2>5, <2>6
<1>6. Len(data) \in S
  <2> HIDE DEF S
  <2>1. Nat \subseteq S
    BY <1>4, <1>5, SetInduction
  <2> QED BY <2>1
<1>7. more[Len(data)] = Length(data)
  BY <1>1, <1>6
<1>8. more[Len(data) + 1] = more[Len(data)] + frame.size
  <2>1. Len(data) + 1 \in 1 .. Len(longer) /\ (Len(data) + 1) - 1 = Len(data)
    BY <1>2
  <2> QED BY <1>2, <1>3, <2>1
<1> QED BY <1>2, <1>3, <1>7, <1>8 DEF longer

\* The data taken is frames, at every cut.
LEMMA DataOfTyped ==
  ASSUME NEW frames \in Seq(Frame), NEW n \in 0 .. Len(frames)
  PROVE  DataOf(frames, n) \in Seq(Frame) /\ Length(DataOf(frames, n)) \in Nat
<1> DEFINE S == {i \in Nat : i <= Len(frames) => DataOf(frames, i) \in Seq(Frame)}
<1>1. 0 \in S
  <2>1. DataOf(frames, 0) = <<>>
    BY DataOfStep
  <2>2. <<>> \in Seq(Frame)
    OBVIOUS
  <2> QED BY <2>1, <2>2
<1>2. ASSUME NEW i \in Nat, i \in S
      PROVE  i + 1 \in S
  <2>1. SUFFICES ASSUME i + 1 <= Len(frames)
                 PROVE  DataOf(frames, i + 1) \in Seq(Frame)
    OBVIOUS
  <2>2. i + 1 \in 1 .. Len(frames) /\ (i + 1) - 1 = i
    BY <2>1
  <2>3. DataOf(frames, i) \in Seq(Frame) /\ frames[i + 1] \in Frame
    BY <1>2, <2>1, <2>2
  <2>4. \/ DataOf(frames, i + 1) = Append(DataOf(frames, i), frames[i + 1])
        \/ DataOf(frames, i + 1) = DataOf(frames, i)
    BY <2>2, DataOfStep
  <2> QED BY <2>3, <2>4
<1>3. n \in S
  <2> HIDE DEF S
  <2>1. Nat \subseteq S
    BY <1>1, <1>2, SetInduction
  <2> QED BY <2>1
<1> QED BY <1>3, LengthIsNat

-----------------------------------------------------------------------------
(* The steps of a read *)

\* The frames a read of r passed over: all it polled but the one that ended it.
Passed(r) ==
  IF read[r] \in {"BodyTooLarge", "BodyRead"} /\ polled[r] > 0 THEN polled[r] - 1 ELSE polled[r]

\* The accumulator is the data passed, none of the frames passed could have
\* ended the read, and the one that did has what it was ended for.
ReadSound(r) ==
  LET frames == body[r].frames
  IN  /\ bytes[r].data = DataOf(frames, Passed(r))
      /\ bytes[r].len = Length(bytes[r].data)
      /\ \A i \in 1 .. Passed(r) :
           frames[i].kind # "error" /\ Length(DataOf(frames, i)) <= limit
      /\ read[r] = "unread" => polled[r] = 0
      /\ read[r] = "Ok" => polled[r] = Len(frames)
      /\ read[r] \in {"reading", "Ok", "BodyRead"} => ~ HintOverLimit(body[r].hint)
      /\ read[r] = "BodyRead" => polled[r] > 0 /\ frames[polled[r]].kind = "error"
      /\ read[r] = "BodyTooLarge" =>
           IF HintOverLimit(body[r].hint) THEN polled[r] = 0
           ELSE /\ polled[r] > 0 /\ IsData(frames[polled[r]])
                /\ Length(DataOf(frames, polled[r])) > limit

\* BodyTypeOK is inductive once the limit bounds the accumulated length: the
\* length of the next sum is in usize because Crosses refuses it otherwise.
BodyInv ==
  /\ BodyTypeOK
  /\ BufferedWithinLimit
  /\ \A r \in Request : ReadSound(r)

\* What is known of one read before a step.
LEMMA BodyTyped ==
  ASSUME BodyInv, NEW r \in Request
  PROVE  /\ limit \in Nat /\ limit <= MaxUsize
         /\ body[r].frames \in Seq(Frame) /\ body[r].hint \in Nat
         /\ polled[r] \in 0 .. Len(body[r].frames) /\ Len(body[r].frames) \in Nat
         /\ bytes[r].data \in Seq(Frame) /\ bytes[r].len \in Nat /\ bytes[r].len <= limit
         /\ ReadSound(r)
<1>1. /\ limit \in 0 .. MaxUsize /\ MaxUsize \in Nat /\ MaxU64 \in Nat
      /\ body[r] \in Body /\ polled[r] \in Nat /\ polled[r] <= Len(body[r].frames)
      /\ bytes[r] \in [data : Seq(Frame), len : 0 .. MaxUsize]
      /\ bytes[r].len <= limit /\ ReadSound(r)
  BY LimitsAssumption, WidthAssumption DEF BodyInv, BodyTypeOK, BufferedWithinLimit
<1>2. body[r].frames \in Seq(Frame) /\ body[r].hint \in 0 .. MaxU64
  BY <1>1 DEF Body
<1> QED BY <1>1, <1>2

\* A read whose own state a step leaves alone stays sound.
LEMMA ReadSoundKept ==
  ASSUME NEW r \in Request, ReadSound(r), limit' = limit, body'[r] = body[r],
         polled'[r] = polled[r], bytes'[r] = bytes[r], read'[r] = read[r]
  PROVE  ReadSound(r)'
BY DEF ReadSound, Passed, HintOverLimit

\* The bodies a receiver is given are bodies, and no limit leaves usize.
LEMMA BodyInitInv ==
  ASSUME BodyInit
  PROVE  BodyInv
<1> USE BodiesAssumption, LimitsAssumption, WidthAssumption
<1>1. body \in [Request -> Body] /\ limit \in Nat
  BY DEF BodyInit
<1>2. BodyTypeOK
  BY <1>1 DEF BodyInit, NothingRead, BodyTypeOK, NoBytes, Body
<1>3. BufferedWithinLimit
  BY DEF BodyInit, NothingRead, BufferedWithinLimit, NoBytes
<1>4. ASSUME NEW r \in Request
      PROVE  ReadSound(r)
  <2>1. polled[r] = 0 /\ bytes[r] = NoBytes /\ read[r] = "unread"
    BY DEF BodyInit, NothingRead
  <2>2. body[r].frames \in Seq(Frame)
    BY <1>1 DEF Body
  <2>3. DataOf(body[r].frames, 0) = <<>>
    BY <2>2, DataOfStep
  <2>4. Passed(r) = 0
    BY <2>1 DEF Passed
  <2> QED BY <2>1, <2>3, <2>4, LengthOfNone DEF ReadSound, NoBytes
<1> QED BY <1>2, <1>3, <1>4 DEF BodyInv

\* The start of a read leaves the accumulator alone.
LEMMA StartReadInv ==
  ASSUME BodyInv, NEW r \in Request, StartRead(r)
  PROVE  BodyInv'
<1>1. BodyTypeOK' /\ BufferedWithinLimit'
  BY DEF BodyInv, BodyTypeOK, BufferedWithinLimit, StartRead
<1>2. \A s \in Request \ {r} : ReadSound(s)'
  <2>1. \A s \in Request \ {r} : read'[s] = read[s]
    BY DEF BodyInv, BodyTypeOK, StartRead
  <2> QED BY <2>1, ReadSoundKept DEF BodyInv, StartRead
<1>3. ReadSound(r)'
  <2>1. /\ read[r] = "unread" /\ limit' = limit /\ body' = body /\ polled' = polled
        /\ bytes' = bytes
        /\ read'[r] = IF HintOverLimit(body[r].hint) THEN "BodyTooLarge" ELSE "reading"
    BY DEF BodyInv, BodyTypeOK, StartRead
  <2>2. polled[r] = 0 /\ Passed(r) = 0 /\ Passed(r)' = 0
    BY <2>1, BodyTyped DEF ReadSound, Passed
  <2> QED BY <2>1, <2>2, BodyTyped DEF ReadSound, HintOverLimit
<1> QED BY <1>1, <1>2, <1>3 DEF BodyInv

LEMMA EndOfBodyInv ==
  ASSUME BodyInv, NEW r \in Request, EndOfBody(r)
  PROVE  BodyInv'
<1>1. BodyTypeOK' /\ BufferedWithinLimit'
  BY DEF BodyInv, BodyTypeOK, BufferedWithinLimit, EndOfBody
<1>2. \A s \in Request \ {r} : ReadSound(s)'
  <2>1. \A s \in Request \ {r} : read'[s] = read[s]
    BY DEF BodyInv, BodyTypeOK, EndOfBody
  <2> QED BY <2>1, ReadSoundKept DEF BodyInv, EndOfBody
<1>3. ReadSound(r)'
  <2>1. /\ read[r] = "reading" /\ limit' = limit /\ body' = body /\ polled' = polled
        /\ bytes' = bytes /\ read'[r] = "Ok" /\ polled[r] = Len(body[r].frames)
    BY DEF BodyInv, BodyTypeOK, EndOfBody
  <2>2. Passed(r)' = Passed(r)
    BY <2>1 DEF Passed
  <2> QED BY <2>1, <2>2, BodyTyped DEF ReadSound, HintOverLimit
<1> QED BY <1>1, <1>2, <1>3 DEF BodyInv

\* Not crossing is staying within the limit; crossing is going over it.
LEMMA CrossesTheLimit ==
  ASSUME NEW len \in Nat, NEW size \in Nat, limit \in Nat, limit <= MaxUsize
  PROVE  Crosses(len, size) <=> len + size > limit
BY WidthAssumption DEF Crosses

\* One frame: only data that does not cross the limit is appended.
LEMMA NextFrameInv ==
  ASSUME BodyInv, NEW r \in Request, NextFrame(r)
  PROVE  BodyInv'
<1> DEFINE frames == body[r].frames
           n == polled[r]
           frame == frames[n + 1]
<1>1. /\ limit \in Nat /\ limit <= MaxUsize /\ MaxUsize \in Nat
      /\ frames \in Seq(Frame) /\ n \in Nat /\ n + 1 \in 1 .. Len(frames)
      /\ n + 1 \in 0 .. Len(frames) /\ (n + 1) - 1 = n /\ n \in 0 .. Len(frames)
      /\ bytes[r].data \in Seq(Frame) /\ bytes[r].len \in Nat /\ bytes[r].len <= limit
  BY BodyTyped, WidthAssumption DEF NextFrame
<1>2. /\ read[r] = "reading" /\ limit' = limit /\ body' = body /\ polled'[r] = n + 1
      /\ polled' = [polled EXCEPT ![r] = n + 1]
      /\ \A s \in Request \ {r} : polled'[s] = polled[s]
  BY DEF NextFrame, BodyInv, BodyTypeOK
<1>3. /\ bytes[r].data = DataOf(frames, n) /\ bytes[r].len = Length(bytes[r].data)
      /\ \A i \in 1 .. n : frames[i].kind # "error" /\ Length(DataOf(frames, i)) <= limit
      /\ ~ HintOverLimit(body[r].hint)
  BY <1>2, BodyTyped DEF ReadSound, Passed
<1>4. frame \in Frame
  BY <1>1
<1>5. /\ IsData(frame) => /\ DataOf(frames, n + 1) = Append(DataOf(frames, n), frame)
                          /\ Length(DataOf(frames, n + 1)) = bytes[r].len + frame.size
                          /\ frame.size \in Nat
      /\ ~ IsData(frame) => DataOf(frames, n + 1) = DataOf(frames, n)
  <2>1. DataOf(frames, n + 1) =
          IF IsData(frame) THEN Append(DataOf(frames, n), frame) ELSE DataOf(frames, n)
    BY <1>1, DataOfStep
  <2>2. DataOf(frames, n) \in Seq(Frame)
    BY <1>1, DataOfTyped
  <2>3. Length(Append(DataOf(frames, n), frame)) = Length(DataOf(frames, n)) + frame.size
    BY <1>4, <2>2, LengthOfAppend
  <2>4. frame.size \in Nat
    BY <1>4, WidthAssumption DEF Frame
  <2> QED BY <1>3, <2>1, <2>3, <2>4
<1>6. /\ polled' \in [Request -> Nat]
      /\ \A s \in Request : polled'[s] <= Len(body'[s].frames)
  BY <1>1, <1>2 DEF BodyInv, BodyTypeOK
<1> HIDE DEF frame, frames, n
<1>7. CASE /\ frame.kind = "error" /\ bytes' = bytes
           /\ read' = [read EXCEPT ![r] = "BodyRead"]
  <2>1. /\ read'[r] = "BodyRead" /\ \A s \in Request \ {r} : read'[s] = read[s]
        /\ BodyTypeOK' /\ BufferedWithinLimit'
    BY <1>2, <1>7, <1>6 DEF BodyInv, BodyTypeOK, BufferedWithinLimit
  <2>2. Passed(r)' = n
    BY <1>1, <1>2, <2>1 DEF Passed
  <2>3. ReadSound(r)'
    BY <1>1, <1>2, <1>3, <1>7, <2>1, <2>2 DEF ReadSound, HintOverLimit, frames, frame
  <2> QED BY <1>2, <1>7, <2>1, <2>3, ReadSoundKept DEF BodyInv
<1>8. CASE frame.kind = "trailers" /\ bytes' = bytes /\ read' = read
  <2>1. BodyTypeOK' /\ BufferedWithinLimit'
    BY <1>2, <1>8, <1>6 DEF BodyInv, BodyTypeOK, BufferedWithinLimit
  <2>2. Passed(r)' = n + 1
    BY <1>1, <1>2, <1>8 DEF Passed
  <2>3. ~ IsData(frame) /\ DataOf(frames, n + 1) = DataOf(frames, n)
    BY <1>5, <1>8 DEF IsData
  <2>4. \A i \in 1 .. n + 1 : frames[i].kind # "error" /\ Length(DataOf(frames, i)) <= limit
    <3>1. Length(DataOf(frames, n + 1)) <= limit /\ frames[n + 1].kind # "error"
      BY <1>1, <1>3, <1>8, <2>3 DEF frame
    <3> QED BY <1>1, <1>3, <3>1
  <2>5. ReadSound(r)'
    BY <1>1, <1>2, <1>3, <1>8, <2>2, <2>3, <2>4 DEF ReadSound, HintOverLimit, frames
  <2> QED BY <1>2, <1>8, <2>1, <2>5, ReadSoundKept DEF BodyInv
<1>9. CASE /\ IsData(frame) /\ Crosses(bytes[r].len, frame.size)
           /\ read' = [read EXCEPT ![r] = "BodyTooLarge"] /\ bytes' = bytes
  <2>1. /\ read'[r] = "BodyTooLarge" /\ \A s \in Request \ {r} : read'[s] = read[s]
        /\ BodyTypeOK' /\ BufferedWithinLimit'
    BY <1>2, <1>9, <1>6 DEF BodyInv, BodyTypeOK, BufferedWithinLimit
  <2>2. Passed(r)' = n
    BY <1>1, <1>2, <2>1 DEF Passed
  <2>3. Length(DataOf(frames, n + 1)) > limit
    BY <1>1, <1>5, <1>9, CrossesTheLimit
  <2>4. ReadSound(r)'
    <3>1. n + 1 > 0 /\ IsData(frames[n + 1]) /\ Length(DataOf(frames, n + 1)) > limit
      BY <1>1, <1>9, <2>3 DEF frame
    <3>2. bytes'[r] = bytes[r] /\ body'[r].frames = frames /\ body'[r] = body[r]
      BY <1>2, <1>9 DEF frames
    <3> QED BY <1>2, <1>3, <2>1, <2>2, <3>1, <3>2 DEF ReadSound, HintOverLimit
  <2> QED BY <1>2, <1>9, <2>1, <2>4, ReadSoundKept DEF BodyInv
<1>10. CASE /\ IsData(frame) /\ ~ Crosses(bytes[r].len, frame.size) /\ read' = read
           /\ bytes' = [bytes EXCEPT ![r] =
                [data |-> Append(@.data, frame), len |-> @.len + frame.size]]
  <2>1. /\ bytes[r].len + frame.size \in Nat
        /\ bytes[r].len + frame.size <= limit /\ bytes[r].len + frame.size <= MaxUsize
    <3>1. ~ (bytes[r].len + frame.size > limit) /\ frame.size \in Nat
      BY <1>1, <1>5, <1>10, CrossesTheLimit
    <3>2. ASSUME NEW k \in Nat, NEW m \in Nat, NEW l \in Nat, NEW u \in Nat, l <= u,
                 ~ (k + m > l)
          PROVE  k + m \in Nat /\ k + m <= l /\ k + m <= u
      BY <3>2
    <3> QED BY <1>1, <3>1, <3>2
  <2>2. Append(bytes[r].data, frame) \in Seq(Frame)
    BY <1>1, <1>4
  <2>3. /\ bytes'[r] = [data |-> Append(bytes[r].data, frame), len |-> bytes[r].len + frame.size]
        /\ \A s \in Request \ {r} : bytes'[s] = bytes[s]
        /\ bytes' \in [Request -> [data : Seq(Frame), len : 0 .. MaxUsize]]
    BY <1>1, <1>10, <2>1, <2>2 DEF BodyInv, BodyTypeOK
  <2>4. BodyTypeOK'
    BY <1>2, <1>10, <1>6, <2>3 DEF BodyInv, BodyTypeOK
  <2>5. BufferedWithinLimit'
    <3>1. bytes'[r].len <= limit
      BY <2>1, <2>3
    <3> QED BY <1>2, <2>3, <3>1 DEF BodyInv, BufferedWithinLimit
  <2>6. Passed(r)' = n + 1
    BY <1>1, <1>2, <1>10 DEF Passed
  <2>7. \A i \in 1 .. n + 1 : frames[i].kind # "error" /\ Length(DataOf(frames, i)) <= limit
    <3>1. Length(DataOf(frames, n + 1)) <= limit /\ frames[n + 1].kind # "error"
      BY <1>5, <1>10, <2>1 DEF frame, IsData
    <3> QED BY <1>1, <1>3, <3>1
  <2>8. ReadSound(r)'
    <3>1. /\ bytes'[r].data = DataOf(frames, n + 1)
          /\ bytes'[r].len = Length(DataOf(frames, n + 1))
      BY <1>3, <1>5, <1>10, <2>3
    <3> QED BY <1>1, <1>2, <1>3, <1>10, <2>6, <2>7, <3>1 DEF ReadSound, HintOverLimit, frames
  <2> QED BY <1>2, <1>10, <2>3, <2>4, <2>5, <2>8, ReadSoundKept DEF BodyInv
<1> QED BY <1>7, <1>8, <1>9, <1>10 DEF NextFrame, frame, frames, n

\* Every step of a read, and every step that touches no read, keeps BodyInv;
\* a module that composes reads with other steps cites this lemma.
LEMMA ReadBodyInv ==
  ASSUME BodyInv, [\E r \in Request : ReadBody(r)]_bodyVars
  PROVE  BodyInv'
<1>1. CASE \E r \in Request : ReadBody(r)
  BY <1>1, StartReadInv, NextFrameInv, EndOfBodyInv DEF ReadBody
<1>2. CASE UNCHANGED bodyVars
  <2>1. BodyTypeOK' /\ BufferedWithinLimit'
    BY <1>2 DEF bodyVars, BodyInv, BodyTypeOK, BufferedWithinLimit
  <2>2. \A r \in Request : ReadSound(r)'
    BY <1>2, ReadSoundKept DEF BodyInv, bodyVars
  <2> QED BY <2>1, <2>2 DEF BodyInv
<1> QED BY <1>1, <1>2

LEMMA BodyIsSound == BodySpec => []BodyInv
<1>1. BodyInit => BodyInv
  BY BodyInitInv
<1>2. BodyInv /\ [\E r \in Request : ReadBody(r)]_bodyVars => BodyInv'
  BY ReadBodyInv
<1> QED BY <1>1, <1>2, PTL DEF BodySpec

\* BodyInv says of every read what the two invariants ask: with the frame that
\* crossed the limit left out, the data taken is the data passed.
LEMMA ReadsAsPromised ==
  ASSUME BodyInv
  PROVE  BufferIsTheDataTaken /\ RefusedForItsReason
<1> SUFFICES ASSUME NEW r \in Request
             PROVE  LET frames == body[r].frames
                        taken == DataOf(frames, polled[r])
                        kept == IF read[r] = "BodyTooLarge" /\ taken # <<>>
                                  THEN Front(taken) ELSE taken
                        announced == body[r].hint > limit
                    IN  /\ bytes[r].data = kept
                        /\ bytes[r].len = Length(kept)
                        /\ read[r] = "Ok" => polled[r] = Len(frames)
                        /\ read[r] = "BodyTooLarge" =>
                             IF announced THEN polled[r] = 0 ELSE Length(taken) > limit
                        /\ read[r] = "BodyRead" => frames[polled[r]].kind = "error"
                        /\ read[r] \in {"reading", "Ok", "BodyRead"} =>
                             ~ announced /\ Length(taken) <= limit
  BY DEF BufferIsTheDataTaken, RefusedForItsReason
<1> DEFINE frames == body[r].frames
           n == polled[r]
           taken == DataOf(frames, n)
<1>1. /\ frames \in Seq(Frame) /\ n \in 0 .. Len(frames) /\ Len(frames) \in Nat
      /\ limit \in Nat /\ ReadSound(r) /\ bytes[r].len = Length(bytes[r].data)
      /\ bytes[r].len <= limit /\ bytes[r].data = DataOf(frames, Passed(r))
  BY BodyTyped DEF ReadSound
<1>2. read[r] = "Ok" => n = Len(frames)
  BY <1>1 DEF ReadSound
<1>3. n > 0 => n \in 1 .. Len(frames) /\ n - 1 \in 0 .. Len(frames)
  BY <1>1
<1>4. taken \in Seq(Frame) /\ DataOf(frames, 0) = <<>>
  BY <1>1, DataOfTyped, DataOfStep
<1>5. CASE read[r] \notin {"BodyTooLarge", "BodyRead"}
  <2>1. Passed(r) = n
    BY <1>5 DEF Passed
  <2> QED BY <1>1, <1>2, <1>5, <2>1 DEF ReadSound, HintOverLimit
<1>6. CASE read[r] = "BodyRead"
  <2>1. n > 0 /\ frames[n].kind = "error" /\ Passed(r) = n - 1 /\ ~ (body[r].hint > limit)
    BY <1>1, <1>6 DEF ReadSound, Passed, HintOverLimit
  <2>2. taken = DataOf(frames, n - 1)
    BY <1>1, <1>3, <2>1, DataOfStep DEF IsData
  <2> QED BY <1>1, <1>6, <2>1, <2>2
<1>7. CASE read[r] = "BodyTooLarge" /\ body[r].hint > limit
  <2>1. n = 0 /\ Passed(r) = 0
    BY <1>1, <1>7 DEF ReadSound, Passed, HintOverLimit
  <2> QED BY <1>1, <1>4, <1>7, <2>1
<1>8. CASE read[r] = "BodyTooLarge" /\ ~ (body[r].hint > limit)
  <2>1. /\ n > 0 /\ IsData(frames[n]) /\ Passed(r) = n - 1
        /\ Length(taken) > limit
    BY <1>1, <1>8 DEF ReadSound, Passed, HintOverLimit
  <2>2. taken = Append(DataOf(frames, n - 1), frames[n])
    BY <1>1, <1>3, <2>1, DataOfStep
  <2>3. DataOf(frames, n - 1) \in Seq(Frame) /\ frames[n] \in Frame
    BY <1>1, <1>3, <2>1, DataOfTyped
  <2>4. taken # <<>> /\ Front(taken) = DataOf(frames, n - 1)
    BY <2>2, <2>3 DEF Front
  <2> QED BY <1>1, <1>8, <2>1, <2>4
<1> QED BY <1>5, <1>6, <1>7, <1>8

-----------------------------------------------------------------------------
(* Theorems *)

\* Every read keeps its cursor in its body and its length in usize.
THEOREM BodyTypeCorrect == BodySpec => []BodyTypeOK
<1>1. BodyInv => BodyTypeOK
  BY DEF BodyInv
<1> QED BY <1>1, BodyIsSound, PTL

\* However the transport cuts a body into frames, whatever it announced, and
\* however narrow usize is, no more than the limit is ever buffered.
THEOREM LimitHolds == BodySpec => []BufferedWithinLimit
<1>1. BodyInv => BufferedWithinLimit
  BY DEF BodyInv
<1> QED BY <1>1, BodyIsSound, PTL

\* For bodies of any length cut in any way, the accumulator is the data frames
\* taken, whole and in order, less the one that crossed the limit: a completed
\* read is the entire body.
THEOREM BufferIsTheData == BodySpec => []BufferIsTheDataTaken
<1>1. BodyInv => BufferIsTheDataTaken
  BY ReadsAsPromised
<1> QED BY <1>1, BodyIsSound, PTL

\* A body is refused as too large only if it announced or delivered more than
\* the limit, as unreadable only at a transport error, and is otherwise read.
THEOREM RefusedForTheReason == BodySpec => []RefusedForItsReason
<1>1. BodyInv => RefusedForItsReason
  BY ReadsAsPromised
<1> QED BY <1>1, BodyIsSound, PTL

-----------------------------------------------------------------------------
(* The receiver *)

\* Each place of a request comes after what it rests on: the headers before
\* the source, the verifier before the body, the whole body before the check,
\* the check before the handler, and the contract's answer before the end.
Sound(r) ==
  /\ pc[r] \notin {"start", "done", "dropped"} =>
       SignatureFault(request[r]) = "None" /\ MetaFault(request[r]) = "None"
  /\ pc[r] \in {"body", "authenticate", "handler"} => verifier[r] # NoVerifier
  /\ pc[r] \in {"start", "source"} => read[r] = "unread"
  /\ pc[r] = "body" => read[r] \in {"unread", "reading"}
  /\ pc[r] = "body" /\ ByBytes(r) => read[r] = "unread"
  /\ pc[r] = "authenticate" => read[r] = "Ok"
  /\ pc[r] \in {"start", "source", "body", "authenticate"} => handled[r] = NotHandled
  /\ pc[r] = "handler" => handled[r] # NotHandled /\ Faults(r) = {}
  /\ \A s \in verifier[r] : Owner[s] = request[r].target
  /\ read[r] # "unread" => Admitted(r)
  /\ handled[r] # NotHandled =>
       HandledIsVouchedFor(r) /\ handled[r].data = bytes[r].data /\ read[r] = "Ok"
  /\ pc[r] = "done" => AnsweredByTheContract(r)
  /\ (pc[r] # "done") = (answer[r] = NoAnswer)
  /\ failed_event[r] = (answer[r].status = 500)

ReceiverInv ==
  /\ ReceiverTypeOK
  /\ BodyInv
  /\ DOMAIN handled = Request
  /\ \A r \in Request : body[r] = request[r].body
  /\ \A r \in Request : Sound(r)

\* What is known of the type before a step.
LEMMA Typed ==
  ASSUME ReceiverInv, NEW r \in Request
  PROVE  /\ BodyTypeOK /\ BodyInv
         /\ request[r] \in Requests /\ request[r] \in RequestType
         /\ body[r] = request[r].body
         /\ pc[r] \in Place /\ pc \in [Request -> Place]
         /\ verifier \in [Request -> SUBSET Secret] /\ keys \in Stores
         /\ answer \in [Request -> AnswerType]
         /\ failed_event \in [Request -> BOOLEAN]
         /\ Sound(r) /\ DOMAIN handled = Request
BY RequestsAssumption DEF ReceiverInv, ReceiverTypeOK, BodyInv

\* Puts the type of the next state together.
LEMMA TypeKept ==
  ASSUME ReceiverInv, BodyTypeOK', handle_ping' = handle_ping, keys' \in Stores,
         changes' \in 0 .. MaxChanges, request' = request,
         pc' \in [Request -> Place], answer' \in [Request -> AnswerType],
         verifier' \in [Request -> SUBSET Secret], failed_event' \in [Request -> BOOLEAN]
  PROVE  ReceiverTypeOK'
BY DEF ReceiverInv, ReceiverTypeOK, AnswerType

-----------------------------------------------------------------------------
(* Answers *)

LEMMA RefusalTyped ==
  ASSUME NEW error \in Unauthorized \cup BadRequest \cup {"BodyTooLarge"}
  PROVE  Refusal(error) \in AnswerType
BY DEF Refusal, AnswerType, Unauthorized, BadRequest

\* Every fault the checks find is a refusal of the receiver.
LEMMA FaultsAreRefused ==
  ASSUME NEW q, NEW secrets, NEW data,
         NEW fault \in {SignatureFault(q), MetaFault(q), AuthenticateFault(q, secrets, data)},
         fault # "None"
  PROVE  fault \in Unauthorized \cup BadRequest \cup {"BodyTooLarge"}
<1>1. /\ SignatureFault(q) \in {"Missing", "Malformed", "None"}
      /\ MetaFault(q) \in {"None", "MissingHeader"}
  BY DEF SignatureFault, MetaFault
<1>2. AuthenticateFault(q, secrets, data)
        \in {"Missing", "Malformed", "Mismatch", "UnsupportedContentType",
             "None", "MissingHeader"}
  BY <1>1 DEF AuthenticateFault
<1> QED BY <1>1, <1>2 DEF Unauthorized, BadRequest

\* A refusal is answered as the contract has it when it is for the first fault
\* in the documented order.
LEMMA RefusedInOrder ==
  ASSUME NEW faults, NEW i \in 1 .. 8, Precedence[i][1] \in faults,
         \A j \in 1 .. i - 1 : Precedence[j][1] \notin faults
  PROVE  LET refusal == Refusal(Precedence[i][1])
         IN  /\ refusal.error = Precedence[FirstFault(faults)][1]
             /\ refusal.status = Precedence[FirstFault(faults)][2]
             /\ refusal.outcome = OutcomeOf(refusal.status)
             /\ refusal # NoAnswer /\ refusal.status # 500
             /\ refusal \in AnswerType
             /\ faults # {}
<1>1. DOMAIN Precedence = 1 .. 8
  BY DEF Precedence
<1>2. FirstFault(faults) = i
  <2> DEFINE First(k) == /\ k \in DOMAIN Precedence /\ Precedence[k][1] \in faults
                         /\ \A j \in 1 .. k - 1 : Precedence[j][1] \notin faults
  <2>1. First(i)
    BY <1>1
  <2>2. ASSUME NEW k, First(k)
        PROVE  k = i
    <3>1. k \in 1 .. 8
      BY <1>1, <2>2
    <3>2. ~ (k < i) /\ ~ (i < k)
      BY <2>1, <2>2, <3>1
    <3> QED BY <3>1, <3>2
  <2>3. FirstFault(faults) = CHOOSE k \in DOMAIN Precedence : First(k)
    BY DEF FirstFault
  <2> HIDE DEF First
  <2>4. i \in DOMAIN Precedence
    BY <1>1
  <2> QED BY <2>1, <2>2, <2>3, <2>4
<1>3. /\ Refusal(Precedence[i][1]).error = Precedence[i][1]
      /\ Refusal(Precedence[i][1]).status = Precedence[i][2]
      /\ Refusal(Precedence[i][1]).status \in {400, 401, 413}
      /\ Refusal(Precedence[i][1]) \in AnswerType
      /\ Refusal(Precedence[i][1]).outcome = OutcomeOf(Refusal(Precedence[i][1]).status)
  <2>1. i \in {1, 2, 3, 4, 5, 6, 7, 8}
    OBVIOUS
  <2> QED BY <2>1 DEF Refusal, Precedence, Unauthorized, BadRequest, OutcomeOf, AnswerType
<1>4. Refusal(Precedence[i][1]) # NoAnswer
  BY <1>3 DEF NoAnswer
<1> QED BY <1>2, <1>3, <1>4

\* A request is at fault for what the conditions name, each on its own.
LEMMA FaultsOf ==
  ASSUME NEW r
  PROVE  LET q == request[r]
             fault == BodyFault(body[r])
         IN  /\ "Missing" \in Faults(r) <=> q.signature.form = "absent"
             /\ "Malformed" \in Faults(r) <=> q.signature.form = "malformed"
             /\ "MissingHeader" \in Faults(r) <=> ~ q.delivery \/ q.event = "missing"
             /\ "UnknownTarget" \in Faults(r) <=> verifier[r] = NoVerifier
             /\ "BodyTooLarge" \in Faults(r) <=> fault = "BodyTooLarge"
             /\ "BodyRead" \in Faults(r) <=> fault = "BodyRead"
             /\ "Mismatch" \in Faults(r) <=>
                  ~ (/\ q.signature.form = "signature" /\ q.signature.by \in verifier[r]
                     /\ q.signature.over = WholeBody(r))
             /\ "UnsupportedContentType" \in Faults(r) <=> ~ q.json
             /\ Faults(r) \subseteq {"Missing", "Malformed", "MissingHeader", "UnknownTarget",
                  "BodyTooLarge", "BodyRead", "Mismatch", "UnsupportedContentType"}
BY DEF Faults

\* Past the headers and the source, the first four checks found no fault.
LEMMA AdmittedFaults ==
  ASSUME ReceiverInv, NEW r \in Request, Admitted(r)
  PROVE  /\ request[r].signature.form = "signature"
         /\ {"Missing", "Malformed", "MissingHeader", "UnknownTarget"} \cap Faults(r) = {}
<1>1. request[r].signature.form = "signature"
  <2>1. request[r].signature \in Signature
    BY Typed DEF RequestType
  <2>2. request[r].signature.form \in {"absent", "malformed", "signature"}
    BY <2>1 DEF Signature
  <2> QED BY <2>2 DEF Admitted, SignatureFault
<1>2. request[r].delivery /\ request[r].event # "missing" /\ verifier[r] # NoVerifier
  BY DEF Admitted, MetaFault
<1> QED BY <1>1, <1>2, FaultsOf

\* Why a body is refused, from the first frame that no read passes.
LEMMA BodyFaultOf ==
  ASSUME NEW b \in Body, limit \in Nat, NEW n \in 0 .. Len(b.frames),
         \A i \in 1 .. n : b.frames[i].kind # "error" /\ Length(DataOf(b.frames, i)) <= limit
  PROVE  /\ b.hint > limit => BodyFault(b) = "BodyTooLarge"
         /\ ~ (b.hint > limit) =>
              /\ n = Len(b.frames) => BodyFault(b) = "None"
              /\ n + 1 <= Len(b.frames) =>
                   /\ b.frames[n + 1].kind = "error" => BodyFault(b) = "BodyRead"
                   /\ IsData(b.frames[n + 1]) /\ Length(DataOf(b.frames, n + 1)) > limit =>
                        BodyFault(b) = "BodyTooLarge"
<1> DEFINE errors == {i \in DOMAIN b.frames : b.frames[i].kind = "error"}
           crossed == {m \in DOMAIN b.frames : Length(DataOf(b.frames, m)) > limit}
<1>1. b.frames \in Seq(Frame) /\ DOMAIN b.frames = 1 .. Len(b.frames) /\ Len(b.frames) \in Nat
  BY DEF Body
<1>2. BodyFault(b) =
        IF b.hint > limit THEN "BodyTooLarge"
        ELSE IF \E m \in crossed : \A i \in errors : m < i THEN "BodyTooLarge"
        ELSE IF errors # {} THEN "BodyRead"
        ELSE "None"
  BY DEF BodyFault
<1>3. \A m \in 0 .. Len(b.frames) : Length(DataOf(b.frames, m)) \in Nat
  BY <1>1, DataOfTyped
<1>4. ASSUME NEW i \in errors
      PROVE  i \in 1 .. Len(b.frames) /\ i > n
  BY <1>1
<1>5. ASSUME NEW m \in crossed
      PROVE  m \in 1 .. Len(b.frames) /\ m > n
  <2>1. m \in 1 .. Len(b.frames) /\ Length(DataOf(b.frames, m)) > limit
    BY <1>1
  <2>2. ~ (m \in 1 .. n)
    <3>1. Length(DataOf(b.frames, m)) \in Nat
      BY <1>3, <2>1
    <3> QED BY <2>1, <3>1
  <2> QED BY <2>1, <2>2
<1>6. ASSUME n = Len(b.frames)
      PROVE  errors = {} /\ crossed = {}
  <2> HIDE DEF errors, crossed
  <2> QED BY <1>1, <1>4, <1>5, <1>6
<1>7. ASSUME n + 1 <= Len(b.frames), b.frames[n + 1].kind = "error"
      PROVE  n + 1 \in errors /\ \A m \in crossed : ~ (m < n + 1)
  <2>1. n + 1 \in errors
    BY <1>1, <1>7
  <2> HIDE DEF crossed
  <2> QED BY <1>5, <2>1
<1>8. ASSUME n + 1 <= Len(b.frames), IsData(b.frames[n + 1]),
             Length(DataOf(b.frames, n + 1)) > limit
      PROVE  n + 1 \in crossed /\ \A i \in errors : n + 1 < i
  <2>1. n + 1 \in crossed
    BY <1>1, <1>8
  <2>2. ~ (n + 1 \in errors)
    BY <1>8 DEF IsData
  <2> HIDE DEF errors
  <2> QED BY <1>4, <2>1, <2>2
<1> HIDE DEF errors, crossed
<1>9. ~ (b.hint > limit) /\ n = Len(b.frames) => BodyFault(b) = "None"
  BY <1>2, <1>6
<1>10. ~ (b.hint > limit) /\ n + 1 <= Len(b.frames) /\ b.frames[n + 1].kind = "error" =>
         BodyFault(b) = "BodyRead"
  BY <1>2, <1>7
<1>11. ASSUME ~ (b.hint > limit), n + 1 <= Len(b.frames), IsData(b.frames[n + 1]),
              Length(DataOf(b.frames, n + 1)) > limit
       PROVE  BodyFault(b) = "BodyTooLarge"
  <2>1. \E m \in crossed : \A i \in errors : m < i
    BY <1>8, <1>11
  <2> QED BY <1>2, <1>11, <2>1
<1> QED BY <1>2, <1>9, <1>10, <1>11

\* A read ends with what is wrong with the body, and a completed one holds it.
LEMMA EndedForItsFault ==
  ASSUME BodyInv, NEW r \in Request
  PROVE  /\ read[r] = "Ok" => /\ BodyFault(body[r]) = "None" /\ bytes[r].data = WholeBody(r)
                              /\ Length(bytes[r].data) <= limit
         /\ read[r] \in {"BodyTooLarge", "BodyRead"} => BodyFault(body[r]) = read[r]
<1> DEFINE b == body[r]
           n == Passed(r)
<1>1. /\ b \in Body /\ limit \in Nat /\ polled[r] \in 0 .. Len(b.frames) /\ ReadSound(r)
      /\ Len(b.frames) \in Nat /\ bytes[r].len <= limit
  BY BodyTyped DEF BodyInv, BodyTypeOK
<1>2. /\ n \in 0 .. Len(b.frames)
      /\ \A i \in 1 .. n : b.frames[i].kind # "error" /\ Length(DataOf(b.frames, i)) <= limit
  BY <1>1 DEF ReadSound, Passed
<1>3. CASE read[r] = "Ok"
  <2>1. n = Len(b.frames) /\ ~ (b.hint > limit)
    BY <1>1, <1>3 DEF ReadSound, Passed, HintOverLimit
  <2>2. BodyFault(b) = "None"
    <3> HIDE DEF b, n
    <3> QED BY <1>1, <1>2, <2>1, BodyFaultOf
  <2> QED BY <1>1, <1>3, <2>1, <2>2 DEF ReadSound, WholeBody
<1>4. CASE read[r] = "BodyRead"
  <2>1. n + 1 <= Len(b.frames) /\ b.frames[n + 1].kind = "error" /\ ~ (b.hint > limit)
    BY <1>1, <1>4 DEF ReadSound, Passed, HintOverLimit
  <2>2. BodyFault(b) = "BodyRead"
    <3> HIDE DEF b, n
    <3> QED BY <1>1, <1>2, <2>1, BodyFaultOf
  <2> QED BY <1>4, <2>2
<1>5. CASE read[r] = "BodyTooLarge"
  <2>1. \/ b.hint > limit
        \/ /\ ~ (b.hint > limit) /\ n + 1 <= Len(b.frames) /\ IsData(b.frames[n + 1])
           /\ Length(DataOf(b.frames, n + 1)) > limit
    BY <1>1, <1>5 DEF ReadSound, Passed, HintOverLimit
  <2>2. BodyFault(b) = "BodyTooLarge"
    <3> HIDE DEF b, n
    <3> QED BY <1>1, <1>2, <2>1, BodyFaultOf
  <2> QED BY <1>5, <2>2
<1> QED BY <1>3, <1>4, <1>5

-----------------------------------------------------------------------------
(* What a step of one request leaves alone *)

\* Request r moved on, and no other.
OnlyRequest(r) ==
  /\ handle_ping' = handle_ping /\ request' = request /\ body' = body /\ limit' = limit
  /\ \A q \in Request \ {r} :
       /\ pc'[q] = pc[q] /\ verifier'[q] = verifier[q] /\ handled'[q] = handled[q]
       /\ read'[q] = read[q] /\ bytes'[q] = bytes[q]
       /\ answer'[q] = answer[q] /\ failed_event'[q] = failed_event[q]

\* A request is judged by what it carries, its verifier and the limit.
LEMMA FaultsKept ==
  ASSUME NEW r \in Request, request'[r] = request[r], body'[r] = body[r],
         verifier'[r] = verifier[r], limit' = limit
  PROVE  Faults(r)' = Faults(r)
<1>1. BodyFault(body[r])' = BodyFault(body[r])
  BY DEF BodyFault
<1>2. WholeBody(r)' = WholeBody(r)
  BY DEF WholeBody
<1> QED BY <1>1, <1>2 DEF Faults

LEMMA SoundKept ==
  ASSUME NEW r \in Request, Sound(r), limit' = limit, body'[r] = body[r],
         handle_ping' = handle_ping, request'[r] = request[r],
         pc'[r] = pc[r], verifier'[r] = verifier[r], handled'[r] = handled[r],
         read'[r] = read[r], bytes'[r] = bytes[r], answer'[r] = answer[r],
         failed_event'[r] = failed_event[r]
  PROVE  Sound(r)'
<1>1. Faults(r)' = Faults(r)
  BY FaultsKept
<1>2. AnsweredByTheContract(r)' = AnsweredByTheContract(r)
  BY <1>1 DEF AnsweredByTheContract
<1>3. HandledIsVouchedFor(r)' = HandledIsVouchedFor(r) /\ Admitted(r)' = Admitted(r)
  BY DEF HandledIsVouchedFor, Admitted
<1> QED BY <1>1, <1>2, <1>3 DEF Sound, ByBytes

LEMMA OthersSound ==
  ASSUME ReceiverInv, NEW r \in Request, OnlyRequest(r), Sound(r)'
  PROVE  (\A q \in Request : Sound(q))'
<1>1. ASSUME NEW q \in Request \ {r}
      PROVE  Sound(q)'
  BY SoundKept DEF OnlyRequest, ReceiverInv
<1> QED BY <1>1

LEMMA Responded ==
  ASSUME ReceiverInv, NEW r \in Request, NEW response \in AnswerType, Respond(r, response)
  PROVE  /\ pc' \in [Request -> Place] /\ pc'[r] = "done"
         /\ answer' \in [Request -> AnswerType] /\ answer'[r] = response
         /\ \A q \in Request \ {r} : pc'[q] = pc[q] /\ answer'[q] = answer[q]
<1>1. "done" \in Place
  BY DEF Place
<1> QED BY <1>1, Typed DEF Respond

LEMMA Gone ==
  ASSUME ReceiverInv, NEW r \in Request, NEW place \in Place, Goto(r, place)
  PROVE  /\ pc' \in [Request -> Place] /\ pc'[r] = place
         /\ answer' = answer /\ answer' \in [Request -> AnswerType]
         /\ \A q \in Request \ {r} : pc'[q] = pc[q]
BY Typed DEF Goto

\* Nothing is answered, and no failed delivery reported, before the end.
LEMMA NotYetAnswered ==
  ASSUME ReceiverInv, NEW r \in Request, pc[r] # "done"
  PROVE  answer[r] = NoAnswer /\ failed_event[r] = FALSE
BY Typed DEF Sound, NoAnswer

\* A request that goes on, or is dropped, stays unanswered.
LEMMA WentOn ==
  ASSUME ReceiverInv, NEW r \in Request, NEW place \in Place, pc[r] # "done",
         Goto(r, place), failed_event' = failed_event
  PROVE  /\ pc' \in [Request -> Place] /\ pc'[r] = place
         /\ answer' \in [Request -> AnswerType] /\ answer'[r] = NoAnswer
         /\ \A q \in Request \ {r} : pc'[q] = pc[q] /\ answer'[q] = answer[q]
         /\ failed_event'[r] = (answer'[r].status = 500)
<1>1. answer[r] = NoAnswer /\ failed_event[r] = (answer[r].status = 500)
  BY Typed DEF Sound
<1> QED BY <1>1, Gone

\* The same of every read, as a formula about any state.
EndedForTheirFaults ==
  \A s \in Request :
    read[s] \in {"BodyTooLarge", "BodyRead"} => BodyFault(body[s]) = read[s]

LEMMA ReadsEndForTheirFaults == BodyInv => EndedForTheirFaults
BY EndedForItsFault DEF EndedForTheirFaults

\* r is refused for the i-th entry of the documented order, its first fault.
LEMMA RefusalFollowsTheContract ==
  ASSUME ReceiverInv, NEW r \in Request, NEW i \in 1 .. 8, pc[r] # "done",
         Respond(r, Refusal(Precedence[i][1])),
         Precedence[i][1] \in Faults(r)',
         \A j \in 1 .. i - 1 : Precedence[j][1] \notin Faults(r)',
         handled'[r] = NotHandled, failed_event' = failed_event
  PROVE  /\ pc' \in [Request -> Place] /\ pc'[r] = "done"
         /\ answer' \in [Request -> AnswerType] /\ answer'[r] # NoAnswer
         /\ \A q \in Request \ {r} : pc'[q] = pc[q] /\ answer'[q] = answer[q]
         /\ AnsweredByTheContract(r)'
         /\ failed_event'[r] = (answer'[r].status = 500)
<1> DEFINE refusal == Refusal(Precedence[i][1])
           faults == Faults(r)'
<1>1. /\ refusal.error = Precedence[FirstFault(faults)][1]
      /\ refusal.status = Precedence[FirstFault(faults)][2]
      /\ refusal.outcome = OutcomeOf(refusal.status)
      /\ refusal # NoAnswer /\ refusal.status # 500 /\ refusal \in AnswerType
      /\ faults # {}
  <2> HIDE DEF faults
  <2> QED BY RefusedInOrder DEF faults
<1>2. /\ pc' \in [Request -> Place] /\ pc'[r] = "done"
      /\ answer' \in [Request -> AnswerType] /\ answer'[r] = refusal
      /\ \A q \in Request \ {r} : pc'[q] = pc[q] /\ answer'[q] = answer[q]
  BY <1>1, Responded
<1> HIDE DEF refusal
<1>3. AnsweredByTheContract(r)'
  BY <1>1, <1>2 DEF AnsweredByTheContract
<1>4. failed_event'[r] = (answer'[r].status = 500)
  <2>1. failed_event'[r] = FALSE
    BY NotYetAnswered, Zenon
  <2>2. (answer'[r].status = 500) = FALSE
    BY <1>1, <1>2
  <2> QED BY <2>1, <2>2, Zenon
<1> QED BY <1>1, <1>2, <1>3, <1>4

-----------------------------------------------------------------------------
(* The steps of a request *)

LEMMA ReceiveHeadersInv ==
  ASSUME ReceiverInv, NEW r \in Request, ReceiveHeaders(r)
  PROVE  ReceiverInv'
<1> DEFINE q == request[r]
<1>1. /\ pc[r] = "start" /\ UNCHANGED <<handle_ping, keys, changes, request, verifier, handled,
                                        failed_event, bodyVars>>
      /\ \/ SignatureFault(q) # "None" /\ Respond(r, Refusal(SignatureFault(q)))
         \/ /\ SignatureFault(q) = "None" /\ MetaFault(q) # "None"
            /\ Respond(r, Refusal(MetaFault(q)))
         \/ SignatureFault(q) = "None" /\ MetaFault(q) = "None" /\ Goto(r, "source")
  BY DEF ReceiveHeaders
<1>2. /\ Faults(r)' = Faults(r) /\ handled'[r] = NotHandled /\ pc[r] # "done"
      /\ read'[r] = "unread"
  BY <1>1, FaultsKept, Typed DEF bodyVars, Sound
<1>3. /\ pc' \in [Request -> Place] /\ answer' \in [Request -> AnswerType]
      /\ \A s \in Request \ {r} : pc'[s] = pc[s] /\ answer'[s] = answer[s]
      /\ failed_event'[r] = (answer'[r].status = 500)
      /\ \/ /\ pc'[r] = "done" /\ answer'[r] # NoAnswer
            /\ AnsweredByTheContract(r)'
         \/ /\ pc'[r] = "source" /\ answer'[r] = NoAnswer
            /\ SignatureFault(q) = "None" /\ MetaFault(q) = "None"
  <2>1. CASE q.signature.form = "absent" /\ Respond(r, Refusal("Missing"))
    <3>1. "Missing" \in Faults(r)'
      BY <1>2, <2>1, FaultsOf
    <3>2. Precedence[1][1] = "Missing" /\ 1 \in 1 .. 8 /\ \A j \in 1 .. 1 - 1 : FALSE
      BY DEF Precedence
    <3> QED BY <1>1, <1>2, <2>1, <3>1, <3>2, RefusalFollowsTheContract
  <2>2. CASE q.signature.form = "malformed" /\ Respond(r, Refusal("Malformed"))
    <3>1. "Malformed" \in Faults(r)' /\ "Missing" \notin Faults(r)'
      BY <1>2, <2>2, FaultsOf
    <3>2. /\ Precedence[2][1] = "Malformed" /\ 2 \in 1 .. 8
          /\ \A j \in 1 .. 2 - 1 : Precedence[j][1] = "Missing"
      BY DEF Precedence
    <3> QED BY <1>1, <1>2, <2>2, <3>1, <3>2, RefusalFollowsTheContract
  <2>3. CASE /\ SignatureFault(q) = "None" /\ MetaFault(q) # "None"
             /\ Respond(r, Refusal(MetaFault(q)))
    <3>1. /\ "MissingHeader" \in Faults(r)'
          /\ "Missing" \notin Faults(r)' /\ "Malformed" \notin Faults(r)'
      BY <1>2, <2>3, FaultsOf DEF SignatureFault, MetaFault
    <3>2. /\ Precedence[3][1] = "MissingHeader" /\ 3 \in 1 .. 8
          /\ \A j \in 1 .. 3 - 1 : Precedence[j][1] \in {"Missing", "Malformed"}
      BY DEF Precedence
    <3>3. MetaFault(q) = "MissingHeader"
      BY <2>3 DEF MetaFault
    <3> QED BY <1>1, <1>2, <2>3, <3>1, <3>2, <3>3, RefusalFollowsTheContract
  <2>4. CASE SignatureFault(q) = "None" /\ MetaFault(q) = "None" /\ Goto(r, "source")
    <3>1. "source" \in Place
      BY DEF Place
    <3> QED BY <1>1, <1>2, <2>4, <3>1, WentOn
  <2>5. SignatureFault(q) # "None" =>
          \/ q.signature.form = "absent" /\ SignatureFault(q) = "Missing"
          \/ q.signature.form = "malformed" /\ SignatureFault(q) = "Malformed"
    BY DEF SignatureFault
  <2> QED BY <1>1, <2>1, <2>2, <2>3, <2>4, <2>5
<1>4. OnlyRequest(r)
  BY <1>1, <1>3 DEF OnlyRequest, bodyVars
<1>5. Sound(r)'
  BY <1>1, <1>2, <1>3, Typed DEF Sound
<1>6. BodyInv' /\ BodyTypeOK'
  BY <1>1, Typed, ReadBodyInv DEF BodyInv
<1>7. ReceiverTypeOK'
  BY <1>1, <1>3, <1>6, TypeKept DEF ReceiverInv, ReceiverTypeOK
<1> QED BY <1>1, <1>4, <1>5, <1>6, <1>7, OthersSound DEF ReceiverInv, bodyVars

\* The verifier is what the store held for the claimed target, each of whose
\* secrets is that target's own.
LEMMA SourceAnswersInv ==
  ASSUME ReceiverInv, NEW r \in Request, SourceAnswers(r)
  PROVE  ReceiverInv'
<1> DEFINE found == keys[request[r].target]
           q == request[r]
<1>1. /\ pc[r] = "source" /\ verifier' = [verifier EXCEPT ![r] = found]
      /\ UNCHANGED <<handle_ping, keys, changes, request, handled, failed_event, bodyVars>>
      /\ \/ found = NoVerifier /\ Respond(r, Refusal("UnknownTarget"))
         \/ found # NoVerifier /\ Goto(r, "body")
  BY DEF SourceAnswers, Asked
<1>2. found \in SUBSET Secret /\ \A s \in found : Owner[s] = q.target
  <2>1. request[r].target \in Target
    BY Typed DEF RequestType
  <2> QED BY <2>1, Typed DEF Stores
<1>3. /\ verifier' \in [Request -> SUBSET Secret] /\ verifier'[r] = found
      /\ \A s \in Request \ {r} : verifier'[s] = verifier[s]
  BY <1>1, <1>2, Typed
<1>4. /\ SignatureFault(q) = "None" /\ MetaFault(q) = "None" /\ pc[r] # "done"
      /\ read'[r] = "unread" /\ handled'[r] = NotHandled
  BY <1>1, Typed DEF Sound, bodyVars
<1>5. /\ pc' \in [Request -> Place] /\ answer' \in [Request -> AnswerType]
      /\ \A s \in Request \ {r} : pc'[s] = pc[s] /\ answer'[s] = answer[s]
      /\ failed_event'[r] = (answer'[r].status = 500)
      /\ \/ pc'[r] = "done" /\ answer'[r] # NoAnswer /\ AnsweredByTheContract(r)'
         \/ pc'[r] = "body" /\ answer'[r] = NoAnswer /\ found # NoVerifier
  <2>1. CASE found = NoVerifier /\ Respond(r, Refusal("UnknownTarget"))
    <3>1. /\ q.signature.form \notin {"absent", "malformed"}
          /\ q.delivery /\ q.event # "missing" /\ q = request'[r]
      BY <1>1, <1>4 DEF SignatureFault, MetaFault
    <3>2. /\ "UnknownTarget" \in Faults(r)'
          /\ {"Missing", "Malformed", "MissingHeader"} \cap Faults(r)' = {}
      BY <1>3, <2>1, <3>1 DEF Faults
    <3>3. /\ Precedence[4][1] = "UnknownTarget" /\ 4 \in 1 .. 8
          /\ \A j \in 1 .. 4 - 1 :
               Precedence[j][1] \in {"Missing", "Malformed", "MissingHeader"}
      BY DEF Precedence
    <3>4. \A j \in 1 .. 4 - 1 : Precedence[j][1] \notin Faults(r)'
      BY <3>2, <3>3
    <3> QED BY <1>1, <1>4, <2>1, <3>2, <3>3, <3>4, RefusalFollowsTheContract
  <2>2. CASE found # NoVerifier /\ Goto(r, "body")
    <3>1. "body" \in Place
      BY DEF Place
    <3> QED BY <1>1, <1>4, <2>2, <3>1, WentOn
  <2> QED BY <1>1, <2>1, <2>2
<1>6. OnlyRequest(r)
  BY <1>1, <1>3, <1>5 DEF OnlyRequest, bodyVars
<1>7. Sound(r)'
  BY <1>1, <1>2, <1>3, <1>4, <1>5 DEF Sound
<1>8. BodyInv' /\ BodyTypeOK'
  BY <1>1, Typed, ReadBodyInv DEF BodyInv
<1>9. ReceiverTypeOK'
  BY <1>1, <1>3, <1>5, <1>8, TypeKept DEF ReceiverInv, ReceiverTypeOK
<1> QED BY <1>1, <1>6, <1>7, <1>8, <1>9, OthersSound DEF ReceiverInv, bodyVars

\* A step on the body of an admitted request: it goes on, the body is whole, or
\* the request is refused for what the read ended with.
LEMMA BodyStep ==
  ASSUME ReceiverInv, NEW r \in Request, pc[r] = "body",
         UNCHANGED <<limit, body, handle_ping, keys, changes, request, verifier, handled,
                     failed_event>>,
         BodyInv',
         \A q \in Request \ {r} : read'[q] = read[q] /\ bytes'[q] = bytes[q],
         \/ read'[r] = "reading" /\ ~ ByBytes(r) /\ Goto(r, "body")
         \/ read'[r] = "Ok" /\ Goto(r, "authenticate")
         \/ read'[r] \in {"BodyTooLarge", "BodyRead"} /\ Respond(r, Refusal(read'[r]))
  PROVE  ReceiverInv'
<1>1. /\ SignatureFault(request[r]) = "None" /\ MetaFault(request[r]) = "None"
      /\ verifier[r] # NoVerifier /\ handled[r] = NotHandled
      /\ \A s \in verifier[r] : Owner[s] = request[r].target
  BY Typed DEF Sound
<1>2. Admitted(r) /\ Admitted(r)'
  BY <1>1 DEF Admitted
<1>3. Faults(r)' = Faults(r)
  BY FaultsKept
<1>4. /\ pc' \in [Request -> Place] /\ answer' \in [Request -> AnswerType]
      /\ \A q \in Request \ {r} : pc'[q] = pc[q] /\ answer'[q] = answer[q]
      /\ failed_event'[r] = (answer'[r].status = 500)
      /\ \/ /\ pc'[r] = "body" /\ answer'[r] = NoAnswer /\ read'[r] = "reading"
            /\ ~ ByBytes(r)
         \/ pc'[r] = "authenticate" /\ answer'[r] = NoAnswer /\ read'[r] = "Ok"
         \/ pc'[r] = "done" /\ answer'[r] # NoAnswer /\ AnsweredByTheContract(r)'
  <2>1. "body" \in Place /\ "authenticate" \in Place
    BY DEF Place
  <2>2. CASE read'[r] = "reading" /\ ~ ByBytes(r) /\ Goto(r, "body")
    BY <2>1, <2>2, WentOn
  <2>3. CASE read'[r] = "Ok" /\ Goto(r, "authenticate")
    BY <2>1, <2>3, WentOn
  <2>4. CASE read'[r] \in {"BodyTooLarge", "BodyRead"} /\ Respond(r, Refusal(read'[r]))
    <3>1. BodyFault(body[r]) = read'[r]
      <4>1. BodyInv' => EndedForTheirFaults'
        BY ReadsEndForTheirFaults, PTL
      <4>2. BodyFault(body[r])' = BodyFault(body[r])
        BY DEF BodyFault
      <4> QED BY <2>4, <4>1, <4>2 DEF EndedForTheirFaults
    <3>2. \A name \in {"Missing", "Malformed", "MissingHeader", "UnknownTarget"} :
            name \notin Faults(r)'
      BY <1>2, <1>3, AdmittedFaults
    <3>3. PICK i \in {5, 6} : /\ Precedence[i][1] = read'[r]
                              /\ i = 6 => Precedence[5][1] # read'[r]
      BY <2>4 DEF Precedence
    <3>4. read'[r] \in Faults(r)' /\ (i = 6 => "BodyTooLarge" \notin Faults(r)')
      BY <1>3, <2>4, <3>1, <3>3, FaultsOf DEF Precedence
    <3>5. \A j \in 1 .. i - 1 : Precedence[j][1] \notin Faults(r)'
      <4>1. \A j \in 1 .. i - 1 : j \in {1, 2, 3, 4} \/ (i = 6 /\ j = 5)
        BY <3>3
      <4>2. /\ Precedence[1][1] = "Missing" /\ Precedence[2][1] = "Malformed"
            /\ Precedence[3][1] = "MissingHeader" /\ Precedence[4][1] = "UnknownTarget"
            /\ Precedence[5][1] = "BodyTooLarge"
        BY DEF Precedence
      <4> QED BY <3>2, <3>4, <4>1, <4>2
    <3>6. i \in 1 .. 8
      BY <3>3
    <3> QED BY <1>1, <2>4, <3>3, <3>4, <3>5, <3>6, RefusalFollowsTheContract
  <2> QED BY <2>2, <2>3, <2>4
<1>5. OnlyRequest(r)
  BY <1>4 DEF OnlyRequest
<1>6. Sound(r)'
  BY <1>1, <1>2, <1>4 DEF Sound, ByBytes
<1>7. ReceiverTypeOK'
  BY <1>4, TypeKept DEF ReceiverInv, ReceiverTypeOK, BodyInv
<1> QED BY <1>5, <1>6, <1>7, OthersSound DEF ReceiverInv

LEMMA ReadRequestBodyInv ==
  ASSUME ReceiverInv, NEW r \in Request, ReadRequestBody(r)
  PROVE  ReceiverInv'
<1>1. /\ pc[r] = "body" /\ ReadBody(r) /\ request[r].path = "request"
      /\ UNCHANGED <<handle_ping, keys, changes, request, verifier, handled, failed_event>>
      /\ \/ read'[r] = "reading" /\ Goto(r, "body")
         \/ read'[r] = "Ok" /\ Goto(r, "authenticate")
         \/ read'[r] \notin {"reading", "Ok"} /\ Respond(r, Refusal(read'[r]))
  BY DEF ReadRequestBody, ByRequest
<1>2. BodyInv'
  BY <1>1, Typed, ReadBodyInv
<1>3. /\ UNCHANGED <<limit, body>>
      /\ \A q \in Request \ {r} : read'[q] = read[q] /\ bytes'[q] = bytes[q]
      /\ read'[r] \in {"reading", "Ok", "BodyTooLarge", "BodyRead"}
  BY <1>1, Typed DEF ReadBody, StartRead, NextFrame, EndOfBody, BodyTypeOK
<1>4. ~ ByBytes(r)
  BY <1>1 DEF ByBytes
<1> QED BY <1>1, <1>2, <1>3, <1>4, BodyStep

\* The bytes path reads its one frame at once.
LEMMA CheckBytesInv ==
  ASSUME ReceiverInv, NEW r \in Request, CheckBytes(r)
  PROVE  ReceiverInv'
<1> DEFINE whole == body[r].frames
<1>1. /\ pc[r] = "body" /\ request[r].path = "bytes" /\ polled' = [polled EXCEPT ![r] = 1]
      /\ UNCHANGED <<limit, body, handle_ping, keys, changes, request, verifier, handled,
                     failed_event>>
      /\ \/ /\ whole[1].size > limit /\ read' = [read EXCEPT ![r] = "BodyTooLarge"]
            /\ Respond(r, Refusal("BodyTooLarge")) /\ bytes' = bytes
         \/ /\ whole[1].size <= limit /\ read' = [read EXCEPT ![r] = "Ok"]
            /\ bytes' = [bytes EXCEPT ![r] = [data |-> whole, len |-> whole[1].size]]
            /\ Goto(r, "authenticate")
  BY DEF CheckBytes, ByBytes
<1>2. /\ Len(whole) = 1 /\ IsData(whole[1]) /\ body[r].hint = 0
  BY <1>1, Typed, RequestsAssumption
<1>3. /\ whole \in Seq(Frame) /\ whole[1] \in Frame /\ whole[1].size \in Nat
      /\ limit \in Nat /\ limit \in Limits /\ limit <= MaxUsize /\ MaxUsize \in Nat
      /\ ~ HintOverLimit(body[r].hint)
  <2>1. whole \in Seq(Frame) /\ limit \in Nat /\ limit <= MaxUsize
    BY Typed, BodyTyped
  <2>2. whole[1] \in Frame
    BY <1>2, <2>1
  <2>3. limit \in Limits
    BY Typed DEF BodyTypeOK
  <2> QED BY <1>2, <2>1, <2>2, <2>3, WidthAssumption DEF Frame, HintOverLimit
<1>4. DataOf(whole, 0) = <<>> /\ DataOf(whole, 1) = whole /\ Length(whole) = whole[1].size
  <2>1. DataOf(whole, 0) = <<>> /\ DataOf(whole, 1) = Append(DataOf(whole, 0), whole[1])
    <3>1. 1 \in 1 .. Len(whole) /\ 1 - 1 = 0
      BY <1>2
    <3> QED BY <1>2, <1>3, <3>1, DataOfStep
  <2>2. whole = Append(<<>>, whole[1])
    BY <1>2, <1>3
  <2>3. Length(Append(<<>>, whole[1])) = 0 + whole[1].size
    <3>1. <<>> \in Seq(Frame)
      OBVIOUS
    <3> QED BY <1>3, <3>1, LengthOfNone, LengthOfAppend
  <2> QED BY <1>3, <2>1, <2>2, <2>3
<1>5. bytes[r].data = <<>> /\ bytes[r].len = 0
  <2>1. read[r] = "unread" /\ ReadSound(r)
    BY <1>1, Typed, BodyTyped DEF Sound, ByBytes
  <2>2. Passed(r) = 0
    BY <2>1 DEF ReadSound, Passed
  <2> QED BY <1>4, <2>1, <2>2, LengthOfNone DEF ReadSound
<1>6. /\ polled'[r] = 1 /\ \A q \in Request \ {r} : polled'[q] = polled[q]
      /\ polled' \in [Request -> Nat] /\ \A q \in Request : polled'[q] <= Len(body[q].frames)
  BY <1>1, <1>2, Typed DEF BodyTypeOK
<1> HIDE DEF whole
<1>7. CASE /\ whole[1].size > limit /\ read' = [read EXCEPT ![r] = "BodyTooLarge"]
           /\ Respond(r, Refusal("BodyTooLarge")) /\ bytes' = bytes
  <2>1. read'[r] = "BodyTooLarge" /\ \A q \in Request \ {r} : read'[q] = read[q]
    BY <1>7, Typed DEF BodyTypeOK
  <2>2. BodyTypeOK' /\ BufferedWithinLimit'
    BY <1>1, <1>6, <1>7, Typed DEF BodyTypeOK, BodyInv, BufferedWithinLimit
  <2>3. ReadSound(r)'
    <3>1. Passed(r)' = 0
      BY <1>6, <2>1 DEF Passed
    <3>2. /\ bytes'[r] = bytes[r] /\ body'[r] = body[r] /\ body[r].frames = whole
          /\ limit' = limit
      BY <1>1, <1>7 DEF whole
    <3> QED BY <1>2, <1>3, <1>4, <1>5, <1>6, <1>7, <2>1, <3>1, <3>2, LengthOfNone
            DEF ReadSound, HintOverLimit
  <2>4. \A q \in Request \ {r} : ReadSound(q)'
    BY <1>1, <1>6, <1>7, <2>1, ReadSoundKept, Typed DEF BodyInv
  <2>5. BodyInv'
    BY <2>2, <2>3, <2>4 DEF BodyInv
  <2> QED BY <1>1, <1>7, <2>1, <2>5, BodyStep
<1>8. CASE /\ whole[1].size <= limit /\ read' = [read EXCEPT ![r] = "Ok"]
           /\ bytes' = [bytes EXCEPT ![r] = [data |-> whole, len |-> whole[1].size]]
           /\ Goto(r, "authenticate")
  <2>1. read'[r] = "Ok" /\ \A q \in Request \ {r} : read'[q] = read[q]
    BY <1>8, Typed DEF BodyTypeOK
  <2>2. /\ bytes' \in [Request -> [data : Seq(Frame), len : 0 .. MaxUsize]]
        /\ bytes'[r] = [data |-> whole, len |-> whole[1].size]
        /\ \A q \in Request \ {r} : bytes'[q] = bytes[q]
    BY <1>3, <1>8, Typed DEF BodyTypeOK
  <2>3. BodyTypeOK' /\ BufferedWithinLimit'
    BY <1>1, <1>6, <1>8, <2>2, Typed DEF BodyTypeOK, BodyInv, BufferedWithinLimit
  <2>4. ReadSound(r)'
    <3>1. Passed(r)' = 1
      BY <1>6, <2>1 DEF Passed
    <3>2. body'[r] = body[r] /\ body[r].frames = whole /\ limit' = limit
      BY <1>1 DEF whole
    <3>3. \A i \in 1 .. 1 : whole[i].kind # "error" /\ Length(DataOf(whole, i)) <= limit
      BY <1>2, <1>4, <1>8 DEF IsData
    <3> QED BY <1>2, <1>3, <1>4, <1>6, <2>1, <2>2, <3>1, <3>2, <3>3
            DEF ReadSound, HintOverLimit
  <2>5. \A q \in Request \ {r} : ReadSound(q)'
    BY <1>1, <1>6, <2>1, <2>2, ReadSoundKept, Typed DEF BodyInv
  <2>6. BodyInv'
    BY <2>3, <2>4, <2>5 DEF BodyInv
  <2> QED BY <1>1, <1>8, <2>1, <2>2, <2>6, BodyStep
<1> QED BY <1>1, <1>7, <1>8 DEF whole

\* The check ends in an answer the contract gives, or starts the handler on a
\* vouched-for body.
LEMMA AuthenticateStep ==
  ASSUME ReceiverInv, NEW r \in Request, pc[r] = "authenticate", read[r] = "Ok",
         UNCHANGED <<handle_ping, keys, changes, request, verifier, failed_event, bodyVars>>,
         DOMAIN handled' = Request, pc' \in [Request -> Place],
         answer' \in [Request -> AnswerType],
         \A q \in Request \ {r} :
           pc'[q] = pc[q] /\ answer'[q] = answer[q] /\ handled'[q] = handled[q],
         failed_event'[r] = (answer'[r].status = 500),
         \/ /\ pc'[r] = "done" /\ answer'[r] # NoAnswer /\ AnsweredByTheContract(r)'
            /\ handled'[r] = NotHandled
         \/ /\ pc'[r] = "handler" /\ answer'[r] = NoAnswer
            /\ handled'[r] # NotHandled /\ handled'[r].data = bytes[r].data
            /\ HandledIsVouchedFor(r)' /\ Faults(r)' = {}
  PROVE  ReceiverInv'
<1>1. OnlyRequest(r)
  BY DEF OnlyRequest, bodyVars
<1>2. /\ SignatureFault(request[r]) = "None" /\ MetaFault(request[r]) = "None"
      /\ verifier[r] # NoVerifier /\ \A s \in verifier[r] : Owner[s] = request[r].target
  BY Typed DEF Sound
<1>3. Admitted(r)' /\ read'[r] = "Ok" /\ bytes'[r] = bytes[r]
  BY <1>2 DEF Admitted, bodyVars
<1>4. Sound(r)'
  BY <1>2, <1>3 DEF Sound
<1>5. BodyInv' /\ BodyTypeOK'
  BY Typed, ReadBodyInv DEF BodyInv
<1>6. ReceiverTypeOK'
  BY <1>5, TypeKept DEF ReceiverInv, ReceiverTypeOK
<1> QED BY <1>1, <1>4, <1>5, <1>6, OthersSound DEF ReceiverInv, bodyVars

\* Whether the authenticated request reaches the handler or is answered as a
\* ping, it has no fault; what is refused here has none before.
LEMMA AuthenticateInv ==
  ASSUME ReceiverInv, NEW r \in Request, Authenticate(r)
  PROVE  ReceiverInv'
<1> DEFINE q == request[r]
           fault == AuthenticateFault(q, verifier[r], bytes[r].data)
<1>1. /\ pc[r] = "authenticate"
      /\ UNCHANGED <<handle_ping, keys, changes, request, verifier, failed_event, bodyVars>>
      /\ \/ fault # "None" /\ Respond(r, Refusal(fault)) /\ handled' = handled
         \/ /\ fault = "None" /\ ~ handle_ping /\ q.event = "ping"
            /\ Respond(r, Accepted) /\ handled' = handled
         \/ /\ fault = "None" /\ (handle_ping \/ q.event # "ping") /\ Goto(r, "handler")
            /\ handled' = [handled EXCEPT ![r] = [form |-> "data", data |-> bytes[r].data]]
  BY DEF Authenticate
<1>2. /\ Sound(r) /\ handled[r] = NotHandled /\ read[r] = "Ok" /\ Admitted(r)
      /\ \A s \in verifier[r] : Owner[s] = q.target
  BY <1>1, Typed DEF Sound
<1>3. /\ BodyFault(body[r]) = "None" /\ bytes[r].data = WholeBody(r)
  BY <1>2, Typed, EndedForItsFault
<1>4. /\ q.signature.form = "signature"
      /\ \A name \in {"Missing", "Malformed", "MissingHeader", "UnknownTarget",
                      "BodyTooLarge", "BodyRead"} : name \notin Faults(r)
      /\ SignatureFault(q) = "None" /\ MetaFault(q) = "None"
      /\ q.delivery /\ q.event # "missing"
  <2>1. q.signature.form = "signature"
    BY <1>2, AdmittedFaults
  <2>2. \A name \in {"Missing", "Malformed", "MissingHeader", "UnknownTarget"} :
          name \notin Faults(r)
    BY <1>2, AdmittedFaults
  <2>3. "BodyTooLarge" \notin Faults(r) /\ "BodyRead" \notin Faults(r)
    BY <1>3, FaultsOf
  <2> QED BY <1>2, <2>1, <2>2, <2>3 DEF Admitted, MetaFault
<1>5. Faults(r)' = Faults(r)
  BY <1>1, FaultsKept DEF bodyVars
<1>6. /\ fault = "None" => /\ Faults(r) = {} /\ q.json
                           /\ q.signature.by \in verifier[r]
                           /\ q.signature.over = bytes[r].data
      /\ fault # "None" =>
           \/ fault = "Mismatch" /\ "Mismatch" \in Faults(r)
           \/ /\ fault = "UnsupportedContentType" /\ "UnsupportedContentType" \in Faults(r)
              /\ "Mismatch" \notin Faults(r)
  <2>1. fault = IF ~ Verifies(verifier[r], q.signature, bytes[r].data) THEN "Mismatch"
                ELSE IF ~ q.json THEN "UnsupportedContentType" ELSE "None"
    BY <1>4 DEF AuthenticateFault
  <2>2. "Mismatch" \in Faults(r) <=> ~ Verifies(verifier[r], q.signature, bytes[r].data)
    BY <1>3, <1>4, FaultsOf DEF Verifies
  <2>3. "UnsupportedContentType" \in Faults(r) <=> ~ q.json
    BY FaultsOf
  <2>4. fault = "None" => Faults(r) = {}
    BY <1>4, <2>1, <2>2, <2>3, FaultsOf
  <2> QED BY <2>1, <2>2, <2>3, <2>4 DEF Verifies
<1> HIDE DEF fault
<1>7. CASE fault # "None" /\ Respond(r, Refusal(fault)) /\ handled' = handled
  <2>1. PICK i \in {7, 8} : /\ Precedence[i][1] = fault
                            /\ i = 8 => "Mismatch" \notin Faults(r)
    BY <1>6, <1>7 DEF Precedence
  <2>2. /\ fault \in Faults(r)' /\ handled'[r] = NotHandled /\ pc[r] # "done"
        /\ failed_event' = failed_event
    BY <1>1, <1>2, <1>5, <1>6, <1>7
  <2>3. \A j \in 1 .. i - 1 : Precedence[j][1] \notin Faults(r)'
    <3>1. \A j \in 1 .. i - 1 : j \in {1, 2, 3, 4, 5, 6} \/ (i = 8 /\ j = 7)
      BY <2>1
    <3>2. /\ Precedence[1][1] = "Missing" /\ Precedence[2][1] = "Malformed"
          /\ Precedence[3][1] = "MissingHeader" /\ Precedence[4][1] = "UnknownTarget"
          /\ Precedence[5][1] = "BodyTooLarge" /\ Precedence[6][1] = "BodyRead"
          /\ Precedence[7][1] = "Mismatch"
      BY DEF Precedence
    <3> QED BY <1>4, <1>5, <2>1, <3>1, <3>2
  <2>4. i \in 1 .. 8
    BY <2>1
  <2>5. /\ pc' \in [Request -> Place] /\ pc'[r] = "done"
        /\ answer' \in [Request -> AnswerType] /\ answer'[r] # NoAnswer
        /\ \A s \in Request \ {r} : pc'[s] = pc[s] /\ answer'[s] = answer[s]
        /\ AnsweredByTheContract(r)'
        /\ failed_event'[r] = (answer'[r].status = 500)
    BY <1>7, <2>1, <2>2, <2>3, <2>4, RefusalFollowsTheContract
  <2>6. DOMAIN handled' = Request /\ handled'[r] = NotHandled /\ handled' = handled
    BY <1>2, <1>7, Typed
  <2> QED BY <1>1, <1>2, <2>5, <2>6, AuthenticateStep
<1>8. CASE /\ fault = "None" /\ ~ handle_ping /\ q.event = "ping"
           /\ Respond(r, Accepted) /\ handled' = handled
  <2>1. Accepted \in AnswerType /\ Accepted # NoAnswer
    BY DEF Accepted, AnswerType, NoAnswer
  <2>2. /\ pc' \in [Request -> Place] /\ pc'[r] = "done"
        /\ answer' \in [Request -> AnswerType] /\ answer'[r] = Accepted
        /\ \A s \in Request \ {r} : pc'[s] = pc[s] /\ answer'[s] = answer[s]
    BY <1>8, <2>1, Responded
  <2>3. AnsweredByTheContract(r)'
    <3>1. Faults(r)' = {} /\ handled'[r] = NotHandled /\ request'[r] = q /\ handle_ping' = handle_ping
      BY <1>1, <1>2, <1>5, <1>6, <1>8
    <3> QED BY <1>8, <2>2, <3>1 DEF AnsweredByTheContract, Accepted, OutcomeOf
  <2>4. failed_event'[r] = (answer'[r].status = 500)
    <3>1. failed_event'[r] = FALSE
      BY <1>1, NotYetAnswered
    <3>2. answer'[r].status # 500
      BY <2>2 DEF Accepted
    <3> QED BY <3>1, <3>2
  <2>5. DOMAIN handled' = Request /\ handled'[r] = NotHandled /\ handled' = handled
    BY <1>2, <1>8, Typed
  <2> QED BY <1>1, <1>2, <2>1, <2>2, <2>3, <2>4, <2>5, AuthenticateStep
<1>9. CASE /\ fault = "None" /\ (handle_ping \/ q.event # "ping") /\ Goto(r, "handler")
           /\ handled' = [handled EXCEPT ![r] = [form |-> "data", data |-> bytes[r].data]]
  <2>1. /\ DOMAIN handled' = Request /\ handled'[r].data = bytes[r].data
        /\ handled'[r] # NotHandled
        /\ \A s \in Request \ {r} : handled'[s] = handled[s]
    <3>1. handled'[r] = [form |-> "data", data |-> bytes[r].data]
      BY <1>9, Typed
    <3> QED BY <1>9, <3>1, Typed DEF NotHandled
  <2>2. "handler" \in Place
    BY DEF Place
  <2>3. /\ pc' \in [Request -> Place] /\ pc'[r] = "handler"
        /\ answer' \in [Request -> AnswerType] /\ answer'[r] = NoAnswer
        /\ \A s \in Request \ {r} : pc'[s] = pc[s] /\ answer'[s] = answer[s]
        /\ failed_event'[r] = (answer'[r].status = 500)
    BY <1>1, <1>9, <2>2, WentOn
  <2>4. HandledIsVouchedFor(r)'
    <3>1. Owner[q.signature.by] = q.target
      BY <1>2, <1>6, <1>9
    <3> QED BY <1>1, <1>4, <1>6, <1>9, <2>1, <3>1 DEF HandledIsVouchedFor
  <2>5. Faults(r)' = {}
    BY <1>5, <1>6, <1>9
  <2> QED BY <1>1, <1>2, <1>9, <2>1, <2>3, <2>4, <2>5, AuthenticateStep
<1> QED BY <1>1, <1>7, <1>8, <1>9

\* The handler returns: an answer for a request without a fault. Or the future
\* is dropped: nothing is answered, and what was started stays.
LEMMA EndInv ==
  ASSUME ReceiverInv, NEW r \in Request, HandlerOk(r) \/ HandlerErr(r) \/ Drop(r)
  PROVE  ReceiverInv'
<1>1. /\ UNCHANGED <<handle_ping, keys, changes, request, verifier, handled, bodyVars>>
      /\ failed_event' \in [Request -> BOOLEAN]
      /\ \A q \in Request \ {r} : failed_event'[q] = failed_event[q]
      /\ \/ pc[r] = "handler" /\ Respond(r, Accepted) /\ failed_event' = failed_event
         \/ pc[r] = "handler" /\ Respond(r, HandlerError) /\ failed_event'[r] = TRUE
         \/ /\ pc[r] \in {"source", "body", "handler"} /\ Goto(r, "dropped")
            /\ failed_event' = failed_event
  BY Typed DEF HandlerOk, HandlerErr, Drop
<1>2. /\ Sound(r) /\ pc[r] # "done" /\ answer[r] = NoAnswer /\ failed_event[r] = FALSE
      /\ Faults(r)' = Faults(r) /\ HandledIsVouchedFor(r)' = HandledIsVouchedFor(r)
      /\ Admitted(r)' = Admitted(r)
  BY <1>1, Typed, NotYetAnswered, FaultsKept DEF bodyVars, HandledIsVouchedFor, Admitted
<1>3. /\ pc' \in [Request -> Place] /\ answer' \in [Request -> AnswerType]
      /\ \A q \in Request \ {r} : pc'[q] = pc[q] /\ answer'[q] = answer[q]
      /\ failed_event'[r] = (answer'[r].status = 500)
      /\ \/ pc'[r] = "done" /\ answer'[r] # NoAnswer /\ AnsweredByTheContract(r)'
         \/ pc'[r] = "dropped" /\ answer'[r] = NoAnswer
  <2>1. /\ Accepted \in AnswerType /\ HandlerError \in AnswerType /\ "dropped" \in Place
        /\ Accepted.status = 204 /\ HandlerError.status = 500
        /\ Accepted.outcome = OutcomeOf(204) /\ HandlerError.outcome = OutcomeOf(500)
        /\ NoAnswer.status = 0
    BY DEF Accepted, HandlerError, AnswerType, Place, OutcomeOf, NoAnswer
  <2>2. ASSUME NEW response \in {Accepted, HandlerError}, pc[r] = "handler",
               Respond(r, response), failed_event'[r] = (response.status = 500)
        PROVE  <1>3
    <3>1. response \in AnswerType /\ response # NoAnswer
      BY <2>1
    <3>2. /\ pc' \in [Request -> Place] /\ pc'[r] = "done"
          /\ answer' \in [Request -> AnswerType] /\ answer'[r] = response
          /\ \A q \in Request \ {r} : pc'[q] = pc[q] /\ answer'[q] = answer[q]
      BY <2>2, <3>1, Responded
    <3>3. /\ Faults(r)' = {} /\ handled'[r] # NotHandled
          /\ ~ (request'[r].event = "ping" /\ ~ handle_ping')
      BY <1>1, <1>2, <2>2 DEF Sound, HandledIsVouchedFor
    <3>4. AnsweredByTheContract(r)'
      BY <2>1, <2>2, <3>2, <3>3 DEF AnsweredByTheContract
    <3> QED BY <2>2, <3>1, <3>2, <3>4
  <2>3. CASE Goto(r, "dropped") /\ failed_event' = failed_event
    BY <1>2, <2>1, <2>3, WentOn
  <2>4. CASE pc[r] = "handler" /\ Respond(r, Accepted) /\ failed_event' = failed_event
    <3>1. failed_event'[r] = FALSE /\ Accepted.status # 500
      BY <1>2, <2>1, <2>4
    <3>2. failed_event'[r] = (Accepted.status = 500)
      BY <3>1
    <3> QED BY <2>2, <2>4, <3>2
  <2>5. CASE pc[r] = "handler" /\ Respond(r, HandlerError) /\ failed_event'[r] = TRUE
    <3>1. failed_event'[r] = TRUE /\ HandlerError.status = 500
      BY <2>1, <2>5
    <3>2. failed_event'[r] = (HandlerError.status = 500)
      BY <3>1
    <3> QED BY <2>2, <2>5, <3>2
  <2> QED BY <1>1, <2>3, <2>4, <2>5
<1>4. OnlyRequest(r)
  BY <1>1, <1>3 DEF OnlyRequest, bodyVars
<1>5. Sound(r)'
  <2>1. /\ read'[r] = read[r] /\ bytes'[r] = bytes[r] /\ handled'[r] = handled[r]
        /\ verifier'[r] = verifier[r] /\ request'[r] = request[r]
    BY <1>1 DEF bodyVars
  <2> QED BY <1>2, <1>3, <2>1 DEF Sound
<1>6. BodyInv' /\ BodyTypeOK'
  BY <1>1, Typed, ReadBodyInv DEF BodyInv
<1>7. ReceiverTypeOK'
  BY <1>1, <1>3, <1>6, TypeKept DEF ReceiverInv, ReceiverTypeOK
<1> QED BY <1>1, <1>4, <1>5, <1>6, <1>7, OthersSound DEF ReceiverInv, bodyVars

\* A rotation of the source's store reaches no request that has its verifier.
LEMMA ReconfigureInv ==
  ASSUME ReceiverInv, Reconfigure
  PROVE  ReceiverInv'
<1>1. /\ keys' \in Stores /\ changes' \in 0 .. MaxChanges
      /\ UNCHANGED <<handle_ping, request, pc, verifier, answer, handled,
                     failed_event, bodyVars>>
  BY MaxChangesAssumption DEF Reconfigure, ReceiverInv, ReceiverTypeOK
<1>2. \A r \in Request : Sound(r)'
  BY <1>1, SoundKept DEF ReceiverInv, bodyVars
<1>3. BodyInv' /\ BodyTypeOK'
  BY <1>1, ReadBodyInv DEF ReceiverInv, BodyInv
<1>4. ReceiverTypeOK'
  BY <1>1, <1>3, TypeKept DEF ReceiverInv, ReceiverTypeOK, AnswerType
<1> QED BY <1>1, <1>2, <1>3, <1>4 DEF ReceiverInv, bodyVars

LEMMA ReceiverNextInv == ReceiverInv /\ [Next]_vars => ReceiverInv'
<1> SUFFICES ASSUME ReceiverInv, [Next]_vars
             PROVE  ReceiverInv'
  OBVIOUS
<1>1. CASE UNCHANGED vars
  <2>1. UNCHANGED receiverVars /\ UNCHANGED bodyVars
    BY <1>1 DEF vars
  <2>2. BodyInv' /\ BodyTypeOK'
    BY <2>1, ReadBodyInv DEF ReceiverInv, BodyInv
  <2>3. ReceiverTypeOK'
    BY <2>1, <2>2 DEF ReceiverInv, ReceiverTypeOK, receiverVars
  <2>4. \A r \in Request : Sound(r)'
    BY <2>1, SoundKept DEF ReceiverInv, receiverVars, bodyVars
  <2> QED BY <2>1, <2>2, <2>3, <2>4 DEF ReceiverInv, receiverVars, bodyVars
<1>2. ASSUME NEW r \in Request, Proceed(r)
      PROVE  ReceiverInv'
  BY <1>2, ReceiveHeadersInv, CheckBytesInv, AuthenticateInv DEF Proceed
<1> QED BY <1>1, <1>2, SourceAnswersInv, ReadRequestBodyInv, EndInv, ReconfigureInv DEF Next

LEMMA ReceiverInitInv == Init => ReceiverInv
<1> SUFFICES ASSUME Init
             PROVE  ReceiverInv
  OBVIOUS
<1>1. /\ request \in [Request -> Requests] /\ NothingRead /\ limit \in Limits
      /\ body = [r \in Request |-> request[r].body]
      /\ pc = [r \in Request |-> "start"] /\ verifier = [r \in Request |-> NoVerifier]
      /\ handled = [r \in Request |-> NotHandled]
      /\ answer = [r \in Request |-> NoAnswer] /\ failed_event = [r \in Request |-> FALSE]
  BY DEF Init, Build
<1>2. body \in [Request -> Bodies]
  BY <1>1, RequestsAssumption DEF RequestType
<1>3. BodyInv
  BY <1>1, <1>2, BodyInitInv DEF BodyInit
<1>4. ReceiverTypeOK
  BY <1>3, MaxChangesAssumption DEF Init, Build, ReceiverTypeOK, BodyInv, Place, NoVerifier, NoAnswer,
                                     AnswerType
<1>5. ASSUME NEW r \in Request
      PROVE  Sound(r)
  <2>1. /\ pc[r] = "start" /\ verifier[r] = {} /\ handled[r] = NotHandled /\ read[r] = "unread"
        /\ answer[r] = NoAnswer /\ failed_event[r] = FALSE
    BY <1>1 DEF NothingRead, NoVerifier
  <2>2. answer[r].status # 500
    BY <2>1 DEF NoAnswer
  <2>3. failed_event[r] = (answer[r].status = 500)
    BY <2>1, <2>2
  <2> QED BY <2>1, <2>3 DEF Sound
<1> QED BY <1>1, <1>3, <1>4, <1>5 DEF ReceiverInv

LEMMA ReceiverIsSound == Spec => []ReceiverInv
BY ReceiverInitInv, ReceiverNextInv, PTL DEF Spec

-----------------------------------------------------------------------------
(* Theorems *)

\* However requests and rotations interleave, every request's state is of its
\* declared type.
THEOREM ReceiverTypeCorrect == Spec => []ReceiverTypeOK
<1>1. ReceiverInv => ReceiverTypeOK
  BY DEF ReceiverInv
<1> QED BY <1>1, ReceiverIsSound, PTL

\* Whatever clients send and however the store is rotated meanwhile, a handler
\* is started on the whole body, within the limit, and that body was signed with
\* a secret of the claimed target that the source vouched for in answer to this
\* request.
THEOREM HandledAreAuthentic == Spec => []HandledIsAuthentic
<1>1. ASSUME ReceiverInv, NEW r \in Request, handled[r] # NotHandled
      PROVE  /\ handled[r].data = WholeBody(r) /\ Length(handled[r].data) <= limit
             /\ HandledIsVouchedFor(r)
  <2>1. /\ HandledIsVouchedFor(r) /\ handled[r].data = bytes[r].data /\ read[r] = "Ok"
    BY <1>1, Typed DEF Sound
  <2> QED BY <1>1, <2>1, Typed, EndedForItsFault
<1>2. ReceiverInv => HandledIsAuthentic
  BY <1>1 DEF HandledIsAuthentic
<1> QED BY <1>2, ReceiverIsSound, PTL

\* No frame is taken for a request that its headers refuse or whose target the
\* source does not know, nor past the frame that decided the read, nor of a
\* body announced over the limit.
THEOREM NothingReadUnlessAdmitted == Spec => []NothingReadForARefusedRequest
<1>1. ASSUME ReceiverInv, NEW r \in Request, read[r] # "unread"
      PROVE  /\ Admitted(r)
             /\ \A i \in 1 .. polled[r] - 1 : /\ body[r].frames[i].kind # "error"
                                             /\ Length(DataOf(body[r].frames, i)) <= limit
  <2>1. Admitted(r)
    BY <1>1, Typed DEF Sound
  <2>2. BodyInv
    BY <1>1 DEF ReceiverInv
  <2>3. polled[r] \in Nat /\ ReadSound(r)
    BY <2>2, BodyTyped
  <2>4. polled[r] - 1 <= Passed(r) /\ Passed(r) \in Nat
    BY <2>3 DEF Passed
  <2> QED BY <2>1, <2>3, <2>4 DEF ReadSound
<1>2. ASSUME ReceiverInv, NEW r \in Request, body[r].hint > limit
      PROVE  polled[r] = 0
  <2>1. BodyInv
    BY <1>2 DEF ReceiverInv
  <2>2. ReadSound(r) /\ read[r] \in {"unread", "reading", "Ok", "BodyRead", "BodyTooLarge"}
    BY <2>1 DEF BodyInv, BodyTypeOK
  <2> QED BY <1>2, <2>2 DEF ReadSound, HintOverLimit
<1>3. ReceiverInv => NothingReadForARefusedRequest
  BY <1>1, <1>2 DEF NothingReadForARefusedRequest
<1> QED BY <1>3, ReceiverIsSound, PTL

\* Every answer, on both body paths, is the one the documented order of the
\* checks gives, and its status, outcome and failed-delivery event agree.
THEOREM AnswersFollowTheContract == Spec => []AnswerFollowsTheContract
<1>1. ReceiverInv => AnswerFollowsTheContract
  BY DEF ReceiverInv, Sound, AnswerFollowsTheContract
<1> QED BY <1>1, ReceiverIsSound, PTL

\* However many requests are read at once, on either body path, none buffers
\* more than the limit.
THEOREM ReceiverBuffersWithinLimit == Spec => []BufferedWithinLimit
<1>1. ReceiverInv => BufferedWithinLimit
  BY DEF ReceiverInv, BodyInv
<1> QED BY <1>1, ReceiverIsSound, PTL
=============================================================================
