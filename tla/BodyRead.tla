------------------------------ MODULE BodyRead ------------------------------
(***************************************************************************)
(* read_body (src/src/receiver.rs): a request body accumulated frame by    *)
(* frame under a limit. Each frame is an await: other requests run, the    *)
(* transport may stall for ever, and the future may be dropped.            *)
(*                                                                         *)
(* Data is known by its length; lengths are usize, the size hint is u64.   *)
(***************************************************************************)
EXTENDS Integers, Sequences, SequencesExt

CONSTANTS
  Request,    \* requests, each with its own body
  Bodies,     \* what the transports hand over
  Limits,     \* payload-length limits a receiver may be configured with
  MaxUsize,   \* the largest usize of the target (2^32 - 1 on wasm32)
  MaxU64      \* the largest u64

ASSUME WidthAssumption ==
  MaxUsize \in Nat /\ MaxU64 \in Nat /\ MaxUsize <= MaxU64
ASSUME LimitsAssumption == Limits \subseteq 0 .. MaxUsize

\* What polling the transport yields; only data has a length.
Frame == [kind : {"data"}, size : 0 .. MaxUsize] \cup [kind : {"trailers", "error"}, size : {0}]

IsData(frame) == frame.kind = "data"

\* What a transport may hand over: a lower bound it announces, and its frames.
Body == [hint : 0 .. MaxU64, frames : Seq(Frame)]

ASSUME BodiesAssumption == Bodies \subseteq Body

VARIABLES
  limit,    \* the receiver's configured limit
  body,     \* each request's body
  polled,   \* frames taken from the transport
  bytes,    \* the accumulator: the data frames appended, and its length
  read      \* "unread", "reading", "Ok", "BodyTooLarge" or "BodyRead"

bodyVars == <<limit, body, polled, bytes, read>>

NoBytes == [data |-> <<>>, len |-> 0]

\* As HintOverLimit, with the hint narrowed to usize first.
NarrowedHintOverLimit(hint) == hint % (MaxUsize + 1) > limit

\* The comparison is made in u64.
HintOverLimit(hint) == hint > limit

\* As Crosses, with the sum wrapping.
WrappingCrosses(len, size) == (len + size) % (MaxUsize + 1) > limit

\* checked_add: a sum beyond usize crosses any limit.
Crosses(len, size) == len + size > MaxUsize \/ len + size > limit

\* The read begins: a body announced over the limit is never polled.
StartRead(r) ==
  /\ read[r] = "unread"
  /\ read' = [read EXCEPT ![r] =
       IF HintOverLimit(body[r].hint) THEN "BodyTooLarge" ELSE "reading"]
  /\ UNCHANGED <<limit, body, polled, bytes>>

\* As NextFrame, with the crossing frame appended before it is refused.
AppendThenRefuse(r) ==
  /\ read[r] = "reading"
  /\ polled[r] < Len(body[r].frames)
  /\ polled' = [polled EXCEPT ![r] = @ + 1]
  /\ LET frame == body[r].frames[polled[r] + 1]
     IN  \/ /\ frame.kind = "error"
            /\ read' = [read EXCEPT ![r] = "BodyRead"]
            /\ UNCHANGED bytes
         \/ /\ frame.kind = "trailers"
            /\ UNCHANGED <<read, bytes>>
         \/ /\ IsData(frame)
            /\ bytes' = [bytes EXCEPT ![r] =
                 [data |-> Append(@.data, frame), len |-> @.len + frame.size]]
            /\ read' = [read EXCEPT ![r] =
                 IF Crosses(bytes[r].len, frame.size) THEN "BodyTooLarge" ELSE @]
  /\ UNCHANGED <<limit, body>>

\* One frame arrives: a transport error ends the read, trailers are passed
\* over, data that crosses the limit is dropped with the refusal.
NextFrame(r) ==
  /\ read[r] = "reading"
  /\ polled[r] < Len(body[r].frames)
  /\ polled' = [polled EXCEPT ![r] = @ + 1]
  /\ LET frame == body[r].frames[polled[r] + 1]
     IN  \/ /\ frame.kind = "error"
            /\ read' = [read EXCEPT ![r] = "BodyRead"]
            /\ UNCHANGED bytes
         \/ /\ frame.kind = "trailers"
            /\ UNCHANGED <<read, bytes>>
         \/ /\ IsData(frame)
            /\ Crosses(bytes[r].len, frame.size)
            /\ read' = [read EXCEPT ![r] = "BodyTooLarge"]
            /\ UNCHANGED bytes
         \/ /\ IsData(frame)
            /\ ~ Crosses(bytes[r].len, frame.size)
            /\ bytes' = [bytes EXCEPT ![r] =
                 [data |-> Append(@.data, frame), len |-> @.len + frame.size]]
            /\ UNCHANGED read
  /\ UNCHANGED <<limit, body>>

\* As EndOfBody, with trailers taken for the end.
EndAtTrailers(r) ==
  /\ read[r] = "reading"
  /\ \A i \in {polled[r] + 1} \cap DOMAIN body[r].frames : body[r].frames[i].kind = "trailers"
  /\ read' = [read EXCEPT ![r] = "Ok"]
  /\ UNCHANGED <<limit, body, polled, bytes>>

\* The transport has no frame left.
EndOfBody(r) ==
  /\ read[r] = "reading"
  /\ polled[r] = Len(body[r].frames)
  /\ read' = [read EXCEPT ![r] = "Ok"]
  /\ UNCHANGED <<limit, body, polled, bytes>>

ReadBody(r) == StartRead(r) \/ NextFrame(r) \/ EndOfBody(r)

\* No body is read yet.
NothingRead ==
  /\ polled = [r \in Request |-> 0]
  /\ bytes = [r \in Request |-> NoBytes]
  /\ read = [r \in Request |-> "unread"]

BodyInit ==
  /\ limit \in Limits
  /\ body \in [Request -> Bodies]
  /\ NothingRead

\* Reads alone: no request decides whether its body is read. A dropped future
\* takes no further step.
BodySpec ==
  /\ BodyInit
  /\ [][\E r \in Request : ReadBody(r)]_bodyVars

-----------------------------------------------------------------------------
(* Properties *)

\* Cursor, accumulator and verdict of every read: the cursor is in the body,
\* the accumulated length in usize.
BodyTypeOK ==
  /\ limit \in Limits
  /\ body \in [Request -> Body]
  /\ polled \in [Request -> Nat]
  /\ \A r \in Request : polled[r] <= Len(body[r].frames)
  /\ bytes \in [Request -> [data : Seq(Frame), len : 0 .. MaxUsize]]
  /\ read \in [Request -> {"unread", "reading", "Ok", "BodyTooLarge", "BodyRead"}]

\* The accumulator never holds more than the limit, on a target of any width.
BufferedWithinLimit ==
  \A r \in Request : bytes[r].len <= limit

\* The data among the first n frames, in order.
DataOf(frames, n) ==
  LET taken[i \in 0 .. Len(frames)] ==
        IF i = 0 THEN <<>>
        ELSE IF IsData(frames[i]) THEN Append(taken[i - 1], frames[i])
        ELSE taken[i - 1]
  IN  taken[n]

\* The length of that data.
Length(data) ==
  LET sum[i \in 0 .. Len(data)] == IF i = 0 THEN 0 ELSE sum[i - 1] + data[i].size
  IN  sum[Len(data)]

\* The accumulator is the data frames taken so far, whole and in order, less
\* the one that crossed the limit; so a completed read is the entire body.
BufferIsTheDataTaken ==
  \A r \in Request :
    LET taken == DataOf(body[r].frames, polled[r])
        kept == IF read[r] = "BodyTooLarge" /\ taken # <<>> THEN Front(taken) ELSE taken
    IN  /\ bytes[r].data = kept
        /\ bytes[r].len = Length(kept)
        /\ read[r] = "Ok" => polled[r] = Len(body[r].frames)

\* A read is refused for the reason that is true of its body: over the limit
\* by what was announced, with nothing polled, or by what arrived; unreadable
\* only at a transport error; and a read that goes on or completes has neither
\* announced nor taken more than the limit.
RefusedForItsReason ==
  \A r \in Request :
    LET frames == body[r].frames
        arrived == Length(DataOf(frames, polled[r]))
        announced == body[r].hint > limit
    IN  /\ read[r] = "BodyTooLarge" =>
             IF announced THEN polled[r] = 0 ELSE arrived > limit
        /\ read[r] = "BodyRead" => frames[polled[r]].kind = "error"
        /\ read[r] \in {"reading", "Ok", "BodyRead"} => ~ announced /\ arrived <= limit
=============================================================================
