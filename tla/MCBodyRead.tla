----------------------------- MODULE MCBodyRead -----------------------------
(* Every body of up to three frames on a target whose usize is two bits and *)
(* whose u64 is three. A body that ends without an error holds at least what *)
(* it announced, as the transport's contract has it.                        *)
EXTENDS BodyRead

Data(n) == [kind |-> "data", size |-> n]
Frames == {Data(1), Data(2), Data(3), [kind |-> "trailers", size |-> 0],
           [kind |-> "error", size |-> 0]}

MCBodies ==
  {b \in [hint : 0 .. MaxU64, frames : UNION {[1 .. n -> Frames] : n \in 0 .. 3}] :
     \/ \E i \in DOMAIN b.frames : b.frames[i].kind = "error"
     \/ b.hint <= Length(DataOf(b.frames, Len(b.frames)))}

MCLimits == 0 .. MaxUsize
=============================================================================
