----------------------------- MODULE MCReceiver -----------------------------
(* Two targets, one of them rotating between two secrets, and requests that *)
(* are at fault in every way, alone and together.                           *)
EXTENDS Receiver

CONSTANTS t1, t2, s1, s1b, s2

Targets == {t1, t2}
Secrets == {s1, s1b, s2}
Owners == [s \in Secrets |-> IF s = s2 THEN t2 ELSE t1]

Data(n) == [kind |-> "data", size |-> n]
Trailers == [kind |-> "trailers", size |-> 0]
Error == [kind |-> "error", size |-> 0]

Streams ==
  {[hint |-> 0, frames |-> <<>>],
   [hint |-> 0, frames |-> <<Data(1), Trailers, Data(1)>>],
   [hint |-> 1, frames |-> <<Data(1), Data(3)>>],
   [hint |-> 5, frames |-> <<Data(3), Data(2)>>],
   [hint |-> 0, frames |-> <<Data(1), Error>>],
   [hint |-> 0, frames |-> <<Data(3), Error>>]}

Buffers == {[hint |-> 0, frames |-> <<Data(n)>>] : n \in {1, 3}}
MCBodies == Streams \cup Buffers

Sent(b) == DataOf(b.frames, Len(b.frames))

\* Signed by anyone over the body, or by t1's secret over other bytes.
Signatures(b) ==
  {[form |-> "absent"], [form |-> "malformed"],
   [form |-> "signature", by |-> s1, over |-> <<Data(1), Data(2)>>]}
  \cup {[form |-> "signature", by |-> s, over |-> Sent(b)] : s \in Secrets}

Carrying(path, b) ==
  [path : {path}, signature : Signatures(b), delivery : BOOLEAN,
   event : {"missing", "ping", "other"}, json : BOOLEAN, target : Targets, body : {b}]

MCRequests ==
  UNION {Carrying("request", b) : b \in Streams} \cup
  UNION {Carrying("bytes", b) : b \in Buffers}

\* For two requests at once: a few that reach each await.
FewRequests ==
  {q \in MCRequests :
     /\ q.delivery /\ q.json /\ q.event # "missing"
     /\ q.signature.form = "signature"
     /\ q.signature.over = Sent(q.body)
     /\ q.body \in {[hint |-> 0, frames |-> <<Data(1), Error>>],
                    [hint |-> 0, frames |-> <<Data(1)>>]}
     /\ q.path = "request" => q.target = t1 /\ q.event = "other"}
=============================================================================
