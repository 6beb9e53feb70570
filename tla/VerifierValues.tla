--------------------------- MODULE VerifierValues ---------------------------
(***************************************************************************)
(* What a Verifier promises: each handle owns its list of secrets, checks  *)
(* a signature against that list and signs with its first secret. Nothing  *)
(* done to another handle is ever seen through it.                         *)
(***************************************************************************)
EXTENDS Sequences, Functions

CONSTANTS
  Handle,       \* Verifier values alive at once
  Secret,
  MaxSecrets,   \* bound: secrets in one list
  NoSecrets     \* a handle that is not alive

VARIABLES
  secrets,   \* each handle's own list
  check      \* the call of `verify' under way or returned through each handle

vars == <<secrets, check>>

\* A signature is known by the secret that made it over the body it is checked
\* against; `other' made no secret of the application's, or over other bytes.
NoCheck == [state |-> "none", signer |-> "other"]

Init ==
  /\ secrets = [h \in Handle |-> NoSecrets]
  /\ check = [h \in Handle |-> NoCheck]

Alive(h) == secrets[h] # NoSecrets

Borrowed(h) == check[h].state = "checking"

New(h, s) ==
  /\ ~ Alive(h)
  /\ secrets' = [secrets EXCEPT ![h] = <<s>>]
  /\ UNCHANGED check

Clone(h, g) ==
  /\ Alive(h)
  /\ ~ Alive(g)
  /\ secrets' = [secrets EXCEPT ![g] = secrets[h]]
  /\ UNCHANGED check

Add(h, more) ==
  /\ Alive(h)
  /\ ~ Borrowed(h)
  /\ Len(secrets[h]) + Len(more) <= MaxSecrets
  /\ secrets' = [secrets EXCEPT ![h] = @ \o more]
  /\ check' = [check EXCEPT ![h] = NoCheck]

Drop(h) ==
  /\ Alive(h)
  /\ ~ Borrowed(h)
  /\ secrets' = [secrets EXCEPT ![h] = NoSecrets]
  /\ check' = [check EXCEPT ![h] = NoCheck]

Verify(h, signer) ==
  /\ Alive(h)
  /\ ~ Borrowed(h)
  /\ check' = [check EXCEPT ![h] = [state |-> "checking", signer |-> signer]]
  /\ UNCHANGED secrets

\* The answer is the list's, as it was when asked and is when answered.
Answer(h) ==
  /\ Borrowed(h)
  /\ check' = [check EXCEPT ![h].state =
       IF check[h].signer \in Range(secrets[h]) THEN "verified" ELSE "mismatch"]
  /\ UNCHANGED secrets

\* `extend' takes lists of any length, the empty one included.
Lists == {<<>>} \cup {<<s>> : s \in Secret} \cup {<<s, t>> : s, t \in Secret}

Next ==
  \E h \in Handle :
    \/ \E s \in Secret : New(h, s)
    \/ \E g \in Handle : Clone(h, g)
    \/ \E more \in Lists : Add(h, more)
    \/ Drop(h)
    \/ \E signer \in Secret \cup {"other"} : Verify(h, signer)
    \/ Answer(h)

SafeSpec == Init /\ [][Next]_vars

Spec == SafeSpec /\ \A h \in Handle : WF_vars(Answer(h))
=============================================================================
