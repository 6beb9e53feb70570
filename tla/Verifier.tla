------------------------------ MODULE Verifier ------------------------------
(***************************************************************************)
(* Verifier (src/src/signature.rs): handles over a shared list of secrets, *)
(* copied when one that is shared is added to. A list lives in a cell, the *)
(* allocation of an Arc, whose count is the number of handles on it.       *)
(*                                                                         *)
(* Handles are used from several threads. `verify' borrows its handle, so  *)
(* that handle is not added to or dropped meanwhile; any other one may be, *)
(* between any two secrets it tries.                                       *)
(***************************************************************************)
EXTENDS Integers, FiniteSets, Sequences, Functions

CONSTANTS
  Handle, Secret,
  Cell,        \* allocations
  MaxSecrets,
  NoSecrets, NoCell

ASSUME BoundAssumption == MaxSecrets \in Nat \ {0}
ASSUME CellsAssumption == NoCell \notin Cell
ASSUME NoSecretsAssumption == NoSecrets \notin Seq(Secret)

VARIABLES
  cell,    \* Verifier::secrets, the Arc: handle -> cell
  heap,    \* cell -> its list, or NoSecrets once freed
  check    \* each handle's call of `verify': its signature and its progress

vars == <<cell, heap, check>>

Other == "other"

NoCheck == [state |-> "none", signer |-> Other, tried |-> 0, matched |-> FALSE]

Init ==
  /\ cell = [h \in Handle |-> NoCell]
  /\ heap = [c \in Cell |-> NoSecrets]
  /\ check = [h \in Handle |-> NoCheck]

Alive(h) == cell[h] # NoCell

List(h) == heap[cell[h]]

Borrowed(h) == check[h].state = "checking"

Sharers(c) == {h \in Handle : cell[h] = c}

IsFree(c) == Sharers(c) = {}

\* Verifier::new. The secret is never empty: no other can be made.
New(h, s) ==
  /\ ~ Alive(h)
  /\ \E c \in Cell :
       /\ IsFree(c)
       /\ cell' = [cell EXCEPT ![h] = c]
       /\ heap' = [heap EXCEPT ![c] = <<s>>]
  /\ UNCHANGED check

\* A clone counts one more handle on the list and copies no secret.
Clone(h, g) ==
  /\ Alive(h)
  /\ ~ Alive(g)
  /\ cell' = [cell EXCEPT ![g] = cell[h]]
  /\ UNCHANGED <<heap, check>>

\* As MakeMut, with the list changed where it is.
PushInPlace(h, list) ==
  /\ heap' = [heap EXCEPT ![cell[h]] = list]
  /\ UNCHANGED cell

\* As MakeMut, copying a list that is not shared too and keeping the old one.
AlwaysCopy(h, list) ==
  \E c \in Cell :
    /\ IsFree(c)
    /\ cell' = [cell EXCEPT ![h] = c]
    /\ heap' = [heap EXCEPT ![c] = list]

\* Arc::make_mut, then the change to the list: in place when no other handle
\* is on it, and else on a copy this handle alone moves to.
MakeMut(h, list) ==
  \/ /\ Sharers(cell[h]) = {h}
     /\ heap' = [heap EXCEPT ![cell[h]] = list]
     /\ UNCHANGED cell
  \/ /\ Sharers(cell[h]) # {h}
     /\ \E c \in Cell :
          /\ IsFree(c)
          /\ cell' = [cell EXCEPT ![h] = c]
          /\ heap' = [heap EXCEPT ![c] = list]

\* As Extended, with the new secret in front: a rotation that signs with it.
Prepended(list, more) == more \o list

Extended(list, more) == list \o more

Add(h, more) ==
  /\ Alive(h)
  /\ ~ Borrowed(h)
  /\ Len(List(h)) + Len(more) <= MaxSecrets
  /\ MakeMut(h, Extended(List(h), more))
  /\ check' = [check EXCEPT ![h] = NoCheck]

Also(h, s) == Add(h, <<s>>)

\* `extend' takes any iterator, an empty one too: the list is then copied
\* when shared and not changed.
Extend(h) == Add(h, <<>>) \/ \E s, t \in Secret : Add(h, <<s, t>>)

\* As Drop, with the list freed while other handles are on it.
DropFreeing(h) ==
  /\ Alive(h)
  /\ ~ Borrowed(h)
  /\ cell' = [cell EXCEPT ![h] = NoCell]
  /\ heap' = [heap EXCEPT ![cell[h]] = NoSecrets]
  /\ check' = [check EXCEPT ![h] = NoCheck]

\* The last handle on a list frees it, and zeroizes its secrets.
Drop(h) ==
  /\ Alive(h)
  /\ ~ Borrowed(h)
  /\ cell' = [cell EXCEPT ![h] = NoCell]
  /\ heap' = IF Sharers(cell[h]) = {h} THEN [heap EXCEPT ![cell[h]] = NoSecrets] ELSE heap
  /\ check' = [check EXCEPT ![h] = NoCheck]

\* `verify' begins: nothing matched so far.
Verify(h, signer) ==
  /\ Alive(h)
  /\ ~ Borrowed(h)
  /\ check' = [check EXCEPT ![h] =
       [state |-> "checking", signer |-> signer, tried |-> 0, matched |-> FALSE]]
  /\ UNCHANGED <<cell, heap>>

\* As MoreToTry, leaving the loop at the first match.
MoreUntilMatched(h) == check[h].tried < Len(List(h)) /\ ~ check[h].matched

MoreToTry(h) == check[h].tried < Len(List(h))

\* The next secret's MAC is compared; a match is kept.
Try(h) ==
  /\ Borrowed(h)
  /\ MoreToTry(h)
  /\ check' = [check EXCEPT
       ![h].tried = @ + 1,
       ![h].matched = @ \/ List(h)[check[h].tried + 1] = check[h].signer]
  /\ UNCHANGED <<cell, heap>>

\* Every secret was tried: the answer, which the span records too.
Answer(h) ==
  /\ Borrowed(h)
  /\ ~ MoreToTry(h)
  /\ check' = [check EXCEPT ![h].state =
       IF check[h].matched THEN "verified" ELSE "mismatch"]
  /\ UNCHANGED <<cell, heap>>

Next ==
  \E h \in Handle :
    \/ \E s \in Secret : New(h, s) \/ Also(h, s)
    \/ \E g \in Handle : Clone(h, g)
    \/ Extend(h)
    \/ Drop(h)
    \/ \E signer \in Secret \cup {Other} : Verify(h, signer)
    \/ Try(h)
    \/ Answer(h)

Spec == Init /\ [][Next]_vars

\* `verify' is one call: a thread that began it goes on.
FairSpec == Spec /\ \A h \in Handle : WF_vars(Try(h) \/ Answer(h))

-----------------------------------------------------------------------------
(* Properties *)

Check ==
  [state : {"none", "checking", "verified", "mismatch"},
   signer : Secret \cup {Other}, tried : 0 .. MaxSecrets, matched : BOOLEAN]

\* Every handle alive is on a list that is there and is not empty: `sign' has
\* its first secret and no verifier accepts nothing.
VerifierTypeOK ==
  /\ cell \in [Handle -> Cell \cup {NoCell}]
  /\ heap \in [Cell -> Seq(Secret) \cup {NoSecrets}]
  /\ check \in [Handle -> Check]
  /\ \A h \in Handle : Alive(h) => List(h) \in Seq(Secret) \ {<<>>}

\* The secrets of a list are in memory only while a handle is on it: dropping
\* the last one, or moving it off the list, frees them.
FreedWithItsLastHandle ==
  \A c \in Cell : heap[c] # NoSecrets <=> ~ IsFree(c)

\* Every secret is tried before an answer, after a match too, and what has
\* matched is exactly what the secrets tried so far say.
EverySecretTried ==
  \A h \in Handle :
    LET tried == {List(h)[i] : i \in 1 .. check[h].tried}
    IN  /\ Borrowed(h) => (check[h].matched <=> check[h].signer \in tried)
        /\ check[h].state \in {"verified", "mismatch"} => check[h].tried = Len(List(h))

\* A handle signs with the same secret, the one it was made with, for as long
\* as it lives, whatever is added to it or to its clones.
SigningSecretStays ==
  [][\A h \in Handle :
       Alive(h) /\ cell'[h] # NoCell => heap'[cell'[h]][1] = List(h)[1]]_vars

Values == INSTANCE VerifierValues WITH
  secrets <- [h \in Handle |-> IF Alive(h) THEN List(h) ELSE NoSecrets],
  check <- [h \in Handle |-> [state |-> check[h].state, signer |-> check[h].signer]]

\* Sharing and copying on write never show: the handles implement lists of
\* their own, and a signature is verified exactly when its secret is in the
\* list of the handle asked, whatever other handles do during the check.
ImplementsValues == Values!Spec
=============================================================================
