--------------------------- MODULE VerifierProofs ---------------------------
(***************************************************************************)
(* Proofs about Verifier: for any number of handles, secrets and cells the *)
(* sharing is invisible. Every step is a step of VerifierValues, in which  *)
(* each handle owns its list, or changes nothing there.                    *)
(***************************************************************************)
EXTENDS Verifier, TLAPS

\* A handle that is dead is in no call, and a call has tried no more secrets
\* than its list holds. Lists are bounded, which bounds `tried'.
CallsInBounds ==
  /\ \A h \in Handle : ~ Alive(h) => check[h].state = "none"
  /\ \A h \in Handle : Alive(h) => Len(List(h)) <= MaxSecrets
  /\ \A h \in Handle : Borrowed(h) => check[h].tried <= Len(List(h))

VerifierInv ==
  VerifierTypeOK /\ FreedWithItsLastHandle /\ CallsInBounds /\ EverySecretTried

-----------------------------------------------------------------------------
(* What a step does to the lists *)

\* Handle h is put on the list `list', and every other handle keeps its own:
\* all that VerifierValues needs to know of a change to the heap.
OwnListSet(h, list) ==
  /\ cell' \in [Handle -> Cell \cup {NoCell}]
  /\ heap' \in [Cell -> Seq(Secret) \cup {NoSecrets}]
  /\ FreedWithItsLastHandle'
  /\ Alive(h)' /\ List(h)' = list
  /\ \A g \in Handle \ {h} :
       /\ Alive(g)' <=> Alive(g)
       /\ Alive(g) => List(g)' = List(g)

\* A handle alive is on a cell, and the cell's list is no NoSecrets.
LEMMA OnACell ==
  ASSUME VerifierTypeOK, NEW h \in Handle, Alive(h)
  PROVE  cell[h] \in Cell /\ List(h) \in Seq(Secret) \ {<<>>} /\ List(h) # NoSecrets
BY NoSecretsAssumption DEF VerifierTypeOK, Alive

\* Taking a cell no handle is on disturbs no other handle.
LEMMA OnAFreeCell ==
  ASSUME VerifierTypeOK, FreedWithItsLastHandle, NEW h \in Handle, NEW c \in Cell,
         NEW list \in Seq(Secret), IsFree(c),
         ~ Alive(h) \/ Sharers(cell[h]) # {h},
         cell' = [cell EXCEPT ![h] = c], heap' = [heap EXCEPT ![c] = list]
  PROVE  OwnListSet(h, list)
<1>1. /\ cell' \in [Handle -> Cell \cup {NoCell}]
      /\ heap' \in [Cell -> Seq(Secret) \cup {NoSecrets}]
      /\ cell'[h] = c /\ heap'[c] = list
      /\ c # NoCell
      /\ list # NoSecrets
  BY CellsAssumption, NoSecretsAssumption DEF VerifierTypeOK
<1>2. \A g \in Handle \ {h} : cell'[g] = cell[g] /\ cell[g] # c
  BY DEF VerifierTypeOK, IsFree, Sharers
<1>3. \A g \in Handle \ {h} :
        /\ Alive(g)' <=> Alive(g)
        /\ Alive(g) => List(g)' = List(g)
  BY <1>2 DEF VerifierTypeOK, Alive, List
<1>4. ASSUME NEW d \in Cell
      PROVE  heap'[d] # NoSecrets <=> ~ IsFree(d)'
  <2>1. CASE d = c
    BY <1>1, <2>1 DEF IsFree, Sharers
  <2>2. CASE d # c
    <3>1. heap'[d] = heap[d]
      BY <2>2 DEF VerifierTypeOK
    <3>2. IsFree(d)' <=> IsFree(d)
      <4>1. CASE cell[h] = d
        <5>1. PICK g \in Handle \ {h} : cell[g] = d
          BY <4>1, CellsAssumption DEF Alive, Sharers
        <5> QED BY <5>1, <1>2, <4>1 DEF IsFree, Sharers
      <4>2. CASE cell[h] # d
        BY <4>2, <2>2, <1>1, <1>2 DEF IsFree, Sharers
      <4> QED BY <4>1, <4>2
    <3> QED BY <3>1, <3>2 DEF FreedWithItsLastHandle
  <2> QED BY <2>1, <2>2
<1> QED
  BY <1>1, <1>3, <1>4 DEF OwnListSet, FreedWithItsLastHandle, Alive, List

\* make_mut: in place on a list of its own, on a copy of a shared one.
LEMMA CopiedOnWrite ==
  ASSUME VerifierTypeOK, FreedWithItsLastHandle, NEW h \in Handle, Alive(h),
         NEW list \in Seq(Secret), MakeMut(h, list)
  PROVE  OwnListSet(h, list)
<1>1. CASE Sharers(cell[h]) # {h}
  <2>1. PICK c \in Cell : /\ IsFree(c)
                          /\ cell' = [cell EXCEPT ![h] = c]
                          /\ heap' = [heap EXCEPT ![c] = list]
    BY <1>1 DEF MakeMut
  <2> QED BY <1>1, <2>1, OnAFreeCell
<1>2. CASE Sharers(cell[h]) = {h}
  <2>1. cell' = cell /\ heap' = [heap EXCEPT ![cell[h]] = list]
    BY <1>2 DEF MakeMut
  <2>2. cell[h] \in Cell
    BY OnACell
  <2>3. /\ heap' \in [Cell -> Seq(Secret) \cup {NoSecrets}]
        /\ heap'[cell[h]] = list /\ list # NoSecrets
    BY <2>1, <2>2, NoSecretsAssumption DEF VerifierTypeOK
  <2>4. \A g \in Handle \ {h} : cell[g] # cell[h]
    BY <1>2 DEF Sharers
  <2>5. \A g \in Handle \ {h} : Alive(g) => List(g)' = List(g)
    BY <2>1, <2>2, <2>4 DEF VerifierTypeOK, Alive, List
  <2>6. FreedWithItsLastHandle'
    <3> SUFFICES ASSUME NEW d \in Cell
                 PROVE  heap'[d] # NoSecrets <=> ~ IsFree(d)'
      BY DEF FreedWithItsLastHandle
    <3>1. IsFree(d)' <=> IsFree(d)
      BY <2>1 DEF IsFree, Sharers
    <3>2. CASE d = cell[h]
      BY <3>1, <3>2, <2>3 DEF IsFree, Sharers
    <3>3. CASE d # cell[h]
      BY <3>1, <3>3, <2>1, <2>2 DEF VerifierTypeOK, FreedWithItsLastHandle
    <3> QED BY <3>2, <3>3
  <2> QED
    BY <2>1, <2>3, <2>5, <2>6 DEF OwnListSet, VerifierTypeOK, Alive, List
<1> QED BY <1>1, <1>2

\* A clone is one more handle on the list.
LEMMA ClonedList ==
  ASSUME VerifierTypeOK, FreedWithItsLastHandle, NEW h \in Handle, NEW g \in Handle,
         Clone(h, g)
  PROVE  OwnListSet(g, List(h))
<1>1. /\ Alive(h) /\ ~ Alive(g) /\ h # g
      /\ cell' = [cell EXCEPT ![g] = cell[h]] /\ heap' = heap
  BY DEF Clone
<1>2. cell[h] \in Cell
  BY <1>1, OnACell
<1>3. /\ cell' \in [Handle -> Cell \cup {NoCell}]
      /\ heap' \in [Cell -> Seq(Secret) \cup {NoSecrets}]
      /\ Alive(g)' /\ List(g)' = List(h)
  BY <1>1 DEF VerifierTypeOK, Alive, List
<1>4. \A k \in Handle \ {g} : /\ Alive(k)' <=> Alive(k)
                              /\ Alive(k) => List(k)' = List(k)
  BY <1>1 DEF VerifierTypeOK, Alive, List
<1>5. FreedWithItsLastHandle'
  <2> SUFFICES ASSUME NEW d \in Cell
               PROVE  heap'[d] # NoSecrets <=> ~ IsFree(d)'
    BY DEF FreedWithItsLastHandle
  <2>1. IsFree(d)' <=> IsFree(d)
    <3>1. CASE d = cell[h]
      BY <1>1, <3>1 DEF VerifierTypeOK, IsFree, Sharers
    <3>2. CASE d # cell[h]
      BY <1>1, <3>2, CellsAssumption DEF VerifierTypeOK, Alive, IsFree, Sharers
    <3> QED BY <3>1, <3>2
  <2> QED BY <2>1, <1>1 DEF FreedWithItsLastHandle
<1> QED BY <1>3, <1>4, <1>5 DEF OwnListSet

\* What the lists of a dropped handle's neighbours see of it: nothing.
LEMMA DroppedList ==
  ASSUME VerifierTypeOK, FreedWithItsLastHandle, NEW h \in Handle, Drop(h)
  PROVE  /\ cell' \in [Handle -> Cell \cup {NoCell}]
         /\ heap' \in [Cell -> Seq(Secret) \cup {NoSecrets}]
         /\ FreedWithItsLastHandle'
         /\ ~ Alive(h)'
         /\ \A g \in Handle \ {h} :
              /\ Alive(g)' <=> Alive(g)
              /\ Alive(g) => List(g)' = List(g)
<1>1. /\ Alive(h)
      /\ cell' = [cell EXCEPT ![h] = NoCell]
      /\ heap' = IF Sharers(cell[h]) = {h} THEN [heap EXCEPT ![cell[h]] = NoSecrets] ELSE heap
  BY DEF Drop
<1>2. cell[h] \in Cell
  BY <1>1, OnACell
<1>3. /\ cell' \in [Handle -> Cell \cup {NoCell}]
      /\ heap' \in [Cell -> Seq(Secret) \cup {NoSecrets}]
      /\ ~ Alive(h)'
  BY <1>1 DEF VerifierTypeOK, Alive
<1>4. ASSUME NEW d \in Cell, d # cell[h]
      PROVE  heap'[d] = heap[d] /\ (IsFree(d)' <=> IsFree(d))
  BY <1>1, <1>4, CellsAssumption DEF VerifierTypeOK, IsFree, Sharers
<1>5. ASSUME NEW d \in Cell, d = cell[h]
      PROVE  IF Sharers(d) = {h} THEN heap'[d] = NoSecrets /\ IsFree(d)'
             ELSE heap'[d] = heap[d] /\ ~ IsFree(d)' /\ ~ IsFree(d)
  <2>1. CASE Sharers(d) = {h}
    BY <1>1, <1>5, <2>1, CellsAssumption DEF VerifierTypeOK, IsFree, Sharers
  <2>2. CASE Sharers(d) # {h}
    <3>1. PICK g \in Handle \ {h} : cell[g] = d
      BY <1>5, <2>2 DEF Sharers
    <3>2. cell'[g] = d
      BY <1>1, <3>1 DEF VerifierTypeOK
    <3> QED BY <1>1, <1>5, <2>2, <3>1, <3>2 DEF IsFree, Sharers
  <2> QED BY <2>1, <2>2
<1>6. FreedWithItsLastHandle'
  <2> SUFFICES ASSUME NEW d \in Cell
               PROVE  heap'[d] # NoSecrets <=> ~ IsFree(d)'
    BY DEF FreedWithItsLastHandle
  <2>1. CASE d = cell[h]
    BY <1>5, <2>1 DEF FreedWithItsLastHandle
  <2>2. CASE d # cell[h]
    BY <1>4, <2>2 DEF FreedWithItsLastHandle
  <2> QED BY <2>1, <2>2
<1>7. \A g \in Handle \ {h} : cell'[g] = cell[g] /\ (cell[g] = cell[h] => Sharers(cell[h]) # {h})
  BY <1>1 DEF VerifierTypeOK, Sharers
<1>8. \A g \in Handle \ {h} : /\ Alive(g)' <=> Alive(g)
                              /\ Alive(g) => List(g)' = List(g)
  BY <1>4, <1>5, <1>7 DEF VerifierTypeOK, Alive, List
<1> QED BY <1>3, <1>6, <1>8

-----------------------------------------------------------------------------
(* The invariant *)

LEMMA NoCheckIsACheck ==
  NoCheck \in Check
BY BoundAssumption DEF NoCheck, Check

\* A handle put on a list of its own, in no call, keeps the invariant.
LEMMA OwnListKeepsInv ==
  ASSUME VerifierInv, NEW h \in Handle, NEW list \in Seq(Secret) \ {<<>>},
         Len(list) <= MaxSecrets, OwnListSet(h, list),
         check' \in [Handle -> Check],
         \A g \in Handle \ {h} : check'[g] = check[g],
         check'[h].state = "none"
  PROVE  VerifierInv'
<1>1. VerifierTypeOK'
  BY DEF VerifierInv, VerifierTypeOK, OwnListSet
<1>2. CallsInBounds'
  BY DEF VerifierInv, CallsInBounds, OwnListSet, Borrowed
<1>3. EverySecretTried'
  <2> SUFFICES ASSUME NEW g \in Handle \ {h}
               PROVE  LET tried == {List(g)'[i] : i \in 1 .. check'[g].tried}
                      IN  /\ Borrowed(g)' => (check'[g].matched <=> check'[g].signer \in tried)
                          /\ check'[g].state \in {"verified", "mismatch"} =>
                               check'[g].tried = Len(List(g)')
    BY DEF EverySecretTried, Borrowed
  <2>1. CASE Alive(g)
    BY <2>1 DEF VerifierInv, EverySecretTried, OwnListSet, Borrowed
  <2>2. CASE ~ Alive(g)
    BY <2>2 DEF VerifierInv, CallsInBounds, Borrowed
  <2> QED BY <2>1, <2>2
<1> QED BY <1>1, <1>2, <1>3 DEF VerifierInv, OwnListSet

LEMMA NewInv ==
  ASSUME VerifierInv, NEW h \in Handle, NEW s \in Secret, New(h, s)
  PROVE  VerifierInv' /\ OwnListSet(h, <<s>>)
<1>1. PICK c \in Cell : /\ IsFree(c)
                        /\ cell' = [cell EXCEPT ![h] = c]
                        /\ heap' = [heap EXCEPT ![c] = <<s>>]
  BY DEF New
<1>2. ~ Alive(h) /\ check' = check
  BY DEF New
<1>3. <<s>> \in Seq(Secret) \ {<<>>} /\ Len(<<s>>) <= MaxSecrets
  BY BoundAssumption
<1>4. OwnListSet(h, <<s>>)
  BY <1>1, <1>2, <1>3, OnAFreeCell DEF VerifierInv
<1>5. check[h].state = "none" /\ check' \in [Handle -> Check]
  BY <1>2 DEF VerifierInv, CallsInBounds, VerifierTypeOK
<1> QED BY <1>2, <1>3, <1>4, <1>5, OwnListKeepsInv

LEMMA CloneInv ==
  ASSUME VerifierInv, NEW h \in Handle, NEW g \in Handle, Clone(h, g)
  PROVE  VerifierInv' /\ OwnListSet(g, List(h))
<1>1. OwnListSet(g, List(h))
  BY ClonedList DEF VerifierInv
<1>2. Alive(h) /\ ~ Alive(g) /\ check' = check
  BY DEF Clone
<1>3. List(h) \in Seq(Secret) \ {<<>>} /\ Len(List(h)) <= MaxSecrets
  BY <1>2, OnACell DEF VerifierInv, CallsInBounds
<1>4. check[g].state = "none" /\ check' \in [Handle -> Check]
  BY <1>2 DEF VerifierInv, CallsInBounds, VerifierTypeOK
<1> QED BY <1>1, <1>2, <1>3, <1>4, OwnListKeepsInv

\* Whatever is added, the handle's own list is the longer one.
LEMMA AddInv ==
  ASSUME VerifierInv, NEW h \in Handle, NEW more \in Seq(Secret), Add(h, more)
  PROVE  VerifierInv' /\ OwnListSet(h, List(h) \o more)
<1>1. /\ Alive(h) /\ Len(List(h)) + Len(more) <= MaxSecrets
      /\ MakeMut(h, List(h) \o more)
      /\ check' = [check EXCEPT ![h] = NoCheck]
  BY DEF Add, Extended
<1>2. List(h) \in Seq(Secret) \ {<<>>}
  BY <1>1, OnACell DEF VerifierInv
<1>3. /\ List(h) \o more \in Seq(Secret) \ {<<>>}
      /\ Len(List(h) \o more) <= MaxSecrets
  BY <1>1, <1>2
<1>4. OwnListSet(h, List(h) \o more)
  BY <1>1, <1>3, CopiedOnWrite DEF VerifierInv
<1>5. check' \in [Handle -> Check] /\ check'[h].state = "none"
  BY <1>1, NoCheckIsACheck DEF VerifierInv, VerifierTypeOK, NoCheck
<1>6. \A g \in Handle \ {h} : check'[g] = check[g]
  BY <1>1 DEF VerifierInv, VerifierTypeOK
<1> QED BY <1>3, <1>4, <1>5, <1>6, OwnListKeepsInv

LEMMA DropInv ==
  ASSUME VerifierInv, NEW h \in Handle, Drop(h)
  PROVE  VerifierInv'
<1>1. /\ cell' \in [Handle -> Cell \cup {NoCell}]
      /\ heap' \in [Cell -> Seq(Secret) \cup {NoSecrets}]
      /\ FreedWithItsLastHandle'
      /\ ~ Alive(h)'
      /\ \A g \in Handle \ {h} : /\ Alive(g)' <=> Alive(g)
                                 /\ Alive(g) => List(g)' = List(g)
  BY DroppedList DEF VerifierInv
<1>2. /\ check' \in [Handle -> Check] /\ check'[h].state = "none"
      /\ \A g \in Handle \ {h} : check'[g] = check[g]
  BY NoCheckIsACheck DEF Drop, VerifierInv, VerifierTypeOK, NoCheck
<1>3. VerifierTypeOK'
  BY <1>1, <1>2 DEF VerifierInv, VerifierTypeOK
<1>4. CallsInBounds'
  BY <1>1, <1>2 DEF VerifierInv, CallsInBounds, Borrowed
<1>5. EverySecretTried'
  <2> SUFFICES ASSUME NEW g \in Handle \ {h}
               PROVE  LET tried == {List(g)'[i] : i \in 1 .. check'[g].tried}
                      IN  /\ Borrowed(g)' => (check'[g].matched <=> check'[g].signer \in tried)
                          /\ check'[g].state \in {"verified", "mismatch"} =>
                               check'[g].tried = Len(List(g)')
    BY <1>2 DEF EverySecretTried, Borrowed
  <2>1. CASE Alive(g)
    BY <1>1, <1>2, <2>1 DEF VerifierInv, EverySecretTried, Borrowed
  <2>2. CASE ~ Alive(g)
    BY <1>2, <2>2 DEF VerifierInv, CallsInBounds, Borrowed
  <2> QED BY <2>1, <2>2
<1> QED BY <1>1, <1>3, <1>4, <1>5 DEF VerifierInv

LEMMA VerifyInv ==
  ASSUME VerifierInv, NEW h \in Handle, NEW signer \in Secret \cup {Other}, Verify(h, signer)
  PROVE  VerifierInv'
<1>1. /\ Alive(h) /\ cell' = cell /\ heap' = heap
      /\ check' = [check EXCEPT ![h] =
           [state |-> "checking", signer |-> signer, tried |-> 0, matched |-> FALSE]]
  BY DEF Verify
<1>2. check' \in [Handle -> Check]
  BY <1>1, BoundAssumption DEF VerifierInv, VerifierTypeOK, Check
<1>3. VerifierTypeOK' /\ FreedWithItsLastHandle'
  BY <1>1, <1>2 DEF VerifierInv, VerifierTypeOK, FreedWithItsLastHandle, IsFree, Sharers,
                    Alive, List
<1>4. Len(List(h)) \in Nat
  BY <1>1, OnACell DEF VerifierInv
<1>5. CallsInBounds'
  BY <1>1, <1>4 DEF VerifierInv, VerifierTypeOK, CallsInBounds, Alive, List, Borrowed
<1>6. EverySecretTried'
  BY <1>1 DEF VerifierInv, VerifierTypeOK, EverySecretTried, List, Borrowed
<1> QED BY <1>3, <1>5, <1>6 DEF VerifierInv

\* One more secret tried: what has matched is what the secrets so far say.
LEMMA TryInv ==
  ASSUME VerifierInv, NEW h \in Handle, Try(h)
  PROVE  VerifierInv'
<1> DEFINE next == check[h].tried + 1
<1>1. /\ Borrowed(h) /\ check[h].tried < Len(List(h))
      /\ cell' = cell /\ heap' = heap
      /\ check' = [check EXCEPT ![h].tried = @ + 1,
                     ![h].matched = @ \/ List(h)[next] = check[h].signer]
  BY DEF Try, MoreToTry
<1>2. /\ Alive(h) /\ List(h) \in Seq(Secret) /\ Len(List(h)) <= MaxSecrets
      /\ check[h] \in Check
  BY <1>1, OnACell DEF VerifierInv, CallsInBounds, Borrowed, VerifierTypeOK
<1>3. check'[h] = [state |-> "checking", signer |-> check[h].signer, tried |-> next,
                   matched |-> check[h].matched \/ List(h)[next] = check[h].signer]
  BY <1>1, <1>2 DEF VerifierInv, VerifierTypeOK, Check, Borrowed
<1>4. \A g \in Handle \ {h} : check'[g] = check[g]
  BY <1>1 DEF VerifierInv, VerifierTypeOK
<1>5. next \in 1 .. Len(List(h)) /\ next \in 0 .. MaxSecrets
  BY <1>1, <1>2, BoundAssumption DEF Check
<1>6. check'[h] \in Check
  BY <1>2, <1>3, <1>5 DEF Check
<1>7. check' \in [Handle -> Check]
  BY <1>1, <1>4, <1>6 DEF VerifierInv, VerifierTypeOK
<1>8. VerifierTypeOK' /\ FreedWithItsLastHandle'
  BY <1>1, <1>7 DEF VerifierInv, VerifierTypeOK, FreedWithItsLastHandle, IsFree, Sharers,
                    Alive, List
<1>9. CallsInBounds'
  <2>1. \A g \in Handle : (Alive(g)' <=> Alive(g)) /\ List(g)' = List(g)
    BY <1>1 DEF Alive, List
  <2>2. Borrowed(h)' /\ check'[h].tried <= Len(List(h)) /\ check'[h].state # "none"
    BY <1>3, <1>5 DEF Borrowed
  <2>3. \A g \in Handle \ {h} : Borrowed(g)' <=> Borrowed(g)
    BY <1>4 DEF Borrowed
  <2> QED BY <1>2, <1>4, <2>1, <2>2, <2>3 DEF VerifierInv, CallsInBounds
<1>10. EverySecretTried'
  <2> SUFFICES ASSUME NEW g \in Handle
               PROVE  LET tried == {List(g)'[i] : i \in 1 .. check'[g].tried}
                      IN  /\ Borrowed(g)' => (check'[g].matched <=> check'[g].signer \in tried)
                          /\ check'[g].state \in {"verified", "mismatch"} =>
                               check'[g].tried = Len(List(g)')
    BY DEF EverySecretTried, Borrowed
  <2>1. List(g)' = List(g)
    BY <1>1 DEF List
  <2>2. CASE g = h
    <3>1. check[h].matched <=> \E i \in 1 .. check[h].tried : List(h)[i] = check[h].signer
      BY <1>1 DEF VerifierInv, EverySecretTried
    <3>2. 1 .. next = (1 .. check[h].tried) \cup {next}
      BY <1>2, <1>5 DEF Check
    <3> DEFINE now == check[h].matched \/ List(h)[next] = check[h].signer
    <3> HIDE DEF now
    <3>3. /\ check'[h].matched = now
          /\ check'[h].signer = check[h].signer /\ check'[h].tried = next
          /\ check'[h].state = "checking"
      BY <1>3 DEF now
    <3>4. check'[h].matched <=> now
      BY <3>3, Zenon
    <3>5. /\ check'[h].matched <=> (check[h].matched \/ List(h)[next] = check[h].signer)
          /\ check'[h].signer = check[h].signer /\ check'[h].tried = next
          /\ check'[h].state = "checking"
      BY <3>3, <3>4 DEF now
    <3>6. check'[h].matched <=> \E i \in 1 .. next : List(h)[i] = check[h].signer
      BY <3>1, <3>2, <3>5
    <3> HIDE DEF next
    <3> QED BY <2>1, <2>2, <3>5, <3>6
  <2>3. CASE g # h
    BY <1>4, <2>1, <2>3 DEF VerifierInv, EverySecretTried, Borrowed
  <2> QED BY <2>2, <2>3
<1> QED BY <1>8, <1>9, <1>10 DEF VerifierInv

LEMMA AnswerInv ==
  ASSUME VerifierInv, NEW h \in Handle, Answer(h)
  PROVE  VerifierInv'
<1>1. /\ Borrowed(h) /\ ~ (check[h].tried < Len(List(h)))
      /\ cell' = cell /\ heap' = heap
      /\ check' = [check EXCEPT ![h].state =
           IF check[h].matched THEN "verified" ELSE "mismatch"]
  BY DEF Answer, MoreToTry
<1>2. /\ Alive(h) /\ List(h) \in Seq(Secret) /\ check[h] \in Check
      /\ check[h].tried <= Len(List(h))
  BY <1>1, OnACell DEF VerifierInv, CallsInBounds, Borrowed, VerifierTypeOK
<1>3. /\ check'[h] \in Check /\ check'[h].state \in {"verified", "mismatch"}
      /\ check'[h].tried = check[h].tried
      /\ \A g \in Handle \ {h} : check'[g] = check[g]
  BY <1>1, <1>2 DEF VerifierInv, VerifierTypeOK, Check
<1>4. VerifierTypeOK' /\ FreedWithItsLastHandle'
  BY <1>1, <1>3 DEF VerifierInv, VerifierTypeOK, FreedWithItsLastHandle, IsFree, Sharers,
                    Alive, List
<1>5. CallsInBounds'
  BY <1>1, <1>2, <1>3 DEF VerifierInv, CallsInBounds, Alive, List, Borrowed
<1>6. check[h].tried = Len(List(h))
  BY <1>1, <1>2 DEF Check
<1>7. EverySecretTried'
  BY <1>1, <1>3, <1>6 DEF VerifierInv, EverySecretTried, Borrowed, List
<1> QED BY <1>4, <1>5, <1>7 DEF VerifierInv

LEMMA InitInv ==
  ASSUME Init
  PROVE  VerifierInv
<1>1. VerifierTypeOK
  BY NoCheckIsACheck DEF Init, VerifierTypeOK, Alive
<1>2. FreedWithItsLastHandle
  BY CellsAssumption DEF Init, FreedWithItsLastHandle, IsFree, Sharers
<1>3. CallsInBounds /\ EverySecretTried
  BY DEF Init, NoCheck, CallsInBounds, EverySecretTried, Alive, Borrowed
<1> QED BY <1>1, <1>2, <1>3 DEF VerifierInv

\* What `also' and `extend' add.
LEMMA Added ==
  ASSUME NEW h \in Handle, Extend(h) \/ \E s \in Secret : Also(h, s)
  PROVE  \E more \in Values!Lists : more \in Seq(Secret) /\ Add(h, more)
<1>1. CASE \E s \in Secret : Also(h, s)
  <2>1. PICK s \in Secret : Add(h, <<s>>)
    BY <1>1 DEF Also
  <2>2. <<s>> \in Seq(Secret) /\ <<s>> \in Values!Lists
    BY DEF Values!Lists
  <2> QED BY <2>1, <2>2
<1>2. CASE Extend(h)
  <2>1. CASE Add(h, <<>>)
    <3>1. <<>> \in Seq(Secret) /\ <<>> \in Values!Lists
      BY DEF Values!Lists
    <3> QED BY <2>1, <3>1
  <2>2. CASE \E s, t \in Secret : Add(h, <<s, t>>)
    <3>1. PICK s \in Secret, t \in Secret : Add(h, <<s, t>>)
      BY <2>2
    <3>2. <<s, t>> \in Seq(Secret) /\ <<s, t>> \in Values!Lists
      BY DEF Values!Lists
    <3> QED BY <3>1, <3>2
  <2> QED BY <1>2, <2>1, <2>2 DEF Extend
<1> QED BY <1>1, <1>2

LEMMA NextInv ==
  ASSUME VerifierInv, [Next]_vars
  PROVE  VerifierInv'
<1>1. CASE UNCHANGED vars
  BY <1>1 DEF vars, VerifierInv, VerifierTypeOK, FreedWithItsLastHandle, CallsInBounds,
              EverySecretTried, Alive, List, Borrowed, IsFree, Sharers
<1>2. CASE Next
  <2>1. PICK h \in Handle :
          \/ \E s \in Secret : New(h, s)
          \/ Extend(h) \/ \E s \in Secret : Also(h, s)
          \/ \E g \in Handle : Clone(h, g)
          \/ Drop(h)
          \/ \E signer \in Secret \cup {Other} : Verify(h, signer)
          \/ Try(h)
          \/ Answer(h)
    BY <1>2 DEF Next
  <2> QED
    BY <2>1, NewInv, Added, AddInv, CloneInv, DropInv, VerifyInv, TryInv, AnswerInv
<1> QED BY <1>1, <1>2

LEMMA VerifierInvariant ==
  Spec => []VerifierInv
<1>1. Init => VerifierInv
  BY InitInv
<1>2. VerifierInv /\ [Next]_vars => VerifierInv'
  BY NextInv
<1> QED BY <1>1, <1>2, PTL DEF Spec

\* However many handles share a list, each one alive is on a list that is there
\* and holds a secret.
THEOREM VerifierTypeCorrect ==
  Spec => []VerifierTypeOK
BY VerifierInvariant, PTL DEF VerifierInv

\* No list is freed under a handle, and none is kept that no handle is on.
THEOREM ListsAreFreed ==
  Spec => []FreedWithItsLastHandle
BY VerifierInvariant, PTL DEF VerifierInv

\* `verify' answers only once it has tried the whole list, and has matched
\* exactly when one of the secrets it tried made the signature.
THEOREM SecretsAreTried ==
  Spec => []EverySecretTried
BY VerifierInvariant, PTL DEF VerifierInv

-----------------------------------------------------------------------------
(* The refinement *)

\* The list a handle owns in VerifierValues, and its call there.
Owned(h) == IF Alive(h) THEN List(h) ELSE NoSecrets

Call(h) == [state |-> check[h].state, signer |-> check[h].signer]

\* To put a handle on a list of its own is to set that handle's list.
LEMMA OwnListIsSet ==
  ASSUME NEW h \in Handle, NEW list, OwnListSet(h, list)
  PROVE  [g \in Handle |-> Owned(g)]' = [[g \in Handle |-> Owned(g)] EXCEPT ![h] = list]
BY DEF OwnListSet, Owned

LEMMA InitRefines ==
  Init => Values!Init
BY DEF Init, Values!Init, Values!NoCheck, NoCheck, Other, Alive

\* Every step of a handle is a step of its list, except that trying one secret
\* of several changes nothing there.
LEMMA NextRefines ==
  ASSUME VerifierInv, [Next]_vars
  PROVE  [Values!Next]_(Values!vars)
<1> DEFINE secrets == [g \in Handle |-> Owned(g)]
           calls == [g \in Handle |-> Call(g)]
<1>1. /\ Values!vars = <<secrets, calls>>
      /\ (Values!vars)' = <<secrets', calls'>>
  BY DEF Values!vars, Owned, Call
<1>2. \A g \in Handle : Values!Alive(g) <=> Alive(g)
  BY OnACell DEF Values!Alive, VerifierInv
<1>3. \A g \in Handle : Values!Borrowed(g) <=> Borrowed(g)
  BY DEF Values!Borrowed, Borrowed
<1>4. CASE UNCHANGED vars
  BY <1>1, <1>4 DEF vars, Owned, Call, Alive, List
<1>5. ASSUME NEW h \in Handle, NEW s \in Secret, New(h, s)
      PROVE  Values!New(h, s)
  <2>1. OwnListSet(h, <<s>>) /\ ~ Alive(h) /\ check' = check
    BY <1>5, NewInv DEF New
  <2>2. secrets' = [secrets EXCEPT ![h] = <<s>>]
    BY <2>1, OwnListIsSet
  <2> QED BY <1>2, <2>1, <2>2 DEF Values!New, Owned
<1>6. ASSUME NEW h \in Handle, NEW g \in Handle, Clone(h, g)
      PROVE  Values!Clone(h, g)
  <2>1. OwnListSet(g, List(h)) /\ Alive(h) /\ ~ Alive(g) /\ check' = check
    BY <1>6, CloneInv DEF Clone
  <2>2. secrets' = [secrets EXCEPT ![g] = List(h)]
    BY <2>1, OwnListIsSet
  <2> QED BY <1>2, <2>1, <2>2 DEF Values!Clone, Owned
<1>7. ASSUME NEW h \in Handle, NEW more \in Seq(Secret), Add(h, more)
      PROVE  Values!Add(h, more)
  <2>1. /\ OwnListSet(h, List(h) \o more) /\ Alive(h) /\ ~ Borrowed(h)
        /\ Len(List(h)) + Len(more) <= MaxSecrets
        /\ check' = [check EXCEPT ![h] = NoCheck]
    BY <1>7, AddInv DEF Add
  <2>2. secrets' = [secrets EXCEPT ![h] = List(h) \o more]
    BY <2>1, OwnListIsSet
  <2>3. calls' = [calls EXCEPT ![h] = Values!NoCheck]
    BY <2>1 DEF VerifierInv, VerifierTypeOK, Call, NoCheck, Values!NoCheck, Other
  <2> QED BY <1>2, <1>3, <2>1, <2>2, <2>3 DEF Values!Add, Owned, Call
<1>8. ASSUME NEW h \in Handle, Drop(h)
      PROVE  Values!Drop(h)
  <2>1. /\ Alive(h) /\ ~ Borrowed(h)
        /\ check' = [check EXCEPT ![h] = NoCheck]
        /\ ~ Alive(h)'
        /\ \A g \in Handle \ {h} : /\ Alive(g)' <=> Alive(g)
                                   /\ Alive(g) => List(g)' = List(g)
    BY <1>8, DroppedList DEF Drop, VerifierInv
  <2>2. secrets' = [secrets EXCEPT ![h] = NoSecrets]
    BY <2>1 DEF Owned
  <2>3. calls' = [calls EXCEPT ![h] = Values!NoCheck]
    BY <2>1 DEF VerifierInv, VerifierTypeOK, Call, NoCheck, Values!NoCheck, Other
  <2> QED BY <1>2, <1>3, <2>1, <2>2, <2>3 DEF Values!Drop, Owned, Call
<1>9. ASSUME NEW h \in Handle, NEW signer \in Secret \cup {Other}, Verify(h, signer)
      PROVE  Values!Verify(h, signer)
  <2>1. /\ Alive(h) /\ ~ Borrowed(h) /\ cell' = cell /\ heap' = heap
        /\ check' = [check EXCEPT ![h] =
             [state |-> "checking", signer |-> signer, tried |-> 0, matched |-> FALSE]]
    BY <1>9 DEF Verify
  <2>2. secrets' = secrets
    BY <2>1 DEF Owned, Alive, List
  <2>3. calls' = [calls EXCEPT ![h] = [state |-> "checking", signer |-> signer]]
    BY <2>1 DEF VerifierInv, VerifierTypeOK, Call
  <2> QED BY <1>2, <1>3, <2>1, <2>2, <2>3 DEF Values!Verify, Owned, Call
<1>10. ASSUME NEW h \in Handle, Try(h)
       PROVE  UNCHANGED Values!vars
  <2>1. secrets' = secrets
    BY <1>10 DEF Try, Owned, Alive, List
  <2>2. calls' = calls
    BY <1>10 DEF Try, VerifierInv, VerifierTypeOK, Check, Call
  <2> QED BY <1>1, <2>1, <2>2
<1>11. ASSUME NEW h \in Handle, Answer(h)
       PROVE  Values!Answer(h)
  <2>1. /\ Borrowed(h) /\ ~ (check[h].tried < Len(List(h)))
        /\ cell' = cell /\ heap' = heap
        /\ check' = [check EXCEPT ![h].state =
             IF check[h].matched THEN "verified" ELSE "mismatch"]
    BY <1>11 DEF Answer, MoreToTry
  <2>2. Alive(h) /\ List(h) \in Seq(Secret) /\ check[h] \in Check
    BY <2>1, OnACell DEF VerifierInv, CallsInBounds, Borrowed, VerifierTypeOK
  <2>3. check[h].tried = Len(List(h))
    BY <2>1, <2>2 DEF VerifierInv, CallsInBounds, Check
  <2>4. check[h].matched <=> check[h].signer \in Values!Range(List(h))
    BY <2>1, <2>2, <2>3 DEF VerifierInv, EverySecretTried, Values!Range
  <2>5. secrets' = secrets
    BY <2>1 DEF Owned, Alive, List
  <2>6. calls' = [calls EXCEPT ![h].state =
          IF check[h].signer \in Values!Range(List(h)) THEN "verified" ELSE "mismatch"]
    BY <2>1, <2>2, <2>4 DEF VerifierInv, VerifierTypeOK, Check, Call
  <2>7. secrets[h] = List(h) /\ calls[h].signer = check[h].signer
    BY <2>2 DEF Owned, Call
  <2> QED BY <1>3, <2>1, <2>5, <2>6, <2>7 DEF Values!Answer, Owned, Call
<1>12. CASE Next
  <2>1. PICK h \in Handle :
          \/ \E s \in Secret : New(h, s)
          \/ Extend(h) \/ \E s \in Secret : Also(h, s)
          \/ \E g \in Handle : Clone(h, g)
          \/ Drop(h)
          \/ \E signer \in Secret \cup {Other} : Verify(h, signer)
          \/ Try(h)
          \/ Answer(h)
    BY <1>12 DEF Next
  <2>2. CASE Extend(h) \/ \E s \in Secret : Also(h, s)
    <3>1. PICK more \in Values!Lists : more \in Seq(Secret) /\ Add(h, more)
      BY <2>2, Added
    <3> QED BY <3>1, <1>7 DEF Values!Next
  <2>3. CASE \E signer \in Secret \cup {Other} : Verify(h, signer)
    BY <2>3, <1>9 DEF Values!Next, Other
  <2> QED BY <2>1, <2>2, <2>3, <1>5, <1>6, <1>8, <1>10, <1>11 DEF Values!Next
<1> QED BY <1>4, <1>12

\* Every behaviour of the shared handles is one of handles that own their
\* lists, up to the fairness both state, which is left to TLC.
THEOREM SharingIsInvisible ==
  Spec => Values!SafeSpec
<1>1. Init => Values!Init
  BY InitRefines
<1>2. VerifierInv /\ [Next]_vars => [Values!Next]_(Values!vars)
  BY NextRefines
<1> QED BY <1>1, <1>2, VerifierInvariant, PTL DEF Spec, Values!SafeSpec

\* The secret a handle signs with is the one it was made with, through every
\* `also', `extend', clone and drop.
THEOREM SigningSecretIsKept ==
  Spec => SigningSecretStays
<1> DEFINE Kept == \A h \in Handle :
              Alive(h) /\ cell'[h] # NoCell => heap'[cell'[h]][1] = List(h)[1]
<1>1. ASSUME VerifierInv, [Next]_vars
      PROVE  Kept
  <2>1. ASSUME NEW h \in Handle, NEW list, OwnListSet(h, list),
               Alive(h) => list[1] = List(h)[1]
        PROVE  Kept
    BY <2>1 DEF OwnListSet, Alive, List
  <2>2. ASSUME cell' = cell, heap' = heap
        PROVE  Kept
    BY <2>2 DEF List
  <2>3. ASSUME NEW h \in Handle, NEW more \in Seq(Secret), Add(h, more)
        PROVE  Kept
    <3>1. OwnListSet(h, List(h) \o more) /\ Alive(h)
      BY <1>1, <2>3, AddInv DEF Add
    <3>2. List(h) \in Seq(Secret) \ {<<>>}
      BY <1>1, <3>1, OnACell DEF VerifierInv
    <3>3. (List(h) \o more)[1] = List(h)[1]
      BY <3>2
    <3> QED BY <3>1, <3>3, <2>1
  <2>4. ASSUME NEW h \in Handle, Drop(h)
        PROVE  Kept
    <3>1. /\ ~ Alive(h)'
          /\ \A g \in Handle \ {h} : /\ Alive(g)' <=> Alive(g)
                                     /\ Alive(g) => List(g)' = List(g)
      BY <1>1, <2>4, DroppedList DEF VerifierInv
    <3> QED BY <3>1 DEF Alive, List
  <2>5. ASSUME NEW h \in Handle, NEW s \in Secret, New(h, s)
        PROVE  Kept
    BY <1>1, <2>1, <2>5, NewInv DEF New
  <2>6. ASSUME NEW h \in Handle, NEW g \in Handle, Clone(h, g)
        PROVE  Kept
    BY <1>1, <2>1, <2>6, CloneInv DEF Clone
  <2>7. CASE UNCHANGED vars
    BY <2>2, <2>7 DEF vars
  <2>8. CASE Next
    <3>1. PICK h \in Handle :
            \/ \E s \in Secret : New(h, s)
            \/ Extend(h) \/ \E s \in Secret : Also(h, s)
            \/ \E g \in Handle : Clone(h, g)
            \/ Drop(h)
            \/ \E signer \in Secret \cup {Other} : Verify(h, signer)
            \/ Try(h)
            \/ Answer(h)
      BY <2>8 DEF Next
    <3>2. CASE Extend(h) \/ \E s \in Secret : Also(h, s)
      BY <2>3, <3>2, Added
    <3>3. CASE (\E signer \in Secret \cup {Other} : Verify(h, signer)) \/ Try(h) \/ Answer(h)
      BY <2>2, <3>3 DEF Verify, Try, Answer
    <3> QED BY <2>4, <2>5, <2>6, <3>1, <3>2, <3>3
  <2> QED BY <1>1, <2>7, <2>8
<1>2. VerifierInv /\ [Next]_vars => [Kept]_vars
  BY <1>1
<1> QED BY <1>2, VerifierInvariant, PTL DEF Spec, SigningSecretStays
=============================================================================
