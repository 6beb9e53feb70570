----------------------------- MODULE InboxProofs -----------------------------
(***************************************************************************)
(* Proofs about the policy seam: for any number of calls, deliveries and   *)
(* programs, whatever its dispatches do within their contract, and however *)
(* copies, drops, poisoned locks and recovery interleave.                  *)
(***************************************************************************)
EXTENDS Inbox, TLAPS

\* The contract reads the registrations as the seam does.
LEMMA SameSelection ==
  /\ Dispatches!Envelope = Envelope
  /\ \A f : Dispatches!Range(f) = Range(f)
  /\ \A regs, e : Dispatches!Due(regs, e) = Due(regs, e)
  /\ \A regs, e : Dispatches!MatchOf(regs, e) = MatchOf(regs, e)
<1>1. Dispatches!Envelope = Envelope
  BY DEF Dispatches!Envelope, Envelope
<1>2. \A f : Dispatches!Range(f) = Range(f)
  BY DEF Dispatches!Range, Range
<1>3. \A regs, t : Dispatches!OfTier(regs, t) = OfTier(regs, t)
  BY DEF Dispatches!OfTier, OfTier
<1>4. \A regs, slot : Dispatches!Naming(regs, slot) = Naming(regs, slot)
  BY <1>3 DEF Dispatches!Naming, Naming
<1>5. /\ \A regs, k : Dispatches!KindWide(regs, k) = KindWide(regs, k)
      /\ \A regs, k, a : Dispatches!SpecificTo(regs, k, a) = SpecificTo(regs, k, a)
      /\ \A regs : Dispatches!KindsNamed(regs) = KindsNamed(regs)
  BY <1>3, <1>4 DEF Dispatches!KindWide, KindWide, Dispatches!SpecificTo, SpecificTo,
                    Dispatches!KindsNamed, KindsNamed
<1>6. \A regs, e : Dispatches!Routed(regs, e) = Routed(regs, e)
  BY <1>5 DEF Dispatches!Routed, Routed
<1>7. /\ \A regs, e : Dispatches!MatchOf(regs, e) = MatchOf(regs, e)
      /\ \A regs, e : Dispatches!Due(regs, e) = Due(regs, e)
  BY <1>3, <1>5, <1>6 DEF Dispatches!MatchOf, MatchOf, Dispatches!Due, Due
<1> QED BY <1>1, <1>2, <1>7

\* A delivery is matched only if some registration names its kind.
LEMMA MatchedKindIsNamed ==
  ASSUME NEW regs, NEW e
  PROVE  MatchOf(regs, e) = "UnmatchedKind" <=> e.kind \notin KindsNamed(regs)
<1>1. CASE e.meta_decodes /\ Routed(regs, e) # {}
  <2>1. PICK r : r \in Routed(regs, e)
    BY <1>1
  <2>2. \E a : [kind |-> e.kind, action |-> a] \in regs[r].slots /\ r \in OfTier(regs, "on")
    BY <2>1 DEF Routed, SpecificTo, KindWide, Naming
  <2>3. PICK a : [kind |-> e.kind, action |-> a] \in regs[r].slots /\ r \in OfTier(regs, "on")
    BY <2>2
  <2>4. e.kind \in KindsNamed(regs)
    <3>1. [kind |-> e.kind, action |-> a].kind = e.kind
      OBVIOUS
    <3> QED BY <2>3, <3>1 DEF KindsNamed
  <2> QED BY <1>1, <2>4 DEF MatchOf
<1>2. CASE ~ (e.meta_decodes /\ Routed(regs, e) # {})
  BY <1>2 DEF MatchOf
<1> QED BY <1>1, <1>2

LEMMA DueAreRegistered ==
  ASSUME NEW regs, NEW e
  PROVE  Due(regs, e) \subseteq DOMAIN regs
BY DEF Due, Routed, SpecificTo, KindWide, Naming, OfTier

-----------------------------------------------------------------------------
(* What the contract says of a dispatch, at any time *)

DispatchOf(c) ==
  /\ phase[c] = "idle" => ran[c] = <<>>
  /\ Range(ran[c]) \subseteq Due(registrations, env[c])
  /\ phase[c] = "done" => outcome[c].matched = MatchOf(registrations, env[c])
  /\ phase[c] = "done" /\ outcome[c].result = "Ok" =>
       Range(ran[c]) = Due(registrations, env[c])

DispatchInv ==
  /\ registrations \in Seq(Registration)
  /\ phase \in [Call -> {"idle", "open", "running", "done", "dropped"}]
  /\ env \in [Call -> Envelope]
  /\ ran \in [Call -> Seq(Nat)]
  /\ DOMAIN outcome = Call
  /\ \A c \in Call : DispatchOf(c)

\* Dispatch c moved on, and no other.
Only(c) ==
  /\ registrations' = registrations
  /\ \A k \in Call \ {c} : /\ phase'[k] = phase[k] /\ env'[k] = env[k]
                           /\ ran'[k] = ran[k] /\ outcome'[k] = outcome[k]

LEMMA OthersStay ==
  ASSUME DispatchInv, NEW c \in Call, Only(c),
         phase' \in [Call -> {"idle", "open", "running", "done", "dropped"}],
         env' \in [Call -> Envelope], ran' \in [Call -> Seq(Nat)], DOMAIN outcome' = Call,
         DispatchOf(c)'
  PROVE  DispatchInv'
BY DEF DispatchInv, DispatchOf, Only

LEMMA Moved ==
  ASSUME DispatchInv, NEW c \in Call, NEW to \in {"open", "running", "dropped"},
         Dispatches!Move(c, to)
  PROVE  /\ phase' \in [Call -> {"idle", "open", "running", "done", "dropped"}]
         /\ phase'[c] = to
         /\ \A k \in Call \ {c} : phase'[k] = phase[k]
BY DEF DispatchInv, Dispatches!Move

LEMMA Answered ==
  ASSUME DispatchInv, NEW c \in Call, NEW e, NEW result, NEW route,
         Dispatches!Answer(c, e, result, route)
  PROVE  /\ phase' \in [Call -> {"idle", "open", "running", "done", "dropped"}]
         /\ phase'[c] = "done"
         /\ DOMAIN outcome' = Call
         /\ outcome'[c].result = result
         /\ outcome'[c].matched = MatchOf(registrations, e)
         /\ \A k \in Call \ {c} : phase'[k] = phase[k] /\ outcome'[k] = outcome[k]
BY SameSelection DEF DispatchInv, Dispatches!Move, Dispatches!Answer

LEMMA BeginStep ==
  ASSUME DispatchInv, NEW c \in Call, Dispatches!Begin(c)
  PROVE  /\ DispatchInv' /\ Only(c)
         /\ phase'[c] \in {"open", "done"}
         /\ phase'[c] = "done" => outcome'[c].result = "Undecoded"
<1>1. PICK e \in Envelope :
        /\ env' = [env EXCEPT ![c] = e]
        /\ \/ Dispatches!Move(c, "open") /\ UNCHANGED outcome
           \/ Dispatches!Answer(c, e, "Undecoded", 0)
  BY SameSelection DEF Dispatches!Begin
<1>2. phase[c] = "idle" /\ registrations' = registrations /\ ran' = ran
  BY DEF Dispatches!Begin
<1>3. Range(ran[c]) = {}
  BY <1>2 DEF DispatchInv, DispatchOf, Range
<1>4. /\ phase' \in [Call -> {"idle", "open", "running", "done", "dropped"}]
      /\ env' \in [Call -> Envelope] /\ ran' \in [Call -> Seq(Nat)]
      /\ DOMAIN outcome' = Call /\ Only(c)
      /\ phase'[c] \in {"open", "done"}
      /\ phase'[c] = "done" => /\ outcome'[c].result = "Undecoded"
                               /\ outcome'[c].matched = MatchOf(registrations, e)
      /\ env'[c] = e
  <2>1. /\ env' \in [Call -> Envelope] /\ ran' \in [Call -> Seq(Nat)] /\ env'[c] = e
        /\ \A k \in Call \ {c} : env'[k] = env[k] /\ ran'[k] = ran[k]
    BY <1>1, <1>2 DEF DispatchInv
  <2>2. CASE Dispatches!Move(c, "open") /\ UNCHANGED outcome
    BY <1>2, <2>1, <2>2, Moved DEF DispatchInv, Only
  <2>3. CASE Dispatches!Answer(c, e, "Undecoded", 0)
    BY <1>2, <2>1, <2>3, Answered DEF Only
  <2> QED BY <1>1, <2>2, <2>3
<1>5. DispatchOf(c)'
  BY <1>2, <1>3, <1>4 DEF DispatchOf, Range
<1> QED BY <1>4, <1>5, OthersStay

LEMMA RunStep ==
  ASSUME DispatchInv, NEW c \in Call, Dispatches!Run(c)
  PROVE  /\ DispatchInv' /\ Only(c) /\ env' = env
         /\ phase[c] = "open" /\ phase'[c] \in {"running", "done"}
<1>1. PICK r \in Dispatches!Remaining(c) :
        \/ /\ Dispatches!Move(c, "running")
           /\ ran' = [ran EXCEPT ![c] = Append(@, r)]
           /\ UNCHANGED outcome
        \/ /\ Dispatches!Answer(c, env[c], "Failed", r)
           /\ UNCHANGED ran
  BY DEF Dispatches!Run
<1>2. phase[c] = "open" /\ registrations' = registrations /\ env' = env
  BY DEF Dispatches!Run
<1>3. r \in Due(registrations, env[c]) /\ r \in Nat
  BY DueAreRegistered, SameSelection DEF Dispatches!Remaining, DispatchInv
<1>4. /\ phase' \in [Call -> {"idle", "open", "running", "done", "dropped"}]
      /\ env' \in [Call -> Envelope] /\ ran' \in [Call -> Seq(Nat)]
      /\ DOMAIN outcome' = Call /\ Only(c)
      /\ phase'[c] \in {"running", "done"}
      /\ phase'[c] = "done" => /\ outcome'[c].result = "Failed"
                               /\ outcome'[c].matched = MatchOf(registrations, env[c])
      /\ ran'[c] \in {ran[c], Append(ran[c], r)}
  <2>1. CASE /\ Dispatches!Move(c, "running")
             /\ ran' = [ran EXCEPT ![c] = Append(@, r)]
             /\ UNCHANGED outcome
    BY <1>2, <1>3, <2>1, Moved DEF DispatchInv, Only
  <2>2. CASE Dispatches!Answer(c, env[c], "Failed", r) /\ UNCHANGED ran
    BY <1>2, <2>2, Answered DEF DispatchInv, Only
  <2> QED BY <1>1, <2>1, <2>2
<1>5. Range(ran'[c]) \subseteq Range(ran[c]) \cup {r}
  <2>1. ran[c] \in Seq(Nat)
    BY DEF DispatchInv
  <2>2. \A i \in DOMAIN Append(ran[c], r) : Append(ran[c], r)[i] \in Range(ran[c]) \cup {r}
    BY <1>3, <2>1 DEF Range
  <2> QED BY <1>4, <2>2 DEF Range
<1>6. DispatchOf(c)'
  BY <1>2, <1>3, <1>4, <1>5 DEF DispatchInv, DispatchOf
<1> QED BY <1>2, <1>4, <1>6, OthersStay

LEMMA ReturnStep ==
  ASSUME DispatchInv, NEW c \in Call, Dispatches!HandlerReturns(c)
  PROVE  /\ DispatchInv' /\ Only(c) /\ env' = env
         /\ phase[c] = "running" /\ phase'[c] \in {"open", "done"}
<1>1. /\ phase[c] = "running" /\ registrations' = registrations /\ env' = env /\ ran' = ran
      /\ \/ Dispatches!Move(c, "open") /\ UNCHANGED outcome
         \/ Dispatches!Answer(c, env[c], "Failed", ran[c][Len(ran[c])])
  BY DEF Dispatches!HandlerReturns
<1>2. /\ phase' \in [Call -> {"idle", "open", "running", "done", "dropped"}]
      /\ DOMAIN outcome' = Call /\ Only(c)
      /\ phase'[c] \in {"open", "done"}
      /\ phase'[c] = "done" => /\ outcome'[c].result = "Failed"
                               /\ outcome'[c].matched = MatchOf(registrations, env[c])
  <2>1. CASE Dispatches!Move(c, "open") /\ UNCHANGED outcome
    BY <1>1, <2>1, Moved DEF DispatchInv, Only
  <2>2. CASE Dispatches!Answer(c, env[c], "Failed", ran[c][Len(ran[c])])
    BY <1>1, <2>2, Answered DEF Only
  <2> QED BY <1>1, <2>1, <2>2
<1>3. DispatchOf(c)'
  BY <1>1, <1>2 DEF DispatchInv, DispatchOf
<1>4. env' \in [Call -> Envelope] /\ ran' \in [Call -> Seq(Nat)]
  BY <1>1 DEF DispatchInv
<1> QED BY <1>1, <1>2, <1>3, <1>4, OthersStay

LEMMA SucceedStep ==
  ASSUME DispatchInv, NEW c \in Call, Dispatches!Succeed(c)
  PROVE  DispatchInv' /\ Only(c) /\ env' = env /\ phase[c] = "open" /\ phase'[c] = "done"
<1>1. /\ phase[c] = "open" /\ registrations' = registrations /\ env' = env /\ ran' = ran
      /\ Dispatches!Remaining(c) = {} /\ Dispatches!Answer(c, env[c], "Ok", 0)
  BY DEF Dispatches!Succeed
<1>2. /\ phase' \in [Call -> {"idle", "open", "running", "done", "dropped"}]
      /\ DOMAIN outcome' = Call /\ Only(c) /\ phase'[c] = "done"
      /\ outcome'[c].matched = MatchOf(registrations, env[c])
  BY <1>1, SameSelection DEF DispatchInv, Dispatches!Move, Dispatches!Answer, Only
<1>3. Due(registrations, env[c]) \subseteq Range(ran[c])
  BY <1>1, SameSelection DEF Dispatches!Remaining
<1>4. DispatchOf(c)'
  BY <1>1, <1>2, <1>3 DEF DispatchInv, DispatchOf
<1>5. env' \in [Call -> Envelope] /\ ran' \in [Call -> Seq(Nat)]
  BY <1>1 DEF DispatchInv
<1> QED BY <1>1, <1>2, <1>4, <1>5, OthersStay

LEMMA DropStep ==
  ASSUME DispatchInv, NEW c \in Call, Dispatches!Drop(c)
  PROVE  /\ DispatchInv' /\ Only(c) /\ env' = env
         /\ phase[c] = "running" /\ phase'[c] = "dropped"
<1>1. /\ phase[c] = "running" /\ registrations' = registrations /\ env' = env /\ ran' = ran
      /\ outcome' = outcome /\ phase' = [phase EXCEPT ![c] = "dropped"]
  BY DEF Dispatches!Drop, Dispatches!Move
<1>2. /\ phase' \in [Call -> {"idle", "open", "running", "done", "dropped"}]
      /\ DOMAIN outcome' = Call /\ Only(c) /\ phase'[c] = "dropped"
  BY <1>1 DEF DispatchInv, Only
<1>3. DispatchOf(c)'
  BY <1>1, <1>2 DEF DispatchInv, DispatchOf
<1>4. env' \in [Call -> Envelope] /\ ran' \in [Call -> Seq(Nat)]
  BY <1>1 DEF DispatchInv
<1> QED BY <1>1, <1>2, <1>3, <1>4, OthersStay
-----------------------------------------------------------------------------
(* The invariant of the seam *)

\* Where a call stands and what its dispatch has come to agree.
StandsWithItsDispatch(c) ==
  /\ at[c] \in {"idle", "called", "stored"} => phase[c] = "idle"
  /\ at[c] = "dead_letter" =>
       /\ phase[c] = "done" /\ outcome[c].result = "Ok"
       /\ outcome[c].matched = "UnmatchedKind"
  /\ at[c] = "answered" => phase[c] \in {"idle", "done"}
  /\ at[c] \notin {"idle", "recovering"} /\ phase[c] # "idle" =>
       env[c] = delivery[c].envelope
  /\ answer[c] # "None" => at[c] = "answered"

\* What SuccessIsAccountedFor says of one call.
SuccessOf(c) ==
  answer[c] = "Ok" =>
    \/ /\ IsFirst(c)
       /\ Range(ran[c]) = Due(registrations, delivery[c].envelope)
       /\ outcome[c].result = "Ok"
    \/ \E first \in Call \ {c} : IsFirst(first) /\ Id(first) = Id(c)

\* An envelope in the store has the call that put it there, which is what a
\* redelivery's success rests on.
StoredByAFirst ==
  \A id \in DOMAIN envelopes : \E c \in Call : IsFirst(c) /\ Id(c) = id

SeamInv ==
  /\ InboxTypeOK
  /\ DispatchInv
  /\ \A c \in Call : StandsWithItsDispatch(c)
  /\ RoutedOnceAsStored
  /\ StoredByAFirst
  /\ SuccessIsAccountedFor
  /\ DeadLettersAreUnknownKinds

\* Call c moved on, and no other.
Alone(c) ==
  \A k \in Call \ {c} :
    /\ at'[k] = at[k] /\ delivery'[k] = delivery[k] /\ answer'[k] = answer[k]

LEMMA OthersStand ==
  ASSUME NEW c \in Call, Only(c), Alone(c), NEW k \in Call \ {c}
  PROVE  /\ IsFirst(k)' <=> IsFirst(k)
         /\ Id(k)' = Id(k) /\ delivery'[k] = delivery[k]
         /\ IsDeadLetter(k)' <=> IsDeadLetter(k)
         /\ StandsWithItsDispatch(k)' <=> StandsWithItsDispatch(k)
         /\ answer'[k] = answer[k] /\ ran'[k] = ran[k] /\ outcome'[k] = outcome[k]
BY DEF Only, Alone, IsFirst, Id, IsDeadLetter, StandsWithItsDispatch

LEMMA SuccessHasIts ==
  SuccessIsAccountedFor <=> \A c \in Call : SuccessOf(c)
BY DEF SuccessIsAccountedFor, SuccessOf

\* A step that makes no call a first receipt, nor unmakes one, and that writes
\* nothing to the store.
LEMMA SameFirsts ==
  ASSUME SeamInv, NEW c \in Call, Only(c), Alone(c),
         envelopes' = envelopes,
         IsFirst(c)' <=> IsFirst(c),
         IsFirst(c) => delivery'[c] = delivery[c],
         SuccessOf(c)'
  PROVE  RoutedOnceAsStored' /\ StoredByAFirst' /\ SuccessIsAccountedFor'
<1>1. \A k \in Call : /\ IsFirst(k)' <=> IsFirst(k)
                      /\ IsFirst(k) => delivery'[k] = delivery[k] /\ Id(k)' = Id(k)
  BY OthersStand DEF Id
<1>2. RoutedOnceAsStored'
  BY <1>1 DEF SeamInv, RoutedOnceAsStored
<1>3. StoredByAFirst'
  BY <1>1 DEF SeamInv, StoredByAFirst
<1>4. ASSUME NEW k \in Call \ {c}
      PROVE  SuccessOf(k)'
  <2>1. SuccessOf(k)
    BY SuccessHasIts DEF SeamInv
  <2>2. /\ registrations' = registrations /\ delivery'[k] = delivery[k] /\ Id(k)' = Id(k)
        /\ answer'[k] = answer[k] /\ ran'[k] = ran[k] /\ outcome'[k] = outcome[k]
    BY OthersStand DEF Only
  <2> QED BY <1>1, <2>1, <2>2 DEF SuccessOf
<1>5. SuccessIsAccountedFor'
  <2>1. \A k \in Call : SuccessOf(k)'
    BY <1>4
  <2> QED BY <2>1 DEF SuccessIsAccountedFor, SuccessOf
<1> QED BY <1>2, <1>3, <1>5

\* A step that writes no dead letter and completes none.
LEMMA SameDeadLetters ==
  ASSUME SeamInv, NEW c \in Call, Only(c), Alone(c),
         dead_letters' = dead_letters,
         ~ IsDeadLetter(c), ~ IsDeadLetter(c)'
  PROVE  DeadLettersAreUnknownKinds'
<1>1. \A k \in Call : /\ IsDeadLetter(k)' <=> IsDeadLetter(k)
                      /\ IsDeadLetter(k) => Id(k)' = Id(k)
  BY OthersStand
<1> QED BY <1>1 DEF SeamInv, DeadLettersAreUnknownKinds

\* The steps of a call that leave the store as it is.
LEMMA StepAside ==
  ASSUME SeamInv, NEW c \in Call, InboxTypeOK', DispatchInv', Only(c), Alone(c),
         StandsWithItsDispatch(c)', SuccessOf(c)',
         envelopes' = envelopes, dead_letters' = dead_letters,
         IsFirst(c)' <=> IsFirst(c),
         IsFirst(c) => delivery'[c] = delivery[c],
         ~ IsDeadLetter(c), ~ IsDeadLetter(c)'
  PROVE  SeamInv'
<1>1. \A k \in Call : StandsWithItsDispatch(k)'
  <2>1. \A k \in Call \ {c} : StandsWithItsDispatch(k)'
    BY OthersStand DEF SeamInv
  <2> QED BY <2>1
<1> QED BY <1>1, SameFirsts, SameDeadLetters DEF SeamInv

-----------------------------------------------------------------------------
(* The steps of a call *)

\* A call that is not answered has no answer, and completed no dead letter.
LEMMA Unanswered ==
  ASSUME SeamInv, NEW c \in Call, at[c] # "answered"
  PROVE  answer[c] = "None" /\ ~ IsDeadLetter(c)
BY DEF SeamInv, StandsWithItsDispatch, IsDeadLetter

\* A call that moved without an answer.
LEMMA MovedOn ==
  ASSUME SeamInv, NEW c \in Call, at[c] # "answered", answer' = answer
  PROVE  SuccessOf(c)' /\ ~ IsDeadLetter(c)' /\ ~ IsDeadLetter(c)
<1>1. answer'[c] = "None" /\ ~ IsDeadLetter(c)
  BY Unanswered
<1> QED BY <1>1 DEF SuccessOf, IsDeadLetter

LEMMA DispatchStays ==
  ASSUME DispatchInv, UNCHANGED dispatchVars
  PROVE  DispatchInv' /\ \A c : Only(c)
BY DEF DispatchInv, DispatchOf, Only, dispatchVars

LEMMA ADelivery ==
  ASSUME InboxTypeOK, NEW c \in Call
  PROVE  /\ delivery[c] \in Deliveries
         /\ Id(c) \in DeliveryId /\ delivery[c].envelope \in Envelope
         /\ delivery[c] = [id |-> Id(c), envelope |-> delivery[c].envelope]
<1>1. delivery[c] \in Deliveries
  BY DEF InboxTypeOK
<1>2. delivery[c] \in [id : DeliveryId, envelope : Envelope]
  BY <1>1, DeliveriesAssumption
<1> QED BY <1>1, <1>2 DEF Id

LEMMA HandleStep ==
  ASSUME SeamInv, NEW c \in Call, NEW d \in Deliveries, Handle(c, d)
  PROVE  SeamInv'
<1>1. /\ at[c] = "idle" /\ at' = [at EXCEPT ![c] = "called"]
      /\ delivery' = [delivery EXCEPT ![c] = d] /\ answer' = answer
      /\ UNCHANGED dispatchVars /\ UNCHANGED storeVars
  BY DEF Handle, Move
<1>2. InboxTypeOK /\ DispatchInv /\ StandsWithItsDispatch(c)
  BY DEF SeamInv
<1>3. DispatchInv' /\ Only(c)
  BY <1>1, <1>2, DispatchStays
<1>4. at'[c] = "called" /\ delivery'[c] = d /\ Alone(c)
  BY <1>1, <1>2 DEF InboxTypeOK, Alone
<1>5. InboxTypeOK'
  BY <1>1, <1>2 DEF InboxTypeOK, dispatchVars, storeVars
<1>6. StandsWithItsDispatch(c)'
  BY <1>1, <1>2, <1>4 DEF StandsWithItsDispatch, dispatchVars
<1>7. ~ IsFirst(c) /\ ~ IsFirst(c)'
  BY <1>1, <1>4 DEF IsFirst
<1>8. SuccessOf(c)' /\ ~ IsDeadLetter(c)' /\ ~ IsDeadLetter(c)
  BY <1>1, MovedOn
<1> QED BY <1>1, <1>3, <1>4, <1>5, <1>6, <1>7, <1>8, StepAside DEF storeVars

LEMMA RouteStep ==
  ASSUME SeamInv, NEW c \in Call, Route(c)
  PROVE  SeamInv'
<1>1. /\ at[c] = "stored" /\ at' = [at EXCEPT ![c] = "routing"]
      /\ delivery' = delivery /\ answer' = answer /\ UNCHANGED storeVars
      /\ env'[c] = delivery[c].envelope /\ Dispatches!Begin(c)
  BY DEF Route, Move
<1>2. InboxTypeOK /\ DispatchInv /\ StandsWithItsDispatch(c)
  BY DEF SeamInv
<1>3. DispatchInv' /\ Only(c)
  BY <1>1, <1>2, BeginStep
<1>4. at'[c] = "routing" /\ Alone(c)
  BY <1>1, <1>2 DEF InboxTypeOK, Alone
<1>5. InboxTypeOK'
  BY <1>1, <1>2, <1>3 DEF InboxTypeOK, DispatchInv, storeVars
<1>6. StandsWithItsDispatch(c)'
  BY <1>1, <1>2, <1>4 DEF StandsWithItsDispatch
<1>7. IsFirst(c) /\ IsFirst(c)'
  BY <1>1, <1>4 DEF IsFirst
<1>8. SuccessOf(c)' /\ ~ IsDeadLetter(c)' /\ ~ IsDeadLetter(c)
  BY <1>1, MovedOn
<1> QED BY <1>1, <1>3, <1>4, <1>5, <1>6, <1>7, <1>8, StepAside DEF storeVars

\* A step of a dispatch under way: the seam awaits it.
LEMMA AwaitedStep ==
  ASSUME SeamInv, NEW c \in Call, Awaiting(c), UNCHANGED <<storeVars, seamVars>>,
         DispatchInv', Only(c), env' = env, phase[c] # "idle"
  PROVE  SeamInv'
<1>1. at[c] \in {"routing", "recovering"} /\ at' = at /\ delivery' = delivery
      /\ answer' = answer /\ UNCHANGED storeVars
  BY DEF Awaiting, seamVars
<1>2. InboxTypeOK /\ StandsWithItsDispatch(c)
  BY DEF SeamInv
<1>3. Alone(c)
  BY <1>1 DEF Alone
<1>4. InboxTypeOK'
  BY <1>1, <1>2 DEF InboxTypeOK, DispatchInv, storeVars
<1>5. StandsWithItsDispatch(c)'
  BY <1>1, <1>2 DEF StandsWithItsDispatch
<1>6. IsFirst(c)' <=> IsFirst(c)
  BY <1>1 DEF IsFirst
<1>7. SuccessOf(c)' /\ ~ IsDeadLetter(c)' /\ ~ IsDeadLetter(c)
  BY <1>1, MovedOn
<1> QED BY <1>1, <1>3, <1>4, <1>5, <1>6, <1>7, StepAside DEF storeVars

LEMMA DispatchingStep ==
  ASSUME SeamInv, NEW c \in Call, Dispatching(c) \/ HandlerReturns(c)
  PROVE  SeamInv'
<1>1. Awaiting(c) /\ UNCHANGED <<storeVars, seamVars>>
  BY DEF Dispatching, HandlerReturns
<1>2. DispatchInv
  BY DEF SeamInv
<1>3. DispatchInv' /\ Only(c) /\ env' = env /\ phase[c] # "idle"
  <2>1. CASE Dispatches!Run(c)
    BY <1>2, <2>1, RunStep
  <2>2. CASE Dispatches!Succeed(c)
    BY <1>2, <2>2, SucceedStep
  <2>3. CASE Dispatches!HandlerReturns(c)
    BY <1>2, <2>3, ReturnStep
  <2> QED BY <2>1, <2>2, <2>3 DEF Dispatching, Progress, HandlerReturns
<1> QED BY <1>1, <1>3, AwaitedStep

\* A redelivery is answered with success because a first receipt stored its ID.
LEMMA RedeliveryStep ==
  ASSUME SeamInv, NEW c \in Call, Accept(c), envelopes' = envelopes,
         NEW what \in {"Ok", "StoreError"}, Answer(c, what),
         what = "Ok" => Stored(delivery[c])
  PROVE  SeamInv'
<1>1. /\ at[c] = "called" /\ at' = [at EXCEPT ![c] = "answered"]
      /\ delivery' = delivery /\ answer' = [answer EXCEPT ![c] = what]
      /\ UNCHANGED dispatchVars /\ dead_letters' = dead_letters /\ poisoned' = poisoned
  BY DEF Accept, Answer, Move
<1>2. InboxTypeOK /\ DispatchInv /\ StandsWithItsDispatch(c)
  BY DEF SeamInv
<1>3. DispatchInv' /\ Only(c)
  BY <1>1, <1>2, DispatchStays
<1>4. at'[c] = "answered" /\ answer'[c] = what /\ Alone(c)
  BY <1>1, <1>2 DEF InboxTypeOK, Alone
<1>5. InboxTypeOK'
  BY <1>1, <1>2 DEF InboxTypeOK, dispatchVars
<1>6. phase'[c] = "idle" /\ StandsWithItsDispatch(c)'
  BY <1>1, <1>2, <1>4 DEF StandsWithItsDispatch, dispatchVars
<1>7. ~ IsFirst(c) /\ ~ IsFirst(c)'
  BY <1>1, <1>4, <1>6 DEF IsFirst
<1>8. ~ IsDeadLetter(c)' /\ ~ IsDeadLetter(c)
  BY <1>7 DEF IsDeadLetter
<1>9. SuccessOf(c)'
  <2>1. SUFFICES ASSUME what = "Ok"
                 PROVE  \E first \in Call \ {c} : IsFirst(first)' /\ Id(first)' = Id(c)'
    BY <1>4 DEF SuccessOf
  <2>2. Id(c) \in DOMAIN envelopes
    BY <2>1 DEF Stored, Id
  <2>3. PICK first \in Call : IsFirst(first) /\ Id(first) = Id(c)
    BY <2>2 DEF SeamInv, StoredByAFirst
  <2>4. first # c /\ Id(c)' = Id(c)
    BY <1>1, <1>7, <2>3 DEF Id
  <2> QED BY <1>3, <1>4, <2>3, <2>4, OthersStand
<1> QED BY <1>1, <1>3, <1>4, <1>5, <1>6, <1>7, <1>8, <1>9, StepAside

\* A first receipt is stored before anything else is done with it.
LEMMA FirstReceiptStep ==
  ASSUME SeamInv, NEW c \in Call, Accept(c),
         ~ Stored(delivery[c]), Put(delivery[c]), Move(c, "stored"), answer' = answer
  PROVE  SeamInv'
<1>1. /\ at[c] = "called" /\ at' = [at EXCEPT ![c] = "stored"] /\ delivery' = delivery
      /\ UNCHANGED dispatchVars /\ dead_letters' = dead_letters /\ poisoned' = poisoned
  BY DEF Accept, Move
<1>2. InboxTypeOK /\ DispatchInv /\ StandsWithItsDispatch(c) /\ RoutedOnceAsStored
  BY DEF SeamInv
<1>3. DispatchInv' /\ Only(c)
  BY <1>1, <1>2, DispatchStays
<1>4. at'[c] = "stored" /\ Alone(c)
  BY <1>1, <1>2 DEF InboxTypeOK, Alone
<1>5. /\ Id(c) \notin DOMAIN envelopes
      /\ DOMAIN envelopes' = DOMAIN envelopes \cup {Id(c)}
      /\ envelopes'[Id(c)] = delivery[c].envelope
      /\ \A id \in DOMAIN envelopes : envelopes'[id] = envelopes[id]
      /\ envelopes' = [id \in DOMAIN envelopes' |-> envelopes'[id]]
  BY DEF Stored, Put, Id
<1>6. InboxTypeOK'
  <2>1. Id(c) \in DeliveryId /\ delivery[c].envelope \in Envelope
    BY <1>2, ADelivery
  <2>2. DOMAIN envelopes' \subseteq DeliveryId
    BY <1>2, <1>5, <2>1 DEF InboxTypeOK
  <2>3. \A id \in DOMAIN envelopes' : envelopes'[id] \in Envelope
    BY <1>2, <1>5, <2>1 DEF InboxTypeOK
  <2>4. envelopes' \in [DOMAIN envelopes' -> Envelope]
    BY <1>5, <2>3
  <2> QED BY <1>1, <1>2, <2>2, <2>4 DEF InboxTypeOK, dispatchVars
<1>7. \A k \in Call : StandsWithItsDispatch(k)'
  <2>1. StandsWithItsDispatch(c)'
    BY <1>1, <1>2, <1>4 DEF StandsWithItsDispatch, dispatchVars
  <2>2. \A k \in Call \ {c} : StandsWithItsDispatch(k)'
    BY <1>3, <1>4, OthersStand DEF SeamInv
  <2> QED BY <2>1, <2>2
<1>8. /\ ~ IsFirst(c) /\ IsFirst(c)' /\ Id(c)' = Id(c)
      /\ \A k \in Call \ {c} : (IsFirst(k)' <=> IsFirst(k)) /\ Id(k)' = Id(k)
                               /\ delivery'[k] = delivery[k]
  <2>1. ~ IsFirst(c) /\ IsFirst(c)' /\ Id(c)' = Id(c)
    BY <1>1, <1>4 DEF IsFirst, Id
  <2> QED BY <1>3, <1>4, <2>1, OthersStand
<1>9. RoutedOnceAsStored'
  <2>1. \A k \in Call \ {c} : IsFirst(k)' =>
          /\ Id(k) \in DOMAIN envelopes /\ envelopes[Id(k)] = delivery[k].envelope
          /\ Id(k) # Id(c)
    BY <1>2, <1>5, <1>8 DEF RoutedOnceAsStored
  <2>2. \A k \in Call : IsFirst(k)' =>
          /\ Id(k)' \in DOMAIN envelopes'
          /\ envelopes'[Id(k)'] = delivery'[k].envelope
    BY <1>1, <1>5, <1>8, <2>1
  <2>3. \A j, k \in Call : IsFirst(j)' /\ IsFirst(k)' /\ Id(k)' = Id(j)' => k = j
    BY <1>2, <1>8, <2>1 DEF RoutedOnceAsStored
  <2> QED BY <2>2, <2>3 DEF RoutedOnceAsStored
<1>10. StoredByAFirst'
  <2>1. ASSUME NEW id \in DOMAIN envelopes'
        PROVE  \E k \in Call : IsFirst(k)' /\ Id(k)' = id
    <3>1. CASE id = Id(c)
      BY <1>8, <3>1
    <3>2. CASE id \in DOMAIN envelopes
      <4>1. PICK k \in Call : IsFirst(k) /\ Id(k) = id
        BY <3>2 DEF SeamInv, StoredByAFirst
      <4> QED BY <1>8, <4>1
    <3> QED BY <1>5, <2>1, <3>1, <3>2
  <2> QED BY <2>1 DEF StoredByAFirst
<1>11. SuccessIsAccountedFor'
  <2>1. SuccessOf(c)'
    BY <1>1, MovedOn
  <2>2. ASSUME NEW k \in Call \ {c}
        PROVE  SuccessOf(k)'
    <3>1. SuccessOf(k)
      BY SuccessHasIts DEF SeamInv
    <3>2. registrations' = registrations /\ answer'[k] = answer[k] /\ ran'[k] = ran[k]
          /\ outcome'[k] = outcome[k]
      BY <1>3, <1>4, OthersStand DEF Only
    <3> QED BY <1>8, <3>1, <3>2 DEF SuccessOf
  <2> QED BY <2>1, <2>2 DEF SuccessIsAccountedFor, SuccessOf
<1>12. DeadLettersAreUnknownKinds'
  <2>1. ~ IsDeadLetter(c) /\ ~ IsDeadLetter(c)'
    BY <1>1, MovedOn
  <2> QED BY <1>1, <1>3, <1>4, <2>1, SameDeadLetters
<1> QED BY <1>3, <1>6, <1>7, <1>9, <1>10, <1>11, <1>12 DEF SeamInv

LEMMA AcceptStep ==
  ASSUME SeamInv, NEW c \in Call, Accept(c)
  PROVE  SeamInv'
<1>1. Insert(c, delivery[c])
  BY DEF Accept
<1>2. CASE Answer(c, "StoreError") /\ UNCHANGED envelopes
  <2>1. "StoreError" \in {"Ok", "StoreError"} /\ "StoreError" # "Ok"
    OBVIOUS
  <2> QED BY <1>2, <2>1, RedeliveryStep
<1>3. CASE Stored(delivery[c]) /\ Answer(c, "Ok") /\ UNCHANGED envelopes
  <2>1. "Ok" \in {"Ok", "StoreError"}
    OBVIOUS
  <2> QED BY <1>3, <2>1, RedeliveryStep
<1>4. CASE ~ Stored(delivery[c]) /\ Put(delivery[c]) /\ Move(c, "stored") /\ UNCHANGED answer
  BY <1>4, FirstReceiptStep
<1> QED BY <1>1, <1>2, <1>3, <1>4 DEF Insert

LEMMA ConcludeStep ==
  ASSUME SeamInv, NEW c \in Call, Conclude(c)
  PROVE  SeamInv'
<1>1. /\ at[c] = "routing" /\ phase[c] = "done" /\ delivery' = delivery
      /\ UNCHANGED dispatchVars /\ UNCHANGED storeVars
  BY DEF Conclude
<1>2. InboxTypeOK /\ DispatchInv /\ StandsWithItsDispatch(c)
  BY DEF SeamInv
<1>3. DispatchInv' /\ Only(c)
  BY <1>1, <1>2, DispatchStays
<1>4. /\ env[c] = delivery[c].envelope
      /\ outcome[c].matched = MatchOf(registrations, env[c])
      /\ outcome[c].result = "Ok" => Range(ran[c]) = Due(registrations, env[c])
  <2>1. env[c] = delivery[c].envelope
    BY <1>1, <1>2 DEF StandsWithItsDispatch
  <2> QED BY <1>1, <1>2, <2>1 DEF DispatchInv, DispatchOf
<1>5. answer[c] = "None" /\ ~ IsDeadLetter(c) /\ IsFirst(c)
  BY <1>1, Unanswered DEF IsFirst
<1>6. CASE /\ ~ Failed(c) /\ outcome[c].matched = "UnmatchedKind"
           /\ Move(c, "dead_letter") /\ UNCHANGED answer
  <2>1. /\ at' = [at EXCEPT ![c] = "dead_letter"] /\ at'[c] = "dead_letter"
        /\ answer' = answer /\ Alone(c)
    BY <1>1, <1>2, <1>6 DEF Move, InboxTypeOK, Alone
  <2>2. InboxTypeOK'
    BY <1>1, <1>2, <2>1 DEF InboxTypeOK, dispatchVars, storeVars
  <2>3. StandsWithItsDispatch(c)'
    BY <1>1, <1>2, <1>4, <1>6, <2>1 DEF StandsWithItsDispatch, Failed, dispatchVars
  <2>4. IsFirst(c)'
    BY <2>1 DEF IsFirst
  <2>5. SuccessOf(c)' /\ ~ IsDeadLetter(c)'
    BY <1>1, <2>1, MovedOn
  <2> QED BY <1>1, <1>3, <1>5, <2>1, <2>2, <2>3, <2>4, <2>5, StepAside DEF storeVars
<1>7. ASSUME NEW what \in {"Ok", "DispatchError"}, Answer(c, what),
             what = "Ok" => ~ Failed(c) /\ outcome[c].matched # "UnmatchedKind"
      PROVE  SeamInv'
  <2>1. /\ at' = [at EXCEPT ![c] = "answered"] /\ at'[c] = "answered"
        /\ answer' = [answer EXCEPT ![c] = what] /\ answer'[c] = what /\ Alone(c)
    BY <1>1, <1>2, <1>7 DEF Answer, Move, InboxTypeOK, Alone
  <2>2. InboxTypeOK'
    BY <1>1, <1>2, <2>1 DEF InboxTypeOK, dispatchVars, storeVars
  <2>3. StandsWithItsDispatch(c)'
    BY <1>1, <1>2, <1>4, <2>1 DEF StandsWithItsDispatch, dispatchVars
  <2>4. IsFirst(c)'
    BY <1>1, <2>1 DEF IsFirst, dispatchVars
  <2>5. SuccessOf(c)'
    BY <1>1, <1>4, <1>7, <2>1, <2>4 DEF SuccessOf, Failed, dispatchVars
  <2>6. ~ IsDeadLetter(c)'
    <3>1. CASE what # "Ok"
      BY <2>1, <3>1 DEF IsDeadLetter
    <3>2. CASE what = "Ok"
      <4>1. delivery[c].envelope.kind \in KindsNamed(registrations)
        BY <1>4, <1>7, <3>2, MatchedKindIsNamed
      <4>2. delivery' = delivery /\ registrations' = registrations
        BY <1>1 DEF dispatchVars
      <4> QED BY <4>1, <4>2 DEF IsDeadLetter
    <3> QED BY <3>1, <3>2
  <2> QED BY <1>1, <1>3, <1>5, <2>1, <2>2, <2>3, <2>4, <2>5, <2>6, StepAside DEF storeVars
<1>8. CASE Failed(c) /\ Answer(c, "DispatchError")
  BY <1>7, <1>8
<1>9. CASE ~ Failed(c) /\ outcome[c].matched # "UnmatchedKind" /\ Answer(c, "Ok")
  BY <1>7, <1>9
<1> QED BY <1>6, <1>8, <1>9 DEF Conclude

\* The list grows by the ID of a call that just became a dead letter, and no
\* earlier one had it.
LEMMA DeadLetterStep ==
  ASSUME SeamInv, NEW c \in Call, DeadLetter(c)
  PROVE  SeamInv'
<1>1. /\ at[c] = "dead_letter" /\ delivery' = delivery /\ UNCHANGED dispatchVars
      /\ envelopes' = envelopes /\ poisoned' = poisoned
  BY DEF DeadLetter
<1>2. InboxTypeOK /\ DispatchInv /\ StandsWithItsDispatch(c) /\ RoutedOnceAsStored
  BY DEF SeamInv
<1>3. DispatchInv' /\ Only(c)
  BY <1>1, <1>2, DispatchStays
<1>4. PICK what \in {"Ok", "StoreError"} :
        /\ Answer(c, what)
        /\ what = "StoreError" => dead_letters' = dead_letters
        /\ what = "Ok" => dead_letters' = Append(dead_letters, Id(c))
  <2>1. CASE Answer(c, "StoreError") /\ UNCHANGED dead_letters
    BY <2>1
  <2>2. CASE Answer(c, "Ok") /\ dead_letters' = Append(dead_letters, Id(c))
    BY <2>2
  <2> QED BY <2>1, <2>2 DEF DeadLetter
<1>5. /\ at' = [at EXCEPT ![c] = "answered"] /\ at'[c] = "answered"
      /\ answer' = [answer EXCEPT ![c] = what] /\ answer'[c] = what /\ Alone(c)
  BY <1>1, <1>2, <1>4 DEF Answer, Move, InboxTypeOK, Alone
<1>6. /\ phase[c] = "done" /\ outcome[c].result = "Ok"
      /\ env[c] = delivery[c].envelope
      /\ delivery[c].envelope.kind \notin KindsNamed(registrations)
      /\ Range(ran[c]) = Due(registrations, delivery[c].envelope)
  <2>1. /\ phase[c] = "done" /\ outcome[c].result = "Ok" /\ env[c] = delivery[c].envelope
        /\ outcome[c].matched = "UnmatchedKind"
    BY <1>1, <1>2 DEF StandsWithItsDispatch
  <2>2. /\ outcome[c].matched = MatchOf(registrations, env[c])
        /\ Range(ran[c]) = Due(registrations, env[c])
    BY <1>2, <2>1 DEF DispatchInv, DispatchOf
  <2> QED BY <2>1, <2>2, MatchedKindIsNamed
<1>7. /\ answer[c] = "None" /\ ~ IsDeadLetter(c) /\ IsFirst(c) /\ IsFirst(c)'
      /\ Id(c)' = Id(c)
  BY <1>1, <1>5, <1>6, Unanswered DEF IsFirst, dispatchVars, Id
<1>8. Id(c) \in DeliveryId /\ dead_letters \in Seq(DeliveryId)
  BY <1>2, ADelivery DEF InboxTypeOK
<1>9. InboxTypeOK'
  <2>1. dead_letters' \in Seq(DeliveryId)
    BY <1>4, <1>8
  <2> QED BY <1>1, <1>2, <1>5, <2>1 DEF InboxTypeOK, dispatchVars
<1>10. StandsWithItsDispatch(c)'
  BY <1>1, <1>5, <1>6 DEF StandsWithItsDispatch, dispatchVars
<1>11. SuccessOf(c)'
  BY <1>1, <1>5, <1>6, <1>7 DEF SuccessOf, dispatchVars
<1>12. CASE what = "StoreError"
  <2>1. ~ IsDeadLetter(c)'
    BY <1>5, <1>12 DEF IsDeadLetter
  <2> QED BY <1>1, <1>3, <1>4, <1>5, <1>7, <1>9, <1>10, <1>11, <1>12, <2>1, StepAside
<1>13. CASE what = "Ok"
  <2>1. RoutedOnceAsStored' /\ StoredByAFirst' /\ SuccessIsAccountedFor'
    BY <1>1, <1>3, <1>5, <1>7, <1>11, SameFirsts
  <2>2. \A k \in Call : StandsWithItsDispatch(k)'
    <3>1. \A k \in Call \ {c} : StandsWithItsDispatch(k)'
      BY <1>3, <1>5, OthersStand DEF SeamInv
    <3> QED BY <1>10, <3>1
  <2>3. IsDeadLetter(c)'
    BY <1>1, <1>5, <1>6, <1>7, <1>13 DEF IsDeadLetter, dispatchVars
  <2>4. \A k \in Call \ {c} : (IsDeadLetter(k)' <=> IsDeadLetter(k)) /\ Id(k)' = Id(k)
    BY <1>3, <1>5, OthersStand
  <2>5. /\ Range(dead_letters) = {Id(k) : k \in {x \in Call : IsDeadLetter(x)}}
        /\ \A i, j \in DOMAIN dead_letters : dead_letters[i] = dead_letters[j] => i = j
    BY DEF SeamInv, DeadLettersAreUnknownKinds
  <2>6. Id(c) \notin Range(dead_letters)
    <3>1. SUFFICES ASSUME Id(c) \in Range(dead_letters)
                   PROVE  FALSE
      OBVIOUS
    <3>2. PICK k \in Call : IsDeadLetter(k) /\ Id(k) = Id(c)
      BY <2>5, <3>1
    <3>3. IsFirst(k)
      BY <3>2 DEF IsDeadLetter
    <3> QED BY <1>2, <1>7, <3>2, <3>3 DEF RoutedOnceAsStored
  <2>7. /\ dead_letters' = Append(dead_letters, Id(c))
        /\ DOMAIN dead_letters' = DOMAIN dead_letters \cup {Len(dead_letters) + 1}
        /\ dead_letters'[Len(dead_letters) + 1] = Id(c)
        /\ \A i \in DOMAIN dead_letters : dead_letters'[i] = dead_letters[i]
    BY <1>4, <1>8, <1>13
  <2>8. Range(dead_letters') = Range(dead_letters) \cup {Id(c)}
    BY <2>7 DEF Range
  <2>9. Range(dead_letters)' = {Id(k)' : k \in {x \in Call : IsDeadLetter(x)'}}
    <3>1. {Id(k)' : k \in {x \in Call : IsDeadLetter(x)'}}
            = {Id(k) : k \in {x \in Call : IsDeadLetter(x)}} \cup {Id(c)}
      BY <1>7, <2>3, <2>4
    <3>2. Range(dead_letters)' = Range(dead_letters')
      OBVIOUS
    <3> QED BY <2>5, <2>8, <3>1, <3>2
  <2>10. \A i, j \in DOMAIN dead_letters' : dead_letters'[i] = dead_letters'[j] => i = j
    <3>1. \A i \in DOMAIN dead_letters : dead_letters[i] # Id(c)
      BY <2>6 DEF Range
    <3> QED BY <2>5, <2>7, <3>1
  <2>11. DeadLettersAreUnknownKinds'
    BY <2>9, <2>10 DEF DeadLettersAreUnknownKinds
  <2> QED BY <1>3, <1>9, <2>1, <2>2, <2>11 DEF SeamInv
<1> QED BY <1>12, <1>13

LEMMA DroppedStep ==
  ASSUME SeamInv, NEW c \in Call, Drop(c)
  PROVE  SeamInv'
<1>1. /\ Dispatches!Drop(c) /\ delivery' = delivery /\ answer' = answer /\ UNCHANGED storeVars
      /\ \/ at[c] = "routing" /\ at' = [at EXCEPT ![c] = "dropped"]
         \/ at[c] = "recovering" /\ at' = at
  BY DEF Drop, Move
<1>2. InboxTypeOK /\ DispatchInv /\ StandsWithItsDispatch(c)
  BY DEF SeamInv
<1>3. DispatchInv' /\ Only(c) /\ env' = env /\ phase[c] = "running" /\ phase'[c] = "dropped"
  BY <1>1, <1>2, DropStep
<1>4. /\ Alone(c)
      /\ at'[c] = IF at[c] = "routing" THEN "dropped" ELSE "recovering"
      /\ at[c] \in {"routing", "recovering"}
  BY <1>1, <1>2 DEF InboxTypeOK, Alone
<1>5. InboxTypeOK'
  BY <1>1, <1>2, <1>3 DEF InboxTypeOK, DispatchInv, storeVars
<1>6. StandsWithItsDispatch(c)'
  BY <1>1, <1>2, <1>3, <1>4 DEF StandsWithItsDispatch
<1>7. IsFirst(c)' <=> IsFirst(c)
  BY <1>4 DEF IsFirst
<1>8. SuccessOf(c)' /\ ~ IsDeadLetter(c)' /\ ~ IsDeadLetter(c)
  BY <1>1, <1>4, MovedOn
<1> QED BY <1>1, <1>3, <1>4, <1>5, <1>6, <1>7, <1>8, StepAside DEF storeVars

\* What a recovery job finds in the store is a delivery the seam was given.
LEMMA RecoverStep ==
  ASSUME SeamInv, NEW c \in Call, Recover(c)
  PROVE  SeamInv'
<1>1. PICK id \in DOMAIN envelopes :
        /\ delivery' = [delivery EXCEPT ![c] = [id |-> id, envelope |-> envelopes[id]]]
        /\ Dispatches!Begin(c)
  BY DEF Recover
<1>2. /\ at[c] = "idle" /\ at' = [at EXCEPT ![c] = "recovering"] /\ answer' = answer
      /\ UNCHANGED storeVars
  BY DEF Recover, Move
<1>3. InboxTypeOK /\ DispatchInv /\ StandsWithItsDispatch(c) /\ RoutedOnceAsStored
  BY DEF SeamInv
<1>4. DispatchInv' /\ Only(c)
  BY <1>1, <1>3, BeginStep
<1>5. [id |-> id, envelope |-> envelopes[id]] \in Deliveries
  <2>1. PICK k \in Call : IsFirst(k) /\ Id(k) = id
    BY DEF SeamInv, StoredByAFirst
  <2>2. envelopes[id] = delivery[k].envelope
    BY <1>3, <2>1 DEF RoutedOnceAsStored
  <2> QED BY <1>3, <2>1, <2>2, ADelivery
<1>6. at'[c] = "recovering" /\ Alone(c)
  BY <1>1, <1>2, <1>3 DEF InboxTypeOK, Alone
<1>7. InboxTypeOK'
  BY <1>1, <1>2, <1>3, <1>4, <1>5 DEF InboxTypeOK, DispatchInv, storeVars
<1>8. StandsWithItsDispatch(c)'
  BY <1>2, <1>3, <1>6 DEF StandsWithItsDispatch
<1>9. ~ IsFirst(c) /\ ~ IsFirst(c)'
  BY <1>2, <1>6 DEF IsFirst
<1>10. SuccessOf(c)' /\ ~ IsDeadLetter(c)' /\ ~ IsDeadLetter(c)
  BY <1>2, MovedOn
<1> QED BY <1>2, <1>4, <1>6, <1>7, <1>8, <1>9, <1>10, StepAside DEF storeVars

\* A step that touches neither a call nor what is stored.
LEMMA SeamStays ==
  ASSUME SeamInv, UNCHANGED <<dispatchVars, seamVars, envelopes, dead_letters>>,
         poisoned' \subseteq {"envelopes", "dead_letters"}
  PROVE  SeamInv'
<1>1. InboxTypeOK /\ DispatchInv
  BY DEF SeamInv
<1>2. DispatchInv'
  BY <1>1, DispatchStays
<1>3. InboxTypeOK'
  BY <1>1 DEF InboxTypeOK, dispatchVars, seamVars
<1>4. \A k : (IsFirst(k)' <=> IsFirst(k)) /\ Id(k)' = Id(k)
             /\ (IsDeadLetter(k)' <=> IsDeadLetter(k))
  BY DEF IsFirst, Id, IsDeadLetter, dispatchVars, seamVars
<1>5. \A k \in Call : StandsWithItsDispatch(k)'
  BY DEF SeamInv, StandsWithItsDispatch, dispatchVars, seamVars
<1>6. RoutedOnceAsStored'
  BY <1>4 DEF SeamInv, RoutedOnceAsStored, seamVars
<1>7. StoredByAFirst'
  BY <1>4 DEF SeamInv, StoredByAFirst
<1>8. SuccessIsAccountedFor'
  BY <1>4 DEF SeamInv, SuccessIsAccountedFor, dispatchVars, seamVars
<1>9. DeadLettersAreUnknownKinds'
  BY <1>4 DEF SeamInv, DeadLettersAreUnknownKinds
<1> QED BY <1>2, <1>3, <1>5, <1>6, <1>7, <1>8, <1>9 DEF SeamInv

LEMMA NextInv == SeamInv /\ [Next]_vars => SeamInv'
<1> SUFFICES ASSUME SeamInv, [Next]_vars
             PROVE  SeamInv'
  OBVIOUS
<1>1. CASE UNCHANGED vars
  BY <1>1, SeamStays DEF vars, storeVars, SeamInv, InboxTypeOK
<1>2. ASSUME NEW lock \in {"envelopes", "dead_letters"}, Poison(lock)
      PROVE  SeamInv'
  BY <1>2, SeamStays DEF Poison, SeamInv, InboxTypeOK
<1>3. ASSUME NEW c \in Call, Proceed(c)
      PROVE  SeamInv'
  BY <1>3, AcceptStep, RouteStep, DispatchingStep, ConcludeStep, DeadLetterStep DEF Proceed
<1> QED BY <1>1, <1>2, <1>3, HandleStep, DispatchingStep, DroppedStep, RecoverStep DEF Next

LEMMA InitInv == Init => SeamInv
<1> SUFFICES ASSUME Init
             PROVE  SeamInv
  OBVIOUS
<1>1. /\ (CHOOSE d \in Deliveries : TRUE) \in Deliveries
      /\ (CHOOSE d \in Deliveries : TRUE).envelope \in Envelope
  BY DeliveriesAssumption, DeliveriesExist
<1>2. /\ registrations \in Seq(Registration)
      /\ phase = [c \in Call |-> "idle"] /\ ran = [c \in Call |-> <<>>]
      /\ env \in [Call -> Envelope] /\ DOMAIN outcome = Call
      /\ DOMAIN envelopes = {} /\ envelopes \in [DOMAIN envelopes -> Envelope]
      /\ dead_letters = <<>> /\ poisoned = {}
      /\ at = [c \in Call |-> "idle"] /\ answer = [c \in Call |-> "None"]
      /\ delivery \in [Call -> Deliveries]
  BY <1>1, ProgramsAssumption DEF Init
<1>3. /\ <<>> \in Seq(Nat) /\ <<>> \in Seq(DeliveryId)
  OBVIOUS
<1>4. InboxTypeOK
  BY <1>2, <1>3 DEF InboxTypeOK
<1>5. DispatchInv
  BY <1>2, <1>3 DEF DispatchInv, DispatchOf, Range
<1>6. \A c \in Call : StandsWithItsDispatch(c) /\ ~ IsFirst(c) /\ ~ IsDeadLetter(c)
                      /\ answer[c] = "None"
  BY <1>2 DEF StandsWithItsDispatch, IsFirst, IsDeadLetter
<1>7. RoutedOnceAsStored /\ StoredByAFirst /\ SuccessIsAccountedFor
  BY <1>2, <1>6 DEF RoutedOnceAsStored, StoredByAFirst, SuccessIsAccountedFor
<1>8. DeadLettersAreUnknownKinds
  BY <1>2, <1>6 DEF DeadLettersAreUnknownKinds, Range
<1> QED BY <1>4, <1>5, <1>6, <1>7, <1>8 DEF SeamInv

-----------------------------------------------------------------------------
(* Theorems *)

LEMMA SeamIsSound == Spec => []SeamInv
BY InitInv, NextInv, PTL DEF Spec

\* However calls, drops, poisoned locks and recovery interleave, the store and
\* the calls hold what their declarations say.
THEOREM InboxTypeCorrect == Spec => []InboxTypeOK
<1>1. SeamInv => InboxTypeOK
  BY DEF SeamInv
<1> QED BY <1>1, SeamIsSound, PTL

\* Of the copies of a delivery ID, however many and however they overlap, at most
\* one is routed, and it is the one that is stored.
THEOREM RoutedOnce == Spec => []RoutedOnceAsStored
<1>1. SeamInv => RoutedOnceAsStored
  BY DEF SeamInv
<1> QED BY <1>1, SeamIsSound, PTL

\* A success stands on handlers that all ran and did not fail, or on another
\* call's first receipt of the same ID.
THEOREM SuccessAccounted == Spec => []SuccessIsAccountedFor
<1>1. SeamInv => SuccessIsAccountedFor
  BY DEF SeamInv
<1> QED BY <1>1, SeamIsSound, PTL

\* The dead letters are, each once, the deliveries of unknown kinds that were
\* answered with success as a first receipt.
THEOREM DeadLettersExact == Spec => []DeadLettersAreUnknownKinds
<1>1. SeamInv => DeadLettersAreUnknownKinds
  BY DEF SeamInv
<1> QED BY <1>1, SeamIsSound, PTL

\* What the store holds of a delivery ID never changes, in any step.
THEOREM ReceiptKept == Spec => FirstReceiptKept
<1>1. ASSUME [Next]_vars, NEW id \in DOMAIN envelopes
      PROVE  id \in DOMAIN envelopes' /\ envelopes'[id] = envelopes[id]
  <2>1. CASE envelopes' = envelopes
    BY <2>1
  <2>2. ASSUME NEW c \in Call, Accept(c)
        PROVE  id \in DOMAIN envelopes' /\ envelopes'[id] = envelopes[id]
    <3>1. CASE envelopes' = envelopes
      BY <3>1
    <3>2. CASE ~ Stored(delivery[c]) /\ Put(delivery[c])
      BY <3>2 DEF Stored, Put
    <3> QED BY <2>2, <3>1, <3>2 DEF Accept, Insert
  <2>3. envelopes' = envelopes \/ \E c \in Call : Accept(c)
    BY <1>1 DEF Next, Proceed, vars, storeVars, Handle, Route, Dispatching, HandlerReturns,
                Conclude, DeadLetter, Drop, Recover, Poison
  <2> QED BY <2>1, <2>2, <2>3
<1>2. [Next]_vars =>
        [\A id \in DOMAIN envelopes :
           id \in DOMAIN envelopes' /\ envelopes'[id] = envelopes[id]]_vars
  BY <1>1
<1> QED BY <1>2, PTL DEF Spec, FirstReceiptKept
=============================================================================
