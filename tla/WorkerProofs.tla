---------------------------- MODULE WorkerProofs ----------------------------
(***************************************************************************)
(* Proofs about the worker: for any number of requests and installations,  *)
(* whatever is bound when, and however the network loses or delays a POST, *)
(* a success is reported only for what the service has, and no object is   *)
(* given a delivery more often than signed requests carried it.            *)
(***************************************************************************)
EXTENDS Worker, FiniteSetTheorems, SequenceTheorems, TLAPS

Standing == {"idle", "received", "handling", "dispatching", "answered", "dropped"}

Answers == {"None", "204", "400", "401", "413", "500", "RuntimeError"}

\* The receiver refuses c for nothing.
Accepts(c) == Authentic(c) /\ delivery[c].fault = "None"

\* The table is the worker's own, and its dispatches run Forward, then
\* InstallationLog.
WorkerTyped ==
  /\ registrations = WorkerDispatcher
  /\ phase \in [Call -> {"idle", "open", "running", "done", "dropped"}]
  /\ env \in [Call -> Envelope]
  /\ ran \in [Call -> {<<>>, <<1>>, <<1, 2>>}]
  /\ DOMAIN outcome = Call
  /\ bound \in Bindings
  /\ bound_at \in [Call -> Bindings]
  /\ at \in [Call -> Standing]
  /\ delivery \in [Call -> Deliveries]
  /\ verifier \in [Call -> Bindings]
  /\ answer \in [Call -> Answers]
  /\ inflight \subseteq Call
  /\ response \in [Call -> {"None", "2xx", "other"}]
  /\ objects \in [Installation -> Seq(DeliveryId)]

\* The service has c's delivery, and InstallationLog has run if it is due.
Forwarded(c) ==
  /\ response[c] = "2xx"
  /\ delivery[c].envelope.kind = installation => c \in logged

\* A request's way: it is posted only by its dispatch, the dispatch goes past
\* Forward only once the service accepted, and what is logged was accepted.
Way(c) ==
  /\ answer[c] # "None" <=> at[c] = "answered"
  /\ verifier[c] = ParseSecret(bound_at[c])
  /\ at[c] \in {"idle", "received", "handling"} => phase[c] = "idle"
  /\ at[c] = "dispatching" => phase[c] \in {"open", "running", "done"}
  /\ at[c] = "handling" \/ phase[c] # "idle" => Accepts(c) /\ ~ IsPing(c)
  /\ phase[c] = "idle" => ran[c] = <<>>
  /\ phase[c] = "running" => ran[c] # <<>> /\ at[c] = "dispatching"
  /\ phase[c] # "idle" => env[c] = delivery[c].envelope
  /\ phase[c] \in {"open", "running"} => env[c].meta_decodes
  /\ ran[c] = <<>> => ~ HasPosted(c)
  /\ HasPosted(c) => delivery[c].installation # {}
  /\ c \in inflight => response[c] = "None"
  /\ phase[c] = "open" /\ ran[c] # <<>> => response[c] = "2xx"
  /\ ran[c] = <<1, 2>> => response[c] = "2xx"
  /\ phase[c] = "open" /\ ran[c] = <<1, 2>> => c \in logged
  /\ phase[c] = "done" /\ outcome[c].result = "Ok" => Forwarded(c)
  /\ c \in logged => response[c] = "2xx"
  /\ response[c] = "2xx" => \E i \in delivery[c].installation : Given(i, delivery[c].id)
  /\ answer[c] = "204" => IsPing(c) \/ Forwarded(c)

Posted == {c \in Call : HasPosted(c)}

Places(i, id) == {n \in DOMAIN objects[i] : objects[i][n] = id}

Accepted(i, id) ==
  {c \in Call : /\ delivery[c].id = id /\ delivery[c].installation = {i}
                /\ response[c] = "2xx"}

\* Each place in an object is accounted for by a request the service accepted;
\* only finitely many have been posted, whatever Call is.
Counted ==
  /\ IsFiniteSet(Posted)
  /\ \A i \in Installation : \A id \in DeliveryId :
       /\ IsFiniteSet(Places(i, id))
       /\ Cardinality(Places(i, id)) <= Cardinality(Accepted(i, id))

WorkerInv ==
  /\ WorkerTyped
  /\ Counted
  /\ logged \subseteq Call
  /\ \A c \in Call : Way(c)

-----------------------------------------------------------------------------
(* What the table makes due *)

LEMMA TableTiers ==
  /\ DOMAIN WorkerDispatcher = {1, 2}
  /\ OfTier(WorkerDispatcher, "always") = {1}
  /\ OfTier(WorkerDispatcher, "on") = {2}
  /\ OfTier(WorkerDispatcher, "fallback") = {}
  /\ WorkerDispatcher[2].slots = {[kind |-> installation, action |-> NoAction]}
<1>1. /\ DOMAIN WorkerDispatcher = {1, 2}
      /\ WorkerDispatcher[1].tier = "always" /\ WorkerDispatcher[2].tier = "on"
      /\ WorkerDispatcher[2].slots = {[kind |-> installation, action |-> NoAction]}
  BY DEF WorkerDispatcher, InstallationView
<1> QED BY <1>1 DEF OfTier

\* Forward is due to every delivery, InstallationLog to its view's kind.
LEMMA WorkerDue ==
  ASSUME NEW e \in Envelope, e.meta_decodes
  PROVE  Due(WorkerDispatcher, e) = IF e.kind = installation THEN {1, 2} ELSE {1}
<1>1. \A slot : Naming(WorkerDispatcher, slot) =
        IF slot = [kind |-> installation, action |-> NoAction] THEN {2} ELSE {}
  BY TableTiers DEF Naming
<1>2. SpecificTo(WorkerDispatcher, e.kind, e.action) = {}
  <2>1. e.action # NoAction =>
          [kind |-> e.kind, action |-> e.action] # [kind |-> installation, action |-> NoAction]
    OBVIOUS
  <2> QED BY <1>1, <2>1 DEF SpecificTo
<1>3. KindWide(WorkerDispatcher, e.kind) = IF e.kind = installation THEN {2} ELSE {}
  <2>1. [kind |-> e.kind, action |-> NoAction] = [kind |-> installation, action |-> NoAction]
          <=> e.kind = installation
    OBVIOUS
  <2> QED BY <1>1, <2>1 DEF KindWide
<1>4. Routed(WorkerDispatcher, e) = IF e.kind = installation THEN {2} ELSE {}
  BY <1>2, <1>3 DEF Routed
<1> QED BY <1>4, TableTiers DEF Due

\* The contract reads the registrations as the worker does.
LEMMA SameDispatch ==
  /\ Dispatches!Envelope = Envelope
  /\ \A f : Dispatches!Range(f) = Range(f)
  /\ \A regs, e : Dispatches!Due(regs, e) = Due(regs, e)
  /\ \A regs, e, r : Dispatches!Rank(regs, e, r) = Rank(regs, e, r)
<1>1. Dispatches!Envelope = Envelope
  BY DEF Dispatches!Envelope, Envelope
<1>2. \A f : Dispatches!Range(f) = Range(f)
  BY DEF Dispatches!Range, Range
<1>3. \A regs, t : Dispatches!OfTier(regs, t) = OfTier(regs, t)
  BY DEF Dispatches!OfTier, OfTier
<1>4. \A regs, slot : Dispatches!Naming(regs, slot) = Naming(regs, slot)
  BY <1>3 DEF Dispatches!Naming, Naming
<1>5. /\ \A regs, k : Dispatches!KindWide(regs, k) = KindWide(regs, k)
      /\ \A regs, k, a : Dispatches!SpecificTo(regs, k, a) = SpecificTo(regs, k, a)
  BY <1>4 DEF Dispatches!KindWide, KindWide, Dispatches!SpecificTo, SpecificTo
<1>6. \A regs, e : Dispatches!Routed(regs, e) = Routed(regs, e)
  BY <1>5 DEF Dispatches!Routed, Routed
<1>7. /\ \A regs, e : Dispatches!Due(regs, e) = Due(regs, e)
      /\ \A regs, e, r : Dispatches!Rank(regs, e, r) = Rank(regs, e, r)
  BY <1>3, <1>5, <1>6 DEF Dispatches!Due, Due, Dispatches!Rank, Rank
<1> QED BY <1>1, <1>2, <1>7

\* What is left for a dispatch follows from what ran: Forward comes first.
LEMMA WhatRemains ==
  ASSUME WorkerInv, NEW c \in Call, phase[c] = "open"
  PROVE  /\ ran[c] = <<>> => 1 \in Dispatches!Remaining(c)
         /\ ran[c] = <<1>> => Dispatches!Remaining(c) =
              (IF env[c].kind = installation THEN {2} ELSE {})
         /\ ran[c] = <<1, 2>> => Dispatches!Remaining(c) = {}
         /\ \A r \in Dispatches!Remaining(c) :
              Dispatches!IsNext(c, r) => (ran[c] = <<>> /\ r = 1) \/ (ran[c] = <<1>> /\ r = 2)
<1>1. Dispatches!Due(registrations, env[c]) = IF env[c].kind = installation THEN {1, 2} ELSE {1}
  <2>1. env[c] \in Envelope /\ env[c].meta_decodes /\ registrations = WorkerDispatcher
    BY DEF WorkerInv, WorkerTyped, Way
  <2> QED BY <2>1, WorkerDue, SameDispatch
<1>2. /\ Dispatches!Range(<<>>) = {} /\ Dispatches!Range(<<1>>) = {1}
      /\ Dispatches!Range(<<1, 2>>) = {1, 2}
  <2>1. Range(<<>>) = {} /\ Range(<<1>>) = {1} /\ Range(<<1, 2>>) = {1, 2}
    BY DEF Range
  <2> QED BY <2>1, SameDispatch
<1>3. /\ ran[c] \in {<<>>, <<1>>, <<1, 2>>} /\ registrations = WorkerDispatcher
  BY DEF WorkerInv, WorkerTyped
<1>4. ASSUME ran[c] = <<>>, NEW r \in Dispatches!Remaining(c), Dispatches!IsNext(c, r)
      PROVE  r = 1
  <2>1. 1 \in Dispatches!Remaining(c) /\ r \in {1, 2}
    BY <1>1, <1>2, <1>4 DEF Dispatches!Remaining
  <2>2. 1 = r \/ Dispatches!Before(registrations, env[c], r, 1)
    BY <1>4, <2>1 DEF Dispatches!IsNext
  <2>3. r = 2 => ~ Dispatches!Before(registrations, env[c], r, 1)
    <3>1. WorkerDispatcher[1].tier = "always" /\ WorkerDispatcher[2].tier = "on"
      BY DEF WorkerDispatcher
    <3>2. Rank(registrations, env[c], 1) = 1 /\ Rank(registrations, env[c], 2) \in {2, 3}
      BY <1>3, <3>1 DEF Rank
    <3> QED BY <3>2, SameDispatch DEF Dispatches!Before
  <2> QED BY <2>1, <2>2, <2>3
<1>5. /\ ran[c] = <<>> => 1 \in Dispatches!Remaining(c)
      /\ ran[c] = <<1>> => Dispatches!Remaining(c) =
           (IF env[c].kind = installation THEN {2} ELSE {})
      /\ ran[c] = <<1, 2>> => Dispatches!Remaining(c) = {}
  BY <1>1, <1>2 DEF Dispatches!Remaining
<1> QED BY <1>3, <1>4, <1>5

-----------------------------------------------------------------------------
(* What a step of one request leaves alone *)

\* Request c moved on, and no other; objects only grow.
Only(c) ==
  /\ \A k \in Call \ {c} :
       /\ phase'[k] = phase[k] /\ env'[k] = env[k] /\ ran'[k] = ran[k]
       /\ outcome'[k] = outcome[k] /\ at'[k] = at[k] /\ delivery'[k] = delivery[k]
       /\ bound_at'[k] = bound_at[k] /\ verifier'[k] = verifier[k] /\ answer'[k] = answer[k]
       /\ (k \in inflight') = (k \in inflight) /\ response'[k] = response[k]
       /\ (k \in logged') = (k \in logged)
  /\ \A i, id : Given(i, id) => Given(i, id)'

LEMMA OthersOnTheirWay ==
  ASSUME WorkerInv, NEW c \in Call, Only(c), Way(c)'
  PROVE  \A k \in Call : Way(k)'
<1>1. ASSUME NEW k \in Call \ {c}
      PROVE  Way(k)'
  <2>1. Way(k)
    BY DEF WorkerInv
  <2> QED BY <2>1 DEF Way, Only, Accepts, Authentic, IsPing, HasPosted, Forwarded
<1> QED BY <1>1

LEMMA Typed ==
  ASSUME WorkerInv, NEW c \in Call
  PROVE  WorkerTyped /\ Way(c) /\ Counted /\ delivery[c] \in Deliveries
BY DEF WorkerInv, WorkerTyped

\* Nothing is posted, answered for or taken in, and no posted delivery changes.
LEMMA CountedKept ==
  ASSUME WorkerInv, UNCHANGED networkVars,
         \A k \in Call : HasPosted(k) => delivery'[k] = delivery[k]
  PROVE  Counted'
<1>1. Posted' = Posted
  BY DEF Posted, HasPosted, networkVars
<1>2. \A i, id : Places(i, id)' = Places(i, id) /\ Accepted(i, id)' = Accepted(i, id)
  BY DEF Places, Accepted, HasPosted, networkVars
<1> QED BY <1>1, <1>2 DEF WorkerInv, Counted

-----------------------------------------------------------------------------
(* The steps *)

LEMMA FetchInv ==
  ASSUME WorkerInv, NEW c \in Call, NEW d \in Deliveries, Fetch(c, d)
  PROVE  WorkerInv'
<1>1. /\ at[c] = "idle" /\ delivery' = [delivery EXCEPT ![c] = d]
      /\ bound_at' = [bound_at EXCEPT ![c] = bound]
      /\ verifier' = [verifier EXCEPT ![c] = ParseSecret(bound)]
      /\ UNCHANGED <<dispatchVars, bindingVars, networkVars, logged>>
      /\ \/ at' = [at EXCEPT ![c] = "received"] /\ answer' = answer
         \/ /\ at' = [at EXCEPT ![c] = "answered"]
            /\ answer' = [answer EXCEPT ![c] = "RuntimeError"]
  BY DEF Fetch, Move, Answer
<1>2. phase[c] = "idle" /\ ran[c] = <<>> /\ ~ HasPosted(c) /\ answer[c] = "None"
  BY <1>1, Typed DEF Way
<1>3. WorkerTyped'
  <2>1. bound \in Bindings /\ ParseSecret(bound) \in Bindings
    BY Typed DEF ParseSecret, WorkerTyped, Bindings
  <2>2. verifier' \in [Call -> Bindings] /\ bound_at' \in [Call -> Bindings]
    BY <1>1, <2>1, Typed DEF WorkerTyped
  <2>3. delivery' \in [Call -> Deliveries]
    BY <1>1, Typed DEF WorkerTyped
  <2>4. at' \in [Call -> Standing]
    BY <1>1, Typed DEF WorkerTyped, Standing
  <2>5. answer' \in [Call -> Answers]
    BY <1>1, Typed DEF WorkerTyped, Answers
  <2>6. UNCHANGED <<registrations, phase, env, ran, outcome, bound, inflight, response, objects>>
    BY <1>1 DEF dispatchVars, bindingVars, networkVars
  <2> QED BY <2>2, <2>3, <2>4, <2>5, <2>6, Typed DEF WorkerTyped
<1>4. Only(c)
  BY <1>1, Typed DEF Only, WorkerTyped, dispatchVars, networkVars, Given
<1>5. Way(c)'
  <2>1. at'[c] \in {"received", "answered"} /\ (answer'[c] # "None" <=> at'[c] = "answered")
        /\ answer'[c] # "204"
    BY <1>1, <1>2, Typed DEF WorkerTyped
  <2>2. /\ phase'[c] = "idle" /\ ran'[c] = <<>> /\ ~ HasPosted(c)' /\ response'[c] = "None"
        /\ c \notin logged'
    BY <1>1, <1>2, Typed DEF Way, HasPosted, dispatchVars, networkVars
  <2>3. verifier'[c] = ParseSecret(bound_at'[c])
    BY <1>1, Typed DEF WorkerTyped
  <2> QED BY <2>1, <2>2, <2>3 DEF Way, HasPosted, ParseSecret
<1>6. Counted'
  BY <1>1, <1>2, CountedKept, Typed DEF WorkerTyped
<1> QED BY <1>1, <1>3, <1>4, <1>5, <1>6, OthersOnTheirWay DEF WorkerInv

LEMMA ReceiveInv ==
  ASSUME WorkerInv, NEW c \in Call, Receive(c)
  PROVE  WorkerInv'
<1>1. /\ at[c] = "received"
      /\ UNCHANGED <<dispatchVars, bindingVars, delivery, bound_at, verifier, networkVars, logged>>
      /\ \/ /\ at' = [at EXCEPT ![c] = "answered"]
            /\ \E status \in {"400", "401", "413"} : answer' = [answer EXCEPT ![c] = status]
         \/ /\ IsPing(c) /\ at' = [at EXCEPT ![c] = "answered"]
            /\ answer' = [answer EXCEPT ![c] = "204"]
         \/ /\ Accepts(c) /\ ~ IsPing(c) /\ at' = [at EXCEPT ![c] = "handling"]
            /\ answer' = answer
  <2>1. Status(Fault(c)) \in {"400", "401", "413"}
    BY DEF Status
  <2>2. Fault(c) = "None" => Accepts(c)
    BY DEF Fault, Accepts, BeforeSignature
  <2> QED BY <2>1, <2>2 DEF Receive, Move, Answer
<1>2. phase[c] = "idle" /\ answer[c] = "None" /\ Way(c)
  BY <1>1, Typed DEF Way
<1>3. WorkerTyped'
  <2>1. at' \in [Call -> Standing]
    BY <1>1, Typed DEF WorkerTyped, Standing
  <2>2. answer' \in [Call -> Answers]
    BY <1>1, Typed DEF WorkerTyped, Answers
  <2>3. UNCHANGED <<registrations, phase, env, ran, outcome, bound, delivery, bound_at, verifier,
                    inflight, response, objects>>
    BY <1>1 DEF dispatchVars, bindingVars, networkVars
  <2> QED BY <2>1, <2>2, <2>3, Typed DEF WorkerTyped
<1>4. Only(c)
  BY <1>1, Typed DEF Only, WorkerTyped, dispatchVars, networkVars, Given
<1>5. Way(c)'
  <2>1. \/ at'[c] = "answered" /\ answer'[c] \in {"400", "401", "413"}
        \/ at'[c] = "answered" /\ answer'[c] = "204" /\ IsPing(c)
        \/ at'[c] = "handling" /\ answer'[c] = "None" /\ Accepts(c) /\ ~ IsPing(c)
    BY <1>1, <1>2, Typed DEF WorkerTyped
  <2> QED BY <1>1, <1>2, <2>1 DEF Way, HasPosted, Forwarded, Accepts, Authentic, IsPing, Given,
                                  dispatchVars, networkVars
<1>6. Counted'
  BY <1>1, CountedKept
<1> QED BY <1>1, <1>3, <1>4, <1>5, <1>6, OthersOnTheirWay DEF WorkerInv

\* The dispatch begins on the delivery's own envelope.
LEMMA HandleInv ==
  ASSUME WorkerInv, NEW c \in Call, Handle(c)
  PROVE  WorkerInv'
<1>1. /\ at[c] = "handling" /\ phase[c] = "idle"
      /\ at' = [at EXCEPT ![c] = "dispatching"] /\ env'[c] = delivery[c].envelope
      /\ UNCHANGED <<bindingVars, delivery, bound_at, verifier, answer, networkVars, logged>>
      /\ registrations' = registrations /\ ran' = ran
  BY DEF Handle, Move, Dispatches!Begin
<1>2. PICK e \in Envelope :
        /\ env' = [env EXCEPT ![c] = e]
        /\ \/ /\ e.meta_decodes /\ phase' = [phase EXCEPT ![c] = "open"] /\ outcome' = outcome
           \/ /\ phase' = [phase EXCEPT ![c] = "done"]
              /\ outcome' = [outcome EXCEPT ![c] =
                   [matched |-> Dispatches!MatchOf(registrations, e), result |-> "Undecoded",
                    route |-> 0]]
  BY SameDispatch DEF Handle, Dispatches!Begin, Dispatches!Move, Dispatches!Answer
<1>3. /\ Way(c) /\ answer[c] = "None" /\ ran[c] = <<>> /\ ~ HasPosted(c)
      /\ Accepts(c) /\ ~ IsPing(c) /\ env'[c] = e
  BY <1>1, <1>2, Typed DEF Way, WorkerTyped
<1>4. WorkerTyped'
  <2>1. /\ phase' \in [Call -> {"idle", "open", "running", "done", "dropped"}]
        /\ env' \in [Call -> Envelope] /\ at' \in [Call -> Standing] /\ DOMAIN outcome' = Call
    BY <1>1, <1>2, Typed DEF WorkerTyped, Standing
  <2> QED BY <1>1, <2>1, Typed DEF WorkerTyped, bindingVars, networkVars
<1>5. Only(c)
  BY <1>1, <1>2, Typed DEF Only, WorkerTyped, networkVars, Given
<1>6. Way(c)'
  <2>1. /\ at'[c] = "dispatching"
        /\ \/ phase'[c] = "open" /\ env'[c].meta_decodes
           \/ phase'[c] = "done" /\ outcome'[c].result = "Undecoded"
    BY <1>1, <1>2, <1>3, Typed DEF WorkerTyped
  <2> QED BY <1>1, <1>3, <2>1
          DEF Way, HasPosted, Forwarded, Accepts, Authentic, IsPing, Given, networkVars
<1>7. Counted'
  BY <1>1, CountedKept
<1> QED BY <1>1, <1>4, <1>5, <1>6, <1>7, OthersOnTheirWay DEF WorkerInv

LEMMA DispatchingInv ==
  ASSUME WorkerInv, NEW c \in Call, Dispatching(c)
  PROVE  WorkerInv'
<1>1. /\ at[c] = "dispatching" /\ phase[c] = "open"
      /\ UNCHANGED <<bindingVars, requestVars, networkVars, logged>>
      /\ registrations' = registrations /\ env' = env
  BY DEF Dispatching, Dispatches!Run, Dispatches!Succeed
<1>2. /\ Way(c) /\ ran[c] \in {<<>>, <<1>>, <<1, 2>>} /\ env[c].meta_decodes
      /\ env[c] = delivery[c].envelope /\ Accepts(c) /\ ~ IsPing(c)
      /\ ran[c] # <<>> => response[c] = "2xx"
      /\ ran[c] = <<1, 2>> => c \in logged
  BY <1>1, Typed DEF Way, WorkerTyped
<1>3. \/ /\ phase'[c] = "running" /\ phase' = [phase EXCEPT ![c] = "running"]
         /\ outcome' = outcome
         /\ \/ ran[c] = <<>> /\ ran' = [ran EXCEPT ![c] = <<1>>]
            \/ ran[c] = <<1>> /\ ran' = [ran EXCEPT ![c] = <<1, 2>>]
      \/ /\ phase'[c] = "done" /\ phase' = [phase EXCEPT ![c] = "done"] /\ ran' = ran
         /\ \E o : /\ outcome' = [outcome EXCEPT ![c] = o]
                   /\ o.result = "Failed" \/ (o.result = "Ok" /\ Forwarded(c))
  <2>1. phase[c] \in {"idle", "open", "running", "done", "dropped"} /\ DOMAIN phase = Call
        /\ DOMAIN outcome = Call /\ DOMAIN ran = Call
    BY Typed DEF WorkerTyped
  <2>2. CASE Dispatches!Run(c)
    <3>1. PICK r \in Dispatches!Remaining(c) :
            /\ Dispatches!IsNext(c, r)
            /\ \/ /\ phase' = [phase EXCEPT ![c] = "running"] /\ outcome' = outcome
                  /\ ran' = [ran EXCEPT ![c] = Append(ran[c], r)]
               \/ /\ phase' = [phase EXCEPT ![c] = "done"] /\ ran' = ran
                  /\ \E m : outcome' = [outcome EXCEPT ![c] =
                              [matched |-> m, result |-> "Failed", route |-> r]]
      BY <2>1, <2>2 DEF Dispatches!Run, Dispatches!Move, Dispatches!Answer
    <3>2. (ran[c] = <<>> /\ r = 1) \/ (ran[c] = <<1>> /\ r = 2)
      BY <1>1, <3>1, WhatRemains
    <3>3. Append(<<>>, 1) = <<1>> /\ Append(<<1>>, 2) = <<1, 2>>
      <4>1. Append(<<>>, 1) = <<1>>
        OBVIOUS
      <4>2. Append(<<1>>, 2) = <<1, 2>>
        <5>1. <<1>> \in Seq(Nat) /\ <<1, 2>> \in Seq(Nat) /\ 2 \in Nat
          OBVIOUS
        <5>2. Append(<<1>>, 2) \in Seq(Nat) /\ Len(Append(<<1>>, 2)) = 2
          BY <5>1
        <5>3. Append(<<1>>, 2)[1] = 1 /\ Append(<<1>>, 2)[2] = 2
          BY <5>1, AppendProperties
        <5>4. Len(<<1, 2>>) = 2 /\ <<1, 2>>[1] = 1 /\ <<1, 2>>[2] = 2
          OBVIOUS
        <5> DEFINE s == Append(<<1>>, 2)
        <5> DEFINE t == <<1, 2>>
        <5>5. s \in Seq(Nat) /\ t \in Seq(Nat) /\ Len(s) = 2 /\ Len(t) = 2
              /\ s[1] = t[1] /\ s[2] = t[2]
          BY <5>1, <5>2, <5>3, <5>4
        <5> HIDE DEF s, t
        <5>6. s = t
          <6>1. \A j \in 1..Len(s) : s[j] = t[j]
            BY <5>5
          <6> QED BY <5>5, <6>1, SeqEqual
        <5> QED BY <5>6 DEF s, t
      <4> QED BY <4>1, <4>2
    <3>4. CASE /\ phase' = [phase EXCEPT ![c] = "running"] /\ outcome' = outcome
               /\ ran' = [ran EXCEPT ![c] = Append(ran[c], r)]
      BY <2>1, <3>2, <3>3, <3>4
    <3>5. CASE /\ phase' = [phase EXCEPT ![c] = "done"] /\ ran' = ran
               /\ \E m : outcome' = [outcome EXCEPT ![c] =
                              [matched |-> m, result |-> "Failed", route |-> r]]
      <4>1. PICK m : outcome' = [outcome EXCEPT ![c] =
                                  [matched |-> m, result |-> "Failed", route |-> r]]
        BY <3>5
      <4> DEFINE o == [matched |-> m, result |-> "Failed", route |-> r]
      <4>2. o.result = "Failed" /\ outcome' = [outcome EXCEPT ![c] = o]
        BY <4>1
      <4> HIDE DEF o
      <4> QED BY <2>1, <3>5, <4>2
    <3> QED BY <3>1, <3>4, <3>5
  <2>3. CASE Dispatches!Succeed(c)
    <3>1. /\ Dispatches!Remaining(c) = {} /\ phase' = [phase EXCEPT ![c] = "done"] /\ ran' = ran
          /\ \E o : outcome' = [outcome EXCEPT ![c] = o] /\ o.result = "Ok"
      <4> DEFINE o == [matched |-> Dispatches!MatchOf(registrations, env[c]), result |-> "Ok",
                       route |-> 0]
      <4>1. /\ Dispatches!Remaining(c) = {} /\ phase' = [phase EXCEPT ![c] = "done"]
            /\ ran' = ran /\ outcome' = [outcome EXCEPT ![c] = o]
        BY <2>3 DEF Dispatches!Succeed, Dispatches!Move, Dispatches!Answer
      <4>2. o.result = "Ok"
        OBVIOUS
      <4> HIDE DEF o
      <4> QED BY <4>1, <4>2
    <3>2. Forwarded(c)
      <4>1. /\ ran[c] # <<>>
            /\ env[c].kind = installation => ran[c] = <<1, 2>>
        BY <1>1, <1>2, <3>1, WhatRemains
      <4> QED BY <1>2, <4>1 DEF Forwarded
    <3> QED BY <2>1, <3>1, <3>2
  <2> QED BY <2>2, <2>3 DEF Dispatching
<1>4. WorkerTyped'
  <2>1. /\ phase' \in [Call -> {"idle", "open", "running", "done", "dropped"}]
        /\ ran' \in [Call -> {<<>>, <<1>>, <<1, 2>>}] /\ DOMAIN outcome' = Call
    BY <1>3, Typed DEF WorkerTyped
  <2> QED BY <1>1, <2>1, Typed DEF WorkerTyped, bindingVars, requestVars, networkVars
<1>5. Only(c)
  <2>1. \A k \in Call \ {c} : phase'[k] = phase[k] /\ ran'[k] = ran[k] /\ outcome'[k] = outcome[k]
    BY <1>3, Typed DEF WorkerTyped
  <2> QED BY <1>1, <2>1 DEF Only, requestVars, networkVars, Given
<1>6. Way(c)'
  <2>1. /\ (answer'[c] # "None" <=> at'[c] = "answered") /\ at'[c] = "dispatching"
        /\ answer'[c] = answer[c] /\ env'[c] = delivery'[c].envelope /\ env'[c].meta_decodes
        /\ Accepts(c)' /\ ~ IsPing(c)' /\ HasPosted(c)' = HasPosted(c)
        /\ response'[c] = response[c] /\ (c \in logged') = (c \in logged)
        /\ inflight' = inflight /\ delivery'[c] = delivery[c] /\ objects' = objects
        /\ bound_at' = bound_at /\ verifier' = verifier
        /\ (Forwarded(c) => Forwarded(c)')
    BY <1>1, <1>2
       DEF Way, Accepts, Authentic, IsPing, HasPosted, Forwarded, requestVars, networkVars
  <2>2. \/ /\ phase'[c] = "running" /\ outcome'[c] = outcome[c]
           /\ (ran[c] = <<>> /\ ran'[c] = <<1>>) \/ (ran[c] = <<1>> /\ ran'[c] = <<1, 2>>)
        \/ /\ phase'[c] = "done" /\ ran'[c] = ran[c]
           /\ outcome'[c].result = "Ok" => Forwarded(c)
    BY <1>3, Typed DEF WorkerTyped
  <2>3. <<1>> # <<>> /\ <<1, 2>> # <<>> /\ <<1>> # <<1, 2>>
    OBVIOUS
  <2> QED BY <1>2, <2>1, <2>2, <2>3 DEF Way, Given
<1>7. Counted'
  BY <1>1, CountedKept DEF requestVars
<1> QED BY <1>1, <1>4, <1>5, <1>6, <1>7, OthersOnTheirWay DEF WorkerInv

LEMMA ConcludeInv ==
  ASSUME WorkerInv, NEW c \in Call, Conclude(c)
  PROVE  WorkerInv'
<1>1. /\ at[c] = "dispatching" /\ phase[c] = "done" /\ at' = [at EXCEPT ![c] = "answered"]
      /\ answer' = [answer EXCEPT ![c] = IF outcome[c].result = "Ok" THEN "204" ELSE "500"]
      /\ UNCHANGED <<dispatchVars, bindingVars, delivery, bound_at, verifier, networkVars, logged>>
  BY DEF Conclude, Move, Answer
<1>2. WorkerTyped'
  <2>1. /\ at' \in [Call -> Standing]
        /\ answer' \in [Call -> Answers]
    BY <1>1, Typed DEF WorkerTyped, Standing, Answers
  <2> QED BY <1>1, <2>1, Typed DEF WorkerTyped, dispatchVars, bindingVars, networkVars
<1>3. Only(c)
  BY <1>1, Typed DEF Only, WorkerTyped, dispatchVars, networkVars, Given
<1>4. Way(c)'
  <2>1. /\ Way(c) /\ at'[c] = "answered" /\ answer'[c] \in {"204", "500"}
        /\ answer'[c] = "204" => Forwarded(c)
    BY <1>1, Typed DEF Way, WorkerTyped
  <2> QED BY <1>1, <2>1 DEF Way, HasPosted, Forwarded, Accepts, Authentic, IsPing, Given,
                            dispatchVars, networkVars
<1>5. Counted'
  BY <1>1, CountedKept
<1> QED BY <1>1, <1>2, <1>3, <1>4, <1>5, OthersOnTheirWay DEF WorkerInv

LEMMA DropInv ==
  ASSUME WorkerInv, NEW c \in Call, Drop(c)
  PROVE  WorkerInv'
<1>1. /\ at' = [at EXCEPT ![c] = "dropped"]
      /\ registrations' = registrations /\ env' = env /\ ran' = ran /\ outcome' = outcome
      /\ UNCHANGED <<bindingVars, delivery, bound_at, verifier, answer, networkVars, logged>>
      /\ \/ at[c] = "received" /\ phase' = phase
         \/ phase[c] = "running" /\ phase' = [phase EXCEPT ![c] = "dropped"]
  BY DEF Drop, Move, Dispatches!Drop, Dispatches!Move, dispatchVars
<1>2. /\ at[c] # "answered" /\ Way(c) /\ answer[c] = "None"
      /\ at[c] = "received" => phase[c] = "idle"
      /\ phase[c] = "running" => at[c] # "received"
  <2>1. Way(c)
    BY Typed
  <2>2. at[c] # "answered"
    BY <1>1, <2>1 DEF Way
  <2> QED BY <2>1, <2>2 DEF Way
<1>3. WorkerTyped'
  <2>1. /\ at' \in [Call -> Standing]
        /\ phase' \in [Call -> {"idle", "open", "running", "done", "dropped"}]
    BY <1>1, Typed DEF WorkerTyped, Standing
  <2> QED BY <1>1, <2>1, Typed DEF WorkerTyped, bindingVars, networkVars
<1>4. Only(c)
  BY <1>1, Typed DEF Only, WorkerTyped, networkVars, Given
<1>5. Way(c)'
  <2>1. /\ at'[c] = "dropped"
        /\ \/ phase'[c] = "idle" /\ phase[c] = "idle"
           \/ phase'[c] = "dropped" /\ phase[c] = "running"
    BY <1>1, <1>2, Typed DEF WorkerTyped
  <2> QED BY <1>1, <1>2, <2>1
          DEF Way, HasPosted, Forwarded, Accepts, Authentic, IsPing, Given, networkVars
<1>6. Counted'
  BY <1>1, CountedKept
<1> QED BY <1>1, <1>3, <1>4, <1>5, <1>6, OthersOnTheirWay DEF WorkerInv

-----------------------------------------------------------------------------
(* The handlers' steps *)

LEMMA Returned ==
  ASSUME WorkerInv, NEW c \in Call, NEW ok \in BOOLEAN, Returns(c, ok)
  PROVE  /\ phase[c] = "running"
         /\ phase' = [phase EXCEPT ![c] = IF ok THEN "open" ELSE "done"]
         /\ registrations' = registrations /\ env' = env /\ ran' = ran
         /\ DOMAIN outcome' = Call
         /\ \A k \in Call \ {c} : outcome'[k] = outcome[k]
         /\ ~ ok => outcome'[c].result = "Failed"
<1>1. /\ DOMAIN outcome = Call /\ DOMAIN phase = Call
      /\ phase[c] = "running" /\ registrations' = registrations /\ env' = env /\ ran' = ran
  BY Typed DEF Returns, Dispatches!HandlerReturns, WorkerTyped
<1>2. CASE Dispatches!Move(c, "open") /\ outcome' = outcome
  <2>1. phase' = [phase EXCEPT ![c] = "open"] /\ phase'[c] = "open"
    BY <1>1, <1>2 DEF Dispatches!Move
  <2>2. ok
    BY <2>1 DEF Returns
  <2> QED BY <1>1, <1>2, <2>1, <2>2
<1>3. CASE Dispatches!Answer(c, env[c], "Failed", ran[c][Len(ran[c])])
  <2> DEFINE o == [matched |-> Dispatches!MatchOf(registrations, env[c]), result |-> "Failed",
                   route |-> ran[c][Len(ran[c])]]
  <2>1. phase' = [phase EXCEPT ![c] = "done"] /\ outcome' = [outcome EXCEPT ![c] = o]
    BY <1>3 DEF Dispatches!Answer, Dispatches!Move
  <2>2. o.result = "Failed"
    OBVIOUS
  <2> HIDE DEF o
  <2>3. phase'[c] = "done" /\ phase'[c] # "open"
    BY <1>1, <2>1
  <2>4. ~ ok
    BY <2>3 DEF Returns
  <2> QED BY <1>1, <2>1, <2>2, <2>4
<1> QED BY <1>2, <1>3 DEF Returns, Dispatches!HandlerReturns

\* A handler returns, with success only when the service has the delivery and
\* InstallationLog, if it is the one, has written its line.
LEMMA HandlerDone ==
  ASSUME WorkerInv, NEW c \in Call, NEW ok \in BOOLEAN, Returns(c, ok),
         UNCHANGED <<bindingVars, requestVars, networkVars>>,
         \/ logged' = logged
         \/ logged' = logged \cup {c} /\ response[c] = "2xx",
         ok => response[c] = "2xx" /\ (ran[c] = <<1, 2>> => c \in logged')
  PROVE  WorkerInv'
<1>1. Way(c) /\ phase[c] = "running" /\ at[c] = "dispatching" /\ ran[c] # <<>>
  BY Returned, Typed DEF Way
<1>2. WorkerTyped'
  <2>1. phase' \in [Call -> {"idle", "open", "running", "done", "dropped"}]
    BY Returned, Typed DEF WorkerTyped
  <2> QED BY <2>1, Returned, Typed DEF WorkerTyped, bindingVars, requestVars, networkVars
<1>3. Only(c)
  <2>1. \A k \in Call \ {c} :
          phase'[k] = phase[k] /\ outcome'[k] = outcome[k] /\ (k \in logged') = (k \in logged)
    BY Returned, Typed DEF WorkerTyped
  <2>2. env' = env /\ ran' = ran
    BY Returned
  <2> QED BY <2>1, <2>2 DEF Only, requestVars, networkVars, Given
<1>4. Way(c)'
  <2>1. /\ Accepts(c)' = Accepts(c) /\ IsPing(c)' = IsPing(c)
        /\ HasPosted(c)' = HasPosted(c) /\ response' = response /\ delivery' = delivery
        /\ at' = at /\ answer' = answer /\ inflight' = inflight /\ objects' = objects
        /\ env' = env /\ ran' = ran /\ bound_at' = bound_at /\ verifier' = verifier
    BY Returned DEF Accepts, Authentic, IsPing, HasPosted, requestVars, networkVars
  <2>2. /\ phase'[c] = IF ok THEN "open" ELSE "done"
        /\ ~ ok => outcome'[c].result = "Failed"
    BY Returned, Typed DEF WorkerTyped
  <2>3. /\ c \in logged' => response[c] = "2xx"
        /\ Forwarded(c) => Forwarded(c)'
    BY <1>1, <2>1 DEF Way, Forwarded
  <2> QED BY <1>1, <2>1, <2>2, <2>3 DEF Way, Given
<1>5. Counted'
  BY CountedKept DEF requestVars
<1>6. logged' \subseteq Call
  BY DEF WorkerInv
<1> QED BY <1>2, <1>3, <1>4, <1>5, <1>6, OthersOnTheirWay DEF WorkerInv

\* The handler that runs is the last of those that ran.
LEMMA Running ==
  ASSUME WorkerInv, NEW c \in Call
  PROVE  /\ Runs(c, Forward) => ran[c] = <<1>> /\ phase[c] = "running" /\ Way(c)
         /\ Runs(c, InstallationLog) => ran[c] = <<1, 2>> /\ phase[c] = "running" /\ Way(c)
<1>1. ran[c] \in {<<>>, <<1>>, <<1, 2>>} /\ Way(c)
  BY Typed DEF WorkerTyped
<1>2. phase[c] = "running" => ran[c] # <<>>
  BY <1>1 DEF Way
<1>3. <<1>>[Len(<<1>>)] = 1 /\ <<1, 2>>[Len(<<1, 2>>)] = 2
  OBVIOUS
<1> QED BY <1>1, <1>2, <1>3 DEF Runs, Forward, InstallationLog

LEMMA ForwardStartsInv ==
  ASSUME WorkerInv, NEW c \in Call, ForwardStarts(c)
  PROVE  WorkerInv'
<1>1. /\ ran[c] = <<1>> /\ phase[c] = "running" /\ Way(c) /\ ~ HasPosted(c)
      /\ UNCHANGED <<bindingVars, requestVars, response, objects, logged>>
  BY Running DEF ForwardStarts
<1>2. CASE Returns(c, FALSE) /\ inflight' = inflight
  BY <1>1, <1>2, HandlerDone DEF networkVars
<1>3. CASE /\ delivery[c].installation # {} /\ inflight' = inflight \cup {c}
           /\ UNCHANGED dispatchVars
  <2>1. WorkerTyped'
    BY <1>1, <1>3, Typed DEF WorkerTyped, dispatchVars, bindingVars, requestVars
  <2>2. Only(c)
    BY <1>1, <1>3 DEF Only, dispatchVars, requestVars, Given
  <2>3. Way(c)'
    BY <1>1, <1>3 DEF Way, HasPosted, Forwarded, Accepts, Authentic, IsPing, Given,
                      dispatchVars, requestVars
  <2>4. Counted'
    <3>1. Posted' = Posted \cup {c}
      BY <1>1, <1>3 DEF Posted, HasPosted
    <3>2. IsFiniteSet(Posted')
      BY <3>1, Typed, FS_AddElement DEF Counted
    <3>3. \A i, id : Places(i, id)' = Places(i, id) /\ Accepted(i, id)' = Accepted(i, id)
      BY <1>1 DEF Places, Accepted, requestVars
    <3> QED BY <3>2, <3>3, Typed DEF Counted
  <2> QED BY <1>1, <2>1, <2>2, <2>3, <2>4, OthersOnTheirWay DEF WorkerInv
<1> QED BY <1>2, <1>3 DEF ForwardStarts

LEMMA ForwardReturnsInv ==
  ASSUME WorkerInv, NEW c \in Call, ForwardReturns(c)
  PROVE  WorkerInv'
<1>1. ran[c] = <<1>> /\ <<1>> # <<1, 2>>
  BY Running DEF ForwardReturns
<1>2. /\ UNCHANGED <<bindingVars, requestVars, networkVars>> /\ logged' = logged
      /\ \/ response[c] = "2xx" /\ Returns(c, TRUE)
         \/ Returns(c, FALSE)
  BY DEF ForwardReturns
<1> QED BY <1>1, <1>2, HandlerDone

LEMMA LogInv ==
  ASSUME WorkerInv, NEW c \in Call, Log(c)
  PROVE  WorkerInv'
<1>1. ran[c] = <<1, 2>> /\ Way(c)
  BY Running DEF Log
<1>2. response[c] = "2xx"
  BY <1>1 DEF Way
<1>3. /\ UNCHANGED <<bindingVars, requestVars, networkVars>> /\ logged' = logged \cup {c}
      /\ Returns(c, TRUE)
  BY DEF Log
<1> QED BY <1>2, <1>3, HandlerDone

-----------------------------------------------------------------------------
(* The service *)

\* The service takes the envelope into the object it is for, where it is one
\* place more, and the request one more that was accepted.
LEMMA ServiceAcceptsInv ==
  ASSUME WorkerInv, NEW c \in Call, ServiceAccepts(c)
  PROVE  WorkerInv'
<1>1. PICK i \in delivery[c].installation :
        objects' = [objects EXCEPT ![i] = Append(@, delivery[c].id)]
  BY DEF ServiceAccepts
<1>2. /\ c \in inflight /\ inflight' = inflight \ {c}
      /\ response' = [response EXCEPT ![c] = "2xx"]
      /\ UNCHANGED <<dispatchVars, bindingVars, requestVars, logged>>
  BY DEF ServiceAccepts, Respond
<1>3. i \in Installation /\ delivery[c].installation = {i} /\ delivery[c].id \in DeliveryId
  BY <1>1, Typed, DeliveriesAssumption
<1>4. /\ Way(c) /\ response[c] = "None" /\ HasPosted(c) /\ ran[c] # <<>>
      /\ ran[c] # <<1, 2>> /\ c \notin logged /\ phase[c] # "open" /\ phase[c] # "idle"
      /\ ~ Forwarded(c)
  BY <1>2, Typed DEF Way, HasPosted, Forwarded
<1>5. /\ objects[i] \in Seq(DeliveryId) /\ objects'[i] = Append(objects[i], delivery[c].id)
      /\ \A j \in Installation \ {i} : objects'[j] = objects[j]
      /\ objects' \in [Installation -> Seq(DeliveryId)]
      /\ DOMAIN objects = Installation
  BY <1>1, <1>3, Typed DEF WorkerTyped
<1>6. /\ DOMAIN objects'[i] = DOMAIN objects[i] \cup {Len(objects[i]) + 1}
      /\ Len(objects[i]) + 1 \notin DOMAIN objects[i]
      /\ objects'[i][Len(objects[i]) + 1] = delivery[c].id
      /\ \A n \in DOMAIN objects[i] : objects'[i][n] = objects[i][n]
  BY <1>3, <1>5
<1>7. WorkerTyped'
  <2>1. response' \in [Call -> {"None", "2xx", "other"}] /\ inflight' \subseteq Call
    BY <1>2, Typed DEF WorkerTyped
  <2> QED BY <1>2, <1>5, <2>1, Typed DEF WorkerTyped, dispatchVars, bindingVars, requestVars
<1>8. Only(c)
  <2>1. \A k \in Call \ {c} : response'[k] = response[k] /\ (k \in inflight') = (k \in inflight)
    BY <1>2, Typed DEF WorkerTyped
  <2>2. ASSUME NEW j, NEW id, Given(j, id)
        PROVE  Given(j, id)'
    <3>1. PICK n \in DOMAIN objects[j] : objects[j][n] = id
      BY <2>2 DEF Given
    <3>2. n \in DOMAIN objects'[j] /\ objects'[j][n] = id
      <4>1. CASE j = i
        BY <1>6, <3>1, <4>1
      <4>2. CASE j # i
        <5>1. objects'[j] = objects[j]
          BY <1>1, <1>5, <4>2
        <5> QED BY <3>1, <5>1
      <4> QED BY <4>1, <4>2
    <3> QED BY <3>2 DEF Given
  <2> QED BY <1>2, <2>1, <2>2 DEF Only, dispatchVars, requestVars
<1>9. Way(c)'
  <2>1. response'[c] = "2xx" /\ HasPosted(c)' /\ c \notin inflight'
    BY <1>2, Typed DEF WorkerTyped, HasPosted
  <2>2. Given(i, delivery[c].id)'
    BY <1>2, <1>6 DEF Given, requestVars
  <2> QED BY <1>2, <1>3, <1>4, <2>1, <2>2
          DEF Way, Accepts, Authentic, IsPing, dispatchVars, requestVars
<1>10. Counted'
  <2>1. Posted' = Posted
    <3>1. \A k \in Call : HasPosted(k)' = HasPosted(k)
      <4>1. HasPosted(c)' = TRUE /\ HasPosted(c) = TRUE
        BY <1>2, <1>4, Typed DEF WorkerTyped, HasPosted
      <4>2. \A k \in Call \ {c} : HasPosted(k)' = HasPosted(k)
        BY <1>8 DEF Only, HasPosted
      <4> QED BY <4>1, <4>2
    <3> QED BY <3>1 DEF Posted
  <2>2. ASSUME NEW j \in Installation, NEW id \in DeliveryId
        PROVE  /\ IsFiniteSet(Places(j, id)')
               /\ Cardinality(Places(j, id)') <= Cardinality(Accepted(j, id)')
    <3>1. /\ IsFiniteSet(Places(j, id)) /\ IsFiniteSet(Posted)
          /\ Cardinality(Places(j, id)) <= Cardinality(Accepted(j, id))
      BY Typed DEF Counted
    <3>2. IsFiniteSet(Accepted(j, id))
      <4>1. Accepted(j, id) \subseteq Posted
        BY DEF Accepted, Posted, HasPosted
      <4> QED BY <3>1, <4>1, FS_Subset
    <3>3. CASE j = i /\ id = delivery[c].id
      <4>1. Places(j, id)' = Places(j, id) \cup {Len(objects[i]) + 1}
            /\ Len(objects[i]) + 1 \notin Places(j, id)
        BY <1>6, <3>3 DEF Places
      <4>2. Accepted(j, id)' = Accepted(j, id) \cup {c} /\ c \notin Accepted(j, id)
        BY <1>2, <1>3, <1>4, <3>3, Typed DEF Accepted, WorkerTyped, requestVars
      <4>3. /\ IsFiniteSet(Places(j, id)')
            /\ Cardinality(Places(j, id)') = Cardinality(Places(j, id)) + 1
        BY <3>1, <4>1, FS_AddElement
      <4>4. Cardinality(Accepted(j, id)') = Cardinality(Accepted(j, id)) + 1
        BY <3>2, <4>2, FS_AddElement
      <4>5. Cardinality(Places(j, id)) \in Nat /\ Cardinality(Accepted(j, id)) \in Nat
        BY <3>1, <3>2, FS_CardinalityType
      <4> QED BY <3>1, <4>3, <4>4, <4>5
    <3>4. CASE ~ (j = i /\ id = delivery[c].id)
      <4>1. Places(j, id)' = Places(j, id)
        <5>1. CASE j = i
          BY <1>6, <3>4, <5>1 DEF Places
        <5>2. CASE j # i
          BY <1>5, <5>2 DEF Places
        <5> QED BY <5>1, <5>2
      <4>2. Accepted(j, id)' = Accepted(j, id)
        <5>1. c \notin Accepted(j, id) /\ c \notin Accepted(j, id)'
          BY <1>2, <1>3, <1>4, <3>4 DEF Accepted, requestVars
        <5>2. \A k \in Call \ {c} : k \in Accepted(j, id)' <=> k \in Accepted(j, id)
          BY <1>8 DEF Only, Accepted
        <5> QED BY <5>1, <5>2 DEF Accepted
      <4> QED BY <3>1, <4>1, <4>2
    <3> QED BY <3>3, <3>4
  <2> QED BY <2>1, <2>2, Typed DEF Counted
<1> QED BY <1>2, <1>7, <1>8, <1>9, <1>10, OthersOnTheirWay DEF WorkerInv

LEMMA ServiceRefusesInv ==
  ASSUME WorkerInv, NEW c \in Call, ServiceRefuses(c)
  PROVE  WorkerInv'
<1>1. /\ c \in inflight /\ inflight' = inflight \ {c}
      /\ response' = [response EXCEPT ![c] = "other"]
      /\ UNCHANGED <<dispatchVars, bindingVars, requestVars, objects, logged>>
  BY DEF ServiceRefuses, Respond
<1>2. /\ Way(c) /\ response[c] = "None" /\ HasPosted(c) /\ ran[c] # <<>>
      /\ ran[c] # <<1, 2>> /\ c \notin logged /\ phase[c] # "open" /\ ~ Forwarded(c)
      /\ delivery[c].installation # {}
  BY <1>1, Typed DEF Way, HasPosted, Forwarded
<1>3. /\ response'[c] = "other" /\ c \notin inflight'
      /\ \A k \in Call \ {c} : response'[k] = response[k] /\ (k \in inflight') = (k \in inflight)
      /\ response' \in [Call -> {"None", "2xx", "other"}] /\ inflight' \subseteq Call
  BY <1>1, Typed DEF WorkerTyped
<1>4. WorkerTyped'
  BY <1>1, <1>3, Typed DEF WorkerTyped, dispatchVars, bindingVars, requestVars
<1>5. Only(c)
  BY <1>1, <1>3 DEF Only, dispatchVars, requestVars, Given
<1>6. Way(c)'
  BY <1>1, <1>2, <1>3 DEF Way, HasPosted, Accepts, Authentic, IsPing, dispatchVars, requestVars
<1>7. Counted'
  <2>1. Posted' = Posted
    <3>1. HasPosted(c)' = TRUE /\ HasPosted(c) = TRUE
      BY <1>2, <1>3 DEF HasPosted
    <3>2. \A k \in Call \ {c} : HasPosted(k)' = HasPosted(k)
      BY <1>3 DEF HasPosted
    <3> QED BY <3>1, <3>2 DEF Posted
  <2>2. \A i, id : Places(i, id)' = Places(i, id)
    BY <1>1 DEF Places
  <2>3. \A i, id : Accepted(i, id)' = Accepted(i, id)
    <3>1. \A k \in Call : response'[k] = "2xx" <=> response[k] = "2xx"
      BY <1>2, <1>3
    <3> QED BY <1>1, <3>1 DEF Accepted, requestVars
  <2> QED BY <2>1, <2>2, <2>3, Typed DEF Counted
<1> QED BY <1>1, <1>4, <1>5, <1>6, <1>7, OthersOnTheirWay DEF WorkerInv

\* A change of the binding touches no request, and neither does a stutter.
LEMMA RebindInv ==
  ASSUME WorkerInv, bound' \in Bindings,
         UNCHANGED <<dispatchVars, requestVars, networkVars, logged>>
  PROVE  WorkerInv'
<1>1. WorkerTyped'
  BY DEF WorkerInv, WorkerTyped, dispatchVars, requestVars, networkVars
<1>2. Counted'
  BY CountedKept DEF requestVars
<1>3. ASSUME NEW c \in Call
      PROVE  Way(c)'
  <2>1. Way(c)
    BY DEF WorkerInv
  <2> QED BY <2>1 DEF Way, HasPosted, Forwarded, Accepts, Authentic, IsPing, Given,
                      dispatchVars, requestVars, networkVars
<1> QED BY <1>1, <1>2, <1>3 DEF WorkerInv

-----------------------------------------------------------------------------
(* The invariant *)

LEMMA WorkerInitInv ==
  ASSUME Init
  PROVE  WorkerInv
<1> DEFINE first == CHOOSE d \in Deliveries : TRUE
<1>1. first \in Deliveries /\ first.envelope \in Envelope
  BY DeliveriesExist, DeliveriesAssumption
<1> HIDE DEF first
<1>2. /\ env = [c \in Call |-> first.envelope] /\ delivery = [c \in Call |-> first]
  BY DEF Init, first
<1>3. WorkerTyped
  BY <1>1, <1>2 DEF Init, WorkerTyped, Standing, Answers, Bindings
<1>4. Counted
  <2>1. Posted = {}
    BY DEF Init, Posted, HasPosted
  <2>2. \A i \in Installation, id \in DeliveryId : Places(i, id) = {} /\ Accepted(i, id) = {}
    BY DEF Init, Places, Accepted
  <2> QED BY <2>1, <2>2, FS_EmptySet DEF Counted
<1>5. \A c \in Call : Way(c)
  BY DEF Init, Way, HasPosted, ParseSecret
<1> QED BY <1>3, <1>4, <1>5 DEF Init, WorkerInv

LEMMA WorkerNextInv ==
  ASSUME WorkerInv, [Next]_vars
  PROVE  WorkerInv'
<1>1. ASSUME NEW c \in Call, NEW d \in Deliveries, Fetch(c, d)
      PROVE  WorkerInv'
  BY <1>1, FetchInv
<1>2. ASSUME NEW c \in Call, Receive(c) \/ Handle(c) \/ Dispatching(c) \/ Conclude(c)
      PROVE  WorkerInv'
  BY <1>2, ReceiveInv, HandleInv, DispatchingInv, ConcludeInv
<1>3. ASSUME NEW c \in Call, Drop(c) \/ ForwardStarts(c) \/ ForwardReturns(c) \/ Log(c)
      PROVE  WorkerInv'
  BY <1>3, DropInv, ForwardStartsInv, ForwardReturnsInv, LogInv
<1>4. ASSUME NEW c \in Call, ServiceAccepts(c) \/ ServiceRefuses(c)
      PROVE  WorkerInv'
  BY <1>4, ServiceAcceptsInv, ServiceRefusesInv
<1>5. ASSUME NEW binding \in Bindings, Rebind(binding)
      PROVE  WorkerInv'
  BY <1>5, RebindInv DEF Rebind
<1>6. CASE UNCHANGED vars
  <2>1. bound' \in Bindings
    BY <1>6 DEF vars, bindingVars, WorkerInv, WorkerTyped
  <2> QED BY <1>6, <2>1, RebindInv DEF vars
<1> QED BY <1>1, <1>2, <1>3, <1>4, <1>5, <1>6 DEF Next

LEMMA WorkerIsSound == Spec => []WorkerInv
BY WorkerInitInv, WorkerNextInv, PTL DEF Spec

\* A request is answered when its way has ended and not before: with a status
\* of the receiver's, 400 and 413 among them, or by the runtime for a binding
\* it cannot use.
THEOREM WorkerTypeCorrect == Spec => []WorkerTypeOK
<1>1. WorkerInv => WorkerTypeOK
  BY DEF WorkerInv, WorkerTyped, Way, WorkerTypeOK, Answers
<1> QED BY <1>1, WorkerIsSound, PTL

\* A 204 is only answered, and a line only logged, for what the service took
\* in, over any number of requests, whoever loses or delays a response and
\* whenever the runtime drops a request.
THEOREM SuccessIsForwarded == Spec => []SuccessMeansForwarded
<1>1. ASSUME WorkerInv
      PROVE  SuccessMeansForwarded
  <2>1. ASSUME NEW c \in Call
        PROVE  Way(c)
    BY <1>1 DEF WorkerInv
  <2>2. ASSUME NEW c \in Call, answer[c] = "204", ~ IsPing(c)
        PROVE  /\ \E i \in delivery[c].installation : Given(i, delivery[c].id)
               /\ delivery[c].envelope.kind = installation => c \in logged
    BY <2>1, <2>2 DEF Way, Forwarded
  <2>3. ASSUME NEW c \in logged
        PROVE  \E i \in delivery[c].installation : Given(i, delivery[c].id)
    BY <1>1, <2>1 DEF Way, WorkerInv
  <2> QED BY <2>2, <2>3 DEF SuccessMeansForwarded
<1> QED BY <1>1, WorkerIsSound, PTL

\* No object is given a delivery more often than requests carried it that were
\* refused for nothing and signed with the secret recorded as bound when each
\* arrived, never the empty one, however the binding changes.
THEOREM SignedAreForwarded == Spec => []OnlySignedIsForwarded
<1>1. ASSUME WorkerInv
      PROVE  OnlySignedIsForwarded
  <2>1. ASSUME NEW c \in Call, HasPosted(c)
        PROVE  /\ delivery[c].fault = "None"
               /\ delivery[c].signer \in bound_at[c] \ {Empty}
    <3>1. Way(c)
      BY <1>1 DEF WorkerInv
    <3>2. Accepts(c)
      BY <2>1, <3>1 DEF Way
    <3> QED BY <3>1, <3>2 DEF Way, Accepts, Authentic, ParseSecret
  <2>2. ASSUME NEW i \in Installation, NEW id \in DeliveryId
        PROVE  Cardinality(Places(i, id)) <=
                 Cardinality({c \in Call :
                   /\ delivery[c].id = id
                   /\ delivery[c].installation = {i}
                   /\ delivery[c].fault = "None"
                   /\ delivery[c].signer \in bound_at[c] \ {Empty}
                   /\ HasPosted(c)})
    <3> DEFINE signed == {c \in Call :
                   /\ delivery[c].id = id
                   /\ delivery[c].installation = {i}
                   /\ delivery[c].fault = "None"
                   /\ delivery[c].signer \in bound_at[c] \ {Empty}
                   /\ HasPosted(c)}
    <3>1. IsFiniteSet(signed)
      BY <1>1, FS_Subset DEF WorkerInv, Counted, Posted
    <3>2. Accepted(i, id) \subseteq signed
      BY <2>1 DEF Accepted, HasPosted
    <3>3. /\ IsFiniteSet(Accepted(i, id))
          /\ Cardinality(Accepted(i, id)) <= Cardinality(signed)
      BY <3>1, <3>2, FS_Subset
    <3>4. /\ IsFiniteSet(Places(i, id))
          /\ Cardinality(Places(i, id)) <= Cardinality(Accepted(i, id))
      BY <1>1 DEF WorkerInv, Counted
    <3> HIDE DEF signed
    <3>5. Cardinality(Places(i, id)) <= Cardinality(signed)
      BY <3>1, <3>3, <3>4, FS_CardinalityType
    <3> QED BY <3>5 DEF signed
  <2> QED BY <2>2 DEF OnlySignedIsForwarded, Places
<1> QED BY <1>1, WorkerIsSound, PTL
=============================================================================
