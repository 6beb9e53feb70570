---------------------------- MODULE NestedProofs ----------------------------
(***************************************************************************)
(* Proofs about a dispatcher behind another: for every pair of programs,   *)
(* wherever and however often the inner dispatcher is registered, its      *)
(* handlers run in its place, and spans, errors and the failed-delivery    *)
(* event lead to the registration at fault.                                *)
(***************************************************************************)
EXTENDS Nested, SequenceTheorems, TLAPS

Phase == {"idle", "open", "running", "done", "dropped"}

-----------------------------------------------------------------------------
(* One dispatch under the contract, whichever of the two it is *)

Answered(regs, e, result, route) ==
  [matched |-> MatchOf(regs, e), result |-> result, route |-> route]

\* What a dispatch in phase p that ran the handlers r has of its delivery.
Dispatched(regs, e, p, r, o) ==
  /\ p \in Phase
  /\ r \in Seq(DOMAIN regs)
  /\ \A i, j \in DOMAIN r : r[i] = r[j] => i = j
  /\ Range(r) \subseteq Due(regs, e)
  /\ p = "idle" => r = <<>>
  /\ p = "running" => r # <<>>
  /\ p \notin {"idle", "done"} => e.meta_decodes
  /\ p # "done" => o = NoOutcome
  /\ p = "done" =>
       \/ o = Answered(regs, e, "Undecoded", 0) /\ ~ e.meta_decodes
       \/ o = Answered(regs, e, "Ok", 0) /\ e.meta_decodes /\ Range(r) = Due(regs, e)
       \/ \E x \in DOMAIN regs :
            /\ o = Answered(regs, e, "Failed", x) /\ e.meta_decodes
            /\ \/ r # <<>> /\ x = Last(r)
               \/ ~ Decodes(regs, e, x) /\ x \notin Range(r)

\* What it may do next: the phase, the handlers run and the outcome become p1,
\* r1 and o1.
Begins(regs, e, p, r, o, p1, r1, o1) ==
  /\ p = "idle" /\ r1 = r
  /\ \/ e.meta_decodes /\ p1 = "open" /\ o1 = o
     \/ ~ e.meta_decodes /\ p1 = "done" /\ o1 = Answered(regs, e, "Undecoded", 0)

GoesOn(regs, e, p, r, o, p1, r1, o1) ==
  /\ p = "open"
  /\ \E x \in Due(regs, e) \ Range(r) :
       \/ p1 = "running" /\ r1 = Append(r, x) /\ o1 = o
       \/ /\ ~ Decodes(regs, e, x)
          /\ p1 = "done" /\ r1 = r /\ o1 = Answered(regs, e, "Failed", x)

Ends(regs, e, p, r, o, p1, r1, o1) ==
  /\ p = "open" /\ Due(regs, e) \subseteq Range(r)
  /\ p1 = "done" /\ r1 = r /\ o1 = Answered(regs, e, "Ok", 0)

Continues(regs, e, p, r, o, p1, r1, o1) ==
  /\ p = "running" /\ r1 = r
  /\ \/ p1 = "open" /\ o1 = o
     \/ p1 = "done" /\ o1 = Answered(regs, e, "Failed", Last(r))

IsDropped(regs, e, p, r, o, p1, r1, o1) ==
  p = "running" /\ p1 = "dropped" /\ r1 = r /\ o1 = o

-----------------------------------------------------------------------------
(* The two together *)

NestedTyped ==
  /\ registrations \in Seq(Registration) /\ DOMAIN registrations \subseteq Place
  /\ inner_registrations \in Seq(Registration)
  /\ nested \subseteq {r \in DOMAIN registrations : registrations[r].input = Whole}
  /\ DOMAIN phase = {Outermost} /\ DOMAIN ran = {Outermost} /\ DOMAIN outcome = {Outermost}
  /\ env \in [{Outermost} -> Envelope]
  /\ DOMAIN inner_phase = Place /\ DOMAIN inner_ran = Place /\ DOMAIN inner_outcome = Place
  /\ inner_env = [r \in Place |-> Delivery]
  /\ wrapper \in {"none", "source", "transparent"}

OuterDispatched ==
  Dispatched(registrations, Delivery, phase[Outermost], ran[Outermost], outcome[Outermost])

InnerDispatched(r) ==
  Dispatched(inner_registrations, Delivery, inner_phase[r], inner_ran[r], inner_outcome[r])

\* The outer dispatch stands at r, or stopped there.
StandsAt(r) ==
  /\ ran[Outermost] # <<>> /\ Current = r
  /\ phase[Outermost] \in {"running", "dropped"}

FailedAt(r) == phase[Outermost] = "done" /\ outcome[Outermost].route = r

\* What the outer dispatch has of the one at place r: none that it has not
\* started, one under way where it stands, a failed one where it failed, and a
\* success wherever it went on.
Linked(r) ==
  IF r \notin Range(ran[Outermost]) \cap nested THEN inner_phase[r] = "idle"
  ELSE IF StandsAt(r)
    THEN phase[Outermost] = "running" => inner_phase[r] \in {"open", "running", "done"}
  ELSE /\ inner_phase[r] = "done"
       /\ inner_outcome[r].result = IF FailedAt(r) THEN "Failed" ELSE "Ok"

SpansTell ==
  span = [d \in {Outermost} \cup Place |->
    IF d = Outermost
      THEN IF phase[d] = "done" THEN {Recorded(outcome[d])} ELSE {}
      ELSE IF inner_phase[d] = "done" THEN {Recorded(inner_outcome[d])} ELSE {}]

\* The event is that of a delivery that failed, and names its action.
NamesTheAction(action) ==
  \/ action = {Delivery.action} \ {NoAction}
  \/ ~ Delivery.meta_decodes
  \/ wrapper = "transparent" /\ outcome[Outermost].route \notin nested

EventTells ==
  event # {} =>
    /\ phase[Outermost] = "done"
    /\ \A e \in event : NamesTheAction(e.action)

NestedInv ==
  /\ NestedTyped
  /\ OuterDispatched
  /\ \A r \in Place : InnerDispatched(r) /\ Linked(r)
  /\ SpansTell
  /\ EventTells

-----------------------------------------------------------------------------
(* A dispatch keeps to its delivery *)

LEMMA BeginsKeeps ==
  ASSUME NEW regs \in Seq(Registration), NEW e \in Envelope, NEW p, NEW r, NEW o,
         NEW p1, NEW r1, NEW o1,
         Dispatched(regs, e, p, r, o), Begins(regs, e, p, r, o, p1, r1, o1)
  PROVE  Dispatched(regs, e, p1, r1, o1)
BY DEF Dispatched, Begins, Phase

LEMMA DueAreRegistered ==
  ASSUME NEW regs \in Seq(Registration), NEW e \in Envelope
  PROVE  /\ Due(regs, e) \subseteq DOMAIN regs
         /\ e.meta_decodes \/ Due(regs, e) = {}
BY DEF Due, Routed, SpecificTo, KindWide, Naming, OfTier

\* The handler that starts is one more, and none that ran.
LEMMA OneMore ==
  ASSUME NEW S, NEW r \in Seq(S), NEW x \in S, x \notin Range(r),
         \A i, j \in DOMAIN r : r[i] = r[j] => i = j
  PROVE  /\ Append(r, x) \in Seq(S) /\ Append(r, x) # <<>> /\ Last(Append(r, x)) = x
         /\ Range(Append(r, x)) = Range(r) \cup {x}
         /\ \A i, j \in DOMAIN Append(r, x) : Append(r, x)[i] = Append(r, x)[j] => i = j
<1> DEFINE s == Append(r, x)
<1>1. /\ s \in Seq(S) /\ s # <<>> /\ Len(s) = Len(r) + 1 /\ s[Len(r) + 1] = x
      /\ \A i \in 1 .. Len(r) : s[i] = r[i]
  BY AppendProperties
<1>2. DOMAIN s = 1 .. Len(r) + 1 /\ DOMAIN r = 1 .. Len(r) /\ Len(r) \in Nat
  BY <1>1
<1> HIDE DEF s
<1>3. Last(s) = x
  BY <1>1 DEF Last
<1>4. Range(s) = Range(r) \cup {x}
  <2>1. \A i \in DOMAIN s : i \in DOMAIN r \/ i = Len(r) + 1
    BY <1>2
  <2>2. DOMAIN r \subseteq DOMAIN s /\ Len(r) + 1 \in DOMAIN s
    BY <1>2
  <2> QED BY <1>1, <1>2, <2>1, <2>2 DEF Range
<1>5. ASSUME NEW i \in DOMAIN s, NEW j \in DOMAIN s, s[i] = s[j]
      PROVE  i = j
  <2>1. \A k \in 1 .. Len(r) : s[k] \in Range(r)
    BY <1>1, <1>2 DEF Range
  <2> QED BY <1>1, <1>2, <1>5, <2>1
<1> QED BY <1>1, <1>3, <1>4, <1>5 DEF s

LEMMA GoesOnKeeps ==
  ASSUME NEW regs \in Seq(Registration), NEW e \in Envelope, NEW p, NEW r, NEW o,
         NEW p1, NEW r1, NEW o1,
         Dispatched(regs, e, p, r, o), GoesOn(regs, e, p, r, o, p1, r1, o1)
  PROVE  Dispatched(regs, e, p1, r1, o1)
<1>1. PICK x \in Due(regs, e) \ Range(r) :
        \/ p1 = "running" /\ r1 = Append(r, x) /\ o1 = o
        \/ /\ ~ Decodes(regs, e, x)
           /\ p1 = "done" /\ r1 = r /\ o1 = Answered(regs, e, "Failed", x)
  BY DEF GoesOn
<1>2. /\ x \in DOMAIN regs /\ e.meta_decodes /\ r \in Seq(DOMAIN regs) /\ p = "open"
      /\ o = NoOutcome
  BY <1>1, DueAreRegistered DEF Dispatched, GoesOn
<1>3. CASE p1 = "running" /\ r1 = Append(r, x) /\ o1 = o
  <2>1. /\ r1 \in Seq(DOMAIN regs) /\ r1 # <<>> /\ Range(r1) = Range(r) \cup {x}
        /\ \A i, j \in DOMAIN r1 : r1[i] = r1[j] => i = j
    BY <1>1, <1>2, <1>3, OneMore DEF Dispatched
  <2> QED BY <1>1, <1>2, <1>3, <2>1 DEF Dispatched, Phase
<1>4. CASE /\ ~ Decodes(regs, e, x)
           /\ p1 = "done" /\ r1 = r /\ o1 = Answered(regs, e, "Failed", x)
  BY <1>1, <1>2, <1>4 DEF Dispatched, Phase
<1> QED BY <1>1, <1>3, <1>4

LEMMA EndsKeeps ==
  ASSUME NEW regs \in Seq(Registration), NEW e \in Envelope, NEW p, NEW r, NEW o,
         NEW p1, NEW r1, NEW o1,
         Dispatched(regs, e, p, r, o), Ends(regs, e, p, r, o, p1, r1, o1)
  PROVE  Dispatched(regs, e, p1, r1, o1)
BY DEF Dispatched, Ends, Phase

LEMMA ContinuesKeeps ==
  ASSUME NEW regs \in Seq(Registration), NEW e \in Envelope, NEW p, NEW r, NEW o,
         NEW p1, NEW r1, NEW o1,
         Dispatched(regs, e, p, r, o), Continues(regs, e, p, r, o, p1, r1, o1)
  PROVE  Dispatched(regs, e, p1, r1, o1)
<1>1. r \in Seq(DOMAIN regs) /\ r # <<>> /\ e.meta_decodes
  BY DEF Dispatched, Continues
<1>2. Last(r) \in DOMAIN regs
  BY <1>1 DEF Last
<1> QED BY <1>1, <1>2 DEF Dispatched, Continues, Phase

LEMMA DropKeeps ==
  ASSUME NEW regs \in Seq(Registration), NEW e \in Envelope, NEW p, NEW r, NEW o,
         NEW p1, NEW r1, NEW o1,
         Dispatched(regs, e, p, r, o), IsDropped(regs, e, p, r, o, p1, r1, o1)
  PROVE  Dispatched(regs, e, p1, r1, o1)
BY DEF Dispatched, IsDropped, Phase

-----------------------------------------------------------------------------
(* The contract's two instances *)

LEMMA OuterReads ==
  /\ \A f : Outer!Range(f) = Range(f)
  /\ \A regs, e : Outer!Due(regs, e) = Due(regs, e)
  /\ \A regs, e : Outer!MatchOf(regs, e) = MatchOf(regs, e)
  /\ \A regs, e, r : Outer!Decodes(regs, e, r) <=> Decodes(regs, e, r)
<1>1. \A f : Outer!Range(f) = Range(f)
  BY DEF Outer!Range, Range
<1>2. \A regs, t : Outer!OfTier(regs, t) = OfTier(regs, t)
  BY DEF Outer!OfTier, OfTier
<1>3. \A regs, slot : Outer!Naming(regs, slot) = Naming(regs, slot)
  BY <1>2 DEF Outer!Naming, Naming
<1>4. /\ \A regs, k : Outer!KindWide(regs, k) = KindWide(regs, k)
      /\ \A regs, k, a : Outer!SpecificTo(regs, k, a) = SpecificTo(regs, k, a)
      /\ \A regs : Outer!KindsNamed(regs) = KindsNamed(regs)
  BY <1>2, <1>3 DEF Outer!KindWide, KindWide, Outer!SpecificTo, SpecificTo,
                    Outer!KindsNamed, KindsNamed
<1>5. \A regs, e : Outer!Routed(regs, e) = Routed(regs, e)
  BY <1>4 DEF Outer!Routed, Routed
<1>6. /\ \A regs, e : Outer!MatchOf(regs, e) = MatchOf(regs, e)
      /\ \A regs, e : Outer!Due(regs, e) = Due(regs, e)
  BY <1>2, <1>4, <1>5 DEF Outer!MatchOf, MatchOf, Outer!Due, Due
<1>7. \A regs, e, r : Outer!Decodes(regs, e, r) <=> Decodes(regs, e, r)
  BY DEF Outer!Decodes, Decodes
<1> QED BY <1>1, <1>6, <1>7

LEMMA InnerReads ==
  /\ \A f : Inner!Range(f) = Range(f)
  /\ \A regs, e : Inner!Due(regs, e) = Due(regs, e)
  /\ \A regs, e : Inner!MatchOf(regs, e) = MatchOf(regs, e)
  /\ \A regs, e, r : Inner!Decodes(regs, e, r) <=> Decodes(regs, e, r)
<1>1. \A f : Inner!Range(f) = Range(f)
  BY DEF Inner!Range, Range
<1>2. \A regs, t : Inner!OfTier(regs, t) = OfTier(regs, t)
  BY DEF Inner!OfTier, OfTier
<1>3. \A regs, slot : Inner!Naming(regs, slot) = Naming(regs, slot)
  BY <1>2 DEF Inner!Naming, Naming
<1>4. /\ \A regs, k : Inner!KindWide(regs, k) = KindWide(regs, k)
      /\ \A regs, k, a : Inner!SpecificTo(regs, k, a) = SpecificTo(regs, k, a)
      /\ \A regs : Inner!KindsNamed(regs) = KindsNamed(regs)
  BY <1>2, <1>3 DEF Inner!KindWide, KindWide, Inner!SpecificTo, SpecificTo,
                    Inner!KindsNamed, KindsNamed
<1>5. \A regs, e : Inner!Routed(regs, e) = Routed(regs, e)
  BY <1>4 DEF Inner!Routed, Routed
<1>6. /\ \A regs, e : Inner!MatchOf(regs, e) = MatchOf(regs, e)
      /\ \A regs, e : Inner!Due(regs, e) = Due(regs, e)
  BY <1>2, <1>4, <1>5 DEF Inner!MatchOf, MatchOf, Inner!Due, Due
<1>7. \A regs, e, r : Inner!Decodes(regs, e, r) <=> Decodes(regs, e, r)
  BY DEF Inner!Decodes, Decodes
<1> QED BY <1>1, <1>6, <1>7

OuterKept ==
  /\ registrations' = registrations /\ env' = env
  /\ DOMAIN phase' = {Outermost} /\ DOMAIN ran' = {Outermost}
  /\ DOMAIN outcome' = {Outermost}

\* The dispatch at c and no other moved.
InnerOnly(c) ==
  /\ inner_registrations' = inner_registrations /\ inner_env' = inner_env
  /\ DOMAIN inner_phase' = Place /\ DOMAIN inner_ran' = Place
  /\ DOMAIN inner_outcome' = Place
  /\ \A r \in Place \ {c} : /\ inner_phase'[r] = inner_phase[r]
                            /\ inner_ran'[r] = inner_ran[r]
                            /\ inner_outcome'[r] = inner_outcome[r]

LEMMA OuterBegins ==
  ASSUME NestedTyped, Outer!Begin(Outermost), env' = env
  PROVE  /\ OuterKept
         /\ Begins(registrations, Delivery, phase[Outermost], ran[Outermost],
              outcome[Outermost], phase'[Outermost], ran'[Outermost], outcome'[Outermost])
<1>1. PICK e \in Outer!Envelope :
        /\ env' = [env EXCEPT ![Outermost] = e]
        /\ \/ /\ e.meta_decodes /\ phase' = [phase EXCEPT ![Outermost] = "open"]
              /\ outcome' = outcome
           \/ /\ ~ e.meta_decodes /\ phase' = [phase EXCEPT ![Outermost] = "done"]
              /\ outcome' = [outcome EXCEPT ![Outermost] =
                   Answered(registrations, e, "Undecoded", 0)]
  BY OuterReads DEF Outer!Begin, Outer!Move, Outer!Answer, Answered
<1>2. e = Delivery
  BY <1>1 DEF NestedTyped, Delivery
<1>3. phase[Outermost] = "idle" /\ registrations' = registrations /\ ran' = ran
  BY DEF Outer!Begin
<1> QED BY <1>1, <1>2, <1>3 DEF NestedTyped, OuterKept, Begins

LEMMA OuterGoesOn ==
  ASSUME NestedTyped, Outer!Run(Outermost)
  PROVE  /\ OuterKept
         /\ GoesOn(registrations, Delivery, phase[Outermost], ran[Outermost],
              outcome[Outermost], phase'[Outermost], ran'[Outermost], outcome'[Outermost])
<1>1. PICK x \in Due(registrations, Delivery) \ Range(ran[Outermost]) :
        \/ /\ phase' = [phase EXCEPT ![Outermost] = "running"]
           /\ ran' = [ran EXCEPT ![Outermost] = Append(@, x)] /\ outcome' = outcome
        \/ /\ ~ Decodes(registrations, Delivery, x)
           /\ phase' = [phase EXCEPT ![Outermost] = "done"]
           /\ outcome' = [outcome EXCEPT ![Outermost] =
                Answered(registrations, Delivery, "Failed", x)]
           /\ ran' = ran
  BY OuterReads DEF Outer!Run, Outer!Remaining, Outer!Move, Outer!Answer, Answered, Delivery
<1>2. phase[Outermost] = "open" /\ registrations' = registrations /\ env' = env
  BY DEF Outer!Run
<1> DEFINE o == Answered(registrations, Delivery, "Failed", x)
<1> HIDE DEF o
<1>3. CASE /\ phase' = [phase EXCEPT ![Outermost] = "running"]
           /\ ran' = [ran EXCEPT ![Outermost] = Append(@, x)] /\ outcome' = outcome
  BY <1>2, <1>3 DEF NestedTyped, OuterKept, GoesOn
<1>4. CASE /\ ~ Decodes(registrations, Delivery, x)
           /\ phase' = [phase EXCEPT ![Outermost] = "done"]
           /\ outcome' = [outcome EXCEPT ![Outermost] =
                Answered(registrations, Delivery, "Failed", x)]
           /\ ran' = ran
  <2>1. outcome' = [outcome EXCEPT ![Outermost] = o]
    BY <1>4 DEF o
  <2>2. phase'[Outermost] = "done" /\ outcome'[Outermost] = o /\ OuterKept
    BY <1>2, <1>4, <2>1 DEF NestedTyped, OuterKept
  <2> QED BY <1>2, <1>4, <2>2 DEF GoesOn, o
<1> QED BY <1>1, <1>3, <1>4

LEMMA OuterEnds ==
  ASSUME NestedTyped, Outer!Succeed(Outermost)
  PROVE  /\ OuterKept
         /\ Ends(registrations, Delivery, phase[Outermost], ran[Outermost],
              outcome[Outermost], phase'[Outermost], ran'[Outermost], outcome'[Outermost])
BY OuterReads DEF NestedTyped, OuterKept, Ends, Outer!Succeed, Outer!Remaining, Outer!Move,
                  Outer!Answer, Answered, Delivery

LEMMA OuterContinues ==
  ASSUME NestedTyped, Outer!HandlerReturns(Outermost)
  PROVE  /\ OuterKept
         /\ Continues(registrations, Delivery, phase[Outermost], ran[Outermost],
              outcome[Outermost], phase'[Outermost], ran'[Outermost], outcome'[Outermost])
BY OuterReads DEF NestedTyped, OuterKept, Continues, Outer!HandlerReturns, Outer!Move,
                  Outer!Answer, Answered, Delivery, Last

LEMMA OuterDrops ==
  ASSUME NestedTyped, Outer!Drop(Outermost)
  PROVE  /\ OuterKept
         /\ IsDropped(registrations, Delivery, phase[Outermost], ran[Outermost],
              outcome[Outermost], phase'[Outermost], ran'[Outermost], outcome'[Outermost])
BY DEF NestedTyped, OuterKept, IsDropped, Outer!Drop, Outer!Move

LEMMA InnerBegins ==
  ASSUME NestedTyped, NEW c \in Place, Inner!Begin(c), inner_env' = inner_env
  PROVE  /\ InnerOnly(c)
         /\ Begins(inner_registrations, Delivery, inner_phase[c], inner_ran[c],
              inner_outcome[c], inner_phase'[c], inner_ran'[c], inner_outcome'[c])
<1>1. PICK e \in Inner!Envelope :
        /\ inner_env' = [inner_env EXCEPT ![c] = e]
        /\ \/ /\ e.meta_decodes /\ inner_phase' = [inner_phase EXCEPT ![c] = "open"]
              /\ inner_outcome' = inner_outcome
           \/ /\ ~ e.meta_decodes /\ inner_phase' = [inner_phase EXCEPT ![c] = "done"]
              /\ inner_outcome' = [inner_outcome EXCEPT ![c] =
                   Answered(inner_registrations, e, "Undecoded", 0)]
  BY InnerReads DEF Inner!Begin, Inner!Move, Inner!Answer, Answered
<1>2. e = Delivery
  BY <1>1 DEF NestedTyped
<1>3. /\ inner_phase[c] = "idle" /\ inner_registrations' = inner_registrations
      /\ inner_ran' = inner_ran
  BY DEF Inner!Begin
<1> QED BY <1>1, <1>2, <1>3 DEF NestedTyped, InnerOnly, Begins

LEMMA InnerGoesOn ==
  ASSUME NestedTyped, NEW c \in Place, Inner!Run(c)
  PROVE  /\ InnerOnly(c)
         /\ GoesOn(inner_registrations, Delivery, inner_phase[c], inner_ran[c],
              inner_outcome[c], inner_phase'[c], inner_ran'[c], inner_outcome'[c])
<1>1. inner_env[c] = Delivery
  BY DEF NestedTyped
<1>2. PICK x \in Due(inner_registrations, Delivery) \ Range(inner_ran[c]) :
        \/ /\ inner_phase' = [inner_phase EXCEPT ![c] = "running"]
           /\ inner_ran' = [inner_ran EXCEPT ![c] = Append(@, x)]
           /\ inner_outcome' = inner_outcome
        \/ /\ ~ Decodes(inner_registrations, Delivery, x)
           /\ inner_phase' = [inner_phase EXCEPT ![c] = "done"]
           /\ inner_outcome' = [inner_outcome EXCEPT ![c] =
                Answered(inner_registrations, Delivery, "Failed", x)]
           /\ inner_ran' = inner_ran
  BY <1>1, InnerReads DEF Inner!Run, Inner!Remaining, Inner!Move, Inner!Answer, Answered
<1>3. /\ inner_phase[c] = "open" /\ inner_registrations' = inner_registrations
      /\ inner_env' = inner_env
  BY DEF Inner!Run
<1> DEFINE o == Answered(inner_registrations, Delivery, "Failed", x)
<1> HIDE DEF o
<1>4. CASE /\ inner_phase' = [inner_phase EXCEPT ![c] = "running"]
           /\ inner_ran' = [inner_ran EXCEPT ![c] = Append(@, x)]
           /\ inner_outcome' = inner_outcome
  BY <1>3, <1>4 DEF NestedTyped, InnerOnly, GoesOn
<1>5. CASE /\ ~ Decodes(inner_registrations, Delivery, x)
           /\ inner_phase' = [inner_phase EXCEPT ![c] = "done"]
           /\ inner_outcome' = [inner_outcome EXCEPT ![c] =
                Answered(inner_registrations, Delivery, "Failed", x)]
           /\ inner_ran' = inner_ran
  <2>1. inner_outcome' = [inner_outcome EXCEPT ![c] = o]
    BY <1>5 DEF o
  <2>2. inner_phase'[c] = "done" /\ inner_outcome'[c] = o /\ InnerOnly(c)
    BY <1>3, <1>5, <2>1 DEF NestedTyped, InnerOnly
  <2> QED BY <1>3, <1>5, <2>2 DEF GoesOn, o
<1> QED BY <1>2, <1>4, <1>5

LEMMA InnerEnds ==
  ASSUME NestedTyped, NEW c \in Place, Inner!Succeed(c)
  PROVE  /\ InnerOnly(c)
         /\ Ends(inner_registrations, Delivery, inner_phase[c], inner_ran[c],
              inner_outcome[c], inner_phase'[c], inner_ran'[c], inner_outcome'[c])
<1>1. inner_env[c] = Delivery
  BY DEF NestedTyped
<1> QED BY <1>1, InnerReads
        DEF NestedTyped, InnerOnly, Ends, Inner!Succeed, Inner!Remaining, Inner!Move,
            Inner!Answer, Answered

LEMMA InnerContinues ==
  ASSUME NestedTyped, NEW c \in Place, Inner!HandlerReturns(c)
  PROVE  /\ InnerOnly(c)
         /\ Continues(inner_registrations, Delivery, inner_phase[c], inner_ran[c],
              inner_outcome[c], inner_phase'[c], inner_ran'[c], inner_outcome'[c])
<1>1. inner_env[c] = Delivery
  BY DEF NestedTyped
<1> QED BY <1>1, InnerReads
        DEF NestedTyped, InnerOnly, Continues, Inner!HandlerReturns, Inner!Move,
            Inner!Answer, Answered, Last

LEMMA InnerDrops ==
  ASSUME NestedTyped, NEW c \in Place, Inner!Drop(c)
  PROVE  /\ InnerOnly(c)
         /\ IsDropped(inner_registrations, Delivery, inner_phase[c], inner_ran[c],
              inner_outcome[c], inner_phase'[c], inner_ran'[c], inner_outcome'[c])
BY DEF NestedTyped, InnerOnly, IsDropped, Inner!Drop, Inner!Move

-----------------------------------------------------------------------------
(* What a step carries over *)

LEMMA Facts ==
  ASSUME NestedInv
  PROVE  /\ NestedTyped /\ OuterDispatched /\ SpansTell /\ EventTells
         /\ \A r \in Place : InnerDispatched(r) /\ Linked(r)
         /\ Delivery \in Envelope
         /\ registrations \in Seq(Registration) /\ inner_registrations \in Seq(Registration)
         /\ nested \subseteq Place /\ Outermost \notin Place
         /\ ran[Outermost] \in Seq(Place)
<1>1. NestedTyped /\ OuterDispatched
  BY DEF NestedInv
<1>2. nested \subseteq Place /\ Delivery \in Envelope
  BY <1>1 DEF NestedTyped, Delivery
<1>3. Outermost \notin Place
  BY PlacesAssumption DEF Outermost
<1>4. ran[Outermost] \in Seq(Place)
  BY <1>1 DEF NestedTyped, OuterDispatched, Dispatched
<1> QED BY <1>1, <1>2, <1>3, <1>4 DEF NestedInv, NestedTyped

LEMMA TypedKept ==
  ASSUME NestedTyped, UNCHANGED <<nested, wrapper>>,
         OuterKept \/ UNCHANGED outerVars,
         (\E c \in Place : InnerOnly(c)) \/ UNCHANGED innerVars
  PROVE  NestedTyped'
BY DEF NestedTyped, OuterKept, InnerOnly, outerVars, innerVars, Delivery

LEMMA OuterStep ==
  ASSUME NestedInv, OuterKept,
         \/ Begins(registrations, Delivery, phase[Outermost], ran[Outermost],
              outcome[Outermost], phase'[Outermost], ran'[Outermost], outcome'[Outermost])
         \/ GoesOn(registrations, Delivery, phase[Outermost], ran[Outermost],
              outcome[Outermost], phase'[Outermost], ran'[Outermost], outcome'[Outermost])
         \/ Ends(registrations, Delivery, phase[Outermost], ran[Outermost],
              outcome[Outermost], phase'[Outermost], ran'[Outermost], outcome'[Outermost])
         \/ Continues(registrations, Delivery, phase[Outermost], ran[Outermost],
              outcome[Outermost], phase'[Outermost], ran'[Outermost], outcome'[Outermost])
         \/ IsDropped(registrations, Delivery, phase[Outermost], ran[Outermost],
              outcome[Outermost], phase'[Outermost], ran'[Outermost], outcome'[Outermost])
  PROVE  OuterDispatched'
<1>1. Dispatched(registrations, Delivery, phase[Outermost], ran[Outermost], outcome[Outermost])
  BY Facts DEF OuterDispatched
<1>2. Dispatched(registrations, Delivery, phase'[Outermost], ran'[Outermost], outcome'[Outermost])
  BY <1>1, Facts, BeginsKeeps, GoesOnKeeps, EndsKeeps, ContinuesKeeps, DropKeeps
<1>3. registrations' = registrations /\ Delivery' = Delivery
  BY DEF OuterKept, Delivery
<1> QED BY <1>2, <1>3 DEF OuterDispatched

LEMMA InnerStep ==
  ASSUME NestedInv, env' = env, NEW c \in Place, InnerOnly(c),
         \/ Begins(inner_registrations, Delivery, inner_phase[c], inner_ran[c],
              inner_outcome[c], inner_phase'[c], inner_ran'[c], inner_outcome'[c])
         \/ GoesOn(inner_registrations, Delivery, inner_phase[c], inner_ran[c],
              inner_outcome[c], inner_phase'[c], inner_ran'[c], inner_outcome'[c])
         \/ Ends(inner_registrations, Delivery, inner_phase[c], inner_ran[c],
              inner_outcome[c], inner_phase'[c], inner_ran'[c], inner_outcome'[c])
         \/ Continues(inner_registrations, Delivery, inner_phase[c], inner_ran[c],
              inner_outcome[c], inner_phase'[c], inner_ran'[c], inner_outcome'[c])
         \/ IsDropped(inner_registrations, Delivery, inner_phase[c], inner_ran[c],
              inner_outcome[c], inner_phase'[c], inner_ran'[c], inner_outcome'[c])
  PROVE  \A r \in Place : InnerDispatched(r)'
<1>1. Dispatched(inner_registrations, Delivery, inner_phase[c], inner_ran[c], inner_outcome[c])
  BY Facts DEF InnerDispatched
<1>2. Dispatched(inner_registrations, Delivery, inner_phase'[c], inner_ran'[c], inner_outcome'[c])
  BY <1>1, Facts, BeginsKeeps, GoesOnKeeps, EndsKeeps, ContinuesKeeps, DropKeeps
<1>3. inner_registrations' = inner_registrations /\ Delivery' = Delivery
  BY DEF InnerOnly, Delivery
<1>4. InnerDispatched(c)'
  BY <1>2, <1>3 DEF InnerDispatched
<1>5. ASSUME NEW r \in Place \ {c}
      PROVE  InnerDispatched(r)'
  BY <1>3, Facts DEF InnerDispatched, InnerOnly
<1> QED BY <1>4, <1>5

LEMMA InnerStays ==
  ASSUME NestedInv, env' = env, UNCHANGED innerVars
  PROVE  \A r \in Place : InnerDispatched(r)'
BY Facts DEF InnerDispatched, innerVars, Delivery

\* A step that is not the report's finds no event and leaves none.
LEMMA NoEventYet ==
  ASSUME NestedInv, phase[Outermost] # "done", event' = event
  PROVE  EventTells'
BY Facts DEF EventTells

LEMMA SpansFollow == RecordSpans => SpansTell'
BY DEF RecordSpans, SpansTell

LEMMA OuterIs ==
  ASSUME NestedInv
  PROVE  /\ ran[Outermost] \in Seq(Place)
         /\ ran[Outermost] # <<>> => Current \in Range(ran[Outermost])
         /\ Range(<<>>) = {}
<1>1. ran[Outermost] \in Seq(Place)
  BY Facts
<1>2. ran[Outermost] # <<>> => Len(ran[Outermost]) \in DOMAIN ran[Outermost]
  BY <1>1
<1> QED BY <1>1, <1>2 DEF Range, Current, Last

-----------------------------------------------------------------------------
(* The steps *)

LEMMA DispatchInv ==
  ASSUME NestedInv, Dispatch
  PROVE  NestedInv'
<1>1. /\ OuterKept
      /\ Begins(registrations, Delivery, phase[Outermost], ran[Outermost], outcome[Outermost],
           phase'[Outermost], ran'[Outermost], outcome'[Outermost])
      /\ UNCHANGED <<innerVars, nested, wrapper, event>> /\ RecordSpans /\ env' = env
  BY OuterBegins, Facts DEF Dispatch
<1>2. phase[Outermost] = "idle" /\ ran[Outermost] = <<>> /\ ran'[Outermost] = <<>>
  BY <1>1, Facts DEF Begins, OuterDispatched, Dispatched
<1>3. \A r \in Place : Linked(r)'
  BY <1>1, <1>2, Facts, OuterIs DEF Linked, innerVars
<1>4. NestedTyped' /\ OuterDispatched' /\ \A r \in Place : InnerDispatched(r)'
  BY <1>1, Facts, TypedKept, OuterStep, InnerStays
<1> QED BY <1>1, <1>2, <1>3, <1>4, NoEventYet, SpansFollow DEF NestedInv

\* A registration that starts is new to the dispatch, and one in which the inner
\* dispatcher stands begins a dispatch there, whose event meta decodes.
LEMMA StartHandlerInv ==
  ASSUME NestedInv, StartHandler
  PROVE  NestedInv'
<1>1. /\ OuterKept
      /\ GoesOn(registrations, Delivery, phase[Outermost], ran[Outermost], outcome[Outermost],
           phase'[Outermost], ran'[Outermost], outcome'[Outermost])
      /\ UNCHANGED <<nested, wrapper, event>> /\ RecordSpans /\ env' = env
  BY OuterGoesOn, Facts DEF StartHandler, OuterKept
<1>2. phase[Outermost] = "open" /\ Delivery.meta_decodes
  BY <1>1, Facts DEF GoesOn, OuterDispatched, Dispatched
<1>3. OuterDispatched'
  BY <1>1, OuterStep
<1>4. ASSUME NEW r \in Range(ran[Outermost]) \cap nested
      PROVE  /\ r \in Place
             /\ inner_phase[r] = "done" /\ inner_outcome[r].result = "Ok"
  BY <1>2, Facts DEF Linked, StandsAt, FailedAt
<1>5. PICK x \in Due(registrations, Delivery) \ Range(ran[Outermost]) :
        \/ /\ phase'[Outermost] = "running"
           /\ ran'[Outermost] = Append(ran[Outermost], x)
           /\ outcome'[Outermost] = outcome[Outermost]
        \/ /\ phase'[Outermost] = "done" /\ ran'[Outermost] = ran[Outermost]
           /\ outcome'[Outermost] = Answered(registrations, Delivery, "Failed", x)
  BY <1>1 DEF GoesOn
<1>6. x \in Place
  BY Facts, DueAreRegistered DEF NestedTyped
<1>7. CASE /\ phase'[Outermost] = "running"
           /\ ran'[Outermost] = Append(ran[Outermost], x)
  <2>1. /\ ran'[Outermost] # <<>> /\ Last(ran'[Outermost]) = x
        /\ Range(ran'[Outermost]) = Range(ran[Outermost]) \cup {x}
    BY <1>5, <1>6, <1>7, Facts, OneMore DEF OuterDispatched, Dispatched
  <2>2. \A r \in Place : StandsAt(r)' <=> r = x
    BY <1>7, <2>1 DEF StandsAt, Current
  <2>3. \A r \in Place : ~ FailedAt(r)'
    BY <1>7 DEF FailedAt
  <2>4. CASE x \in nested
    <3>1. Inner!Begin(x) /\ inner_env' = inner_env
      BY <1>7, <2>1, <2>4 DEF StartHandler
    <3>2. /\ InnerOnly(x)
          /\ Begins(inner_registrations, Delivery, inner_phase[x], inner_ran[x],
               inner_outcome[x], inner_phase'[x], inner_ran'[x], inner_outcome'[x])
      BY <1>6, <3>1, Facts, InnerBegins
    <3>3. inner_phase'[x] = "open"
      BY <1>2, <3>2 DEF Begins
    <3>4. ASSUME NEW r \in Place
          PROVE  Linked(r)'
      <4>1. CASE r = x
        BY <1>1, <1>7, <2>1, <2>2, <2>4, <3>3, <4>1 DEF Linked
      <4>2. CASE r # x /\ r \in Range(ran[Outermost]) \cap nested
        BY <1>1, <1>4, <2>1, <2>2, <2>3, <3>2, <4>2 DEF Linked, InnerOnly
      <4>3. CASE r # x /\ r \notin Range(ran[Outermost]) \cap nested
        BY <1>1, <2>1, <3>2, <4>3, Facts DEF Linked, InnerOnly
      <4> QED BY <4>1, <4>2, <4>3
    <3>5. NestedTyped' /\ \A r \in Place : InnerDispatched(r)'
      BY <1>1, <1>6, <3>2, Facts, TypedKept, InnerStep
    <3> QED BY <1>1, <1>2, <1>3, <3>4, <3>5, NoEventYet, SpansFollow DEF NestedInv
  <2>5. CASE x \notin nested
    <3>1. UNCHANGED innerVars
      BY <2>1, <2>5 DEF StartHandler
    <3>2. ASSUME NEW r \in Place
          PROVE  Linked(r)'
      <4>1. CASE r \in Range(ran[Outermost]) \cap nested
        BY <1>1, <1>4, <1>5, <2>1, <2>2, <2>3, <3>1, <4>1 DEF Linked, innerVars
      <4>2. CASE r \notin Range(ran[Outermost]) \cap nested
        BY <1>1, <2>1, <2>5, <3>1, <4>2, Facts DEF Linked, innerVars
      <4> QED BY <4>1, <4>2
    <3>3. NestedTyped' /\ \A r \in Place : InnerDispatched(r)'
      BY <1>1, <3>1, Facts, TypedKept, InnerStays
    <3> QED BY <1>1, <1>2, <1>3, <3>2, <3>3, NoEventYet, SpansFollow DEF NestedInv
  <2> QED BY <2>4, <2>5
<1>8. CASE /\ phase'[Outermost] = "done" /\ ran'[Outermost] = ran[Outermost]
           /\ outcome'[Outermost] = Answered(registrations, Delivery, "Failed", x)
  <2>1. UNCHANGED innerVars
    BY <1>8 DEF StartHandler
  <2>2. outcome'[Outermost].route = x
    BY <1>8 DEF Answered
  <2>3. \A r \in Place : ~ StandsAt(r)' /\ (FailedAt(r)' => r = x)
    BY <1>8, <2>2 DEF StandsAt, FailedAt
  <2>4. ASSUME NEW r \in Place
        PROVE  Linked(r)'
    <3>1. CASE r \in Range(ran[Outermost]) \cap nested
      BY <1>1, <1>4, <1>5, <1>8, <2>1, <2>3, <3>1 DEF Linked, innerVars
    <3>2. CASE r \notin Range(ran[Outermost]) \cap nested
      BY <1>1, <1>8, <2>1, <3>2, Facts DEF Linked, innerVars
    <3> QED BY <3>1, <3>2
  <2>5. NestedTyped' /\ \A r \in Place : InnerDispatched(r)'
    BY <1>1, <2>1, Facts, TypedKept, InnerStays
  <2> QED BY <1>1, <1>2, <1>3, <2>4, <2>5, NoEventYet, SpansFollow DEF NestedInv
<1> QED BY <1>5, <1>7, <1>8

\* Where the outer dispatch runs a registration, the ones before it succeeded.
LEMMA AtCurrent ==
  ASSUME NestedInv, phase[Outermost] = "running"
  PROVE  /\ Current \in Place /\ Current \in Range(ran[Outermost])
         /\ Delivery.meta_decodes
         /\ Current \in nested => inner_phase[Current] \in {"open", "running", "done"}
         /\ \A r \in Range(ran[Outermost]) \cap nested :
              /\ r \in Place
              /\ r # Current => inner_phase[r] = "done" /\ inner_outcome[r].result = "Ok"
         /\ \A r \in Place : r \notin Range(ran[Outermost]) \cap nested => inner_phase[r] = "idle"
<1>1. ran[Outermost] # <<>> /\ Delivery.meta_decodes
  BY Facts DEF OuterDispatched, Dispatched
<1>2. Current \in Place /\ Current \in Range(ran[Outermost])
  <2>1. Len(ran[Outermost]) \in DOMAIN ran[Outermost] /\ ran[Outermost] \in Seq(Place)
    BY <1>1, OuterIs
  <2> QED BY <1>1, <2>1, OuterIs DEF Current, Last
<1>3. \A r \in Place : (StandsAt(r) <=> r = Current) /\ ~ FailedAt(r)
  BY <1>1 DEF StandsAt, FailedAt
<1> QED BY <1>1, <1>2, <1>3, Facts DEF Linked

\* The registration that runs returns, and is the last to have run either way.
LEMMA ReturnsLinked ==
  ASSUME NestedInv, env' = env, OuterKept, nested' = nested, UNCHANGED innerVars,
         Continues(registrations, Delivery, phase[Outermost], ran[Outermost],
           outcome[Outermost], phase'[Outermost], ran'[Outermost], outcome'[Outermost]),
         Current \in nested =>
           /\ inner_phase[Current] = "done"
           /\ phase'[Outermost] = "open" <=> inner_outcome[Current].result = "Ok"
  PROVE  \A r \in Place : Linked(r)'
<1>1. phase[Outermost] = "running" /\ ran'[Outermost] = ran[Outermost]
  BY DEF Continues
<1>2. \/ phase'[Outermost] = "open" /\ \A r \in Place : ~ StandsAt(r)' /\ ~ FailedAt(r)'
      \/ /\ phase'[Outermost] = "done"
         /\ \A r \in Place : ~ StandsAt(r)' /\ (FailedAt(r)' <=> r = Current)
  BY DEF Continues, Answered, StandsAt, FailedAt, Current
<1>3. Current \in nested => inner_outcome[Current].result \in {"Ok", "Failed"}
  <2> SUFFICES ASSUME Current \in nested
               PROVE  inner_outcome[Current].result \in {"Ok", "Failed"}
    OBVIOUS
  <2> DEFINE o == inner_outcome[Current]
  <2>1. InnerDispatched(Current) /\ inner_phase[Current] = "done" /\ Delivery.meta_decodes
    BY <1>1, Facts, AtCurrent
  <2>2. \/ o = Answered(inner_registrations, Delivery, "Ok", 0)
        \/ \E x : o = Answered(inner_registrations, Delivery, "Failed", x)
    BY <2>1 DEF InnerDispatched, Dispatched
  <2> HIDE DEF o
  <2>3. o.result \in {"Ok", "Failed"}
    BY <2>2 DEF Answered
  <2> QED BY <2>3 DEF o
<1>4. ASSUME NEW r \in Place
      PROVE  Linked(r)'
  <2>1. CASE r \notin Range(ran[Outermost]) \cap nested
    BY <1>1, <2>1, AtCurrent DEF Linked, innerVars
  <2>2. CASE r \in Range(ran[Outermost]) \cap nested /\ r # Current
    BY <1>1, <1>2, <2>2, AtCurrent DEF Linked, innerVars
  <2>3. CASE r \in Range(ran[Outermost]) \cap nested /\ r = Current
    BY <1>1, <1>2, <1>3, <2>3 DEF Linked, innerVars
  <2> QED BY <2>1, <2>2, <2>3
<1> QED BY <1>4

LEMMA HandlerReturnsInv ==
  ASSUME NestedInv, HandlerReturns
  PROVE  NestedInv'
<1>1. /\ OuterKept /\ env' = env
      /\ Continues(registrations, Delivery, phase[Outermost], ran[Outermost],
           outcome[Outermost], phase'[Outermost], ran'[Outermost], outcome'[Outermost])
      /\ UNCHANGED <<innerVars, nested, wrapper, event>> /\ RecordSpans
  BY OuterContinues, Facts DEF HandlerReturns, OuterKept
<1>2. phase[Outermost] = "running" /\ Current \notin nested
  BY <1>1 DEF Continues, HandlerReturns, AwaitsInner
<1>3. \A r \in Place : Linked(r)'
  BY <1>1, <1>2, ReturnsLinked
<1>4. NestedTyped' /\ OuterDispatched' /\ \A r \in Place : InnerDispatched(r)'
  BY <1>1, Facts, TypedKept, OuterStep, InnerStays
<1> QED BY <1>1, <1>2, <1>3, <1>4, NoEventYet, SpansFollow DEF NestedInv

LEMMA InnerReturnsInv ==
  ASSUME NestedInv, InnerReturns
  PROVE  NestedInv'
<1>1. /\ OuterKept /\ env' = env
      /\ Continues(registrations, Delivery, phase[Outermost], ran[Outermost],
           outcome[Outermost], phase'[Outermost], ran'[Outermost], outcome'[Outermost])
      /\ UNCHANGED <<innerVars, nested, wrapper, event>> /\ RecordSpans
  BY OuterContinues, Facts DEF InnerReturns, OuterKept
<1>2. /\ phase[Outermost] = "running" /\ inner_phase[Current] = "done"
      /\ phase'[Outermost] = "open" <=> inner_outcome[Current].result = "Ok"
  BY DEF InnerReturns, AwaitsInner, Handle
<1>3. \A r \in Place : Linked(r)'
  BY <1>1, <1>2, ReturnsLinked
<1>4. NestedTyped' /\ OuterDispatched' /\ \A r \in Place : InnerDispatched(r)'
  BY <1>1, Facts, TypedKept, OuterStep, InnerStays
<1> QED BY <1>1, <1>2, <1>3, <1>4, NoEventYet, SpansFollow DEF NestedInv

\* The inner dispatch goes on where the outer one awaits it.
LEMMA InnerMovesInv ==
  ASSUME NestedInv, InnerProceeds \/ InnerHandlerReturns
  PROVE  NestedInv'
<1>1. /\ phase[Outermost] = "running" /\ Current \in nested /\ Current \in Place
      /\ UNCHANGED <<outerVars, nested, wrapper, event>> /\ RecordSpans
      /\ phase' = phase /\ ran' = ran /\ outcome' = outcome /\ env' = env
      /\ registrations' = registrations
  BY Facts DEF InnerProceeds, InnerHandlerReturns, AwaitsInner, outerVars
<1>2. /\ InnerOnly(Current)
      /\ \/ GoesOn(inner_registrations, Delivery, inner_phase[Current], inner_ran[Current],
              inner_outcome[Current], inner_phase'[Current], inner_ran'[Current],
              inner_outcome'[Current])
         \/ Ends(inner_registrations, Delivery, inner_phase[Current], inner_ran[Current],
              inner_outcome[Current], inner_phase'[Current], inner_ran'[Current],
              inner_outcome'[Current])
         \/ Continues(inner_registrations, Delivery, inner_phase[Current], inner_ran[Current],
              inner_outcome[Current], inner_phase'[Current], inner_ran'[Current],
              inner_outcome'[Current])
  BY <1>1, Facts, InnerGoesOn, InnerEnds, InnerContinues DEF InnerProceeds, InnerHandlerReturns
<1>3. inner_phase'[Current] \in {"open", "running", "done"}
  BY <1>2 DEF GoesOn, Ends, Continues
<1>4. ASSUME NEW r \in Place
      PROVE  Linked(r)'
  <2>1. /\ StandsAt(r)' <=> r = Current
        /\ ~ FailedAt(r)'
    <3>1. ran[Outermost] # <<>>
      BY <1>1, Facts DEF OuterDispatched, Dispatched
    <3> QED BY <1>1, <3>1 DEF StandsAt, FailedAt, Current
  <2>2. CASE r = Current
    BY <1>1, <1>3, <2>1, <2>2, AtCurrent DEF Linked
  <2>3. CASE r # Current
    BY <1>1, <1>2, <2>1, <2>3, AtCurrent DEF Linked, InnerOnly
  <2> QED BY <2>2, <2>3
<1>5. NestedTyped' /\ \A r \in Place : InnerDispatched(r)'
  BY <1>1, <1>2, Facts, TypedKept, InnerStep
<1>6. OuterDispatched'
  BY <1>1, Facts DEF OuterDispatched, Delivery
<1> QED BY <1>1, <1>4, <1>5, <1>6, NoEventYet, SpansFollow DEF NestedInv

LEMMA FinishInv ==
  ASSUME NestedInv, Finish
  PROVE  NestedInv'
<1>1. /\ OuterKept /\ env' = env
      /\ Ends(registrations, Delivery, phase[Outermost], ran[Outermost],
           outcome[Outermost], phase'[Outermost], ran'[Outermost], outcome'[Outermost])
      /\ UNCHANGED <<innerVars, nested, wrapper, event>> /\ RecordSpans
  BY OuterEnds, Facts DEF Finish, OuterKept
<1>2. /\ phase[Outermost] = "open" /\ phase'[Outermost] = "done"
      /\ ran'[Outermost] = ran[Outermost] /\ outcome'[Outermost].route = Outermost
  BY <1>1 DEF Ends, Answered, Outermost
<1>3. \A r \in Place :
        ~ StandsAt(r) /\ ~ FailedAt(r) /\ ~ StandsAt(r)' /\ ~ FailedAt(r)'
  BY <1>2, Facts DEF StandsAt, FailedAt
<1>4. \A r \in Place : Linked(r)'
  BY <1>1, <1>2, <1>3, Facts DEF Linked, innerVars
<1>5. NestedTyped' /\ OuterDispatched' /\ \A r \in Place : InnerDispatched(r)'
  BY <1>1, Facts, TypedKept, OuterStep, InnerStays
<1> QED BY <1>1, <1>2, <1>4, <1>5, NoEventYet, SpansFollow DEF NestedInv

LEMMA DropInv ==
  ASSUME NestedInv, Drop
  PROVE  NestedInv'
<1>1. /\ OuterKept /\ env' = env
      /\ IsDropped(registrations, Delivery, phase[Outermost], ran[Outermost],
           outcome[Outermost], phase'[Outermost], ran'[Outermost], outcome'[Outermost])
      /\ UNCHANGED <<nested, wrapper, event>> /\ RecordSpans
  BY OuterDrops, Facts DEF Drop, OuterKept
<1>2. /\ phase[Outermost] = "running" /\ phase'[Outermost] = "dropped"
      /\ ran'[Outermost] = ran[Outermost] /\ ran[Outermost] # <<>>
  BY <1>1, Facts DEF IsDropped, OuterDispatched, Dispatched
<1>3. \A r \in Place : (StandsAt(r)' <=> r = Current) /\ ~ FailedAt(r)'
  BY <1>2 DEF StandsAt, FailedAt, Current
<1>4. OuterDispatched'
  BY <1>1, OuterStep
<1>5. CASE Current \in nested
  <2>1. /\ InnerOnly(Current)
        /\ IsDropped(inner_registrations, Delivery, inner_phase[Current], inner_ran[Current],
             inner_outcome[Current], inner_phase'[Current], inner_ran'[Current],
             inner_outcome'[Current])
    BY <1>2, <1>5, Facts, InnerDrops DEF Drop, AwaitsInner
  <2>2. \A r \in Place : Linked(r)'
    BY <1>1, <1>2, <1>3, <1>5, <2>1, AtCurrent DEF Linked, InnerOnly
  <2>3. NestedTyped' /\ \A r \in Place : InnerDispatched(r)'
    BY <1>1, <1>5, <2>1, Facts, TypedKept, InnerStep
  <2> QED BY <1>1, <1>2, <1>4, <2>2, <2>3, NoEventYet, SpansFollow DEF NestedInv
<1>6. CASE Current \notin nested
  <2>1. UNCHANGED innerVars
    BY <1>6 DEF Drop, AwaitsInner
  <2>2. \A r \in Place : Linked(r)'
    BY <1>1, <1>2, <1>3, <1>6, <2>1, AtCurrent DEF Linked, innerVars
  <2>3. NestedTyped' /\ \A r \in Place : InnerDispatched(r)'
    BY <1>1, <2>1, Facts, TypedKept, InnerStays
  <2> QED BY <1>1, <1>2, <1>4, <2>2, <2>3, NoEventYet, SpansFollow DEF NestedInv
<1> QED BY <1>5, <1>6

-----------------------------------------------------------------------------
(* The report *)

\* An error with its sources behind it.
Sourced(error, sources) == <<error>> \o sources

LEMMA FirstOfChain ==
  ASSUME NEW S, NEW w \in S, NEW d \in S, NEW s \in Seq(S),
         w.type # "dispatch", d.type = "dispatch"
  PROVE  /\ FirstDispatchError(Sourced(d, s)) = {d}
         /\ FirstDispatchError(Sourced(w, Sourced(d, s))) = {d}
         /\ Tail(Sourced(d, s)) = s
<1> DEFINE t == <<d>> \o s
<1> DEFINE u == <<w>> \o t
<1>1. <<d>> \in Seq(S) /\ <<w>> \in Seq(S) /\ Len(<<d>>) = 1 /\ Len(<<w>>) = 1
      /\ <<d>>[1] = d /\ <<w>>[1] = w
  OBVIOUS
<1>2. t \in Seq(S) /\ Len(t) = 1 + Len(s) /\ t[1] = d
      /\ \A i \in 1 .. Len(s) : t[i + 1] = s[i]
  BY <1>1, ConcatProperties
<1> HIDE DEF t
<1>3. u \in Seq(S) /\ Len(u) = 2 + Len(s) /\ u[1] = w /\ u[2] = d
  BY <1>1, <1>2, ConcatProperties
<1> HIDE DEF u
<1>4. FirstDispatchError(t) = {d}
  <2> DEFINE found == {i \in DOMAIN t : t[i].type = "dispatch"}
  <2>1. 1 \in found /\ \A i \in found : i \in Nat /\ 1 <= i
    BY <1>2
  <2> HIDE DEF found
  <2>2. {j \in found : \A k \in found : j <= k} = {1}
    BY <2>1
  <2>3. FirstDispatchError(t) = {t[i] : i \in {j \in found : \A k \in found : j <= k}}
    BY DEF FirstDispatchError, found
  <2> QED BY <1>2, <2>2, <2>3
<1>5. FirstDispatchError(u) = {d}
  <2> DEFINE found == {i \in DOMAIN u : u[i].type = "dispatch"}
  <2>1. 2 \in found /\ \A i \in found : i \in Nat /\ 2 <= i
    BY <1>3
  <2> HIDE DEF found
  <2>2. {j \in found : \A k \in found : j <= k} = {2}
    BY <2>1
  <2>3. FirstDispatchError(u) = {u[i] : i \in {j \in found : \A k \in found : j <= k}}
    BY DEF FirstDispatchError, found
  <2> QED BY <1>3, <2>2, <2>3
<1>6. Tail(t) = s
  <2>1. Tail(t) \in Seq(S) /\ Len(Tail(t)) = Len(s)
        /\ \A i \in 1 .. Len(s) : Tail(t)[i] = s[i]
    BY <1>2
  <2> QED BY <2>1, SeqEqual
<1> QED BY <1>4, <1>5, <1>6 DEF Sourced, t, u

LEMMA PairIsConcat ==
  ASSUME NEW a, NEW b
  PROVE  <<a>> \o <<b>> = <<a, b>>
<1> DEFINE S == {a, b}
<1> DEFINE s == <<a>> \o <<b>>
<1> DEFINE t == <<a, b>>
<1>1. <<a>> \in Seq(S) /\ <<b>> \in Seq(S) /\ Len(<<a>>) = 1 /\ Len(<<b>>) = 1
      /\ <<a>>[1] = a /\ <<b>>[1] = b
  OBVIOUS
<1>2. t \in Seq(S) /\ Len(t) = 2 /\ t[1] = a /\ t[2] = b
  OBVIOUS
<1> HIDE DEF S
<1>3. s \in Seq(S) /\ Len(s) = 2 /\ s[1] = a /\ s[2] = b
  BY <1>1, ConcatProperties
<1> HIDE DEF s, t
<1>4. \A i \in 1 .. Len(s) : s[i] = t[i]
  BY <1>2, <1>3
<1>5. s = t
  BY <1>2, <1>3, <1>4, SeqEqual
<1> QED BY <1>5 DEF s, t

\* The first dispatch error there is names the delivery's action, the outer
\* one's or, where a wrapper forwards past it, the inner one's.
LEMMA ReportNamesTheAction ==
  ASSUME NestedInv, phase[Outermost] = "done", outcome[Outermost].result # "Ok"
  PROVE  NamesTheAction(UNION {e.action : e \in FirstDispatchError(HandlerError)})
<1> SUFFICES ASSUME Delivery.meta_decodes, ~ (wrapper = "transparent" /\
                                              outcome[Outermost].route \notin nested)
             PROVE  UNION {e.action : e \in FirstDispatchError(HandlerError)} =
                      {Delivery.action} \ {NoAction}
  BY DEF NamesTheAction
<1> DEFINE wrapped == Error("wrapper", {}, {})
<1> DEFINE own == Error("application", {}, {})
<1> DEFINE outermost == DispatchError(outcome[Outermost])
<1> DEFINE route == outcome[Outermost].route
<1> DEFINE innermost == DispatchError(inner_outcome[route])
<1>1. wrapped.type # "dispatch" /\ own.type # "dispatch"
  BY DEF Error
<1>2. outermost.type = "dispatch" /\ outermost.action = {Delivery.action} \ {NoAction}
  <2>1. outcome[Outermost].result = "Failed"
    <3> DEFINE o == outcome[Outermost]
    <3>1. \/ o = Answered(registrations, Delivery, "Ok", 0)
          \/ \E x : o = Answered(registrations, Delivery, "Failed", x)
      BY Facts DEF OuterDispatched, Dispatched
    <3> HIDE DEF o
    <3>2. o.result \in {"Ok", "Failed"}
      BY <3>1 DEF Answered
    <3> QED BY <3>2 DEF o
  <2> QED BY <2>1 DEF DispatchError, Error
<1>3. route \in nested =>
        /\ inner_phase[route] = "done"
        /\ innermost.type = "dispatch"
        /\ innermost.action = {Delivery.action} \ {NoAction}
  <2> SUFFICES ASSUME route \in nested
               PROVE  /\ inner_phase[route] = "done"
                      /\ inner_outcome[route].result = "Failed"
    BY DEF DispatchError, Error
  <2>1. route \in Range(ran[Outermost])
    <3>1. registrations[route].input = Whole /\ route \in Place
      BY Facts DEF NestedTyped
    <3> DEFINE o == outcome[Outermost]
    <3>2. PICK x \in DOMAIN registrations :
            /\ o = Answered(registrations, Delivery, "Failed", x)
            /\ \/ ran[Outermost] # <<>> /\ x = Last(ran[Outermost])
               \/ ~ Decodes(registrations, Delivery, x) /\ x \notin Range(ran[Outermost])
      <4>1. o # Answered(registrations, Delivery, "Ok", 0)
        BY DEF Answered
      <4> QED BY <4>1, Facts DEF OuterDispatched, Dispatched
    <3>3. o.route = x
      BY <3>2 DEF Answered
    <3>4. ran[Outermost] # <<>> /\ x = Last(ran[Outermost])
      BY <3>1, <3>2, <3>3 DEF Decodes
    <3> QED BY <3>3, <3>4, OuterIs DEF Current
  <2>2. ~ StandsAt(route) /\ FailedAt(route) /\ route \in Place
    BY Facts DEF StandsAt, FailedAt
  <2> QED BY <2>1, <2>2, Facts DEF Linked
<1> DEFINE S == {wrapped, own, outermost, innermost}
<1> DEFINE source == SourceOf(route)
<1>4. source = (IF route \in nested THEN Sourced(innermost, <<own>>) ELSE <<own>>)
  <2>1. route \in nested => source = <<innermost, own>>
    BY <1>3 DEF SourceOf
  <2>2. route \notin nested => source = <<own>>
    BY DEF SourceOf
  <2> HIDE DEF innermost, own, source, route
  <2> QED BY <2>1, <2>2, PairIsConcat DEF Sourced
<1>5. source \in Seq(S)
  <2> HIDE DEF innermost, own, source, route
  <2>1. <<own>> \in Seq(S) /\ <<innermost>> \in Seq(S)
    OBVIOUS
  <2> HIDE DEF S
  <2> QED BY <1>4, <2>1, ConcatProperties DEF Sourced
<1>6. OuterError = Sourced(outermost, source)
  BY DEF OuterError, Sourced
<1> HIDE DEF wrapped, own, outermost, innermost, source, route
<1>7. FirstDispatchError(HandlerError) = {outermost} \/
        (FirstDispatchError(HandlerError) = {innermost} /\ route \in nested)
  <2>1. wrapped \in S /\ outermost \in S /\ innermost \in S /\ <<own>> \in Seq(S)
    OBVIOUS
  <2> HIDE DEF S
  <2>2. CASE wrapper = "none"
    <3>1. HandlerError = Sourced(outermost, source)
      BY <1>6, <2>2 DEF HandlerError
    <3> QED BY <1>1, <1>2, <1>5, <2>1, <3>1, FirstOfChain
  <2>3. CASE wrapper = "source"
    <3>1. HandlerError = Sourced(wrapped, Sourced(outermost, source))
      BY <1>6, <2>3 DEF HandlerError, wrapped, Sourced
    <3>2. FirstDispatchError(Sourced(wrapped, Sourced(outermost, source))) = {outermost}
      BY <1>1, <1>2, <1>5, <2>1, FirstOfChain
    <3> QED BY <3>1, <3>2
  <2>4. CASE wrapper = "transparent"
    <3>1. route \in nested
      BY <2>4 DEF route
    <3>2. HandlerError = Sourced(wrapped, Tail(Sourced(outermost, source)))
      BY <1>6, <2>4 DEF HandlerError, wrapped, Sourced
    <3>3. HandlerError = Sourced(wrapped, Sourced(innermost, <<own>>))
      <4>1. Tail(Sourced(outermost, source)) = source
        BY <1>1, <1>2, <1>5, <2>1, FirstOfChain
      <4> QED BY <1>4, <3>1, <3>2, <4>1
    <3>4. FirstDispatchError(Sourced(wrapped, Sourced(innermost, <<own>>))) = {innermost}
      <4> DEFINE rest == <<own>>
      <4>1. rest \in Seq(S)
        BY <2>1
      <4> HIDE DEF rest
      <4>2. FirstDispatchError(Sourced(wrapped, Sourced(innermost, rest))) = {innermost}
        BY <1>1, <1>3, <2>1, <3>1, <4>1, FirstOfChain
      <4> QED BY <4>2 DEF rest
    <3> QED BY <3>1, <3>3, <3>4
  <2> QED BY <2>2, <2>3, <2>4, Facts DEF NestedTyped
<1> QED BY <1>2, <1>3, <1>7

LEMMA AllStays ==
  ASSUME NestedInv, UNCHANGED <<outerVars, innerVars, nested, wrapper, span>>
  PROVE  /\ NestedTyped' /\ OuterDispatched' /\ SpansTell'
         /\ \A r \in Place : InnerDispatched(r)' /\ Linked(r)'
<1>1. NestedTyped'
  BY Facts, TypedKept
<1>2. OuterDispatched' /\ SpansTell'
  BY Facts DEF OuterDispatched, SpansTell, outerVars, innerVars, Delivery
<1>3. \A r \in Place : InnerDispatched(r)'
  BY InnerStays DEF outerVars
<1>4. \A r \in Place : Linked(r)'
  BY Facts DEF Linked, StandsAt, FailedAt, Current, outerVars, innerVars
<1> QED BY <1>1, <1>2, <1>3, <1>4

LEMMA ReportInv ==
  ASSUME NestedInv, Report
  PROVE  NestedInv'
<1>1. /\ phase[Outermost] = "done" /\ outcome[Outermost].result # "Ok"
      /\ event' = {[action |-> UNION {e.action : e \in FirstDispatchError(HandlerError)}]}
      /\ UNCHANGED <<outerVars, innerVars, nested, wrapper, span>>
  BY DEF Report
<1> DEFINE action == UNION {e.action : e \in FirstDispatchError(HandlerError)}
<1>2. NamesTheAction(action)
  BY <1>1, ReportNamesTheAction
<1>3. event' = {[action |-> action]}
  BY <1>1
<1> HIDE DEF action
<1>4. \A e \in event' : e.action = action
  BY <1>3
<1>5. EventTells'
  BY <1>1, <1>2, <1>4 DEF EventTells, NamesTheAction, Delivery, outerVars
<1> QED BY <1>1, <1>5, AllStays DEF NestedInv

-----------------------------------------------------------------------------
(* The invariant *)

LEMMA NestedInitInv ==
  ASSUME Init
  PROVE  NestedInv
<1>1. PICK t \in Trees :
        registrations = t.outer /\ inner_registrations = t.inner /\ nested = t.nested
  BY DEF Init
<1>2. PICK e \in Deliveries :
        env = [d \in {Outermost} |-> e] /\ inner_env = [r \in Place |-> e]
  BY DEF Init
<1>3. /\ registrations \in Seq(Registration) /\ DOMAIN registrations \subseteq Place
      /\ inner_registrations \in Seq(Registration)
      /\ nested \subseteq {r \in DOMAIN registrations : registrations[r].input = Whole}
  BY <1>1, TreesAssumption
<1>4. e \in Envelope /\ Delivery = e
  BY <1>2, DeliveriesAssumption DEF Delivery
<1>5. NestedTyped
  BY <1>2, <1>3, <1>4 DEF Init, NestedTyped
<1>6. /\ Range(<<>>) = {} /\ Outermost \notin Place
      /\ \A regs \in Seq(Registration) :
           Dispatched(regs, e, "idle", <<>>, NoOutcome)
  <2>1. Range(<<>>) = {}
    BY DEF Range
  <2> QED BY <2>1, PlacesAssumption DEF Dispatched, Phase, Outermost
<1>7. OuterDispatched
  BY <1>3, <1>4, <1>6 DEF Init, OuterDispatched
<1>8. \A r \in Place : InnerDispatched(r)
  BY <1>3, <1>4, <1>6 DEF Init, InnerDispatched
<1>9. \A r \in Place : Linked(r)
  BY <1>6 DEF Init, Linked
<1>10. SpansTell /\ EventTells
  BY <1>6 DEF Init, SpansTell, EventTells
<1> QED BY <1>5, <1>7, <1>8, <1>9, <1>10 DEF NestedInv

LEMMA NestedNextInv ==
  ASSUME NestedInv, [Next]_vars
  PROVE  NestedInv'
<1>1. CASE Dispatch \/ StartHandler \/ HandlerReturns \/ Finish \/ Drop
  BY <1>1, DispatchInv, StartHandlerInv, HandlerReturnsInv, FinishInv, DropInv
<1>2. CASE InnerProceeds \/ InnerHandlerReturns \/ InnerReturns
  BY <1>2, InnerMovesInv, InnerReturnsInv
<1>3. CASE Report
  BY <1>3, ReportInv
<1>4. CASE UNCHANGED vars
  <2>1. UNCHANGED <<outerVars, innerVars, nested, wrapper, span>> /\ event' = event
    BY <1>4 DEF vars
  <2>2. EventTells'
    BY <2>1, Facts DEF EventTells, NamesTheAction, Delivery, outerVars
  <2> QED BY <2>1, <2>2, AllStays DEF NestedInv
<1> QED BY <1>1, <1>2, <1>3, <1>4 DEF Next

LEMMA NestedIsSound == Spec => []NestedInv
BY NestedInitInv, NestedNextInv, PTL DEF Spec

-----------------------------------------------------------------------------

\* Where the outer dispatch went past a place of the inner dispatcher, the inner
\* dispatch had run all that was due.
LEMMA PassedIsComplete ==
  ASSUME NestedInv, NEW r \in Range(ran[Outermost]) \cap nested,
         ~ StandsAt(r), ~ FailedAt(r)
  PROVE  InnerComplete(r) /\ inner_outcome[r].result = "Ok"
<1>1. r \in Place /\ Linked(r) /\ InnerDispatched(r)
  BY Facts
<1>2. inner_phase[r] = "done" /\ inner_outcome[r].result = "Ok"
  BY <1>1 DEF Linked
<1> DEFINE o == inner_outcome[r]
<1>3. \/ o = Answered(inner_registrations, Delivery, "Undecoded", 0)
      \/ \E x : o = Answered(inner_registrations, Delivery, "Failed", x)
      \/ Range(inner_ran[r]) = Due(inner_registrations, Delivery)
  BY <1>1, <1>2 DEF InnerDispatched, Dispatched
<1> HIDE DEF o
<1>4. o.result = "Ok"
  BY <1>2 DEF o
<1>5. Range(inner_ran[r]) = Due(inner_registrations, Delivery)
  BY <1>3, <1>4 DEF Answered
<1> QED BY <1>2, <1>5 DEF InnerComplete, InnerDue

\* What a finished dispatch answered, by the three ways it ends.
LEMMA Ended ==
  ASSUME NEW regs, NEW e, NEW r, NEW o, Dispatched(regs, e, "done", r, o)
  PROVE  /\ o.matched = MatchOf(regs, e)
         /\ o.result \in {"Undecoded", "Ok", "Failed"}
         /\ o.result = "Ok" => Range(r) = Due(regs, e)
         /\ o.result # "Failed" => o.route = 0
         /\ o.result = "Failed" =>
              /\ o.route \in DOMAIN regs /\ e.meta_decodes
              /\ \/ r # <<>> /\ o.route = Last(r)
                 \/ ~ Decodes(regs, e, o.route) /\ o.route \notin Range(r)
<1>1. \/ o = Answered(regs, e, "Undecoded", 0)
      \/ o = Answered(regs, e, "Ok", 0) /\ Range(r) = Due(regs, e)
      \/ \E x \in DOMAIN regs :
           /\ o = Answered(regs, e, "Failed", x) /\ e.meta_decodes
           /\ \/ r # <<>> /\ x = Last(r)
              \/ ~ Decodes(regs, e, x) /\ x \notin Range(r)
  BY DEF Dispatched
<1>2. CASE o = Answered(regs, e, "Undecoded", 0)
  BY <1>2 DEF Answered
<1>3. CASE o = Answered(regs, e, "Ok", 0) /\ Range(r) = Due(regs, e)
  BY <1>3 DEF Answered
<1>4. CASE \E x \in DOMAIN regs :
             /\ o = Answered(regs, e, "Failed", x) /\ e.meta_decodes
             /\ \/ r # <<>> /\ x = Last(r)
                \/ ~ Decodes(regs, e, x) /\ x \notin Range(r)
  BY <1>4 DEF Answered
<1> QED BY <1>1, <1>2, <1>3, <1>4

LEMMA OuterEnded ==
  ASSUME NestedInv
  PROVE  LET o == outcome[Outermost]
         IN  /\ phase[Outermost] # "done" => o = NoOutcome
             /\ phase[Outermost] = "done" =>
                  /\ o.matched = MatchOf(registrations, Delivery)
                  /\ o.result = "Ok" =>
                       Range(ran[Outermost]) = Due(registrations, Delivery)
                  /\ o.result # "Failed" => o.route = Outermost
                  /\ o.result = "Failed" /\ o.route \in nested =>
                       o.route \in Range(ran[Outermost]) /\ o.route = Current
<1>1. phase[Outermost] # "done" => outcome[Outermost] = NoOutcome
  BY Facts DEF OuterDispatched, Dispatched
<1>2. phase[Outermost] = "done" =>
        /\ outcome[Outermost].matched = MatchOf(registrations, Delivery)
        /\ outcome[Outermost].result = "Ok" =>
             Range(ran[Outermost]) = Due(registrations, Delivery)
        /\ outcome[Outermost].result # "Failed" => outcome[Outermost].route = Outermost
        /\ outcome[Outermost].result = "Failed" =>
             \/ ran[Outermost] # <<>> /\ outcome[Outermost].route = Current
             \/ ~ Decodes(registrations, Delivery, outcome[Outermost].route)
  BY Facts, Ended DEF OuterDispatched, Outermost, Current
<1>3. \A r \in nested : Decodes(registrations, Delivery, r)
  BY Facts DEF NestedTyped, Decodes
<1> QED BY <1>1, <1>2, <1>3, OuterIs

\* The handlers of a nested dispatcher run all of them before the registration
\* after it and before the outer success, however deep the failure and whoever
\* drops the dispatch; the outer match is the outer table's own.
THEOREM NestedHandlersInPlace == Spec => []NestedRunsInPlace
<1>1. ASSUME NestedInv
      PROVE  NestedRunsInPlace
  <2> DEFINE o == outcome[Outermost]
  <2>1. /\ phase[Outermost] # "done" => o.result = "Pending"
        /\ phase[Outermost] = "done" => o.matched = MatchOf(registrations, Delivery)
        /\ o.result = "Ok" =>
             /\ phase[Outermost] = "done" /\ o.route = Outermost
             /\ Range(ran[Outermost]) = Due(registrations, Delivery)
        /\ o.result = "Failed" => phase[Outermost] = "done"
    BY <1>1, OuterEnded DEF NoOutcome
  <2>2. o.result = "Ok" => \A r \in nested : ~ StandsAt(r) /\ ~ FailedAt(r)
    BY <1>1, <2>1, Facts DEF StandsAt, FailedAt
  <2>3. ASSUME NEW i \in DOMAIN ran[Outermost], ran[Outermost][i] \in nested,
               i < Len(ran[Outermost]) \/ o.result = "Ok"
        PROVE  InnerComplete(ran[Outermost][i])
    <3> DEFINE r == ran[Outermost][i]
    <3>1. r \in Range(ran[Outermost]) \cap nested
      BY <2>3 DEF Range
    <3>2. CASE o.result = "Ok"
      BY <1>1, <2>2, <3>1, <3>2, PassedIsComplete
    <3>3. CASE i < Len(ran[Outermost])
      <4>1. /\ ran[Outermost] \in Seq(Place)
            /\ \A j, k \in DOMAIN ran[Outermost] : ran[Outermost][j] = ran[Outermost][k] => j = k
        BY <1>1, Facts DEF OuterDispatched, Dispatched
      <4>2. Len(ran[Outermost]) \in DOMAIN ran[Outermost] /\ Len(ran[Outermost]) # i
        BY <3>3, <4>1
      <4>3. r # Current
        BY <4>1, <4>2 DEF Current, Last
      <4>4. ~ StandsAt(r)
        BY <4>3 DEF StandsAt
      <4>5. ~ FailedAt(r)
        <5>1. r # Outermost
          BY <1>1, <3>1, Facts
        <5> QED BY <1>1, <3>1, <4>3, <5>1, OuterEnded DEF FailedAt
      <4> QED BY <1>1, <3>1, <4>4, <4>5, PassedIsComplete
    <3> QED BY <2>3, <3>2, <3>3
  <2>4. ASSUME o.result = "Failed", o.route \in nested
        PROVE  inner_outcome[o.route].result = "Failed"
    <3>1. o.route \in Range(ran[Outermost]) \cap nested /\ phase[Outermost] = "done"
      BY <1>1, <2>1, <2>4, OuterEnded
    <3>2. o.route \in Place /\ ~ StandsAt(o.route) /\ FailedAt(o.route)
      BY <1>1, <3>1, Facts DEF StandsAt, FailedAt
    <3> QED BY <1>1, <3>1, <3>2, Facts DEF Linked
  <2>5. ASSUME o.result = "Ok", NEW r \in Range(ran[Outermost]) \cap nested
        PROVE  inner_outcome[r].result = "Ok"
    BY <1>1, <2>2, <2>5, PassedIsComplete
  <2> QED BY <2>1, <2>3, <2>4, <2>5 DEF NestedRunsInPlace
<1> QED BY <1>1, NestedIsSound, PTL

\* A span tells of a failure just when its dispatch did not succeed.
LEMMA SpanOf ==
  ASSUME NestedInv
  PROVE  /\ span[Outermost] =
              (IF phase[Outermost] = "done" THEN {Recorded(outcome[Outermost])} ELSE {})
         /\ \A r \in Place :
              /\ span[r] =
                   (IF inner_phase[r] = "done" THEN {Recorded(inner_outcome[r])} ELSE {})
              /\ Fails(r) <=> inner_phase[r] = "done" /\ inner_outcome[r].result # "Ok"
<1>1. SpansTell /\ Outermost \notin Place
  BY Facts
<1>2. span[Outermost] =
        (IF phase[Outermost] = "done" THEN {Recorded(outcome[Outermost])} ELSE {})
  BY <1>1 DEF SpansTell
<1>3. ASSUME NEW r \in Place
      PROVE  span[r] =
               (IF inner_phase[r] = "done" THEN {Recorded(inner_outcome[r])} ELSE {})
  BY <1>1 DEF SpansTell
<1>4. ASSUME NEW o
      PROVE  Recorded(o).outcome \in {"handler_error", "unmatched_error"} <=> o.result # "Ok"
  <2>1. Recorded(o).outcome = Label(o)
    BY DEF Recorded
  <2> QED BY <2>1 DEF Label
<1>5. \A r \in Place : Fails(r) <=> inner_phase[r] = "done" /\ inner_outcome[r].result # "Ok"
  BY <1>3, <1>4 DEF Fails
<1> QED BY <1>2, <1>3, <1>5

\* The spans of a failed delivery lead to the registration at fault, the inner
\* one included, and the event names the action, for any two programs and
\* whatever wraps the error.
THEOREM FailuresAreTraced == Spec => []FailureCanBeTraced
<1>1. ASSUME NestedInv
      PROVE  FailureCanBeTraced
  <2> DEFINE o == outcome[Outermost]
  <2>1. \A s \in span[Outermost] :
          phase[Outermost] = "done" /\ s.registration = {o.route} \ {0}
    BY <1>1, SpanOf DEF Recorded
  <2>2. ASSUME NEW r \in Place, Fails(r), phase[Outermost] = "done"
        PROVE  \E s \in span[Outermost] : s.registration = {r}
    <3>1. inner_phase[r] = "done" /\ inner_outcome[r].result # "Ok"
      BY <1>1, <2>2, SpanOf
    <3>2. FailedAt(r)
      BY <1>1, <2>2, <3>1, Facts DEF Linked, StandsAt
    <3>3. r # 0
      BY PlacesAssumption
    <3>4. Recorded(o) \in span[Outermost] /\ Recorded(o).registration = {r}
      BY <1>1, <2>2, <3>2, <3>3, SpanOf DEF FailedAt, Recorded
    <3> QED BY <3>4
  <2>3. ASSUME NEW s \in span[Outermost], NEW r \in s.registration \cap nested
        PROVE  /\ Fails(r)
               /\ \A i \in UNION {t.registration : t \in span[r]} :
                    \/ Last(inner_ran[r]) = i
                    \/ ~ Decodes(inner_registrations, Delivery, i)
    <3>1. r \in Place /\ r # Outermost /\ r = o.route /\ phase[Outermost] = "done"
      BY <1>1, <2>1, <2>3, Facts
    <3>2. r \in Range(ran[Outermost]) \cap nested /\ ~ StandsAt(r) /\ FailedAt(r)
      BY <1>1, <2>3, <3>1, OuterEnded DEF StandsAt, FailedAt
    <3>3. inner_phase[r] = "done" /\ inner_outcome[r].result = "Failed"
      BY <1>1, <3>1, <3>2, Facts DEF Linked
    <3>4. span[r] = {Recorded(inner_outcome[r])} /\ Fails(r)
      BY <1>1, <3>1, <3>3, SpanOf
    <3>5. \/ Last(inner_ran[r]) = inner_outcome[r].route
          \/ ~ Decodes(inner_registrations, Delivery, inner_outcome[r].route)
      <4>1. Dispatched(inner_registrations, Delivery, "done", inner_ran[r], inner_outcome[r])
        BY <1>1, <3>1, <3>3, Facts DEF InnerDispatched
      <4> QED BY <3>3, <4>1, Ended
    <3>6. UNION {t.registration : t \in span[r]} \subseteq {inner_outcome[r].route}
      BY <3>4 DEF Recorded
    <3> QED BY <3>4, <3>5, <3>6
  <2>4. \A e \in event : NamesTheAction(e.action)
    BY <1>1, Facts DEF EventTells
  <2> QED BY <2>2, <2>3, <2>4 DEF FailureCanBeTraced, NamesTheAction
<1> QED BY <1>1, NestedIsSound, PTL
=============================================================================
