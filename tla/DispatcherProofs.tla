-------------------------- MODULE DispatcherProofs --------------------------
(***************************************************************************)
(* Proofs about the route table and Dispatcher::dispatch: for every set of *)
(* kinds, actions and matchers, and however many registrations a program   *)
(* makes, the builder's table holds the registrations and a lookup selects *)
(* what they promise; and with any number of concurrent dispatches, the    *)
(* handlers run are the ones due, in order, and the outcome accounts for   *)
(* them.                                                                   *)
(***************************************************************************)
EXTENDS Dispatcher, TLAPS

-----------------------------------------------------------------------------
(* The route table *)

\* The builder's invariant: the type and the regrouping are inductive together,
\* for a new route is above every route of a chain only because chains hold
\* positions of `registrations'.
TableInv == TableTypeOK /\ TableHoldsRegistrations

-----------------------------------------------------------------------------
(* Chains *)

LEMMA HoldsNothing == <<>> \in Seq(Nat) /\ Holds(<<>>, {})
BY DEF Holds, Range

\* Appending a route above all of a chain's keeps it in registration order.
LEMMA HoldsAppend ==
  ASSUME NEW chain \in Seq(Nat), NEW routes, Holds(chain, routes),
         NEW n \in Nat, \A r \in routes : r < n
  PROVE  Holds(Append(chain, n), routes \cup {n})
<1> DEFINE longer == Append(chain, n)
<1>1. /\ Len(chain) \in Nat
      /\ DOMAIN chain = 1 .. Len(chain)
      /\ DOMAIN longer = 1 .. Len(chain) + 1
      /\ longer[Len(chain) + 1] = n
      /\ \A i \in DOMAIN chain : longer[i] = chain[i]
  OBVIOUS
<1>2. Range(longer) = routes \cup {n}
  <2>1. \A i \in DOMAIN chain : chain[i] \in routes
    BY DEF Holds, Range
  <2>2. \A r \in routes : \E i \in DOMAIN chain : r = chain[i]
    BY DEF Holds, Range
  <2>3. DOMAIN longer = DOMAIN chain \cup {Len(chain) + 1}
    BY <1>1
  <2> HIDE DEF longer
  <2> QED BY <1>1, <2>1, <2>2, <2>3 DEF Range
<1>3. ASSUME NEW i \in DOMAIN longer, NEW j \in DOMAIN longer, i < j
      PROVE  longer[i] < longer[j]
  <2>1. i \in DOMAIN chain
    BY <1>1, <1>3
  <2>2. CASE j \in DOMAIN chain
    BY <1>1, <1>3, <2>1, <2>2 DEF Holds
  <2>3. CASE j = Len(chain) + 1
    <3>1. chain[i] \in routes
      BY <2>1 DEF Holds, Range
    <3> QED BY <1>1, <2>1, <2>3, <3>1
  <2> QED BY <1>1, <2>2, <2>3
<1> QED BY <1>2, <1>3 DEF Holds

\* A slot's chain after a registration: the new route joins it exactly when the
\* registration names the slot.
LEMMA HoldsPush ==
  ASSUME NEW chain \in Seq(Nat), NEW routes, Holds(chain, routes),
         NEW n \in Nat, \A r \in routes : r < n, NEW slot, NEW slots
  PROVE  /\ Push(chain, n, slot, slots) \in Seq(Nat)
         /\ Holds(Push(chain, n, slot, slots),
                  routes \cup (IF slot \in Range(slots) THEN {n} ELSE {}))
<1>1. CASE slot \in Range(slots)
  BY <1>1, HoldsAppend DEF Push
<1>2. CASE slot \notin Range(slots)
  BY <1>2 DEF Push
<1> QED BY <1>1, <1>2

-----------------------------------------------------------------------------
(* The table of TableInv *)

\* Every slot has a chain, stored or empty, that holds its registrations.
LEMMA ChainsHold ==
  ASSUME TableInv, NEW k \in EventKind
  PROVE  /\ KindRoutesOf(by_kind, k).any_action \in Seq(Nat)
         /\ Holds(KindRoutesOf(by_kind, k).any_action, KindWide(registrations, k))
         /\ DOMAIN KindRoutesOf(by_kind, k).by_action =
              {a \in Action : SpecificTo(registrations, k, a) # {}}
         /\ \A a \in Action :
              /\ ActionChain(KindRoutesOf(by_kind, k), a) \in Seq(Nat)
              /\ Holds(ActionChain(KindRoutesOf(by_kind, k), a),
                       SpecificTo(registrations, k, a))
<1> DEFINE old == KindRoutesOf(by_kind, k)
<1>1. CASE k \in DOMAIN by_kind
  <2>1. old = by_kind[k]
    BY <1>1 DEF KindRoutesOf
  <2>2. PICK A \in SUBSET Action :
          old \in [any_action : Seq(Nat), by_action : [A -> Seq(Nat)]]
    BY <1>1, <2>1 DEF TableInv, TableTypeOK, IsKindRoutes
  <2>3. DOMAIN old.by_action = {a \in Action : SpecificTo(registrations, k, a) # {}}
    BY <1>1, <2>1 DEF TableInv, TableHoldsRegistrations
  <2>4. Holds(old.any_action, KindWide(registrations, k))
    BY <1>1, <2>1 DEF TableInv, TableHoldsRegistrations
  <2>5. ASSUME NEW a \in Action
        PROVE  /\ ActionChain(old, a) \in Seq(Nat)
               /\ Holds(ActionChain(old, a), SpecificTo(registrations, k, a))
    <3>1. CASE a \in DOMAIN old.by_action
      BY <1>1, <2>1, <2>2, <3>1 DEF TableInv, TableHoldsRegistrations, ActionChain
    <3>2. CASE a \notin DOMAIN old.by_action
      <4>1. ActionChain(old, a) = <<>>
        BY <3>2 DEF ActionChain
      <4>2. SpecificTo(registrations, k, a) = {}
        BY <2>3, <3>2
      <4> HIDE DEF old
      <4> QED BY <4>1, <4>2, HoldsNothing
    <3> QED BY <3>1, <3>2
  <2> QED BY <2>2, <2>3, <2>4, <2>5
<1>2. CASE k \notin DOMAIN by_kind
  <2>1. k \notin KindsNamed(registrations)
    BY <1>2 DEF TableInv, TableHoldsRegistrations
  <2>2. \A a : Naming(registrations, [kind |-> k, action |-> a]) = {}
    BY <2>1 DEF KindsNamed, Naming
  <2>3. KindWide(registrations, k) = {} /\ \A a : SpecificTo(registrations, k, a) = {}
    BY <2>2 DEF KindWide, SpecificTo
  <2>4. old.any_action = <<>> /\ DOMAIN old.by_action = {}
    BY <1>2 DEF KindRoutesOf, EmptyKindRoutes
  <2>5. \A a \in Action : ActionChain(old, a) = <<>>
    BY <2>4 DEF ActionChain
  <2>6. Holds(old.any_action, KindWide(registrations, k))
    BY <2>3, <2>4, HoldsNothing
  <2>7. \A a \in Action : Holds(ActionChain(old, a), SpecificTo(registrations, k, a))
    BY <2>3, <2>5, HoldsNothing
  <2>8. {a \in Action : SpecificTo(registrations, k, a) # {}} = {}
    BY <2>3
  <2> HIDE DEF old
  <2>9. /\ old.any_action \in Seq(Nat)
        /\ \A a \in Action : ActionChain(old, a) \in Seq(Nat)
    BY <2>4, <2>5, HoldsNothing
  <2> QED BY <2>4, <2>6, <2>7, <2>8, <2>9 DEF old
<1> QED BY <1>1, <1>2

\* Registrations are known by positions below the next one.
LEMMA OldRoutes ==
  ASSUME TableInv
  PROVE  /\ NewRoute \in Nat
         /\ DOMAIN registrations = 1 .. NewRoute - 1
         /\ \A t : \A r \in OfTier(registrations, t) : r \in Nat /\ r < NewRoute
         /\ \A s : Naming(registrations, s) \subseteq OfTier(registrations, "on")
         /\ \A k : KindWide(registrations, k) \subseteq OfTier(registrations, "on")
         /\ \A k, a : SpecificTo(registrations, k, a) \subseteq OfTier(registrations, "on")
<1>1. /\ NewRoute \in Nat /\ DOMAIN registrations = 1 .. NewRoute - 1
  BY DEF TableInv, TableTypeOK, NewRoute
<1>2. \A t : \A r \in OfTier(registrations, t) : r \in Nat /\ r < NewRoute
  BY <1>1 DEF OfTier
<1>3. \A s : Naming(registrations, s) \subseteq OfTier(registrations, "on")
  BY DEF Naming
<1> QED BY <1>1, <1>2, <1>3 DEF KindWide, SpecificTo

\* What one registration call appends.
LEMMA Appended ==
  ASSUME TableInv, NEW t \in {"always", "on", "fallback"}, NEW slots \in Seq(Slot),
         NEW input \in Input, Register(t, slots, input)
  PROVE  /\ registrations' \in Seq(Registration)
         /\ DOMAIN registrations' = DOMAIN registrations \cup {NewRoute}
         /\ NewRoute \notin DOMAIN registrations
         /\ registrations'[NewRoute].tier = t
         /\ registrations'[NewRoute].slots = Range(slots)
         /\ \A r \in DOMAIN registrations : registrations'[r] = registrations[r]
         /\ \A u : OfTier(registrations', u) =
                     OfTier(registrations, u) \cup (IF u = t THEN {NewRoute} ELSE {})
<1> DEFINE new == [tier |-> t, slots |-> Range(slots), input |-> input]
<1>1. Range(slots) \subseteq Slot
  BY DEF Range
<1>2. new \in Registration
  BY <1>1 DEF Registration
<1>3. registrations \in Seq(Registration)
  BY DEF TableInv, TableTypeOK
<1>4. registrations' = Append(registrations, new)
  BY DEF Register
<1>5. new.tier = t /\ new.slots = Range(slots)
  OBVIOUS
<1> HIDE DEF new
<1>6. /\ registrations' \in Seq(Registration)
      /\ DOMAIN registrations' = DOMAIN registrations \cup {NewRoute}
      /\ NewRoute \notin DOMAIN registrations
      /\ registrations'[NewRoute] = new
      /\ \A r \in DOMAIN registrations : registrations'[r] = registrations[r]
  BY <1>2, <1>3, <1>4 DEF NewRoute
<1>7. \A u : OfTier(registrations', u) =
               OfTier(registrations, u) \cup (IF u = t THEN {NewRoute} ELSE {})
  BY <1>5, <1>6 DEF OfTier
<1> QED BY <1>5, <1>6, <1>7

\* A registration through `on' is one more route of each slot it names.
LEMMA AppendedOn ==
  ASSUME TableInv, NEW slots \in Seq(Slot), NEW input \in Input,
         Register("on", slots, input)
  PROVE  /\ registrations' \in Seq(Registration)
         /\ OfTier(registrations', "always") = OfTier(registrations, "always")
         /\ OfTier(registrations', "fallback") = OfTier(registrations, "fallback")
         /\ \A s : Naming(registrations', s) =
              Naming(registrations, s) \cup (IF s \in Range(slots) THEN {NewRoute} ELSE {})
         /\ KindsNamed(registrations') =
              KindsNamed(registrations) \cup {s.kind : s \in Range(slots)}
<1> DEFINE routed == OfTier(registrations, "on")
<1>1. /\ registrations' \in Seq(Registration)
      /\ OfTier(registrations', "always") = OfTier(registrations, "always")
      /\ OfTier(registrations', "fallback") = OfTier(registrations, "fallback")
      /\ OfTier(registrations', "on") = routed \cup {NewRoute}
      /\ registrations'[NewRoute].slots = Range(slots)
      /\ \A r \in routed : registrations'[r] = registrations[r]
      /\ NewRoute \notin routed
  <2>1. \A u : OfTier(registrations, u) \subseteq DOMAIN registrations
    BY DEF OfTier
  <2>2. /\ registrations' \in Seq(Registration)
        /\ \A r \in DOMAIN registrations : registrations'[r] = registrations[r]
        /\ NewRoute \notin DOMAIN registrations
        /\ registrations'[NewRoute].slots = Range(slots)
        /\ \A u : OfTier(registrations', u) =
                     OfTier(registrations, u) \cup (IF u = "on" THEN {NewRoute} ELSE {})
    BY Appended
  <2> QED BY <2>1, <2>2
<1> HIDE DEF routed
<1>2. \A s : Naming(registrations', s) =
         Naming(registrations, s) \cup (IF s \in Range(slots) THEN {NewRoute} ELSE {})
  BY <1>1 DEF Naming, routed
<1>3. {registrations'[r].slots : r \in OfTier(registrations', "on")} =
        {registrations[r].slots : r \in routed} \cup {Range(slots)}
  BY <1>1
<1>4. KindsNamed(registrations') =
        KindsNamed(registrations) \cup {s.kind : s \in Range(slots)}
  BY <1>3 DEF KindsNamed, routed
<1> QED BY <1>1, <1>2, <1>4

\* One outside `on' names no slot.
LEMMA AppendedUnrouted ==
  ASSUME TableInv, NEW t \in {"always", "fallback"}, NEW input \in Input,
         Register(t, <<>>, input)
  PROVE  /\ registrations' \in Seq(Registration)
         /\ OfTier(registrations', t) = OfTier(registrations, t) \cup {NewRoute}
         /\ \A u : u # t => OfTier(registrations', u) = OfTier(registrations, u)
         /\ \A s : Naming(registrations', s) = Naming(registrations, s)
         /\ KindsNamed(registrations') = KindsNamed(registrations)
<1>1. /\ registrations' \in Seq(Registration)
      /\ \A r \in DOMAIN registrations : registrations'[r] = registrations[r]
      /\ \A u : OfTier(registrations', u) =
                   OfTier(registrations, u) \cup (IF u = t THEN {NewRoute} ELSE {})
  <2>1. t \in {"always", "on", "fallback"} /\ <<>> \in Seq(Slot)
    OBVIOUS
  <2> QED BY <2>1, Appended
<1>2. OfTier(registrations', "on") = OfTier(registrations, "on")
  BY <1>1
<1>3. \A r \in OfTier(registrations, "on") : registrations'[r] = registrations[r]
  BY <1>1 DEF OfTier
<1>4. {registrations'[r].slots : r \in OfTier(registrations', "on")} =
        {registrations[r].slots : r \in OfTier(registrations, "on")}
  BY <1>2, <1>3
<1>5. \A s : Naming(registrations', s) = Naming(registrations, s)
  BY <1>2, <1>3 DEF Naming
<1> QED BY <1>1, <1>4, <1>5 DEF KindsNamed

-----------------------------------------------------------------------------
(* The builder preserves TableInv *)

\* `always' and `fallback' leave the table alone.
LEMMA UnroutedInv ==
  ASSUME TableInv,
         NEW t \in {"always", "fallback"}, NEW input \in Input, Register(t, <<>>, input),
         always' = IF t = "always" THEN Append(always, NewRoute) ELSE always,
         fallback' = IF t = "fallback" THEN Append(fallback, NewRoute) ELSE fallback,
         by_kind' = by_kind
  PROVE  TableInv'
<1>1. /\ registrations' \in Seq(Registration)
      /\ OfTier(registrations', t) = OfTier(registrations, t) \cup {NewRoute}
      /\ \A u : u # t => OfTier(registrations', u) = OfTier(registrations, u)
      /\ \A s : Naming(registrations', s) = Naming(registrations, s)
      /\ KindsNamed(registrations') = KindsNamed(registrations)
  BY AppendedUnrouted
<1>2. /\ NewRoute \in Nat
      /\ \A r \in OfTier(registrations, t) : r < NewRoute
  BY OldRoutes
<1>3. /\ always \in Seq(Nat) /\ Holds(always, OfTier(registrations, "always"))
      /\ fallback \in Seq(Nat) /\ Holds(fallback, OfTier(registrations, "fallback"))
  BY DEF TableInv, TableTypeOK, TableHoldsRegistrations
<1>4. /\ always' \in Seq(Nat)
      /\ Holds(always', OfTier(registrations', "always"))
      /\ fallback' \in Seq(Nat)
      /\ Holds(fallback', OfTier(registrations', "fallback"))
  <2>1. CASE t = "always"
    <3>1. Holds(always', OfTier(registrations, "always") \cup {NewRoute})
      BY <1>2, <1>3, <2>1, HoldsAppend
    <3>2. Append(always, NewRoute) \in Seq(Nat)
      BY <1>2, <1>3
    <3>3. /\ OfTier(registrations', "always") = OfTier(registrations, "always") \cup {NewRoute}
          /\ OfTier(registrations', "fallback") = OfTier(registrations, "fallback")
      BY <1>1, <2>1
    <3> QED BY <1>3, <2>1, <3>1, <3>2, <3>3
  <2>2. CASE t = "fallback"
    <3>1. Holds(fallback', OfTier(registrations, "fallback") \cup {NewRoute})
      BY <1>2, <1>3, <2>2, HoldsAppend
    <3>2. Append(fallback, NewRoute) \in Seq(Nat)
      BY <1>2, <1>3
    <3>3. /\ OfTier(registrations', "fallback") = OfTier(registrations, "fallback") \cup {NewRoute}
          /\ OfTier(registrations', "always") = OfTier(registrations, "always")
      BY <1>1, <2>2
    <3> QED BY <1>3, <2>2, <3>1, <3>2, <3>3
  <2> QED BY <2>1, <2>2
<1>5. /\ \A k : KindWide(registrations', k) = KindWide(registrations, k)
      /\ \A k, a : SpecificTo(registrations', k, a) = SpecificTo(registrations, k, a)
  BY <1>1 DEF KindWide, SpecificTo
<1>6. TableTypeOK'
  BY <1>1, <1>4 DEF TableInv, TableTypeOK, Register
<1>7. TableHoldsRegistrations'
  BY <1>1, <1>4, <1>5 DEF TableInv, TableHoldsRegistrations
<1> QED BY <1>6, <1>7 DEF TableInv

\* `on': every slot's chain is extended when the matcher names the slot.
LEMMA OnInv ==
  ASSUME TableInv, NEW matcher \in Seq(Slot), NEW input \in Input, On(matcher, input)
  PROVE  TableInv'
<1> DEFINE old(k) == KindRoutesOf(by_kind, k)
           named(k) == {a \in Action : [kind |-> k, action |-> a] \in Range(matcher)}
           wide(k) == Push(old(k).any_action, NewRoute, AnyActionOf(k), matcher)
           specific(k, a) ==
             Push(ActionChain(old(k), a), NewRoute, [kind |-> k, action |-> a], matcher)
<1>1. /\ Register("on", matcher, input)
      /\ by_kind' = InsertEach(by_kind, matcher, NewRoute)
      /\ always' = always /\ fallback' = fallback /\ built' = built
  BY DEF On, Register
<1>2. /\ registrations' \in Seq(Registration)
      /\ OfTier(registrations', "always") = OfTier(registrations, "always")
      /\ OfTier(registrations', "fallback") = OfTier(registrations, "fallback")
      /\ \A s : Naming(registrations', s) =
             Naming(registrations, s) \cup (IF s \in Range(matcher) THEN {NewRoute} ELSE {})
      /\ KindsNamed(registrations') =
             KindsNamed(registrations) \cup {s.kind : s \in Range(matcher)}
  BY <1>1, AppendedOn
<1>3. /\ NewRoute \in Nat
      /\ \A k : \A r \in KindWide(registrations, k) : r < NewRoute
      /\ \A k, a : \A r \in SpecificTo(registrations, k, a) : r < NewRoute
  BY OldRoutes
<1>4. \A s \in Range(matcher) : s \in Slot
  BY DEF Range
<1>5. ASSUME NEW k PROVE ActionsNamed(matcher, k) = named(k)
  BY <1>4, NoActionAssumption DEF ActionsNamed, Slot
<1>6. /\ DOMAIN by_kind' = KindsNamed(registrations')
      /\ DOMAIN by_kind' \subseteq EventKind
  <2>1. DOMAIN by_kind' = DOMAIN by_kind \cup {s.kind : s \in Range(matcher)}
    BY <1>1 DEF InsertEach
  <2>2. {s.kind : s \in Range(matcher)} \subseteq EventKind
    BY <1>4 DEF Slot
  <2> QED BY <1>2, <2>1, <2>2 DEF TableInv, TableTypeOK, TableHoldsRegistrations
<1>7. ASSUME NEW k \in DOMAIN by_kind'
      PROVE  by_kind'[k] = [any_action |-> wide(k),
                            by_action |-> [a \in DOMAIN old(k).by_action \cup named(k) |->
                                             specific(k, a)]]
  BY <1>1, <1>5, <1>7 DEF InsertEach
<1>8. ASSUME NEW k \in EventKind
      PROVE  /\ wide(k) \in Seq(Nat)
             /\ Holds(wide(k), KindWide(registrations', k))
  <2>1. KindWide(registrations', k) =
          KindWide(registrations, k) \cup
          (IF AnyActionOf(k) \in Range(matcher) THEN {NewRoute} ELSE {})
    BY <1>2 DEF KindWide, AnyActionOf
  <2> QED BY <1>3, <2>1, ChainsHold, HoldsPush
<1>9. ASSUME NEW k \in EventKind, NEW a \in Action
      PROVE  /\ specific(k, a) \in Seq(Nat)
             /\ Holds(specific(k, a), SpecificTo(registrations', k, a))
             /\ SpecificTo(registrations', k, a) # {} <=>
                  SpecificTo(registrations, k, a) # {} \/ a \in named(k)
  <2>1. a # NoAction
    BY NoActionAssumption
  <2>2. SpecificTo(registrations', k, a) =
          SpecificTo(registrations, k, a) \cup
          (IF [kind |-> k, action |-> a] \in Range(matcher) THEN {NewRoute} ELSE {})
    BY <1>2, <2>1 DEF SpecificTo
  <2>3. /\ specific(k, a) \in Seq(Nat)
        /\ Holds(specific(k, a), SpecificTo(registrations', k, a))
    <3> DEFINE chain == ActionChain(old(k), a)
               slot == [kind |-> k, action |-> a]
    <3>1. chain \in Seq(Nat) /\ Holds(chain, SpecificTo(registrations, k, a))
      BY ChainsHold
    <3> HIDE DEF chain, slot
    <3>2. /\ Push(chain, NewRoute, slot, matcher) \in Seq(Nat)
          /\ Holds(Push(chain, NewRoute, slot, matcher),
                   SpecificTo(registrations, k, a) \cup
                     (IF slot \in Range(matcher) THEN {NewRoute} ELSE {}))
      BY <1>3, <3>1, HoldsPush
    <3> QED BY <2>2, <3>2 DEF chain, slot
  <2> QED BY <2>2, <2>3
<1> HIDE DEF wide, specific
<1>10. ASSUME NEW k \in DOMAIN by_kind'
       PROVE  /\ IsKindRoutes(by_kind'[k])
              /\ Holds(by_kind'[k].any_action, KindWide(registrations', k))
              /\ DOMAIN by_kind'[k].by_action =
                   {a \in Action : SpecificTo(registrations', k, a) # {}}
              /\ \A a \in DOMAIN by_kind'[k].by_action :
                   Holds(by_kind'[k].by_action[a], SpecificTo(registrations', k, a))
  <2> DEFINE A == DOMAIN old(k).by_action \cup named(k)
  <2>1. k \in EventKind
    BY <1>6
  <2>2. DOMAIN old(k).by_action = {a \in Action : SpecificTo(registrations, k, a) # {}}
    BY <2>1, ChainsHold
  <2>3. A = {a \in Action : SpecificTo(registrations', k, a) # {}}
    BY <1>9, <2>1, <2>2
  <2> HIDE DEF A
  <2>4. by_kind'[k] = [any_action |-> wide(k), by_action |-> [a \in A |-> specific(k, a)]]
    BY <1>7 DEF A
  <2>5. A \in SUBSET Action
    BY <2>3
  <2>6. \A a \in A : /\ specific(k, a) \in Seq(Nat)
                     /\ Holds(specific(k, a), SpecificTo(registrations', k, a))
    BY <1>9, <2>1, <2>5
  <2>7. [a \in A |-> specific(k, a)] \in [A -> Seq(Nat)]
    BY <2>6
  <2>8. by_kind'[k] \in [any_action : Seq(Nat), by_action : [A -> Seq(Nat)]]
    BY <1>8, <2>1, <2>4, <2>7
  <2>9. IsKindRoutes(by_kind'[k])
    BY <2>5, <2>8 DEF IsKindRoutes
  <2> QED BY <1>8, <2>1, <2>3, <2>4, <2>6, <2>9
<1>11. by_kind' = [k \in DOMAIN by_kind' |-> by_kind'[k]]
  BY <1>1 DEF InsertEach
<1>12. TableTypeOK'
  BY <1>1, <1>2, <1>6, <1>10, <1>11 DEF TableInv, TableTypeOK
<1>13. TableHoldsRegistrations'
  BY <1>1, <1>2, <1>6, <1>10 DEF TableInv, TableHoldsRegistrations
<1> QED BY <1>12, <1>13 DEF TableInv

\* `handle' registers under one kind-wide slot.
LEMMA HandleInv ==
  ASSUME TableInv, NEW kind \in EventKind, Handle(kind)
  PROVE  TableInv'
<1>1. FromKinds(<<kind>>) \in Seq(Slot)
  <2>1. AnyActionOf(kind) \in Slot
    BY DEF AnyActionOf, Slot
  <2>2. FromKinds(<<kind>>) \in [1 .. 1 -> Slot]
    BY <2>1 DEF FromKinds
  <2>3. ASSUME NEW f \in [1 .. 1 -> Slot] PROVE f \in Seq(Slot)
    OBVIOUS
  <2> HIDE DEF FromKinds
  <2> QED BY <2>2, <2>3
<1> QED BY <1>1, OnInv DEF Handle, Input

LEMMA BuilderInitInv == ASSUME BuilderInit PROVE TableInv
<1>1. TableTypeOK
  <2>1. /\ <<>> \in Seq(Registration) /\ <<>> \in Seq(Nat)
        /\ DOMAIN [k \in {} |-> EmptyKindRoutes] = {}
    OBVIOUS
  <2>2. by_kind = [k \in DOMAIN by_kind |-> by_kind[k]]
    BY DEF BuilderInit
  <2> QED BY <2>1, <2>2 DEF BuilderInit, TableTypeOK
<1>2. \A t : OfTier(registrations, t) = {}
  BY DEF BuilderInit, OfTier
<1>3. KindsNamed(registrations) = {}
  BY <1>2 DEF KindsNamed
<1>4. TableHoldsRegistrations
  BY <1>2, <1>3, HoldsNothing DEF BuilderInit, TableHoldsRegistrations
<1> QED BY <1>1, <1>4 DEF TableInv

\* Every registration call, and every step that makes none, keeps TableInv.
LEMMA BuildingInv ==
  ASSUME TableInv, [Building]_tableVars
  PROVE  TableInv'
<1>1. CASE \E input \in Input : Always(input)
  BY <1>1, UnroutedInv DEF Always
<1>2. CASE Fallback
  <2>1. Whole \in Input
    BY DEF Input
  <2> QED BY <1>2, <2>1, UnroutedInv DEF Fallback
<1>3. CASE \E matcher \in Matchers, input \in Input : On(matcher, input)
  BY <1>3, OnInv, MatchersAssumption
<1>4. CASE \E kind \in EventKind : Handle(kind)
  BY <1>4, HandleInv
<1>5. CASE Build
  BY <1>5 DEF Build, TableInv, TableTypeOK, TableHoldsRegistrations
<1>6. CASE UNCHANGED tableVars
  BY <1>6 DEF tableVars, TableInv, TableTypeOK, TableHoldsRegistrations
<1> QED BY <1>1, <1>2, <1>3, <1>4, <1>5, <1>6 DEF Building

-----------------------------------------------------------------------------
(* Lookups in a table of TableInv *)

\* Both halves of a lookup hold their registrations, and its match is theirs.
LEMMA LookupHolds ==
  ASSUME TableInv, NEW e \in Envelope
  PROVE  LET found == Lookup(by_kind, e.kind, e.action)
         IN  /\ found.specific \in Seq(Nat)
             /\ Holds(found.specific, SpecificTo(registrations, e.kind, e.action))
             /\ found.any_action \in Seq(Nat)
             /\ Holds(found.any_action, KindWide(registrations, e.kind))
             /\ found.matched \in {"Matched", "UnmatchedAction", "UnmatchedKind"}
             /\ e.meta_decodes => found.matched = MatchOf(registrations, e)
<1> DEFINE old == KindRoutesOf(by_kind, e.kind)
           found == Lookup(by_kind, e.kind, e.action)
<1>1. e.kind \in EventKind /\ e.action \in Action \cup {NoAction}
  BY DEF Envelope
<1>2. /\ found.specific = ActionChain(old, e.action)
      /\ found.any_action = old.any_action
      /\ found.matched = IF e.action \in DOMAIN old.by_action \/ old.any_action # <<>>
                           THEN "Matched"
                         ELSE IF e.kind \in DOMAIN by_kind THEN "UnmatchedAction"
                         ELSE "UnmatchedKind"
  BY DEF Lookup
<1>3. /\ old.any_action \in Seq(Nat)
      /\ Holds(old.any_action, KindWide(registrations, e.kind))
      /\ DOMAIN old.by_action = {a \in Action : SpecificTo(registrations, e.kind, a) # {}}
      /\ \A a \in Action : /\ ActionChain(old, a) \in Seq(Nat)
                           /\ Holds(ActionChain(old, a), SpecificTo(registrations, e.kind, a))
  BY <1>1, ChainsHold
<1> HIDE DEF old, found
<1>4. /\ ActionChain(old, e.action) \in Seq(Nat)
      /\ Holds(ActionChain(old, e.action), SpecificTo(registrations, e.kind, e.action))
      /\ e.action \in DOMAIN old.by_action <=> SpecificTo(registrations, e.kind, e.action) # {}
  <2>1. CASE e.action \in Action
    BY <1>3, <2>1
  <2>2. CASE e.action = NoAction
    <3>1. e.action \notin DOMAIN old.by_action
      BY <1>3, <2>2, NoActionAssumption
    <3>2. ActionChain(old, e.action) = <<>>
      BY <3>1 DEF ActionChain
    <3>3. SpecificTo(registrations, e.kind, e.action) = {}
      BY <2>2 DEF SpecificTo
    <3> QED BY <3>1, <3>2, <3>3, HoldsNothing
  <2> QED BY <1>1, <2>1, <2>2
<1>5. old.any_action # <<>> <=> KindWide(registrations, e.kind) # {}
  <2>1. ASSUME NEW chain \in Seq(Nat) PROVE chain # <<>> <=> Range(chain) # {}
    <3>1. CASE Len(chain) = 0
      BY <3>1 DEF Range
    <3>2. CASE Len(chain) # 0
      <4>1. 1 \in DOMAIN chain
        BY <3>2
      <4> QED BY <3>2, <4>1 DEF Range
    <3> QED BY <3>1, <3>2
  <2> QED BY <1>3, <2>1 DEF Holds
<1>6. e.kind \in DOMAIN by_kind <=> e.kind \in KindsNamed(registrations)
  BY DEF TableInv, TableHoldsRegistrations
<1>7. e.meta_decodes => found.matched = MatchOf(registrations, e)
  BY <1>2, <1>4, <1>5, <1>6 DEF MatchOf, Routed
<1> QED BY <1>2, <1>3, <1>4, <1>7 DEF found

\* So a lookup selects what the registrations promise.
LEMMA LookupCorrect == TableInv => LookupAsDeclared
<1> SUFFICES ASSUME TableInv, NEW e \in Envelope, e.meta_decodes
             PROVE  LET found == Lookup(by_kind, e.kind, e.action)
                        yielded == {r \in Range(found.any_action) : Yields(found, r)}
                    IN  /\ found.matched = MatchOf(registrations, e)
                        /\ Range(found.specific) = SpecificTo(registrations, e.kind, e.action)
                        /\ yielded = KindWide(registrations, e.kind) \ Range(found.specific)
  BY DEF LookupAsDeclared
<1> QED BY LookupHolds DEF Holds, Yields

-----------------------------------------------------------------------------
(* Theorems *)

\* TableInv is an invariant of the builder.
THEOREM TableInvariant == RoutesSpec => []TableInv
<1>1. BuilderInit => TableInv
  BY BuilderInitInv
<1>2. TableInv /\ [Building]_tableVars => TableInv'
  BY BuildingInv
<1> QED BY <1>1, <1>2, PTL DEF RoutesSpec

\* The builder keeps its declared types.
THEOREM TableTypeCorrect == RoutesSpec => []TableTypeOK
<1>1. TableInv => TableTypeOK
  BY DEF TableInv
<1> QED BY <1>1, TableInvariant, PTL

\* The table is the registrations, regrouped, whatever is registered.
THEOREM TableCorrect == RoutesSpec => []TableHoldsRegistrations
<1>1. TableInv => TableHoldsRegistrations
  BY DEF TableInv
<1> QED BY <1>1, TableInvariant, PTL

\* A lookup decides the match, and selects exactly the registrations, that
\* every delivery was promised.
THEOREM LookupsCorrect == RoutesSpec => []LookupAsDeclared
<1> QED BY LookupCorrect, TableInvariant, PTL

-----------------------------------------------------------------------------
(* Dispatch *)

\* The routes of the chains iterated before this one.
Earlier(d) ==
  CASE tier[d] = "specific" -> Range(always)
    [] tier[d] = "any_action" -> Range(always) \cup Range(Found(d).specific)
    [] tier[d] = "fallback" -> Range(always)
    [] OTHER -> {}

\* The routes behind a cursor at position i.
Passed(d, i) == Earlier(d) \cup {Chain(d)[j] : j \in 1 .. i}

\* What iteration knows: the chains it is in are the match's, and what ran is
\* what lies behind the cursor.
Iterating(d) ==
  /\ env[d].meta_decodes
  /\ tier[d] \in {"specific", "any_action"} => Found(d).matched = "Matched"
  /\ tier[d] = "fallback" => Found(d).matched # "Matched"
  /\ Range(ran[d]) = Passed(d, pos[d])

\* The handler awaited is the one at the cursor.
Awaiting(d) ==
  /\ pos[d] \in DOMAIN Chain(d)
  /\ ran[d] # <<>>
  /\ ran[d][Len(ran[d])] = Chain(d)[pos[d]]
  /\ Decodes(registrations, env[d], Chain(d)[pos[d]])

\* One call's part of the inductive invariant. The promise is carried for calls
\* that ended, the cursor's account of it for calls under way; a call under way
\* means the table is frozen, which is why neither is lost to a registration.
CallInv(d) ==
  /\ pc[d] = "idle" => tier[d] = "always" /\ pos[d] = 0 /\ ran[d] = <<>>
  /\ pc[d] # "idle" => built /\ InOrder(d)
  /\ pc[d] \in {"chain", "handler"} => Iterating(d)
  /\ pc[d] = "handler" => Awaiting(d)
  /\ pc[d] = "done" => Accounted(d)

IInv == TypeOK /\ TableHoldsRegistrations /\ \A d \in Call : CallInv(d)

-----------------------------------------------------------------------------
(* The chains against the registrations *)

\* The registrations the chain under iteration holds.
Holding(d) ==
  CASE tier[d] = "always" -> OfTier(registrations, "always")
    [] tier[d] = "specific" -> SpecificTo(registrations, env[d].kind, env[d].action)
    [] tier[d] = "any_action" -> KindWide(registrations, env[d].kind)
    [] tier[d] = "fallback" -> OfTier(registrations, "fallback")

LEMMA ChainHolds ==
  ASSUME TableInv, NEW d \in Call, env[d] \in Envelope,
         tier[d] \in {"always", "specific", "any_action", "fallback"}
  PROVE  /\ Chain(d) \in Seq(Nat)
         /\ Holds(Chain(d), Holding(d))
         /\ Range(always) = OfTier(registrations, "always")
         /\ Range(Found(d).specific) = SpecificTo(registrations, env[d].kind, env[d].action)
         /\ Found(d).matched \in {"Matched", "UnmatchedAction", "UnmatchedKind"}
         /\ env[d].meta_decodes => Found(d).matched = MatchOf(registrations, env[d])
<1>1. /\ always \in Seq(Nat) /\ Holds(always, OfTier(registrations, "always"))
      /\ fallback \in Seq(Nat) /\ Holds(fallback, OfTier(registrations, "fallback"))
  BY DEF TableInv, TableTypeOK, TableHoldsRegistrations
<1>2. /\ Found(d).specific \in Seq(Nat)
      /\ Holds(Found(d).specific, SpecificTo(registrations, env[d].kind, env[d].action))
      /\ Found(d).any_action \in Seq(Nat)
      /\ Holds(Found(d).any_action, KindWide(registrations, env[d].kind))
      /\ Found(d).matched \in {"Matched", "UnmatchedAction", "UnmatchedKind"}
      /\ env[d].meta_decodes => Found(d).matched = MatchOf(registrations, env[d])
  BY LookupHolds DEF Found
<1>3. Chain(d) \in Seq(Nat) /\ Holds(Chain(d), Holding(d))
  BY <1>1, <1>2 DEF Chain, Holding
<1>4. /\ Range(always) = OfTier(registrations, "always")
      /\ Range(Found(d).specific) = SpecificTo(registrations, env[d].kind, env[d].action)
  BY <1>1, <1>2 DEF Holds
<1> QED BY <1>2, <1>3, <1>4

\* What lies before an item of a chain, in registration order, precedes it there.
LEMMA PrefixClosed ==
  ASSUME NEW chain \in Seq(Nat), NEW routes, Holds(chain, routes),
         NEW i \in DOMAIN chain, NEW s \in routes, s < chain[i]
  PROVE  \E j \in 1 .. i - 1 : s = chain[j]
<1>1. PICK j \in DOMAIN chain : s = chain[j]
  BY DEF Holds, Range
<1>2. j < i
  <2>1. i \in Nat /\ j \in Nat /\ chain[i] \in Nat /\ chain[j] \in Nat
    OBVIOUS
  <2>2. ~ (i < j)
    BY <1>1, <2>1 DEF Holds
  <2>3. i # j
    BY <1>1, <2>1
  <2> QED BY <2>1, <2>2, <2>3
<1> QED BY <1>1, <1>2

\* A registration has one tier, so the sets of a delivery are ranked apart.
LEMMA RankOf ==
  ASSUME NEW regs, NEW e, NEW r
  PROVE  /\ r \in OfTier(regs, "always") => Rank(regs, e, r) = 1
         /\ r \in SpecificTo(regs, e.kind, e.action) => Rank(regs, e, r) = 2
         /\ r \in KindWide(regs, e.kind) /\ r \notin SpecificTo(regs, e.kind, e.action)
              => Rank(regs, e, r) = 3
         /\ r \in OfTier(regs, "fallback") => Rank(regs, e, r) = 3
<1>1. r \in SpecificTo(regs, e.kind, e.action) => regs[r].tier = "on"
  BY DEF SpecificTo, Naming, OfTier
<1>2. r \in KindWide(regs, e.kind) => regs[r].tier = "on"
  BY DEF KindWide, Naming, OfTier
<1> QED BY <1>1, <1>2 DEF Rank, OfTier

\* What is due to a delivery whose meta decoded, and where it ranks.
LEMMA DueByRank ==
  ASSUME NEW regs, NEW e, e.meta_decodes, NEW r
  PROVE  r \in Due(regs, e) <=>
           \/ r \in OfTier(regs, "always") /\ Rank(regs, e, r) = 1
           \/ /\ MatchOf(regs, e) = "Matched"
              /\ \/ r \in SpecificTo(regs, e.kind, e.action) /\ Rank(regs, e, r) = 2
                 \/ /\ r \in KindWide(regs, e.kind)
                    /\ r \notin SpecificTo(regs, e.kind, e.action)
                    /\ Rank(regs, e, r) = 3
           \/ /\ MatchOf(regs, e) # "Matched"
              /\ r \in OfTier(regs, "fallback") /\ Rank(regs, e, r) = 3
<1>1. MatchOf(regs, e) = "Matched" <=> Routed(regs, e) # {}
  BY DEF MatchOf
<1>2. r \in Due(regs, e) <=>
        \/ r \in OfTier(regs, "always")
        \/ MatchOf(regs, e) = "Matched" /\ r \in Routed(regs, e)
        \/ MatchOf(regs, e) # "Matched" /\ r \in OfTier(regs, "fallback")
  BY <1>1 DEF Due
<1> QED BY <1>2, RankOf DEF Routed

-----------------------------------------------------------------------------
(* The cursor *)

\* The iterator's next item is the next registration due: it is due itself,
\* all that was passed goes before it, and nothing due before it was missed.
LEMMA NextIsDue ==
  ASSUME TableInv, NEW d \in Call, env[d] \in Envelope, Iterating(d),
         tier[d] \in {"always", "specific", "any_action", "fallback"},
         pos[d] \in Nat, NEW i \in DOMAIN Chain(d), NextAt(d, i)
  PROVE  LET r == Chain(d)[i]
             due == Due(registrations, env[d])
         IN  /\ r \in due
             /\ \A s \in Passed(d, pos[d]) : Before(registrations, env[d], s, r)
             /\ \A s \in due : Before(registrations, env[d], s, r) => s \in Passed(d, pos[d])
             /\ Passed(d, i) = Passed(d, pos[d]) \cup {r}
<1> DEFINE r == Chain(d)[i]
           e == env[d]
           rank(s) == Rank(registrations, e, s)
           specific == SpecificTo(registrations, e.kind, e.action)
<1>1. /\ Chain(d) \in Seq(Nat)
      /\ Holds(Chain(d), Holding(d))
      /\ Range(always) = OfTier(registrations, "always")
      /\ Range(Found(d).specific) = specific
      /\ Found(d).matched = MatchOf(registrations, e)
      /\ e.meta_decodes
  BY ChainHolds DEF Iterating
<1>2. /\ i \in Nat /\ pos[d] < i /\ r \in Nat
      /\ ~ Skipped(d, i)
      /\ \A j \in pos[d] + 1 .. i - 1 : Skipped(d, j)
  BY <1>1 DEF NextAt
<1>3. r \in Holding(d)
  BY <1>1 DEF Holds, Range
<1>4. \A j \in 1 .. i - 1 : /\ Chain(d)[j] \in Holding(d)
                           /\ Chain(d)[j] < r
  <2>1. \A j \in 1 .. i - 1 : j \in DOMAIN Chain(d) /\ j < i
    BY <1>1, <1>2
  <2> QED BY <1>1, <2>1 DEF Holds, Range
<1>5. \A s \in Holding(d) : s < r => \E j \in 1 .. i - 1 : s = Chain(d)[j]
  BY <1>1, PrefixClosed
<1>6. /\ tier[d] # "any_action" => i = pos[d] + 1
      /\ tier[d] = "any_action" =>
           /\ r \notin specific
           /\ \A j \in pos[d] + 1 .. i - 1 : Chain(d)[j] \in specific
  <2>1. ASSUME tier[d] # "any_action" PROVE i = pos[d] + 1
    <3>1. \A j : ~ Skipped(d, j)
      BY <2>1 DEF Skipped
    <3> QED BY <1>2, <3>1
  <2>2. ASSUME tier[d] = "any_action"
        PROVE  \A j : Skipped(d, j) <=> Chain(d)[j] \in specific
    BY <1>1, <2>2 DEF Skipped, Yields
  <2> QED BY <1>2, <2>1, <2>2
<1>7. Passed(d, i) = Passed(d, pos[d]) \cup {r}
  <2>1. {Chain(d)[j] : j \in 1 .. i} =
          {Chain(d)[j] : j \in 1 .. pos[d]} \cup
          {Chain(d)[j] : j \in pos[d] + 1 .. i - 1} \cup {r}
    <3>1. 1 .. i = (1 .. pos[d]) \cup (pos[d] + 1 .. i - 1) \cup {i}
      BY <1>2
    <3> QED BY <3>1
  <2>2. CASE tier[d] # "any_action"
    <3>1. pos[d] + 1 .. i - 1 = {}
      BY <1>2, <1>6, <2>2
    <3> QED BY <2>1, <3>1 DEF Passed
  <2>3. CASE tier[d] = "any_action"
    <3>1. {Chain(d)[j] : j \in pos[d] + 1 .. i - 1} \subseteq specific
      BY <1>6, <2>3
    <3>2. specific \subseteq Earlier(d)
      BY <1>1, <2>3 DEF Earlier
    <3> QED BY <2>1, <3>1, <3>2 DEF Passed
  <2> QED BY <2>2, <2>3
<1>8. \A s : s \in Due(registrations, e) <=>
        \/ s \in OfTier(registrations, "always") /\ rank(s) = 1
        \/ /\ Found(d).matched = "Matched"
           /\ \/ s \in specific /\ rank(s) = 2
              \/ s \in KindWide(registrations, e.kind) /\ s \notin specific /\ rank(s) = 3
        \/ /\ Found(d).matched # "Matched"
           /\ s \in OfTier(registrations, "fallback") /\ rank(s) = 3
  BY <1>1, DueByRank
<1>9. /\ \A s \in OfTier(registrations, "always") : rank(s) = 1
      /\ \A s \in specific : rank(s) = 2
      /\ \A s \in KindWide(registrations, e.kind) : s \notin specific => rank(s) = 3
      /\ \A s \in OfTier(registrations, "fallback") : rank(s) = 3
  BY RankOf
<1>10. \A s : Before(registrations, e, s, r) <=>
               \/ rank(s) < rank(r)
               \/ rank(s) = rank(r) /\ s < r
  BY DEF Before
<1>11. Passed(d, pos[d]) \subseteq Earlier(d) \cup {Chain(d)[j] : j \in 1 .. i - 1}
  <2>1. 1 .. pos[d] \subseteq 1 .. i - 1
    BY <1>2
  <2> QED BY <2>1 DEF Passed
<1>12. /\ Earlier(d) \subseteq Passed(d, pos[d])
       /\ \A s : (\E j \in 1 .. i - 1 : s = Chain(d)[j]) => s \in Passed(d, pos[d])
  <2>1. \A j \in 1 .. i - 1 : j \in 1 .. pos[d] \/ j \in pos[d] + 1 .. i - 1
    BY <1>2
  <2>2. \A j \in pos[d] + 1 .. i - 1 : Chain(d)[j] \in Earlier(d)
    BY <1>1, <1>2, <1>6 DEF Earlier
  <2> QED BY <2>1, <2>2 DEF Passed
<1>13. /\ tier[d] \in {"specific", "any_action"} => Found(d).matched = "Matched"
       /\ tier[d] = "fallback" => Found(d).matched # "Matched"
  BY DEF Iterating
<1> HIDE DEF r, e, rank, specific
<1>14. /\ r \in Due(registrations, e)
       /\ \A s \in Earlier(d) \cup {Chain(d)[j] : j \in 1 .. i - 1} :
            Before(registrations, e, s, r)
       /\ \A s \in Due(registrations, e) :
            Before(registrations, e, s, r) => s \in Passed(d, pos[d])
  <2>1. CASE tier[d] = "always"
    <3>1. /\ Earlier(d) = {}
          /\ Holding(d) = OfTier(registrations, "always")
      BY <2>1 DEF Earlier, Holding
    <3>2. rank(r) = 1
      BY <1>3, <1>9, <3>1
    <3> QED BY <1>3, <1>4, <1>5, <1>8, <1>9, <1>10, <1>12, <3>1, <3>2
  <2>2. CASE tier[d] = "specific"
    <3>1. /\ Earlier(d) = OfTier(registrations, "always")
          /\ Holding(d) = specific
      BY <1>1, <2>2 DEF Earlier, Holding, specific, e
    <3>2. rank(r) = 2
      BY <1>3, <1>9, <3>1
    <3> QED BY <1>3, <1>4, <1>5, <1>8, <1>9, <1>10, <1>12, <1>13, <2>2, <3>1, <3>2
  <2>3. CASE tier[d] = "any_action"
    <3>1. /\ Earlier(d) = OfTier(registrations, "always") \cup specific
          /\ Holding(d) = KindWide(registrations, e.kind)
      BY <1>1, <2>3 DEF Earlier, Holding, e
    <3>2. r \notin specific /\ rank(r) = 3
      BY <1>3, <1>6, <1>9, <2>3, <3>1
    <3> QED BY <1>3, <1>4, <1>5, <1>8, <1>9, <1>10, <1>12, <1>13, <2>3, <3>1, <3>2
  <2>4. CASE tier[d] = "fallback"
    <3>1. /\ Earlier(d) = OfTier(registrations, "always")
          /\ Holding(d) = OfTier(registrations, "fallback")
      BY <1>1, <2>4 DEF Earlier, Holding
    <3>2. rank(r) = 3
      BY <1>3, <1>9, <3>1
    <3> QED BY <1>3, <1>4, <1>5, <1>8, <1>9, <1>10, <1>12, <1>13, <2>4, <3>1, <3>2
  <2> QED BY <2>1, <2>2, <2>3, <2>4
<1> QED BY <1>7, <1>11, <1>14 DEF r, e

\* A chain that ran to its end was passed whole; when it is the last, what was
\* passed is everything due.
LEMMA EndOfChain ==
  ASSUME TableInv, NEW d \in Call, env[d] \in Envelope, Iterating(d),
         tier[d] \in {"always", "specific", "any_action", "fallback"},
         pos[d] \in Nat, pos[d] <= Len(Chain(d)), Exhausted(d)
  PROVE  /\ Passed(d, pos[d]) = Earlier(d) \cup Holding(d)
         /\ Following(d) = "none" => Passed(d, pos[d]) = Due(registrations, env[d])
<1> DEFINE e == env[d]
           specific == SpecificTo(registrations, e.kind, e.action)
<1>1. /\ Chain(d) \in Seq(Nat)
      /\ Range(Chain(d)) = Holding(d)
      /\ Range(always) = OfTier(registrations, "always")
      /\ Range(Found(d).specific) = specific
      /\ Found(d).matched = MatchOf(registrations, e)
      /\ e.meta_decodes
  BY ChainHolds DEF Iterating, Holds
<1>2. \A j \in pos[d] + 1 .. Len(Chain(d)) : Skipped(d, j)
  BY DEF Exhausted
<1>3. \A j \in pos[d] + 1 .. Len(Chain(d)) : Chain(d)[j] \in Earlier(d)
  BY <1>1, <1>2 DEF Skipped, Yields, Earlier
<1>4. Passed(d, pos[d]) = Earlier(d) \cup Holding(d)
  <2>0. Len(Chain(d)) \in Nat /\ DOMAIN Chain(d) = 1 .. Len(Chain(d))
    BY <1>1
  <2>1. DOMAIN Chain(d) = (1 .. pos[d]) \cup (pos[d] + 1 .. Len(Chain(d)))
    BY <2>0
  <2>2. Range(Chain(d)) = {Chain(d)[j] : j \in 1 .. pos[d]} \cup
                          {Chain(d)[j] : j \in pos[d] + 1 .. Len(Chain(d))}
    BY <2>1 DEF Range
  <2> QED BY <1>1, <1>3, <2>2 DEF Passed
<1>5. ASSUME Following(d) = "none" PROVE Passed(d, pos[d]) = Due(registrations, e)
  <2>1. tier[d] \in {"any_action", "fallback"}
    BY <1>5 DEF Following
  <2>2. CASE tier[d] = "any_action"
    <3>1. Earlier(d) \cup Holding(d) =
            OfTier(registrations, "always") \cup specific \cup KindWide(registrations, e.kind)
      BY <1>1, <2>2 DEF Earlier, Holding
    <3>2. Found(d).matched = "Matched"
      BY <2>2 DEF Iterating
    <3> QED BY <1>1, <1>4, <3>1, <3>2 DEF Due, MatchOf, Routed
  <2>3. CASE tier[d] = "fallback"
    <3>1. Earlier(d) \cup Holding(d) =
            OfTier(registrations, "always") \cup OfTier(registrations, "fallback")
      BY <1>1, <2>3 DEF Earlier, Holding
    <3>2. Found(d).matched # "Matched"
      BY <2>3 DEF Iterating
    <3> QED BY <1>1, <1>4, <3>1, <3>2 DEF Due, MatchOf
  <2> QED BY <2>1, <2>2, <2>3
<1> QED BY <1>4, <1>5 DEF e

-----------------------------------------------------------------------------
(* One call's step leaves the others' part of the invariant alone *)

\* With its table, envelope and chain, a call's view of them stays.
LEMMA SameView ==
  ASSUME UNCHANGED tableVars, NEW c \in Call, env'[c] = env[c], tier'[c] = tier[c]
  PROVE  /\ Found(c)' = Found(c)
         /\ Chain(c)' = Chain(c)
         /\ Earlier(c)' = Earlier(c)
<1>1. Found(c)' = Found(c)
  BY DEF Found, tableVars
<1>2. Chain(c)' = Chain(c) /\ Earlier(c)' = Earlier(c)
  BY <1>1 DEF Chain, Earlier, tableVars
<1> QED BY <1>1, <1>2

Untouched(c) ==
  /\ pc'[c] = pc[c] /\ env'[c] = env[c] /\ tier'[c] = tier[c]
  /\ pos'[c] = pos[c] /\ ran'[c] = ran[c] /\ outcome'[c] = outcome[c]

LEMMA UntouchedCall ==
  ASSUME UNCHANGED tableVars, NEW c \in Call, CallInv(c), Untouched(c)
  PROVE  CallInv(c)'
<1>1. /\ registrations' = registrations /\ built' = built
      /\ pc'[c] = pc[c] /\ env'[c] = env[c] /\ tier'[c] = tier[c]
      /\ pos'[c] = pos[c] /\ ran'[c] = ran[c] /\ outcome'[c] = outcome[c]
  BY DEF Untouched, tableVars
<1>2. /\ Found(c)' = Found(c) /\ Chain(c)' = Chain(c)
      /\ Passed(c, pos[c])' = Passed(c, pos[c])
  BY <1>1, SameView DEF Passed
<1>3. InOrder(c)' = InOrder(c) /\ Accounted(c)' = Accounted(c)
  BY <1>1 DEF InOrder, Accounted
<1>4. Iterating(c)' = Iterating(c) /\ Awaiting(c)' = Awaiting(c)
  BY <1>1, <1>2 DEF Iterating, Awaiting
<1> QED BY <1>1, <1>3, <1>4 DEF CallInv

\* So a step of one call is judged on that call.
LEMMA OneCallSteps ==
  ASSUME IInv, TypeOK', UNCHANGED tableVars, NEW d \in Call,
         \A c \in Call : c # d => Untouched(c),
         CallInv(d)'
  PROVE  IInv'
<1>1. TableHoldsRegistrations'
  BY DEF IInv, TableHoldsRegistrations, tableVars
<1>2. \A c \in Call : CallInv(c)'
  BY UntouchedCall DEF IInv
<1> QED BY <1>1, <1>2 DEF IInv

-----------------------------------------------------------------------------
(* Every step keeps the invariant *)

\* What the invariant says of a call that has a chain.
LEMMA CallFacts ==
  ASSUME IInv, NEW d \in Call
  PROVE  /\ TableInv
         /\ env[d] \in Envelope
         /\ tier[d] \in {"always", "specific", "any_action", "fallback"}
         /\ pos[d] \in Nat /\ pos[d] <= Len(Chain(d))
         /\ ran[d] \in Seq(Nat)
         /\ Chain(d) \in Seq(Nat)
         /\ Found(d).matched \in {"Matched", "UnmatchedAction", "UnmatchedKind"}
         /\ CallInv(d)
         /\ Iterating(d) => Found(d).matched = MatchOf(registrations, env[d])
<1>1. /\ TableInv
      /\ env[d] \in Envelope
      /\ tier[d] \in {"always", "specific", "any_action", "fallback"}
      /\ pos[d] \in Nat /\ pos[d] <= Len(Chain(d))
      /\ ran[d] \in Seq(Nat)
      /\ CallInv(d)
  BY EnvelopesAssumption DEF IInv, TypeOK, TableInv
<1> QED BY <1>1, ChainHolds DEF Iterating

\* Nothing ran: nothing is out of order.
LEMMA NothingRan ==
  ASSUME NEW d \in Call, ran[d] = <<>>
  PROVE  InOrder(d)
BY DEF InOrder, Range

\* The cursors of a step that keeps every chain and moves one cursor.
LEMMA CursorsStay ==
  ASSUME IInv, UNCHANGED tableVars, NEW d \in Call,
         \A c \in Call : c # d => Untouched(c),
         pos'[d] <= Len(Chain(d)'),
         pc' \in [Call -> {"idle", "chain", "handler", "done", "dropped"}],
         env' \in [Call -> Envelopes],
         tier' \in [Call -> {"always", "specific", "any_action", "fallback"}],
         pos' \in [Call -> Nat],
         ran' \in [Call -> Seq(Nat)],
         outcome' \in [Call -> Outcome]
  PROVE  TypeOK'
<1>1. TableTypeOK'
  BY DEF IInv, TypeOK, TableTypeOK, tableVars
<1>2. \A c \in Call : c # d => Chain(c)' = Chain(c)
  BY SameView DEF Untouched
<1>3. \A c \in Call : pos'[c] <= Len(Chain(c)')
  BY <1>2 DEF IInv, TypeOK, Untouched
<1> QED BY <1>1, <1>3 DEF TypeOK

LEMMA DispatchInv ==
  ASSUME IInv, NEW d \in Call, NEW e \in Envelopes, Dispatch(d, e)
  PROVE  IInv'
<1>1. /\ UNCHANGED tableVars
      /\ \A c \in Call : c # d => Untouched(c)
      /\ pc'[d] = "chain" /\ env'[d] = e
      /\ tier'[d] = "always" /\ pos'[d] = 0 /\ ran'[d] = <<>>
  BY DEF IInv, TypeOK, CallInv, Dispatch, Untouched
<1>2. Chain(d)' = always /\ Earlier(d)' = {} /\ always \in Seq(Nat)
  BY <1>1 DEF Chain, Earlier, IInv, TypeOK, TableTypeOK, tableVars
<1>3. TypeOK'
  <2>1. pos'[d] <= Len(Chain(d)')
    BY <1>1, <1>2
  <2>2. /\ pc' \in [Call -> {"idle", "chain", "handler", "done", "dropped"}]
        /\ env' \in [Call -> Envelopes]
        /\ UNCHANGED <<tier, pos, ran, outcome>>
    BY DEF IInv, TypeOK, Dispatch
  <2> QED BY <1>1, <2>1, <2>2, CursorsStay DEF IInv, TypeOK
<1>4. CallInv(d)'
  <2>1. InOrder(d)'
    BY <1>1 DEF InOrder, Range
  <2>2. Passed(d, 0)' = {}
    BY <1>2 DEF Passed
  <2>3. Iterating(d)'
    BY <1>1, <2>2 DEF Iterating, Range, Dispatch
  <2> QED BY <1>1, <2>1, <2>3 DEF CallInv, Dispatch, tableVars
<1> QED BY <1>1, <1>3, <1>4, OneCallSteps

LEMMA DispatchUndecodedInv ==
  ASSUME IInv, NEW d \in Call, NEW e \in Envelopes, DispatchUndecoded(d, e)
  PROVE  IInv'
<1>1. /\ UNCHANGED tableVars
      /\ \A c \in Call : c # d => Untouched(c)
      /\ pc'[d] = "done" /\ env'[d] = e
      /\ tier'[d] = "always" /\ pos'[d] = 0 /\ ran'[d] = <<>>
      /\ outcome'[d] = [matched |-> LookupKind(by_kind, e.kind), result |-> "Undecoded",
                        route |-> 0]
  BY DEF IInv, TypeOK, CallInv, DispatchUndecoded, Untouched
<1>2. Chain(d)' = always /\ always \in Seq(Nat)
  BY <1>1 DEF Chain, IInv, TypeOK, TableTypeOK, tableVars
<1>3. TypeOK'
  <2>1. outcome'[d] \in Outcome
    BY <1>1 DEF Outcome, LookupKind
  <2>2. pos'[d] <= Len(Chain(d)')
    BY <1>1, <1>2
  <2>3. /\ pc' \in [Call -> {"idle", "chain", "handler", "done", "dropped"}]
        /\ env' \in [Call -> Envelopes]
        /\ UNCHANGED <<tier, pos, ran>>
    BY DEF IInv, TypeOK, DispatchUndecoded
  <2>4. outcome' \in [Call -> Outcome]
    BY <1>1, <2>1 DEF IInv, TypeOK, DispatchUndecoded
  <2> QED BY <1>1, <2>2, <2>3, <2>4, CursorsStay DEF IInv, TypeOK
<1>4. CallInv(d)'
  <2>1. InOrder(d)'
    BY <1>1 DEF InOrder, Range
  <2>2. LookupKind(by_kind, e.kind) = MatchOf(registrations, e)
    BY DEF DispatchUndecoded, LookupKind, MatchOf, IInv, TableHoldsRegistrations
  <2>3. Due(registrations, e) = {}
    BY DEF DispatchUndecoded, Due
  <2>4. Accounted(d)'
    BY <1>1, <2>2, <2>3 DEF Accounted, Range, DispatchUndecoded, tableVars
  <2> QED BY <1>1, <2>1, <2>4 DEF CallInv, DispatchUndecoded, tableVars
<1> QED BY <1>1, <1>3, <1>4, OneCallSteps

\* A route appended to what ran, when it is the next one due.
LEMMA RunNext ==
  ASSUME NEW d \in Call, InOrder(d), ran[d] \in Seq(Nat), NEW r \in Nat,
         r \in Due(registrations, env[d]),
         \A s \in Range(ran[d]) : Before(registrations, env[d], s, r),
         \A s \in Due(registrations, env[d]) :
            Before(registrations, env[d], s, r) => s \in Range(ran[d]),
         registrations' = registrations, env'[d] = env[d],
         ran'[d] = Append(ran[d], r)
  PROVE  InOrder(d)' /\ Range(ran'[d]) = Range(ran[d]) \cup {r}
<1> DEFINE old == ran[d]
           new == ran'[d]
           due == Due(registrations, env[d])
           before(a, b) == Before(registrations, env[d], a, b)
<1>1. /\ Len(old) \in Nat
      /\ DOMAIN old = 1 .. Len(old)
      /\ DOMAIN new = 1 .. Len(old) + 1
      /\ new[Len(old) + 1] = r
      /\ \A i \in DOMAIN old : new[i] = old[i]
  OBVIOUS
<1>2. Range(new) = Range(old) \cup {r}
  <2>1. DOMAIN new = DOMAIN old \cup {Len(old) + 1}
    BY <1>1
  <2> QED BY <1>1, <2>1 DEF Range
<1>3. /\ Range(old) \subseteq due
      /\ \A i, j \in DOMAIN old : i < j => before(old[i], old[j])
      /\ \A a \in Range(old), s \in due : before(s, a) => s \in Range(old)
  BY DEF InOrder
<1>4. /\ r \in due
      /\ \A s \in Range(old) : before(s, r)
      /\ \A s \in due : before(s, r) => s \in Range(old)
  OBVIOUS
<1>5. Due(registrations', env'[d]) = due
  OBVIOUS
<1>6. \A a, b : Before(registrations', env'[d], a, b) <=> before(a, b)
  OBVIOUS
<1> HIDE DEF old, new, due, before
<1>7. ASSUME NEW i \in DOMAIN new, NEW j \in DOMAIN new, i < j
      PROVE  before(new[i], new[j])
  <2>1. i \in DOMAIN old
    BY <1>1, <1>7
  <2>2. CASE j \in DOMAIN old
    BY <1>1, <1>3, <1>7, <2>1, <2>2
  <2>3. CASE j = Len(old) + 1
    BY <1>1, <1>4, <2>1, <2>3 DEF Range
  <2> QED BY <1>1, <2>2, <2>3
<1>8. /\ Range(new) \subseteq due
      /\ \A a \in Range(new), s \in due : before(s, a) => s \in Range(new)
  BY <1>2, <1>3, <1>4
<1>9. InOrder(d)'
  BY <1>5, <1>6, <1>7, <1>8 DEF InOrder, new
<1> QED BY <1>2, <1>9 DEF old, new

LEMMA StartHandlerInv ==
  ASSUME IInv, NEW d \in Call, StartHandler(d)
  PROVE  IInv'
<1>1. PICK i \in DOMAIN Chain(d) :
        /\ NextAt(d, i)
        /\ Decodes(registrations, env[d], Chain(d)[i])
        /\ pos' = [pos EXCEPT ![d] = i]
        /\ ran' = [ran EXCEPT ![d] = Append(@, Chain(d)[i])]
  BY DEF StartHandler
<1> DEFINE r == Chain(d)[i]
<1>2. /\ TableInv /\ env[d] \in Envelope
      /\ tier[d] \in {"always", "specific", "any_action", "fallback"}
      /\ pos[d] \in Nat /\ ran[d] \in Seq(Nat)
      /\ Chain(d) \in Seq(Nat) /\ i \in Nat /\ i <= Len(Chain(d)) /\ r \in Nat
      /\ built /\ InOrder(d) /\ Iterating(d)
      /\ Range(ran[d]) = Passed(d, pos[d])
  BY CallFacts DEF CallInv, StartHandler, Iterating
<1>3. /\ UNCHANGED tableVars
      /\ \A c \in Call : c # d => Untouched(c)
      /\ pc'[d] = "handler" /\ env'[d] = env[d] /\ tier'[d] = tier[d]
      /\ pos'[d] = i /\ ran'[d] = Append(ran[d], r)
      /\ built' = built /\ registrations' = registrations
  BY <1>1 DEF IInv, TypeOK, StartHandler, Untouched, tableVars
<1>4. /\ Found(d)' = Found(d) /\ Chain(d)' = Chain(d) /\ Earlier(d)' = Earlier(d)
  BY <1>3, SameView
<1>5. /\ r \in Due(registrations, env[d])
      /\ \A s \in Passed(d, pos[d]) : Before(registrations, env[d], s, r)
      /\ \A s \in Due(registrations, env[d]) :
           Before(registrations, env[d], s, r) => s \in Passed(d, pos[d])
      /\ Passed(d, i) = Passed(d, pos[d]) \cup {r}
  BY <1>1, <1>2, NextIsDue
<1> HIDE DEF r
<1>6. InOrder(d)' /\ Range(ran'[d]) = Range(ran[d]) \cup {r}
  <2>1. /\ InOrder(d) /\ ran[d] \in Seq(Nat) /\ r \in Nat
        /\ r \in Due(registrations, env[d])
        /\ \A s \in Range(ran[d]) : Before(registrations, env[d], s, r)
        /\ \A s \in Due(registrations, env[d]) :
             Before(registrations, env[d], s, r) => s \in Range(ran[d])
    BY <1>2, <1>5 DEF r
  <2>2. /\ registrations' = registrations /\ env'[d] = env[d]
        /\ ran'[d] = Append(ran[d], r)
    BY <1>3
  <2> QED BY <2>1, <2>2, RunNext
<1>7. Iterating(d)'
  <2>1. Passed(d, i)' = Passed(d, i)
    BY <1>4 DEF Passed
  <2>2. Range(ran'[d]) = Passed(d, pos[d])'
    BY <1>2, <1>3, <1>5, <1>6, <2>1 DEF Passed
  <2> QED BY <1>2, <1>3, <1>4, <2>2 DEF Iterating
<1>8. Awaiting(d)'
  <2>1. ran'[d] # <<>> /\ ran'[d][Len(ran'[d])] = r
    <3>1. \A s \in Seq(Nat), n \in Nat :
            Append(s, n) # <<>> /\ Append(s, n)[Len(Append(s, n))] = n
      OBVIOUS
    <3>2. ran[d] \in Seq(Nat) /\ r \in Nat /\ ran'[d] = Append(ran[d], r)
      BY <1>2, <1>3 DEF r
    <3> QED BY <3>1, <3>2
  <2> QED BY <1>1, <1>3, <1>4, <2>1 DEF Awaiting, r
<1>9. CallInv(d)'
  BY <1>2, <1>3, <1>6, <1>7, <1>8 DEF CallInv
<1>10. TypeOK'
  <2>1. /\ pc' \in [Call -> {"idle", "chain", "handler", "done", "dropped"}]
        /\ pos' \in [Call -> Nat]
        /\ UNCHANGED <<env, tier, outcome>>
    BY <1>1, <1>2 DEF IInv, TypeOK, StartHandler
  <2>2. ran' \in [Call -> Seq(Nat)]
    BY <1>1, <1>2 DEF IInv, TypeOK, r
  <2> QED BY <1>2, <1>3, <1>4, <2>1, <2>2, CursorsStay DEF IInv, TypeOK
<1> QED BY <1>3, <1>9, <1>10, OneCallSteps

LEMMA FailDecodeInv ==
  ASSUME IInv, NEW d \in Call, FailDecode(d)
  PROVE  IInv'
<1>1. PICK i \in DOMAIN Chain(d) :
        /\ NextAt(d, i)
        /\ ~ Decodes(registrations, env[d], Chain(d)[i])
        /\ pos' = [pos EXCEPT ![d] = i]
        /\ Return(d, "Failed", Chain(d)[i])
  BY DEF FailDecode
<1> DEFINE r == Chain(d)[i]
<1>2. /\ TableInv /\ env[d] \in Envelope
      /\ tier[d] \in {"always", "specific", "any_action", "fallback"}
      /\ pos[d] \in Nat
      /\ Chain(d) \in Seq(Nat) /\ i \in Nat /\ i <= Len(Chain(d)) /\ r \in Nat
      /\ built /\ InOrder(d) /\ Iterating(d) /\ env[d].meta_decodes
      /\ Range(ran[d]) = Passed(d, pos[d])
      /\ Found(d).matched \in {"Matched", "UnmatchedAction", "UnmatchedKind"}
      /\ Found(d).matched = MatchOf(registrations, env[d])
  BY CallFacts DEF CallInv, FailDecode, Iterating
<1>3. /\ UNCHANGED tableVars
      /\ \A c \in Call : c # d => Untouched(c)
      /\ pc'[d] = "done" /\ env'[d] = env[d] /\ tier'[d] = tier[d]
      /\ pos'[d] = i /\ ran'[d] = ran[d]
      /\ outcome'[d] = [matched |-> Found(d).matched, result |-> "Failed", route |-> r]
      /\ built' = built /\ registrations' = registrations
  BY <1>1 DEF IInv, TypeOK, FailDecode, Return, Untouched, tableVars
<1>4. Chain(d)' = Chain(d)
  BY <1>3, SameView
<1>5. /\ r \in Due(registrations, env[d])
      /\ \A s \in Passed(d, pos[d]) : Before(registrations, env[d], s, r)
      /\ \A s \in Due(registrations, env[d]) :
           Before(registrations, env[d], s, r) => s \in Passed(d, pos[d])
  BY <1>1, <1>2, NextIsDue
<1>6. InOrder(d)'
  BY <1>2, <1>3 DEF InOrder
<1>7. Range(ran[d]) =
        {s \in Due(registrations, env[d]) : Before(registrations, env[d], s, r)}
  BY <1>2, <1>5 DEF InOrder
<1>8. ~ Decodes(registrations, env[d], r)
  BY <1>1
<1> HIDE DEF r
<1>9. Accounted(d)'
  BY <1>2, <1>3, <1>5, <1>7, <1>8 DEF Accounted
<1>10. CallInv(d)'
  BY <1>2, <1>3, <1>6, <1>9 DEF CallInv
<1>11. TypeOK'
  <2>1. /\ pc' \in [Call -> {"idle", "chain", "handler", "done", "dropped"}]
        /\ pos' \in [Call -> Nat]
        /\ UNCHANGED <<env, tier, ran>>
    BY <1>1, <1>2 DEF IInv, TypeOK, FailDecode, Return
  <2>2. outcome' \in [Call -> Outcome]
    BY <1>1, <1>2 DEF IInv, TypeOK, Return, Outcome, r
  <2> QED BY <1>2, <1>3, <1>4, <2>1, <2>2, CursorsStay DEF IInv, TypeOK
<1> QED BY <1>3, <1>10, <1>11, OneCallSteps

LEMMA HandlerOkInv ==
  ASSUME IInv, NEW d \in Call, HandlerOk(d)
  PROVE  IInv'
<1>1. /\ UNCHANGED tableVars
      /\ \A c \in Call : c # d => Untouched(c)
      /\ pc'[d] = "chain" /\ env'[d] = env[d] /\ tier'[d] = tier[d]
      /\ pos'[d] = pos[d] /\ ran'[d] = ran[d]
      /\ built' = built /\ registrations' = registrations
  BY DEF IInv, TypeOK, HandlerOk, Untouched, tableVars
<1>2. built /\ InOrder(d) /\ Iterating(d) /\ pos[d] <= Len(Chain(d))
  BY CallFacts DEF CallInv, HandlerOk
<1>3. Found(d)' = Found(d) /\ Chain(d)' = Chain(d) /\ Earlier(d)' = Earlier(d)
  BY <1>1, SameView
<1>4. InOrder(d)' /\ Iterating(d)'
  BY <1>1, <1>2, <1>3 DEF InOrder, Iterating, Passed
<1>5. CallInv(d)'
  BY <1>1, <1>2, <1>4 DEF CallInv
<1>6. pc' \in [Call -> {"idle", "chain", "handler", "done", "dropped"}]
      /\ UNCHANGED <<env, tier, pos, ran, outcome>>
  BY DEF IInv, TypeOK, HandlerOk
<1>7. TypeOK'
  BY <1>1, <1>2, <1>3, <1>6, CursorsStay DEF IInv, TypeOK
<1> QED BY <1>1, <1>5, <1>7, OneCallSteps

LEMMA HandlerErrInv ==
  ASSUME IInv, NEW d \in Call, HandlerErr(d)
  PROVE  IInv'
<1> DEFINE r == Chain(d)[pos[d]]
           due == Due(registrations, env[d])
           before(s) == Before(registrations, env[d], s, r)
<1>1. /\ env[d] \in Envelope /\ env[d].meta_decodes
      /\ Chain(d) \in Seq(Nat) /\ pos[d] \in DOMAIN Chain(d) /\ r \in Nat
      /\ pos[d] <= Len(Chain(d))
      /\ ran[d] \in Seq(Nat) /\ ran[d] # <<>> /\ ran[d][Len(ran[d])] = r
      /\ built /\ InOrder(d)
      /\ Decodes(registrations, env[d], r)
      /\ Found(d).matched \in {"Matched", "UnmatchedAction", "UnmatchedKind"}
      /\ Found(d).matched = MatchOf(registrations, env[d])
  BY CallFacts DEF CallInv, HandlerErr, Iterating, Awaiting
<1>2. /\ UNCHANGED tableVars
      /\ \A c \in Call : c # d => Untouched(c)
      /\ pc'[d] = "done" /\ env'[d] = env[d] /\ tier'[d] = tier[d]
      /\ pos'[d] = pos[d] /\ ran'[d] = ran[d]
      /\ outcome'[d] = [matched |-> Found(d).matched, result |-> "Failed", route |-> r]
      /\ built' = built /\ registrations' = registrations
  BY DEF IInv, TypeOK, HandlerErr, Return, Untouched, tableVars
<1>3. Chain(d)' = Chain(d)
  BY <1>2, SameView
<1>4. InOrder(d)'
  BY <1>1, <1>2 DEF InOrder
<1>5. r \in due /\ Range(ran[d]) = {s \in due : before(s)} \cup {r}
  <2>1. Len(ran[d]) \in DOMAIN ran[d] /\ \A j \in DOMAIN ran[d] : j = Len(ran[d]) \/ j < Len(ran[d])
    BY <1>1
  <2>2. r \in Range(ran[d])
    BY <1>1, <2>1 DEF Range
  <2>3. \A s \in Range(ran[d]) : s = r \/ before(s)
    BY <1>1, <2>1 DEF Range, InOrder
  <2> QED BY <1>1, <2>2, <2>3 DEF InOrder
<1> HIDE DEF r
<1>6. Accounted(d)'
  BY <1>1, <1>2, <1>5 DEF Accounted
<1>7. CallInv(d)'
  BY <1>1, <1>2, <1>4, <1>6 DEF CallInv
<1>8. TypeOK'
  <2>1. /\ pc' \in [Call -> {"idle", "chain", "handler", "done", "dropped"}]
        /\ UNCHANGED <<env, tier, pos, ran>>
    BY DEF IInv, TypeOK, HandlerErr, Return
  <2>2. outcome' \in [Call -> Outcome]
    BY <1>1 DEF IInv, TypeOK, HandlerErr, Return, Outcome, r
  <2> QED BY <1>1, <1>2, <1>3, <2>1, <2>2, CursorsStay DEF IInv, TypeOK
<1> QED BY <1>2, <1>7, <1>8, OneCallSteps

LEMMA DropInv ==
  ASSUME IInv, NEW d \in Call, Drop(d)
  PROVE  IInv'
<1>1. /\ UNCHANGED tableVars
      /\ \A c \in Call : c # d => Untouched(c)
      /\ pc'[d] = "dropped" /\ env'[d] = env[d] /\ tier'[d] = tier[d]
      /\ pos'[d] = pos[d] /\ ran'[d] = ran[d]
      /\ built' = built /\ registrations' = registrations
  BY DEF IInv, TypeOK, Drop, Untouched, tableVars
<1>2. built /\ InOrder(d) /\ pos[d] <= Len(Chain(d))
  BY CallFacts DEF CallInv, Drop
<1>3. Chain(d)' = Chain(d)
  BY <1>1, SameView
<1>4. InOrder(d)'
  BY <1>1, <1>2 DEF InOrder
<1>5. CallInv(d)'
  BY <1>1, <1>2, <1>4 DEF CallInv
<1>6. pc' \in [Call -> {"idle", "chain", "handler", "done", "dropped"}]
      /\ UNCHANGED <<env, tier, pos, ran, outcome>>
  BY DEF IInv, TypeOK, Drop
<1>7. TypeOK'
  BY <1>1, <1>2, <1>3, <1>6, CursorsStay DEF IInv, TypeOK
<1> QED BY <1>1, <1>5, <1>7, OneCallSteps

\* The next chain begins: all of the last one is behind its cursor.
LEMMA EnterInv ==
  ASSUME IInv, NEW d \in Call, NextChain(d), Following(d) # "none"
  PROVE  IInv'
<1>1. /\ TableInv /\ env[d] \in Envelope
      /\ tier[d] \in {"always", "specific", "any_action", "fallback"}
      /\ pos[d] \in Nat /\ pos[d] <= Len(Chain(d))
      /\ built /\ InOrder(d) /\ Iterating(d)
      /\ Range(ran[d]) = Passed(d, pos[d])
      /\ Exhausted(d)
  BY CallFacts DEF CallInv, NextChain, Iterating
<1>2. /\ tier' = [tier EXCEPT ![d] = Following(d)]
      /\ pos' = [pos EXCEPT ![d] = 0]
      /\ UNCHANGED <<tableVars, pc, env, ran, outcome>>
  BY DEF NextChain, Enter
<1>3. /\ UNCHANGED tableVars
      /\ \A c \in Call : c # d => Untouched(c)
      /\ pc'[d] = "chain" /\ env'[d] = env[d] /\ tier'[d] = Following(d)
      /\ pos'[d] = 0 /\ ran'[d] = ran[d]
      /\ built' = built /\ registrations' = registrations
  BY <1>2 DEF IInv, TypeOK, NextChain, Untouched, tableVars
<1>4. /\ \/ tier[d] = "always" /\ Following(d) \in {"specific", "fallback"}
         \/ tier[d] = "specific" /\ Following(d) = "any_action"
      /\ Following(d) = "specific" => Found(d).matched = "Matched"
      /\ Following(d) = "fallback" => Found(d).matched # "Matched"
  BY DEF Following
<1>5. /\ always \in Seq(Nat) /\ fallback \in Seq(Nat)
      /\ Found(d).specific \in Seq(Nat) /\ Found(d).any_action \in Seq(Nat)
      /\ Range(always) = OfTier(registrations, "always")
      /\ Range(Found(d).specific) = SpecificTo(registrations, env[d].kind, env[d].action)
  BY <1>1, LookupHolds, ChainHolds DEF Found, TableInv, TableTypeOK
<1>6. Found(d)' = Found(d)
  BY <1>3 DEF Found, tableVars
<1>7. Passed(d, pos[d])' = Passed(d, pos[d])
  <2>1. Passed(d, pos[d]) = Earlier(d) \cup Holding(d)
    BY <1>1, EndOfChain
  <2>2. Passed(d, pos[d])' = Earlier(d)'
    BY <1>3 DEF Passed
  <2>3. CASE tier[d] = "always"
    <3>1. Earlier(d)' = Range(always)
      BY <1>3, <1>4, <2>3 DEF Earlier, tableVars
    <3> QED BY <1>5, <2>1, <2>2, <2>3, <3>1 DEF Earlier, Holding
  <2>4. CASE tier[d] = "specific"
    <3>1. Earlier(d)' = Range(always) \cup Range(Found(d).specific)
      BY <1>3, <1>4, <1>6, <2>4 DEF Earlier, tableVars
    <3> QED BY <1>5, <2>1, <2>2, <2>4, <3>1 DEF Earlier, Holding
  <2> QED BY <1>4, <2>3, <2>4
<1>8. Iterating(d)'
  <2>1. Found(d).matched = "Matched" \/ tier[d] = "always"
    BY <1>1, <1>4 DEF Iterating
  <2>2. /\ tier'[d] \in {"specific", "any_action"} => Found(d).matched = "Matched"
        /\ tier'[d] = "fallback" => Found(d).matched # "Matched"
    BY <1>3, <1>4, <2>1
  <2>3. Range(ran'[d]) = Passed(d, pos[d])'
    BY <1>1, <1>3, <1>7
  <2> QED BY <1>1, <1>3, <1>6, <2>2, <2>3 DEF Iterating
<1>9. InOrder(d)'
  BY <1>1, <1>3 DEF InOrder
<1>10. CallInv(d)'
  BY <1>1, <1>3, <1>8, <1>9 DEF CallInv
<1>11. TypeOK'
  <2>1. Chain(d)' \in Seq(Nat)
    BY <1>3, <1>4, <1>5, <1>6 DEF Chain, tableVars
  <2>2. pos'[d] <= Len(Chain(d)')
    BY <1>3, <2>1
  <2>3. /\ tier' \in [Call -> {"always", "specific", "any_action", "fallback"}]
        /\ pos' \in [Call -> Nat]
    BY <1>2, <1>4 DEF IInv, TypeOK
  <2> QED BY <1>2, <1>3, <2>2, <2>3, CursorsStay DEF IInv, TypeOK
<1> QED BY <1>3, <1>10, <1>11, OneCallSteps

\* The last chain ran to its end: everything due ran.
LEMMA SucceedInv ==
  ASSUME IInv, NEW d \in Call, NextChain(d), Following(d) = "none"
  PROVE  IInv'
<1>1. /\ TableInv /\ env[d] \in Envelope
      /\ tier[d] \in {"always", "specific", "any_action", "fallback"}
      /\ pos[d] \in Nat /\ pos[d] <= Len(Chain(d))
      /\ built /\ InOrder(d) /\ Iterating(d) /\ env[d].meta_decodes
      /\ Range(ran[d]) = Passed(d, pos[d])
      /\ Found(d).matched \in {"Matched", "UnmatchedAction", "UnmatchedKind"}
      /\ Found(d).matched = MatchOf(registrations, env[d])
      /\ Exhausted(d)
  BY CallFacts DEF CallInv, NextChain, Iterating
<1>2. Return(d, "Ok", 0) /\ UNCHANGED <<tableVars, env, tier, pos, ran>>
  BY DEF NextChain
<1>3. /\ UNCHANGED tableVars
      /\ \A c \in Call : c # d => Untouched(c)
      /\ pc'[d] = "done" /\ env'[d] = env[d] /\ tier'[d] = tier[d]
      /\ pos'[d] = pos[d] /\ ran'[d] = ran[d]
      /\ outcome'[d] = [matched |-> Found(d).matched, result |-> "Ok", route |-> 0]
      /\ built' = built /\ registrations' = registrations
  BY <1>2 DEF IInv, TypeOK, Return, Untouched, tableVars
<1>4. Range(ran[d]) = Due(registrations, env[d])
  BY <1>1, EndOfChain
<1>5. InOrder(d)'
  BY <1>1, <1>3 DEF InOrder
<1>6. Accounted(d)'
  BY <1>1, <1>3, <1>4 DEF Accounted
<1>7. CallInv(d)'
  BY <1>1, <1>3, <1>5, <1>6 DEF CallInv
<1>8. TypeOK'
  <2>1. Chain(d)' = Chain(d)
    BY <1>3, SameView
  <2>2. pc' \in [Call -> {"idle", "chain", "handler", "done", "dropped"}]
    BY <1>2 DEF IInv, TypeOK, Return
  <2>3. outcome' \in [Call -> Outcome]
    BY <1>1, <1>2 DEF IInv, TypeOK, Return, Outcome
  <2> QED BY <1>1, <1>2, <1>3, <2>1, <2>2, <2>3, CursorsStay DEF IInv, TypeOK
<1> QED BY <1>3, <1>7, <1>8, OneCallSteps

\* A registration finds every call idle: dispatching needs the built table.
LEMMA BuildingStepInv ==
  ASSUME IInv, [Building]_tableVars, UNCHANGED callVars
  PROVE  IInv'
<1>1. TableInv'
  BY BuildingInv DEF IInv, TypeOK, TableInv
<1>2. CASE UNCHANGED tableVars
  <2>1. \A c \in Call : Chain(c)' = Chain(c)
    BY <1>2, SameView DEF callVars
  <2>2. TypeOK'
    BY <1>1, <2>1 DEF IInv, TypeOK, callVars, TableInv
  <2>3. \A c \in Call : CallInv(c)'
    BY <1>2, UntouchedCall DEF Untouched, callVars, IInv
  <2> QED BY <1>1, <2>2, <2>3 DEF IInv, TableInv
<1>3. CASE Building
  <2>1. ~ built
    BY <1>3 DEF Building, Always, On, Handle, Fallback, Build, Register
  <2>2. \A c \in Call : /\ pc[c] = "idle"
                       /\ tier[c] = "always" /\ pos[c] = 0 /\ ran[c] = <<>>
    BY <2>1 DEF IInv, CallInv, TypeOK
  <2>3. \A c \in Call : Chain(c)' = always'
    BY <2>2 DEF Chain, callVars
  <2>4. always' \in Seq(Nat)
    BY <1>1 DEF TableInv, TableTypeOK
  <2>5. \A c \in Call : pos'[c] <= Len(Chain(c)')
    BY <2>2, <2>3, <2>4 DEF callVars
  <2>6. TypeOK'
    BY <1>1, <2>5 DEF IInv, TypeOK, callVars, TableInv
  <2>7. \A c \in Call : CallInv(c)'
    BY <2>2 DEF CallInv, callVars
  <2> QED BY <1>1, <2>6, <2>7 DEF IInv, TableInv
<1> QED BY <1>2, <1>3

LEMMA InitInv == Init => IInv
<1> SUFFICES ASSUME Init PROVE IInv
  OBVIOUS
<1>1. TableInv
  BY BuilderInitInv DEF Init
<1>2. (CHOOSE e \in Envelopes : TRUE) \in Envelopes
  BY EnvelopesExist
<1>3. \A c \in Call : Chain(c) = <<>>
  BY DEF Init, BuilderInit, Chain
<1>4. NoOutcome \in Outcome
  BY DEF NoOutcome, Outcome
<1>5. TypeOK
  BY <1>1, <1>2, <1>3, <1>4 DEF Init, TypeOK, TableInv
<1>6. \A c \in Call : CallInv(c)
  BY DEF Init, CallInv
<1> QED BY <1>1, <1>5, <1>6 DEF IInv, TableInv

LEMMA NextInv == IInv /\ [Next]_vars => IInv'
<1> SUFFICES ASSUME IInv, [Next]_vars PROVE IInv'
  OBVIOUS
<1>1. CASE Building /\ UNCHANGED callVars
  BY <1>1, BuildingStepInv
<1>2. CASE UNCHANGED vars
  BY <1>2, BuildingStepInv DEF vars
<1>3. ASSUME NEW d \in Call, Dispatching(d) PROVE IInv'
  <2>1. ASSUME NEW e \in Envelopes, Dispatch(d, e) PROVE IInv'
    BY <2>1, DispatchInv
  <2>2. ASSUME NEW e \in Envelopes, DispatchUndecoded(d, e) PROVE IInv'
    BY <2>2, DispatchUndecodedInv
  <2>3. CASE StartHandler(d)
    BY <2>3, StartHandlerInv
  <2>4. CASE FailDecode(d)
    BY <2>4, FailDecodeInv
  <2>5. CASE NextChain(d)
    BY <2>5, EnterInv, SucceedInv
  <2>6. CASE HandlerOk(d)
    BY <2>6, HandlerOkInv
  <2>7. CASE HandlerErr(d)
    BY <2>7, HandlerErrInv
  <2>8. CASE Drop(d)
    BY <2>8, DropInv
  <2> QED BY <1>3, <2>1, <2>2, <2>3, <2>4, <2>5, <2>6, <2>7, <2>8 DEF Dispatching, Advance
<1> QED BY <1>1, <1>2, <1>3 DEF Next

-----------------------------------------------------------------------------
(* Theorems *)

\* IInv is an invariant of every program that builds and dispatches.
THEOREM DispatcherInvariant == Spec => []IInv
<1> QED BY InitInv, NextInv, PTL DEF Spec

\* Every cursor stays in its chain, every history and outcome has its type.
THEOREM TypeCorrect == Spec => []TypeOK
<1>1. IInv => TypeOK
  BY DEF IInv
<1> QED BY <1>1, DispatcherInvariant, PTL

\* Whatever the program registered, and however many deliveries it dispatches
\* at once, handlers run once each, in the promised order, with none passed over.
THEOREM HandlersRunInOrder == Spec => []RunsInOrder
<1>1. IInv => RunsInOrder
  BY DEF IInv, CallInv, RunsInOrder
<1> QED BY <1>1, DispatcherInvariant, PTL

\* The outcome accounts for exactly the handlers that ran, and its match is the
\* registrations' own.
THEOREM OutcomesAccount == Spec => []OutcomeAccountsForTheRun
<1>1. IInv => OutcomeAccountsForTheRun
  BY DEF IInv, CallInv, OutcomeAccountsForTheRun
<1> QED BY <1>1, DispatcherInvariant, PTL

-----------------------------------------------------------------------------
(***************************************************************************)
(* The dispatcher keeps its contract: every behaviour of the table, the    *)
(* chains and the cursor is one the contract allows on the registrations   *)
(* alone. The inductive invariant supplies what the cursor stands for.     *)
(***************************************************************************)

\* The contract reads the registrations as Selection does.
LEMMA SameSelection ==
  /\ Contract!Envelope = Envelope
  /\ Contract!Registration = Registration
  /\ \A f : Contract!Range(f) = Range(f)
  /\ \A regs, e : Contract!Due(regs, e) = Due(regs, e)
  /\ \A regs, e : Contract!MatchOf(regs, e) = MatchOf(regs, e)
  /\ \A regs, e, r : Contract!Decodes(regs, e, r) <=> Decodes(regs, e, r)
  /\ \A regs, e, r, s : Contract!Before(regs, e, r, s) <=> Before(regs, e, r, s)
<1>1. /\ Contract!Envelope = Envelope
      /\ Contract!Registration = Registration
  BY DEF Contract!Envelope, Envelope, Contract!Registration, Registration,
         Contract!Slot, Slot, Contract!Input, Input
<1>2. \A f : Contract!Range(f) = Range(f)
  BY DEF Contract!Range, Range
<1>3. \A regs, t : Contract!OfTier(regs, t) = OfTier(regs, t)
  BY DEF Contract!OfTier, OfTier
<1>4. \A regs, slot : Contract!Naming(regs, slot) = Naming(regs, slot)
  BY <1>3 DEF Contract!Naming, Naming
<1>5. /\ \A regs, k : Contract!KindWide(regs, k) = KindWide(regs, k)
      /\ \A regs, k, a : Contract!SpecificTo(regs, k, a) = SpecificTo(regs, k, a)
      /\ \A regs : Contract!KindsNamed(regs) = KindsNamed(regs)
  BY <1>3, <1>4 DEF Contract!KindWide, KindWide, Contract!SpecificTo, SpecificTo,
                    Contract!KindsNamed, KindsNamed
<1>6. \A regs, e : Contract!Routed(regs, e) = Routed(regs, e)
  BY <1>5 DEF Contract!Routed, Routed
<1>7. /\ \A regs, e : Contract!MatchOf(regs, e) = MatchOf(regs, e)
      /\ \A regs, e : Contract!Due(regs, e) = Due(regs, e)
  BY <1>3, <1>5, <1>6 DEF Contract!MatchOf, MatchOf, Contract!Due, Due
<1>8. \A regs, e, r : Contract!Rank(regs, e, r) = Rank(regs, e, r)
  BY <1>5 DEF Contract!Rank, Rank
<1>9. \A regs, e, r, s : Contract!Before(regs, e, r, s) <=> Before(regs, e, r, s)
  BY <1>8 DEF Contract!Before, Before
<1>10. \A regs, e, r : Contract!Decodes(regs, e, r) <=> Decodes(regs, e, r)
  BY DEF Contract!Decodes, Decodes
<1> QED BY <1>1, <1>2, <1>7, <1>9, <1>10

\* A call's place as the contract sees it.
PhaseOf(place) ==
  CASE place = "chain" -> "open"
    [] place = "handler" -> "running"
    [] OTHER -> place

LEMMA PhaseIs == phase = [d \in Call |-> PhaseOf(pc[d])]
BY DEF phase, PhaseOf

\* One call's place changes as its phase does.
LEMMA PhaseMoves ==
  ASSUME TypeOK, NEW d \in Call, NEW to, pc' = [pc EXCEPT ![d] = to]
  PROVE  Contract!Move(d, PhaseOf(to))
<1>1. phase' = [c \in Call |-> PhaseOf(pc'[c])]
  BY DEF phase, PhaseOf
<1>2. \A c \in Call : pc'[c] = IF c = d THEN to ELSE pc[c]
  BY DEF TypeOK
<1>3. phase' = [phase EXCEPT ![d] = PhaseOf(to)]
  BY <1>1, <1>2, PhaseIs
<1> QED BY <1>3 DEF Contract!Move

\* A dispatch that returns answers the caller, with the match it was promised.
LEMMA Answers ==
  ASSUME TypeOK, NEW d \in Call, NEW e, NEW result, NEW route,
         pc' = [pc EXCEPT ![d] = "done"],
         outcome' = [outcome EXCEPT ![d] =
           [matched |-> MatchOf(registrations, e), result |-> result, route |-> route]]
  PROVE  Contract!Answer(d, e, result, route)
<1>1. Contract!Move(d, "done")
  BY PhaseMoves DEF PhaseOf
<1> QED BY <1>1, SameSelection DEF Contract!Answer

\* Two registrations are never level.
LEMMA BeforeIsTotal ==
  ASSUME NEW regs, NEW e, NEW r \in Nat, NEW s \in Nat
  PROVE  /\ r = s \/ Before(regs, e, r, s) \/ Before(regs, e, s, r)
         /\ ~ Before(regs, e, r, r)
<1>1. Rank(regs, e, r) \in 1 .. 3 /\ Rank(regs, e, s) \in 1 .. 3
  BY DEF Rank
<1> QED BY <1>1 DEF Before

\* The iterator's next item is the contract's next handler.
LEMMA NextIsNext ==
  ASSUME IInv, NEW d \in Call, pc[d] = "chain", NEW i \in DOMAIN Chain(d), NextAt(d, i)
  PROVE  Chain(d)[i] \in Contract!Remaining(d) /\ Contract!IsNext(d, Chain(d)[i])
<1> DEFINE r == Chain(d)[i]
           due == Due(registrations, env[d])
<1>1. /\ TableInv /\ env[d] \in Envelope
      /\ tier[d] \in {"always", "specific", "any_action", "fallback"}
      /\ pos[d] \in Nat /\ Chain(d) \in Seq(Nat) /\ r \in Nat
      /\ Iterating(d) /\ Range(ran[d]) = Passed(d, pos[d])
  BY CallFacts DEF CallInv, Iterating
<1>2. /\ r \in due
      /\ \A s \in Range(ran[d]) : Before(registrations, env[d], s, r)
      /\ \A s \in due : Before(registrations, env[d], s, r) => s \in Range(ran[d])
  <2>1. /\ r \in due
        /\ \A s \in Passed(d, pos[d]) : Before(registrations, env[d], s, r)
        /\ \A s \in due : Before(registrations, env[d], s, r) => s \in Passed(d, pos[d])
    BY <1>1, NextIsDue
  <2> HIDE DEF r, due
  <2> QED BY <1>1, <2>1
<1>3. \A s \in due : s \in Nat
  BY <1>1, OldRoutes DEF Due, Routed
<1>4. r \notin Range(ran[d])
  BY <1>1, <1>2, BeforeIsTotal
<1>5. \A s \in due \ Range(ran[d]) : s = r \/ Before(registrations, env[d], r, s)
  BY <1>1, <1>2, <1>3, BeforeIsTotal
<1> QED BY <1>2, <1>4, <1>5, SameSelection DEF Contract!Remaining, Contract!IsNext

LEMMA StepBuilding ==
  ASSUME IInv, IInv', Building, UNCHANGED callVars
  PROVE  Contract!Register \/ Contract!Build
<1>1. phase' = phase
  BY DEF phase, callVars
<1>2. CASE Build
  BY <1>1, <1>2 DEF Build, Contract!Build, callVars
<1>3. CASE ~ Build
  <2>1. PICK t, slots, input : Register(t, slots, input)
    BY <1>3 DEF Building, Always, On, Handle, Fallback
  <2> DEFINE new == [tier |-> t, slots |-> Range(slots), input |-> input]
  <2>2. ~ built /\ built' = built /\ registrations' = Append(registrations, new)
    BY <2>1 DEF Register
  <2> HIDE DEF new
  <2>3. new \in Registration
    <3>1. /\ registrations \in Seq(Registration)
          /\ registrations' \in Seq(Registration)
      BY DEF IInv, TypeOK, TableTypeOK
    <3>2. \A s \in Seq(Registration) : \A x :
            Append(s, x) \in Seq(Registration) => Append(s, x)[Len(s) + 1] \in Registration
      OBVIOUS
    <3>3. \A s \in Seq(Registration) : \A x : Append(s, x)[Len(s) + 1] = x
      OBVIOUS
    <3> QED BY <2>2, <3>1, <3>2, <3>3
  <2> QED BY <1>1, <2>2, <2>3, SameSelection DEF Contract!Register, callVars
<1> QED BY <1>2, <1>3

LEMMA StepDispatch ==
  ASSUME IInv, NEW d \in Call, NEW e \in Envelopes,
         Dispatch(d, e) \/ DispatchUndecoded(d, e)
  PROVE  Contract!Begin(d)
<1>1. /\ built /\ pc[d] = "idle" /\ phase[d] = "idle"
      /\ e \in Envelope
      /\ env' = [env EXCEPT ![d] = e]
      /\ UNCHANGED <<registrations, built, ran>>
  BY EnvelopesAssumption, PhaseIs DEF Dispatch, DispatchUndecoded, PhaseOf, tableVars
<1>2. CASE Dispatch(d, e)
  <2>1. Contract!Move(d, "open") /\ e.meta_decodes /\ UNCHANGED outcome
    BY <1>2, PhaseMoves DEF Dispatch, PhaseOf, IInv
  <2> QED BY <1>1, <2>1, SameSelection DEF Contract!Begin
<1>3. CASE DispatchUndecoded(d, e)
  <2>1. LookupKind(by_kind, e.kind) = MatchOf(registrations, e)
    BY <1>3 DEF DispatchUndecoded, LookupKind, MatchOf, IInv, TableHoldsRegistrations
  <2>2. Contract!Answer(d, e, "Undecoded", 0) /\ ~ e.meta_decodes
    BY <1>3, <2>1, Answers DEF DispatchUndecoded, IInv
  <2> QED BY <1>1, <2>2, SameSelection DEF Contract!Begin
<1> QED BY <1>2, <1>3

LEMMA StepRun ==
  ASSUME IInv, NEW d \in Call, StartHandler(d) \/ FailDecode(d)
  PROVE  Contract!Run(d)
<1>1. PICK i \in DOMAIN Chain(d) :
        /\ NextAt(d, i)
        /\ \/ /\ StartHandler(d)
              /\ Decodes(registrations, env[d], Chain(d)[i])
              /\ ran' = [ran EXCEPT ![d] = Append(@, Chain(d)[i])]
           \/ /\ FailDecode(d)
              /\ ~ Decodes(registrations, env[d], Chain(d)[i])
              /\ Return(d, "Failed", Chain(d)[i])
  BY DEF StartHandler, FailDecode
<1> DEFINE r == Chain(d)[i]
<1>2. /\ pc[d] = "chain" /\ phase[d] = "open"
      /\ UNCHANGED <<registrations, built, env>>
  BY <1>1, PhaseIs DEF StartHandler, FailDecode, PhaseOf, tableVars
<1>3. r \in Contract!Remaining(d) /\ Contract!IsNext(d, r)
  BY <1>1, <1>2, NextIsNext
<1>4. CASE StartHandler(d) /\ Decodes(registrations, env[d], r)
            /\ ran' = [ran EXCEPT ![d] = Append(@, r)]
  <2>1. Contract!Move(d, "running") /\ UNCHANGED outcome
    BY <1>4, PhaseMoves DEF StartHandler, PhaseOf, IInv
  <2> HIDE DEF r
  <2> QED BY <1>2, <1>3, <1>4, <2>1, SameSelection DEF Contract!Run
<1>5. CASE FailDecode(d) /\ ~ Decodes(registrations, env[d], r) /\ Return(d, "Failed", r)
  <2>1. Found(d).matched = MatchOf(registrations, env[d])
    BY <1>2, CallFacts DEF CallInv
  <2>2. Contract!Answer(d, env[d], "Failed", r) /\ UNCHANGED ran
    BY <1>5, <2>1, Answers DEF FailDecode, Return, IInv
  <2> HIDE DEF r
  <2> QED BY <1>2, <1>3, <1>5, <2>2, SameSelection DEF Contract!Run
<1> QED BY <1>1, <1>4, <1>5

LEMMA StepReturns ==
  ASSUME IInv, NEW d \in Call, HandlerOk(d) \/ HandlerErr(d)
  PROVE  Contract!HandlerReturns(d)
<1>1. /\ pc[d] = "handler" /\ phase[d] = "running"
      /\ UNCHANGED <<registrations, built, env, ran>>
  BY PhaseIs DEF HandlerOk, HandlerErr, PhaseOf, tableVars
<1>2. CASE HandlerOk(d)
  <2>1. Contract!Move(d, "open") /\ UNCHANGED outcome
    BY <1>2, PhaseMoves DEF HandlerOk, PhaseOf, IInv
  <2> QED BY <1>1, <2>1 DEF Contract!HandlerReturns
<1>3. CASE HandlerErr(d)
  <2>1. /\ Found(d).matched = MatchOf(registrations, env[d])
        /\ ran[d][Len(ran[d])] = Chain(d)[pos[d]]
    BY <1>1, CallFacts DEF CallInv, Awaiting
  <2>2. Contract!Answer(d, env[d], "Failed", ran[d][Len(ran[d])])
    BY <1>3, <2>1, Answers DEF HandlerErr, Return, IInv
  <2> QED BY <1>1, <2>2 DEF Contract!HandlerReturns
<1> QED BY <1>2, <1>3

LEMMA StepNextChain ==
  ASSUME IInv, NEW d \in Call, NextChain(d)
  PROVE  Contract!Succeed(d) \/ UNCHANGED Contract!vars
<1>1. /\ pc[d] = "chain" /\ phase[d] = "open" /\ Exhausted(d)
      /\ UNCHANGED <<registrations, built, env, ran>>
  BY PhaseIs DEF NextChain, PhaseOf, tableVars
<1>2. CASE Following(d) # "none"
  <2>1. UNCHANGED <<pc, outcome>>
    BY <1>2 DEF NextChain
  <2> QED BY <1>1, <2>1 DEF phase, Contract!vars
<1>3. CASE Following(d) = "none"
  <2>1. /\ TableInv /\ env[d] \in Envelope /\ Iterating(d)
        /\ tier[d] \in {"always", "specific", "any_action", "fallback"}
        /\ pos[d] \in Nat /\ pos[d] <= Len(Chain(d))
        /\ Range(ran[d]) = Passed(d, pos[d])
        /\ Found(d).matched = MatchOf(registrations, env[d])
    BY <1>1, CallFacts DEF CallInv, Iterating
  <2>2. Contract!Remaining(d) = {}
    BY <1>1, <1>3, <2>1, EndOfChain, SameSelection DEF Contract!Remaining
  <2>3. Contract!Answer(d, env[d], "Ok", 0)
    BY <1>3, <2>1, Answers DEF NextChain, Return, IInv
  <2> QED BY <1>1, <2>2, <2>3 DEF Contract!Succeed
<1> QED BY <1>2, <1>3

LEMMA StepDrop ==
  ASSUME IInv, NEW d \in Call, Drop(d)
  PROVE  Contract!Drop(d)
<1>1. phase[d] = "running" /\ UNCHANGED <<registrations, built, env, ran, outcome>>
  BY PhaseIs DEF Drop, PhaseOf, tableVars
<1>2. Contract!Move(d, "dropped")
  BY PhaseMoves DEF Drop, PhaseOf, IInv
<1> QED BY <1>1, <1>2 DEF Contract!Drop

LEMMA StepKeepsContract ==
  ASSUME IInv, IInv', [Next]_vars
  PROVE  [Contract!Next]_Contract!vars
<1>1. CASE Building /\ UNCHANGED callVars
  BY <1>1, StepBuilding DEF Contract!Next
<1>2. CASE UNCHANGED vars
  BY <1>2 DEF vars, tableVars, callVars, phase, Contract!vars
<1>3. ASSUME NEW d \in Call, Dispatching(d) PROVE [Contract!Next]_Contract!vars
  <2>1. CASE \E e \in Envelopes : Dispatch(d, e) \/ DispatchUndecoded(d, e)
    BY <2>1, StepDispatch DEF Contract!Next
  <2>2. CASE StartHandler(d) \/ FailDecode(d)
    BY <2>2, StepRun DEF Contract!Next
  <2>3. CASE NextChain(d)
    BY <2>3, StepNextChain DEF Contract!Next
  <2>4. CASE HandlerOk(d) \/ HandlerErr(d)
    BY <2>4, StepReturns DEF Contract!Next
  <2>5. CASE Drop(d)
    BY <2>5, StepDrop DEF Contract!Next
  <2> QED BY <1>3, <2>1, <2>2, <2>3, <2>4, <2>5 DEF Dispatching, Advance
<1> QED BY <1>1, <1>2, <1>3 DEF Next

LEMMA InitKeepsContract == Init => Contract!Init
<1> SUFFICES ASSUME Init PROVE Contract!Init
  OBVIOUS
<1>1. (CHOOSE e \in Envelopes : TRUE) \in Envelope
  BY EnvelopesExist, EnvelopesAssumption
<1>2. phase = [d \in Call |-> "idle"]
  BY PhaseIs DEF Init, PhaseOf
<1> QED BY <1>1, <1>2, SameSelection DEF Init, BuilderInit, NoOutcome, Contract!Init

\* Every behaviour of the dispatcher is one the contract allows: the table, the
\* chains, the pointer comparison and the cursor can never be told from a
\* dispatcher that picks the next due registration out of the whole program.
THEOREM DispatcherKeepsContract == Spec => Contract!SafeSpec
<1>1. Init => Contract!Init
  BY InitKeepsContract
<1>2. IInv /\ IInv' /\ [Next]_vars => [Contract!Next]_Contract!vars
  BY StepKeepsContract
<1> QED BY <1>1, <1>2, DispatcherInvariant, PTL DEF Spec, Contract!SafeSpec
=============================================================================
