------------------------------- MODULE Routes -------------------------------
(***************************************************************************)
(* The route table of a Dispatcher and the builder that fills it           *)
(* (src/src/dispatch.rs, src/src/matcher.rs).                              *)
(*                                                                         *)
(* A registration is identified by its position in `registrations': the    *)
(* code allocates one erased handler per registration call and recognises  *)
(* it by pointer, so two calls are two routes even for one handler.        *)
(***************************************************************************)
EXTENDS Selection, Functions

CONSTANTS
  Matchers,          \* what the program passes to `on': sequences of slots
  MaxRegistrations   \* bound: registration calls in one program

ASSUME MatchersAssumption == Matchers \subseteq Seq(Slot)
ASSUME BoundAssumption == MaxRegistrations \in Nat

-----------------------------------------------------------------------------
(* Matchers *)

AnyActionOf(kind) == [kind |-> kind, action |-> NoAction]

FromKinds(kinds) == [i \in DOMAIN kinds |-> AnyActionOf(kinds[i])]

FromPairs(pairs) ==
  [i \in DOMAIN pairs |-> [kind |-> pairs[i][1], action |-> pairs[i][2]]]

\* One action of a kind, or several.
FromActions(kind, actions) ==
  [i \in DOMAIN actions |-> [kind |-> kind, action |-> actions[i]]]

\* The relative matchers, `payload' being the kind the handler's payload type
\* declares: actions alone, or AnyAction.
ActionsUnder(payload, actions) == FromActions(payload, actions)

AnyActionUnder(payload) == FromKinds(<<payload>>)

Or(matcher, other) == matcher \o other

-----------------------------------------------------------------------------
(* The table: kind -> [any_action, by_action: action -> chain] *)

EmptyKindRoutes == [any_action |-> <<>>, by_action |-> [a \in {} |-> <<>>]]

KindRoutesOf(table, kind) ==
  IF kind \in DOMAIN table THEN table[kind] ELSE EmptyKindRoutes

ActionChain(kind_routes, action) ==
  IF action \in DOMAIN kind_routes.by_action
    THEN kind_routes.by_action[action] ELSE <<>>

\* As Push, without the `seen' set: once per mention of the slot.
PushEveryMention(chain, route, slot, slots) ==
  chain \o [i \in 1 .. Len(SelectSeq(slots, LAMBDA s : s = slot)) |-> route]

\* The chain of one slot after a registration under `slots': the route is
\* pushed once however often the slot is named.
Push(chain, route, slot, slots) ==
  IF slot \in Range(slots) THEN Append(chain, route) ELSE chain

\* As ActionsNamed, with a kind-wide slot filed under the action None.
SlotsActions(slots, kind) ==
  {s.action : s \in {t \in Range(slots) : t.kind = kind}}

\* The actions that get an entry under `kind'.
ActionsNamed(slots, kind) ==
  {s.action : s \in {t \in Range(slots) : t.kind = kind}} \ {NoAction}

InsertEach(table, slots, route) ==
  [k \in DOMAIN table \cup {s.kind : s \in Range(slots)} |->
     LET old == KindRoutesOf(table, k)
     IN  [any_action |-> Push(old.any_action, route, AnyActionOf(k), slots),
          by_action  |->
            [a \in DOMAIN old.by_action \cup ActionsNamed(slots, k) |->
               Push(ActionChain(old, a), route, [kind |-> k, action |-> a], slots)]]]

\* As Lookup, with a known kind's empty kind-wide chain counted as a match.
LookupCountsEmptyChain(table, kind, action) ==
  LET kind_routes == KindRoutesOf(table, kind)
  IN  [matched    |-> IF kind \in DOMAIN table THEN "Matched" ELSE "UnmatchedKind",
       specific   |-> ActionChain(kind_routes, action),
       any_action |-> kind_routes.any_action]

\* The match the table decides and the two halves of the iterator it returns.
\* An entry of by_action is never empty, so only the kind-wide chain needs
\* the emptiness test.
Lookup(table, kind, action) ==
  LET kind_routes == KindRoutesOf(table, kind)
      any_action == kind_routes.any_action
      matched == action \in DOMAIN kind_routes.by_action \/ any_action # <<>>
  IN  [matched    |-> IF matched THEN "Matched"
                      ELSE IF kind \in DOMAIN table THEN "UnmatchedAction"
                      ELSE "UnmatchedKind",
       specific   |-> ActionChain(kind_routes, action),
       any_action |-> any_action]

\* As Yields, with the pointer comparison dropped.
YieldsAll(found, route) == TRUE

\* The kind-wide half skips a registration its action-specific half holds.
Yields(found, route) == route \notin Range(found.specific)

LookupKind(table, kind) ==
  IF kind \in DOMAIN table THEN "UnmatchedAction" ELSE "UnmatchedKind"

-----------------------------------------------------------------------------
(* The builder *)

VARIABLES
  registrations,   \* every registration call so far, in order
  always,          \* chain run before routing
  by_kind,         \* the route table
  fallback,        \* chain run when nothing matched
  built            \* the builder was consumed by `build'

tableVars == <<registrations, always, by_kind, fallback, built>>

BuilderInit ==
  /\ registrations = <<>>
  /\ always = <<>>
  /\ by_kind = [k \in {} |-> EmptyKindRoutes]
  /\ fallback = <<>>
  /\ built = FALSE

\* The route of the next registration call.
NewRoute == Len(registrations) + 1

\* Route::routed: one fresh registration.
Register(tier, slots, input) ==
  /\ ~ built
  /\ Len(registrations) < MaxRegistrations
  /\ registrations' =
       Append(registrations, [tier |-> tier, slots |-> Range(slots), input |-> input])
  /\ UNCHANGED built

Always(input) ==
  /\ Register("always", <<>>, input)
  /\ always' = Append(always, NewRoute)
  /\ UNCHANGED <<by_kind, fallback>>

On(matcher, input) ==
  /\ Register("on", matcher, input)
  /\ by_kind' = InsertEach(by_kind, matcher, NewRoute)
  /\ UNCHANGED <<always, fallback>>

\* `handle' is `on' for the kind the handler's payload declares.
Handle(kind) == On(FromKinds(<<kind>>), kind)

Fallback ==
  /\ Register("fallback", <<>>, Whole)
  /\ fallback' = Append(fallback, NewRoute)
  /\ UNCHANGED <<always, by_kind>>

Build ==
  /\ ~ built
  /\ built' = TRUE
  /\ UNCHANGED <<registrations, always, by_kind, fallback>>

Building ==
  \/ \E input \in Input : Always(input)
  \/ \E matcher \in Matchers, input \in Input : On(matcher, input)
  \/ \E kind \in EventKind : Handle(kind)
  \/ Fallback
  \/ Build

RoutesSpec == BuilderInit /\ [][Building]_tableVars

-----------------------------------------------------------------------------
(* Properties *)

IsKindRoutes(kind_routes) ==
  \E A \in SUBSET Action :
    kind_routes \in [any_action : Seq(Nat), by_action : [A -> Seq(Nat)]]

\* The builder's fields hold what their declarations say: chains of routes, a
\* table keyed by kind and then by action.
TableTypeOK ==
  /\ registrations \in Seq(Registration)
  /\ always \in Seq(Nat)
  /\ DOMAIN by_kind \subseteq EventKind
  /\ by_kind = [k \in DOMAIN by_kind |-> by_kind[k]]
  /\ \A k \in DOMAIN by_kind : IsKindRoutes(by_kind[k])
  /\ fallback \in Seq(Nat)
  /\ built \in BOOLEAN

\* A chain holds exactly these routes, each once, in registration order.
Holds(chain, routes) ==
  /\ Range(chain) = routes
  /\ \A i, j \in DOMAIN chain : i < j => chain[i] < chain[j]

\* The table is the registrations, regrouped: however a program's matchers
\* repeat or overlap their slots, every slot's chain holds the registrations
\* naming it once each in registration order, and a kind or an action has an
\* entry only when some registration names it (an empty matcher leaves none).
TableHoldsRegistrations ==
  /\ Holds(always, OfTier(registrations, "always"))
  /\ Holds(fallback, OfTier(registrations, "fallback"))
  /\ DOMAIN by_kind = KindsNamed(registrations)
  /\ \A k \in DOMAIN by_kind :
       LET by_action == by_kind[k].by_action
       IN  /\ Holds(by_kind[k].any_action, KindWide(registrations, k))
           /\ DOMAIN by_action = {a \in Action : SpecificTo(registrations, k, a) # {}}
           /\ \A a \in DOMAIN by_action :
                Holds(by_action[a], SpecificTo(registrations, k, a))

\* A lookup decides the match the registrations promise and selects every
\* registration that applies exactly once: one that names both the delivery's
\* action and its whole kind is taken from the action-specific half alone.
LookupAsDeclared ==
  \A e \in {x \in Envelope : x.meta_decodes /\ x.fits} :
    LET found == Lookup(by_kind, e.kind, e.action)
        yielded == {r \in Range(found.any_action) : Yields(found, r)}
    IN  /\ found.matched = MatchOf(registrations, e)
        /\ Range(found.specific) = SpecificTo(registrations, e.kind, e.action)
        /\ yielded = KindWide(registrations, e.kind) \ Range(found.specific)
=============================================================================
