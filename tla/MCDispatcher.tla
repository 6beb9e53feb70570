---------------------------- MODULE MCDispatcher ----------------------------
(* One dispatch over every program of up to MaxRegistrations calls. k2's    *)
(* only slot has an action: k2 alone is known and has no kind-wide chain.   *)
EXTENDS Dispatcher

CONSTANTS k1, k2, a1

Kinds == {k1, k2}
Actions == {a1}

MatcherShapes ==
  {AnyActionUnder(k1),
   ActionsUnder(k1, <<a1, a1>>),
   Or(FromPairs(<<<<k2, a1>>>>), Or(FromKinds(<<k1>>), FromPairs(<<<<k1, a1>>>>)))}

Delivered(kind, action, decodes, fits) ==
  [kind |-> kind, action |-> action, meta_decodes |-> decodes, fits |-> fits]

Deliveries ==
  {Delivered(k, a, TRUE, f) : k \in Kinds, a \in {a1, NoAction}, f \in BOOLEAN}
    \cup {Delivered(k, NoAction, FALSE, FALSE) : k \in Kinds}

\* For two calls: one delivery per path through the tiers.
FewDeliveries ==
  {Delivered(k1, a1, TRUE, TRUE), Delivered(k2, NoAction, TRUE, FALSE),
   Delivered(k2, NoAction, FALSE, FALSE)}
=============================================================================
