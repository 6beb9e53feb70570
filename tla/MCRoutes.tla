------------------------------ MODULE MCRoutes ------------------------------
(* Routes over two kinds and two actions; the matchers are every shape the  *)
(* conversions of matcher.rs build, with repeated and overlapping slots.    *)
EXTENDS Routes

CONSTANTS k1, k2, a1, a2

Kinds == {k1, k2}
Actions == {a1, a2}

MatcherShapes ==
  {AnyActionUnder(k1), FromKinds(<<k2, k1, k2>>), FromKinds(<<>>),
   ActionsUnder(k1, <<a1>>), FromPairs(<<<<k2, a1>>, <<k1, a2>>, <<k2, a1>>>>),
   FromActions(k1, <<a1, a2>>), FromActions(k1, <<>>),
   FromActions(k2, <<a2, a2>>),
   Or(FromKinds(<<k1>>), FromPairs(<<<<k1, a1>>>>)),
   Or(FromActions(k1, <<a2>>), Or(FromKinds(<<k2>>), FromActions(k1, <<a2>>)))}
=============================================================================
