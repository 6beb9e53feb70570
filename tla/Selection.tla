----------------------------- MODULE Selection -----------------------------
(***************************************************************************)
(* What the registrations of a Dispatcher promise for one delivery, stated *)
(* on the registrations themselves and never on the table that implements  *)
(* them: which are due, in which order, and whether the delivery matches.  *)
(* The documentation of `always', `on', `fallback' and Match is the        *)
(* contract (src/src/dispatch.rs); Routes and Dispatcher are checked       *)
(* against it.                                                             *)
(***************************************************************************)
EXTENDS Naturals, Sequences

CONSTANTS
  EventKind,   \* event kinds
  Action,      \* payload actions
  NoAction,    \* a slot or a delivery without an action (None)
  Whole        \* the input of a handler over Envelope or EventMeta

ASSUME NoActionAssumption == NoAction \notin Action
ASSUME WholeAssumption == Whole \notin EventKind

\* The unit a matcher expands to.
Slot == [kind : EventKind, action : Action \cup {NoAction}]

\* A payload input is known by the kind it declares.
Input == EventKind \cup {Whole}

\* One registration call.
Registration == [tier : {"always", "on", "fallback"}, slots : SUBSET Slot, input : Input]

\* A delivery, as far as routing and decoding tell deliveries apart: whether
\* its event meta decodes, and whether its payload decodes as its kind's type.
Envelope ==
  [kind : EventKind, action : Action \cup {NoAction},
   meta_decodes : BOOLEAN, fits : BOOLEAN]

-----------------------------------------------------------------------------
OfTier(regs, tier) == {r \in DOMAIN regs : regs[r].tier = tier}

Naming(regs, slot) == {r \in OfTier(regs, "on") : slot \in regs[r].slots}

KindWide(regs, kind) == Naming(regs, [kind |-> kind, action |-> NoAction])

\* A delivery without an action has no action-specific registration.
SpecificTo(regs, kind, action) ==
  IF action = NoAction THEN {}
  ELSE Naming(regs, [kind |-> kind, action |-> action])

KindsNamed(regs) == {s.kind : s \in UNION {regs[r].slots : r \in OfTier(regs, "on")}}

Routed(regs, e) == SpecificTo(regs, e.kind, e.action) \cup KindWide(regs, e.kind)

\* The match a delivery must be reported with. Its action counts only once
\* the event meta decoded.
MatchOf(regs, e) ==
  IF e.meta_decodes /\ Routed(regs, e) # {} THEN "Matched"
  ELSE IF e.kind \in KindsNamed(regs) THEN "UnmatchedAction"
  ELSE "UnmatchedKind"

\* The registrations whose handlers a delivery is due to.
Due(regs, e) ==
  IF ~ e.meta_decodes THEN {}
  ELSE OfTier(regs, "always") \cup
       (IF Routed(regs, e) # {} THEN Routed(regs, e) ELSE OfTier(regs, "fallback"))

\* Where a registration stands: the always tier, then action-specific before
\* kind-wide, each registration at its first applicable position.
Rank(regs, e, r) ==
  IF regs[r].tier = "always" THEN 1
  ELSE IF r \in SpecificTo(regs, e.kind, e.action) THEN 2 ELSE 3

Before(regs, e, r, s) ==
  \/ Rank(regs, e, r) < Rank(regs, e, s)
  \/ Rank(regs, e, r) = Rank(regs, e, s) /\ r < s

\* What `decode' gives the registration's handler: Envelope and EventMeta are
\* clones, a payload must be of its kind and well formed.
Decodes(regs, e, r) ==
  regs[r].input = Whole \/ (regs[r].input = e.kind /\ e.fits)
=============================================================================
