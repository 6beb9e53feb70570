----------------------------- MODULE Dispatcher -----------------------------
(***************************************************************************)
(* Dispatcher::dispatch over the table Routes builds (src/src/dispatch.rs).*)
(*                                                                         *)
(* Dispatches run concurrently over one frozen table. The only await point *)
(* is a handler's future: there other dispatches run, the handler may stay *)
(* pending for ever, and the caller may drop the dispatch.                 *)
(***************************************************************************)
EXTENDS Routes

CONSTANTS
  Call,        \* calls of `dispatch', one future each
  Envelopes    \* what they are called with

ASSUME EnvelopesAssumption == Envelopes \subseteq Envelope
ASSUME EnvelopesExist == Envelopes # {}

VARIABLES
  pc,        \* where each call stands: "idle", between handlers ("chain"),
             \* awaiting one ("handler"), "done", or "dropped" by its caller
  env,       \* its envelope
  tier,      \* the chain it iterates
  pos,       \* its position in that chain
  ran,       \* the routes whose handlers it started, in order (history)
  outcome    \* what it returned

callVars == <<pc, env, tier, pos, ran, outcome>>
vars == <<tableVars, callVars>>

\* `route' is the registration a DispatchError names, 0 for none.
NoOutcome == [matched |-> "None", result |-> "Pending", route |-> 0]

Init ==
  /\ BuilderInit
  /\ pc = [d \in Call |-> "idle"]
  /\ env = [d \in Call |-> CHOOSE e \in Envelopes : TRUE]
  /\ tier = [d \in Call |-> "always"]
  /\ pos = [d \in Call |-> 0]
  /\ ran = [d \in Call |-> <<>>]
  /\ outcome = [d \in Call |-> NoOutcome]

Found(d) == Lookup(by_kind, env[d].kind, env[d].action)

-----------------------------------------------------------------------------
(* The chain under iteration *)

Chain(d) ==
  CASE tier[d] = "always" -> always
    [] tier[d] = "specific" -> Found(d).specific
    [] tier[d] = "any_action" -> Found(d).any_action
    [] tier[d] = "fallback" -> fallback

Skipped(d, i) == tier[d] = "any_action" /\ ~ Yields(Found(d), Chain(d)[i])

\* As NextAt, with one handler in flight over all dispatches.
NextAtSerially(d, i) ==
  /\ \A c \in Call : pc[c] # "handler"
  /\ i \in pos[d] + 1 .. Len(Chain(d))
  /\ ~ Skipped(d, i)
  /\ \A j \in pos[d] + 1 .. i - 1 : Skipped(d, j)

\* The iterator's next item is at position i.
NextAt(d, i) ==
  /\ i \in pos[d] + 1 .. Len(Chain(d))
  /\ ~ Skipped(d, i)
  /\ \A j \in pos[d] + 1 .. i - 1 : Skipped(d, j)

Exhausted(d) == \A j \in pos[d] + 1 .. Len(Chain(d)) : Skipped(d, j)

Return(d, result, route) ==
  /\ pc' = [pc EXCEPT ![d] = "done"]
  /\ outcome' = [outcome EXCEPT ![d] =
       [matched |-> Found(d).matched, result |-> result, route |-> route]]

-----------------------------------------------------------------------------
(* One dispatch *)

\* The event meta decodes: the table is looked up, once, and the tiers run.
Dispatch(d, e) ==
  /\ built
  /\ pc[d] = "idle"
  /\ e.meta_decodes
  /\ env' = [env EXCEPT ![d] = e]
  /\ pc' = [pc EXCEPT ![d] = "chain"]
  /\ UNCHANGED <<tableVars, tier, pos, ran, outcome>>

\* It does not decode: no tier runs, and the kind alone decides the match.
DispatchUndecoded(d, e) ==
  /\ built
  /\ pc[d] = "idle"
  /\ ~ e.meta_decodes
  /\ env' = [env EXCEPT ![d] = e]
  /\ pc' = [pc EXCEPT ![d] = "done"]
  /\ outcome' = [outcome EXCEPT ![d] =
       [matched |-> LookupKind(by_kind, e.kind), result |-> "Undecoded", route |-> 0]]
  /\ UNCHANGED <<tableVars, tier, pos, ran>>

\* The next route decodes its input and its handler's future starts.
StartHandler(d) ==
  /\ pc[d] = "chain"
  /\ \E i \in DOMAIN Chain(d) :
       /\ NextAt(d, i)
       /\ Decodes(registrations, env[d], Chain(d)[i])
       /\ pos' = [pos EXCEPT ![d] = i]
       /\ ran' = [ran EXCEPT ![d] = Append(@, Chain(d)[i])]
  /\ pc' = [pc EXCEPT ![d] = "handler"]
  /\ UNCHANGED <<tableVars, env, tier, outcome>>

\* As FailDecode, with the route skipped instead of failing the delivery.
SkipUndecodable(d) ==
  /\ pc[d] = "chain"
  /\ \E i \in DOMAIN Chain(d) :
       /\ NextAt(d, i)
       /\ ~ Decodes(registrations, env[d], Chain(d)[i])
       /\ pos' = [pos EXCEPT ![d] = i]
  /\ UNCHANGED <<tableVars, pc, env, tier, ran, outcome>>

\* Its input does not decode: no future is built and the dispatch fails.
FailDecode(d) ==
  /\ pc[d] = "chain"
  /\ \E i \in DOMAIN Chain(d) :
       /\ NextAt(d, i)
       /\ ~ Decodes(registrations, env[d], Chain(d)[i])
       /\ pos' = [pos EXCEPT ![d] = i]
       /\ Return(d, "Failed", Chain(d)[i])
  /\ UNCHANGED <<tableVars, env, tier, ran>>

HandlerOk(d) ==
  /\ pc[d] = "handler"
  /\ pc' = [pc EXCEPT ![d] = "chain"]
  /\ UNCHANGED <<tableVars, env, tier, pos, ran, outcome>>

\* The handler's error ends the dispatch, named by its registration.
HandlerErr(d) ==
  /\ pc[d] = "handler"
  /\ Return(d, "Failed", Chain(d)[pos[d]])
  /\ UNCHANGED <<tableVars, env, tier, pos, ran>>

\* As Following, with the fallback chain run in every case.
FollowingAlwaysFallback(d) ==
  CASE tier[d] = "always" -> "specific"
    [] tier[d] = "specific" -> "any_action"
    [] tier[d] = "any_action" -> "fallback"
    [] OTHER -> "none"

\* The chain after this one.
Following(d) ==
  CASE tier[d] = "always" /\ Found(d).matched = "Matched" -> "specific"
    [] tier[d] = "always" /\ Found(d).matched # "Matched" -> "fallback"
    [] tier[d] = "specific" -> "any_action"
    [] OTHER -> "none"

\* As Enter, with the cursor kept from the last chain.
EnterKeepingCursor(d, chain) ==
  /\ tier' = [tier EXCEPT ![d] = chain]
  /\ UNCHANGED pos

\* Iteration of a chain starts at its head.
Enter(d, chain) ==
  /\ tier' = [tier EXCEPT ![d] = chain]
  /\ pos' = [pos EXCEPT ![d] = 0]

\* A chain ran to its end: the next one, or the dispatch succeeded.
NextChain(d) ==
  /\ pc[d] = "chain"
  /\ Exhausted(d)
  /\ \/ /\ Following(d) # "none"
        /\ Enter(d, Following(d))
        /\ UNCHANGED <<pc, outcome>>
     \/ /\ Following(d) = "none"
        /\ Return(d, "Ok", 0)
        /\ UNCHANGED <<tier, pos>>
  /\ UNCHANGED <<tableVars, env, ran>>

\* The caller drops the future at its await point: nothing more runs and
\* nothing is returned, but the handlers that ran have run.
Drop(d) ==
  /\ pc[d] = "handler"
  /\ pc' = [pc EXCEPT ![d] = "dropped"]
  /\ UNCHANGED <<tableVars, env, tier, pos, ran, outcome>>

Advance(d) == StartHandler(d) \/ FailDecode(d) \/ NextChain(d)

Dispatching(d) ==
  \/ \E e \in Envelopes : Dispatch(d, e) \/ DispatchUndecoded(d, e)
  \/ Advance(d)
  \/ HandlerOk(d)
  \/ HandlerErr(d)
  \/ Drop(d)

Next ==
  \/ Building /\ UNCHANGED callVars
  \/ \E d \in Call : Dispatching(d)

\* The executor polls a future that can make progress; nothing makes a
\* handler return, so HandlerOk and HandlerErr are not fair.
Fairness == \A d \in Call : WF_vars(Advance(d))

Spec == Init /\ [][Next]_vars

FairSpec == Spec /\ Fairness

-----------------------------------------------------------------------------
(* Properties *)

Outcome ==
  [matched : {"None", "Matched", "UnmatchedAction", "UnmatchedKind"},
   result : {"Pending", "Ok", "Failed", "Undecoded"}, route : Nat]

\* The table's type, and every call's cursor, history and outcome: the cursor
\* is in the chain iterated.
TypeOK ==
  /\ TableTypeOK
  /\ pc \in [Call -> {"idle", "chain", "handler", "done", "dropped"}]
  /\ env \in [Call -> Envelopes]
  /\ tier \in [Call -> {"always", "specific", "any_action", "fallback"}]
  /\ pos \in [Call -> Nat]
  /\ \A d \in Call : pos[d] <= Len(Chain(d))
  /\ ran \in [Call -> Seq(Nat)]
  /\ outcome \in [Call -> Outcome]

\* The handlers a call started are due, in order, and none was passed over.
InOrder(d) ==
  LET due == Due(registrations, env[d])
      started == Range(ran[d])
      before(r, s) == Before(registrations, env[d], r, s)
  IN  /\ started \subseteq due
      /\ \A i, j \in DOMAIN ran[d] : i < j => before(ran[d][i], ran[d][j])
      /\ \A r \in started, s \in due : before(s, r) => s \in started

\* Whatever the program registered, the handlers a dispatch has started are
\* due to its delivery, each once, in the promised order, and none was passed
\* over: always before routed, action-specific before kind-wide, a
\* registration applicable twice at its first position only, fallback only
\* when nothing routed matched.
RunsInOrder == \A d \in Call : pc[d] # "idle" => InOrder(d)

\* The outcome a call returned, against the handlers it ran.
Accounted(d) ==
  LET e == env[d]
      o == outcome[d]
      due == Due(registrations, e)
      earlier == {s \in due : Before(registrations, e, s, o.route)}
  IN  /\ o.matched = MatchOf(registrations, e)
      /\ o.result = "Undecoded" <=> ~ e.meta_decodes
      /\ o.result \in {"Ok", "Undecoded"} => Range(ran[d]) = due
      /\ o.result = "Failed" =>
           /\ o.route \in due
           /\ Range(ran[d]) =
                earlier \cup (IF Decodes(registrations, e, o.route) THEN {o.route} ELSE {})

\* What a dispatch returns accounts for exactly the handlers that ran: success
\* means every due handler ran, a failure names the due registration it stopped
\* at after everything before it, undecodable meta means none ran; and the
\* match is the registrations' own, whichever tier failed.
OutcomeAccountsForTheRun == \A d \in Call : pc[d] = "done" => Accounted(d)

\* A dispatch that began returns or is dropped, unless one of its handlers
\* stays pending for ever.
EndsUnlessAHandlerHangs ==
  \A d \in Call :
    pc[d] = "chain" ~> (pc[d] \in {"done", "dropped"} \/ [](pc[d] = "handler"))

\* Between handlers, a call is open; the cursor is no part of the promise.
phase ==
  [d \in Call |-> CASE pc[d] = "chain" -> "open"
                    [] pc[d] = "handler" -> "running"
                    [] OTHER -> pc[d]]

Contract == INSTANCE DispatchContract WITH phase <- phase

\* The table, the four chains and the cursor implement the promise made on
\* the registrations alone, its fairness included.
ImplementsContract == Contract!Spec
=============================================================================
