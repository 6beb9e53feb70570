------------------------------- MODULE Nested -------------------------------
(***************************************************************************)
(* A dispatcher registered with another (Handler<Envelope> for Dispatcher, *)
(* src/src/dispatch.rs) behind the receiver: what the outer dispatch makes *)
(* of the inner one, and what spans, errors and the failed-delivery event  *)
(* say of the two.                                                         *)
(*                                                                         *)
(* Both are taken at their word, as DispatchContract has it. One delivery  *)
(* is dispatched; the inner dispatcher may stand at several registrations  *)
(* of the outer one, each of which starts a dispatch of its own.           *)
(***************************************************************************)
EXTENDS Selection, Functions, SequencesExt

CONSTANTS
  Trees,       \* [outer, inner, nested]: two programs, and the registrations
               \* of the outer one that hold the inner dispatcher
  Deliveries,
  Place        \* registrations of the outer dispatcher, at most

ASSUME TreesAssumption ==
  \A t \in Trees :
    /\ t.outer \in Seq(Registration) /\ t.inner \in Seq(Registration)
    /\ DOMAIN t.outer \subseteq Place
    /\ t.nested \subseteq {r \in DOMAIN t.outer : t.outer[r].input = Whole}
ASSUME DeliveriesAssumption == Deliveries \subseteq Envelope
ASSUME PlacesAssumption == Place \subseteq Nat \ {0}

VARIABLES
  registrations, built, phase, env, ran, outcome,   \* the outer dispatch
  inner_registrations, inner_phase, inner_env, inner_ran, inner_outcome,
  nested,     \* where the inner dispatcher is registered
  wrapper,    \* the receiver's handler: the outer dispatcher, or around it
  span,       \* each dispatch's span: what it has recorded
  event       \* the failed-delivery event

outerVars == <<registrations, built, phase, env, ran, outcome>>
innerVars == <<inner_registrations, inner_phase, inner_env, inner_ran, inner_outcome>>
vars == <<outerVars, innerVars, nested, wrapper, span, event>>

\* The outer dispatch, among the dispatches.
Outermost == 0

Outer == INSTANCE DispatchContract WITH Call <- {Outermost}

Inner == INSTANCE DispatchContract WITH
  Call <- Place, registrations <- inner_registrations, phase <- inner_phase,
  env <- inner_env, ran <- inner_ran, outcome <- inner_outcome

NoOutcome == [matched |-> "None", result |-> "Pending", route |-> 0]

Init ==
  /\ \E t \in Trees :
       /\ registrations = t.outer
       /\ inner_registrations = t.inner
       /\ nested = t.nested
  /\ built = TRUE
  /\ phase = [d \in {Outermost} |-> "idle"]
  /\ \E e \in Deliveries :
       /\ env = [d \in {Outermost} |-> e]
       /\ inner_env = [r \in Place |-> e]
  /\ ran = [d \in {Outermost} |-> <<>>]
  /\ outcome = [d \in {Outermost} |-> NoOutcome]
  /\ inner_phase = [r \in Place |-> "idle"]
  /\ inner_ran = [r \in Place |-> <<>>]
  /\ inner_outcome = [r \in Place |-> NoOutcome]
  /\ wrapper \in {"none", "source", "transparent"}
  /\ span = [d \in {Outermost} \cup Place |-> {}]
  /\ event = {}

Delivery == env[Outermost]

Current == Last(ran[Outermost])

AwaitsInner == phase[Outermost] = "running" /\ Current \in nested

-----------------------------------------------------------------------------
(* Spans *)

\* Outcome::label
Label(o) ==
  LET succeeded == o.result = "Ok"
  IN  CASE o.matched = "Matched" /\ succeeded -> "ok"
        [] o.matched = "Matched" /\ ~ succeeded -> "handler_error"
        [] o.matched # "Matched" /\ succeeded -> "unmatched_ok"
        [] o.matched # "Matched" /\ ~ succeeded -> "unmatched_error"

\* What a dispatch records on its span on the way out: the label, and the
\* registration its error names.
Recorded(o) == [outcome |-> Label(o), registration |-> {o.route} \ {0}]

\* A dispatch that returns records, one that is dropped does not.
RecordSpans ==
  span' = [d \in {Outermost} \cup Place |->
    IF d = Outermost
      THEN IF phase'[d] = "done" THEN {Recorded(outcome'[d])} ELSE {}
      ELSE IF inner_phase'[d] = "done" THEN {Recorded(inner_outcome'[d])} ELSE {}]

-----------------------------------------------------------------------------
(* The dispatches *)

Dispatch ==
  /\ Outer!Begin(Outermost)
  /\ env' = env
  /\ UNCHANGED <<innerVars, nested, wrapper, event>>
  /\ RecordSpans

\* Route::call of the next registration: the inner dispatcher's handler
\* dispatches the envelope again, its event meta decoded again.
StartHandler ==
  /\ Outer!Run(Outermost)
  /\ LET started == Last(ran'[Outermost])
     IN  IF phase'[Outermost] = "running" /\ started \in nested
           THEN Inner!Begin(started) /\ inner_env' = inner_env
           ELSE UNCHANGED innerVars
  /\ UNCHANGED <<nested, wrapper, event>>
  /\ RecordSpans

HandlerReturns ==
  /\ ~ AwaitsInner
  /\ Outer!HandlerReturns(Outermost)
  /\ UNCHANGED <<innerVars, nested, wrapper, event>>
  /\ RecordSpans

InnerProceeds ==
  /\ AwaitsInner
  /\ Inner!Run(Current) \/ Inner!Succeed(Current)
  /\ UNCHANGED <<outerVars, nested, wrapper, event>>
  /\ RecordSpans

InnerHandlerReturns ==
  /\ AwaitsInner
  /\ Inner!HandlerReturns(Current)
  /\ UNCHANGED <<outerVars, nested, wrapper, event>>
  /\ RecordSpans

\* As Handle, with a delivery the inner dispatcher has no route for an error.
HandleStrictly(o) == o.result = "Ok" /\ o.matched = "Matched"

\* Dispatcher::handle: the result alone, whatever matched.
Handle(o) == o.result = "Ok"

\* The inner dispatch returned: its result is its handler's.
InnerReturns ==
  /\ AwaitsInner
  /\ inner_phase[Current] = "done"
  /\ Outer!HandlerReturns(Outermost)
  /\ phase'[Outermost] = "open" <=> Handle(inner_outcome[Current])
  /\ UNCHANGED <<innerVars, nested, wrapper, event>>
  /\ RecordSpans

Finish ==
  /\ Outer!Succeed(Outermost)
  /\ UNCHANGED <<innerVars, nested, wrapper, event>>
  /\ RecordSpans

\* The future is dropped at the innermost await, and with it the dispatches
\* around it.
Drop ==
  /\ Outer!Drop(Outermost)
  /\ IF AwaitsInner THEN Inner!Drop(Current) ELSE UNCHANGED innerVars
  /\ UNCHANGED <<nested, wrapper, event>>
  /\ RecordSpans

-----------------------------------------------------------------------------
(* The error and the event: an error with its sources is a sequence *)

Error(type, registration, action) ==
  [type |-> type, registration |-> registration, action |-> action]

\* Route::failed, or DispatchError::undecoded, which has no action to name.
DispatchError(o) ==
  Error("dispatch", {o.route} \ {0},
        IF o.result = "Undecoded" THEN {} ELSE {Delivery.action} \ {NoAction})

\* The error of the registration that failed the outer dispatch.
SourceOf(route) ==
  IF route \in nested /\ inner_phase[route] = "done"
    THEN <<DispatchError(inner_outcome[route]), Error("application", {}, {})>>
    ELSE <<Error("application", {}, {})>>

OuterError == <<DispatchError(outcome[Outermost])>> \o SourceOf(outcome[Outermost].route)

\* What the receiver's handler fails with. A wrapper's own error holds the
\* dispatch error as its source, or forwards to it, its source too.
HandlerError ==
  CASE wrapper = "none" -> OuterError
    [] wrapper = "source" -> <<Error("wrapper", {}, {})>> \o OuterError
    [] wrapper = "transparent" -> <<Error("wrapper", {}, {})>> \o Tail(OuterError)

\* As FirstDispatchError, of the error itself and none of its sources.
DispatchErrorAtTheHead(error) == {e \in {Head(error)} : e.type = "dispatch"}

FirstDispatchError(error) ==
  LET found == {i \in DOMAIN error : error[i].type = "dispatch"}
  IN  {error[i] : i \in {j \in found : \A k \in found : j <= k}}

\* handler_failed: the event's action is the dispatch error's.
Report ==
  /\ phase[Outermost] = "done"
  /\ outcome[Outermost].result # "Ok"
  /\ event = {}
  /\ event' = {[action |-> UNION {e.action : e \in FirstDispatchError(HandlerError)}]}
  /\ UNCHANGED <<outerVars, innerVars, nested, wrapper, span>>

Next ==
  \/ Dispatch \/ StartHandler \/ HandlerReturns \/ Finish \/ Drop
  \/ InnerProceeds \/ InnerHandlerReturns \/ InnerReturns
  \/ Report

Spec == Init /\ [][Next]_vars

-----------------------------------------------------------------------------
(* Properties *)

InnerDue == Due(inner_registrations, Delivery)

\* Every handler the inner dispatcher owes the delivery ran, at place r.
InnerComplete(r) == Range(inner_ran[r]) = InnerDue

\* A nested dispatcher's handlers run as if they were registered in its place:
\* all of them before the registration after it starts and before the outer
\* dispatch succeeds. The outer registration fails only when the inner
\* dispatch did, and the outer match is its own table's, whatever the inner
\* dispatcher had no route for.
NestedRunsInPlace ==
  LET o == outcome[Outermost]
  IN  /\ \A i \in DOMAIN ran[Outermost] :
           LET r == ran[Outermost][i]
           IN  r \in nested /\ (i < Len(ran[Outermost]) \/ o.result = "Ok") =>
                 InnerComplete(r)
      /\ phase[Outermost] = "done" => o.matched = MatchOf(registrations, Delivery)
      /\ o.result = "Failed" /\ o.route \in nested =>
           inner_outcome[o.route].result = "Failed"
      /\ o.result = "Ok" =>
           /\ Range(ran[Outermost]) = Due(registrations, Delivery)
           /\ \A r \in Range(ran[Outermost]) \cap nested :
                inner_outcome[r].result = "Ok"

Fails(d) == \E s \in span[d] : s.outcome \in {"handler_error", "unmatched_error"}

\* A failed delivery can be traced from what it left: the spans lead from the
\* outer registration to the inner one at fault, which is the last that started
\* or one whose input did not decode; no span tells of a failure when nothing
\* failed; and the event names the delivery's action, unless a wrapper forwards
\* past the only dispatch error there is or no meta was decoded.
FailureCanBeTraced ==
  /\ \A r \in Place : Fails(r) /\ phase[Outermost] = "done" =>
       \E s \in span[Outermost] : s.registration = {r}
  /\ \A s \in span[Outermost] : \A r \in s.registration \cap nested :
       /\ Fails(r)
       /\ \A i \in UNION {t.registration : t \in span[r]} :
            \/ Last(inner_ran[r]) = i
            \/ ~ Decodes(inner_registrations, Delivery, i)
  /\ \A e \in event :
       \/ e.action = {Delivery.action} \ {NoAction}
       \/ ~ Delivery.meta_decodes
       \/ wrapper = "transparent" /\ outcome[Outermost].route \notin nested
=============================================================================
