-------------------------- MODULE DispatchContract --------------------------
(***************************************************************************)
(* What a Dispatcher promises its caller, with no table, no chain and no   *)
(* cursor: a dispatch runs the handlers due to its delivery one at a time, *)
(* always the next in order, until all have succeeded or one has failed,   *)
(* or its caller drops it; and it returns the match the registrations      *)
(* decide beside the first failure.                                        *)
(***************************************************************************)
EXTENDS Selection, Functions

CONSTANT Call   \* calls of `dispatch'

VARIABLES
  registrations,   \* the registration calls
  built,           \* registration is over
  phase,           \* "idle", "open", "running", "done" or "dropped"
  env,             \* the delivery
  ran,             \* the handlers started, in order
  outcome          \* what the dispatch returned

vars == <<registrations, built, phase, env, ran, outcome>>

Init ==
  /\ registrations = <<>>
  /\ built = FALSE
  /\ phase = [d \in Call |-> "idle"]
  /\ env \in [Call -> Envelope]
  /\ ran = [d \in Call |-> <<>>]
  /\ outcome = [d \in Call |-> [matched |-> "None", result |-> "Pending", route |-> 0]]

Register ==
  /\ ~ built
  /\ \E r \in Registration : registrations' = Append(registrations, r)
  /\ UNCHANGED <<built, phase, env, ran, outcome>>

Build ==
  /\ ~ built
  /\ built' = TRUE
  /\ UNCHANGED <<registrations, phase, env, ran, outcome>>

Move(d, to) == phase' = [phase EXCEPT ![d] = to]

Answer(d, e, result, route) ==
  /\ Move(d, "done")
  /\ outcome' = [outcome EXCEPT ![d] =
       [matched |-> MatchOf(registrations, e), result |-> result, route |-> route]]

Begin(d) ==
  /\ built
  /\ phase[d] = "idle"
  /\ \E e \in Envelope :
       /\ env' = [env EXCEPT ![d] = e]
       /\ \/ e.meta_decodes /\ Move(d, "open") /\ UNCHANGED outcome
          \/ ~ e.meta_decodes /\ Answer(d, e, "Undecoded", 0)
  /\ UNCHANGED <<registrations, built, ran>>

Remaining(d) == Due(registrations, env[d]) \ Range(ran[d])

IsNext(d, r) ==
  /\ r \in Remaining(d)
  /\ \A s \in Remaining(d) : s = r \/ Before(registrations, env[d], r, s)

Run(d) ==
  /\ phase[d] = "open"
  /\ \E r \in Remaining(d) :
       /\ IsNext(d, r)
       /\ \/ /\ Decodes(registrations, env[d], r)
             /\ Move(d, "running")
             /\ ran' = [ran EXCEPT ![d] = Append(@, r)]
             /\ UNCHANGED outcome
          \/ /\ ~ Decodes(registrations, env[d], r)
             /\ Answer(d, env[d], "Failed", r)
             /\ UNCHANGED ran
  /\ UNCHANGED <<registrations, built, env>>

HandlerReturns(d) ==
  /\ phase[d] = "running"
  /\ \/ Move(d, "open") /\ UNCHANGED outcome
     \/ Answer(d, env[d], "Failed", ran[d][Len(ran[d])])
  /\ UNCHANGED <<registrations, built, env, ran>>

Succeed(d) ==
  /\ phase[d] = "open"
  /\ Remaining(d) = {}
  /\ Answer(d, env[d], "Ok", 0)
  /\ UNCHANGED <<registrations, built, env, ran>>

Drop(d) ==
  /\ phase[d] = "running"
  /\ Move(d, "dropped")
  /\ UNCHANGED <<registrations, built, env, ran, outcome>>

Next ==
  \/ Register
  \/ Build
  \/ \E d \in Call :
       Begin(d) \/ Run(d) \/ HandlerReturns(d) \/ Succeed(d) \/ Drop(d)

SafeSpec == Init /\ [][Next]_vars

\* A dispatch that can go on does: only a handler keeps it waiting.
Spec == SafeSpec /\ \A d \in Call : WF_vars(Run(d) \/ Succeed(d))
=============================================================================
