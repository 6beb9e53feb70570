------------------------------- MODULE Worker -------------------------------
(***************************************************************************)
(* The Workers example (examples/worker/src/lib.rs): a receiver built for  *)
(* each request with the secret bound at that time, and a dispatcher that  *)
(* forwards every delivery to a service, as one object per installation,   *)
(* before it logs those of the `installation' kind.                        *)
(*                                                                         *)
(* The dispatcher is taken at its word (DispatchContract). The network may *)
(* lose or delay a POST and its response, and the forwarder may give up on *)
(* either; a delivery may be sent again; the binding may be changed.       *)
(***************************************************************************)
EXTENDS Selection, Functions, FiniteSets

CONSTANTS
  Call,          \* requests
  Secret,        \* what may be bound, Empty included
  Empty,         \* a variable that is set to nothing
  Installation,
  DeliveryId,
  Deliveries,    \* what requests carry
  ping, installation,
  MaxRebinds

ASSUME KindsAssumption == {ping, installation} \subseteq EventKind /\ ping # installation

\* What the receiver refuses a request for before it looks for who signed it,
\* from the headers and the body, and after.
BeforeSignature == {"Missing", "Malformed", "MissingHeader", "BodyTooLarge", "BodyRead"}
AfterSignature == {"UnsupportedContentType"}

\* `fault' is the first of them, whoever signed the request.
ASSUME DeliveriesAssumption ==
  Deliveries \subseteq [id : DeliveryId, signer : Secret,
                        fault : BeforeSignature \cup AfterSignature \cup {"None"},
                        installation : {{}} \cup {{i} : i \in Installation},
                        envelope : Envelope]
ASSUME DeliveriesExist == Deliveries # {}
ASSUME RebindsAssumption == MaxRebinds \in Nat
ASSUME SecretAssumption == Empty \in Secret

VARIABLES
  registrations, built, phase, env, ran, outcome,   \* the dispatches
  bound,       \* GITHUB_WEBHOOK_SECRET, if it and RESTATE_OBJECT_URL are set
  rebinds,
  at,          \* where each request stands
  delivery,    \* what it is
  bound_at,    \* what was bound when it came (history)
  verifier,    \* the secrets its receiver accepts
  answer,      \* its response
  inflight,    \* the requests whose POST is under way
  response,    \* the service's response to each request's POST
  objects,     \* installation -> the deliveries its object was given
  logged       \* the requests InstallationLog wrote a line for

dispatchVars == <<registrations, built, phase, env, ran, outcome>>
requestVars == <<at, delivery, bound_at, verifier, answer>>
bindingVars == <<bound, rebinds>>
networkVars == <<inflight, response, objects>>
vars == <<dispatchVars, bindingVars, requestVars, networkVars, logged>>

Dispatches == INSTANCE DispatchContract

\* A secret, or none.
Bindings == {{}} \cup {{s} : s \in Secret}

\* Forward for everything, InstallationLog on any action of its view's kind.
Forward == 1
InstallationLog == 2

\* InstallationView, whose derive declares the kind.
InstallationView == installation

WorkerDispatcher ==
  <<[tier |-> "always", slots |-> {}, input |-> Whole],
    [tier |-> "on", slots |-> {[kind |-> InstallationView, action |-> NoAction]},
     input |-> InstallationView]>>

Init ==
  /\ registrations = WorkerDispatcher
  /\ built = TRUE
  /\ phase = [c \in Call |-> "idle"]
  /\ env = [c \in Call |-> (CHOOSE d \in Deliveries : TRUE).envelope]
  /\ ran = [c \in Call |-> <<>>]
  /\ outcome = [c \in Call |-> [matched |-> "None", result |-> "Pending", route |-> 0]]
  /\ bound \in Bindings
  /\ rebinds = 0
  /\ at = [c \in Call |-> "idle"]
  /\ delivery = [c \in Call |-> CHOOSE d \in Deliveries : TRUE]
  /\ bound_at = [c \in Call |-> {}]
  /\ verifier = [c \in Call |-> {}]
  /\ answer = [c \in Call |-> "None"]
  /\ inflight = {}
  /\ response = [c \in Call |-> "None"]
  /\ objects = [i \in Installation |-> <<>>]
  /\ logged = {}

Move(c, to) == at' = [at EXCEPT ![c] = to]

Answer(c, what) ==
  /\ Move(c, "answered")
  /\ answer' = [answer EXCEPT ![c] = what]

-----------------------------------------------------------------------------
(* A request *)

\* str::parse::<WebhookSecret>: every secret but the empty one.
ParseSecret(binding) == binding \ {Empty}

\* As Fetch, with the verifier kept from a request that had one built.
FetchCached(c, d) ==
  LET earlier == {k \in Call : verifier[k] # {}}
      secrets == IF earlier = {} THEN ParseSecret(bound)
                 ELSE verifier[CHOOSE k \in earlier : TRUE]
  IN  /\ at[c] = "idle"
      /\ delivery' = [delivery EXCEPT ![c] = d]
      /\ bound_at' = [bound_at EXCEPT ![c] = bound]
      /\ verifier' = [verifier EXCEPT ![c] = secrets]
      /\ \/ secrets # {} /\ Move(c, "received") /\ UNCHANGED answer
         \/ secrets = {} /\ Answer(c, "RuntimeError")
      /\ UNCHANGED <<dispatchVars, bindingVars, networkVars, logged>>

\* fetch: the bindings are read and a receiver built with the secret, or the
\* runtime answers for one that is not set or does not parse.
Fetch(c, d) ==
  /\ at[c] = "idle"
  /\ delivery' = [delivery EXCEPT ![c] = d]
  /\ bound_at' = [bound_at EXCEPT ![c] = bound]
  /\ verifier' = [verifier EXCEPT ![c] = ParseSecret(bound)]
  /\ \/ ParseSecret(bound) # {} /\ Move(c, "received") /\ UNCHANGED answer
     \/ ParseSecret(bound) = {} /\ Answer(c, "RuntimeError")
  /\ UNCHANGED <<dispatchVars, bindingVars, networkVars, logged>>

Authentic(c) == delivery[c].signer \in verifier[c]

\* What the receiver refuses c for, or "None".
Fault(c) ==
  IF delivery[c].fault \notin BeforeSignature /\ ~ Authentic(c) THEN "Mismatch"
  ELSE delivery[c].fault

\* ReceiveError::refusal's statuses.
Status(fault) ==
  CASE fault \in {"Missing", "Mismatch"} -> "401"
    [] fault = "BodyTooLarge" -> "413"
    [] OTHER -> "400"

IsPing(c) == delivery[c].envelope.kind = ping

\* As Receive, with a request that is refused handled all the same.
ReceiveWithoutReturn(c) ==
  /\ at[c] = "received"
  /\ \/ /\ Fault(c) # "None"
        /\ Move(c, "handling")
        /\ answer' = [answer EXCEPT ![c] = Status(Fault(c))]
     \/ Fault(c) = "None" /\ IsPing(c) /\ Answer(c, "204")
     \/ Fault(c) = "None" /\ ~ IsPing(c) /\ Move(c, "handling") /\ UNCHANGED answer
  /\ UNCHANGED <<dispatchVars, bindingVars, delivery, bound_at, verifier, networkVars, logged>>

\* receive, once the body has arrived or failed to: refused, or answered when
\* a ping, or handled.
Receive(c) ==
  /\ at[c] = "received"
  /\ \/ Fault(c) # "None" /\ Answer(c, Status(Fault(c)))
     \/ Fault(c) = "None" /\ IsPing(c) /\ Answer(c, "204")
     \/ Fault(c) = "None" /\ ~ IsPing(c) /\ Move(c, "handling") /\ UNCHANGED answer
  /\ UNCHANGED <<dispatchVars, bindingVars, delivery, bound_at, verifier, networkVars, logged>>

Handle(c) ==
  /\ at[c] = "handling"
  /\ Dispatches!Begin(c)
  /\ env'[c] = delivery[c].envelope
  /\ Move(c, "dispatching")
  /\ UNCHANGED <<bindingVars, delivery, bound_at, verifier, answer, networkVars, logged>>

Dispatching(c) ==
  /\ at[c] = "dispatching"
  /\ Dispatches!Run(c) \/ Dispatches!Succeed(c)
  /\ UNCHANGED <<bindingVars, requestVars, networkVars, logged>>

\* The dispatch's result is the handler's, and its error the receiver's 500.
Conclude(c) ==
  /\ at[c] = "dispatching"
  /\ phase[c] = "done"
  /\ Answer(c, IF outcome[c].result = "Ok" THEN "204" ELSE "500")
  /\ UNCHANGED <<dispatchVars, bindingVars, delivery, bound_at, verifier, networkVars, logged>>

\* The forwarder awaits the service, or has.
HasPosted(c) == c \in inflight \/ response[c] # "None"

Runs(c, handler) == phase[c] = "running" /\ ran[c][Len(ran[c])] = handler

\* The runtime drops the request while it awaits the body or the service.
Drop(c) ==
  /\ \/ at[c] = "received" /\ UNCHANGED dispatchVars
     \/ Runs(c, Forward) /\ HasPosted(c) /\ Dispatches!Drop(c)
  /\ Move(c, "dropped")
  /\ UNCHANGED <<bindingVars, delivery, bound_at, verifier, answer, networkVars, logged>>

-----------------------------------------------------------------------------
(* The handlers *)

Returns(c, succeeded) ==
  /\ Dispatches!HandlerReturns(c)
  /\ phase'[c] = "open" <=> succeeded

\* Forward::handle: no object to post to or no request to be made of its URL,
\* or a POST to it.
ForwardStarts(c) ==
  /\ Runs(c, Forward)
  /\ ~ HasPosted(c)
  /\ \/ /\ Returns(c, FALSE)
        /\ UNCHANGED inflight
     \/ /\ delivery[c].installation # {}
        /\ inflight' = inflight \cup {c}
        /\ UNCHANGED dispatchVars
  /\ UNCHANGED <<bindingVars, requestVars, response, objects, logged>>

\* As ForwardReturns, whatever the status.
ForwardReturnsOnResponse(c) ==
  /\ Runs(c, Forward)
  /\ HasPosted(c)
  /\ \/ response[c] # "None" /\ Returns(c, TRUE)
     \/ Returns(c, FALSE)
  /\ UNCHANGED <<bindingVars, requestVars, networkVars, logged>>

\* The response arrives, which decides, or the fetch fails: before the service
\* had the POST, or after.
ForwardReturns(c) ==
  /\ Runs(c, Forward)
  /\ HasPosted(c)
  /\ \/ response[c] = "2xx" /\ Returns(c, TRUE)
     \/ Returns(c, FALSE)
  /\ UNCHANGED <<bindingVars, requestVars, networkVars, logged>>

\* InstallationLog::handle, which cannot fail and awaits nothing.
Log(c) ==
  /\ Runs(c, InstallationLog)
  /\ logged' = logged \cup {c}
  /\ Returns(c, TRUE)
  /\ UNCHANGED <<bindingVars, requestVars, networkVars>>

-----------------------------------------------------------------------------
(* Around the worker *)

Respond(c, status) ==
  /\ c \in inflight
  /\ inflight' = inflight \ {c}
  /\ response' = [response EXCEPT ![c] = status]

\* The service takes the envelope in, however late.
ServiceAccepts(c) ==
  /\ Respond(c, "2xx")
  /\ \E i \in delivery[c].installation :
       objects' = [objects EXCEPT ![i] = Append(@, delivery[c].id)]
  /\ UNCHANGED <<dispatchVars, bindingVars, requestVars, logged>>

ServiceRefuses(c) ==
  /\ Respond(c, "other")
  /\ UNCHANGED <<dispatchVars, bindingVars, requestVars, objects, logged>>

\* The bindings are changed: a rotation, or a mistake.
Rebind(binding) ==
  /\ rebinds < MaxRebinds
  /\ bound' = binding
  /\ rebinds' = rebinds + 1
  /\ UNCHANGED <<dispatchVars, requestVars, networkVars, logged>>

Next ==
  \/ \E c \in Call :
       \/ \E d \in Deliveries : Fetch(c, d)
       \/ Receive(c) \/ Handle(c) \/ Dispatching(c) \/ Conclude(c) \/ Drop(c)
       \/ ForwardStarts(c) \/ ForwardReturns(c) \/ Log(c)
       \/ ServiceAccepts(c) \/ ServiceRefuses(c)
  \/ \E binding \in Bindings : Rebind(binding)

Spec == Init /\ [][Next]_vars

-----------------------------------------------------------------------------
(* Properties *)

\* A request is answered when its way has ended and not before: with a status
\* of the receiver's, or by the runtime for a binding it cannot use.
WorkerTypeOK ==
  /\ phase \in [Call -> {"idle", "open", "running", "done", "dropped"}]
  /\ bound \in Bindings
  /\ bound_at \in [Call -> Bindings]
  /\ verifier \in [Call -> Bindings]
  /\ answer \in [Call -> {"None", "204", "400", "401", "413", "500", "RuntimeError"}]
  /\ inflight \subseteq Call
  /\ response \in [Call -> {"None", "2xx", "other"}]
  /\ objects \in [Installation -> Seq(DeliveryId)]
  /\ \A c \in Call : answer[c] # "None" <=> at[c] = "answered"

Given(i, id) == \E n \in DOMAIN objects[i] : objects[i][n] = id

\* What GitHub is told is what the service has: a delivery answered with
\* success is in its installation's object, and one of an installation is
\* logged, but never before the service took it in; and when any of this
\* failed, GitHub shows the delivery as failed.
SuccessMeansForwarded ==
  /\ \A c \in Call : answer[c] = "204" =>
       \/ IsPing(c)
       \/ /\ \E i \in delivery[c].installation : Given(i, delivery[c].id)
          /\ delivery[c].envelope.kind = installation => c \in logged
  /\ \A c \in logged :
       \E i \in delivery[c].installation : Given(i, delivery[c].id)

\* Whatever an object was given came from a delivery for that installation,
\* refused for nothing, signed with the secret bound when its request arrived,
\* however the binding has changed before and since, and never with the empty
\* one, and once for each request at most: the same delivery is there twice
\* only when it was sent twice.
OnlySignedIsForwarded ==
  \A i \in Installation : \A id \in DeliveryId :
    Cardinality({n \in DOMAIN objects[i] : objects[i][n] = id}) <=
      Cardinality({c \in Call :
        /\ delivery[c].id = id
        /\ delivery[c].installation = {i}
        /\ delivery[c].fault = "None"
        /\ delivery[c].signer \in bound_at[c] \ {Empty}
        /\ HasPosted(c)})
=============================================================================
