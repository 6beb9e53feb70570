------------------------------ MODULE Receiver ------------------------------
(***************************************************************************)
(* WebhookReceiver::process over its two body paths (src/src/receiver.rs), *)
(* with the verifier source, `authenticate' and the span's outcome.        *)
(*                                                                         *)
(* Requests run concurrently and share nothing but the configuration and   *)
(* the source. A request awaits the source, then its body, then its        *)
(* handler; at each of these the caller may drop it, and none has a        *)
(* timeout. Steps between two awaits are kept apart here for reading: no   *)
(* other request can tell.                                                 *)
(***************************************************************************)
EXTENDS BodyRead

CONSTANTS
  Target,      \* what X-GitHub-Hook-Installation-Target-ID can name
  Secret,      \* webhook secrets
  Owner,       \* the one target each secret was handed to
  Requests,    \* what clients send
  MaxChanges   \* bound: reconfigurations of the source in one run

ASSUME OwnerAssumption == Owner \in [Secret -> Target]
ASSUME MaxChangesAssumption == MaxChanges \in Nat

\* A signature header absent, not a signature, or made with a secret over some
\* data. `event' tells a ping apart, and an event-name header that is missing
\* or empty, as `delivery' does for the delivery ID.
Signature ==
  [form : {"absent", "malformed"}] \cup
  [form : {"signature"}, by : Secret, over : Seq(Frame)]

RequestType ==
  [path : {"request", "bytes"}, signature : Signature, delivery : BOOLEAN,
   event : {"missing", "ping", "other"}, json : BOOLEAN, target : Target, body : Bodies]

\* On the bytes path the body is one buffer the caller holds.
ASSUME RequestsAssumption ==
  /\ Requests \subseteq RequestType
  /\ \A q \in Requests :
       q.path = "bytes" =>
         Len(q.body.frames) = 1 /\ IsData(q.body.frames[1]) /\ q.body.hint = 0

\* `verifier' returns None for a target it does not know. A verifier, the
\* secrets it accepts, is never empty.
NoVerifier == {}

VARIABLES
  handle_ping,   \* configuration: pings reach the handler
  keys,          \* the source's store: each known target's secrets
  changes,       \* reconfigurations so far
  request,       \* what each request carries
  pc,            \* "start", "source", "body", "authenticate", "handler",
                 \* "done" or "dropped"
  verifier,      \* the verifier the source answered with
  answer,        \* what was answered: status, and the span's outcome and error
  handled,       \* the bytes the handler was started on (history)
  failed_event   \* the failed-delivery event was emitted

receiverVars ==
  <<handle_ping, keys, changes, request, pc, verifier, answer, handled, failed_event>>
vars == <<receiverVars, bodyVars>>

NoAnswer == [status |-> 0, outcome |-> "Empty", error |-> "None"]
NotHandled == [form |-> "None"]

\* A store that knows any targets, each by secrets of its own.
Stores ==
  {f \in [Target -> SUBSET Secret] :
     \A t \in Target : \A s \in f[t] : Owner[s] = t}

\* The builder: a source, and a body limit and the handling of pings as set or
\* left at their defaults. Nothing changes them once it is built.
Build ==
  /\ limit \in Limits
  /\ handle_ping \in BOOLEAN
  /\ keys \in Stores

Init ==
  /\ Build
  /\ NothingRead
  /\ request \in [Request -> Requests]
  /\ body = [r \in Request |-> request[r].body]
  /\ changes = 0
  /\ pc = [r \in Request |-> "start"]
  /\ verifier = [r \in Request |-> NoVerifier]
  /\ answer = [r \in Request |-> NoAnswer]
  /\ handled = [r \in Request |-> NotHandled]
  /\ failed_event = [r \in Request |-> FALSE]

-----------------------------------------------------------------------------
(* Answers *)

Unauthorized == {"Missing", "Mismatch", "UnknownTarget"}
BadRequest == {"Malformed", "MissingHeader", "UnsupportedContentType", "BodyRead"}

\* ReceiveError::refusal, its status and its label.
Refusal(error) ==
  IF error \in Unauthorized
    THEN [status |-> 401, outcome |-> "unauthorized", error |-> error]
  ELSE IF error \in BadRequest
    THEN [status |-> 400, outcome |-> "bad_request", error |-> error]
  ELSE [status |-> 413, outcome |-> "payload_too_large", error |-> error]

Accepted == [status |-> 204, outcome |-> "ok", error |-> "None"]
HandlerError == [status |-> 500, outcome |-> "handler_error", error |-> "None"]

Respond(r, response) ==
  /\ answer' = [answer EXCEPT ![r] = response]
  /\ pc' = [pc EXCEPT ![r] = "done"]

Goto(r, place) ==
  /\ pc' = [pc EXCEPT ![r] = place]
  /\ UNCHANGED answer

\* header::signature, on its own.
SignatureFault(q) ==
  CASE q.signature.form = "absent" -> "Missing"
    [] q.signature.form = "malformed" -> "Malformed"
    [] OTHER -> "None"

\* WebhookMeta::from_headers.
MetaFault(q) == IF q.delivery /\ q.event # "missing" THEN "None" ELSE "MissingHeader"

\* As Verifies, with any secret of any target accepted.
VerifiesForAnyTarget(secrets, signature, data) ==
  signature.by \in Secret /\ signature.over = data

\* Verifier::verify: some configured secret produced it over these bytes.
Verifies(secrets, signature, data) ==
  signature.by \in secrets /\ signature.over = data

\* As AuthenticateFault, with the content type looked at first.
ContentTypeFirst(q, secrets, data) ==
  IF SignatureFault(q) # "None" THEN SignatureFault(q)
  ELSE IF ~ q.json THEN "UnsupportedContentType"
  ELSE IF ~ Verifies(secrets, q.signature, data) THEN "Mismatch"
  ELSE MetaFault(q)

\* `authenticate': the signature, the content type, then the header meta.
AuthenticateFault(q, secrets, data) ==
  IF SignatureFault(q) # "None" THEN SignatureFault(q)
  ELSE IF ~ Verifies(secrets, q.signature, data) THEN "Mismatch"
  ELSE IF ~ q.json THEN "UnsupportedContentType"
  ELSE MetaFault(q)

-----------------------------------------------------------------------------
(* One request *)

\* Through `receive' or the Tower service, which is ready at any time and
\* never fails.
ByRequest(r) == request[r].path = "request"

\* Through `receive_bytes'.
ByBytes(r) == request[r].path = "bytes"

\* A closure, or an Arc of a source, is asked with the headers' meta. A fixed
\* Verifier is a store of one target.
Asked(source, r) == source[request[r].target]

\* As ReceiveHeaders, with the signature left to `authenticate'.
ReceiveHeadersLate(r) ==
  /\ pc[r] = "start"
  /\ IF MetaFault(request[r]) # "None" THEN Respond(r, Refusal(MetaFault(request[r])))
     ELSE Goto(r, "source")
  /\ UNCHANGED <<handle_ping, keys, changes, request, verifier, handled,
                 failed_event, bodyVars>>

\* The headers alone refuse, or the source is asked.
ReceiveHeaders(r) ==
  /\ pc[r] = "start"
  /\ LET q == request[r]
     IN  IF SignatureFault(q) # "None" THEN Respond(r, Refusal(SignatureFault(q)))
         ELSE IF MetaFault(q) # "None" THEN Respond(r, Refusal(MetaFault(q)))
         ELSE Goto(r, "source")
  /\ UNCHANGED <<handle_ping, keys, changes, request, verifier, handled,
                 failed_event, bodyVars>>

\* The source answers for the target the headers claim: a verifier, which the
\* request keeps from here on, or none.
SourceAnswers(r) ==
  /\ pc[r] = "source"
  /\ LET found == Asked(keys, r)
     IN  /\ verifier' = [verifier EXCEPT ![r] = found]
         /\ IF found = NoVerifier THEN Respond(r, Refusal("UnknownTarget"))
            ELSE Goto(r, "body")
  /\ UNCHANGED <<handle_ping, keys, changes, request, handled, failed_event, bodyVars>>

\* The request path: one step of read_body.
ReadRequestBody(r) ==
  /\ pc[r] = "body"
  /\ ByRequest(r)
  /\ ReadBody(r)
  /\ CASE read'[r] = "reading" -> Goto(r, "body")
       [] read'[r] = "Ok" -> Goto(r, "authenticate")
       [] OTHER -> Respond(r, Refusal(read'[r]))
  /\ UNCHANGED <<handle_ping, keys, changes, request, verifier, handled, failed_event>>

\* The bytes path: the caller holds the body, only its length is checked.
CheckBytes(r) ==
  /\ pc[r] = "body"
  /\ ByBytes(r)
  /\ LET whole == body[r].frames
     IN  \/ /\ whole[1].size > limit
            /\ read' = [read EXCEPT ![r] = "BodyTooLarge"]
            /\ Respond(r, Refusal("BodyTooLarge"))
            /\ UNCHANGED bytes
         \/ /\ whole[1].size <= limit
            /\ read' = [read EXCEPT ![r] = "Ok"]
            /\ bytes' = [bytes EXCEPT ![r] = [data |-> whole, len |-> whole[1].size]]
            /\ Goto(r, "authenticate")
  /\ polled' = [polled EXCEPT ![r] = 1]
  /\ UNCHANGED <<limit, body, handle_ping, keys, changes, request, verifier, handled,
                 failed_event>>

\* As Authenticate, with one handler admitted at a time.
AuthenticateOneAtATime(r) ==
  /\ pc[r] = "authenticate"
  /\ \A s \in Request : pc[s] # "handler"
  /\ LET fault == AuthenticateFault(request[r], verifier[r], bytes[r].data)
     IN  \/ /\ fault # "None"
            /\ Respond(r, Refusal(fault))
            /\ UNCHANGED handled
         \/ /\ fault = "None"
            /\ Goto(r, "handler")
            /\ handled' = [handled EXCEPT ![r] = [form |-> "data", data |-> bytes[r].data]]
  /\ UNCHANGED <<handle_ping, keys, changes, request, verifier, failed_event, bodyVars>>

\* The envelope is authenticated; a ping the receiver answers itself ends
\* here, anything else starts the handler on the bytes read.
Authenticate(r) ==
  /\ pc[r] = "authenticate"
  /\ LET fault == AuthenticateFault(request[r], verifier[r], bytes[r].data)
     IN  \/ /\ fault # "None"
            /\ Respond(r, Refusal(fault))
            /\ UNCHANGED handled
         \/ /\ fault = "None"
            /\ ~ handle_ping /\ request[r].event = "ping"
            /\ Respond(r, Accepted)
            /\ UNCHANGED handled
         \/ /\ fault = "None"
            /\ handle_ping \/ request[r].event # "ping"
            /\ Goto(r, "handler")
            /\ handled' = [handled EXCEPT ![r] = [form |-> "data", data |-> bytes[r].data]]
  /\ UNCHANGED <<handle_ping, keys, changes, request, verifier, failed_event, bodyVars>>

HandlerOk(r) ==
  /\ pc[r] = "handler"
  /\ Respond(r, Accepted)
  /\ UNCHANGED <<handle_ping, keys, changes, request, verifier, handled,
                 failed_event, bodyVars>>

\* The outcome is recorded, then the failed-delivery event is emitted.
HandlerErr(r) ==
  /\ pc[r] = "handler"
  /\ Respond(r, HandlerError)
  /\ failed_event' = [failed_event EXCEPT ![r] = TRUE]
  /\ UNCHANGED <<handle_ping, keys, changes, request, verifier, handled, bodyVars>>

\* The transport drops the future at an await: nothing is answered, and what
\* the handler did stays done.
Drop(r) ==
  /\ pc[r] \in {"source", "body", "handler"}
  /\ Goto(r, "dropped")
  /\ UNCHANGED <<handle_ping, keys, changes, request, verifier, handled,
                 failed_event, bodyVars>>

-----------------------------------------------------------------------------
\* An operator rotates secrets or changes which targets are known: external.
Reconfigure ==
  /\ changes < MaxChanges
  /\ keys' \in Stores
  /\ changes' = changes + 1
  /\ UNCHANGED <<handle_ping, request, pc, verifier, answer, handled,
                 failed_event, bodyVars>>

\* Steps the receiver takes without waiting on anyone.
Proceed(r) == ReceiveHeaders(r) \/ CheckBytes(r) \/ Authenticate(r)

Next ==
  \/ Reconfigure
  \/ \E r \in Request :
       \/ Proceed(r)
       \/ SourceAnswers(r)
       \/ ReadRequestBody(r)
       \/ HandlerOk(r)
       \/ HandlerErr(r)
       \/ Drop(r)

Spec == Init /\ [][Next]_vars

\* A future that can make progress is polled. The source, the transport and
\* the handler owe nothing.
FairSpec == Spec /\ \A r \in Request : WF_vars(Proceed(r))

-----------------------------------------------------------------------------
(* Properties *)

Place == {"start", "source", "body", "authenticate", "handler", "done", "dropped"}

AnswerType ==
  [status : {0, 204, 400, 401, 413, 500},
   outcome : {"Empty", "ok", "bad_request", "unauthorized", "payload_too_large",
              "handler_error"},
   error : Unauthorized \cup BadRequest \cup {"BodyTooLarge", "None"}]

\* Every request's place, verifier, answer and history, and the source's store.
ReceiverTypeOK ==
  /\ BodyTypeOK
  /\ handle_ping \in BOOLEAN
  /\ changes \in 0 .. MaxChanges
  /\ request \in [Request -> Requests]
  /\ pc \in [Request -> Place]
  /\ verifier \in [Request -> SUBSET Secret]
  /\ keys \in Stores
  /\ answer \in [Request -> AnswerType]
  /\ failed_event \in [Request -> BOOLEAN]

WholeBody(r) == DataOf(body[r].frames, Len(body[r].frames))

\* What r's handler was started on is signed with a secret that belongs to the
\* claimed target, and that the source vouched for in answer to this request.
HandledIsVouchedFor(r) ==
  LET q == request[r]
  IN  /\ q.signature.form = "signature"
      /\ q.signature.over = handled[r].data
      /\ Owner[q.signature.by] = q.target
      /\ q.signature.by \in verifier[r]
      /\ q.json /\ q.delivery /\ q.event # "missing"
      /\ handle_ping \/ q.event # "ping"

\* A handler is started only on an authentic delivery, and on its exact bytes:
\* the whole body, within the limit, signed with a secret that belongs to the
\* target the headers claim and that the source vouched for in answer to this
\* request, however the source's store has changed since.
HandledIsAuthentic ==
  \A r \in Request :
    handled[r] # NotHandled =>
      /\ handled[r].data = WholeBody(r)
      /\ Length(handled[r].data) <= limit
      /\ HandledIsVouchedFor(r)

\* The headers do not refuse r, and the source knows its target.
Admitted(r) ==
  /\ SignatureFault(request[r]) = "None"
  /\ MetaFault(request[r]) = "None"
  /\ verifier[r] # NoVerifier

\* Not one frame is taken from the transport for a request whose headers
\* refuse it or whose target is unknown, nor past the frame that decided the
\* read; and none of a body announced over the limit, whoever sent it.
NothingReadForARefusedRequest ==
  \A r \in Request :
    /\ read[r] # "unread" =>
         /\ Admitted(r)
         /\ \A i \in 1 .. polled[r] - 1 :
              /\ body[r].frames[i].kind # "error"
              /\ Length(DataOf(body[r].frames, i)) <= limit
    /\ body[r].hint > limit => polled[r] = 0

\* Why a body cannot be accepted, decided on the body alone.
BodyFault(b) ==
  LET errors == {i \in DOMAIN b.frames : b.frames[i].kind = "error"}
      crossed == {n \in DOMAIN b.frames : Length(DataOf(b.frames, n)) > limit}
  IN  IF b.hint > limit THEN "BodyTooLarge"
      ELSE IF \E n \in crossed : \A i \in errors : n < i THEN "BodyTooLarge"
      ELSE IF errors # {} THEN "BodyRead"
      ELSE "None"

\* What is wrong with a request, whatever the order of the checks.
Faults(r) ==
  LET q == request[r]
      fault == BodyFault(body[r])
  IN  {f \in {"Missing", "Malformed", "MissingHeader", "UnknownTarget",
              "BodyTooLarge", "BodyRead", "Mismatch", "UnsupportedContentType"} :
        CASE f = "Missing" -> q.signature.form = "absent"
          [] f = "Malformed" -> q.signature.form = "malformed"
          [] f = "MissingHeader" -> ~ q.delivery \/ q.event = "missing"
          [] f = "UnknownTarget" -> verifier[r] = NoVerifier
          [] f \in {"BodyTooLarge", "BodyRead"} -> f = fault
          [] f = "Mismatch" ->
               ~ (/\ q.signature.form = "signature"
                  /\ q.signature.by \in verifier[r]
                  /\ q.signature.over = WholeBody(r))
          [] f = "UnsupportedContentType" -> ~ q.json}

\* The documented order, and the status documented for each.
Precedence ==
  << <<"Missing", 401>>, <<"Malformed", 400>>, <<"MissingHeader", 400>>,
     <<"UnknownTarget", 401>>, <<"BodyTooLarge", 413>>, <<"BodyRead", 400>>,
     <<"Mismatch", 401>>, <<"UnsupportedContentType", 400>> >>

\* The outcome the span documents for a status.
OutcomeOf(status) ==
  CASE status = 204 -> "ok"
    [] status = 400 -> "bad_request"
    [] status = 401 -> "unauthorized"
    [] status = 413 -> "payload_too_large"
    [] status = 500 -> "handler_error"

\* The first of some faults, in that order.
FirstFault(faults) ==
  CHOOSE i \in DOMAIN Precedence :
    /\ Precedence[i][1] \in faults
    /\ \A j \in 1 .. i - 1 : Precedence[j][1] \notin faults

\* What the contract says of r once it is answered.
AnsweredByTheContract(r) ==
  LET faults == Faults(r)
      first == Precedence[FirstFault(faults)]
  IN  /\ answer[r].outcome = OutcomeOf(answer[r].status)
      /\ IF faults # {}
           THEN /\ answer[r].error = first[1]
                /\ answer[r].status = first[2]
                /\ handled[r] = NotHandled
           ELSE /\ answer[r].status \in {204, 500}
                /\ (handled[r] = NotHandled) = (request[r].event = "ping" /\ ~ handle_ping)
                /\ handled[r] = NotHandled => answer[r].status = 204

\* Every answer is the one the contract gives: the first fault in the
\* documented order, with its status; else 204 for a ping kept from the
\* handler; else what the handler returned. A refused request and a ping never
\* reached the handler, the span's outcome is the status's own and stays empty
\* for a dropped request, and the failed-delivery event marks the 500s alone.
AnswerFollowsTheContract ==
  \A r \in Request :
    /\ pc[r] = "done" => AnsweredByTheContract(r)
    /\ (pc[r] # "done") = (answer[r] = NoAnswer)
    /\ failed_event[r] = (answer[r].status = 500)

\* A request is answered or dropped, unless its own source call, transport or
\* handler keeps it waiting for ever: the receiver itself never does, and no
\* request waits on another.
AnsweredUnlessKeptWaiting ==
  \A r \in Request :
    pc[r] = "start" ~>
      \/ pc[r] \in {"done", "dropped"}
      \/ [](pc[r] = "source")
      \/ [](pc[r] = "body" /\ request[r].path = "request")
      \/ [](pc[r] = "handler")
=============================================================================
