-------------------------------- MODULE Inbox --------------------------------
(***************************************************************************)
(* The policy seam of examples/policy_seam.rs: a handler over the envelope *)
(* that stores a delivery, dispatches it, and dead-letters a kind nobody   *)
(* registered.                                                             *)
(*                                                                         *)
(* Its dispatcher is taken at its word: a dispatch takes the steps of      *)
(* DispatchContract, which Dispatcher implements. Calls run on several     *)
(* threads, so they interleave between any two steps; a step is what       *)
(* happens under one of the store's two locks, or one step of a dispatch.  *)
(***************************************************************************)
EXTENDS Selection, Functions

CONSTANTS
  Call,         \* calls of `handle', and dispatches of stored envelopes
  DeliveryId,
  Deliveries,   \* what the receiver hands over: [id, envelope]
  Programs      \* the dispatchers an inbox is built with

ASSUME DeliveriesAssumption == Deliveries \subseteq [id : DeliveryId, envelope : Envelope]
ASSUME DeliveriesExist == Deliveries # {}
ASSUME ProgramsAssumption == Programs \subseteq Seq(Registration)

\* dispatcher(): Auditor for everything, the triage closure, Labeler.
ExampleDispatcher(pull_request, opened, synchronize, reopened) ==
  LET on(actions) ==
        [tier |-> "on", input |-> pull_request,
         slots |-> {[kind |-> pull_request, action |-> a] : a \in actions}]
  IN  <<[tier |-> "always", slots |-> {}, input |-> Whole],
        on({opened, synchronize, reopened}),
        on({opened})>>

VARIABLES
  registrations, built, phase, env, ran, outcome,   \* the dispatches
  envelopes,      \* Store::envelopes: delivery ID -> envelope
  dead_letters,   \* Store::dead_letters: delivery IDs, in order
  poisoned,       \* the locks a panic poisoned
  at,             \* where each call stands
  delivery,       \* what it was called with
  answer          \* what it returned

dispatchVars == <<registrations, built, phase, env, ran, outcome>>
storeVars == <<envelopes, dead_letters, poisoned>>
seamVars == <<at, delivery, answer>>
vars == <<dispatchVars, storeVars, seamVars>>

Dispatches == INSTANCE DispatchContract

Init ==
  /\ registrations \in Programs
  /\ built = TRUE
  /\ phase = [c \in Call |-> "idle"]
  /\ env = [c \in Call |-> (CHOOSE d \in Deliveries : TRUE).envelope]
  /\ ran = [c \in Call |-> <<>>]
  /\ outcome = [c \in Call |-> [matched |-> "None", result |-> "Pending", route |-> 0]]
  /\ envelopes = [id \in {} |-> env]
  /\ dead_letters = <<>>
  /\ poisoned = {}
  /\ at = [c \in Call |-> "idle"]
  /\ delivery = [c \in Call |-> CHOOSE d \in Deliveries : TRUE]
  /\ answer = [c \in Call |-> "None"]

Id(c) == delivery[c].id

Move(c, to) == at' = [at EXCEPT ![c] = to]

Answer(c, what) ==
  /\ Move(c, "answered")
  /\ answer' = [answer EXCEPT ![c] = what]

-----------------------------------------------------------------------------
(* The store *)

\* As Stored, with a delivery recognised by its content.
StoredByContent(d) == d.id \in DOMAIN envelopes /\ envelopes[d.id] = d.envelope

\* A delivery is recognised by its ID alone.
Stored(d) == d.id \in DOMAIN envelopes

\* As Put, under the envelope's kind.
PutByKind(d) ==
  envelopes' = [k \in DOMAIN envelopes \cup {d.envelope.kind} |->
                  IF k = d.envelope.kind THEN d.envelope ELSE envelopes[k]]

Put(d) ==
  envelopes' = [id \in DOMAIN envelopes \cup {d.id} |->
                  IF id = d.id THEN d.envelope ELSE envelopes[id]]

\* As Insert, with the last receipt kept.
InsertLast(c, d) ==
  \/ /\ "envelopes" \in poisoned
     /\ Answer(c, "StoreError")
     /\ UNCHANGED envelopes
  \/ /\ "envelopes" \notin poisoned
     /\ Stored(d)
     /\ Put(d)
     /\ Answer(c, "Ok")
  \/ /\ "envelopes" \notin poisoned
     /\ ~ Stored(d)
     /\ Put(d)
     /\ Move(c, "stored")
     /\ UNCHANGED answer

\* As Insert, with the lock held for as long as a dispatch runs.
InsertHoldingTheLock(c, d) ==
  /\ \A other \in Call : phase[other] # "running"
  /\ \/ /\ "envelopes" \in poisoned
        /\ Answer(c, "StoreError")
        /\ UNCHANGED envelopes
     \/ /\ "envelopes" \notin poisoned
        /\ Stored(d)
        /\ Answer(c, "Ok")
        /\ UNCHANGED envelopes
     \/ /\ "envelopes" \notin poisoned
        /\ ~ Stored(d)
        /\ Put(d)
        /\ Move(c, "stored")
        /\ UNCHANGED answer

\* Under the lock: the store is unavailable, or the ID is stored and the call
\* is answered with success, or this is the first receipt.
Insert(c, d) ==
  \/ /\ "envelopes" \in poisoned
     /\ Answer(c, "StoreError")
     /\ UNCHANGED envelopes
  \/ /\ "envelopes" \notin poisoned
     /\ Stored(d)
     /\ Answer(c, "Ok")
     /\ UNCHANGED envelopes
  \/ /\ "envelopes" \notin poisoned
     /\ ~ Stored(d)
     /\ Put(d)
     /\ Move(c, "stored")
     /\ UNCHANGED answer

-----------------------------------------------------------------------------
(* One call of `handle' *)

Handle(c, d) ==
  /\ at[c] = "idle"
  /\ delivery' = [delivery EXCEPT ![c] = d]
  /\ Move(c, "called")
  /\ UNCHANGED <<dispatchVars, storeVars, answer>>

Accept(c) ==
  /\ at[c] = "called"
  /\ Insert(c, delivery[c])
  /\ UNCHANGED <<dispatchVars, dead_letters, poisoned, delivery>>

\* The stored delivery's dispatch begins.
Route(c) ==
  /\ at[c] = "stored"
  /\ Dispatches!Begin(c)
  /\ env'[c] = delivery[c].envelope
  /\ Move(c, "routing")
  /\ UNCHANGED <<storeVars, delivery, answer>>

\* A step of a dispatch under way: a handler starts or returns, or it ends.
Progress(c) == Dispatches!Run(c) \/ Dispatches!Succeed(c)

Awaiting(c) == at[c] \in {"routing", "recovering"}

Dispatching(c) ==
  /\ Awaiting(c)
  /\ Progress(c)
  /\ UNCHANGED <<storeVars, seamVars>>

HandlerReturns(c) ==
  /\ Awaiting(c)
  /\ Dispatches!HandlerReturns(c)
  /\ UNCHANGED <<storeVars, seamVars>>

Failed(c) == outcome[c].result # "Ok"

\* As Conclude, with an unmatched action answered with success whatever failed.
ConcludeTolerant(c) ==
  /\ at[c] = "routing"
  /\ phase[c] = "done"
  /\ \/ /\ outcome[c].matched = "UnmatchedAction"
        /\ Answer(c, "Ok")
     \/ /\ outcome[c].matched # "UnmatchedAction"
        /\ Failed(c)
        /\ Answer(c, "DispatchError")
     \/ /\ ~ Failed(c)
        /\ outcome[c].matched = "Matched"
        /\ Answer(c, "Ok")
     \/ /\ ~ Failed(c)
        /\ outcome[c].matched = "UnmatchedKind"
        /\ Move(c, "dead_letter")
        /\ UNCHANGED answer
  /\ UNCHANGED <<dispatchVars, storeVars, delivery>>

\* As Conclude, with an unknown kind dead-lettered whatever failed.
ConcludeUnknownFirst(c) ==
  /\ at[c] = "routing"
  /\ phase[c] = "done"
  /\ \/ /\ outcome[c].matched = "UnmatchedKind"
        /\ Move(c, "dead_letter")
        /\ UNCHANGED answer
     \/ /\ outcome[c].matched # "UnmatchedKind"
        /\ Answer(c, IF Failed(c) THEN "DispatchError" ELSE "Ok")
  /\ UNCHANGED <<dispatchVars, storeVars, delivery>>

\* The dispatch returned: its error is the call's, else the match decides.
Conclude(c) ==
  /\ at[c] = "routing"
  /\ phase[c] = "done"
  /\ \/ /\ Failed(c)
        /\ Answer(c, "DispatchError")
     \/ /\ ~ Failed(c)
        /\ outcome[c].matched # "UnmatchedKind"
        /\ Answer(c, "Ok")
     \/ /\ ~ Failed(c)
        /\ outcome[c].matched = "UnmatchedKind"
        /\ Move(c, "dead_letter")
        /\ UNCHANGED answer
  /\ UNCHANGED <<dispatchVars, storeVars, delivery>>

DeadLetter(c) ==
  /\ at[c] = "dead_letter"
  /\ \/ /\ "dead_letters" \in poisoned
        /\ Answer(c, "StoreError")
        /\ UNCHANGED dead_letters
     \/ /\ "dead_letters" \notin poisoned
        /\ dead_letters' = Append(dead_letters, Id(c))
        /\ Answer(c, "Ok")
  /\ UNCHANGED <<dispatchVars, envelopes, poisoned, delivery>>

\* The future is dropped at its one await, a handler of the dispatch.
Drop(c) ==
  /\ Dispatches!Drop(c)
  /\ \/ at[c] = "routing" /\ Move(c, "dropped")
     \/ at[c] = "recovering" /\ UNCHANGED at
  /\ UNCHANGED <<storeVars, delivery, answer>>

-----------------------------------------------------------------------------
(* Around the seam *)

\* A recovery job dispatches a stored envelope, past the seam.
Recover(c) ==
  /\ at[c] = "idle"
  /\ \E id \in DOMAIN envelopes :
       /\ delivery' = [delivery EXCEPT ![c] = [id |-> id, envelope |-> envelopes[id]]]
       /\ Dispatches!Begin(c)
       /\ env'[c] = envelopes[id]
  /\ Move(c, "recovering")
  /\ UNCHANGED <<storeVars, answer>>

\* A thread panics while it holds a lock: the lock stays poisoned.
Poison(lock) ==
  /\ lock \notin poisoned
  /\ poisoned' = poisoned \cup {lock}
  /\ UNCHANGED <<dispatchVars, envelopes, dead_letters, seamVars>>

Proceed(c) == Accept(c) \/ Route(c) \/ Dispatching(c) \/ Conclude(c) \/ DeadLetter(c)

Next ==
  \/ \E c \in Call :
       \/ \E d \in Deliveries : Handle(c, d)
       \/ Proceed(c) \/ HandlerReturns(c) \/ Drop(c) \/ Recover(c)
  \/ \E lock \in {"envelopes", "dead_letters"} : Poison(lock)

Spec == Init /\ [][Next]_vars

\* As in Dispatcher: a future that can go on is polled, and only a handler
\* keeps it waiting. No lock is held across an await, so none does.
FairSpec == Spec /\ \A c \in Call : WF_vars(Proceed(c))

-----------------------------------------------------------------------------
(* Properties *)

\* The store and the calls hold what their declarations say.
InboxTypeOK ==
  /\ phase \in [Call -> {"idle", "open", "running", "done", "dropped"}]
  /\ env \in [Call -> Envelope]
  /\ DOMAIN envelopes \subseteq DeliveryId
  /\ envelopes \in [DOMAIN envelopes -> Envelope]
  /\ dead_letters \in Seq(DeliveryId)
  /\ poisoned \subseteq {"envelopes", "dead_letters"}
  /\ at \in [Call -> {"idle", "called", "stored", "routing", "dead_letter",
                      "answered", "dropped", "recovering"}]
  /\ delivery \in [Call -> Deliveries]
  /\ answer \in [Call -> {"None", "Ok", "StoreError", "DispatchError"}]

\* The seam took this call's delivery for a first receipt.
IsFirst(c) ==
  \/ at[c] \in {"stored", "routing", "dead_letter", "dropped"}
  \/ at[c] = "answered" /\ phase[c] = "done"

\* However the copies of a delivery ID arrive, at once or after a failure, at
\* most one is routed, it is the one stored, and none is routed unstored: what
\* a recovery job finds is what the handlers got.
RoutedOnceAsStored ==
  \A c \in Call : IsFirst(c) =>
    /\ Id(c) \in DOMAIN envelopes
    /\ envelopes[Id(c)] = delivery[c].envelope
    /\ \A other \in Call : IsFirst(other) /\ Id(other) = Id(c) => other = c

\* No step takes an envelope out of the store or puts another in its place,
\* even for a redelivery of the same ID with another payload.
FirstReceiptKept ==
  [][\A id \in DOMAIN envelopes :
       id \in DOMAIN envelopes' /\ envelopes'[id] = envelopes[id]]_vars

\* Success is answered to a first receipt only when every handler due to it
\* ran and the last did not fail, and to a redelivery only when a first receipt
\* of its ID exists, which may still be running, have failed or been dropped.
SuccessIsAccountedFor ==
  \A c \in Call : answer[c] = "Ok" =>
    \/ /\ IsFirst(c)
       /\ Range(ran[c]) = Due(registrations, delivery[c].envelope)
       /\ outcome[c].result = "Ok"
    \/ \E first \in Call \ {c} : IsFirst(first) /\ Id(first) = Id(c)

\* A first receipt of a kind no registration names, whose handlers all
\* succeeded and which was answered so.
IsDeadLetter(c) ==
  /\ answer[c] = "Ok"
  /\ IsFirst(c)
  /\ outcome[c].result = "Ok"
  /\ delivery[c].envelope.kind \notin KindsNamed(registrations)

\* An operator's list names exactly the deliveries of unknown kinds that were
\* answered with success as a first receipt, each once: none a handler failed, none
\* of a kind the dispatcher knows, and none a second time for a redelivery.
DeadLettersAreUnknownKinds ==
  /\ Range(dead_letters) = {Id(c) : c \in {x \in Call : IsDeadLetter(x)}}
  /\ \A i, j \in DOMAIN dead_letters : dead_letters[i] = dead_letters[j] => i = j

\* A call ends unless a handler of its own stays pending: neither a copy of its
\* delivery under way nor another call's handler holds the store against it.
EndsUnlessItsHandlerHangs ==
  \A c \in Call :
    at[c] = "called" ~>
      (at[c] \in {"answered", "dropped"} \/ [](phase[c] = "running"))
=============================================================================
