# Verification of octoevents

TLA+ models of the `octoevents` crate, which receives GitHub webhooks and
dispatches them to handlers: what is modelled, what TLC checks on small
instances, and what TLAPS proves for every instance. Paths are relative to the
repository (`src/dispatch.rs` is the crate's own `src/` directory).

    tlc -workers 4 -config MCDispatcher.cfg MCDispatcher.tla     # a run
    tlapm DispatcherProofs.tla                                   # a proof

## 1. The system

A request enters the **receiver**. From its headers alone it checks that there is
a signature and reads the header meta, asks the **verifier source** for the
claimed target's verifier, reads the **body** under a limit, runs
**authenticate**, answers a ping itself, and hands the envelope to one
**handler**, usually a **dispatcher**. The dispatcher decodes the event meta,
looks the delivery up in its **route table** and runs the chains of handlers it
finds. Between the two an application may put a **policy seam** that persists
and deduplicates (`examples/policy_seam.rs`), or send the envelope to another
process and dispatch it there (`envelope.rs`, `events.rs`, `examples/worker`).

| component | state | operations | talks to |
|---|---|---|---|
| matchers (`matcher.rs`) | a list of slots (kind, action or any) | conversions, `or` | route table |
| route table and builder (`dispatch.rs`) | `always` chain, `by_kind` table, `fallback` chain | `always`, `on`, `handle`, `fallback`, `build`; `lookup`, `lookup_kind` | dispatcher |
| dispatcher (`dispatch.rs`) | none of its own: each call has a cursor over the frozen table | `dispatch` | handlers (await), inputs' decoding |
| handler inputs (`payload.rs`, `derive/`, `octocrab.rs`) | none | `from_envelope`, the declared kind | dispatcher |
| event meta (`meta.rs`) | none | `from_headers`, `EventMeta::decode` | receiver, dispatcher |
| event vocabulary (`events.rs`) | a table of names, one per release | parse, `as_str` | everything that reads a name |
| body reading (`receiver.rs`) | per request: an accumulator | `read_body` | the transport (await per frame) |
| receiver (`receiver.rs`) | configuration; each request has its own future | `receive`, `receive_bytes`, the Tower `call` | source, body, handler (awaits), the span |
| authenticate, headers (`authenticate.rs`, `header.rs`) | none | one sequence of checks | verifier |
| verifier (`signature.rs`) | a list of secrets, shared by reference count | `new`, `also`, `extend`, clone, drop, `verify`, `sign` | receiver |
| signature (`signature.rs`) | none | parse, print | receiver, verifier |
| verifier source (`source.rs`) | the application's store | `verifier` | receiver |
| envelope, refusals (`envelope.rs`) | none | wire format written and read; error to class, status, label | other processes; receiver, span |
| policy seam (`examples/policy_seam.rs`) | stored envelopes, dead letters | insert, dispatch, dead-letter | dispatcher, store |
| worker (`examples/worker`) | none of its own: two bindings, and an object per installation | `fetch`, forward, log | runtime, service (await), dispatcher |

What is hard in it:

- *Overlap.* Registrations may name a kind and its actions in any combination,
  repeatedly, in one matcher or several; each must run once, in a promised order.
- *Partial failure.* A chain stops at the first error, and an input that does not
  decode is an error of its handler; the match is independent of both.
- *Awaits.* Only a handler, the source and the body's frames are awaited. There a
  future may stay for ever (nothing has a timeout), be dropped by its caller, and
  other requests run.
- *Order of checks.* A request can be at fault in several ways; which fault is
  answered is a contract, and it decides whether a body is buffered at all.
- *Widths.* The limit is `usize` and the size hint `u64`; the crate targets
  `wasm32`, where they differ.
- *Staleness.* The source's secrets can be rotated between its answer and the
  check of the signature, and the worker's binding between two requests.
- *Sharing.* Clones of a verifier share a list until one is added to, while
  another thread verifies against it.
- *Redelivery.* Copies of a delivery arrive at once, after a failure, or after a
  response was lost; a call may be dropped between storing and dispatching.
- *Several releases.* The process that dispatches may know fewer event names than
  the one that received, and documents may be written by other programs.
- *Nesting.* A dispatcher may be a handler of another: two matches, two errors,
  two spans, and one answer.

`PROJECT.json` lists each hazard at its line, with the properties that cover it.
What makes each component correct: the table is the registrations regrouped and a
lookup is what the registrations declare; a dispatch starts the due handlers in
order and its outcome accounts for them; a read holds no more than the limit and
is refused for a reason true of the body; a handler is started on authentic
bytes only, nothing is read for a refused request, the answer is the contract's;
a clone of a verifier is a value; a delivery ID is routed once and as stored; an
envelope read is the envelope received; a nested dispatcher's handlers run as if
registered in its place; and no component keeps a call waiting on another call.

## 2. The modules

    Selection             what registrations promise for one delivery
      Routes              matchers, builder, table, lookup
        Dispatcher        concurrent dispatches over the table
      DispatchContract    the promise to a caller, with no table
        Inbox             the policy seam over dispatches by contract
        Worker            the worker example over dispatches by contract
        Nested            a dispatcher within a dispatcher, spans and errors
      Examples            the dispatchers the other examples build
    BodyRead              read_body
      Receiver            the receiver around it
    VerifierValues        what a verifier promises: its list is its own
      Verifier            handles on shared lists, copied on write
    SignatureText         the text of a signature, parsed and printed
    Wire                  an envelope between processes, event meta, kinds

A module extends or instantiates the one it is indented under. The `MC*` modules give the constants
their values, and the `*Proofs` modules hold the theorems.

**Selection** is the reference: on the list of registration calls alone it
defines who is due to a delivery (`Due`), in which order (`Before`) and with
which match (`MatchOf`). It is written from the documented behaviour of
`always`, `on`, `fallback` and `Match`, and knows nothing of chains or tables.

**Routes** is the code of the table. A matcher is a sequence of slots. A
registration is its position among the registration calls, as the code allocates
one erased handler per call and compares pointers. `always`, `by_kind` and
`fallback` are the fields of `Routes`; `InsertEach` is `insert_each` with its
`seen` set; `Lookup` returns the match and the two halves of the iterator, whose
filter is `Yields`. Each builder method is one action, and `Build` freezes the
table. The history variable `registrations` feeds the reference.

**Dispatcher** gives each call of `dispatch` a place (`pc`), a chain (`tier`) and
a cursor (`pos`). A step is what runs between two awaits of one handler's future
or one item of a chain: `Dispatch` or `DispatchUndecoded` (the meta decodes or
not), `StartHandler`, `FailDecode`, `HandlerOk`, `HandlerErr`, `NextChain`,
`Drop`. The histories `ran` and `outcome` are what the properties compare.

**DispatchContract** is the abstract specification: always run the next
remaining due registration, until none remains or one fails. `Dispatcher`
implements it under a mapping that forgets the cursor (`phase`). What composes
with a dispatcher composes with the contract, whose steps it takes as its own.

**Nested** is `Handler<Envelope> for Dispatcher`: an outer and an inner instance of
the contract. Starting a registration that holds the inner dispatcher begins an
inner dispatch (`StartHandler`), its steps interleave with nothing of the outer
one, its result becomes the handler's (`InnerReturns`), and dropping the future
drops both (`Drop`). Each dispatch records its label and registration on its span
(`RecordSpans`); `Report` is the receiver's failed-delivery event, which searches
the sources of the handler's error for a dispatch error, behind a wrapper too.

**BodyRead** is `read_body`: `StartRead` (the size hint), `NextFrame` (an error,
trailers, data within or across the limit), `EndOfBody`. Integers have their
widths, `MaxUsize` and `MaxU64`. Data is known by its length.

**Receiver** is `process_in_span` over both body paths (`ByRequest` is `receive` and
the Tower service, `ByBytes` is `receive_bytes`), with what `Build` configured:
`ReceiveHeaders`,
`SourceAnswers`, `ReadRequestBody` (a step of `BodyRead`) or `CheckBytes`,
`Authenticate`, `HandlerOk`, `HandlerErr`, and `Drop` at each await. A signature
is known by the secret that made it and the bytes it is over, so the MAC is taken
as unforgeable; a verifier is the set of secrets it accepts. `Reconfigure` is the
application rotating its store. `answer` is the status with what the span
records (`outcome`, `error`), `failed_event` the failed-delivery event.

**Verifier** has handles (`cell`: handle to allocation) on lists (`heap`). `MakeMut`
is `Arc::make_mut`: in place when no other handle is on the list, else a copy
this handle moves to. `verify` is one step per secret (`Try`), so that additions
to other clones fall between two of them; it borrows its handle, which Rust then
keeps from being changed or dropped. `Drop` of the last handle frees the list.
**VerifierValues** gives each handle a list of its own; `Verifier` implements it
under the mapping that forgets sharing and progress.

**SignatureText** is the parser and printer on bytes: prefix, length, digits in
both cases. A MAC has `Sha256Bytes` bytes, 32 in the code and 2 in the run.

**Inbox** is `Inbox::handle` over the store's two mutexes: `Accept` is the critical
section on the envelopes, `Route`, `Dispatching` and `HandlerReturns` the dispatch
the seam awaits, `Conclude` the `match` on its outcome, `DeadLetter` the second
critical section. `Drop` drops the future at the one await, `Poison` is a panic
under a lock, and `Recover` is the recovery job of `docs/recovery.md`, which
dispatches what the store holds.

**Worker** is `fetch`: the bindings are read for each request (`Fetch`), where a missing
one or an empty secret ends in the runtime's error. `Receive` is the receiver with that
secret: whatever it refuses for, in its order and with its statuses (`Fault`,
`Status`), one fault of the headers or the body per delivery beside who signed it. The
dispatcher runs `Forward` and then `InstallationLog`. The service may take a POST in
late, refuse it, or take it in and lose the response; `Rebind` changes or unsets the
binding; `Drop` ends a request that waits for its body or the service. The history
`bound_at` keeps what was bound when each request came, apart from the `verifier` its
receiver was built with: no guard reads it, and a verifier kept for later requests would
disagree with it.

**Wire** follows one delivery: `Receive` builds the envelope from headers, `Write` and
`ReadDocument` carry it to other processes, `Decode` is what a dispatch does with
it. Text is a sequence of characters (`Char`), since escapes are of single ones. Each process has its own table of names. `Annotate` is a transport's own
field or the event meta a 0.3 producer added, `WriteOtherwise` another program's
document. A document maps a field to the values it is given, in order, so that a
field given twice, as null or not at all can be said. The payload derive
(`ExpandPayload`) and octocrab's reading of the event name (`OctocrabName`) are
compared with the kind routed by.

Conventions. The operators introduced by "As X, with ..." are variants of the
definition that follows them with one plausible bug each. No specification uses
them: they are there to show that each property fails when the code is wrong that
way. In `PROJECT.json`, a definition that stands for a whole item of the source is
mapped to the item with its rustdoc, and one that stands for a part of it to the
lines of that part.

## 3. The runs

| run | instance | states | shows |
|---|---|---|---|
| `routes` | 2 kinds, 2 actions, 10 matchers, 3 registrations | 67,650 | the table is the registrations regrouped; lookups as declared |
| `dispatcher` | 1 call, 3 registrations, 10 deliveries | 150,713 | the handlers that run, in order; what an outcome means |
| `dispatcher_pair` | 2 interleaved calls, 2 registrations, 3 deliveries | 41,269 | implements the contract; ends unless a handler hangs |
| `body_read` | every body of up to 3 frames, every limit, 2-bit `usize` | 10,764 | limit, overflow, what is kept, why refused |
| `receiver` | 1 request of every kind, 1 reconfiguration | 152,124 | authentic, nothing read needlessly, the answer |
| `receiver_pair` | 2 interleaved requests that reach each await | 176,400 | no request waits on another |
| `inbox` | 2 calls, 2 delivery IDs, 5 envelopes, 2 dispatchers | 71,504 | routed once and as stored; success, dead letters; ends |
| `verifier` | 2 handles, 2 secrets, lists of up to 3 | 86,649 | sharing never shows; every secret tried; freed in time |
| `signature_text` | 2-byte MACs, digits at and beside every boundary | 4,987 | parsed as denoted; printing is the inverse |
| `wire` | 2 releases, 2 hops, every field faulty in every way | 1,424,712 | the envelope survives; documents read whole; kinds agree |
| `worker` | 2 requests, 3 secrets or none, 1 rebinding, 14 deliveries | 128,708 | success means forwarded; only what was signed as bound is |
| `nested` | 4 outer and 8 inner programs, every delivery, 3 wrappers | 22,845 | nested handlers run in place; failures can be traced |

*Bounds.* `MaxRegistrations` = 3 lets one registration precede, overlap and
follow another in each chain; two actions and two kinds suffice to be named
together, apart, or not at all, and the matchers hold every form of
`matcher.rs`, empty, repeated and overlapping ones included. Three frames are one
before, at and after the one that decides a read; a `usize` of two bits against a
`u64` of three makes a sum of two frames overflow and a hint exceed `usize`.
Bodies that end without an error hold at least what they announced, as
`http_body` requires of a size hint. One reconfiguration (`MaxChanges`) is enough
to change the store between the source's answer and any later step. The requests
of `receiver` are the full product of header faults, targets, signatures and
bodies. `receiver_pair` keeps a few of them, as it asks for progress only.

In `inbox` two calls are two copies at once, a redelivery after any end of the
first, two deliveries side by side, or a receipt and its recovery. Two handles are
one that verifies and one that is changed meanwhile; a third adds only symmetric
sharing, and the proofs cover any number. `MaxSecrets` = 3 lets both kinds of
addition reach a full list. In `signature_text` each digit is the first or last of
its range, a byte beside it, or no ASCII; a digit's handling does not depend on the
number of bytes around it. In `wire` two hops (`MaxHops`) go from one release to the
other and back; headers vary with a plain payload and payloads with plain
headers, as no code reads both. In `worker` two requests are a delivery and its
redelivery, under the same binding or a changed one (`MaxRebinds` = 1), which is also
what it takes to tell a secret read for each request from one kept; a delivery has each
fault in turn. In `nested`
the inner dispatcher stands in every tier, alone, twice and beside others.

*Fairness.* A future that can make progress is polled: `Advance` of each dispatch,
`Proceed` of each request and of each call of the seam are weakly fair, and a
thread within `verify` goes on (`Try`, `Answer`). The seam holds no lock across its
await, so a lock never keeps a call from being polled to its end. Nothing makes a
handler return, a source answer or a transport produce a frame, since the code
gives none of them a timeout; these steps are not fair, and the liveness
properties name them as the only excuse. No property assumes that a caller does
not drop its future, and none of a lock that is not poisoned.

*Refinement.* `ImplementsContract` (the dispatcher's table and cursors against the
contract) and `ImplementsValues` (shared lists against values) are checked with the
fairness of both sides; their safety halves are also proved.

*Faults.* Futures dropped at every await; a transport error in a body; a source
that does not know a target, never answers, or changes its mind; a poisoned lock;
a copy of a delivery at any time; a recovery job beside the seam; a POST that is
lost, late, refused, or taken in with its response lost; a secret rebound, emptied or
unset; a document annotated or written by another program; a process that does
not know a name.

*Deadlock* is not checked: every call may have ended, every request may have been
answered, and a delivery may have reached its dispatch. The exception is
`verifier`, where a handle that is not alive can always be made again.

## 4. The proofs

TLC's instances have two or three of everything; the theorems hold for any set of
kinds, actions, matchers and deliveries, any number of registrations, of
concurrent calls, requests and handles, any integer width, and bodies, texts and
signatures of any length. Every invariant that a run checks is a theorem, and so are
the action properties and the safety halves of both refinements. Each inductive
invariant was first checked as an invariant of its component's run.

They assume the constants' named assumptions only. On dispatches: `NoAction` is no
action, `Whole` no kind, matchers are sequences of slots, deliveries are envelopes, and
in `Nested` places count from 1. On requests: they are well-formed, secrets have owners,
`MaxUsize` is at most `MaxU64`, and limits are in `usize`. On verifiers: a list may hold
a secret. In `Worker`: ping and installation are two kinds, and the empty secret is one a
binding may hold. In `Wire`: the quotation mark and the backslash are
characters, receipts and values are of their types, no annotation has an envelope
field's name, and a type listed for octocrab has one kind and no attribute of this
crate's.

- **DispatcherProofs**, of the table and of the dispatcher. `TableInv`, the type
  together with `TableHoldsRegistrations`, is inductive: appending a fresh registration
  to a chain that holds earlier ones keeps it without duplicates and in order
  (`HoldsPush`), and a kind or action has an entry exactly when a slot named it.
  `LookupAsDeclared` follows from the table (`LookupCorrect`).
  Neither `RunsInOrder` nor `OutcomeAccountsForTheRun` is
  inductive: they do not say where the cursor is. `IInv` adds that a call under
  way has run exactly what lies behind its cursor in this chain and the earlier
  ones (`Iterating`), that the awaited handler is the one at the cursor
  (`Awaiting`), and that a call begun means a frozen table, so no registration
  changes what is due. One lemma per action; `NextIsDue` is the heart: the
  iterator's next item is the least due registration not yet passed.
  From `IInv`, each step of the dispatcher is a step of
  `DispatchContract` or leaves its variables alone (`StepKeepsContract`).
  Theorems `TableTypeCorrect`, `TableCorrect`, `LookupsCorrect`; `TypeCorrect`,
  `HandlersRunInOrder`, `OutcomesAccount`; `DispatcherKeepsContract`:
  `Spec => Contract!SafeSpec`.
- **ReceiverProofs**, of `read_body` and of the receiver around it. `DataOf` and
  `Length` are recursive functions over the frames: they are shown to exist, and to
  satisfy the equations that define them, by induction on the number of frames
  (`SetInduction`, the principle said of a set), and further inductions give what the
  proofs need of them. `BodyInv` is the type, the limit and, of each read,
  `ReadSound`: what is accumulated is the data of the frames passed, in order, each of
  them was within the limit, and the verdict is what the last one polled says. The
  limit bounds the accumulator, and the test that keeps it there is the one that keeps
  the sum in `usize`. `Sound` says what each place of a request rests on: past the
  headers they are in order, past the source there is a verifier, all of whose
  secrets are the claimed target's, nothing is read before, no handler is
  started before the whole body is checked, and a request that has ended was answered by
  the contract's order of faults. A rotation of the store touches no request that has
  its verifier. Theorems `BodyTypeCorrect`, `LimitHolds`, `BufferIsTheData`,
  `RefusedForTheReason`; `ReceiverTypeCorrect`, `HandledAreAuthentic`,
  `NothingReadUnlessAdmitted`, `AnswersFollowTheContract`, `ReceiverBuffersWithinLimit`.
- **VerifierProofs.** The type, the accounting of lists and what a check has found
  so far are inductive together: a borrowed handle's list cannot change, since its
  own additions wait and another handle's copy. From them each step is a step of
  `VerifierValues` or a stutter. Theorems `VerifierTypeCorrect`, `ListsAreFreed`,
  `SecretsAreTried`, `SigningSecretIsKept`, `SharingIsInvisible`.
- **SignatureTextProofs.** Two digits are read as the one byte they write, in either
  case, or as none (`ByteIsWritten`), and the two printed for a byte write it
  (`DigitsWrite`). What `FlattenSeq` makes of the printed pairs has each byte's digits in
  its place, by induction on the bytes (`DisplayWrites`). So a value parses to the MAC it
  denotes (`ParsedIsMac`) and a MAC printed to itself (`ParsedBack`). `SignatureInv` says
  where a text came from: parsed, it stands beside what it was parsed to; received again,
  it is the print of that. Theorems `DenotedIsParsed`, `PrintingIsInvertible`.
- **InboxProofs.** `RoutedOnceAsStored` and `SuccessIsAccountedFor` lean on each other
  through the store: `SeamInv` adds that a stored envelope has the call that stored
  it (`StoredByAFirst`), that where a call stands agrees with its dispatch
  (`StandsWithItsDispatch`), and what the contract says of any dispatch
  (`DispatchInv`), so that the seam's properties are proved from the contract alone.
  `MatchedKindIsNamed` ties `UnmatchedKind` to the registrations. Theorems
  `InboxTypeCorrect`, `RoutedOnce`, `SuccessAccounted`, `DeadLettersExact`,
  `ReceiptKept`.
- **WireProofs.** `WireInv`: there is at most one envelope, and of the one held (`Held`)
  it is known that it is the one this process would have built of the request, as long
  as no other program wrote (`Here`), that a document written of it gives its fields (`Gives`), that one
  read is what its document gives, and, once decoded, what was decoded (`Decoded`). A
  forwarded envelope stays `Here` because a name keeps its text whether or not a process
  knows it, and reading what was written gives back each field. That octocrab's name is
  the kind routed by is an induction over the characters of the name: escaped and
  read back, a prefix of it is that prefix, whatever escapes follow each other.
  That each field of the event meta, the action by its name, is what the bytes say rests
  on `SaidIsGiven`: a field that fits gives what it says, and one that does not is faulty.
  Theorems `WireTypeCorrect`, `HeldAsReceived`, `DocumentsReadAsWritten`, `MetaOfTheBytes`,
  `KindsAgreeAlways`.
- **WorkerProofs.** `Way` follows one request: its verifier is what was bound when it
  came, the empty secret excepted, whatever is bound since; it is posted only by its own
  dispatch, after the receiver accepted it; the dispatch gets past `Forward` only once the
  service took the delivery in; what is logged was taken in. `Counted` accounts for the
  objects: each of the places where a delivery ID stands in one belongs to a request
  whose POST was accepted, so that copies are bounded by signed requests however the network
  delays and repeats them. Theorems `WorkerTypeCorrect`, `SuccessIsForwarded`,
  `SignedAreForwarded`.
- **NestedProofs.** Both dispatches satisfy one invariant of a dispatch by contract
  (`Dispatched`), kept by every step a dispatch can take, outer or inner. `Linked` ties
  them together: an inner dispatch that the outer one has not started is idle, the one
  it stands at is under way, the one it failed at failed, and any other succeeded.
  `SpansTell` and `EventTells` say what the spans and the failed-delivery event
  record of them. Theorems `NestedHandlersInPlace`, `FailuresAreTraced`.

*Induction.* The library's induction theorems take the predicate as a parameter, which no
installed prover instantiates. `SetInduction` says the same of a set, and follows
from the least element of a nonempty set of naturals (`WFMin`); an operator that recurses
is written, here or in the community modules, as a recursive function, and the lemma
that it satisfies its own equations is such an induction. It is repeated in the three
modules that use it, since each stands on its own component.

Model-checked only: liveness (`EndsUnlessAHandlerHangs`, `AnsweredUnlessKeptWaiting`,
`EndsUnlessItsHandlerHangs`) and the fairness halves of `ImplementsContract` and
`ImplementsValues`, since fairness rests on `ENABLED`, which is beyond the prover; and
that the programs of `Examples` are what the examples register, which only the run of `nested`
uses.

## 5. What is not modelled

- The content of payloads, JSON and base64 text, the header names: serde's,
  base64's and `http`'s. Whether a payload fits a type is an attribute of the
  delivery; a document is its fields and their types.
- Cryptography: HMAC is unforgeable and the comparison exact. That comparing takes
  the same time whatever matches is not a behaviour of states; that every secret is
  tried is checked.
- The handler adapters (closures, `Arc`) and the Tower service's boxed future: they
  hand a call on. Their bounds and `runtime.rs` are types.
- The `verify` span and the types span fields are recorded as. What the receive and
  dispatch spans say is modelled.
- In the examples: servers, sockets and console output. `axum.rs` only serves a
  receiver.
- octocrab's decoding of a payload, and generics in the derive, which are the
  compiler's.
- Test support (`test_support.rs`): fixtures.

Notes on the code read. The rustdoc at `src/events.rs:331` says an action is read
from the payload when the envelope is built. `EventMeta::decode` reads it, where the
envelope is dispatched (`src/envelope.rs:19`); `Wire` follows the code. And
`examples/worker/README.md:43` says a refused request is answered 401 or 400: a body
over the limit is answered 413, as `Worker` has it.

## 6. Plan

1. *Done.* The table, the dispatcher and its contract, the body and the receiver,
   the verifier and its values, the signature's text, the policy seam, the wire
   format, the worker, nested dispatchers; every invariant and action property that the
   runs check, proved.
2. The policy seam and the worker against one abstract promise, a log of deliveries
   handled at most once, as a refinement of each; its steps are those of `SeamInv` and
   `Counted`.
3. The dispatcher's operators: the order `Before` as a total order on what is due, and
   `MatchOf` as a function of the due registrations alone.
4. **Receiver** over a dispatcher by contract: the answer of a request from what the
   registrations declare.
