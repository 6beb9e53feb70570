-------------------------------- MODULE Wire --------------------------------
(***************************************************************************)
(* A delivery between processes: the header meta, the envelope's document, *)
(* and the event meta decoded where it is dispatched (src/src/meta.rs,     *)
(* envelope.rs, events.rs, octocrab.rs).                                   *)
(*                                                                         *)
(* The processes are built from different releases, so each has its own    *)
(* vocabulary of event kinds, actions and target types. Between them a     *)
(* document may be annotated, or be another program's altogether.          *)
(*                                                                         *)
(* Text is a sequence of characters, of which only the quotation mark and  *)
(* the backslash matter. An option is the set of what it holds.            *)
(***************************************************************************)
EXTENDS Integers, Sequences, SequencesExt

CONSTANTS
  Char,          \* the characters
  Role,          \* the processes
  Vocabularies,  \* what each may know: Role -> Enum -> set of names
  Receipts,      \* [headers, payload] of the deliveries sent
  Annotations,   \* fields other than the envelope's
  Declared,      \* payload types: [octocrab: the kind it is listed for, if it is
                 \* octocrab's, attributes: [name, form, args] of an application's]
  Values,        \* what another program may write in a field
  MaxHops

Quote == "quote"
Backslash == "backslash"

\* What a field of a JSON object holds, and no value.
Value(type, of) == [type |-> type, of |-> of]

Base64(bytes) == [type |-> "base64", bytes |-> bytes]

Enum == {"EventKind", "Action", "TargetType"}

HeaderFields == {"delivery_id", "kind", "target_type", "target_id"}
EnvelopeFields == HeaderFields \cup {"raw_payload"}
MetaFields == {"action", "installation", "repository", "organization", "sender"}

\* A number's text, for str::parse.
Number == <<"number">>

\* Text, and a JSON value by its type, of which "unfit" is an object that lacks
\* what the event meta reads of it.
Text == Seq(Char)
JsonType == {"string", "number", "object", "array", "null", "unfit"}
JsonValue == [type : JsonType, of : Text]

HeaderValue == [state : {"absent", "opaque", "text"}, of : Text]
Headers ==
  [delivery_id : HeaderValue, event : HeaderValue,
   target_type : HeaderValue, target_id : HeaderValue]

RawPayload ==
  [type : {"object", "array", "invalid"}, fields : [MetaFields -> Seq(JsonValue)]]

\* What may stand in a field of a document.
FieldValue == JsonValue \cup [type : {"base64"}, bytes : RawPayload]

\* The attributes of a declared type. octocrab's own has none of this crate's.
Attributes ==
  Seq([name : STRING, form : {"path", "list", "name-value"}, args : Seq(Text)])

ASSUME CharAssumption == {Quote, Backslash, "number"} \subseteq Char
ASSUME ReceiptsAssumption == Receipts \subseteq [headers : Headers, payload : RawPayload]
ASSUME ValuesAssumption == Values \subseteq FieldValue
ASSUME DeclaredAssumption ==
  \A type \in Declared :
    /\ type.attributes \in Attributes /\ type.octocrab \subseteq Text
    /\ \/ type.octocrab = {}
       \/ /\ \E name \in type.octocrab : type.octocrab = {name}
          /\ \A i \in DOMAIN type.attributes : type.attributes[i].name # "payload"
ASSUME AnnotationsAssumption == Annotations \cap EnvelopeFields = {}
ASSUME HopsAssumption == MaxHops \in Nat

VARIABLES
  vocabulary,   \* the names each process knows
  sent,         \* the delivery, as GitHub sent it
  role,         \* the process that holds it
  stage,        \* "headers", "envelope", "document", "decoded" or "refused"
  envelope,     \* what the process holds of it
  document,     \* field -> the values it is given, in order
  foreign,      \* another program wrote in a document
  hops,
  event_meta,   \* the event meta decoded, or none
  octocrab,     \* octocrab's name for the kind
  taken         \* the payload types the delivery is decoded as

vars == <<vocabulary, sent, role, stage, envelope, document, foreign, hops,
          event_meta, octocrab, taken>>

-----------------------------------------------------------------------------
(* Vocabularies *)

\* As Parse, with every unknown name alike.
ParseCollapsing(r, enum, name) ==
  IF name \in vocabulary[r][enum] THEN [known |-> TRUE, name |-> name]
  ELSE [known |-> FALSE, name |-> <<>>]

\* From<&str> of an enum: a variant for a name in its table, else Unknown with
\* the name.
Parse(r, enum, name) == [known |-> name \in vocabulary[r][enum], name |-> name]

EventKind(r, name) == Parse(r, "EventKind", name)

Action(r, name) == Parse(r, "Action", name)

TargetType(r, name) == Parse(r, "TargetType", name)

AsStr(value) == value.name

-----------------------------------------------------------------------------
(* Headers *)

\* header::read: the value, if it is there and is visible ASCII.
Read(header) == IF header.state = "text" THEN {header.of} ELSE {}

\* header::required
IsRequired(header) == Read(header) \notin {{}, {<<>>}}

\* WebhookMeta::from_headers, of headers that have what is required.
FromHeaders(r, headers) ==
  [delivery_id |-> headers.delivery_id.of,
   kind        |-> EventKind(r, headers.event.of),
   target_type |-> {TargetType(r, name) : name \in Read(headers.target_type)},
   target_id   |-> Read(headers.target_id) \cap {Number}]

-----------------------------------------------------------------------------
(* The document *)

\* Serialize: the header meta's fields at the top, an absent option left out.
ToWire(e) ==
  LET optional(values) == [i \in 1 .. IF values = {} THEN 0 ELSE 1 |->
                             CHOOSE v \in values : TRUE]
      given == [f \in EnvelopeFields |->
        CASE f = "delivery_id" -> <<Value("string", e.meta.delivery_id)>>
          [] f = "kind" -> <<Value("string", AsStr(e.meta.kind))>>
          [] f = "target_type" ->
               optional({Value("string", AsStr(t)) : t \in e.meta.target_type})
          [] f = "target_id" -> optional({Value("number", n) : n \in e.meta.target_id})
          [] f = "raw_payload" -> <<Base64(e.raw_payload)>>]
  IN  [f \in EnvelopeFields \cup Annotations |->
         IF f \in EnvelopeFields THEN given[f] ELSE <<>>]

Present(values) == {i \in DOMAIN values : values[i].type # "null"}

\* As Fits, taking the last of several values.
FitsLast(values, type) ==
  values = <<>> \/ Last(values).type \in {type, "null"}

\* As Fits, with no Object around the field's struct, which serde also reads
\* from an array by position.
FitsPositional(values, type) ==
  /\ Len(values) <= 1
  /\ \A i \in Present(values) : values[i].type \in {type, "array"}

\* Option<T> of a field: given at most once, and as T or null.
Fits(values, type) ==
  /\ Len(values) <= 1
  /\ \A i \in Present(values) : values[i].type = type

Given(values) == {values[i].of : i \in Present(values)}

\* A field that is no option.
FitsRequired(values, type) == Fits(values, type) /\ Present(values) # {}

\* EnvelopeWire's fields; a base64 string is a string whose text decodes.
IsReadable(doc) ==
  /\ FitsRequired(doc["delivery_id"], "string")
  /\ FitsRequired(doc["kind"], "string")
  /\ Fits(doc["target_type"], "string")
  /\ Fits(doc["target_id"], "number")
  /\ FitsRequired(doc["raw_payload"], "base64")

The(values) == CHOOSE v \in Given(values) : TRUE

\* From<EnvelopeWire>; every other field is skipped.
FromWire(r, doc) ==
  [meta |->
     [delivery_id |-> The(doc["delivery_id"]),
      kind        |-> EventKind(r, The(doc["kind"])),
      target_type |-> {TargetType(r, name) : name \in Given(doc["target_type"])},
      target_id   |-> Given(doc["target_id"])],
   raw_payload |-> doc["raw_payload"][1].bytes]

-----------------------------------------------------------------------------
(* The event meta *)

FieldType(f) == IF f = "action" THEN "string" ELSE "object"

\* The payload is an object, and so is every field but the action.
MetaDecodes(payload) ==
  /\ payload.type = "object"
  /\ \A f \in MetaFields : Fits(payload.fields[f], FieldType(f))

\* EventMeta::decode, of a payload that decodes.
EventMeta(r, e) ==
  LET field(f) == Given(e.raw_payload.fields[f])
  IN  [delivery_id |-> e.meta.delivery_id, kind |-> e.meta.kind,
       target_type |-> e.meta.target_type, target_id |-> e.meta.target_id,
       action |-> {Action(r, name) : name \in field("action")},
       installation |-> field("installation"), repository |-> field("repository"),
       organization |-> field("organization"), sender |-> field("sender")]

Escaped(c) == IF c \in {Quote, Backslash} THEN <<Backslash, c>> ELSE <<c>>

\* serde_json::to_string of a string.
ToJson(name) ==
  <<Quote>> \o FlattenSeq([i \in DOMAIN name |-> Escaped(name[i])]) \o <<Quote>>

\* The characters a JSON string's text stands for, escapes undone.
Unescaped(text) ==
  LET reading[i \in 0 .. Len(text)] ==
        IF i = 0 THEN [escape |-> FALSE, read |-> <<>>]
        ELSE IF text[i] = Backslash /\ ~ reading[i - 1].escape
          THEN [escape |-> TRUE, read |-> reading[i - 1].read]
        ELSE [escape |-> FALSE, read |-> Append(reading[i - 1].read, text[i])]
  IN  reading[Len(text)].read

\* octocrab: a header that is no JSON string already is put in quotes.
OctocrabName(header) ==
  IF header # <<>> /\ header[1] = Quote
    THEN Unescaped(SubSeq(header, 2, Len(header) - 1))
    ELSE Unescaped(header)

\* KindArg: one expression, that all of the tokens are.
KindArg(args) == IF Len(args) = 1 THEN {args[1]} ELSE {}

PayloadAttributes(type) ==
  {i \in DOMAIN type.attributes : type.attributes[i].name = "payload"}

\* The kinds of those attributes that are lists.
KindArgs(type, positions) ==
  UNION {KindArg(type.attributes[i].args) :
           i \in {j \in positions : type.attributes[j].form = "list"}}

\* As ExpandPayload, with the last of several attributes.
ExpandLastAttribute(type) ==
  KindArgs(type, {i \in PayloadAttributes(type) :
                    \A j \in PayloadAttributes(type) : j <= i})

\* #[derive(Payload)]: the kind of the one #[payload(..)], or no impl at all.
ExpandPayload(type) ==
  KindArgs(type, {i \in PayloadAttributes(type) : PayloadAttributes(type) = {i}})

\* Payload::KIND, as the derive or octocrab_payloads! has it. Where there is
\* none the type does not compile.
DeclaredKind(r, type) ==
  {EventKind(r, name) : name \in type.octocrab \cup ExpandPayload(type)}

\* from_envelope of a payload type: only an envelope of its kind is decoded.
IsFor(r, type, e) == e.meta.kind \in DeclaredKind(r, type)

-----------------------------------------------------------------------------
(* The delivery's way *)

Init ==
  /\ vocabulary \in Vocabularies
  /\ sent \in Receipts
  /\ role \in Role
  /\ stage = "headers"
  /\ envelope = {}
  /\ document = [f \in EnvelopeFields \cup Annotations |-> <<>>]
  /\ foreign = FALSE
  /\ hops = 0
  /\ event_meta = {}
  /\ octocrab = {}
  /\ taken = {}

Hold(e) ==
  /\ stage' = "envelope"
  /\ envelope' = {e}

\* As Refuse, with what was held of the delivery still there.
RefuseKeeping ==
  /\ stage' = "refused"
  /\ UNCHANGED envelope

Refuse ==
  /\ stage' = "refused"
  /\ envelope' = {}

\* The receiver builds the envelope of the headers and the bytes.
Receive ==
  /\ stage = "headers"
  /\ LET headers == sent.headers
     IN  \/ /\ IsRequired(headers.delivery_id) /\ IsRequired(headers.event)
            /\ Hold([meta |-> FromHeaders(role, headers), raw_payload |-> sent.payload])
         \/ /\ ~ (IsRequired(headers.delivery_id) /\ IsRequired(headers.event))
            /\ Refuse
  /\ UNCHANGED <<vocabulary, sent, role, document, foreign, hops, event_meta, octocrab, taken>>

Write ==
  /\ stage = "envelope"
  /\ hops < MaxHops
  /\ \E e \in envelope : document' = ToWire(e)
  /\ stage' = "document"
  /\ UNCHANGED <<vocabulary, sent, role, envelope, foreign, hops, event_meta, octocrab, taken>>

\* A transport adds a field of its own, or a producer of the 0.3 release the
\* event meta's.
Annotate ==
  /\ stage = "document"
  /\ \E f \in Annotations, v \in Values :
       /\ document[f] = <<>>
       /\ document' = [document EXCEPT ![f] = <<v, v>>]
  /\ UNCHANGED <<vocabulary, sent, role, stage, envelope, foreign, hops, event_meta, octocrab, taken>>

\* Another program writes one of the envelope's fields: again, or otherwise, or
\* not at all.
WriteOtherwise ==
  /\ stage = "document"
  /\ ~ foreign
  /\ foreign' = TRUE
  /\ \E f \in EnvelopeFields :
       \/ document' = [document EXCEPT ![f] = <<>>]
       \/ \E v \in Values : document' = [document EXCEPT ![f] = <<v>>]
       \/ \E v \in Values : document' = [document EXCEPT ![f] = Append(@, v)]
  /\ UNCHANGED <<vocabulary, sent, role, stage, envelope, hops, event_meta, octocrab, taken>>

\* Another process reads the document.
ReadDocument ==
  /\ stage = "document"
  /\ role' \in Role
  /\ hops' = hops + 1
  /\ IF IsReadable(document) THEN Hold(FromWire(role', document)) ELSE Refuse
  /\ UNCHANGED <<vocabulary, sent, document, foreign, event_meta, octocrab, taken>>

\* A dispatch decodes the event meta, and its handlers octocrab's event and the
\* payload types declared for the kind.
Decode ==
  /\ stage = "envelope"
  /\ \E e \in envelope :
       /\ event_meta' = IF MetaDecodes(e.raw_payload) THEN {EventMeta(role, e)} ELSE {}
       /\ octocrab' = {OctocrabName(ToJson(AsStr(e.meta.kind)))}
       /\ taken' = {type \in Declared : IsFor(role, type, e)}
  /\ stage' = "decoded"
  /\ UNCHANGED <<vocabulary, sent, role, envelope, document, foreign, hops>>

Next == Receive \/ Write \/ Annotate \/ WriteOtherwise \/ ReadDocument \/ Decode

Spec == Init /\ [][Next]_vars

-----------------------------------------------------------------------------
(* Properties *)

\* The delivery is held whole or not at all: an envelope where there is one,
\* meta only once decoded, and a bounded way.
WireTypeOK ==
  /\ role \in Role
  /\ stage \in {"headers", "envelope", "document", "decoded", "refused"}
  /\ hops \in 0 .. MaxHops
  /\ \A e \in envelope : e.raw_payload.type \in {"object", "array", "invalid"}
  /\ stage \in {"envelope", "document", "decoded"} <=> envelope # {}
  /\ event_meta # {} => stage = "decoded"

\* However often a delivery is forwarded, through processes that know more or
\* fewer names, and whatever fields are added on its way, a process holds the
\* envelope it would hold had it received the request itself.
AsIfReceivedHere ==
  stage \in {"envelope", "decoded"} /\ ~ foreign =>
    envelope =
      {[meta |-> FromHeaders(role, sent.headers), raw_payload |-> sent.payload]}

NotNull(f) == {v \in Range(document[f]) : v.type # "null"}

\* A document is never read in part or in doubt: one that gives a field of the
\* envelope twice, or not in its type, or lacks one, is refused, and else each
\* field of the envelope is the one the document gives.
ReadAsWritten ==
  stage = "envelope" /\ hops > 0 =>
    \A e \in envelope :
      /\ \A f \in EnvelopeFields : Len(document[f]) <= 1
      /\ \A f \in {"delivery_id", "kind", "raw_payload"} : document[f] # <<>>
      /\ document["kind"][1] = Value("string", AsStr(e.meta.kind))
      /\ document["delivery_id"][1] = Value("string", e.meta.delivery_id)
      /\ document["raw_payload"][1] = Base64(e.raw_payload)
      /\ {Value("string", AsStr(t)) : t \in e.meta.target_type} = NotNull("target_type")
      /\ {Value("number", n) : n \in e.meta.target_id} = NotNull("target_id")

\* What a payload says in a field of the event meta: null says nothing.
Said(payload, f) == {v.of : v \in {w \in Range(payload.fields[f]) : w.type # "null"}}

\* A field is given more than once, or in another type than its own.
IsFaulty(payload, f) ==
  \/ Len(payload.fields[f]) > 1
  \/ \E v \in Range(payload.fields[f]) : v.type \notin {"null", FieldType(f)}

\* The event meta a dispatch routes by says what the bytes say, whatever the
\* document claimed: the action by its name, known if this process knows it,
\* and the objects, each left out only where the payload has none or null. A
\* payload that gives one twice, or in another type (an array by position
\* included), has no event meta at all. Its other half is the envelope's, and
\* so what the headers say to this process unless another program wrote it.
MetaIsOfTheBytes ==
  stage = "decoded" =>
    \A e \in envelope :
      /\ event_meta = {} <=>
           \/ e.raw_payload.type # "object"
           \/ \E f \in MetaFields : IsFaulty(e.raw_payload, f)
      /\ \A m \in event_meta :
           /\ {AsStr(action) : action \in m.action} = Said(e.raw_payload, "action")
           /\ \A action \in m.action :
                action.known <=> action.name \in vocabulary[role]["Action"]
           /\ \A f \in MetaFields \ {"action"} : m[f] = Said(e.raw_payload, f)
           /\ \A f \in HeaderFields :
                /\ m[f] = e.meta[f]
                /\ ~ foreign => m[f] = FromHeaders(role, sent.headers)[f]

\* Every kind written in a payload attribute of the type, in whatever form.
Named(type) ==
  type.octocrab \cup
    UNION {Range(a.args) : a \in {b \in Range(type.attributes) : b.name = "payload"}}

\* Everyone agrees on the kind, for every name, known here or not: octocrab's
\* event has the name that is routed by, one with quotation marks or backslashes
\* not read as another, and a payload type that takes the delivery names its kind
\* and no other. A type that compiles takes every delivery of its kind.
KindsAgree ==
  stage = "decoded" => \A e \in envelope :
    /\ octocrab = {AsStr(e.meta.kind)}
    /\ \A type \in taken : Named(type) = {AsStr(e.meta.kind)}
    /\ \A type \in Declared \ taken :
         DeclaredKind(role, type) # {} => AsStr(e.meta.kind) \notin Named(type)
=============================================================================
