----------------------------- MODULE WireProofs -----------------------------
(***************************************************************************)
(* Proofs about a delivery between processes: for any processes with any   *)
(* vocabularies, any number of hops, any deliveries, annotations and       *)
(* documents of other programs, an envelope is read whole or refused, is   *)
(* the one received where none of them interferes, and the event meta and  *)
(* the kinds decoded from it are those of the bytes and of the name.       *)
(***************************************************************************)
EXTENDS Wire, SequenceTheorems, WellFoundedInduction, TLAPS

-----------------------------------------------------------------------------
(* The inductive invariant *)

Name == [known : BOOLEAN, name : Text]

EnvelopeType ==
  [meta : [delivery_id : Text, kind : Name, target_type : SUBSET Name,
           target_id : SUBSET Text],
   raw_payload : RawPayload]

WireTyped ==
  /\ sent \in [headers : Headers, payload : RawPayload]
  /\ role \in Role
  /\ stage \in {"headers", "envelope", "document", "decoded", "refused"}
  /\ document \in [EnvelopeFields \cup Annotations -> Seq(FieldValue)]
  /\ hops \in 0 .. MaxHops
  /\ stage = "headers" => hops = 0
  /\ stage = "document" => hops < MaxHops
  /\ stage # "decoded" => event_meta = {}

\* The envelope of the delivery as sent, to the process that holds it.
Here == [meta |-> FromHeaders(role, sent.headers), raw_payload |-> sent.payload]

\* The document gives e's fields, whatever else it gives.
Gives(doc, e) == \A f \in EnvelopeFields : doc[f] = ToWire(e)[f]

\* What the decoding of e leaves.
Decoded(e) ==
  /\ event_meta = IF MetaDecodes(e.raw_payload) THEN {EventMeta(role, e)} ELSE {}
  /\ octocrab = {OctocrabName(ToJson(AsStr(e.meta.kind)))}
  /\ taken = {type \in Declared : IsFor(role, type, e)}

\* The envelope e is held, its kind known or not as in this process.
Held(e) ==
  /\ e \in EnvelopeType
  /\ e.meta.kind = EventKind(role, AsStr(e.meta.kind))
  /\ ~ foreign => e = Here
  /\ stage = "document" /\ ~ foreign => Gives(document, e)
  /\ stage = "envelope" /\ hops > 0 => IsReadable(document) /\ e = FromWire(role, document)
  /\ stage = "decoded" => Decoded(e)

WireInv ==
  /\ WireTyped
  /\ IF stage \in {"headers", "refused"} THEN envelope = {}
     ELSE \E e \in envelope : envelope = {e} /\ Held(e)

-----------------------------------------------------------------------------
(* The headers *)

LEMMA NamesAreTyped ==
  ASSUME NEW r, NEW enum, NEW name \in Text
  PROVE  Parse(r, enum, name) \in Name
BY DEF Parse, Name

LEMMA ReadIsText ==
  ASSUME NEW header \in HeaderValue
  PROVE  /\ Read(header) \subseteq Text
         /\ \A x, y \in Read(header) : x = y
BY DEF Read, HeaderValue

LEMMA NumberIsText == Number \in Text
BY CharAssumption DEF Number, Text

LEMMA ReceivedIsTyped ==
  ASSUME NEW r, NEW headers \in Headers
  PROVE  /\ FromHeaders(r, headers) \in
              [delivery_id : Text, kind : Name, target_type : SUBSET Name,
               target_id : SUBSET Text]
         /\ FromHeaders(r, headers).kind =
              EventKind(r, AsStr(FromHeaders(r, headers).kind))
<1>1. /\ headers.delivery_id.of \in Text /\ headers.event.of \in Text
      /\ headers.target_type \in HeaderValue /\ headers.target_id \in HeaderValue
  BY DEF Headers, HeaderValue
<1>2. EventKind(r, headers.event.of) \in Name
  BY <1>1, NamesAreTyped DEF EventKind
<1>3. {TargetType(r, name) : name \in Read(headers.target_type)} \subseteq Name
  BY <1>1, ReadIsText, NamesAreTyped DEF TargetType
<1>4. Read(headers.target_id) \cap {Number} \subseteq Text
  BY <1>1, ReadIsText
<1> QED BY <1>1, <1>2, <1>3, <1>4 DEF FromHeaders, EventKind, Parse, AsStr

-----------------------------------------------------------------------------
(* The document *)

\* An option's value as a field's values.
Optional(values) ==
  [i \in 1 .. IF values = {} THEN 0 ELSE 1 |-> CHOOSE v \in values : TRUE]

LEMMA Written ==
  ASSUME NEW e
  PROVE  /\ ToWire(e)["delivery_id"] = <<Value("string", e.meta.delivery_id)>>
         /\ ToWire(e)["kind"] = <<Value("string", AsStr(e.meta.kind))>>
         /\ ToWire(e)["target_type"] =
              Optional({Value("string", AsStr(t)) : t \in e.meta.target_type})
         /\ ToWire(e)["target_id"] = Optional({Value("number", n) : n \in e.meta.target_id})
         /\ ToWire(e)["raw_payload"] = <<Base64(e.raw_payload)>>
         /\ \A f \in Annotations : ToWire(e)[f] = <<>>
         /\ ToWire(e) = [f \in EnvelopeFields \cup Annotations |-> ToWire(e)[f]]
<1>1. /\ "delivery_id" \in EnvelopeFields /\ "kind" \in EnvelopeFields
      /\ "target_type" \in EnvelopeFields /\ "target_id" \in EnvelopeFields
      /\ "raw_payload" \in EnvelopeFields
  BY DEF EnvelopeFields, HeaderFields
<1>2. \A f \in Annotations : f \notin EnvelopeFields
  BY AnnotationsAssumption
<1>3. /\ ToWire(e)["delivery_id"] = <<Value("string", e.meta.delivery_id)>>
      /\ ToWire(e)["kind"] = <<Value("string", AsStr(e.meta.kind))>>
  BY <1>1 DEF ToWire
<1>4. ToWire(e)["target_type"] =
        Optional({Value("string", AsStr(t)) : t \in e.meta.target_type})
  BY <1>1 DEF ToWire, Optional
<1>5. ToWire(e)["target_id"] = Optional({Value("number", n) : n \in e.meta.target_id})
  BY <1>1 DEF ToWire, Optional
<1>6. ToWire(e)["raw_payload"] = <<Base64(e.raw_payload)>>
  BY <1>1 DEF ToWire
<1>7. \A f \in Annotations : ToWire(e)[f] = <<>>
  BY <1>2 DEF ToWire
<1>8. ToWire(e) = [f \in EnvelopeFields \cup Annotations |-> ToWire(e)[f]]
  <2> DEFINE given == [f \in EnvelopeFields |->
        CASE f = "delivery_id" -> <<Value("string", e.meta.delivery_id)>>
          [] f = "kind" -> <<Value("string", AsStr(e.meta.kind))>>
          [] f = "target_type" ->
               Optional({Value("string", AsStr(t)) : t \in e.meta.target_type})
          [] f = "target_id" -> Optional({Value("number", n) : n \in e.meta.target_id})
          [] f = "raw_payload" -> <<Base64(e.raw_payload)>>]
  <2>1. ToWire(e) = [f \in EnvelopeFields \cup Annotations |->
                       IF f \in EnvelopeFields THEN given[f] ELSE <<>>]
    BY DEF ToWire, Optional
  <2> HIDE DEF given
  <2> QED BY <2>1
<1> QED BY <1>3, <1>4, <1>5, <1>6, <1>7, <1>8

LEMMA OptionalIsTyped ==
  ASSUME NEW S, NEW values \in SUBSET S
  PROVE  Optional(values) \in Seq(S)
<1>1. CASE values = {}
  BY <1>1 DEF Optional
<1>2. CASE values # {}
  <2>1. (CHOOSE v \in values : TRUE) \in S
    BY <1>2
  <2> QED BY <1>2, <2>1 DEF Optional
<1> QED BY <1>1, <1>2

\* What is written of an option reads as what it holds.
LEMMA OptionalIsGiven ==
  ASSUME NEW values, \A u, v \in values : u = v, \A v \in values : v.type # "null"
  PROVE  Given(Optional(values)) = {v.of : v \in values}
<1>1. CASE values = {}
  BY <1>1 DEF Given, Present, Optional
<1>2. CASE values # {}
  <2>1. PICK v : values = {v} /\ v.type # "null"
    BY <1>2
  <2>2. DOMAIN Optional(values) = {1} /\ Optional(values)[1] = v
    BY <2>1 DEF Optional
  <2> QED BY <2>1, <2>2 DEF Given, Present
<1> QED BY <1>1, <1>2

LEMMA OneIsGiven ==
  ASSUME NEW v, v.type # "null"
  PROVE  Given(<<v>>) = {v.of} /\ The(<<v>>) = v.of
<1>1. Present(<<v>>) = {1}
  BY DEF Present
<1> QED BY <1>1 DEF Given, The

\* A document written is of the document's type.
LEMMA WrittenIsTyped ==
  ASSUME NEW e \in EnvelopeType
  PROVE  ToWire(e) \in [EnvelopeFields \cup Annotations -> Seq(FieldValue)]
<1>1. /\ e.meta.delivery_id \in Text /\ AsStr(e.meta.kind) \in Text
      /\ \A t \in e.meta.target_type : AsStr(t) \in Text
      /\ e.meta.target_id \subseteq Text /\ e.raw_payload \in RawPayload
  BY DEF EnvelopeType, Name, AsStr
<1>2. \A text \in Text : /\ Value("string", text) \in FieldValue
                         /\ Value("number", text) \in FieldValue
  BY DEF Value, FieldValue, JsonValue, JsonType
<1>3. Base64(e.raw_payload) \in FieldValue
  BY <1>1 DEF Base64, FieldValue
<1>4. ToWire(e)["target_type"] \in Seq(FieldValue)
  <2>1. {Value("string", AsStr(t)) : t \in e.meta.target_type} \in SUBSET FieldValue
    BY <1>1, <1>2
  <2> QED BY <2>1, OptionalIsTyped, Written
<1>5. ToWire(e)["target_id"] \in Seq(FieldValue)
  <2>1. {Value("number", n) : n \in e.meta.target_id} \in SUBSET FieldValue
    BY <1>1, <1>2
  <2> QED BY <2>1, OptionalIsTyped, Written
<1>6. /\ <<Value("string", e.meta.delivery_id)>> \in Seq(FieldValue)
      /\ <<Value("string", AsStr(e.meta.kind))>> \in Seq(FieldValue)
      /\ <<Base64(e.raw_payload)>> \in Seq(FieldValue)
      /\ <<>> \in Seq(FieldValue)
  BY <1>1, <1>2, <1>3
<1>7. \A f \in EnvelopeFields \cup Annotations : ToWire(e)[f] \in Seq(FieldValue)
  BY <1>4, <1>5, <1>6, Written DEF EnvelopeFields, HeaderFields
<1> QED BY <1>7, Written

\* The targets of what a process received are at most one of each.
AtMostOneTarget(e) ==
  /\ \A t, u \in e.meta.target_type : t = u
  /\ \A m, n \in e.meta.target_id : m = n

\* A document that gives e's fields is read as e, but for what the reading
\* process knows.
LEMMA WrittenIsReadBack ==
  ASSUME NEW r, NEW e \in EnvelopeType, AtMostOneTarget(e), NEW doc, Gives(doc, e)
  PROVE  FromWire(r, doc) =
           [meta |->
              [delivery_id |-> e.meta.delivery_id,
               kind |-> EventKind(r, AsStr(e.meta.kind)),
               target_type |-> {TargetType(r, AsStr(t)) : t \in e.meta.target_type},
               target_id |-> e.meta.target_id],
            raw_payload |-> e.raw_payload]
<1>1. /\ doc["delivery_id"] = <<Value("string", e.meta.delivery_id)>>
      /\ doc["kind"] = <<Value("string", AsStr(e.meta.kind))>>
      /\ doc["target_type"] =
           Optional({Value("string", AsStr(t)) : t \in e.meta.target_type})
      /\ doc["target_id"] = Optional({Value("number", n) : n \in e.meta.target_id})
      /\ doc["raw_payload"] = <<Base64(e.raw_payload)>>
  BY Written DEF Gives, EnvelopeFields, HeaderFields
<1>2. The(doc["delivery_id"]) = e.meta.delivery_id /\ The(doc["kind"]) = AsStr(e.meta.kind)
  BY <1>1, OneIsGiven DEF Value
<1>3. Given(doc["target_type"]) = {AsStr(t) : t \in e.meta.target_type}
  <2> DEFINE names == {AsStr(t) : t \in e.meta.target_type}
             values == {Value("string", name) : name \in names}
  <2>1. (\A u, v \in values : u = v) /\ (\A v \in values : v.type # "null")
    BY DEF AtMostOneTarget, Value
  <2>2. {v.of : v \in values} = names
    <3>1. ASSUME NEW v \in values PROVE v.of \in names
      <4>1. PICK name \in names : v = Value("string", name)
        OBVIOUS
      <4> QED BY <4>1 DEF Value
    <3>2. ASSUME NEW name \in names PROVE \E v \in values : v.of = name
      <4>1. Value("string", name) \in values /\ Value("string", name).of = name
        BY DEF Value
      <4> QED BY <4>1
    <3> HIDE DEF values, names
    <3> QED BY <3>1, <3>2
  <2>0. values = {Value("string", AsStr(t)) : t \in e.meta.target_type}
    BY Zenon
  <2> HIDE DEF values
  <2>3. Given(Optional(values)) = {v.of : v \in values}
    BY <2>1, OptionalIsGiven
  <2> QED BY <1>1, <2>0, <2>2, <2>3
<1>4. Given(doc["target_id"]) = e.meta.target_id
  <2> DEFINE values == {Value("number", n) : n \in e.meta.target_id}
  <2>1. (\A u, v \in values : u = v) /\ (\A v \in values : v.type # "null")
    BY DEF AtMostOneTarget, Value
  <2>2. {v.of : v \in values} = e.meta.target_id
    <3>1. ASSUME NEW v \in values PROVE v.of \in e.meta.target_id
      BY DEF Value
    <3>2. ASSUME NEW n \in e.meta.target_id PROVE \E v \in values : v.of = n
      <4>1. Value("number", n) \in values /\ Value("number", n).of = n
        BY DEF Value
      <4> QED BY <4>1
    <3> HIDE DEF values
    <3> QED BY <3>1, <3>2
  <2> HIDE DEF values
  <2>3. Given(Optional(values)) = {v.of : v \in values}
    BY <2>1, OptionalIsGiven
  <2> QED BY <1>1, <2>2, <2>3 DEF values
<1>5. {TargetType(r, name) : name \in Given(doc["target_type"])} =
        {TargetType(r, AsStr(t)) : t \in e.meta.target_type}
  BY <1>3
<1>6. doc["raw_payload"][1].bytes = e.raw_payload
  BY <1>1 DEF Base64
<1> QED BY <1>2, <1>4, <1>5, <1>6 DEF FromWire

\* What was received is read back as the reading process would have received it.
LEMMA ReceivedIsReadBack ==
  ASSUME NEW r, NEW q, NEW s \in [headers : Headers, payload : RawPayload], NEW doc,
         Gives(doc, [meta |-> FromHeaders(q, s.headers), raw_payload |-> s.payload])
  PROVE  FromWire(r, doc) =
           [meta |-> FromHeaders(r, s.headers), raw_payload |-> s.payload]
<1> DEFINE e == [meta |-> FromHeaders(q, s.headers), raw_payload |-> s.payload]
<1>1. /\ s.headers \in Headers /\ s.payload \in RawPayload
      /\ s.headers.target_type \in HeaderValue /\ s.headers.target_id \in HeaderValue
  BY DEF Headers
<1>2. e \in EnvelopeType
  BY <1>1, ReceivedIsTyped DEF EnvelopeType
<1>3. AtMostOneTarget(e)
  BY <1>1, ReadIsText DEF AtMostOneTarget, FromHeaders, TargetType, Parse
<1>4. /\ e.meta.delivery_id = s.headers.delivery_id.of
      /\ AsStr(e.meta.kind) = s.headers.event.of
      /\ e.meta.target_id = Read(s.headers.target_id) \cap {Number}
      /\ e.meta.target_type = {TargetType(q, name) : name \in Read(s.headers.target_type)}
      /\ e.raw_payload = s.payload
  BY DEF FromHeaders, AsStr, EventKind, Parse
<1>5. \A name : AsStr(TargetType(q, name)) = name
  BY DEF AsStr, TargetType, Parse
<1>6. {TargetType(r, AsStr(t)) : t \in e.meta.target_type} =
        {TargetType(r, name) : name \in Read(s.headers.target_type)}
  BY <1>4, <1>5
<1>7. Gives(doc, e)
  OBVIOUS
<1> HIDE DEF e
<1>8. FromWire(r, doc) =
           [meta |->
              [delivery_id |-> e.meta.delivery_id,
               kind |-> EventKind(r, AsStr(e.meta.kind)),
               target_type |-> {TargetType(r, AsStr(t)) : t \in e.meta.target_type},
               target_id |-> e.meta.target_id],
            raw_payload |-> e.raw_payload]
  BY <1>2, <1>3, <1>7, WrittenIsReadBack
<1> QED BY <1>4, <1>6, <1>8 DEF FromHeaders

LEMMA GivenIsText ==
  ASSUME NEW values \in Seq(FieldValue), NEW type \in {"string", "number"},
         Fits(values, type)
  PROVE  Given(values) \subseteq Text
<1>1. ASSUME NEW i \in Present(values)
      PROVE  values[i].of \in Text
  <2>1. values[i] \in FieldValue /\ values[i].type = type
    BY DEF Present, Fits
  <2> QED BY <2>1 DEF FieldValue, JsonValue
<1> QED BY <1>1 DEF Given

LEMMA TheIsGiven ==
  ASSUME NEW values, Present(values) # {}
  PROVE  The(values) \in Given(values)
BY DEF The, Given

\* An envelope that is read is one, with its kind known as it is read here.
LEMMA ReadIsTyped ==
  ASSUME NEW r, NEW doc \in [EnvelopeFields \cup Annotations -> Seq(FieldValue)],
         IsReadable(doc)
  PROVE  /\ FromWire(r, doc) \in EnvelopeType
         /\ FromWire(r, doc).meta.kind = EventKind(r, AsStr(FromWire(r, doc).meta.kind))
<1>1. \A f \in EnvelopeFields : doc[f] \in Seq(FieldValue)
  OBVIOUS
<1>2. The(doc["delivery_id"]) \in Text /\ The(doc["kind"]) \in Text
  BY <1>1, GivenIsText, TheIsGiven
     DEF IsReadable, FitsRequired, EnvelopeFields, HeaderFields
<1>3. Given(doc["target_type"]) \subseteq Text /\ Given(doc["target_id"]) \subseteq Text
  BY <1>1, GivenIsText DEF IsReadable, EnvelopeFields, HeaderFields
<1>4. doc["raw_payload"][1].bytes \in RawPayload
  <2>1. /\ doc["raw_payload"] \in Seq(FieldValue)
        /\ FitsRequired(doc["raw_payload"], "base64")
    BY <1>1 DEF IsReadable, EnvelopeFields
  <2>2. 1 \in Present(doc["raw_payload"])
    BY <2>1 DEF FitsRequired, Fits, Present
  <2>3. doc["raw_payload"][1] \in FieldValue /\ doc["raw_payload"][1].type = "base64"
    BY <2>1, <2>2 DEF FitsRequired, Fits, Present
  <2> QED BY <2>3 DEF FieldValue, JsonValue, JsonType
<1>5. EventKind(r, The(doc["kind"])) \in Name
  BY <1>2, NamesAreTyped DEF EventKind
<1>6. {TargetType(r, name) : name \in Given(doc["target_type"])} \subseteq Name
  BY <1>3, NamesAreTyped DEF TargetType
<1> QED BY <1>2, <1>3, <1>4, <1>5, <1>6 DEF FromWire, EnvelopeType, EventKind, Parse, AsStr

-----------------------------------------------------------------------------
(* The steps of a delivery *)

LEMMA InitInv == Init => WireInv
<1> SUFFICES ASSUME Init PROVE WireInv
  OBVIOUS
<1>1. sent \in [headers : Headers, payload : RawPayload]
  BY ReceiptsAssumption DEF Init
<1>2. document \in [EnvelopeFields \cup Annotations -> Seq(FieldValue)]
  BY DEF Init
<1> QED BY <1>1, <1>2, HopsAssumption DEF Init, WireInv, WireTyped

LEMMA ReceiveInv ==
  ASSUME WireInv, Receive
  PROVE  WireInv'
<1> USE DEF WireInv
<1>1. /\ stage = "headers"
      /\ UNCHANGED <<vocabulary, sent, role, document, foreign, hops, event_meta>>
  BY DEF Receive
<1>2. WireTyped /\ hops = 0
  BY <1>1 DEF WireTyped
<1>3. CASE Refuse
  BY <1>1, <1>2, <1>3 DEF Refuse, WireTyped
<1>4. CASE Hold(Here)
  <2>1. sent.headers \in Headers /\ sent.payload \in RawPayload
    BY <1>2 DEF WireTyped
  <2>2. /\ Here \in EnvelopeType
        /\ Here.meta.kind = EventKind(role, AsStr(Here.meta.kind))
    BY <2>1, ReceivedIsTyped DEF Here, EnvelopeType
  <2>3. stage' = "envelope" /\ envelope' = {Here}
    BY <1>4 DEF Hold
  <2>4. Here' = Here /\ \A name : EventKind(role, name)' = EventKind(role, name)
    BY <1>1 DEF Here, FromHeaders, EventKind, TargetType, Parse
  <2>5. PICK e : e = Here
    OBVIOUS
  <2>6. Held(e)'
    BY <1>1, <1>2, <2>2, <2>3, <2>4, <2>5 DEF Held
  <2>7. WireTyped'
    BY <1>1, <1>2, <2>3 DEF WireTyped
  <2> QED BY <2>3, <2>5, <2>6, <2>7
<1> QED BY <1>3, <1>4 DEF Receive, Here

LEMMA WriteInv ==
  ASSUME WireInv, Write
  PROVE  WireInv'
<1>1. /\ stage = "envelope" /\ hops < MaxHops /\ stage' = "document"
      /\ UNCHANGED <<vocabulary, sent, role, envelope, foreign, hops, event_meta>>
  BY DEF Write
<1>2. PICK e \in envelope : envelope = {e} /\ Held(e)
  BY <1>1 DEF WireInv
<1>3. document' = ToWire(e)
  BY <1>2 DEF Write
<1>4. WireTyped'
  <2>1. e \in EnvelopeType
    BY <1>2 DEF Held
  <2>2. document' \in [EnvelopeFields \cup Annotations -> Seq(FieldValue)]
    BY <1>3, <2>1, WrittenIsTyped
  <2> QED BY <1>1, <2>2 DEF WireInv, WireTyped
<1>5. Held(e)'
  <2>1. Here' = Here /\ \A name : EventKind(role, name)' = EventKind(role, name)
    BY <1>1 DEF Here, FromHeaders, EventKind, TargetType, Parse
  <2>2. Gives(document', e)
    BY <1>3 DEF Gives
  <2> QED BY <1>1, <1>2, <2>1, <2>2 DEF Held
<1> QED BY <1>1, <1>2, <1>4, <1>5 DEF WireInv

\* What is written in a document leaves the envelope, and what the document
\* gives of its fields if no other program wrote them.
LEMMA DocumentInv ==
  ASSUME WireInv, stage = "document",
         UNCHANGED <<vocabulary, sent, role, stage, envelope, hops, event_meta>>,
         document' \in [EnvelopeFields \cup Annotations -> Seq(FieldValue)],
         foreign' \/ (~ foreign /\ \A f \in EnvelopeFields : document'[f] = document[f])
  PROVE  WireInv'
<1>1. PICK e \in envelope : envelope = {e} /\ Held(e)
  BY DEF WireInv
<1>2. WireTyped'
  BY DEF WireInv, WireTyped
<1>3. Held(e)'
  <2>1. Here' = Here /\ \A name : EventKind(role, name)' = EventKind(role, name)
    BY DEF Here, FromHeaders, EventKind, TargetType, Parse
  <2>2. ~ foreign' => Gives(document', e)
    BY <1>1 DEF Held, Gives
  <2> QED BY <1>1, <2>1, <2>2 DEF Held
<1> QED BY <1>1, <1>2, <1>3 DEF WireInv

LEMMA AnnotateInv ==
  ASSUME WireInv, Annotate
  PROVE  WireInv'
<1>1. /\ stage = "document"
      /\ UNCHANGED <<vocabulary, sent, role, stage, envelope, foreign, hops, event_meta>>
  BY DEF Annotate
<1>2. PICK f \in Annotations, v \in Values : document' = [document EXCEPT ![f] = <<v, v>>]
  BY DEF Annotate
<1>3. f \notin EnvelopeFields /\ <<v, v>> \in Seq(FieldValue)
  BY AnnotationsAssumption, ValuesAssumption
<1>4. document \in [EnvelopeFields \cup Annotations -> Seq(FieldValue)]
  BY DEF WireInv, WireTyped
<1>5. /\ document' \in [EnvelopeFields \cup Annotations -> Seq(FieldValue)]
      /\ \A g \in EnvelopeFields : document'[g] = document[g]
  BY <1>2, <1>3, <1>4
<1>6. foreign' \/ (~ foreign /\ \A g \in EnvelopeFields : document'[g] = document[g])
  BY <1>1, <1>5
<1> QED BY <1>1, <1>5, <1>6, DocumentInv

LEMMA WriteOtherwiseInv ==
  ASSUME WireInv, WriteOtherwise
  PROVE  WireInv'
<1>1. /\ stage = "document" /\ foreign' = TRUE
      /\ UNCHANGED <<vocabulary, sent, role, stage, envelope, hops, event_meta>>
  BY DEF WriteOtherwise
<1>2. document \in [EnvelopeFields \cup Annotations -> Seq(FieldValue)]
  BY DEF WireInv, WireTyped
<1>3. PICK f \in EnvelopeFields :
        \/ document' = [document EXCEPT ![f] = <<>>]
        \/ \E v \in Values : document' = [document EXCEPT ![f] = <<v>>]
        \/ \E v \in Values : document' = [document EXCEPT ![f] = Append(@, v)]
  BY DEF WriteOtherwise
<1>4. \E values \in Seq(FieldValue) : document' = [document EXCEPT ![f] = values]
  <2>1. document[f] \in Seq(FieldValue)
    BY <1>2
  <2>2. \A v \in Values : <<v>> \in Seq(FieldValue) /\ Append(document[f], v) \in Seq(FieldValue)
    BY <2>1, ValuesAssumption
  <2>3. \A v \in Values :
          [document EXCEPT ![f] = Append(@, v)] = [document EXCEPT ![f] = Append(document[f], v)]
    BY <1>2
  <2>4. <<>> \in Seq(FieldValue)
    OBVIOUS
  <2>5. CASE document' = [document EXCEPT ![f] = <<>>]
    BY <2>4, <2>5
  <2>6. CASE \E v \in Values : document' = [document EXCEPT ![f] = <<v>>]
    BY <2>2, <2>6
  <2>7. CASE \E v \in Values : document' = [document EXCEPT ![f] = Append(@, v)]
    BY <2>2, <2>3, <2>7
  <2> QED BY <1>3, <2>5, <2>6, <2>7
<1>5. document' \in [EnvelopeFields \cup Annotations -> Seq(FieldValue)]
  BY <1>2, <1>4
<1> QED BY <1>1, <1>5, DocumentInv

LEMMA ReadDocumentInv ==
  ASSUME WireInv, ReadDocument
  PROVE  WireInv'
<1>1. /\ stage = "document" /\ role' \in Role /\ hops' = hops + 1
      /\ UNCHANGED <<vocabulary, sent, document, foreign, event_meta>>
      /\ \/ IsReadable(document) /\ Hold(FromWire(role', document))
         \/ Refuse
  BY DEF ReadDocument
<1>2. WireTyped /\ hops < MaxHops /\ event_meta = {}
  BY <1>1 DEF WireInv, WireTyped
<1>3. WireTyped'
  BY <1>1, <1>2, HopsAssumption DEF WireTyped, Hold, Refuse
<1>4. CASE Refuse
  BY <1>3, <1>4 DEF Refuse, WireInv
<1>5. CASE IsReadable(document) /\ Hold(FromWire(role', document))
  <2>1. PICK e : e = FromWire(role', document)
    OBVIOUS
  <2>2. stage' = "envelope" /\ envelope' = {e}
    BY <1>5, <2>1 DEF Hold
  <2>3. e \in EnvelopeType /\ e.meta.kind = EventKind(role', AsStr(e.meta.kind))
    BY <1>2, <1>5, <2>1, ReadIsTyped DEF WireTyped
  <2>4. /\ \A name : (EventKind(role, name))' = EventKind(role', name)
        /\ (FromWire(role, document))' = FromWire(role', document)
    BY <1>1 DEF EventKind, TargetType, Parse, FromWire
  <2>5. ASSUME ~ foreign PROVE e = Here'
    <3>1. Gives(document, Here)
      BY <1>1, <2>5 DEF WireInv, Held
    <3>2. e = [meta |-> FromHeaders(role', sent.headers), raw_payload |-> sent.payload]
      BY <1>2, <2>1, <3>1, ReceivedIsReadBack DEF Here, WireTyped
    <3> QED BY <1>1, <3>2 DEF Here, FromHeaders, EventKind, TargetType, Parse
  <2>6. IsReadable(document')
    BY <1>1, <1>5
  <2>7. Held(e)'
    BY <1>1, <2>1, <2>2, <2>3, <2>4, <2>5, <2>6 DEF Held
  <2> QED BY <1>3, <2>2, <2>7 DEF WireInv
<1> QED BY <1>1, <1>4, <1>5

LEMMA DecodeInv ==
  ASSUME WireInv, Decode
  PROVE  WireInv'
<1>1. /\ stage = "envelope" /\ stage' = "decoded"
      /\ UNCHANGED <<vocabulary, sent, role, envelope, document, foreign, hops>>
  BY DEF Decode
<1>2. PICK e \in envelope : envelope = {e} /\ Held(e)
  BY <1>1 DEF WireInv
<1>3. /\ event_meta' = IF MetaDecodes(e.raw_payload) THEN {EventMeta(role, e)} ELSE {}
      /\ octocrab' = {OctocrabName(ToJson(AsStr(e.meta.kind)))}
      /\ taken' = {type \in Declared : IsFor(role, type, e)}
  BY <1>2 DEF Decode
<1>4. WireTyped'
  BY <1>1 DEF WireInv, WireTyped
<1>5. Decoded(e)'
  <2>1. (EventMeta(role, e))' = EventMeta(role, e)
    BY <1>1 DEF EventMeta, Action, Parse
  <2>2. \A type : (IsFor(role, type, e))' = IsFor(role, type, e)
    BY <1>1 DEF IsFor, DeclaredKind, EventKind, Parse
  <2> QED BY <1>3, <2>1, <2>2 DEF Decoded
<1>6. Held(e)'
  <2>1. Here' = Here /\ \A name : EventKind(role, name)' = EventKind(role, name)
    BY <1>1 DEF Here, FromHeaders, EventKind, TargetType, Parse
  <2> QED BY <1>1, <1>2, <1>5, <2>1 DEF Held
<1> QED BY <1>1, <1>2, <1>4, <1>6 DEF WireInv

LEMMA NextInv ==
  ASSUME WireInv, [Next]_vars
  PROVE  WireInv'
<1>1. CASE Receive BY <1>1, ReceiveInv
<1>2. CASE Write BY <1>2, WriteInv
<1>3. CASE Annotate BY <1>3, AnnotateInv
<1>4. CASE WriteOtherwise BY <1>4, WriteOtherwiseInv
<1>5. CASE ReadDocument BY <1>5, ReadDocumentInv
<1>6. CASE Decode BY <1>6, DecodeInv
<1>7. CASE UNCHANGED vars
  <2>1. /\ UNCHANGED <<vocabulary, sent, role, stage, envelope, document, foreign, hops>>
        /\ UNCHANGED <<event_meta, octocrab, taken>>
    BY <1>7 DEF vars
  <2>2. WireTyped'
    BY <2>1 DEF WireInv, WireTyped
  <2>3. \A e : Held(e) => Held(e)'
    <3>1. TAKE e
    <3>2. /\ Here' = Here /\ (EventMeta(role, e))' = EventMeta(role, e)
          /\ (FromWire(role, document))' = FromWire(role, document)
          /\ \A name : EventKind(role, name)' = EventKind(role, name)
      BY <2>1 DEF Here, FromHeaders, EventMeta, FromWire, EventKind, Action, TargetType, Parse
    <3>3. \A type : (IsFor(role, type, e))' = IsFor(role, type, e)
      BY <2>1 DEF IsFor, DeclaredKind, EventKind, Parse
    <3>4. Decoded(e)' <=> Decoded(e)
      BY <2>1, <3>2, <3>3 DEF Decoded
    <3> QED BY <2>1, <3>2, <3>4 DEF Held
  <2> QED BY <2>1, <2>2, <2>3 DEF WireInv
<1> QED BY <1>1, <1>2, <1>3, <1>4, <1>5, <1>6, <1>7 DEF Next

\* The invariant of every delivery, whichever processes it goes through.
THEOREM WireInvariant == Spec => []WireInv
<1>1. Init => WireInv
  BY InitInv
<1>2. WireInv /\ [Next]_vars => WireInv'
  BY NextInv
<1> QED BY <1>1, <1>2, PTL DEF Spec

\* A delivery is held whole or not at all, for any number of hops.
THEOREM WireTypeCorrect == Spec => []WireTypeOK
<1>1. ASSUME WireInv PROVE WireTypeOK
  <2>1. WireTyped
    BY <1>1 DEF WireInv
  <2>2. \A e \in envelope : e.raw_payload \in RawPayload
    BY <1>1 DEF WireInv, Held, EnvelopeType
  <2>3. stage \in {"headers", "refused"} <=> envelope = {}
    BY <1>1 DEF WireInv
  <2> QED BY <2>1, <2>2, <2>3 DEF WireTypeOK, WireTyped, RawPayload
<1> QED BY <1>1, WireInvariant, PTL

\* However often an envelope is written and read, by processes of whatever
\* releases, a process holds what it would hold had it received the request.
THEOREM HeldAsReceived == Spec => []AsIfReceivedHere
<1>1. ASSUME WireInv PROVE AsIfReceivedHere
  BY <1>1 DEF WireInv, Held, Here, AsIfReceivedHere
<1> QED BY <1>1, WireInvariant, PTL

\* A field of at most one value, given and not null, is what its one value is.
LEMMA OneIsWritten ==
  ASSUME NEW values \in Seq(FieldValue), NEW type, FitsRequired(values, type)
  PROVE  /\ Len(values) = 1 /\ values # <<>> /\ values[1] \in FieldValue
         /\ values[1].type = type
         /\ type # "base64" => values[1] = Value(type, The(values))
<1>1. PICK i \in Present(values) : TRUE
  BY DEF FitsRequired
<1>2. i \in 1 .. Len(values) /\ Len(values) <= 1 /\ Len(values) \in Nat
  <2>1. i \in DOMAIN values
    BY <1>1 DEF Present
  <2>2. Len(values) <= 1
    BY DEF FitsRequired, Fits
  <2> QED BY <2>1, <2>2
<1>3. 1 \in Present(values) /\ Len(values) = 1 /\ Present(values) = {1}
  <2> DEFINE n == Len(values)
  <2>0. i \in 1 .. n /\ n <= 1 /\ n \in Nat
    BY <1>2
  <2> HIDE DEF n
  <2>1. i = 1 /\ n = 1
    BY <2>0
  <2>2. Present(values) \subseteq {1}
    BY <2>1 DEF Present, n
  <2> QED BY <1>1, <2>1, <2>2 DEF n
<1>4. Given(values) = {values[1].of}
  BY <1>3 DEF Given
<1>5. The(values) = values[1].of
  BY <1>4 DEF The
<1>6. values[1] \in FieldValue /\ values[1].type = type
  BY <1>3 DEF FitsRequired, Fits
<1>7. type # "base64" => values[1] = Value(type, The(values))
  BY <1>5, <1>6 DEF FieldValue, JsonValue, Value
<1> QED BY <1>3, <1>6, <1>7

\* The values that are not null are those given.
LEMMA NotNullIsGiven ==
  ASSUME NEW values \in Seq(FieldValue), NEW type, Fits(values, type), type # "base64"
  PROVE  {v \in Range(values) : v.type # "null"} = {Value(type, text) : text \in Given(values)}
<1>1. ASSUME NEW i \in Present(values)
      PROVE  values[i] = Value(type, values[i].of)
  <2>1. values[i] \in FieldValue /\ values[i].type = type
    BY DEF Present, Fits
  <2> QED BY <2>1 DEF FieldValue, JsonValue, Value
<1>2. {v \in Range(values) : v.type # "null"} = {values[i] : i \in Present(values)}
  BY DEF Range, Present
<1>3. {Value(type, text) : text \in Given(values)} =
        {Value(type, values[i].of) : i \in Present(values)}
  BY DEF Given
<1> QED BY <1>1, <1>2, <1>3

\* A document is read whole and as it is written, or refused.
THEOREM DocumentsReadAsWritten == Spec => []ReadAsWritten
<1>1. ASSUME WireInv PROVE ReadAsWritten
  <2>1. SUFFICES ASSUME stage = "envelope", hops > 0, NEW e \in envelope
        PROVE  /\ \A f \in EnvelopeFields : Len(document[f]) <= 1
               /\ \A f \in {"delivery_id", "kind", "raw_payload"} : document[f] # <<>>
               /\ document["kind"][1] = Value("string", AsStr(e.meta.kind))
               /\ document["delivery_id"][1] = Value("string", e.meta.delivery_id)
               /\ document["raw_payload"][1] = Base64(e.raw_payload)
               /\ {Value("string", AsStr(t)) : t \in e.meta.target_type} =
                     NotNull("target_type")
               /\ {Value("number", n) : n \in e.meta.target_id} = NotNull("target_id")
    BY DEF ReadAsWritten
  <2>2. IsReadable(document) /\ e = FromWire(role, document)
    BY <1>1, <2>1 DEF WireInv, Held
  <2>3. \A f \in EnvelopeFields : document[f] \in Seq(FieldValue)
    BY <1>1 DEF WireInv, WireTyped
  <2>4. /\ document["delivery_id"] \in Seq(FieldValue) /\ document["kind"] \in Seq(FieldValue)
        /\ document["target_type"] \in Seq(FieldValue)
        /\ document["target_id"] \in Seq(FieldValue)
        /\ document["raw_payload"] \in Seq(FieldValue)
    BY <2>3 DEF EnvelopeFields, HeaderFields
  <2>5. \A f \in EnvelopeFields : Len(document[f]) <= 1
    BY <2>2 DEF IsReadable, FitsRequired, Fits, EnvelopeFields, HeaderFields
  <2>6. /\ document["kind"] # <<>> /\ document["delivery_id"] # <<>>
        /\ document["raw_payload"] # <<>>
        /\ document["kind"][1] = Value("string", AsStr(e.meta.kind))
        /\ document["delivery_id"][1] = Value("string", e.meta.delivery_id)
    BY <2>2, <2>4, OneIsWritten DEF IsReadable, FromWire, EventKind, Parse, AsStr
  <2>7. document["raw_payload"][1] = Base64(e.raw_payload)
    <3>1. /\ document["raw_payload"][1] \in FieldValue
          /\ document["raw_payload"][1].type = "base64"
      BY <2>2, <2>4, OneIsWritten DEF IsReadable
    <3>2. e.raw_payload = document["raw_payload"][1].bytes
      BY <2>2 DEF FromWire
    <3> QED BY <3>1, <3>2 DEF FieldValue, JsonValue, JsonType, Base64
  <2>8. {Value("string", AsStr(t)) : t \in e.meta.target_type} = NotNull("target_type")
    <3>1. e.meta.target_type = {TargetType(role, name) : name \in Given(document["target_type"])}
      BY <2>2 DEF FromWire
    <3>2. \A name : AsStr(TargetType(role, name)) = name
      BY DEF AsStr, TargetType, Parse
    <3>3. {Value("string", AsStr(t)) : t \in e.meta.target_type} =
            {Value("string", name) : name \in Given(document["target_type"])}
      BY <3>1, <3>2
    <3>4. NotNull("target_type") =
            {Value("string", name) : name \in Given(document["target_type"])}
      <4>1. Fits(document["target_type"], "string")
        BY <2>2 DEF IsReadable
      <4> QED BY <2>4, <4>1, NotNullIsGiven DEF NotNull
    <3> QED BY <3>3, <3>4
  <2>9. {Value("number", n) : n \in e.meta.target_id} = NotNull("target_id")
    <3>1. e.meta.target_id = Given(document["target_id"])
      BY <2>2 DEF FromWire
    <3>2. NotNull("target_id") = {Value("number", n) : n \in Given(document["target_id"])}
      <4>1. Fits(document["target_id"], "number")
        BY <2>2 DEF IsReadable
      <4> QED BY <2>4, <4>1, NotNullIsGiven DEF NotNull
    <3> QED BY <3>1, <3>2
  <2> QED BY <2>5, <2>6, <2>7, <2>8, <2>9
<1> QED BY <1>1, WireInvariant, PTL

\* What a payload says in a field is what decoding is given, and a field that
\* is not faulty is one that fits.
LEMMA SaidIsGiven ==
  ASSUME NEW payload \in RawPayload, NEW f \in MetaFields
  PROVE  /\ Said(payload, f) = Given(payload.fields[f])
         /\ IsFaulty(payload, f) <=> ~ Fits(payload.fields[f], FieldType(f))
<1> DEFINE values == payload.fields[f]
<1>1. values \in Seq(JsonValue)
  BY DEF RawPayload
<1> HIDE DEF values
<1>2. {w \in Range(values) : w.type # "null"} = {values[i] : i \in Present(values)}
  BY DEF Range, Present
<1>3. Said(payload, f) = Given(values)
  BY <1>2 DEF Said, Given, values
<1>4. IsFaulty(payload, f) <=> ~ Fits(values, FieldType(f))
  <2>1. Len(values) \in Nat
    BY <1>1
  <2>2. (\E v \in Range(values) : v.type \notin {"null", FieldType(f)}) <=>
          ~ \A i \in Present(values) : values[i].type = FieldType(f)
    BY DEF Range, Present
  <2>3. Len(values) > 1 <=> ~ (Len(values) <= 1)
    BY <2>1
  <2> QED BY <2>2, <2>3 DEF IsFaulty, Fits, values
<1> QED BY <1>3, <1>4 DEF values

\* The event meta is what the payload says and what the headers said, or there
\* is none.
THEOREM MetaOfTheBytes == Spec => []MetaIsOfTheBytes
<1>1. ASSUME WireInv PROVE MetaIsOfTheBytes
  <2>1. SUFFICES ASSUME stage = "decoded", NEW e \in envelope
        PROVE  /\ event_meta = {} <=>
                    \/ e.raw_payload.type # "object"
                    \/ \E f \in MetaFields : IsFaulty(e.raw_payload, f)
               /\ \A m \in event_meta :
                    /\ {AsStr(action) : action \in m.action} = Said(e.raw_payload, "action")
                    /\ \A action \in m.action :
                         action.known <=> action.name \in vocabulary[role]["Action"]
                    /\ \A f \in MetaFields \ {"action"} : m[f] = Said(e.raw_payload, f)
                    /\ \A f \in HeaderFields :
                         /\ m[f] = e.meta[f]
                         /\ ~ foreign => m[f] = FromHeaders(role, sent.headers)[f]
    BY DEF MetaIsOfTheBytes
  <2>2. /\ event_meta = IF MetaDecodes(e.raw_payload) THEN {EventMeta(role, e)} ELSE {}
        /\ e.raw_payload \in RawPayload
        /\ ~ foreign => e.meta = FromHeaders(role, sent.headers)
    BY <1>1, <2>1 DEF WireInv, Held, Decoded, EnvelopeType, Here
  <2>3. MetaDecodes(e.raw_payload) <=>
          ~ \/ e.raw_payload.type # "object"
            \/ \E f \in MetaFields : IsFaulty(e.raw_payload, f)
    BY <2>2, SaidIsGiven DEF MetaDecodes
  <2>4. ASSUME NEW m \in event_meta
        PROVE  m = EventMeta(role, e)
    BY <2>2
  <2>5. ASSUME NEW m \in event_meta
        PROVE  /\ {AsStr(action) : action \in m.action} = Said(e.raw_payload, "action")
               /\ \A action \in m.action :
                    action.known <=> action.name \in vocabulary[role]["Action"]
    <3>1. m.action = {Action(role, name) : name \in Said(e.raw_payload, "action")}
      BY <2>2, <2>4, SaidIsGiven DEF EventMeta, MetaFields
    <3>2. \A name : /\ AsStr(Action(role, name)) = name
                    /\ Action(role, name).name = name
                    /\ Action(role, name).known <=> name \in vocabulary[role]["Action"]
      BY DEF Action, Parse, AsStr
    <3> QED BY <3>1, <3>2
  <2>6. ASSUME NEW m \in event_meta, NEW f \in MetaFields \ {"action"}
        PROVE  m[f] = Said(e.raw_payload, f)
    <3>1. m[f] = Given(e.raw_payload.fields[f])
      BY <2>4 DEF EventMeta, MetaFields
    <3> QED BY <2>2, <3>1, SaidIsGiven
  <2>7. ASSUME NEW m \in event_meta, NEW f \in HeaderFields
        PROVE  m[f] = e.meta[f]
    BY <2>4 DEF EventMeta, HeaderFields
  <2>8. event_meta = {} <=>
           \/ e.raw_payload.type # "object"
           \/ \E f \in MetaFields : IsFaulty(e.raw_payload, f)
    BY <2>2, <2>3
  <2>9. ASSUME NEW m \in event_meta, NEW f \in HeaderFields, ~ foreign
        PROVE  m[f] = FromHeaders(role, sent.headers)[f]
    BY <2>2, <2>7, <2>9
  <2> QED BY <2>5, <2>6, <2>7, <2>8, <2>9
<1> QED BY <1>1, WireInvariant, PTL

-----------------------------------------------------------------------------
(* Event names as JSON. The recursive functions of FlattenSeq and Unescaped *)
(* exist, by induction; what they compute follows from their equations.     *)

\* Induction over the naturals, about a set: a nonempty set of naturals
\* outside S would have a least element, and its predecessor is in S.
LEMMA SetInduction ==
  ASSUME NEW S, 0 \in S, \A n \in Nat : n \in S => n + 1 \in S
  PROVE  Nat \subseteq S
<1> DEFINE T == Nat \ S
<1> SUFFICES ASSUME T # {} PROVE FALSE
  OBVIOUS
<1> DEFINE R == OpToRel(<, Nat)
<1>1. IsWellFoundedOn(R, Nat)
  BY NatLessThanWellFounded
<1>2. T \subseteq Nat
  OBVIOUS
<1>h. HIDE DEF T, R
<1>3. PICK x \in T : \A y \in T : ~ (<<y, x>> \in R)
  BY <1>1, <1>2, WFMin
<1>4. x \in Nat \ {0} /\ x - 1 \in Nat
  BY <1>3 DEF T
<1>5. <<x - 1, x>> \in R
  BY <1>4 DEF R, OpToRel
<1>6. x - 1 \in S
  BY <1>3, <1>4, <1>5 DEF T
<1> QED BY <1>3, <1>4, <1>6 DEF T

\* The concatenation of sequences, one sequence at a time.
LEMMA FlattenStep ==
  ASSUME NEW S, NEW seqs \in Seq(Seq(S)), Len(seqs) # 0
  PROVE  \E flatten : /\ FlattenSeq(seqs) = flatten[Len(seqs)]
                      /\ flatten[1] = seqs[1]
                      /\ \A i \in 2 .. Len(seqs) : flatten[i] = flatten[i - 1] \o seqs[i]
<1> DEFINE Step(g, i) == IF i = 1 THEN seqs[i] ELSE g[i - 1] \o seqs[i]
           Defined == {n \in Nat : \E g : g = [i \in 1 .. n |-> Step(g, i)]}
           flatten == CHOOSE g : g = [i \in 1 .. Len(seqs) |-> Step(g, i)]
<1>1. 0 \in Defined
  <2>1. PICK g : g = [i \in 1 .. 0 |-> 0]
    OBVIOUS
  <2>2. g = [i \in 1 .. 0 |-> Step(g, i)]
    BY <2>1
  <2> QED BY <2>2
<1>2. ASSUME NEW n \in Nat, n \in Defined
      PROVE  n + 1 \in Defined
  <2>1. PICK g : g = [i \in 1 .. n |-> Step(g, i)]
    BY <1>2
  <2>2. PICK h : h = [i \in 1 .. n + 1 |-> IF i = n + 1 THEN Step(g, i) ELSE g[i]]
    OBVIOUS
  <2>3. \A i \in 1 .. n : g[i] = Step(g, i)
    BY <2>1
  <2> HIDE DEF Step
  <2>4. \A i \in 1 .. n : h[i] = g[i]
    BY <2>2
  <2>5. \A i \in 1 .. n + 1 : h[i] = Step(g, i)
    <3>1. h[n + 1] = Step(g, n + 1)
      BY <2>2
    <3>2. \A i \in 1 .. n : h[i] = Step(g, i)
      BY <2>3, <2>4
    <3> QED BY <3>1, <3>2
  <2>6. \A i \in 1 .. n + 1 : Step(g, i) = Step(h, i)
    BY <2>4 DEF Step
  <2>7. h = [i \in 1 .. n + 1 |-> Step(h, i)]
    BY <2>2, <2>5, <2>6
  <2> QED BY <2>7
<1>3. Len(seqs) \in Defined
  <2> HIDE DEF Defined
  <2>1. Nat \subseteq Defined
    BY <1>1, <1>2, SetInduction
  <2> QED BY <2>1
<1>4. flatten = [i \in 1 .. Len(seqs) |-> Step(flatten, i)]
  <2>1. \E g : g = [i \in 1 .. Len(seqs) |-> Step(g, i)]
    BY <1>3
  <2> QED BY <2>1
<1>5. FlattenSeq(seqs) = flatten[Len(seqs)]
  BY DEF FlattenSeq
<1> HIDE DEF flatten
<1>6. \A i \in 1 .. Len(seqs) : flatten[i] = Step(flatten, i)
  BY <1>4
<1>7. flatten[1] = seqs[1]
  <2>1. 1 \in 1 .. Len(seqs)
    OBVIOUS
  <2> QED BY <1>6, <2>1
<1>8. ASSUME NEW i \in 2 .. Len(seqs)
      PROVE  flatten[i] = flatten[i - 1] \o seqs[i]
  <2>1. i \in 1 .. Len(seqs) /\ i # 1
    OBVIOUS
  <2>2. flatten[i] = Step(flatten, i)
    BY <1>6, <2>1
  <2> QED BY <2>1, <2>2
<1> QED BY <1>5, <1>7, <1>8

\* reading goes through text, an escape at a time.
Reads(reading, text) ==
  /\ reading[0] = [escape |-> FALSE, read |-> <<>>]
  /\ \A i \in 1 .. Len(text) :
       reading[i] =
         IF text[i] = Backslash /\ ~ reading[i - 1].escape
           THEN [escape |-> TRUE, read |-> reading[i - 1].read]
         ELSE [escape |-> FALSE, read |-> Append(reading[i - 1].read, text[i])]

LEMMA ReadingStep ==
  ASSUME NEW text \in Text
  PROVE  \E reading : Unescaped(text) = reading[Len(text)].read /\ Reads(reading, text)
<1> DEFINE Step(g, i) ==
             IF i = 0 THEN [escape |-> FALSE, read |-> <<>>]
             ELSE IF text[i] = Backslash /\ ~ g[i - 1].escape
               THEN [escape |-> TRUE, read |-> g[i - 1].read]
             ELSE [escape |-> FALSE, read |-> Append(g[i - 1].read, text[i])]
           Defined == {n \in Nat : \E g : g = [i \in 0 .. n |-> Step(g, i)]}
           reading == CHOOSE g : g = [i \in 0 .. Len(text) |-> Step(g, i)]
<1>0. Len(text) \in Nat
  BY DEF Text
<1>1. 0 \in Defined
  <2>1. PICK g : g = [i \in 0 .. 0 |-> [escape |-> FALSE, read |-> <<>>]]
    OBVIOUS
  <2>2. g = [i \in 0 .. 0 |-> Step(g, i)]
    BY <2>1
  <2> QED BY <2>2
<1>2. ASSUME NEW n \in Nat, n \in Defined
      PROVE  n + 1 \in Defined
  <2>1. PICK g : g = [i \in 0 .. n |-> Step(g, i)]
    BY <1>2
  <2>2. PICK h : h = [i \in 0 .. n + 1 |-> IF i = n + 1 THEN Step(g, i) ELSE g[i]]
    OBVIOUS
  <2>3. \A i \in 0 .. n : g[i] = Step(g, i)
    BY <2>1
  <2> HIDE DEF Step
  <2>4. \A i \in 0 .. n : h[i] = g[i]
    BY <2>2
  <2>5. \A i \in 0 .. n + 1 : h[i] = Step(g, i)
    <3>1. h[n + 1] = Step(g, n + 1)
      BY <2>2
    <3>2. \A i \in 0 .. n : h[i] = Step(g, i)
      BY <2>3, <2>4
    <3> QED BY <3>1, <3>2
  <2>6. ASSUME NEW i \in 0 .. n + 1
        PROVE  Step(g, i) = Step(h, i)
    <3>1. CASE i = 0
      BY <3>1 DEF Step
    <3>2. CASE i # 0
      <4>1. h[i - 1] = g[i - 1]
        BY <2>4, <3>2
      <4> QED BY <4>1, Zenon DEF Step
    <3> QED BY <3>1, <3>2
  <2>7. h = [i \in 0 .. n + 1 |-> Step(h, i)]
    BY <2>2, <2>5, <2>6
  <2> QED BY <2>7
<1>3. Len(text) \in Defined
  <2> HIDE DEF Defined
  <2>1. Nat \subseteq Defined
    BY <1>1, <1>2, SetInduction
  <2> QED BY <1>0, <2>1
<1>4. reading = [i \in 0 .. Len(text) |-> Step(reading, i)]
  <2>1. \E g : g = [i \in 0 .. Len(text) |-> Step(g, i)]
    BY <1>3
  <2> QED BY <2>1
<1>5. Unescaped(text) = reading[Len(text)].read
  BY DEF Unescaped
<1> HIDE DEF reading
<1>6. \A i \in 0 .. Len(text) : reading[i] = Step(reading, i)
  BY <1>4
<1>7. reading[0] = [escape |-> FALSE, read |-> <<>>]
  <2>1. 0 \in 0 .. Len(text)
    BY <1>0
  <2>2. reading[0] = Step(reading, 0)
    BY <1>6, <2>1
  <2> QED BY <2>2
<1>8. ASSUME NEW i \in 1 .. Len(text)
      PROVE  reading[i] = IF text[i] = Backslash /\ ~ reading[i - 1].escape
                            THEN [escape |-> TRUE, read |-> reading[i - 1].read]
                          ELSE [escape |-> FALSE, read |-> Append(reading[i - 1].read, text[i])]
  <2>1. i \in 0 .. Len(text) /\ i # 0
    BY <1>0
  <2>2. reading[i] = Step(reading, i)
    BY <1>6, <2>1
  <2> QED BY <2>1, <2>2
<1> QED BY <1>5, <1>7, <1>8 DEF Reads

\* The first k characters of a name.
Begin(name, k) == [i \in 1 .. k |-> name[i]]

LEMMA BeginsFurther ==
  ASSUME NEW name \in Text, NEW k \in Nat, k < Len(name)
  PROVE  /\ Begin(name, k) \in Text
         /\ Append(Begin(name, k), name[k + 1]) = Begin(name, k + 1)
<1>1. Begin(name, k) \in Text /\ Len(Begin(name, k)) = k
  BY DEF Begin, Text
<1>2. name[k + 1] \in Char
  BY DEF Text
<1> QED BY <1>1, <1>2 DEF Begin, Text

\* text begins with s.
BeginsWith(text, s) ==
  /\ Len(s) <= Len(text)
  /\ \A i \in 1 .. Len(s) : text[i] = s[i]

LEMMA ReadsOne ==
  ASSUME NEW text, NEW reading, Reads(reading, text), NEW n \in Nat, n + 1 \in 1 .. Len(text)
  PROVE  reading[n + 1] =
           IF text[n + 1] = Backslash /\ ~ reading[n].escape
             THEN [escape |-> TRUE, read |-> reading[n].read]
           ELSE [escape |-> FALSE, read |-> Append(reading[n].read, text[n + 1])]
<1>1. (n + 1) - 1 = n
  OBVIOUS
<1>2. reading[n + 1] =
         IF text[n + 1] = Backslash /\ ~ reading[(n + 1) - 1].escape
           THEN [escape |-> TRUE, read |-> reading[(n + 1) - 1].read]
         ELSE [escape |-> FALSE, read |-> Append(reading[(n + 1) - 1].read, text[n + 1])]
  BY Zenon DEF Reads
<1> QED BY <1>1, <1>2, Zenon

\* A character more: its escape, if it has one, and it are read as it.
LEMMA ReadsACharacter ==
  ASSUME NEW s \in Text, NEW c \in Char, NEW text \in Text, NEW reading,
         Reads(reading, text), BeginsWith(text, s \o Escaped(c)),
         ~ reading[Len(s)].escape
  PROVE  /\ BeginsWith(text, s)
         /\ s \o Escaped(c) \in Text
         /\ reading[Len(s \o Escaped(c))] =
              [escape |-> FALSE, read |-> Append(reading[Len(s)].read, c)]
<1> DEFINE n == Len(s)
           m == Len(text)
<1>1. n \in Nat /\ m \in Nat /\ \A i \in 1 .. n : s[i] \in Char
  BY DEF Text
<1>2. CASE c \in {Quote, Backslash}
  <2>1. Escaped(c) = <<Backslash, c>> /\ Backslash \in Char
    BY <1>2, CharAssumption DEF Escaped
  <2> DEFINE t == s \o <<Backslash, c>>
  <2>2. /\ t \in Text /\ Len(t) = n + 2 /\ t[n + 1] = Backslash /\ t[n + 2] = c
        /\ \A i \in 1 .. n : t[i] = s[i]
    BY <2>1 DEF Text
  <2>3. BeginsWith(text, t)
    BY <2>1
  <2> HIDE DEF t
  <2>4. BeginsWith(text, s) /\ text[n + 1] = Backslash /\ text[n + 2] = c /\ n + 2 <= m
    BY <1>1, <2>2, <2>3 DEF BeginsWith
  <2>5. n + 1 \in 1 .. m /\ (n + 1) + 1 \in 1 .. m /\ (n + 1) + 1 = n + 2
    BY <1>1, <2>4
  <2> HIDE DEF n, m
  <2>6. ~ reading[n].escape
    BY DEF n
  <2>7. reading[n + 1] = [escape |-> TRUE, read |-> reading[n].read]
    BY <1>1, <2>4, <2>5, <2>6, ReadsOne DEF m
  <2>8. reading[n + 1].escape = TRUE /\ reading[n + 1].read = reading[n].read
    BY <2>7
  <2>9. reading[(n + 1) + 1] =
          [escape |-> FALSE, read |-> Append(reading[n + 1].read, text[(n + 1) + 1])]
    <3>1. n + 1 \in Nat /\ (n + 1) + 1 \in 1 .. Len(text)
      BY <1>1, <2>5 DEF m
    <3>2. reading[(n + 1) + 1] =
            IF text[(n + 1) + 1] = Backslash /\ ~ reading[n + 1].escape
              THEN [escape |-> TRUE, read |-> reading[n + 1].read]
            ELSE [escape |-> FALSE, read |-> Append(reading[n + 1].read, text[(n + 1) + 1])]
      BY <3>1, ReadsOne, Zenon
    <3> QED BY <2>8, <3>2, Zenon
  <2>10. reading[n + 2] = [escape |-> FALSE, read |-> Append(reading[n].read, c)]
    BY <2>4, <2>5, <2>8, <2>9
  <2> QED BY <2>1, <2>2, <2>4, <2>10 DEF t, n
<1>3. CASE c \notin {Quote, Backslash}
  <2>1. Escaped(c) = <<c>> /\ c # Backslash
    BY <1>3 DEF Escaped
  <2> DEFINE t == s \o <<c>>
  <2>2. t \in Text /\ Len(t) = n + 1 /\ t[n + 1] = c /\ \A i \in 1 .. n : t[i] = s[i]
    BY <2>1 DEF Text
  <2>3. BeginsWith(text, t)
    BY <2>1
  <2> HIDE DEF t
  <2>4. BeginsWith(text, s) /\ text[n + 1] = c /\ n + 1 <= m
    BY <1>1, <2>2, <2>3 DEF BeginsWith
  <2>5. n + 1 \in 1 .. m
    BY <1>1, <2>4
  <2> HIDE DEF n, m
  <2>6. reading[n + 1] = [escape |-> FALSE, read |-> Append(reading[n].read, c)]
    BY <1>1, <2>1, <2>4, <2>5, ReadsOne DEF m
  <2> QED BY <2>1, <2>2, <2>4, <2>6 DEF t, n
<1> QED BY <1>2, <1>3

\* What has been flattened after k sequences.
After(flatten, k) == IF k = 0 THEN <<>> ELSE flatten[k]

\* A text that begins with begun is read as the first k characters of name.
ReadRightly(name, k, begun) ==
  /\ begun \in Text
  /\ \A text \in Text : \A reading :
       Reads(reading, text) /\ BeginsWith(text, begun) =>
         ~ reading[Len(begun)].escape /\ reading[Len(begun)].read = Begin(name, k)

LEMMA NothingReadRightly == ASSUME NEW name PROVE ReadRightly(name, 0, <<>>)
<1>1. Begin(name, 0) = <<>> /\ <<>> \in Text /\ Len(<<>>) = 0
  BY DEF Begin, Text
<1> QED BY <1>1 DEF ReadRightly, Reads

LEMMA OneMoreReadRightly ==
  ASSUME NEW name \in Text, NEW k \in Nat, k < Len(name), NEW begun,
         ReadRightly(name, k, begun)
  PROVE  ReadRightly(name, k + 1, begun \o Escaped(name[k + 1]))
<1> DEFINE c == name[k + 1]
           further == begun \o Escaped(c)
<1>1. begun \in Text /\ c \in Char
  BY DEF ReadRightly, Text
<1>2. Append(Begin(name, k), c) = Begin(name, k + 1)
  BY BeginsFurther
<1>3. Escaped(c) \in Text
  BY <1>1, CharAssumption DEF Escaped, Text
<1> HIDE DEF c
<1>4. further \in Text /\ Len(begun) <= Len(further) /\ Len(further) \in Nat
      /\ \A i \in 1 .. Len(begun) : further[i] = begun[i]
  BY <1>1, <1>3 DEF Text
<1>5. ASSUME NEW text \in Text, NEW reading, Reads(reading, text), BeginsWith(text, further)
      PROVE  /\ ~ reading[Len(further)].escape
             /\ reading[Len(further)].read = Begin(name, k + 1)
  <2>1. BeginsWith(text, begun)
    <3>1. Len(begun) \in Nat /\ Len(text) \in Nat
      BY <1>1 DEF Text
    <3> HIDE DEF further
    <3> QED BY <1>4, <1>5, <3>1 DEF BeginsWith
  <2>2. ~ reading[Len(begun)].escape /\ reading[Len(begun)].read = Begin(name, k)
    BY <1>5, <2>1 DEF ReadRightly
  <2>3. reading[Len(further)] =
          [escape |-> FALSE, read |-> Append(reading[Len(begun)].read, c)]
    <3>1. BeginsWith(text, begun \o Escaped(c)) /\ Reads(reading, text) /\ text \in Text
      BY <1>5
    <3>2. ~ reading[Len(begun)].escape
      BY <2>2
    <3>3. reading[Len(begun \o Escaped(c))] =
            [escape |-> FALSE, read |-> Append(reading[Len(begun)].read, c)]
      BY <1>1, <3>1, <3>2, ReadsACharacter
    <3> QED BY <3>3
  <2> QED BY <1>2, <2>2, <2>3
<1>6. ReadRightly(name, k + 1, further)
  <2> HIDE DEF further
  <2> QED BY <1>4, <1>5 DEF ReadRightly
<1> QED BY <1>6 DEF c

\* The escapes of a name are undone, whatever its characters.
LEMMA EscapedIsUnescaped ==
  ASSUME NEW name \in Text
  PROVE  LET escaped == FlattenSeq([i \in DOMAIN name |-> Escaped(name[i])])
         IN  escaped \in Text /\ Unescaped(escaped) = name
<1> DEFINE chars == [i \in DOMAIN name |-> Escaped(name[i])]
           escaped == FlattenSeq(chars)
<1>1. \A i \in 1 .. Len(name) : name[i] \in Char /\ Escaped(name[i]) \in Text
  BY CharAssumption DEF Text, Escaped
<1>2. Len(name) \in Nat /\ DOMAIN name = 1 .. Len(name)
  BY DEF Text
<1>3. chars \in Seq(Text) /\ Len(chars) = Len(name)
  BY <1>1, <1>2
<1>4. \A i \in 1 .. Len(name) : chars[i] = Escaped(name[i])
  BY <1>2
<1> HIDE DEF chars
<1>5. \E flatten : /\ escaped = After(flatten, Len(name))
                   /\ \A k \in Nat : k < Len(name) =>
                        After(flatten, k + 1) = After(flatten, k) \o Escaped(name[k + 1])
  <2>1. CASE Len(name) = 0
    <3>1. chars = <<>>
      BY <1>3, <2>1
    <3>2. escaped = chars
      BY <1>3, <2>1 DEF FlattenSeq
    <3> HIDE DEF escaped
    <3>3. /\ escaped = After(<<>>, Len(name))
          /\ \A k \in Nat : ~ (k < Len(name))
      BY <2>1, <3>1, <3>2 DEF After
    <3> QED BY <3>3
  <2>2. CASE Len(name) # 0
    <3>1. PICK flatten :
            /\ escaped = flatten[Len(name)] /\ flatten[1] = chars[1]
            /\ \A i \in 2 .. Len(name) : flatten[i] = flatten[i - 1] \o chars[i]
      <4>1. chars \in Seq(Seq(Char)) /\ Len(chars) # 0
        BY <1>3, <2>2 DEF Text
      <4>2. PICK f : /\ FlattenSeq(chars) = f[Len(chars)] /\ f[1] = chars[1]
                     /\ \A i \in 2 .. Len(chars) : f[i] = f[i - 1] \o chars[i]
        BY <4>1, FlattenStep, Zenon
      <4> QED BY <1>3, <4>2
    <3> HIDE DEF escaped
    <3>2. escaped = After(flatten, Len(name))
      BY <2>2, <3>1 DEF After
    <3>3. ASSUME NEW k \in Nat, k < Len(name)
          PROVE  After(flatten, k + 1) = After(flatten, k) \o Escaped(name[k + 1])
      <4>1. k + 1 \in 1 .. Len(name) /\ k + 1 # 0
        BY <1>2, <3>3
      <4>2. chars[k + 1] = Escaped(name[k + 1]) /\ Escaped(name[k + 1]) \in Text
        BY <1>1, <1>4, <4>1
      <4>3. After(flatten, k + 1) = flatten[k + 1]
        BY <4>1 DEF After
      <4>4. CASE k = 0
        <5>1. <<>> \o Escaped(name[k + 1]) = Escaped(name[k + 1])
          BY <4>2 DEF Text
        <5>2. flatten[k + 1] = chars[k + 1] /\ After(flatten, k) = <<>>
          BY <3>1, <4>4 DEF After
        <5> QED BY <4>2, <4>3, <5>1, <5>2
      <4>5. CASE k # 0
        <5>1. k + 1 \in 2 .. Len(name) /\ (k + 1) - 1 = k
          BY <1>2, <4>1, <4>5
        <5>2. flatten[k + 1] = flatten[k] \o chars[k + 1]
          BY <3>1, <5>1
        <5> QED BY <4>2, <4>3, <4>5, <5>2 DEF After
      <4> QED BY <4>4, <4>5
    <3> QED BY <3>2, <3>3
  <2> QED BY <2>1, <2>2
<1>6. PICK flatten :
        /\ escaped = After(flatten, Len(name))
        /\ \A k \in Nat : k < Len(name) =>
             After(flatten, k + 1) = After(flatten, k) \o Escaped(name[k + 1])
  BY <1>5
<1> HIDE DEF escaped
<1> DEFINE S == {k \in Nat : k <= Len(name) => ReadRightly(name, k, After(flatten, k))}
<1>7. 0 \in S
  BY NothingReadRightly DEF After
<1>8. ASSUME NEW k \in Nat, k \in S
      PROVE  k + 1 \in S
  <2>1. CASE k + 1 <= Len(name)
    <3>1. k < Len(name) /\ k <= Len(name)
      BY <1>2, <2>1
    <3>2. ReadRightly(name, k, After(flatten, k))
      BY <1>8, <3>1
    <3>3. ReadRightly(name, k + 1, After(flatten, k + 1))
      BY <1>6, <3>1, <3>2, OneMoreReadRightly
    <3> QED BY <3>3
  <2>2. CASE ~ (k + 1 <= Len(name))
    BY <2>2
  <2> QED BY <2>1, <2>2
<1>9. ReadRightly(name, Len(name), escaped)
  <2>1. Len(name) \in S
    <3> HIDE DEF S
    <3>1. Nat \subseteq S
      BY <1>7, <1>8, SetInduction
    <3> QED BY <1>2, <3>1
  <2> QED BY <1>2, <1>6, <2>1
<1>10. escaped \in Text
  BY <1>9 DEF ReadRightly
<1>11. PICK reading : Unescaped(escaped) = reading[Len(escaped)].read /\ Reads(reading, escaped)
  BY <1>10, ReadingStep
<1>12. BeginsWith(escaped, escaped)
  BY <1>10 DEF BeginsWith, Text
<1>13. reading[Len(escaped)].read = Begin(name, Len(name))
  BY <1>9, <1>10, <1>11, <1>12 DEF ReadRightly
<1>14. Begin(name, Len(name)) = name
  BY <1>2 DEF Begin, Text
<1> QED BY <1>10, <1>11, <1>13, <1>14 DEF escaped, chars

\* octocrab reads the kind's name, given as JSON, as that name.
LEMMA OctocrabReadsTheName ==
  ASSUME NEW name \in Text
  PROVE  OctocrabName(ToJson(name)) = name
<1> DEFINE escaped == FlattenSeq([i \in DOMAIN name |-> Escaped(name[i])])
           json == <<Quote>> \o escaped \o <<Quote>>
<1>1. escaped \in Text /\ Unescaped(escaped) = name
  BY EscapedIsUnescaped
<1>2. ToJson(name) = json
  BY DEF ToJson
<1> HIDE DEF escaped
<1>3. /\ json \in Seq(Char) /\ Len(json) = Len(escaped) + 2 /\ json[1] = Quote
      /\ Len(escaped) \in Nat /\ \A i \in 1 .. Len(escaped) : json[i + 1] = escaped[i]
  BY <1>1, CharAssumption DEF Text
<1> HIDE DEF json
<1>4. SubSeq(json, 2, Len(json) - 1) = escaped
  <2> DEFINE inner == SubSeq(json, 2, Len(json) - 1)
  <2>1. inner = [i \in 1 .. Len(escaped) |-> json[i + 1]]
    BY <1>3
  <2>2. escaped = [i \in 1 .. Len(escaped) |-> escaped[i]]
    BY <1>1 DEF Text
  <2>3. [i \in 1 .. Len(escaped) |-> json[i + 1]] = [i \in 1 .. Len(escaped) |-> escaped[i]]
    BY <1>3
  <2> QED BY <2>1, <2>2, <2>3
<1>5. json # <<>>
  BY <1>3
<1> QED BY <1>1, <1>2, <1>3, <1>4, <1>5 DEF OctocrabName

-----------------------------------------------------------------------------
(* The declared kinds *)

\* The kinds a type's impl has: none or one.
Kinds(type) == type.octocrab \cup ExpandPayload(type)

\* The kind a type declares is all that is named on it.
LEMMA DeclaredIsNamed ==
  ASSUME NEW type \in Declared, NEW name \in Kinds(type)
  PROVE  Named(type) = {name}
<1> DEFINE attributes == type.attributes
           payloads == {a \in Range(attributes) : a.name = "payload"}
<1>1. \A i \in DOMAIN attributes : attributes[i].args \in Seq(Text)
  <2> DEFINE A == [name : STRING, form : {"path", "list", "name-value"}, args : Seq(Text)]
  <2>1. attributes \in Seq(A)
    BY DeclaredAssumption, Zenon DEF Attributes
  <2>2. \A a \in A : a.args \in Seq(Text)
    OBVIOUS
  <2> HIDE DEF A
  <2>3. \A i \in DOMAIN attributes : attributes[i] \in A
    BY <2>1
  <2> QED BY <2>2, <2>3
<1>2. Named(type) = type.octocrab \cup UNION {Range(a.args) : a \in payloads}
  BY DEF Named
<1>3. CASE type.octocrab # {}
  <2>1. /\ \E n \in type.octocrab : type.octocrab = {n}
        /\ \A i \in DOMAIN attributes : attributes[i].name # "payload"
    BY <1>3, DeclaredAssumption
  <2>2. payloads = {} /\ PayloadAttributes(type) = {}
    BY <2>1 DEF Range, PayloadAttributes
  <2>3. ExpandPayload(type) = {}
    BY <2>2 DEF ExpandPayload, KindArgs
  <2> HIDE DEF payloads
  <2>4. type.octocrab = {name}
    BY <2>1, <2>3 DEF Kinds
  <2> QED BY <1>2, <2>2, <2>4
<1>4. CASE type.octocrab = {}
  <2>1. PICK i \in PayloadAttributes(type) :
          PayloadAttributes(type) = {i} /\ name \in KindArg(attributes[i].args)
    BY <1>4 DEF Kinds, ExpandPayload, KindArgs
  <2>2. i \in DOMAIN attributes /\ attributes[i].name = "payload"
    BY DEF PayloadAttributes
  <2>3. attributes[i].args \in Seq(Text) /\ Len(attributes[i].args) = 1
        /\ name = attributes[i].args[1]
    BY <1>1, <2>1, <2>2 DEF KindArg
  <2>4. Range(attributes[i].args) = {name}
    BY <2>3 DEF Range
  <2>5. payloads = {attributes[i]}
    <3>1. \A j \in DOMAIN attributes : attributes[j].name = "payload" => j = i
      BY <2>1 DEF PayloadAttributes
    <3> QED BY <2>2, <3>1 DEF Range
  <2> HIDE DEF payloads
  <2> QED BY <1>2, <1>4, <2>4, <2>5
<1> QED BY <1>3, <1>4

\* octocrab, and every payload type that compiles, agree on the kind.
THEOREM KindsAgreeAlways == Spec => []KindsAgree
<1>1. ASSUME WireInv PROVE KindsAgree
  <2>1. SUFFICES ASSUME stage = "decoded", NEW e \in envelope
        PROVE  /\ octocrab = {AsStr(e.meta.kind)}
               /\ \A type \in taken : Named(type) = {AsStr(e.meta.kind)}
               /\ \A type \in Declared \ taken :
                    DeclaredKind(role, type) # {} => AsStr(e.meta.kind) \notin Named(type)
    BY DEF KindsAgree
  <2> DEFINE name == AsStr(e.meta.kind)
  <2>2. Decoded(e) /\ e \in EnvelopeType /\ e.meta.kind = EventKind(role, name)
    BY <1>1, <2>1 DEF WireInv, Held
  <2>3. name \in Text
    BY <2>2 DEF EnvelopeType, Name, AsStr
  <2>4. octocrab = {name}
    BY <2>2, <2>3, OctocrabReadsTheName DEF Decoded
  <2>5. \A n : EventKind(role, n) = EventKind(role, name) <=> n = name
    BY DEF EventKind, Parse
  <2> HIDE DEF name
  <2>6. ASSUME NEW type \in Declared
        PROVE  /\ type \in taken <=> name \in Kinds(type)
               /\ DeclaredKind(role, type) # {} => Kinds(type) # {}
    <3>1. type \in taken <=> EventKind(role, name) \in DeclaredKind(role, type)
      BY <2>2 DEF Decoded, IsFor
    <3>2. DeclaredKind(role, type) = {EventKind(role, n) : n \in Kinds(type)}
      BY DEF DeclaredKind, Kinds
    <3> QED BY <2>5, <3>1, <3>2
  <2>7. taken \subseteq Declared
    BY <2>2 DEF Decoded
  <2>8. \A type \in taken : Named(type) = {name}
    BY <2>6, <2>7, DeclaredIsNamed
  <2>9. ASSUME NEW type \in Declared \ taken, DeclaredKind(role, type) # {}
        PROVE  name \notin Named(type)
    <3>1. PICK other \in Kinds(type) : TRUE
      BY <2>6, <2>9
    <3>2. Named(type) = {other} /\ other \in Kinds(type)
      BY <3>1, DeclaredIsNamed
    <3> QED BY <2>6, <2>9, <3>2
  <2> QED BY <2>4, <2>8, <2>9 DEF name
<1> QED BY <1>1, WireInvariant, PTL
=============================================================================
