------------------------------- MODULE MCWire -------------------------------
(* Two processes, the second of an older release or a newer one. Headers    *)
(* vary with a plain payload, and payloads with plain headers.              *)
EXTENDS Wire

Ping == <<"p">>
Future == <<"f">>
Quoted == <<Quote, "p", Quote>>
Escapes == <<"f", Backslash, Quote>>

Attribute(form, args) == [name |-> "payload", form |-> form, args |-> args]

Serde == [name |-> "serde", form |-> "list", args |-> <<Future>>]

Derived(attributes) == [octocrab |-> {}, attributes |-> attributes]

\* octocrab's type, one of each form, and ones with several attributes.
Views ==
  {[octocrab |-> {Ping}, attributes |-> <<>>], Derived(<<>>), Derived(<<Serde>>)}
    \cup {Derived(<<Serde, Attribute("path", <<>>)>>),
          Derived(<<Serde, Attribute("name-value", <<Ping>>)>>)}
    \cup {Derived(<<Serde, Attribute("list", args)>>) :
            args \in {<<>>, <<Ping>>, <<Future>>, <<Ping, Future>>}}
    \cup {Derived(<<Attribute("list", <<a>>), Attribute("list", <<b>>)>>) :
            a \in {Ping, Future}, b \in {Ping, Future}}

Older == [e \in Enum |-> {Ping}]
Newer == [e \in Enum |-> {Ping, Future}]

Known == {[edge |-> Older, service |-> [Newer EXCEPT !["Action"] = {Ping}]],
          [edge |-> Newer, service |-> Older]}

Header(state, of) == [state |-> state, of |-> of]

Plain ==
  [delivery_id |-> Header("text", <<"d">>), event |-> Header("text", Ping),
   target_type |-> Header("text", Future), target_id |-> Header("text", Number)]

Unread == {Header("absent", <<>>), Header("opaque", Ping), Header("text", <<>>)}

HeaderSets ==
  {[Plain EXCEPT !.event = Header("text", n), !.target_id = t] :
     n \in {Ping, Future, Quoted, Escapes}, t \in Unread \cup {Header("text", Number)}}
    \cup {[Plain EXCEPT !.delivery_id = h] : h \in Unread}
    \cup {[Plain EXCEPT !.event = h] : h \in Unread}
    \cup {[Plain EXCEPT !.target_type = h] : h \in Unread}

NoFields == [f \in MetaFields |-> <<>>]

PlainFields ==
  [NoFields EXCEPT !["action"] = <<Value("string", Future)>>,
                   !["sender"] = <<Value("object", <<"s">>)>>]

Payload(type, fields) == [type |-> type, fields |-> fields]

PlainPayload == Payload("object", PlainFields)

FieldValues == {Value("object", <<"o">>), Value("array", <<"o">>), Value("null", <<>>),
                Value("string", Ping), Value("unfit", <<>>)}

\* Nothing, a value, or a value and an object again.
Writings == {<<>>} \cup {<<v>> : v \in FieldValues}
              \cup {<<v, Value("object", <<"o">>)>> : v \in FieldValues}

Payloads ==
  {Payload("array", NoFields), Payload("invalid", NoFields)}
    \cup {Payload("object", [NoFields EXCEPT !["action"] = <<Value("string", Ping)>>,
                                             ![f] = vs]) : f \in MetaFields, vs \in Writings}

Sent ==
  {[headers |-> h, payload |-> PlainPayload] : h \in HeaderSets}
    \cup {[headers |-> Plain, payload |-> p] : p \in Payloads}

Written == {Value("string", Future), Value("number", Number), Value("null", <<>>),
            Base64(PlainPayload)}
=============================================================================
