-------------------------- MODULE MCSignatureText --------------------------
(* MACs of two bytes. The digits are the first and last of each range and   *)
(* the bytes beside them; 0x80 is no ASCII.                                 *)
EXTENDS SignatureText

Boundary == {47, 48, 57, 58, 64, 65, 70, 71, 96, 97, 102, 103, 128}

Words(bytes, n) == [1 .. n -> bytes]

\* "SHA256=", "sha1=" and no "=".
OtherPrefixes == {<<83, 72, 65, 50, 53, 54, 61>>, <<115, 104, 97, 49, 61>>,
             <<115, 104, 97, 50, 53, 54>>}

HeaderValues ==
  {<<>>}
    \cup {Prefix \o v \o w : v \in Words(Boundary, 2), w \in Words({48, 70}, 2)}
    \cup {Prefix \o w \o v : v \in Words(Boundary, 2), w \in Words({49, 97}, 2)}
    \cup {Prefix \o w : w \in UNION {Words({48, 70, 128}, n) : n \in {0, 1, 2, 3, 5, 6}}}
    \cup {p \o w : p \in OtherPrefixes, w \in Words({48, 102}, 4)}
=============================================================================
