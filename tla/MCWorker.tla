------------------------------ MODULE MCWorker ------------------------------
(* Two requests, of one delivery or of two, signed with a secret that is     *)
(* bound, was bound, or is empty, and some the receiver refuses for another  *)
(* reason first, or last.                                                    *)
EXTENDS Worker

CONSTANTS push, old, new, i1, i2, d1, d2

Kinds == {ping, installation, push}
Secrets == {old, new, Empty}
Installations == {i1, i2}
Ids == {d1, d2}

Received(kind, decodes, fits) ==
  [kind |-> kind, action |-> NoAction, meta_decodes |-> decodes, fits |-> fits]

Delivered(id, signer, fault, installations, envelope) ==
  [id |-> id, signer |-> signer, fault |-> fault,
   installation |-> installations, envelope |-> envelope]

Requests ==
  {Delivered(d1, s, "None", {i1}, Received(installation, TRUE, TRUE)) : s \in Secrets}
    \cup {Delivered(d2, old, f, {i1}, Received(push, TRUE, TRUE)) :
            f \in BeforeSignature \cup AfterSignature \cup {"None"}}
    \cup {Delivered(d2, old, "None", {i2}, Received(installation, TRUE, FALSE)),
          Delivered(d2, old, "None", {}, Received(push, TRUE, TRUE)),
          Delivered(d2, old, "None", {i1}, Received(ping, TRUE, TRUE)),
          Delivered(d2, old, "None", {}, Received(installation, FALSE, FALSE))}
=============================================================================
