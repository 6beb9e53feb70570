--------------------------- MODULE SignatureText ---------------------------
(***************************************************************************)
(* The text of a signature (Signature in src/src/signature.rs): how a      *)
(* header value is parsed to a MAC and a MAC printed as one. Text is a     *)
(* sequence of bytes, since a header value need not be a string.           *)
(***************************************************************************)
EXTENDS Integers, Sequences, SequencesExt

CONSTANTS
  Sha256Bytes,   \* SHA256_BYTES, 32 in the code
  Texts          \* header values received

ASSUME WidthAssumption == Sha256Bytes \in Nat \ {0}
ASSUME TextsAssumption == Texts \subseteq Seq(0 .. 255)

\* The bytes of "sha256=", of '0', of 'A' and of 'a'.
Prefix == <<115, 104, 97, 50, 53, 54, 61>>
Zero == 48
UpperA == 65
LowerA == 97

-----------------------------------------------------------------------------
(* Parsing: an option is the set of what it holds *)

\* A digit's value, in either case.
HexNibble(byte) ==
  CASE byte \in Zero .. Zero + 9 -> {byte - Zero}
    [] byte \in LowerA .. LowerA + 5 -> {byte - LowerA + 10}
    [] byte \in UpperA .. UpperA + 5 -> {byte - UpperA + 10}
    [] OTHER -> {}

\* Byte i of the MAC, of the digits at 2i - 1 and 2i.
ByteAt(hex, i) ==
  {16 * high + low : high \in HexNibble(hex[2 * i - 1]), low \in HexNibble(hex[2 * i])}

\* As HasLength, with a longer value's rest left unread.
HasEnough(hex) == Len(hex) >= 2 * Sha256Bytes

HasLength(hex) == Len(hex) = 2 * Sha256Bytes

\* parse_signature: the exact prefix, the exact length, then every pair.
ParseSignature(text) ==
  LET hex == SubSeq(text, Len(Prefix) + 1, Len(text))
      bytes == 1 .. Sha256Bytes
  IN  IF IsPrefix(Prefix, text) /\ HasLength(hex) /\ \A i \in bytes : ByteAt(hex, i) # {}
        THEN {[i \in bytes |-> CHOOSE byte \in ByteAt(hex, i) : TRUE]}
        ELSE {}

-----------------------------------------------------------------------------
(* Printing *)

LowerDigit(nibble) == IF nibble < 10 THEN Zero + nibble ELSE LowerA + nibble - 10

\* As Digits, without the width: a byte below 16 is one digit.
DigitsUnpadded(byte) ==
  IF byte < 16 THEN <<LowerDigit(byte)>>
  ELSE <<LowerDigit(byte \div 16), LowerDigit(byte % 16)>>

\* {byte:02x}
Digits(byte) == <<LowerDigit(byte \div 16), LowerDigit(byte % 16)>>

\* Display, which is the header value too.
Display(mac) == Prefix \o FlattenSeq([i \in DOMAIN mac |-> Digits(mac[i])])

-----------------------------------------------------------------------------
VARIABLES
  text,        \* the header value
  stage,       \* "received" or "parsed"
  signature    \* the MAC it was parsed to, or none: malformed

vars == <<text, stage, signature>>

Init ==
  /\ text \in Texts
  /\ stage = "received"
  /\ signature = {}

\* Signature::try_from, over the bytes of a header value or a string.
Parse ==
  /\ stage = "received"
  /\ stage' = "parsed"
  /\ signature' = ParseSignature(text)
  /\ UNCHANGED text

\* A signature is printed on another request, and received there.
Forward ==
  /\ stage = "parsed"
  /\ \E mac \in signature : text' = Display(mac)
  /\ stage' = "received"
  /\ UNCHANGED signature

Next == Parse \/ Forward

Spec == Init /\ [][Next]_vars

-----------------------------------------------------------------------------
(* Properties *)

Lower(byte) == IF byte \in UpperA .. UpperA + 25 THEN byte + 32 ELSE byte

\* The bytes two digits can be meant to write, in either case.
Written(first, second) ==
  {16 * high + low :
     high \in {n \in 0 .. 15 : Lower(first) = LowerDigit(n)},
     low \in {n \in 0 .. 15 : Lower(second) = LowerDigit(n)}}

\* What a text denotes, said without reading it in order.
Denotes(t, mac) ==
  /\ Len(t) = Len(Prefix) + 2 * Sha256Bytes
  /\ \A i \in 1 .. Len(Prefix) : t[i] = Prefix[i]
  /\ \A i \in 1 .. Sha256Bytes :
       mac[i] \in Written(t[Len(Prefix) + 2 * i - 1], t[Len(Prefix) + 2 * i])

\* A header value is refused exactly when it denotes no MAC and is else parsed
\* to the MAC it denotes: no other prefix or length, no byte next to a range of
\* digits, no digit in the wrong place or of the wrong value.
ParsedAsDenoted ==
  stage = "parsed" =>
    /\ \A mac \in signature : Denotes(text, mac)
    /\ signature = {} =>
         \/ Len(text) # Len(Prefix) + 2 * Sha256Bytes
         \/ \E i \in 1 .. Len(Prefix) : text[i] # Prefix[i]
         \/ \E i \in 1 .. Sha256Bytes :
              Written(text[Len(Prefix) + 2 * i - 1], text[Len(Prefix) + 2 * i]) = {}

\* Printing is the inverse of parsing: forwarded as often as one likes, a
\* signature stays the one that was received, however its digits were written.
PrintedAndParsedBack ==
  [][stage = "received" /\ signature # {} => signature' = signature]_vars
=============================================================================
