----------------------------- MODULE PairingCode ----------------------------
(***************************************************************************)
(* How the password of a pairing gets from the new device to the one that  *)
(* approves it: as a code of PasswordLength Crockford characters that the  *)
(* user types, or as a scomm-pair URI in a QR code (pairing_protocol.rs).  *)
(*                                                                         *)
(* Bytes are numbers. A typed character is a number as well: its place in  *)
(* the alphabet for one of CROCKFORD, with LowerCase added for a small     *)
(* letter, or Blank, or Other.                                             *)
(***************************************************************************)
EXTENDS Integers, Sequences, SequencesExt

CONSTANTS
  PasswordLength,   \* PAIRING_TYPED_PASSWORD_LENGTH
  PasswordBytes     \* PAIRING_HIGH_ENTROPY_PASSWORD_BYTES

ASSUME CodeAssumption == /\ PasswordLength \in Nat \ {0}
                         /\ PasswordBytes \in Nat \ {0}

CROCKFORD == 0 .. 31
Blank     == 32
Other     == 33
LowerCase == 64

\* Mutant: the accumulator is masked with 0xff.
ByteMask == 256

\* The accumulator is masked with 0xffff.
Mask == 65536

\* One turn of the loop: take another byte if there are less than five bits,
\* then put out the five highest.
Turn(bytes, st) ==
  LET more == st.bits < 5
      acc  == IF more THEN (st.acc * 256 + bytes[st.i]) % Mask ELSE st.acc
      bits == (IF more THEN st.bits + 8 ELSE st.bits) - 5
  IN  [acc |-> acc, bits |-> bits, i |-> IF more THEN st.i + 1 ELSE st.i,
       out |-> Append(st.out, (acc \div 2 ^ bits) % 32)]

generate_typed_password(bytes) ==
  FoldLeft(LAMBDA st, n : Turn(bytes, st),
           [acc |-> 0, bits |-> 0, i |-> 1, out |-> <<>>],
           [n \in 1 .. PasswordLength |-> n]).out

\* trim: nothing blank at either end.
Trimmed(s) ==
  LET solid == {i \in DOMAIN s : s[i] # Blank}
  IN  IF solid = {} THEN <<>> ELSE SubSeq(s, Min(solid), Max(solid))

to_ascii_uppercase(s) ==
  [i \in DOMAIN s |-> IF s[i] >= LowerCase THEN s[i] - LowerCase ELSE s[i]]

typed_password_bytes(typed) ==
  {t \in {to_ascii_uppercase(Trimmed(typed))} :
     /\ Len(t) = PasswordLength
     /\ \A i \in DOMAIN t : t[i] \in CROCKFORD}

-----------------------------------------------------------------------------
(* The URI scomm-pair:v2?sid=...&pw=...                                    *)

Percent == 37
And     == 38
Plus    == 43
Equals  == 61
Space   == 32

Digit  == 48 .. 57
Letter == (65 .. 90) \cup (97 .. 122)
Unreserved == Digit \cup Letter \cup {45, 46, 95, 126}

HexDigit(n) == IF n < 10 THEN 48 + n ELSE 55 + n

from_hex(b) == CASE b \in 48 .. 57  -> {b - 48}
                 [] b \in 97 .. 102 -> {b - 87}
                 [] b \in 65 .. 70  -> {b - 55}
                 [] OTHER           -> {}

Encoded(b) == IF b \in Unreserved THEN <<b>>
              ELSE <<Percent, HexDigit(b \div 16), HexDigit(b % 16)>>

urlencoding_encode(s) == FlattenSeq([i \in DOMAIN s |-> Encoded(s[i])])

urlencoding_decode(s) ==
  LET from[i \in 1 .. Len(s) + 3] ==
        IF i > Len(s) THEN <<>>
        ELSE IF /\ s[i] = Percent /\ i + 2 <= Len(s)
                /\ from_hex(s[i + 1]) # {} /\ from_hex(s[i + 2]) # {}
          THEN LET byte == CHOOSE n \in 0 .. 255 :
                             /\ n \div 16 \in from_hex(s[i + 1])
                             /\ n % 16 \in from_hex(s[i + 2])
               IN  <<byte>> \o from[i + 3]
          ELSE <<IF s[i] = Plus THEN Space ELSE s[i]>> \o from[i + 1]
  IN  from[1]

\* The base64url of the vault's crate: letters that stand for the bytes.
base64url_encode(bytes) == [i \in DOMAIN bytes |-> 65 + bytes[i]]
base64url_decode(s) ==
  IF \A i \in DOMAIN s : s[i] \in Letter THEN {[i \in DOMAIN s |-> s[i] - 65]}
                                         ELSE {}

sid_key == <<115, 105, 100>>
pw_key  == <<112, 119>>

\* What follows the question mark.
to_uri_string(session_id, password) ==
  sid_key \o <<Equals>> \o urlencoding_encode(session_id)
    \o <<And>> \o pw_key \o <<Equals>>
    \o urlencoding_encode(base64url_encode(password))

\* The parts of s between the bytes that equal sep.
Split(s, sep) ==
  LET cuts == SetToSortSeq({0, Len(s) + 1} \cup {i \in DOMAIN s : s[i] = sep}, <)
  IN  [n \in 1 .. Len(cuts) - 1 |-> SubSeq(s, cuts[n] + 1, cuts[n + 1] - 1)]

\* The last value of a key in a query, decoded.
Value(query, key) ==
  LET parts == Split(query, And)
      named == {n \in DOMAIN parts :
                  IsStrictPrefix(key \o <<Equals>>, parts[n] \o <<And>>)}
  IN  IF named = {} THEN <<>>
      ELSE urlencoding_decode(SubSeq(parts[Max(named)], Len(key) + 2,
                                     Len(parts[Max(named)])))

\* An empty value counts as a missing one.
parse_query(query) ==
  IF Value(query, sid_key) = <<>> \/ Value(query, pw_key) = <<>> THEN {}
  ELSE {[session_id |-> Value(query, sid_key), password |-> p] :
          p \in {p \in base64url_decode(Value(query, pw_key)) :
                   Len(p) >= PasswordBytes}}
=============================================================================
