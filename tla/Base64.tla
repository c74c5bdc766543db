------------------------------ MODULE Base64 ------------------------------
(***************************************************************************)
(* The two base64 codecs: libtools/base64.c, which the packet forwarder    *)
(* uses, and safe_base64.cpp, which the hub uses because the former ends   *)
(* the process on a character it does not know.                            *)
(*                                                                         *)
(* A byte is four digits and a character three digits of base DIGIT (4 in  *)
(* the code).  A text is a sequence of characters, each the number of *)
(* a character of the alphabet or one of those below.  A result is a       *)
(* sequence of bytes or of characters, Error, or Exit where the process    *)
(* ends.                                                                   *)
(***************************************************************************)
EXTENDS Integers, Sequences, SequencesExt

CONSTANT DIGIT

ASSUME Base64Assumption == DIGIT \in Nat \ {0, 1}

Bytes == 0 .. DIGIT ^ 4 - 1
Codes == 0 .. DIGIT ^ 3 - 1      \* the characters of the alphabet, as numbers
Pad == -1                        \* "="
LineEnd == -2
Other == -3                      \* any other character
Error == <<-1>>
Exit == <<-2>>

\* The digits of a number of n digits, and back
Digits(x, n) == [i \in 1 .. n |-> (x \div DIGIT ^ (n - i)) % DIGIT]
Value(s) == FoldLeft(LAMBDA a, d : a * DIGIT + d, 0, s)
Group(s, n, i) == SubSeq(s, n * (i - 1) + 1, n * i)

ByteDigits(bytes) == FlattenSeq([i \in 1 .. Len(bytes) |-> Digits(bytes[i], 4)])
CodeDigits(text) == FlattenSeq([i \in 1 .. Len(text) |-> Digits(text[i], 3)])

\* The characters of the bytes, the last one filled up with zeros
CodesOf(bytes) ==
  LET ds == ByteDigits(bytes) \o <<0, 0>>  n == Len(ds) \div 3
  IN  [i \in 1 .. n |-> Value(Group(ds, 3, i))]

\* The whole bytes in the characters; what is left of the last one is not looked at.
BytesOf(text) ==
  LET ds == CodeDigits(text)
  IN  [i \in 1 .. Len(ds) \div 4 |-> Value(Group(ds, 4, i))]

-----------------------------------------------------------------------------
(* libtools/base64.c                                                       *)

bin_to_b64_nopad(in, max_len) ==
  LET text == CodesOf(in) IN IF in # <<>> /\ max_len < Len(text) + 1 THEN Error ELSE text

bin_to_b64(in, max_len) ==
  LET text == bin_to_b64_nopad(in, max_len)
      pad == [i \in 1 .. (-Len(text)) % 4 |-> Pad]
  IN  IF text = Error \/ (pad # <<>> /\ max_len < Len(text) + Len(pad) + 1) THEN Error
      ELSE text \o pad

b64_to_bin_nopad(in, max_len) ==
  CASE in = <<>> -> <<>>
    [] Len(in) % 4 = 1 -> Error
    [] max_len < (Len(in) * 3) \div 4 -> Error
    [] OTHER -> IF Range(in) \subseteq Codes THEN BytesOf(in) ELSE Exit

b64_to_bin(in, max_len) ==
  LET n == Len(in)
  IN  CASE n >= 4 /\ n % 4 = 0 /\ in[n - 1] = Pad -> b64_to_bin_nopad(SubSeq(in, 1, n - 2), max_len)
        [] n >= 4 /\ n % 4 = 0 /\ in[n - 1] # Pad /\ in[n] = Pad -> b64_to_bin_nopad(Front(in), max_len)
        [] OTHER -> b64_to_bin_nopad(in, max_len)

-----------------------------------------------------------------------------
(* safe_base64.cpp                                                         *)

safe_b64_encoded_len(n) == ((n + 2) \div 3) * 4

safe_b64_encode(in, out_cap) ==
  LET text == CodesOf(in)
  IN  IF out_cap < safe_b64_encoded_len(Len(in)) + 1 THEN Error
      ELSE text \o [i \in 1 .. (-Len(text)) % 4 |-> Pad]

\* Trailing line ends are taken off.
Stripped(in) ==
  LET last == SelectLastInSeq(in, LAMBDA c : c # LineEnd) IN SubSeq(in, 1, last)

\* Padding may only be the last one or two characters; anything else is refused.
safe_b64_decode(in, out_cap) ==
  LET text == Stripped(in)  n == Len(text)
      pad == IF n = 0 \/ text[n] # Pad THEN 0 ELSE IF text[n - 1] = Pad THEN 2 ELSE 1
      data == SubSeq(text, 1, n - pad)
  IN  CASE n = 0 -> <<>>
        [] n > 0 /\ n % 4 # 0 -> Error
        [] OTHER -> IF out_cap < (n \div 4) * 3 - pad \/ ~(Range(data) \subseteq Codes) THEN Error
                    ELSE BytesOf(data)

-----------------------------------------------------------------------------
(* Properties of every text and every sequence of bytes                    *)

\* Both encoders write the same text, in a buffer of safe_b64_encoded_len and one for
\* the end of the string and no smaller one, and both decoders give the bytes back.
RoundTrip(bytes) ==
  LET len == safe_b64_encoded_len(Len(bytes))
      text == safe_b64_encode(bytes, len + 1)
  IN  /\ Len(text) = len /\ bin_to_b64(bytes, len + 1) = text
      /\ bytes # <<>> => bin_to_b64(bytes, len) = Error
      /\ safe_b64_decode(text, Len(bytes)) = bytes
      /\ b64_to_bin(text, Len(bytes)) = bytes

\* What the safe decoder accepts, the other one decodes to the same bytes, unless the
\* text ends in a line end; what it refuses with room to spare is a text no encoder
\* writes.
DecodersAgree(text) ==
  LET cap == Len(text)
      out == safe_b64_decode(text, cap)
  IN  /\ out # Error /\ Stripped(text) = text => b64_to_bin(text, cap) = out
      /\ out # Error => (-Len(CodesOf(out))) % 4 = Len(SelectSeq(text, LAMBDA c : c = Pad))
=============================================================================
