----------------------------- MODULE TextFields -----------------------------
(***************************************************************************)
(* What the signed messages are made of (signed_messages.py): labelled     *)
(* lines, numbers of a fixed width, byte fields in the forms a caller may  *)
(* give, DIDs, and bincode.                                                *)
(*                                                                         *)
(* A text is a sequence of tokens. A token is a pair: what it is, and what *)
(* it stands for. A hash stands for the text it is the hash of.            *)
(***************************************************************************)
EXTENDS Integers, SequencesExt

CONSTANTS
  Chars,       \* the tokens a caller's text is made of
  Base,        \* what a byte counts to: 256 in the code
  MaxDidLen    \* _MAX_DID_BYTES, in tokens

ASSUME TextFieldsAssumption ==
  /\ Base \in Nat \ {0, 1}
  /\ MaxDidLen \in Nat

Word(w) == <<"word", w>>
Colon == <<"mark", "colon">>
LineBreak == <<"mark", "line break">>
Quote == <<"mark", "quote">>
Label(l) == <<"label", l>>
Number(n) == <<"number", n>>
Byte(b) == <<"byte", b>>
Hex(bytes) == <<"hex", bytes>>
Sha256(text) == <<"sha256", text>>

\* An optional value: none of it, or one.
None == << >>
Some(v) == <<v>>
Default(option, default) == IF option = None THEN default ELSE option[1]
Holds(option, Test(_)) == \A v \in ToSet(option) : Test(v)

\* Base^n
Power[n \in Nat] == IF n = 0 THEN 1 ELSE Base * Power[n - 1]

\* What a caller gives: an option, a list (none is longer than a u64 counts), a text.
Optional(S) == {s \in Seq(S) : Len(s) =< 1}
List(S) == {s \in Seq(S) : Len(s) < Power[8]}
Text == List(Chars)

-----------------------------------------------------------------------------
\* One line, and lines joined.
Line(label, value) == <<Label(label)>> \o value

JoinLines(lines) ==
  FlattenSeq([i \in 1..Len(lines) |-> IF i = 1 THEN lines[1] ELSE <<LineBreak>> \o lines[i]])

\* Mutant of FieldRule: a line break in a text goes in verbatim.
FieldAnything(value) == TRUE

\* _field: the texts a line takes.
FieldRule(value) == ~Contains(value, LineBreak)

\* _unsigned, for a number of so many bytes.
Unsigned(n, bytes) == n \in 0..(Power[bytes] - 1)

-----------------------------------------------------------------------------
\* A byte field: the bytes, and the form the caller gives them in.
ByteForms == {"hex", "0x", "0X", "list"}
ByteField == [form : ByteForms, bytes : List(0..(Base - 1))]

\* Mutant of ByteValues: the field as the caller gave it.
ByteValuesAsGiven(field) == field

\* _byte_values: the same bytes as a list of ints.
ByteValues(field) == [field EXCEPT !.form = "list"]

\* _hex and _byte_values with a length.
HexRule(field, length) == Len(field.bytes) = length

-----------------------------------------------------------------------------
DidPrefix == <<Word("did"), Colon, Word("willow"), Colon>>

\* A character of an ID: a letter or digit, or '-' or '_' ("dash").
IdChars(text) == \A i \in DOMAIN text : text[i][1] \in {"word", "dash"}

\* _did_rule
DidRule(text) ==
  /\ IsStrictPrefix(DidPrefix, text)
  /\ IdChars(SubSeq(text, Len(DidPrefix) + 1, Len(text)))
  /\ Len(text) <= MaxDidLen

\* _key_subgrove_rule
KeySubgroveRule(subgroveId) == subgroveId # << >> /\ ~Contains(subgroveId, Colon)

-----------------------------------------------------------------------------
\* _Bincode: fixed-width little-endian integers, u64 lengths, u32 variant
\* indexes, a byte for an Option.
LittleEndian(n, bytes) == [i \in 1..bytes |-> Byte((n \div Power[i - 1]) % Base)]
U8(n) == LittleEndian(n, 1)
U32(n) == LittleEndian(n, 4)
U64(n) == LittleEndian(n, 8)
U128(n) == LittleEndian(n, 16)
Bool(b) == U8(IF b THEN 1 ELSE 0)

ByteVec(tokens) == U64(Len(tokens)) \o tokens
String(text) == ByteVec(text)
Bytes(field) == [i \in DOMAIN field.bytes |-> Byte(field.bytes[i])]

Strings(texts) == U64(Len(texts)) \o FlattenSeq([i \in DOMAIN texts |-> String(texts[i])])

Option(option, Write(_)) == IF option = None THEN U8(0) ELSE U8(1) \o Write(option[1])

\* The index of a variant, from 0.
Variant(name, variants) == U32((CHOOSE i \in DOMAIN variants : variants[i] = name) - 1)
=============================================================================
