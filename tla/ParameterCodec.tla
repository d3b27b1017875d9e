---------------------------- MODULE ParameterCodec ----------------------------
(***************************************************************************)
(* How a request member becomes a URL or header parameter in the client    *)
(* (oaclient.cpp, openapi-parameter-helper.cpp) and a member again in the  *)
(* server (reflect.py).                                                    *)
(*                                                                         *)
(* A member has a type, says whether it is an array, and holds the         *)
(* sequence of its values, one if it is no array.  Numbers have n, strings *)
(* and blobs a text s.  Every integer is handled in 64 bits; Word is 2^64  *)
(* scaled down.                                                            *)
(***************************************************************************)
EXTENDS Uri, Integers, Sequences, SequencesExt

CONSTANT Word   \* the number of values of a 64-bit integer

ASSUME WordAssumption == Word \in Nat /\ Word > 2 /\ Word % 2 = 0

Formats == {"string", "hex", "base64", "base64url", "binary"}
Styles  == {"simple", "label", "form", "matrix"}
Numbers == {"bool", "int", "uint", "enum"}

\* An opaque run of unreserved characters that stands for a value.
Atom(c, value) == [Chr(c) EXCEPT !.of = value]

Garbled == [t |-> "garbled", n |-> 0, s |-> << >>]

-----------------------------------------------------------------------------
(* Formats (FormatHelper, formatBuffer).                                   *)

\* What a number is in big-endian order: one byte for bool, else eight.
BigEndian(v) == [t |-> IF v.t = "bool" THEN "byte" ELSE "word", n |-> v.n % Word, s |-> << >>]

Bytes(v) == [t |-> "bytes", n |-> 0, s |-> v.s]

Holds(t, c) == \E i \in DOMAIN t : IsChar(t[i], c)

\* Base64 has a "/" or a "+" for six bits 63 or 62: it begins with "/" for the word
\* of ones, has one further on for the greatest signed word, and a text with such
\* bits is stood for by one with a "?" or a ">".
Base64Encode(b) ==
  LET run == <<Atom("base64", b)>>
  IN  IF b.t = "bytes" /\ b.s = << >> THEN << >>
      ELSE IF b.t = "word" /\ b.n = Word - 1 THEN <<Chr("/")>> \o run
      ELSE IF b.t = "word" /\ b.n = Word \div 2 - 1 THEN run \o <<Chr("/")>> \o run
      ELSE IF Holds(b.s, "?") THEN run \o <<Chr("/")>>
      ELSE IF Holds(b.s, ">") THEN run \o <<Chr("+")>>
      ELSE run

\* The alphabet of base64url is unreserved; the padding is kept, and is left alone.
Base64UrlEncode(b) == IF b.t = "bytes" /\ b.s = << >> THEN << >> ELSE <<Atom("base64url", b)>>

FormatBuffer(f, b) ==
  CASE f = "hex"       -> IF b.s = << >> THEN << >> ELSE <<Atom("hexbytes", b)>>
    [] f = "base64"    -> Base64Encode(b)
    [] f = "base64url" -> Base64UrlEncode(b)
    [] OTHER           -> b.s

\* Hexadecimal numbers are sign and magnitude, of any length.
FormatNumber(f, v) ==
  CASE f = "hex"    -> <<Atom("hex", [v EXCEPT !.t = "number"])>>
    [] f = "string" -> <<Atom("dec", [v EXCEPT !.t = "number"])>>
    [] OTHER        -> FormatBuffer(f, BigEndian(v))

Format(f, v) == IF v.t \in Numbers THEN FormatNumber(f, v) ELSE FormatBuffer(f, Bytes(v))

FormatAll(f, values) == [i \in DOMAIN values |-> Format(f, values[i])]

\* The parameter value of a member: one text, or the sequence of those of an array.
ParameterValue(f, member) == [array |-> member.array, texts |-> FormatAll(f, member.values)]

-----------------------------------------------------------------------------
(* Styles (pathStr, queryOrHeaderPairs).                                   *)

PathStr(name, p, v) ==
  LET named  == <<Chr(";"), Chr(name), Chr("=")>>
      prefix == CASE p.style = "simple" -> << >>
                  [] p.style = "label"  -> <<Chr(".")>>
                  [] p.style = "matrix" -> named
      sep    == CASE ~p.explode \/ p.style = "simple" -> <<Chr(",")>>
                  [] p.explode /\ p.style = "label"   -> <<Chr(".")>>
                  [] p.explode /\ p.style = "matrix"  -> named
  IN  IF p.style = "form" THEN << >>   \* the default value, which is empty
      ELSE prefix \o Join(v.texts, sep)

\* Mutant: explode the wrong way round.
QueryOrHeaderValuesInverted(p, v) ==
  IF p.style # "form" THEN << >>
  ELSE IF v.array /\ p.explode THEN <<Join(v.texts, <<Chr(",")>>)>>
  ELSE v.texts

\* The texts a query or header parameter is given, one per pair.
QueryOrHeaderValues(p, v) ==
  IF p.style # "form" THEN << >>
  ELSE IF v.array /\ ~p.explode THEN <<Join(v.texts, <<Chr(",")>>)>>
  ELSE v.texts

-----------------------------------------------------------------------------
(* The server: str_to_bytes and parse_param_value.                         *)

\* Python's raw_unicode_escape makes a byte of a character below 256 ("latin").
RawUnicodeEscape(t) ==
  [i \in DOMAIN t |-> CASE IsChar(t[i], "u")     -> Chr("latin")
                        [] IsChar(t[i], "latin") -> Chr("u")
                        [] OTHER                 -> t[i]]

\* The bytes an encoded text stands for; there are none for one that was damaged.
StrToBytes(f, t) ==
  LET whole == {t[i].of : i \in DOMAIN t} \ {NoValue}
      b     == IF whole = {} THEN Bytes(NoValue) ELSE CHOOSE v \in whole : TRUE
  IN  IF f \in {"binary", "string"} THEN Bytes([NoValue EXCEPT !.s = RawUnicodeEscape(t)])
      ELSE IF b.t \in {"bytes", "byte", "word"} /\ t = FormatBuffer(f, b) THEN b
      ELSE Garbled

\* The number of one text in a native format; Python's integers have no width.
ParseNumber(type, t, c) ==
  IF Len(t) = 1 /\ t[1].c = c /\ t[1].k = 0 THEN [t[1].of EXCEPT !.t = type] ELSE Garbled

Signed(n) == IF n < Word \div 2 THEN n ELSE n - Word

\* A number from its bytes: struct.unpack reads signed ones of the type's width.
Unpack(type, b) ==
  IF b.t = (IF type = "bool" THEN "byte" ELSE "word")
  THEN [t |-> type, n |-> IF type = "bool" THEN b.n ELSE Signed(b.n), s |-> << >>]
  ELSE Garbled

\* A string from its bytes, which must be UTF-8.
FromUtf8(b) ==
  IF b.t = "bytes" /\ ~Holds(b.s, "latin") THEN [t |-> "string", n |-> 0, s |-> b.s] ELSE Garbled

ParseParamValue(f, type, t) ==
  IF type = "string"
  THEN IF f = "string" THEN [t |-> type, n |-> 0, s |-> t] ELSE FromUtf8(StrToBytes(f, t))
  ELSE CASE f = "string"                   -> ParseNumber(type, t, "dec")
         [] f = "hex" /\ type # "bool"     -> ParseNumber(type, t, "hex")
         [] OTHER                          -> Unpack(type, StrToBytes(f, t))

\* The blob a parameter for the whole request stands for.
ParseBlob(f, t) == [StrToBytes(f, t) EXCEPT !.t = IF @ = "bytes" THEN "blob" ELSE "garbled"]

\* zserio refuses to write a negative number into an unsigned member.
Writable(v) == v.t # "garbled" /\ ~(v.t = "uint" /\ v.n < 0)
=============================================================================
