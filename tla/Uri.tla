-------------------------------- MODULE Uri --------------------------------
(***************************************************************************)
(* Texts and URIs: URIComponents (uri.cpp).  A text is a sequence of       *)
(* tokens, each a character c that is percent-escaped k times, so that     *)
(* "%41" is one token with k = 1 and "%2541" one with k = 2.  A character  *)
(* stands for those the code treats alike: "x" for the unreserved ones,    *)
(* "u" for the bytes from 128 on, ">" for the others that are escaped.     *)
(* The hexadecimal digits after a "%" are part of its token, so a "%" with *)
(* k = 0 is one that no escape begins with.  A run of unreserved           *)
(* characters may be one token, which stands for the value it is of.       *)
(***************************************************************************)
EXTENDS Naturals, Sequences, SequencesExt

NoValue == [t |-> "none", n |-> 0, s |-> << >>]

Chr(c) == [c |-> c, of |-> NoValue, k |-> 0]

\* The characters encode() escapes.
Escaped == {"/", "?", "#", "%", ">", "u"}

\* The characters a path and a query end at; isPChar allows "%".
EndsPath  == {"?", "#", ">", "u"}
EndsQuery == EndsPath \union {"/"}

IsChar(a, c) == a.c = c /\ a.k = 0

Encode(t) ==
  [i \in DOMAIN t |-> IF t[i].k > 0 \/ t[i].c \in Escaped THEN [t[i] EXCEPT !.k = @ + 1]
                      ELSE t[i]]

\* Undoes one level of escapes.
Unescape(t) == [i \in DOMAIN t |-> IF t[i].k > 0 THEN [t[i] EXCEPT !.k = @ - 1] ELSE t[i]]

\* decodePctEncoded drops a "%" that begins no escape.
Decode(t) == Unescape(SelectSeq(t, LAMBDA a : ~IsChar(a, "%")))

-----------------------------------------------------------------------------
(* Cutting and joining texts.                                              *)

\* The length of the part of t before the first character of a set.
LengthUpTo(t, ends) ==
  LET at == SelectInSeq(t, LAMBDA a : a.c \in ends /\ a.k = 0)
  IN  IF at = 0 THEN Len(t) ELSE at - 1

Before(t, ends) == SubSeq(t, 1, LengthUpTo(t, ends))
From(t, ends)   == SubSeq(t, LengthUpTo(t, ends) + 1, Len(t))

BeginsWith(t, c) == t # << >> /\ IsChar(Head(t), c)

\* The parts of t between the occurrences of the character c.
Split(t, c) ==
  FoldLeft(LAMBDA parts, a : IF IsChar(a, c) THEN Append(parts, << >>)
                             ELSE [parts EXCEPT ![Len(parts)] = Append(@, a)],
           << << >> >>, t)

\* The texts one after the other, with sep in between.
Join(texts, sep) ==
  IF texts = << >> THEN << >>
  ELSE FoldLeft(LAMBDA joined, t : joined \o sep \o t, Head(texts), Tail(texts))

-----------------------------------------------------------------------------
(* A URI is written as a record of its scheme and host, "" when they are   *)
(* missing, its port, 0 when it is missing, and the text that follows.     *)
(* User information is left out: the parser skips it.                      *)

\* The path of a text that begins with one, decoded, what follows it, and
\* whether that may follow a path.
ParsePath(t) ==
  LET path == IF BeginsWith(t, "/") THEN Before(t, EndsPath) ELSE << >>
      rest == SubSeq(t, Len(path) + 1, Len(t))
  IN  [path |-> Decode(path), rest |-> rest,
       error |-> rest # << >> /\ ~BeginsWith(rest, "?") /\ ~BeginsWith(rest, "#")]

ParseQuery(t) ==
  LET rest == From(t, EndsQuery)
  IN  [query |-> Decode(Before(t, EndsQuery)),
       error |-> rest # << >> /\ ~BeginsWith(rest, "#")]

\* The components of the path and query t of a URI.
FromStrPath(t) ==
  LET p == ParsePath(t)
      q == IF BeginsWith(p.rest, "?") THEN ParseQuery(Tail(p.rest))
           ELSE [query |-> << >>, error |-> FALSE]
  IN  [scheme |-> "", host |-> "", port |-> 0, path |-> p.path, query |-> q.query,
       error |-> p.error \/ q.error]

HasScheme(uri) == uri.scheme # ""

\* The port is accumulated in 16 bits.
ParseAuthority(uri) == [host |-> uri.host, port |-> uri.port % 2^16]

FromStrRfc3986(uri) ==
  LET authority == ParseAuthority(uri)
  IN  [FromStrPath(uri.rest) EXCEPT
         !.scheme = uri.scheme, !.host = authority.host, !.port = authority.port,
         !.error = @ \/ ~HasScheme(uri)]

\* Mutant: the part after the last "/" is not appended.
AppendPathMissesLast(components, part) ==
  LET parts == Split(part, "/")
      kept  == SelectSeq(SubSeq(parts, 1, Len(parts) - 1), LAMBDA p : p # << >>)
  IN  [components EXCEPT !.path = FoldLeft(LAMBDA path, p : path \o <<Chr("/")>> \o Encode(p), @, kept)]

\* Appends the parts of a path, escaped; empty parts but the last vanish.
AppendPath(components, part) ==
  LET parts == Split(part, "/")
      kept  == SelectSeq(SubSeq(parts, 1, Len(parts) - 1), LAMBDA p : p # << >>)
               \o <<parts[Len(parts)]>>
      Slashed(path) ==
        IF path # << >> /\ IsChar(Last(path), "/") THEN path ELSE Append(path, Chr("/"))
  IN  [components EXCEPT !.path = FoldLeft(LAMBDA path, p : Slashed(path) \o Encode(p), @, kept)]

\* The path is written as it is, the query and its pairs of key and value escaped.
BuildPath(components, pairs) ==
  LET query == IF components.query = << >> THEN << >>
               ELSE <<Chr("?")>> \o Encode(components.query)
  IN  components.path
      \o FoldLeft(LAMBDA t, p : Append(t, IF t = << >> THEN Chr("?") ELSE Chr("&"))
                                \o Encode(p.key) \o <<Chr("=")>> \o Encode(p.value),
                  query, pairs)

\* buildHost throws if one of these is missing.
HasHost(components) == components.scheme # "" /\ components.host # ""
=============================================================================
