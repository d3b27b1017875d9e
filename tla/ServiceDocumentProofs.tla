------------------------- MODULE ServiceDocumentProofs -------------------------
(***************************************************************************)
(* Theorems about ServiceDocument, for any service, any tags that are well *)
(* formed, and any documents with parameters that have names and texts.    *)
(***************************************************************************)
EXTENDS ServiceDocument, SequenceTheorems, WellFoundedInduction, TLAPS

-----------------------------------------------------------------------------
(* Going through a list.                                                   *)

\* A set of numbers that is not empty has a least one, the one Min returns.
LEMMA LeastNumber ==
  ASSUME NEW S \in SUBSET Nat, S # {}
  PROVE  Min(S) \in S /\ \A j \in S : Min(S) <= j
<1> DEFINE Less == {ss \in Nat \X Nat : ss[1] < ss[2]}
<1>1. IsWellFoundedOn(Less, Nat)
  BY NatLessThanWellFounded, Zenon DEF OpToRel
<1> HIDE DEF Less
<1>2. PICK m \in S : \A j \in S : ~ (<<j, m>> \in Less)
  BY <1>1, WFMin, Zenon
<1>3. ASSUME NEW j \in S
      PROVE  m <= j
  <2>1. j \in Nat /\ m \in Nat /\ <<j, m>> \notin Less
    BY <1>2
  <2>2. j < m => <<j, m>> \in Less
    BY <2>1, Zenon DEF Less
  <2> QED BY <2>1, <2>2
<1> QED BY <1>3 DEF Min

\* A set that holds zero, and with a number the next one up to N, holds all up to N.
LEMMA Upward ==
  ASSUME NEW N \in Nat, NEW S, 0 \in S, \A i \in 1 .. N : i - 1 \in S => i \in S
  PROVE  \A i \in 0 .. N : i \in S
<1> DEFINE Out == {i \in 0 .. N : i \notin S}
<1>1. ASSUME Out # {}
      PROVE  FALSE
  <2>1. Min(Out) \in Out /\ \A j \in Out : Min(Out) <= j
    BY <1>1, LeastNumber
  <2>2. Min(Out) \in 1 .. N /\ Min(Out) - 1 \notin Out
    BY <2>1
  <2> QED BY <2>1, <2>2
<1> QED BY <1>1

\* A finite set of numbers that is not empty has a greatest one, the one Max returns.
LEMMA GreatestNumber ==
  ASSUME NEW N \in Nat, NEW S \in SUBSET (0 .. N), S # {}
  PROVE  Max(S) \in S /\ \A j \in S : j <= Max(S)
<1> DEFINE T == {n \in 0 .. N : \A j \in S : j <= n}
<1>1. T \in SUBSET Nat /\ T # {}
  <2>1. N \in T
    OBVIOUS
  <2> QED BY <2>1
<1> HIDE DEF T
<1>2. Min(T) \in T /\ \A n \in T : Min(T) <= n
  BY <1>1, LeastNumber
<1>3. PICK m \in T : \A n \in T : m <= n
  BY <1>2
<1>4. m \in 0 .. N /\ (\A j \in S : j <= m)
  BY <1>3 DEF T
<1>5. m \in S
  <2>1. CASE m = 0
    <3>1. PICK j \in S : j \in 0 .. N
      OBVIOUS
    <3>2. j = m
      BY <2>1, <3>1, <1>4
    <3> QED BY <3>2
  <2>2. ASSUME m # 0, m \notin S PROVE FALSE
    <3>1. m - 1 \in 0 .. N /\ m - 1 \notin T
      BY <1>3, <1>4, <2>2
    <3>2. PICK j \in S : ~ (j <= m - 1)
      BY <3>1 DEF T
    <3> QED BY <3>2, <1>4, <2>2
  <2> QED BY <2>1, <2>2
<1> QED BY <1>4, <1>5 DEF Max

\* A list with one element more.
LEMMA Appended ==
  ASSUME NEW s, IsSequence(s), NEW x
  PROVE  LET t == Append(s, x)
         IN  /\ IsSequence(t)
             /\ Len(s) \in Nat /\ DOMAIN s = 1 .. Len(s)
             /\ Len(t) = Len(s) + 1 /\ DOMAIN t = 1 .. Len(s) + 1
             /\ t[Len(s) + 1] = x /\ \A i \in 1 .. Len(s) : t[i] = s[i]
             /\ Range(t) = Range(s) \union {x}
<1> DEFINE t == Append(s, x)
<1>1. Len(s) \in Nat /\ DOMAIN s = 1 .. Len(s) /\ s \in Seq(Range(s) \union {x})
  BY DEF IsSequence
<1>2. /\ t \in Seq(Range(s) \union {x}) /\ Len(t) = Len(s) + 1 /\ DOMAIN t = 1 .. Len(s) + 1
      /\ t[Len(s) + 1] = x /\ \A i \in 1 .. Len(s) : t[i] = s[i]
  BY <1>1
<1> HIDE DEF t
<1>3. Range(t) = Range(s) \union {x}
  BY <1>1, <1>2 DEF Range
<1> QED BY <1>1, <1>2, <1>3 DEF IsSequence, t

\* A list without elements, and one of one.
LEMMA ShortLists ==
  /\ IsSequence(<< >>) /\ Len(<< >>) = 0 /\ DOMAIN << >> = {} /\ Range(<< >>) = {}
  /\ \A x : IsSequence(<<x>>) /\ Len(<<x>>) = 1 /\ DOMAIN <<x>> = {1} /\ Range(<<x>>) = {x}
<1>1. DOMAIN << >> = {} /\ Range(<< >>) = {}
  BY DEF Range
<1>2. ASSUME NEW x
      PROVE  DOMAIN <<x>> = {1} /\ Range(<<x>>) = {x}
  BY DEF Range
<1> QED BY <1>1, <1>2 DEF IsSequence

\* The lists of the service.
LEMMA ServiceLists ==
  /\ IsSequence(Methods) /\ Len(Methods) \in Nat /\ DOMAIN Methods = 1 .. Len(Methods)
  /\ \A m \in Range(Methods) :
       IsSequence(Members(m)) /\ Len(Members(m)) \in Nat /\ DOMAIN Members(m) = 1 .. Len(Members(m))
<1>1. IsSequence(Methods) /\ \A m \in Range(Methods) : IsSequence(Members(m))
  BY ServiceAssumption, Zenon
<1> HIDE DEF Members
<1> QED BY <1>1 DEF IsSequence

\* What a method has before its specifiers.
Unspecified(c, m) ==
  [path |-> IF c.path = << >> THEN <<Segment(m)>> ELSE c.path,
   parameters |-> << >>, contentTypes |-> {}]

\* The parameters of an operation are read one after another.
LEMMA WithParametersSteps ==
  ASSUME NEW path, NEW nodes, Len(nodes) \in Nat
  PROVE  LET W == WithParameters(path, nodes)
         IN  /\ W[0] = path
             /\ \A i \in 1 .. Len(nodes) : W[i] = ParseMethodParameter(W[i - 1], nodes[i])
<1> DEFINE Rec(f, n) ==
             f = [i \in 0 .. n |-> IF i = 0 THEN path
                                  ELSE ParseMethodParameter(f[i - 1], nodes[i])]
           Good == {n \in 0 .. Len(nodes) : \E f : Rec(f, n)}
<1>0. Len(nodes) \in Nat
  OBVIOUS
<1>1. 0 \in Good
  <2>1. Rec([i \in 0 .. 0 |-> path], 0)
    OBVIOUS
  <2> HIDE DEF Rec
  <2> QED BY <1>0, <2>1
<1>2. ASSUME NEW n \in 1 .. Len(nodes), n - 1 \in Good
      PROVE  n \in Good
  <2>1. PICK f : Rec(f, n - 1)
    BY <1>2
  <2> DEFINE g == [i \in 0 .. n |-> IF i < n THEN f[i]
                                   ELSE ParseMethodParameter(f[n - 1], nodes[n])]
  <2>2. \A i \in 0 .. n - 1 : g[i] = f[i]
    OBVIOUS
  <2> HIDE DEF Good
  <2>3. \A i \in 0 .. n : g[i] = IF i = 0 THEN path ELSE ParseMethodParameter(g[i - 1], nodes[i])
    <3>1. n \in Nat /\ n >= 1 /\ g[n] = ParseMethodParameter(f[n - 1], nodes[n])
      BY <1>0
    <3> HIDE DEF g
    <3> QED BY <2>1, <2>2, <3>1
  <2>4. Rec(g, n)
    BY <2>3
  <2> HIDE DEF Rec, g
  <2> QED BY <1>0, <2>4 DEF Good
<1> HIDE DEF Good
<1>3. \A n \in 0 .. Len(nodes) : n \in Good
  <2> HIDE DEF Rec
  <2> QED BY <1>0, <1>1, <1>2, Upward
<1>4. \E f : Rec(f, Len(nodes))
  <2>1. Len(nodes) \in Good
    BY <1>0, <1>3
  <2> HIDE DEF Rec
  <2> QED BY <2>1 DEF Good
<1>5. WithParameters(path, nodes) = CHOOSE f : Rec(f, Len(nodes))
  BY DEF WithParameters
<1> HIDE DEF Rec
<1>6. Rec(WithParameters(path, nodes), Len(nodes))
  BY <1>4, <1>5
<1> USE DEF Rec
<1> QED BY <1>6

\* The methods at a path are read one after another.
LEMMA WithMethodsSteps ==
  ASSUME NEW item, NEW c
  PROVE  LET W == WithMethods(item, c)
         IN  /\ W[0] = c
             /\ \A i \in 1 .. Len(SupportedMethods) : W[i] = ParseMethod(SupportedMethods[i], item, W[i - 1])
<1> DEFINE Rec(f, n) ==
             f = [i \in 0 .. n |-> IF i = 0 THEN c
                                  ELSE ParseMethod(SupportedMethods[i], item, f[i - 1])]
           Good == {n \in 0 .. Len(SupportedMethods) : \E f : Rec(f, n)}
<1>0. Len(SupportedMethods) \in Nat
  BY DEF SupportedMethods
<1>1. 0 \in Good
  <2>1. Rec([i \in 0 .. 0 |-> c], 0)
    OBVIOUS
  <2> HIDE DEF Rec
  <2> QED BY <1>0, <2>1
<1>2. ASSUME NEW n \in 1 .. Len(SupportedMethods), n - 1 \in Good
      PROVE  n \in Good
  <2>1. PICK f : Rec(f, n - 1)
    BY <1>2
  <2> DEFINE g == [i \in 0 .. n |-> IF i < n THEN f[i]
                                   ELSE ParseMethod(SupportedMethods[n], item, f[n - 1])]
  <2>2. \A i \in 0 .. n - 1 : g[i] = f[i]
    OBVIOUS
  <2> HIDE DEF Good
  <2>3. \A i \in 0 .. n : g[i] = IF i = 0 THEN c ELSE ParseMethod(SupportedMethods[i], item, g[i - 1])
    <3>1. n \in Nat /\ n >= 1 /\ g[n] = ParseMethod(SupportedMethods[n], item, f[n - 1])
      BY <1>0
    <3> HIDE DEF g
    <3> QED BY <2>1, <2>2, <3>1
  <2>4. Rec(g, n)
    BY <2>3
  <2> HIDE DEF Rec, g
  <2> QED BY <1>0, <2>4 DEF Good
<1> HIDE DEF Good
<1>3. \A n \in 0 .. Len(SupportedMethods) : n \in Good
  <2> HIDE DEF Rec
  <2> QED BY <1>0, <1>1, <1>2, Upward
<1>4. \E f : Rec(f, Len(SupportedMethods))
  <2>1. Len(SupportedMethods) \in Good
    BY <1>0, <1>3
  <2> HIDE DEF Rec
  <2> QED BY <2>1 DEF Good
<1>5. WithMethods(item, c) = CHOOSE f : Rec(f, Len(SupportedMethods))
  BY DEF WithMethods
<1> HIDE DEF Rec
<1>6. Rec(WithMethods(item, c), Len(SupportedMethods))
  BY <1>4, <1>5
<1> USE DEF Rec
<1> QED BY <1>6

\* Tags are applied one after another.
LEMMA WithTagsSteps ==
  ASSUME NEW tags, NEW from, Len(tags) \in Nat
  PROVE  LET W == WithTags(tags, from)
         IN  /\ W[0] = WithHttpMethod(tags, from)
             /\ \A i \in 1 .. Len(tags) : W[i] = ApplyTag(W[i - 1], tags[i])
<1> DEFINE Rec(f, n) ==
             f = [i \in 0 .. n |-> IF i = 0 THEN WithHttpMethod(tags, from)
                                  ELSE ApplyTag(f[i - 1], tags[i])]
           Good == {n \in 0 .. Len(tags) : \E f : Rec(f, n)}
<1>0. Len(tags) \in Nat
  OBVIOUS
<1>1. 0 \in Good
  <2>1. Rec([i \in 0 .. 0 |-> WithHttpMethod(tags, from)], 0)
    OBVIOUS
  <2> HIDE DEF Rec
  <2> QED BY <1>0, <2>1
<1>2. ASSUME NEW n \in 1 .. Len(tags), n - 1 \in Good
      PROVE  n \in Good
  <2>1. PICK f : Rec(f, n - 1)
    BY <1>2
  <2> DEFINE g == [i \in 0 .. n |-> IF i < n THEN f[i]
                                   ELSE ApplyTag(f[n - 1], tags[n])]
  <2>2. \A i \in 0 .. n - 1 : g[i] = f[i]
    OBVIOUS
  <2> HIDE DEF Good
  <2>3. \A i \in 0 .. n : g[i] = IF i = 0 THEN WithHttpMethod(tags, from) ELSE ApplyTag(g[i - 1], tags[i])
    <3>1. n \in Nat /\ n >= 1 /\ g[n] = ApplyTag(f[n - 1], tags[n])
      BY <1>0
    <3> HIDE DEF g
    <3> QED BY <2>1, <2>2, <3>1
  <2>4. Rec(g, n)
    BY <2>3
  <2> HIDE DEF Rec, g
  <2> QED BY <1>0, <2>4 DEF Good
<1> HIDE DEF Good
<1>3. \A n \in 0 .. Len(tags) : n \in Good
  <2> HIDE DEF Rec
  <2> QED BY <1>0, <1>1, <1>2, Upward
<1>4. \E f : Rec(f, Len(tags))
  <2>1. Len(tags) \in Good
    BY <1>0, <1>3
  <2> HIDE DEF Rec
  <2> QED BY <2>1 DEF Good
<1>5. WithTags(tags, from) = CHOOSE f : Rec(f, Len(tags))
  BY DEF WithTags
<1> HIDE DEF Rec
<1>6. Rec(WithTags(tags, from), Len(tags))
  BY <1>4, <1>5
<1> USE DEF Rec
<1> QED BY <1>6

\* Members are flattened one after another.
LEMMA ScalarsSteps ==
  ASSUME NEW c, NEW m \in Range(Methods)
  PROVE  LET W == Scalars(c, m)
         IN  /\ W[0] = << >>
             /\ \A i \in 1 .. Len(Members(m)) : W[i] = FlattenMember(W[i - 1], Members(m)[i], c)
<1> DEFINE Rec(f, n) ==
             f = [i \in 0 .. n |-> IF i = 0 THEN << >>
                                  ELSE FlattenMember(f[i - 1], Members(m)[i], c)]
           Good == {n \in 0 .. Len(Members(m)) : \E f : Rec(f, n)}
<1>0. Len(Members(m)) \in Nat
  BY ServiceLists
<1>1. 0 \in Good
  <2>1. Rec([i \in 0 .. 0 |-> << >>], 0)
    OBVIOUS
  <2> HIDE DEF Rec
  <2> QED BY <1>0, <2>1
<1>2. ASSUME NEW n \in 1 .. Len(Members(m)), n - 1 \in Good
      PROVE  n \in Good
  <2>1. PICK f : Rec(f, n - 1)
    BY <1>2
  <2> DEFINE g == [i \in 0 .. n |-> IF i < n THEN f[i]
                                   ELSE FlattenMember(f[n - 1], Members(m)[n], c)]
  <2>2. \A i \in 0 .. n - 1 : g[i] = f[i]
    OBVIOUS
  <2> HIDE DEF Good
  <2>3. \A i \in 0 .. n : g[i] = IF i = 0 THEN << >> ELSE FlattenMember(g[i - 1], Members(m)[i], c)
    <3>1. n \in Nat /\ n >= 1 /\ g[n] = FlattenMember(f[n - 1], Members(m)[n], c)
      BY <1>0
    <3> HIDE DEF g
    <3> QED BY <2>1, <2>2, <3>1
  <2>4. Rec(g, n)
    BY <2>3
  <2> HIDE DEF Rec, g
  <2> QED BY <1>0, <2>4 DEF Good
<1> HIDE DEF Good
<1>3. \A n \in 0 .. Len(Members(m)) : n \in Good
  <2> HIDE DEF Rec
  <2> QED BY <1>0, <1>1, <1>2, Upward
<1>4. \E f : Rec(f, Len(Members(m)))
  <2>1. Len(Members(m)) \in Good
    BY <1>0, <1>3
  <2> HIDE DEF Rec
  <2> QED BY <2>1 DEF Good
<1>5. Scalars(c, m) = CHOOSE f : Rec(f, Len(Members(m)))
  BY DEF Scalars
<1> HIDE DEF Rec
<1>6. Rec(Scalars(c, m), Len(Members(m)))
  BY <1>4, <1>5
<1> USE DEF Rec
<1> QED BY <1>6

\* Specifiers are processed one after another.
LEMMA WithSpecifiersSteps ==
  ASSUME NEW c, NEW m, NEW specifiers, specifiers = SpecifiersOf(c, m), Len(specifiers) \in Nat
  PROVE  LET W == WithSpecifiers(c, m)
         IN  /\ W[0] = Unspecified(c, m)
             /\ \A i \in 1 .. Len(specifiers) : W[i] = ProcessSpecifier(W[i - 1], specifiers[i])
<1> DEFINE Rec(f, n) ==
             f = [i \in 0 .. n |-> IF i = 0 THEN Unspecified(c, m)
                                  ELSE ProcessSpecifier(f[i - 1], specifiers[i])]
           Good == {n \in 0 .. Len(specifiers) : \E f : Rec(f, n)}
<1>0. Len(specifiers) \in Nat
  OBVIOUS
<1>1. 0 \in Good
  <2>1. Rec([i \in 0 .. 0 |-> Unspecified(c, m)], 0)
    OBVIOUS
  <2> HIDE DEF Rec
  <2> QED BY <1>0, <2>1
<1>2. ASSUME NEW n \in 1 .. Len(specifiers), n - 1 \in Good
      PROVE  n \in Good
  <2>1. PICK f : Rec(f, n - 1)
    BY <1>2
  <2> DEFINE g == [i \in 0 .. n |-> IF i < n THEN f[i]
                                   ELSE ProcessSpecifier(f[n - 1], specifiers[n])]
  <2>2. \A i \in 0 .. n - 1 : g[i] = f[i]
    OBVIOUS
  <2> HIDE DEF Good
  <2>3. \A i \in 0 .. n : g[i] = IF i = 0 THEN Unspecified(c, m) ELSE ProcessSpecifier(g[i - 1], specifiers[i])
    <3>1. n \in Nat /\ n >= 1 /\ g[n] = ProcessSpecifier(f[n - 1], specifiers[n])
      BY <1>0
    <3> HIDE DEF g
    <3> QED BY <2>1, <2>2, <3>1
  <2>4. Rec(g, n)
    BY <2>3
  <2> HIDE DEF Rec, g
  <2> QED BY <1>0, <2>4 DEF Good
<1> HIDE DEF Good
<1>3. \A n \in 0 .. Len(specifiers) : n \in Good
  <2> HIDE DEF Rec
  <2> QED BY <1>0, <1>1, <1>2, Upward
<1>4. \E f : Rec(f, Len(specifiers))
  <2>1. Len(specifiers) \in Good
    BY <1>0, <1>3
  <2> HIDE DEF Rec
  <2> QED BY <2>1 DEF Good
<1>5. WithSpecifiers(c, m) = CHOOSE f : Rec(f, Len(specifiers))
  BY DEF WithSpecifiers, Unspecified
<1> HIDE DEF Rec
<1>6. Rec(WithSpecifiers(c, m), Len(specifiers))
  BY <1>4, <1>5
<1> USE DEF Rec
<1> QED BY <1>6


-----------------------------------------------------------------------------
(* What tags make of a configuration.                                      *)

\* Explicit specifiers have different names.
IsSpecList(specifiers) ==
  /\ IsSequence(specifiers)
  /\ \A i \in DOMAIN specifiers : IsSpec(specifiers[i])
  /\ \A i, j \in DOMAIN specifiers : specifiers[i].name = specifiers[j].name => i = j

\* A configuration of methods that no tag was refused for.
IsMethodConfig(c) ==
  /\ c = [httpMethod |-> c.httpMethod, paramLoc |-> c.paramLoc, flatten |-> c.flatten,
          paramSpecifiers |-> c.paramSpecifiers, security |-> c.security, path |-> c.path]
  /\ c.httpMethod \in DOMAIN UpperCase
  /\ c.paramLoc \in Locations \union {Absent}
  /\ IsSpecList(c.paramSpecifiers)
  /\ IsSequence(c.path)

\* The one without tags is such.
LEMMA NewMethodConfigType == IsMethodConfig(NewMethodConfig)
<1>1. "post" \in DOMAIN UpperCase
  BY DEF UpperCase
<1>2. IsSequence(<< >>) /\ IsSpecList(<< >>)
  BY ShortLists DEF IsSpecList
<1> QED BY <1>1, <1>2 DEF NewMethodConfig, IsMethodConfig

\* The specifiers of tags, and those the code adds, are of the same kind.
LEMMA SpecifierType ==
  /\ \A part : part # Absent => IsSpec(Body(part))
  /\ \A s : IsSpec(s) => IsSpec(Specifier(s))
<1>1. \A part : part # Absent => IsSpec(Body(part))
  BY DEF IsSpec, Body, Locations
<1>2. \A s : IsSpec(s) => IsSpec(Specifier(s))
  BY <1>1 DEF Specifier, IsSpec
<1> QED BY <1>1, <1>2

\* The last of the tags for the HTTP method counts.
LEMMA HttpMethodOfTags ==
  ASSUME NEW tags, IsTagList(tags), NEW c, IsMethodConfig(c)
  PROVE  LET d     == WithHttpMethod(tags, c)
             named == {i \in 1 .. Len(tags) : tags[i].kind = "http"}
         IN  /\ IsMethodConfig(d)
             /\ d.security = c.security /\ d.paramSpecifiers = c.paramSpecifiers
             /\ named = {} => d.httpMethod = c.httpMethod
             /\ named # {} => \E last \in named : /\ \A i \in named : i <= last
                                                  /\ d.httpMethod = tags[last].value
<1> DEFINE d     == WithHttpMethod(tags, c)
           named == {i \in 1 .. Len(tags) : tags[i].kind = "http"}
<1>1. Len(tags) \in Nat /\ DOMAIN tags = 1 .. Len(tags)
  BY DEF IsTagList, IsSequence
<1>2. d = IF named = {} THEN c ELSE [c EXCEPT !.httpMethod = tags[Max(named)].value]
  BY <1>1 DEF WithHttpMethod
<1>3. CASE named = {}
  BY <1>2, <1>3
<1>4. CASE named # {}
  <2>1. Max(named) \in named /\ \A i \in named : i <= Max(named)
    <3>1. named \in SUBSET (0 .. Len(tags))
      BY <1>1
    <3> HIDE DEF named
    <3> QED BY <1>1, <1>4, <3>1, GreatestNumber
  <2>2. tags[Max(named)].value \in DOMAIN UpperCase
    BY <1>1, <2>1 DEF IsTagList, IsTag
  <2>3. d = [c EXCEPT !.httpMethod = tags[Max(named)].value]
    BY <1>2, <1>4
  <2> HIDE DEF named, d
  <2>4. IsMethodConfig(d) /\ d.security = c.security /\ d.paramSpecifiers = c.paramSpecifiers
        /\ d.httpMethod = tags[Max(named)].value
    BY <2>2, <2>3 DEF IsMethodConfig
  <2>5. \E last \in named : (\A i \in named : i <= last) /\ d.httpMethod = tags[last].value
    BY <2>1, <2>4
  <2> QED BY <1>4, <2>4, <2>5 DEF d, named
<1> QED BY <1>3, <1>4

\* A tag that is not refused sets one field, and no name comes twice.
LEMMA ApplyTagType ==
  ASSUME NEW tag, IsTag(tag), NEW c, IsMethodConfig(c), NEW m, ~ TagRaises(c, tag, m)
  PROVE  LET d == ApplyTag(c, tag)
         IN  /\ IsMethodConfig(d)
             /\ d.httpMethod = c.httpMethod
             /\ d.security = IF tag.kind = "security" THEN tag.value ELSE c.security
             /\ Range(d.paramSpecifiers) = Range(c.paramSpecifiers) \union
                  (IF tag.kind = "param" THEN {Specifier(tag.spec)} ELSE {})
<1> DEFINE d == ApplyTag(c, tag)
<1>1. CASE tag.kind = "param"
  <2> DEFINE s    == Specifier(tag.spec)
             old  == c.paramSpecifiers
             list == Append(old, s)
  <2>1. IsSpec(s)
    BY <1>1, SpecifierType DEF IsTag
  <2>2. IsSpecList(old)
    BY DEF IsMethodConfig
  <2>3. \A i \in DOMAIN old : old[i].name # s.name
    BY <1>1 DEF TagRaises
  <2> HIDE DEF s
  <2>4. /\ IsSequence(list)
        /\ Len(old) \in Nat /\ DOMAIN old = 1 .. Len(old) /\ DOMAIN list = 1 .. Len(old) + 1
        /\ list[Len(old) + 1] = s /\ \A i \in 1 .. Len(old) : list[i] = old[i]
        /\ Range(list) = Range(old) \union {s}
    BY <2>2, Appended DEF IsSpecList
  <2> HIDE DEF list
  <2>5. IsSpecList(list)
    <3>1. \A i \in 1 .. Len(old) + 1 : IsSpec(list[i])
      <4>1. \A i \in 1 .. Len(old) + 1 : i \in 1 .. Len(old) \/ i = Len(old) + 1
        BY <2>4
      <4> QED BY <2>1, <2>2, <2>4, <4>1 DEF IsSpecList
    <3>2. \A i, j \in 1 .. Len(old) + 1 : list[i].name = list[j].name => i = j
      <4>1. \A i \in 1 .. Len(old) + 1 : i \in 1 .. Len(old) \/ i = Len(old) + 1
        BY <2>4
      <4> QED BY <2>2, <2>3, <2>4, <4>1 DEF IsSpecList
    <3> QED BY <2>4, <3>1, <3>2 DEF IsSpecList
  <2>7. d = [c EXCEPT !.paramSpecifiers = list]
    BY <1>1 DEF ApplyTag, list, s
  <2>8. IsMethodConfig(d) /\ d.httpMethod = c.httpMethod /\ d.security = c.security
        /\ d.paramSpecifiers = list
    BY <2>5, <2>7 DEF IsMethodConfig
  <2> HIDE DEF d
  <2> QED BY <1>1, <2>4, <2>8 DEF s, d
<1>2. CASE tag.kind # "param"
  <2>1. tag.kind \in {"http", "location", "flat", "blob", "security", "path"}
    BY <1>2 DEF IsTag
  <2>2. /\ IsMethodConfig(d) /\ d.paramSpecifiers = c.paramSpecifiers /\ d.httpMethod = c.httpMethod
        /\ d.security = IF tag.kind = "security" THEN tag.value ELSE c.security
    BY <2>1 DEF IsTag, ApplyTag, IsMethodConfig
  <2> QED BY <1>2, <2>2
<1> QED BY <1>1, <1>2

-----------------------------------------------------------------------------
(* What a configuration says of the tags at some positions of a list of    *)
(* entries.                                                                *)

OfKind(es, T, kind) == {at \in T : es[at[1]].tags[at[2]].kind = kind}

\* v is the value of the last tag of this kind.
IsLastValue(v, es, T, kind, otherwise) ==
  \/ OfKind(es, T, kind) = {} /\ v = otherwise
  \/ \E last \in OfKind(es, T, kind) :
       /\ \A at \in OfKind(es, T, kind) : ~ Precedes(last, at)
       /\ v = es[last[1]].tags[last[2]].value

SpecifiersAt(es, T) == {Specifier(es[at[1]].tags[at[2]].spec) : at \in OfKind(es, T, "param")}

SumsUp(c, es, T) ==
  /\ IsLastValue(c.httpMethod, es, T, "http", "post")
  /\ IsLastValue(c.security, es, T, "security", Absent)
  /\ Range(c.paramSpecifiers) = SpecifiersAt(es, T)

\* An entry is read after what came before it.
LEMMA EntrySumsUp ==
  ASSUME NEW es, NEW n \in Nat, NEW T, \A at \in T : at[1] \in Nat /\ at[1] < n,
         IsTagList(es[n].tags), NEW c, IsMethodConfig(c), SumsUp(c, es, T),
         NEW m, ~ TagsRaise(es[n].tags, c, m)
  PROVE  LET d == ConfigFromTags(es[n].tags, c)
         IN  /\ IsMethodConfig(d)
             /\ SumsUp(d, es, T \union {<<n, j>> : j \in DOMAIN es[n].tags})
<1> DEFINE tags == es[n].tags
           N    == Len(tags)
           W    == WithTags(tags, c)
           U(j) == T \union {<<n, k>> : k \in 1 .. j}
           Good == {j \in 0 .. N : /\ IsMethodConfig(W[j])
                                   /\ W[j].httpMethod = W[0].httpMethod
                                   /\ IsLastValue(W[j].security, es, U(j), "security", Absent)
                                   /\ Range(W[j].paramSpecifiers) = SpecifiersAt(es, U(j))}
<1>1. N \in Nat /\ DOMAIN tags = 1 .. N
  BY DEF IsTagList, IsSequence
<1>2. W[0] = WithHttpMethod(tags, c) /\ \A j \in 1 .. N : W[j] = ApplyTag(W[j - 1], tags[j])
  BY <1>1, WithTagsSteps
<1>3. U(0) = T
  OBVIOUS
<1> HIDE DEF W
<1>4. 0 \in Good
  <2>1. IsMethodConfig(W[0]) /\ W[0].security = c.security /\ W[0].paramSpecifiers = c.paramSpecifiers
    BY <1>2, HttpMethodOfTags
  <2> HIDE DEF U
  <2> QED BY <1>1, <1>3, <2>1 DEF SumsUp
<1>5. ASSUME NEW j \in 1 .. N, j - 1 \in Good
      PROVE  j \in Good
  <2>1. IsTag(tags[j]) /\ ~ TagRaises(W[j - 1], tags[j], m)
    <3>1. ~ TagRaises(WithTags(tags, c)[j - 1], tags[j], m)
      BY <1>1 DEF TagsRaise
    <3> QED BY <1>1, <3>1 DEF IsTagList, W
  <2>2. /\ IsMethodConfig(W[j - 1]) /\ W[j - 1].httpMethod = W[0].httpMethod
        /\ IsLastValue(W[j - 1].security, es, U(j - 1), "security", Absent)
        /\ Range(W[j - 1].paramSpecifiers) = SpecifiersAt(es, U(j - 1))
    BY <1>5
  <2>3. W[j] = ApplyTag(W[j - 1], tags[j])
    BY <1>2
  <2>4. /\ IsMethodConfig(W[j]) /\ W[j].httpMethod = W[0].httpMethod
        /\ W[j].security = IF tags[j].kind = "security" THEN tags[j].value ELSE W[j - 1].security
        /\ Range(W[j].paramSpecifiers) = Range(W[j - 1].paramSpecifiers) \union
             (IF tags[j].kind = "param" THEN {Specifier(tags[j].spec)} ELSE {})
    <3> DEFINE before == W[j - 1]
               tag    == tags[j]
    <3>1. IsTag(tag) /\ ~ TagRaises(before, tag, m) /\ IsMethodConfig(before)
      BY <2>1, <2>2
    <3> HIDE DEF before, tag
    <3>2. LET d == ApplyTag(before, tag)
          IN  /\ IsMethodConfig(d)
              /\ d.httpMethod = before.httpMethod
              /\ d.security = IF tag.kind = "security" THEN tag.value ELSE before.security
              /\ Range(d.paramSpecifiers) = Range(before.paramSpecifiers) \union
                   (IF tag.kind = "param" THEN {Specifier(tag.spec)} ELSE {})
      BY <3>1, ApplyTagType
    <3>3. W[j] = ApplyTag(before, tag)
      BY <2>3 DEF before, tag
    <3>4. before = W[j - 1] /\ tag = tags[j]
      BY DEF before, tag
    <3> QED BY <2>2, <3>2, <3>3, <3>4
  <2>5. U(j) = U(j - 1) \union {<<n, j>>}
    BY <1>1
  <2>6. \A kind : OfKind(es, U(j), kind) = OfKind(es, U(j - 1), kind) \union
                    (IF tags[j].kind = kind THEN {<<n, j>>} ELSE {})
    <3> HIDE DEF U
    <3> QED BY <2>5 DEF OfKind
  <2>7. \A at \in U(j - 1) : ~ Precedes(<<n, j>>, at)
    BY <1>1 DEF Precedes
  <2> HIDE DEF U, Good
  <2>8. Range(W[j].paramSpecifiers) = SpecifiersAt(es, U(j))
    <3>1. CASE tags[j].kind = "param"
      <4>1. OfKind(es, U(j), "param") = OfKind(es, U(j - 1), "param") \union {<<n, j>>}
        BY <2>6, <3>1
      <4>2. SpecifiersAt(es, U(j)) = SpecifiersAt(es, U(j - 1)) \union {Specifier(tags[j].spec)}
        <5>1. es[<<n, j>>[1]].tags[<<n, j>>[2]] = tags[j]
          OBVIOUS
        <5> DEFINE A == OfKind(es, U(j), "param")
                   B == OfKind(es, U(j - 1), "param")
                   Said(at) == Specifier(es[at[1]].tags[at[2]].spec)
        <5>2. A = B \union {<<n, j>>} /\ Said(<<n, j>>) = Specifier(tags[j].spec)
          BY <4>1, <5>1
        <5> HIDE DEF A, B, Said
        <5>3. {Said(at) : at \in A} = {Said(at) : at \in B} \union {Said(<<n, j>>)}
          BY <5>2
        <5> QED BY <5>2, <5>3 DEF SpecifiersAt, A, B, Said
      <4> QED BY <2>2, <2>4, <3>1, <4>2
    <3>2. CASE tags[j].kind # "param"
      <4>1. OfKind(es, U(j), "param") = OfKind(es, U(j - 1), "param")
        BY <2>6, <3>2
      <4> QED BY <2>2, <2>4, <3>2, <4>1 DEF SpecifiersAt
    <3> QED BY <3>1, <3>2
  <2>9. IsLastValue(W[j].security, es, U(j), "security", Absent)
    <3>1. CASE tags[j].kind = "security"
      <4>1. <<n, j>> \in OfKind(es, U(j), "security")
        BY <2>6, <3>1
      <4>2. \A at \in OfKind(es, U(j), "security") : ~ Precedes(<<n, j>>, at)
        <5>1. ~ Precedes(<<n, j>>, <<n, j>>)
          BY <1>1 DEF Precedes
        <5> QED BY <2>5, <2>7, <5>1 DEF OfKind
      <4>3. W[j].security = es[n].tags[j].value
        BY <2>4, <3>1
      <4> QED BY <4>1, <4>2, <4>3 DEF IsLastValue
    <3>2. CASE tags[j].kind # "security"
      <4>1. OfKind(es, U(j), "security") = OfKind(es, U(j - 1), "security")
        BY <2>6, <3>2
      <4> QED BY <2>2, <2>4, <3>2, <4>1 DEF IsLastValue
    <3> QED BY <3>1, <3>2
  <2> QED BY <2>4, <2>8, <2>9 DEF Good
<1>6. N \in Good
  <2> HIDE DEF Good, N
  <2>1. \A j \in 0 .. N : j \in Good
    BY <1>1, <1>4, <1>5, Upward
  <2> QED BY <1>1, <2>1
<1>7. U(N) = T \union {<<n, j>> : j \in DOMAIN tags}
  BY <1>1
<1>8. IsLastValue(W[0].httpMethod, es, U(N), "http", "post")
  <2> DEFINE named == {i \in 1 .. N : tags[i].kind = "http"}
  <2>1. OfKind(es, U(N), "http") = OfKind(es, T, "http") \union {<<n, i>> : i \in named}
    BY <1>1 DEF OfKind
  <2>2. /\ named = {} => W[0].httpMethod = c.httpMethod
        /\ named # {} => \E last \in named : /\ \A i \in named : i <= last
                                             /\ W[0].httpMethod = tags[last].value
    <3> DEFINE d == WithHttpMethod(tags, c)
    <3>1. d = W[0]
      BY <1>2
    <3>2. /\ named = {} => d.httpMethod = c.httpMethod
          /\ named # {} => \E last \in named : (\A i \in named : i <= last) /\ d.httpMethod = tags[last].value
      BY HttpMethodOfTags
    <3> HIDE DEF d, named
    <3> QED BY <3>1, <3>2
  <2>3. CASE named = {}
    <3>1. OfKind(es, U(N), "http") = OfKind(es, T, "http")
      BY <2>1, <2>3
    <3> QED BY <2>2, <2>3, <3>1 DEF SumsUp, IsLastValue
  <2>4. CASE named # {}
    <3>1. PICK last \in named : /\ \A i \in named : i <= last
                                /\ W[0].httpMethod = tags[last].value
      BY <2>2, <2>4
    <3>2. \A at \in OfKind(es, U(N), "http") : ~ Precedes(<<n, last>>, at)
      <4>1. \A at \in OfKind(es, T, "http") : ~ Precedes(<<n, last>>, at)
        BY DEF OfKind, Precedes
      <4>2. \A i \in named : ~ Precedes(<<n, last>>, <<n, i>>)
        BY <1>1, <3>1 DEF Precedes
      <4> HIDE DEF named, U
      <4> QED BY <2>1, <4>1, <4>2
    <3>3. <<n, last>> \in OfKind(es, U(N), "http")
      BY <2>1
    <3> HIDE DEF named, U
    <3> QED BY <3>1, <3>2, <3>3 DEF IsLastValue
  <2> QED BY <2>3, <2>4
<1>9. /\ IsMethodConfig(W[N])
      /\ SumsUp(W[N], es, U(N))
  <2> HIDE DEF U
  <2> QED BY <1>6, <1>8 DEF SumsUp
<1>10. ConfigFromTags(tags, c) = W[N]
  BY DEF ConfigFromTags, W
<1> HIDE DEF U, W, N
<1> QED BY <1>7, <1>9, <1>10

-----------------------------------------------------------------------------
(* What a configuration makes of a method.                                 *)

\* A list of specifiers may have one of another name more.
LEMMA SpecAppended ==
  ASSUME NEW specifiers, IsSpecList(specifiers), NEW s, IsSpec(s),
         \A i \in DOMAIN specifiers : specifiers[i].name # s.name
  PROVE  IsSpecList(Append(specifiers, s))
<1> DEFINE list == Append(specifiers, s)
           N    == Len(specifiers)
<1>1. /\ IsSequence(list) /\ N \in Nat /\ DOMAIN specifiers = 1 .. N /\ DOMAIN list = 1 .. N + 1
      /\ list[N + 1] = s /\ \A i \in 1 .. N : list[i] = specifiers[i]
  BY Appended DEF IsSpecList
<1> HIDE DEF list, N
<1>2. \A i \in 1 .. N + 1 : i \in 1 .. N \/ i = N + 1
  BY <1>1
<1>3. \A i \in 1 .. N + 1 : IsSpec(list[i])
  BY <1>1, <1>2 DEF IsSpecList
<1>4. \A i, j \in 1 .. N + 1 : list[i].name = list[j].name => i = j
  BY <1>1, <1>2 DEF IsSpecList
<1> QED BY <1>1, <1>3, <1>4 DEF IsSpecList, list

\* A list of one specifier.
LEMMA OneSpec ==
  ASSUME NEW s, IsSpec(s)
  PROVE  IsSpecList(<<s>>)
<1>1. IsSequence(<<s>>) /\ DOMAIN <<s>> = {1} /\ <<s>>[1] = s
  BY ShortLists
<1> HIDE DEF IsSpec
<1> QED BY <1>1 DEF IsSpecList

\* Flattening makes at most one specifier of each member.
LEMMA ScalarsType ==
  ASSUME NEW c, IsMethodConfig(c), NEW m \in Range(Methods)
  PROVE  IsSpecList(Scalars(c, m)[Len(Members(m))])
<1> DEFINE N    == Len(Members(m))
           W    == Scalars(c, m)
           Good == {i \in 0 .. N : /\ IsSpecList(W[i])
                                   /\ \A k \in DOMAIN W[i] : \E j \in 1 .. i : W[i][k].name = Members(m)[j].flatName}
<1>1. N \in Nat /\ DOMAIN Members(m) = 1 .. N
  BY ServiceLists
<1>2. W[0] = << >> /\ \A i \in 1 .. N : W[i] = FlattenMember(W[i - 1], Members(m)[i], c)
  BY ScalarsSteps
<1> HIDE DEF W, N
<1>3. 0 \in Good
  <2>1. IsSpecList(<< >>) /\ DOMAIN << >> = {}
    BY ShortLists DEF IsSpecList
  <2> QED BY <1>1, <1>2, <2>1
<1>4. ASSUME NEW i \in 1 .. N, i - 1 \in Good
      PROVE  i \in Good
  <2> DEFINE old == W[i - 1]
             new == Flattened(Members(m)[i], c)
  <2>1. /\ IsSpecList(old)
        /\ \A k \in DOMAIN old : \E j \in 1 .. i - 1 : old[k].name = Members(m)[j].flatName
    BY <1>4
  <2>2. W[i] = IF Members(m)[i].scalar THEN Append(old, new) ELSE old
    BY <1>2 DEF FlattenMember
  <2>3. IsSpec(new) /\ new.name = Members(m)[i].flatName
    <3>1. Members(m)[i].name # Absent /\ Members(m)[i].flatName # ""
      BY <1>1, ServiceAssumption DEF Range
    <3>2. c.paramLoc \in Locations \union {Absent} /\ "query" \in Locations
      BY DEF IsMethodConfig, Locations
    <3> QED BY <3>1, <3>2 DEF IsSpec, Flattened
  <2>4. \A k \in DOMAIN old : old[k].name # new.name
    <3> TAKE k \in DOMAIN old
    <3>1. PICK j \in 1 .. i - 1 : old[k].name = Members(m)[j].flatName
      BY <2>1
    <3>2. j # i /\ j \in DOMAIN Members(m) /\ i \in DOMAIN Members(m)
      BY <1>1
    <3>3. Members(m)[j].flatName # Members(m)[i].flatName
      BY <3>2, ServiceAssumption
    <3> QED BY <2>3, <3>1, <3>3
  <2> HIDE DEF old, new
  <2>5. CASE Members(m)[i].scalar
    <3>1. IsSpecList(Append(old, new))
      BY <2>1, <2>3, <2>4, SpecAppended
    <3>2. /\ DOMAIN old = 1 .. Len(old) /\ DOMAIN Append(old, new) = 1 .. Len(old) + 1 /\ Len(old) \in Nat
          /\ Append(old, new)[Len(old) + 1] = new /\ \A k \in 1 .. Len(old) : Append(old, new)[k] = old[k]
      BY <2>1, Appended DEF IsSpecList
    <3>3. W[i] = Append(old, new)
      BY <2>2, <2>5
    <3>4. ASSUME NEW k \in DOMAIN W[i]
          PROVE  \E j \in 1 .. i : W[i][k].name = Members(m)[j].flatName
      <4>1. CASE k = Len(old) + 1
        BY <1>1, <2>3, <3>2, <3>3, <4>1
      <4>2. CASE k # Len(old) + 1
        <5>1. k \in DOMAIN old /\ W[i][k] = old[k]
          BY <3>2, <3>3, <4>2
        <5>2. PICK j \in 1 .. i - 1 : old[k].name = Members(m)[j].flatName
          BY <2>1, <5>1
        <5> QED BY <1>1, <5>1, <5>2
      <4> QED BY <4>1, <4>2
    <3>5. i \in 0 .. N /\ IsSpecList(W[i])
      BY <1>1, <3>1, <3>3
    <3> QED BY <3>4, <3>5
  <2>6. CASE ~ Members(m)[i].scalar
    <3>1. W[i] = old
      BY <2>2, <2>6
    <3>2. \A j \in 1 .. i - 1 : j \in 1 .. i
      BY <1>1
    <3> QED BY <1>1, <2>1, <3>1, <3>2
  <2> QED BY <2>5, <2>6
<1>5. \A i \in 0 .. N : i \in Good
  <2> HIDE DEF Good
  <2> QED BY <1>1, <1>3, <1>4, Upward
<1>6. IsSpecList(W[N])
  BY <1>1, <1>5
<1> QED BY <1>6 DEF W, N

\* The specifiers of a method have different names, whether they are given or made.
LEMMA SpecifiersOfType ==
  ASSUME NEW c, IsMethodConfig(c), NEW m \in Range(Methods)
  PROVE  /\ IsSpecList(SpecifiersOf(c, m))
         /\ c.paramSpecifiers # << >> => SpecifiersOf(c, m) = c.paramSpecifiers
<1>1. IsSpecList(c.paramSpecifiers)
  BY DEF IsMethodConfig
<1>2. IsSpecList(<<Body(Whole)>>)
  <2>1. Whole # Absent
    BY DEF Whole, Absent
  <2> QED BY <2>1, SpecifierType, OneSpec
<1>3. IsSpecList(Scalars(c, m)[Len(Members(m))])
  BY ScalarsType
<1>4. ASSUME c.paramLoc # Absent
      PROVE  IsSpecList(<<[Body(Whole) EXCEPT !.name = "requestBody", !.location = c.paramLoc]>>)
  <2> DEFINE s == [Body(Whole) EXCEPT !.name = "requestBody", !.location = c.paramLoc]
  <2>1. c.paramLoc \in Locations
    BY <1>4 DEF IsMethodConfig
  <2>2. IsSpec(s)
    BY <2>1 DEF IsSpec, Body, Whole, Absent
  <2> HIDE DEF s
  <2>3. IsSpecList(<<s>>)
    BY <2>2, OneSpec
  <2> QED BY <2>3 DEF s
<1> QED BY <1>1, <1>2, <1>3, <1>4 DEF SpecifiersOf

ForBody(specifiers) == {s \in Range(specifiers) : s.location = "body"}
InRequest(specifiers) == {s \in Range(specifiers) : s.location # "body"}

\* What the specifiers ask for is in the operation, and nothing else.
LEMMA ProcessedType ==
  ASSUME NEW c, IsMethodConfig(c), NEW m \in Range(Methods)
  PROVE  LET made == Processed(c, m)
             ss   == SpecifiersOf(c, m)
         IN  /\ IsSequence(made.path) /\ IsSequence(made.parameters)
             /\ Range(made.parameters) = {ParameterNode(s) : s \in InRequest(ss)}
             /\ \A i, j \in DOMAIN made.parameters :
                  made.parameters[i].name = made.parameters[j].name => i = j
             /\ "application/x-zserio-object" \in made.contentTypes <=> ForBody(ss) # {}
             /\ \A s \in Range(ss) : s.location = "path" => Slot(s.name) \in Range(made.path)
<1> DEFINE ss    == SpecifiersOf(c, m)
           N     == Len(ss)
           W     == WithSpecifiers(c, m)
           IsMade(made, n) ==
             /\ made = [path |-> made.path, parameters |-> made.parameters, contentTypes |-> made.contentTypes]
             /\ IsSequence(made.path) /\ IsSequence(made.parameters)
             /\ \A p \in Range(made.parameters) :
                  \E k \in 1 .. n : ss[k].location # "body" /\ p = ParameterNode(ss[k])
             /\ \A k \in 1 .. n : ss[k].location # "body" => ParameterNode(ss[k]) \in Range(made.parameters)
             /\ \A i, j \in DOMAIN made.parameters :
                  made.parameters[i].name = made.parameters[j].name => i = j
             /\ "application/x-zserio-object" \in made.contentTypes <=> \E k \in 1 .. n : ss[k].location = "body"
             /\ \A k \in 1 .. n : ss[k].location = "path" => Slot(ss[k].name) \in Range(made.path)
           Good == {n \in 0 .. N : IsMade(W[n], n)}
<1>1. IsSpecList(ss)
  BY SpecifiersOfType
<1>2. N \in Nat /\ DOMAIN ss = 1 .. N
  BY <1>1 DEF IsSpecList, IsSequence
<1>3. W[0] = Unspecified(c, m) /\ \A n \in 1 .. N : W[n] = ProcessSpecifier(W[n - 1], ss[n])
  BY <1>2, WithSpecifiersSteps
<1>4. W[N] = Processed(c, m)
  BY DEF Processed
<1> HIDE DEF ss, N, W
<1>5. IsMade(W[0], 0)
  <2>1. IsSequence(c.path) /\ \A x : IsSequence(<<x>>)
    BY ShortLists DEF IsMethodConfig
  <2>2. IsSequence(<< >>) /\ Range(<< >>) = {} /\ DOMAIN << >> = {}
    BY ShortLists
  <2>3. /\ W[0].parameters = << >> /\ W[0].contentTypes = {}
        /\ W[0] = [path |-> W[0].path, parameters |-> W[0].parameters, contentTypes |-> W[0].contentTypes]
        /\ W[0].path = IF c.path = << >> THEN <<Segment(m)>> ELSE c.path
    BY <1>3 DEF Unspecified
  <2>4. IsSequence(W[0].path)
    BY <2>1, <2>3
  <2> QED BY <2>2, <2>3, <2>4
<1>6. ASSUME NEW n \in 1 .. N, IsMade(W[n - 1], n - 1)
      PROVE  IsMade(W[n], n)
  <2> DEFINE old == W[n - 1]
             s   == ss[n]
  <2>1. IsMade(old, n - 1) /\ W[n] = ProcessSpecifier(old, s) /\ s = ss[n]
    BY <1>3, <1>6
  <2>2. /\ \A k \in 1 .. n : k \in 1 .. n - 1 \/ k = n
        /\ \A k \in 1 .. n - 1 : k \in 1 .. n
        /\ n \in 1 .. n
    BY <1>2
  <2> HIDE DEF old, s
  <2>3. CASE s.location = "body"
    <3>0. old = [path |-> old.path, parameters |-> old.parameters, contentTypes |-> old.contentTypes]
      BY <2>1
    <3> DEFINE new == [old EXCEPT !.contentTypes = {"application/x-zserio-object"}]
    <3>1. W[n] = new
      BY <2>1, <2>3 DEF ProcessSpecifier
    <3>2. /\ new = [path |-> new.path, parameters |-> new.parameters, contentTypes |-> new.contentTypes]
          /\ new.path = old.path /\ new.parameters = old.parameters
          /\ new.contentTypes = {"application/x-zserio-object"}
      <4> HIDE DEF IsMade
      <4> QED BY <3>0
    <3> HIDE DEF new
    <3>3. IsMade(new, n)
      BY <2>1, <2>2, <2>3, <3>2
    <3> QED BY <3>1, <3>3
  <2>4. CASE s.location # "body"
    <3> DEFINE node == ParameterNode(s)
               list == Append(old.parameters, node)
               slot == Slot(s.name)
               segments == IF s.location # "path" \/ slot \in Range(old.path) THEN old.path
                           ELSE Append(old.path, slot)
               new  == [path |-> segments, parameters |-> list, contentTypes |-> old.contentTypes]
    <3>1. W[n] = new
      BY <2>1, <2>4 DEF ProcessSpecifier
    <3>2. /\ IsSequence(segments) /\ Range(old.path) \subseteq Range(segments)
          /\ s.location = "path" => slot \in Range(segments)
      <4> HIDE DEF slot
      <4>1. CASE s.location # "path" \/ slot \in Range(old.path)
        BY <2>1, <4>1
      <4>2. CASE ~ (s.location # "path" \/ slot \in Range(old.path))
        <5>1. /\ IsSequence(Append(old.path, slot))
              /\ Range(Append(old.path, slot)) = Range(old.path) \union {slot}
          BY <2>1, Appended
        <5> QED BY <4>2, <5>1
      <4> QED BY <4>1, <4>2
    <3> DEFINE M == Len(old.parameters)
    <3>3. /\ IsSequence(list) /\ M \in Nat /\ DOMAIN old.parameters = 1 .. M /\ DOMAIN list = 1 .. M + 1
          /\ list[M + 1] = node /\ \A i \in 1 .. M : list[i] = old.parameters[i]
          /\ Range(list) = Range(old.parameters) \union {node}
      <4> HIDE DEF node
      <4> QED BY <2>1, Appended
    <3>4. \A i \in 1 .. M : old.parameters[i].name # node.name
      <4> TAKE i \in 1 .. M
      <4>1. old.parameters[i] \in Range(old.parameters)
        BY <3>3 DEF Range
      <4>2. PICK k \in 1 .. n - 1 : old.parameters[i] = ParameterNode(ss[k])
        BY <2>1, <4>1
      <4>3. ss[k].name # s.name
        BY <1>1, <1>2, <2>1, <2>2, <4>2 DEF IsSpecList
      <4> QED BY <4>2, <4>3 DEF ParameterNode
    <3>5. node = ParameterNode(ss[n])
      BY <2>1
    <3>6. \A i \in 1 .. M + 1 : i \in 1 .. M \/ i = M + 1
      BY <3>3
    <3> HIDE DEF segments, list, M, node
    <3>7. \A i, j \in 1 .. M + 1 : list[i].name = list[j].name => i = j
      BY <2>1, <3>3, <3>4, <3>6
    <3>8. /\ new = [path |-> new.path, parameters |-> new.parameters, contentTypes |-> new.contentTypes]
          /\ new.path = segments /\ new.parameters = list /\ new.contentTypes = old.contentTypes
      OBVIOUS
    <3> HIDE DEF new
    <3>9. "application/x-zserio-object" \in new.contentTypes <=> \E k \in 1 .. n : ss[k].location = "body"
      BY <2>1, <2>2, <2>4, <3>8
    <3>10. \A k \in 1 .. n : ss[k].location = "path" => Slot(ss[k].name) \in Range(new.path)
      BY <2>1, <2>2, <3>2, <3>8
    <3>11. /\ \A p \in Range(new.parameters) :
                \E k \in 1 .. n : ss[k].location # "body" /\ p = ParameterNode(ss[k])
           /\ \A k \in 1 .. n : ss[k].location # "body" => ParameterNode(ss[k]) \in Range(new.parameters)
      BY <2>1, <2>2, <2>4, <3>3, <3>5, <3>8
    <3>12. IsMade(new, n)
      BY <3>2, <3>3, <3>7, <3>8, <3>9, <3>10, <3>11
    <3> QED BY <3>1, <3>12
  <2> QED BY <2>3, <2>4
<1>7. IsMade(W[N], N)
  <2> HIDE DEF IsMade
  <2>1. 0 \in Good
    BY <1>2, <1>5
  <2>2. \A n \in 1 .. N : n - 1 \in Good => n \in Good
    BY <1>2, <1>6
  <2>3. \A n \in 0 .. N : n \in Good
    <3> HIDE DEF Good
    <3> QED BY <1>2, <2>1, <2>2, Upward
  <2> QED BY <1>2, <2>3
<1>8. \A s : s \in Range(ss) <=> \E k \in 1 .. N : s = ss[k]
  BY <1>2 DEF Range
<1> DEFINE made == W[N]
<1>9. Range(made.parameters) = {ParameterNode(s) : s \in InRequest(ss)}
  BY <1>7, <1>8 DEF InRequest
<1>10. "application/x-zserio-object" \in made.contentTypes <=> ForBody(ss) # {}
  BY <1>7, <1>8 DEF ForBody
<1> QED BY <1>4, <1>7, <1>8, <1>9, <1>10 DEF ss

-----------------------------------------------------------------------------
(* What the parser makes of an operation.                                  *)

IsPathRecord(p) ==
  p = [path |-> p.path, httpMethod |-> p.httpMethod, parameters |-> p.parameters,
       bodyRequestObject |-> p.bodyRequestObject, security |-> p.security]

IsConfig(c) ==
  c = [servers |-> c.servers, methodPath |-> c.methodPath, securitySchemes |-> c.securitySchemes,
       defaultSecurityScheme |-> c.defaultSecurityScheme]

\* A parameter whose name is new is read as its node says.
LEMMA ParameterRead ==
  ASSUME NEW path, NEW node, node.part # Absent, node.name \notin DOMAIN path.parameters,
         ~ ParameterThrows(node, path)
  PROVE  ParseMethodParameter(path, node)
           = [path EXCEPT !.parameters = Put(@, node.name, ParameterAsWritten(node))]
<1> DEFINE in == IF node.in = Absent THEN "query" ELSE node.in
           p  == Located(node, path)
           q  == ParseParameterSchema(node.schema, p)
           r  == ParseParameterStyle(node.style, q)
           s  == ParseParameterExplode(node.explode, r)
<1>1. p = [ident |-> node.name, field |-> node.part, location |-> in, format |-> "string",
           style |-> "simple", explode |-> FALSE]
  BY DEF Located, NewParameter, ParseParameterLocation
<1>2. /\ ~ SchemaThrows(node.schema)
      /\ ~ StyleThrows(node.style, p)
  BY DEF ParameterThrows
<1>3. p.location = in
  BY <1>1
<1> HIDE DEF p
<1>4. q = [ident |-> node.name, field |-> node.part, location |-> in, format |-> FormatNamed(node.schema),
           style |-> "simple", explode |-> FALSE]
  BY <1>1, <1>2 DEF ParseParameterSchema, SchemaThrows, FormatNamed, Absent
<1> DEFINE style == IF in # "path" THEN "form"
                    ELSE IF node.style \in {"label", "matrix"} THEN node.style ELSE "simple"
<1> HIDE DEF q
<1>5. style = IF node.style \in {"matrix", "label", "simple", "form"} THEN node.style
              ELSE IF in = "path" THEN "simple" ELSE "form"
  BY <1>2, <1>3 DEF StyleThrows
<1>6. r = [ident |-> node.name, field |-> node.part, location |-> in, format |-> FormatNamed(node.schema),
           style |-> style, explode |-> in = "query"]
  <2> HIDE DEF style, in
  <2>1. q.location = in
    BY <1>4
  <2>2. r = [q EXCEPT !.style = style, !.explode = in = "query"]
    BY <1>5, <2>1, Zenon DEF ParseParameterStyle
  <2> DEFINE implicit == in = "query"
             format   == FormatNamed(node.schema)
  <2>3. r = [q EXCEPT !.style = style, !.explode = implicit]
    BY <2>2
  <2> HIDE DEF implicit, format, r
  <2>4. r = [ident |-> node.name, field |-> node.part, location |-> in, format |-> format,
             style |-> style, explode |-> implicit]
    BY <1>4, <2>3 DEF format
  <2> QED BY <2>4 DEF implicit, format
<1>7. s = ParameterAsWritten(node)
  <2> DEFINE implicit == in = "query"
             explicit == node.explode = "true"
             format   == FormatNamed(node.schema)
  <2>1. ParameterAsWritten(node)
          = [ident |-> node.name, field |-> node.part, location |-> in, format |-> format,
             style |-> style, explode |-> IF node.explode = Absent THEN implicit ELSE explicit]
    BY DEF ParameterAsWritten
  <2>2. r = [ident |-> node.name, field |-> node.part, location |-> in, format |-> format,
             style |-> style, explode |-> implicit]
    BY <1>6
  <2>3. s = IF node.explode = Absent THEN r ELSE [r EXCEPT !.explode = explicit]
    BY DEF ParseParameterExplode
  <2> HIDE DEF implicit, explicit, format, style, in, r, s
  <2> QED BY <2>1, <2>2, <2>3
<1> QED BY <1>7 DEF ParseMethodParameter, p, q

PartsOf(nodes) == {i \in DOMAIN nodes : nodes[i].part # Absent}

NamesOf(nodes) == {nodes[i].name : i \in PartsOf(nodes)}

DifferentNames(nodes) == \A i, j \in PartsOf(nodes) : nodes[i].name = nodes[j].name => i = j

ReadsParameters(parameters, nodes) ==
  /\ DOMAIN parameters = NamesOf(nodes)
  /\ \A i \in PartsOf(nodes) : parameters[nodes[i].name] = ParameterAsWritten(nodes[i])

\* Parameters of different names are read as their nodes say.
LEMMA ParametersRead ==
  ASSUME NEW path, IsPathRecord(path), DOMAIN path.parameters = {},
         NEW nodes, IsSequence(nodes), DifferentNames(nodes),
         \A i \in DOMAIN nodes : ~ ParameterThrows(nodes[i], WithParameters(path, nodes)[i - 1])
  PROVE  LET read == WithParameters(path, nodes)[Len(nodes)]
         IN  /\ read = [path EXCEPT !.parameters = read.parameters]
             /\ ReadsParameters(read.parameters, nodes)
<1> DEFINE N == Len(nodes)
           W == WithParameters(path, nodes)
           Upto(n) == {i \in 1 .. n : nodes[i].part # Absent}
           IsRead(w, n) ==
             /\ w = [path EXCEPT !.parameters = w.parameters]
             /\ DOMAIN w.parameters = {nodes[i].name : i \in Upto(n)}
             /\ \A i \in Upto(n) : w.parameters[nodes[i].name] = ParameterAsWritten(nodes[i])
           Good == {n \in 0 .. N : IsRead(W[n], n)}
<1>1. N \in Nat /\ DOMAIN nodes = 1 .. N
  BY DEF IsSequence
<1>2. W[0] = path /\ \A n \in 1 .. N : W[n] = ParseMethodParameter(W[n - 1], nodes[n])
  BY <1>1, WithParametersSteps
<1>3. \A n \in 1 .. N : ~ ParameterThrows(nodes[n], W[n - 1])
  BY <1>1
<1> HIDE DEF W, N
<1>4. IsRead(W[0], 0)
  BY <1>2 DEF IsPathRecord
<1>5. ASSUME NEW n \in 1 .. N, IsRead(W[n - 1], n - 1)
      PROVE  IsRead(W[n], n)
  <2> DEFINE old  == W[n - 1]
             node == nodes[n]
  <2>1. IsRead(old, n - 1) /\ W[n] = ParseMethodParameter(old, node) /\ ~ ParameterThrows(node, old)
    BY <1>2, <1>3, <1>5
  <2>2. node = nodes[n]
    OBVIOUS
  <2> HIDE DEF old, node
  <2>3. CASE node.part = Absent
    <3>1. W[n] = old
      BY <2>1, <2>3 DEF ParseMethodParameter
    <3>2. Upto(n) = Upto(n - 1)
      BY <1>1, <2>2, <2>3
    <3> HIDE DEF Upto
    <3> QED BY <2>1, <3>1, <3>2
  <2>4. CASE node.part # Absent
    <3>1. Upto(n) = Upto(n - 1) \union {n} /\ n \notin Upto(n - 1)
      BY <1>1, <2>2, <2>4
    <3>2. Upto(n) \subseteq PartsOf(nodes)
      BY <1>1 DEF PartsOf
    <3> HIDE DEF Upto
    <3>3. \A i \in Upto(n - 1) : nodes[i].name # node.name
      BY <2>2, <3>1, <3>2 DEF DifferentNames
    <3>4. node.name \notin DOMAIN old.parameters
      BY <2>1, <3>3
    <3> DEFINE written == ParameterAsWritten(node)
               new     == Put(old.parameters, node.name, written)
    <3>5. W[n] = [old EXCEPT !.parameters = new]
      BY <2>1, <2>4, <3>4, ParameterRead
    <3>6. /\ DOMAIN new = DOMAIN old.parameters \union {node.name}
          /\ new[node.name] = written
          /\ \A x \in DOMAIN old.parameters : x # node.name => new[x] = old.parameters[x]
      BY DEF Put
    <3> HIDE DEF new
    <3>7. W[n] = [path EXCEPT !.parameters = new] /\ W[n].parameters = new
      BY <2>1, <3>5 DEF IsPathRecord
    <3>8. DOMAIN new = {nodes[i].name : i \in Upto(n)}
      BY <2>1, <2>2, <3>1, <3>6
    <3>9. \A i \in Upto(n) : new[nodes[i].name] = ParameterAsWritten(nodes[i])
      BY <2>1, <2>2, <3>1, <3>3, <3>6
    <3> QED BY <3>7, <3>8, <3>9
  <2> QED BY <2>3, <2>4
<1>6. IsRead(W[N], N)
  <2> HIDE DEF IsRead
  <2>1. 0 \in Good
    BY <1>1, <1>4
  <2>2. \A n \in 1 .. N : n - 1 \in Good => n \in Good
    BY <1>1, <1>5
  <2>3. \A n \in 0 .. N : n \in Good
    <3> HIDE DEF Good
    <3> QED BY <1>1, <2>1, <2>2, Upward
  <2> QED BY <1>1, <2>3
<1>7. Upto(N) = PartsOf(nodes)
  BY <1>1 DEF PartsOf
<1> HIDE DEF Upto
<1> QED BY <1>6, <1>7 DEF ReadsParameters, NamesOf, W, N

HasBody(node) == "application/x-zserio-object" \in node.contentTypes

\* What the parser has of an operation is what it says.
IsAsWritten(read, o, c) ==
  /\ read.path = o.path /\ read.httpMethod = UpperCase[o.method]
  /\ read.bodyRequestObject = HasBody(o.node)
  /\ ReadsParameters(read.parameters, o.node.parameters)
  /\ read.security = IF o.node.security = << >> THEN << >> ELSE <<ParseSecurity(o.node.security[1], c)>>

\* No other operation has its operationId, and no two of its parameters have one name.
IsSole(ops, o) ==
  /\ \A p \in ops : p.node.operationId = o.node.operationId => p = o
  /\ DifferentNames(o.node.parameters)

\* All operations in done have been read.
HasRead(c, ops, done) ==
  /\ DOMAIN c.methodPath = {o.node.operationId : o \in done}
  /\ \A o \in done : IsSole(ops, o) => IsAsWritten(c.methodPath[o.node.operationId], o, c)

OperationAt(item, method) == [path |-> item.path, method |-> method, node |-> item.methods[method]]

\* A method is read under its operationId, and nothing else changes.
LEMMA MethodChanges ==
  ASSUME NEW c, IsConfig(c), NEW item, NEW method \in DOMAIN item.methods
  PROVE  LET d  == ParseMethod(method, item, c)
             id == item.methods[method].operationId
         IN  /\ IsConfig(d) /\ d.securitySchemes = c.securitySchemes
             /\ DOMAIN d.methodPath = DOMAIN c.methodPath \union {id}
             /\ \A x \in DOMAIN c.methodPath : x # id => d.methodPath[x] = c.methodPath[x]
<1> DEFINE node    == item.methods[method]
           filled  == WithParameters(Named(method, item, c), node.parameters)[Len(node.parameters)]
           guarded == IF node.security = << >> THEN filled
                      ELSE [filled EXCEPT !.security = <<ParseSecurity(node.security[1], c)>>]
           read    == ParseMethodBody(node, guarded)
           d       == ParseMethod(method, item, c)
<1>1. d = [c EXCEPT !.methodPath = Put(@, node.operationId, read)]
  BY DEF ParseMethod
<1> HIDE DEF node, read, d
<1>2. /\ IsConfig(d) /\ d.securitySchemes = c.securitySchemes
      /\ d.methodPath = Put(c.methodPath, node.operationId, read)
  BY <1>1 DEF IsConfig
<1> QED BY <1>2 DEF Put, d, node

\* A method that is the first with its operationId is read as it says.
LEMMA MethodRead ==
  ASSUME NEW c, IsConfig(c), NEW item, NEW method \in DOMAIN item.methods,
         ~ MethodThrows(method, item, c),
         IsSequence(item.methods[method].parameters), DifferentNames(item.methods[method].parameters),
         item.methods[method].operationId \notin DOMAIN c.methodPath
  PROVE  LET d == ParseMethod(method, item, c)
         IN  IsAsWritten(d.methodPath[item.methods[method].operationId], OperationAt(item, method), d)
<1> DEFINE node    == item.methods[method]
           nodes   == node.parameters
           first   == Named(method, item, c)
           filled  == WithParameters(first, nodes)[Len(nodes)]
           guard   == IF node.security = << >> THEN << >> ELSE <<ParseSecurity(node.security[1], c)>>
           guarded == IF node.security = << >> THEN filled
                      ELSE [filled EXCEPT !.security = <<ParseSecurity(node.security[1], c)>>]
           read    == ParseMethodBody(node, guarded)
           d       == ParseMethod(method, item, c)
<1>1. first = [path |-> item.path, httpMethod |-> UpperCase[method], parameters |-> << >>,
               bodyRequestObject |-> FALSE, security |-> << >>]
  <2>1. first = [NewPath EXCEPT !.path = item.path, !.httpMethod = UpperCase[method]]
    BY DEF Named
  <2> HIDE DEF first
  <2> QED BY <2>1 DEF NewPath
<1>2. \A i \in DOMAIN nodes : ~ ParameterThrows(nodes[i], WithParameters(first, nodes)[i - 1])
  BY DEF MethodThrows
<1>3. IsSequence(nodes) /\ DifferentNames(nodes)
  OBVIOUS
<1>4. d = [c EXCEPT !.methodPath = Put(@, node.operationId, read)]
  BY DEF ParseMethod
<1> HIDE DEF node, nodes, first
<1>5. IsPathRecord(first) /\ DOMAIN first.parameters = {}
  BY <1>1, ShortLists DEF IsPathRecord
<1>6. filled = [first EXCEPT !.parameters = filled.parameters] /\ ReadsParameters(filled.parameters, nodes)
  BY <1>2, <1>3, <1>5, ParametersRead
<1> HIDE DEF filled
<1>7. filled = [path |-> item.path, httpMethod |-> UpperCase[method], parameters |-> filled.parameters,
                bodyRequestObject |-> FALSE, security |-> << >>]
  BY <1>1, <1>6
<1>8. guarded = [path |-> item.path, httpMethod |-> UpperCase[method], parameters |-> filled.parameters,
                 bodyRequestObject |-> FALSE, security |-> guard]
  <2>1. CASE node.security = << >>
    BY <1>7, <2>1
  <2>2. CASE node.security # << >>
    <3> DEFINE alternatives == <<ParseSecurity(node.security[1], c)>>
    <3>1. guarded = [filled EXCEPT !.security = alternatives] /\ guard = alternatives
      BY <2>2
    <3> DEFINE ps == filled.parameters
               u  == UpperCase[method]
    <3>2. filled = [path |-> item.path, httpMethod |-> u, parameters |-> ps,
                    bodyRequestObject |-> FALSE, security |-> << >>]
      BY <1>7
    <3> HIDE DEF guarded, guard, alternatives, ps, u
    <3>3. guarded = [path |-> item.path, httpMethod |-> u, parameters |-> ps,
                     bodyRequestObject |-> FALSE, security |-> guard]
      BY <3>1, <3>2
    <3> QED BY <3>3 DEF ps, u
  <2> QED BY <2>1, <2>2
<1> HIDE DEF guard, guarded
<1> DEFINE has == HasBody(node)
<1>9. read = [guarded EXCEPT !.bodyRequestObject = has]
  <2>1. read = [guarded EXCEPT !.bodyRequestObject = guarded.bodyRequestObject \/ has]
    BY DEF ParseMethodBody, HasBody
  <2>2. guarded.bodyRequestObject = FALSE
    BY <1>8
  <2>3. (guarded.bodyRequestObject \/ has) = has
    <3>1. (FALSE \/ has) = has
      BY SMT DEF HasBody
    <3> HIDE DEF has
    <3> QED BY <2>2, <3>1, Zenon
  <2> HIDE DEF read, has
  <2> QED BY <2>1, <2>3
<1> HIDE DEF has, read
<1>10. /\ read.path = item.path /\ read.httpMethod = UpperCase[method] /\ read.bodyRequestObject = has
       /\ read.parameters = filled.parameters /\ read.security = guard
  BY <1>8, <1>9
<1> HIDE DEF d
<1>11. d.methodPath[node.operationId] = read /\ d.securitySchemes = c.securitySchemes
  BY <1>4 DEF IsConfig, Put
<1>12. \A s : ParseSecurity(s, c) = ParseSecurity(s, d)
  BY <1>11 DEF ParseSecurity
<1> DEFINE o == OperationAt(item, method)
<1>13. o.path = item.path /\ o.method = method /\ o.node = node /\ o.node.parameters = nodes
  BY DEF OperationAt, node, nodes
<1> HIDE DEF o
<1>14. IsAsWritten(read, o, d)
  BY <1>6, <1>10, <1>12, <1>13 DEF IsAsWritten, guard, has
<1> QED BY <1>11, <1>14 DEF node, o, d

\* One operation more has been read.
LEMMA OperationRead ==
  ASSUME NEW ops, NEW done \in SUBSET ops, NEW c, IsConfig(c), HasRead(c, ops, done),
         NEW item, NEW method \in DOMAIN item.methods, ~ MethodThrows(method, item, c),
         IsSequence(item.methods[method].parameters),
         OperationAt(item, method) \in ops, OperationAt(item, method) \notin done
  PROVE  LET d == ParseMethod(method, item, c)
         IN  /\ IsConfig(d) /\ d.securitySchemes = c.securitySchemes
             /\ HasRead(d, ops, done \union {OperationAt(item, method)})
<1> DEFINE d  == ParseMethod(method, item, c)
           o  == OperationAt(item, method)
           id == item.methods[method].operationId
<1>1. /\ IsConfig(d) /\ d.securitySchemes = c.securitySchemes
      /\ DOMAIN d.methodPath = DOMAIN c.methodPath \union {id}
      /\ \A x \in DOMAIN c.methodPath : x # id => d.methodPath[x] = c.methodPath[x]
  BY MethodChanges
<1>2. o.node = item.methods[method] /\ o.node.operationId = id
  BY DEF OperationAt
<1>3. ASSUME IsSole(ops, o)
      PROVE  IsAsWritten(d.methodPath[id], o, d)
  <2>1. id \notin DOMAIN c.methodPath
    <3> HIDE DEF o, id
    <3> QED BY <1>2, <1>3 DEF HasRead, IsSole, o
  <2>2. DifferentNames(item.methods[method].parameters)
    BY <1>2, <1>3 DEF IsSole
  <2> HIDE DEF DifferentNames
  <2> QED BY <2>1, <2>2, MethodRead
<1> HIDE DEF d, o, id
<1>4. \A s : ParseSecurity(s, c) = ParseSecurity(s, d)
  BY <1>1 DEF ParseSecurity
<1>5. ASSUME NEW p \in done, IsSole(ops, p)
      PROVE  IsAsWritten(d.methodPath[p.node.operationId], p, d)
  <2>1. p.node.operationId \in DOMAIN c.methodPath
    BY DEF HasRead
  <2>2. o \in ops /\ p # o
    BY DEF o
  <2>3. p.node.operationId # id
    BY <1>2, <1>5, <2>2 DEF IsSole
  <2>4. IsAsWritten(c.methodPath[p.node.operationId], p, c)
    BY <1>5 DEF HasRead
  <2>5. d.methodPath[p.node.operationId] = c.methodPath[p.node.operationId]
    BY <1>1, <2>1, <2>3
  <2> QED BY <1>4, <2>4, <2>5 DEF IsAsWritten
<1>6. DOMAIN d.methodPath = {p.node.operationId : p \in done \union {o}}
  BY <1>1, <1>2 DEF HasRead
<1>7. HasRead(d, ops, done \union {o})
  BY <1>2, <1>3, <1>5, <1>6 DEF HasRead
<1> QED BY <1>1, <1>7 DEF d, o

OperationsAt(item) == {OperationAt(item, m) : m \in DOMAIN item.methods \intersect DOMAIN UpperCase}

\* All operations at a path have been read.
LEMMA ItemRead ==
  ASSUME NEW ops, NEW done \in SUBSET ops, NEW c, IsConfig(c), HasRead(c, ops, done),
         NEW item, ~ PathThrows(item, c),
         \A m \in DOMAIN item.methods : IsSequence(item.methods[m].parameters),
         OperationsAt(item) \subseteq ops, OperationsAt(item) \intersect done = {}
  PROVE  LET d == WithMethods(item, c)[Len(SupportedMethods)]
         IN  IsConfig(d) /\ HasRead(d, ops, done \union OperationsAt(item))
<1> DEFINE N == Len(SupportedMethods)
           W == WithMethods(item, c)
           Upto(n) == {OperationAt(item, m) :
                         m \in DOMAIN item.methods \intersect {SupportedMethods[i] : i \in 1 .. n}}
           IsRead(d, n) == IsConfig(d) /\ HasRead(d, ops, done \union Upto(n))
           Good == {n \in 0 .. N : IsRead(W[n], n)}
<1>1. N = 4 /\ DOMAIN SupportedMethods = 1 .. N
  BY DEF SupportedMethods
<1>2. {SupportedMethods[i] : i \in 1 .. N} = DOMAIN UpperCase
  BY DEF SupportedMethods, UpperCase
<1>3. \A i, j \in 1 .. N : SupportedMethods[i] = SupportedMethods[j] => i = j
  BY DEF SupportedMethods
<1>4. W[0] = c /\ \A n \in 1 .. N : W[n] = ParseMethod(SupportedMethods[n], item, W[n - 1])
  BY WithMethodsSteps
<1>5. \A n \in 1 .. N : ~ MethodThrows(SupportedMethods[n], item, W[n - 1])
  BY <1>1 DEF PathThrows
<1>6. Upto(N) = OperationsAt(item)
  BY <1>2 DEF OperationsAt
<1>7. IsRead(W[0], 0)
  <2>1. Upto(0) = {}
    OBVIOUS
  <2>2. done \union Upto(0) = done
    BY <2>1
  <2> HIDE DEF W, Upto
  <2> QED BY <1>4, <2>2
<1> HIDE DEF W, N
<1>8. ASSUME NEW n \in 1 .. N, IsRead(W[n - 1], n - 1)
      PROVE  IsRead(W[n], n)
  <2> DEFINE m   == SupportedMethods[n]
             old == W[n - 1]
  <2>1. /\ IsRead(old, n - 1) /\ W[n] = ParseMethod(m, item, old) /\ ~ MethodThrows(m, item, old)
    BY <1>4, <1>5, <1>8
  <2>2. 1 .. n = 1 .. n - 1 \union {n}
    BY <1>1
  <2>3. {SupportedMethods[i] : i \in 1 .. n} = {SupportedMethods[i] : i \in 1 .. n - 1} \union {m}
    BY <2>2
  <2>4. m \notin {SupportedMethods[i] : i \in 1 .. n - 1}
    BY <1>1, <1>3
  <2> HIDE DEF old, m
  <2>5. CASE m \notin DOMAIN item.methods
    <3>1. W[n] = old
      BY <2>1, <2>5 DEF ParseMethod
    <3>2. Upto(n) = Upto(n - 1)
      BY <2>3, <2>5
    <3> HIDE DEF Upto
    <3> QED BY <2>1, <3>1, <3>2
  <2>6. CASE m \in DOMAIN item.methods
    <3> DEFINE o == OperationAt(item, m)
    <3>1. Upto(n) = Upto(n - 1) \union {o}
      BY <2>3, <2>6
    <3>2. Upto(n) \subseteq OperationsAt(item)
      <4>1. {SupportedMethods[i] : i \in 1 .. n} \subseteq {SupportedMethods[i] : i \in 1 .. N}
        BY <1>1
      <4> QED BY <1>2, <4>1 DEF OperationsAt
    <3>3. o \notin Upto(n - 1)
      <4>1. o.method = m /\ \A x : OperationAt(item, x).method = x
        BY DEF OperationAt
      <4> HIDE DEF o
      <4> QED BY <2>4, <4>1
    <3> HIDE DEF Upto
    <3>4. o \in ops /\ o \notin done /\ done \union Upto(n - 1) \in SUBSET ops
      BY <3>1, <3>2
    <3>5. IsConfig(old) /\ HasRead(old, ops, done \union Upto(n - 1))
      BY <2>1
    <3>6. IsSequence(item.methods[m].parameters)
      BY <2>6
    <3>7. IsConfig(W[n]) /\ HasRead(W[n], ops, (done \union Upto(n - 1)) \union {o})
      <4> DEFINE before == done \union Upto(n - 1)
      <4>1. before \in SUBSET ops /\ o \notin before /\ HasRead(old, ops, before)
        BY <3>3, <3>4, <3>5
      <4> HIDE DEF before
      <4>2. IsConfig(W[n]) /\ HasRead(W[n], ops, before \union {o})
        BY <2>1, <2>6, <3>4, <3>5, <3>6, <4>1, OperationRead
      <4> QED BY <4>2 DEF before
    <3>8. (done \union Upto(n - 1)) \union {o} = done \union Upto(n)
      BY <3>1
    <3> QED BY <3>7, <3>8
  <2> QED BY <2>5, <2>6
<1>9. IsRead(W[N], N)
  <2> HIDE DEF IsRead
  <2>1. 0 \in Good
    BY <1>1, <1>7
  <2>2. \A n \in 1 .. N : n - 1 \in Good => n \in Good
    BY <1>1, <1>8
  <2>3. \A n \in 0 .. N : n \in Good
    <3> HIDE DEF Good
    <3> QED BY <1>1, <2>1, <2>2, Upward
  <2> QED BY <1>1, <2>3
<1> HIDE DEF Upto
<1> QED BY <1>6, <1>9 DEF W, N

-----------------------------------------------------------------------------
(* What the generator has after some entries and some methods.             *)

\* TagsFor after n entries.
Held(es, m, n) ==
  LET own  == {i \in 1 .. n : es[i].method = m}
      wild == {i \in 1 .. n : es[i].method = Wildcard /\ (own # {} => i <= Max(own))}
  IN  UNION {{<<i, j>> : j \in DOMAIN es[i].tags} :
             i \in IF own = {} THEN wild ELSE wild \union {Max(own)}}

PositionsOf(es, I) == UNION {{<<i, j>> : j \in DOMAIN es[i].tags} : i \in I}

WildEntries(es, n) == {i \in 1 .. n : es[i].method = Wildcard}

\* Without entries of its own, a method has the tags of all entries for the wildcard.
LEMMA HeldByWildcard ==
  ASSUME NEW es, NEW n \in Nat, NEW m,
         m = Wildcard \/ \A i \in 1 .. n : es[i].method # m
  PROVE  Held(es, m, n) = PositionsOf(es, WildEntries(es, n))
<1> DEFINE own  == {i \in 1 .. n : es[i].method = m}
           wild == {i \in 1 .. n : es[i].method = Wildcard /\ (own # {} => i <= Max(own))}
<1>1. CASE own = {}
  <2>1. wild = WildEntries(es, n)
    BY <1>1 DEF WildEntries
  <2> QED BY <1>1, <2>1 DEF Held, PositionsOf
<1>2. CASE own # {}
  <2>1. m = Wildcard
    BY <1>2
  <2>2. own \in SUBSET (0 .. n)
    OBVIOUS
  <2>3. Max(own) \in own /\ \A i \in own : i <= Max(own)
    <3> HIDE DEF own
    <3> QED BY <1>2, <2>2, GreatestNumber
  <2>4. own = WildEntries(es, n)
    BY <2>1 DEF WildEntries
  <2>5. wild = own
    BY <1>2, <2>1, <2>3
  <2>6. wild \union {Max(own)} = WildEntries(es, n)
    BY <2>3, <2>4, <2>5
  <2> QED BY <1>2, <2>6 DEF Held, PositionsOf
<1> QED BY <1>1, <1>2

\* An entry of a method replaces those it had, and other methods keep theirs.
LEMMA HeldAfterEntry ==
  ASSUME NEW es, NEW n \in Nat \ {0}, NEW m
  PROVE  /\ es[n].method = m =>
              Held(es, m, n) = Held(es, Wildcard, n - 1) \union {<<n, j>> : j \in DOMAIN es[n].tags}
         /\ es[n].method # m /\ (m = Wildcard \/ \E i \in 1 .. n - 1 : es[i].method = m) =>
              Held(es, m, n) = Held(es, m, n - 1)
         /\ \A at \in Held(es, Wildcard, n - 1) : at[1] \in Nat /\ at[1] < n
<1> DEFINE own(k)  == {i \in 1 .. k : es[i].method = m}
           wild(k) == {i \in 1 .. k : es[i].method = Wildcard /\ (own(k) # {} => i <= Max(own(k)))}
<1>1. Held(es, Wildcard, n - 1) = PositionsOf(es, WildEntries(es, n - 1))
  BY HeldByWildcard
<1>2. ASSUME es[n].method = m
      PROVE  Held(es, m, n) = Held(es, Wildcard, n - 1) \union {<<n, j>> : j \in DOMAIN es[n].tags}
  <2>1. own(n) \in SUBSET (0 .. n) /\ n \in own(n)
    BY <1>2
  <2>2. Max(own(n)) \in own(n) /\ \A i \in own(n) : i <= Max(own(n))
    <3> HIDE DEF own
    <3> QED BY <2>1, GreatestNumber
  <2>3. Max(own(n)) = n
    BY <2>1, <2>2
  <2>4. wild(n) \union {Max(own(n))} = WildEntries(es, n - 1) \union {n}
    <3>1. wild(n) = WildEntries(es, n)
      <4> HIDE DEF own
      <4> QED BY <2>3 DEF WildEntries
    <3>2. WildEntries(es, n) \union {n} = WildEntries(es, n - 1) \union {n}
      BY DEF WildEntries
    <3> QED BY <2>3, <3>1, <3>2
  <2>5. own(n) # {}
    BY <2>1
  <2>6. Held(es, m, n) = PositionsOf(es, WildEntries(es, n - 1) \union {n})
    BY <2>4, <2>5 DEF Held, PositionsOf
  <2>7. PositionsOf(es, WildEntries(es, n - 1) \union {n})
          = PositionsOf(es, WildEntries(es, n - 1)) \union {<<n, j>> : j \in DOMAIN es[n].tags}
    BY DEF PositionsOf
  <2> QED BY <1>1, <2>6, <2>7
<1>3. ASSUME es[n].method # m, m = Wildcard
      PROVE  Held(es, m, n) = Held(es, m, n - 1)
  <2>1. WildEntries(es, n) = WildEntries(es, n - 1)
    BY <1>3 DEF WildEntries
  <2> QED BY <1>3, <2>1, HeldByWildcard
<1>4. ASSUME es[n].method # m, NEW k \in 1 .. n - 1, es[k].method = m
      PROVE  Held(es, m, n) = Held(es, m, n - 1)
  <2>1. own(n) = own(n - 1) /\ own(n) # {} /\ own(n - 1) \in SUBSET (0 .. n - 1)
    BY <1>4
  <2>2. Max(own(n)) = Max(own(n - 1)) /\ Max(own(n - 1)) \in own(n - 1)
    <3> DEFINE X == own(n - 1)
    <3>1. X \in SUBSET (0 .. n - 1) /\ X # {} /\ n - 1 \in Nat /\ own(n) = X
      BY <2>1
    <3> HIDE DEF X
    <3>2. Max(X) \in X
      BY <3>1, GreatestNumber
    <3> QED BY <3>1, <3>2 DEF X
  <2>3. Max(own(n)) \in 1 .. n - 1
    BY <2>2
  <2>4. wild(n) = wild(n - 1)
    <3>1. \A i \in 1 .. n : i <= Max(own(n)) => i \in 1 .. n - 1
      BY <2>3
    <3>2. 1 .. n - 1 \subseteq 1 .. n
      OBVIOUS
    <3> HIDE DEF own
    <3> QED BY <2>1, <3>1, <3>2
  <2>5. wild(n) \union {Max(own(n))} = wild(n - 1) \union {Max(own(n - 1))}
    BY <2>2, <2>4
  <2>6. Held(es, m, n) = PositionsOf(es, wild(n) \union {Max(own(n))})
    BY <2>1 DEF Held, PositionsOf
  <2>7. Held(es, m, n - 1) = PositionsOf(es, wild(n - 1) \union {Max(own(n - 1))})
    BY <2>1 DEF Held, PositionsOf
  <2> QED BY <2>5, <2>6, <2>7
<1>5. \A at \in Held(es, Wildcard, n - 1) : at[1] \in Nat /\ at[1] < n
  BY <1>1 DEF PositionsOf, WildEntries
<1> QED BY <1>2, <1>3, <1>4, <1>5

\* What add_method_config_from_tags has made of the first n entries.
TagsRead(es, d, cs, n) ==
  /\ IsMethodConfig(d) /\ SumsUp(d, es, Held(es, Wildcard, n))
  /\ DOMAIN cs = {Wildcard} \union {es[i].method : i \in 1 .. n}
  /\ \A m \in DOMAIN cs : IsMethodConfig(cs[m]) /\ SumsUp(cs[m], es, Held(es, m, n))

\* One entry more has been read.
LEMMA EntryRead ==
  ASSUME NEW es, NEW n \in Nat \ {0}, IsTagList(es[n].tags), NEW d, NEW cs, TagsRead(es, d, cs, n - 1),
         ~ TagsRaise(es[n].tags, d, es[n].method)
  PROVE  LET new == ConfigFromTags(es[n].tags, d)
         IN  TagsRead(es, IF es[n].method = Wildcard THEN new ELSE d, Put(cs, es[n].method, new), n)
<1> DEFINE e    == es[n].method
           new  == ConfigFromTags(es[n].tags, d)
           wild == Held(es, Wildcard, n - 1)
           ds   == IF e = Wildcard THEN new ELSE d
           css  == Put(cs, e, new)
<1>1. \A at \in wild : at[1] \in Nat /\ at[1] < n
  BY HeldAfterEntry
<1>2. IsMethodConfig(d) /\ SumsUp(d, es, wild)
  BY DEF TagsRead
<1>3. IsMethodConfig(new) /\ SumsUp(new, es, wild \union {<<n, j>> : j \in DOMAIN es[n].tags})
  <2> HIDE DEF wild
  <2> QED BY <1>1, <1>2, EntrySumsUp
<1> HIDE DEF new
<1>4. SumsUp(new, es, Held(es, e, n))
  BY <1>3, HeldAfterEntry
<1>5. IsMethodConfig(ds) /\ SumsUp(ds, es, Held(es, Wildcard, n))
  <2>1. CASE e = Wildcard
    BY <1>3, <1>4, <2>1
  <2>2. CASE e # Wildcard
    <3>1. Held(es, Wildcard, n) = wild
      BY <2>2, HeldAfterEntry
    <3> QED BY <1>2, <2>2, <3>1
  <2> QED BY <2>1, <2>2
<1>6. DOMAIN css = DOMAIN cs \union {e} /\ css[e] = new /\ \A m \in DOMAIN cs : m # e => css[m] = cs[m]
  BY DEF Put
<1> HIDE DEF css
<1>7. DOMAIN css = {Wildcard} \union {es[i].method : i \in 1 .. n}
  <2>1. 1 .. n = 1 .. n - 1 \union {n}
    OBVIOUS
  <2>2. {es[i].method : i \in 1 .. n} = {es[i].method : i \in 1 .. n - 1} \union {e}
    BY <2>1
  <2> QED BY <1>6, <2>2 DEF TagsRead
<1>8. ASSUME NEW m \in DOMAIN css
      PROVE  IsMethodConfig(css[m]) /\ SumsUp(css[m], es, Held(es, m, n))
  <2>1. CASE m = e
    BY <1>3, <1>4, <1>6, <2>1
  <2>2. CASE m # e
    <3>1. m \in DOMAIN cs /\ css[m] = cs[m]
      BY <1>6, <2>2
    <3>2. m = Wildcard \/ \E i \in 1 .. n - 1 : es[i].method = m
      BY <3>1 DEF TagsRead
    <3>3. Held(es, m, n) = Held(es, m, n - 1)
      BY <2>2, <3>2, HeldAfterEntry
    <3> QED BY <3>1, <3>3 DEF TagsRead
  <2> QED BY <2>1, <2>2
<1> HIDE DEF ds
<1>9. TagsRead(es, ds, css, n)
  BY <1>5, <1>7, <1>8 DEF TagsRead
<1> QED BY <1>9 DEF ds, css, new

\* ConfigForMethod
ConfigFor(cs, m) == IF m \in DOMAIN cs THEN cs[m] ELSE cs[Wildcard]

\* A method's configuration says what its tags do.
LEMMA ConfigSumsUp ==
  ASSUME NEW es, NEW n \in Nat, NEW d, NEW cs, TagsRead(es, d, cs, n), NEW m
  PROVE  IsMethodConfig(ConfigFor(cs, m)) /\ SumsUp(ConfigFor(cs, m), es, Held(es, m, n))
<1>1. CASE m \in DOMAIN cs
  BY <1>1 DEF ConfigFor, TagsRead
<1>2. CASE m \notin DOMAIN cs
  <2>1. \A i \in 1 .. n : es[i].method # m
    BY <1>2 DEF TagsRead
  <2>2. Held(es, m, n) = Held(es, Wildcard, n)
    BY <2>1, HeldByWildcard
  <2> QED BY <1>2, <2>2 DEF ConfigFor, TagsRead
<1> QED BY <1>1, <1>2

Made(cs, k) == ItemOf(ConfigFor(cs, Methods[k]), Methods[k])

\* Of the first n methods, none after the k-th is at its path.
IsLast(cs, k, n) == \A l \in k + 1 .. n : Made(cs, l).path # Made(cs, k).path

\* What generate has made of the first n methods.
MethodsMade(cs, paths, n) ==
  /\ IsSequence(paths)
  /\ \A i, j \in DOMAIN paths : paths[i].path = paths[j].path => i = j
  /\ \A i \in DOMAIN paths : \E k \in 1 .. n : IsLast(cs, k, n) /\ paths[i] = Made(cs, k)
  /\ \A k \in 1 .. n : \E i \in DOMAIN paths : paths[i].path = Made(cs, k).path

\* One method more is in the document.
LEMMA MethodMade ==
  ASSUME NEW cs, NEW paths, NEW n \in Nat \ {0}, MethodsMade(cs, paths, n - 1)
  PROVE  MethodsMade(cs, AddItem(paths, Made(cs, n)), n)
<1> DEFINE item == Made(cs, n)
           new  == AddItem(paths, item)
           N    == Len(paths)
<1>1. N \in Nat /\ DOMAIN paths = 1 .. N
  BY DEF MethodsMade, IsSequence
<1>2. /\ \A k \in 1 .. n : k \in 1 .. n - 1 \/ k = n
      /\ \A k \in 1 .. n - 1 : k \in 1 .. n
      /\ n \in 1 .. n /\ IsLast(cs, n, n)
  BY DEF IsLast
<1>3. ASSUME NEW k \in 1 .. n - 1, IsLast(cs, k, n - 1), Made(cs, k).path # item.path
      PROVE  IsLast(cs, k, n)
  <2>1. \A l \in k + 1 .. n : l \in k + 1 .. n - 1 \/ l = n
    OBVIOUS
  <2> QED BY <1>3, <2>1 DEF IsLast
<1> HIDE DEF item, N
<1>4. CASE \A i \in DOMAIN paths : paths[i].path # item.path
  <2>1. new = Append(paths, item)
    BY <1>4 DEF AddItem
  <2>2. /\ IsSequence(new) /\ DOMAIN new = 1 .. N + 1
        /\ new[N + 1] = item /\ \A i \in 1 .. N : new[i] = paths[i]
    BY <2>1, Appended DEF MethodsMade, N
  <2> HIDE DEF new
  <2>3. \A i \in 1 .. N + 1 : i \in 1 .. N \/ i = N + 1
    BY <1>1
  <2>4. \A i, j \in DOMAIN new : new[i].path = new[j].path => i = j
    BY <1>1, <1>4, <2>2, <2>3 DEF MethodsMade
  <2>5. \A i \in DOMAIN new : \E k \in 1 .. n : IsLast(cs, k, n) /\ new[i] = Made(cs, k)
    <3> TAKE i \in DOMAIN new
    <3>1. CASE i = N + 1
      BY <1>2, <2>2, <3>1 DEF item
    <3>2. CASE i \in 1 .. N
      <4>1. new[i] = paths[i] /\ i \in DOMAIN paths
        BY <1>1, <2>2, <3>2
      <4>2. PICK k \in 1 .. n - 1 : IsLast(cs, k, n - 1) /\ paths[i] = Made(cs, k)
        BY <4>1 DEF MethodsMade
      <4>3. IsLast(cs, k, n)
        BY <1>3, <1>4, <4>1, <4>2
      <4> QED BY <1>2, <4>1, <4>2, <4>3
    <3> QED BY <2>2, <2>3, <3>1, <3>2
  <2>6. \A k \in 1 .. n : \E i \in DOMAIN new : new[i].path = Made(cs, k).path
    <3> TAKE k \in 1 .. n
    <3>1. CASE k = n
      <4>1. N + 1 \in DOMAIN new
        BY <1>1, <2>2
      <4> QED BY <2>2, <3>1, <4>1 DEF item
    <3>2. CASE k \in 1 .. n - 1
      <4>1. PICK i \in DOMAIN paths : paths[i].path = Made(cs, k).path
        BY <3>2 DEF MethodsMade
      <4>2. i \in DOMAIN new /\ new[i] = paths[i]
        BY <1>1, <2>2
      <4> QED BY <4>1, <4>2
    <3> QED BY <1>2, <3>1, <3>2
  <2> QED BY <2>2, <2>4, <2>5, <2>6 DEF MethodsMade, new, item
<1>5. CASE ~ \A i \in DOMAIN paths : paths[i].path # item.path
  <2>1. new = [i \in DOMAIN paths |-> IF paths[i].path = item.path THEN item ELSE paths[i]]
    BY <1>5 DEF AddItem
  <2> HIDE DEF new
  <2>2. /\ DOMAIN new = 1 .. N
        /\ \A i \in 1 .. N : /\ new[i].path = paths[i].path
                             /\ new[i] = IF paths[i].path = item.path THEN item ELSE paths[i]
    BY <1>1, <2>1
  <2>3. IsSequence(new)
    <3>1. new = [i \in 1 .. N |-> new[i]] /\ \A i \in 1 .. N : new[i] \in Range(new)
      BY <1>1, <2>1, <2>2 DEF Range
    <3> QED BY <1>1, <3>1, SeqDef DEF IsSequence
  <2>4. \A i, j \in DOMAIN new : new[i].path = new[j].path => i = j
    BY <1>1, <2>2 DEF MethodsMade
  <2>5. \A i \in DOMAIN new : \E k \in 1 .. n : IsLast(cs, k, n) /\ new[i] = Made(cs, k)
    <3> TAKE i \in DOMAIN new
    <3>1. CASE paths[i].path = item.path
      BY <1>2, <2>2, <3>1 DEF item
    <3>2. CASE paths[i].path # item.path
      <4>1. new[i] = paths[i] /\ i \in DOMAIN paths
        BY <1>1, <2>2, <3>2
      <4>2. PICK k \in 1 .. n - 1 : IsLast(cs, k, n - 1) /\ paths[i] = Made(cs, k)
        BY <4>1 DEF MethodsMade
      <4>3. IsLast(cs, k, n)
        BY <1>3, <3>2, <4>2
      <4> QED BY <1>2, <4>1, <4>2, <4>3
    <3> QED BY <3>1, <3>2
  <2>6. \A k \in 1 .. n : \E i \in DOMAIN new : new[i].path = Made(cs, k).path
    <3> TAKE k \in 1 .. n
    <3>1. CASE k = n
      BY <1>1, <1>5, <2>2, <3>1 DEF item
    <3>2. CASE k \in 1 .. n - 1
      <4>1. PICK i \in DOMAIN paths : paths[i].path = Made(cs, k).path
        BY <3>2 DEF MethodsMade
      <4> QED BY <1>1, <2>2, <4>1
    <3> QED BY <1>2, <3>1, <3>2
  <2> QED BY <2>3, <2>4, <2>5, <2>6 DEF MethodsMade, new, item
<1> QED BY <1>4, <1>5

-----------------------------------------------------------------------------
(* The invariant.                                                          *)

\* The stages in which the generator is done, and those in which the parser is.
Reading == {"servers", "schemes", "security", "paths"}
Read    == {"parsed", "ready", "incomplete"}

\* The input is one of the instance; a written document is only read.
FromInput ==
  /\ pc \in {"tags", "methods", "failed"} \union Reading \union Read
  /\ next \in Nat \ {0}
  /\ Generated => base = <<base[1]>> /\ base[1] \in BaseConfigs /\ commandLine \in CommandLines
  /\ ~ Generated => document \in Written /\ pc \notin {"tags", "methods"}

\* The entries before the next one have been read.
TagsInvariant ==
  Generated /\ pc # "failed" =>
    /\ pc = "tags" => next <= Len(Entries) + 1
    /\ TagsRead(Entries, default, configs, IF pc = "tags" THEN next - 1 ELSE Len(Entries))

\* The methods before the next one are in the document.
MethodsInvariant ==
  Generated /\ pc # "failed" =>
    /\ document = [servers |-> document.servers, schemes |-> document.schemes,
                   security |-> document.security, paths |-> document.paths]
    /\ pc = "methods" => next <= Len(Methods) + 1
    /\ MethodsMade(configs, document.paths,
                   CASE pc = "tags" -> 0 [] pc = "methods" -> next - 1 [] OTHER -> Len(Methods))
    /\ pc \in Reading \union Read => ValidSpec

OperationsBefore(paths, n) == UNION {OperationsAt(paths[i]) : i \in 1 .. n}

\* The operations of the items before the next one have been read.
ParserInvariant ==
  /\ IsConfig(config)
  /\ pc \in {"tags", "methods", "servers", "schemes", "security"} => DOMAIN config.methodPath = {}
  /\ pc = "paths" => /\ next <= Len(document.paths) + 1
                     /\ HasRead(config, Operations, OperationsBefore(document.paths, next - 1))
  /\ pc \in Read => HasRead(config, Operations, Operations)
  /\ pc = "ready" => Range(Methods) \subseteq DOMAIN config.methodPath
  /\ pc = "incomplete" => ~ (Range(Methods) \subseteq DOMAIN config.methodPath)

Invariant == FromInput /\ TagsInvariant /\ MethodsInvariant /\ ParserInvariant

\* The entries are lists of tags.
LEMMA EntriesType ==
  ASSUME FromInput, Generated
  PROVE  /\ IsSequence(Entries) /\ Len(Entries) \in Nat /\ DOMAIN Entries = 1 .. Len(Entries)
         /\ \A i \in DOMAIN Entries : IsTagList(Entries[i].tags)
<1> DEFINE first  == [method |-> Wildcard, tags |-> base[1].default]
           second == base[1].methods
           U      == {first} \union Range(second) \union Range(commandLine)
<1>1. IsTagList(base[1].default) /\ IsEntryList(second) /\ IsEntryList(commandLine)
  BY InputAssumption DEF FromInput
<1>2. second \in Seq(Range(second)) /\ commandLine \in Seq(Range(commandLine))
  BY <1>1 DEF IsEntryList, IsSequence
<1>3. \A e \in U : IsTagList(e.tags)
  <2>1. \A e \in Range(second) \union Range(commandLine) : IsTagList(e.tags)
    BY <1>1 DEF IsEntryList, Range
  <2>2. first.tags = base[1].default
    OBVIOUS
  <2> HIDE DEF first, second
  <2> QED BY <1>1, <2>1, <2>2
<1>4. <<first>> \in Seq(U) /\ second \in Seq(U) /\ commandLine \in Seq(U)
  <2> HIDE DEF first, second
  <2> QED BY <1>2
<1>5. Entries = <<first>> \o second \o commandLine
  BY DEF Entries
<1> HIDE DEF first, second, U
<1>6. Entries \in Seq(U)
  BY <1>4, <1>5
<1>7. Len(Entries) \in Nat /\ DOMAIN Entries = 1 .. Len(Entries) /\ \A i \in DOMAIN Entries : Entries[i] \in U
  BY <1>6
<1>8. Entries \in Seq(Range(Entries))
  <2>1. /\ Entries = [i \in 1 .. Len(Entries) |-> Entries[i]]
        /\ \A i \in 1 .. Len(Entries) : Entries[i] \in Range(Entries)
    BY <1>6, <1>7 DEF Range
  <2> QED BY <1>7, <2>1, SeqDef
<1> QED BY <1>3, <1>7, <1>8 DEF IsSequence

\* A document that is read has one item for a path, and lists of parameters.
LEMMA DocumentType ==
  ASSUME Invariant, pc \in Reading \union Read
  PROVE  IsDocument(document)
<1>1. CASE ~ Generated
  BY <1>1, InputAssumption DEF Invariant, FromInput
<1>2. CASE Generated
  <2>1. pc \notin {"failed", "tags", "methods"}
    BY DEF Reading, Read
  <2>2. MethodsMade(configs, document.paths, Len(Methods))
    BY <1>2, <2>1 DEF Invariant, MethodsInvariant
  <2>3. Len(Entries) \in Nat /\ TagsRead(Entries, default, configs, Len(Entries))
    BY <1>2, <2>1, EntriesType DEF Invariant, TagsInvariant
  <2>4. ASSUME NEW i \in DOMAIN document.paths, NEW m \in DOMAIN document.paths[i].methods
        PROVE  IsSequence(document.paths[i].methods[m].parameters)
    <3>1. PICK k \in 1 .. Len(Methods) : document.paths[i] = Made(configs, k)
      BY <2>2 DEF MethodsMade
    <3> DEFINE c == ConfigFor(configs, Methods[k])
    <3>2. IsMethodConfig(c)
      BY <2>3, ConfigSumsUp
    <3> HIDE DEF c
    <3>3. document.paths[i] = ItemOf(c, Methods[k])
      BY <3>1 DEF Made, c
    <3>4. document.paths[i].methods[m].parameters = Processed(c, Methods[k]).parameters
      <4>1. document.paths[i].methods = [h \in {c.httpMethod} |-> OperationNode(c, Methods[k])]
        BY <3>3 DEF ItemOf
      <4>2. document.paths[i].methods[m] = OperationNode(c, Methods[k])
        BY <4>1
      <4>3. OperationNode(c, Methods[k]).parameters = Processed(c, Methods[k]).parameters
        BY DEF OperationNode
      <4> QED BY <4>2, <4>3
    <3>5. Methods[k] \in Range(Methods)
      BY ServiceLists DEF Range
    <3> QED BY <3>2, <3>4, <3>5, ProcessedType
  <2> QED BY <2>2, <2>4 DEF IsDocument, MethodsMade
<1> QED BY <1>1, <1>2

\* The operations of a document are those of its items.
LEMMA OperationsByItem ==
  /\ \A o : o \in Operations <=> \E i \in DOMAIN document.paths : o \in OperationsAt(document.paths[i])
  /\ \A i \in DOMAIN document.paths : OperationsAt(document.paths[i]) \subseteq Operations
BY DEF Operations, OperationsAt, OperationAt, Range

\* The invariant holds initially.
LEMMA InitInvariant ==
  ASSUME Init
  PROVE  Invariant
<1>1. CASE pc = "tags" /\ \E b \in BaseConfigs : base = <<b>>
  <2>1. PICK b \in BaseConfigs : base = <<b>>
    BY <1>1
  <2>2. Generated /\ base = <<base[1]>> /\ base[1] = b /\ pc = "tags" /\ next = 1
    BY <1>1, <2>1 DEF Generated, Init
  <2>3. commandLine \in CommandLines /\ document = [EmptyDocument EXCEPT !.servers = base[1].servers,
                                                                          !.schemes = base[1].schemes,
                                                                          !.security = base[1].security]
    BY <2>2 DEF Init
  <2>4. FromInput
    BY <2>1, <2>2, <2>3 DEF FromInput
  <2>5. IsSequence(Entries) /\ Len(Entries) \in Nat
    BY <2>2, <2>4, EntriesType
  <2>6. TagsRead(Entries, default, configs, 0)
    <3>1. default = NewMethodConfig /\ configs = [m \in {Wildcard} |-> NewMethodConfig]
      BY DEF Init
    <3>2. Held(Entries, Wildcard, 0) = {}
      <4>1. WildEntries(Entries, 0) = {}
        BY DEF WildEntries
      <4>2. PositionsOf(Entries, {}) = {}
        BY DEF PositionsOf
      <4> QED BY <4>1, <4>2, HeldByWildcard
    <3>3. SumsUp(NewMethodConfig, Entries, {})
      BY ShortLists DEF SumsUp, IsLastValue, OfKind, SpecifiersAt, NewMethodConfig
    <3> QED BY <3>1, <3>2, <3>3, NewMethodConfigType DEF TagsRead
  <2>7. MethodsMade(configs, document.paths, 0)
    <3>1. document.paths = << >>
      BY <2>3 DEF EmptyDocument
    <3> QED BY <3>1, ShortLists DEF MethodsMade
  <2>8. document = [servers |-> document.servers, schemes |-> document.schemes,
                    security |-> document.security, paths |-> document.paths]
    BY <2>3 DEF EmptyDocument
  <2>9. IsConfig(config) /\ DOMAIN config.methodPath = {}
    BY ShortLists DEF Init, NewConfig, IsConfig
  <2>10. TagsInvariant
    BY <2>2, <2>5, <2>6 DEF TagsInvariant
  <2>11. MethodsInvariant
    BY <2>2, <2>7, <2>8 DEF MethodsInvariant, Reading, Read
  <2>12. ParserInvariant
    BY <2>2, <2>9 DEF ParserInvariant, Read
  <2> QED BY <2>4, <2>10, <2>11, <2>12 DEF Invariant
<1>2. CASE pc = "servers" /\ base = << >> /\ document \in Written
  <2>1. ~ Generated
    BY <1>2 DEF Generated
  <2>2. FromInput
    BY <1>2, <2>1 DEF Init, FromInput, Reading
  <2>3. IsConfig(config) /\ DOMAIN config.methodPath = {}
    BY ShortLists DEF Init, NewConfig, IsConfig
  <2>4. ParserInvariant
    BY <1>2, <2>3 DEF ParserInvariant, Read
  <2> QED BY <2>1, <2>2, <2>4 DEF Invariant, TagsInvariant, MethodsInvariant
<1> QED BY <1>1, <1>2 DEF Init

\* A stage that fails ends the way of the document.
LEMMA FailKeepsInvariant ==
  ASSUME Invariant, Fail
  PROVE  Invariant'
<1>1. pc' = "failed" /\ UNCHANGED <<base, commandLine, next, default, configs, document, config>>
  BY DEF Fail
<1>2. FromInput'
  BY <1>1 DEF Invariant, FromInput, Generated
<1>3. ParserInvariant'
  BY <1>1 DEF Invariant, ParserInvariant, IsConfig, Read
<1> QED BY <1>1, <1>2, <1>3 DEF Invariant, TagsInvariant, MethodsInvariant

\* Reading an entry keeps the invariant.
LEMMA TagsKeepInvariant ==
  ASSUME Invariant, AddMethodConfigFromTags
  PROVE  Invariant'
<1> DEFINE e   == Entries[next]
           new == ConfigFromTags(e.tags, default)
<1>1. pc = "tags" /\ next \in DOMAIN Entries
  BY DEF AddMethodConfigFromTags
<1>2. CASE TagsRaise(e.tags, default, e.method)
  BY <1>2, FailKeepsInvariant DEF AddMethodConfigFromTags
<1>3. CASE ~ TagsRaise(e.tags, default, e.method)
  <2>1. /\ configs' = Put(configs, e.method, new)
        /\ default' = IF e.method = Wildcard THEN new ELSE default
        /\ next' = next + 1
        /\ UNCHANGED <<base, commandLine, pc, document, config>>
    BY <1>3 DEF AddMethodConfigFromTags
  <2>2. Generated /\ FromInput /\ next \in Nat \ {0} /\ pc # "failed"
    BY <1>1 DEF Invariant, FromInput
  <2>3. Entries' = Entries /\ Generated'
    BY <2>1, <2>2 DEF Entries, Generated
  <2>4. FromInput'
    BY <1>1, <2>1, <2>2 DEF FromInput, Generated
  <2>5. Len(Entries) \in Nat /\ next <= Len(Entries) /\ IsTagList(e.tags)
    BY <1>1, <2>2, EntriesType
  <2>6. TagsRead(Entries, default, configs, next - 1)
    BY <1>1, <2>2 DEF Invariant, TagsInvariant
  <2>7. TagsRead(Entries, default', configs', next)
    BY <1>3, <2>1, <2>2, <2>5, <2>6, EntryRead
  <2>8. TagsInvariant'
    <3>1. next' - 1 = next /\ next' <= Len(Entries) + 1
      BY <2>1, <2>2, <2>5
    <3> QED BY <1>1, <2>1, <2>3, <2>7, <3>1 DEF TagsInvariant
  <2>9. MethodsInvariant'
    <3>1. /\ document = [servers |-> document.servers, schemes |-> document.schemes,
                         security |-> document.security, paths |-> document.paths]
          /\ MethodsMade(configs, document.paths, 0)
      BY <1>1, <2>2 DEF Invariant, MethodsInvariant
    <3>2. MethodsMade(configs', document.paths, 0)
      <4>1. IsSequence(document.paths) /\ \A i \in DOMAIN document.paths : FALSE
        BY <3>1 DEF MethodsMade
      <4> QED BY <4>1 DEF MethodsMade
    <3> QED BY <1>1, <2>1, <3>1, <3>2 DEF MethodsInvariant, Reading, Read
  <2>10. ParserInvariant'
    BY <1>1, <2>1 DEF Invariant, ParserInvariant, IsConfig, Read
  <2> QED BY <2>4, <2>8, <2>9, <2>10 DEF Invariant
<1> QED BY <1>2, <1>3

\* So does going on to the methods.
LEMMA TagsDoneKeepsInvariant ==
  ASSUME Invariant, TagsDone
  PROVE  Invariant'
<1>1. /\ pc = "tags" /\ next > Len(Entries) /\ pc' = "methods" /\ next' = 1
      /\ UNCHANGED <<base, commandLine, default, configs, document, config>>
  BY DEF TagsDone, Advance
<1>2. Generated /\ FromInput /\ next \in Nat \ {0}
  BY <1>1 DEF Invariant, FromInput
<1>3. Entries' = Entries /\ Generated'
  BY <1>1, <1>2 DEF Entries, Generated
<1>4. FromInput'
  BY <1>1, <1>2 DEF FromInput, Generated
<1>5. Len(Entries) \in Nat
  BY <1>2, EntriesType
<1>6. TagsInvariant'
  <2>1. next <= Len(Entries) + 1 /\ TagsRead(Entries, default, configs, next - 1)
    BY <1>1, <1>2 DEF Invariant, TagsInvariant
  <2>2. next - 1 = Len(Entries)
    BY <1>1, <1>2, <1>5, <2>1
  <2> QED BY <1>1, <1>3, <2>1, <2>2 DEF TagsInvariant
<1>7. MethodsInvariant'
  <2>1. /\ document = [servers |-> document.servers, schemes |-> document.schemes,
                       security |-> document.security, paths |-> document.paths]
        /\ MethodsMade(configs, document.paths, 0)
    BY <1>1, <1>2 DEF Invariant, MethodsInvariant
  <2>2. 1 <= Len(Methods) + 1
    BY ServiceLists
  <2> QED BY <1>1, <2>1, <2>2 DEF MethodsInvariant, Reading, Read
<1>8. ParserInvariant'
  BY <1>1 DEF Invariant, ParserInvariant, IsConfig, Read
<1> QED BY <1>4, <1>6, <1>7, <1>8 DEF Invariant

\* Making a method keeps the invariant.
LEMMA ProcessKeepsInvariant ==
  ASSUME Invariant, ProcessMethod
  PROVE  Invariant'
<1> DEFINE m == Methods[next]
<1>1. pc = "methods" /\ next \in DOMAIN Methods
  BY DEF ProcessMethod
<1>2. CASE MethodRaises(ConfigForMethod(m), m)
  BY <1>2, FailKeepsInvariant DEF ProcessMethod
<1>3. CASE ~ MethodRaises(ConfigForMethod(m), m)
  <2>1. /\ document' = [document EXCEPT !.paths = AddItem(@, ItemOf(ConfigForMethod(m), m))]
        /\ next' = next + 1
        /\ UNCHANGED <<base, commandLine, pc, default, configs, config>>
    BY <1>3 DEF ProcessMethod
  <2>2. Generated /\ FromInput /\ next \in Nat \ {0}
    BY <1>1 DEF Invariant, FromInput
  <2>3. Entries' = Entries /\ Generated'
    BY <2>1, <2>2 DEF Entries, Generated
  <2>4. FromInput'
    BY <1>1, <2>1, <2>2 DEF FromInput, Generated
  <2>5. TagsInvariant'
    BY <1>1, <2>1, <2>2, <2>3 DEF Invariant, TagsInvariant
  <2>6. /\ document = [servers |-> document.servers, schemes |-> document.schemes,
                       security |-> document.security, paths |-> document.paths]
        /\ MethodsMade(configs, document.paths, next - 1)
    BY <1>1, <2>2 DEF Invariant, MethodsInvariant
  <2>7. ItemOf(ConfigForMethod(m), m) = Made(configs, next)
    BY DEF Made, ConfigFor, ConfigForMethod
  <2> DEFINE new == AddItem(document.paths, Made(configs, next))
  <2>8. MethodsMade(configs, new, next)
    BY <2>2, <2>6, MethodMade
  <2>9. document' = [document EXCEPT !.paths = new]
    BY <2>1, <2>7
  <2> HIDE DEF new
  <2>10. document' = [servers |-> document'.servers, schemes |-> document'.schemes,
                      security |-> document'.security, paths |-> document'.paths] /\ document'.paths = new
    BY <2>6, <2>9
  <2>11. MethodsInvariant'
    <3>1. next' - 1 = next /\ next' <= Len(Methods) + 1
      BY <1>1, <2>1, <2>2, ServiceLists
    <3> QED BY <1>1, <2>1, <2>8, <2>10, <3>1 DEF MethodsInvariant, Reading, Read
  <2>12. ParserInvariant'
    BY <1>1, <2>1 DEF Invariant, ParserInvariant, IsConfig, Read
  <2> QED BY <2>4, <2>5, <2>11, <2>12 DEF Invariant
<1> QED BY <1>2, <1>3

\* So does finishing the document.
LEMMA GenerateKeepsInvariant ==
  ASSUME Invariant, Generate
  PROVE  Invariant'
<1>1. CASE ~ ValidSpec
  BY <1>1, FailKeepsInvariant DEF Generate
<1>2. CASE ValidSpec
  <2>1. /\ pc = "methods" /\ next > Len(Methods) /\ pc' = "servers" /\ next' = 1
        /\ UNCHANGED <<base, commandLine, default, configs, document, config>>
    BY <1>2 DEF Generate, Advance
  <2>2. Generated /\ FromInput /\ next \in Nat \ {0}
    BY <2>1 DEF Invariant, FromInput
  <2>3. Entries' = Entries /\ Generated' /\ ValidSpec'
    BY <1>2, <2>1, <2>2 DEF Entries, Generated, ValidSpec
  <2>4. FromInput'
    BY <2>1, <2>2, <2>3 DEF FromInput, Reading
  <2>5. TagsInvariant'
    BY <2>1, <2>2, <2>3 DEF Invariant, TagsInvariant
  <2>6. /\ document = [servers |-> document.servers, schemes |-> document.schemes,
                       security |-> document.security, paths |-> document.paths]
        /\ next <= Len(Methods) + 1 /\ MethodsMade(configs, document.paths, next - 1)
    BY <2>1, <2>2 DEF Invariant, MethodsInvariant
  <2>7. MethodsInvariant'
    <3>1. next - 1 = Len(Methods)
      BY <2>1, <2>2, <2>6, ServiceLists
    <3> QED BY <2>1, <2>3, <2>6, <3>1 DEF MethodsInvariant
  <2>8. ParserInvariant'
    BY <2>1 DEF Invariant, ParserInvariant, IsConfig, Read
  <2> QED BY <2>4, <2>5, <2>7, <2>8 DEF Invariant
<1> QED BY <1>1, <1>2

\* Reading something that is no operation keeps the invariant.
LEMMA SectionKeepsInvariant ==
  ASSUME Invariant, pc \in {"servers", "schemes", "security"}, NEW new, Parsed(new),
         IsConfig(new), new.methodPath = config.methodPath
  PROVE  Invariant'
<1>1. config' = new /\ next' = next + 1 /\ UNCHANGED <<base, commandLine, pc, default, configs, document>>
  BY DEF Parsed
<1>2. FromInput /\ next' \in Nat \ {0}
  BY <1>1 DEF Invariant, FromInput
<1>3. FromInput'
  BY <1>1, <1>2 DEF FromInput, Generated
<1>4. Entries' = Entries /\ Generated' = Generated /\ ValidSpec' = ValidSpec
  BY <1>1 DEF Entries, Generated, ValidSpec
<1>5. TagsInvariant'
  BY <1>1, <1>4 DEF Invariant, TagsInvariant
<1>6. MethodsInvariant'
  BY <1>1, <1>4 DEF Invariant, MethodsInvariant
<1>7. ParserInvariant'
  BY <1>1 DEF Invariant, ParserInvariant, IsConfig, Read
<1> QED BY <1>3, <1>5, <1>6, <1>7 DEF Invariant

\* Reading a server keeps it, or fails.
LEMMA ServersKeepInvariant ==
  ASSUME Invariant, ParseServers
  PROVE  Invariant'
<1> DEFINE url == document.servers[next]
           new == ParseServer(url, config)
<1>1. CASE ServerThrows(url)
  BY <1>1, FailKeepsInvariant DEF ParseServers
<1>2. CASE ~ ServerThrows(url)
  <2>1. pc = "servers" /\ Parsed(new)
    BY <1>2 DEF ParseServers
  <2>2. IsConfig(new) /\ new.methodPath = config.methodPath
    BY DEF Invariant, ParserInvariant, ParseServer, IsConfig
  <2> HIDE DEF new
  <2> QED BY <2>1, <2>2, SectionKeepsInvariant
<1> QED BY <1>1, <1>2

\* So does reading a security scheme.
LEMMA SchemesKeepInvariant ==
  ASSUME Invariant, ParseSecuritySchemes
  PROVE  Invariant'
<1> DEFINE node == document.schemes[next]
           new  == ParseSecurityScheme(node, config)
<1>1. CASE SchemeThrows(node)
  BY <1>1, FailKeepsInvariant DEF ParseSecuritySchemes
<1>2. CASE ~ SchemeThrows(node)
  <2>1. pc = "schemes" /\ Parsed(new)
    BY <1>2 DEF ParseSecuritySchemes
  <2>2. IsConfig(new) /\ new.methodPath = config.methodPath
    BY DEF Invariant, ParserInvariant, ParseSecurityScheme, IsConfig
  <2> HIDE DEF new
  <2> QED BY <2>1, <2>2, SectionKeepsInvariant
<1> QED BY <1>1, <1>2

\* So does reading the security of the document.
LEMMA SecurityKeepsInvariant ==
  ASSUME Invariant, ParseDefaultSecurity
  PROVE  Invariant'
<1> DEFINE node == document.security[next]
           new  == [config EXCEPT !.defaultSecurityScheme = ParseSecurity(node, config)]
<1>1. CASE SecurityThrows(node, config)
  BY <1>1, FailKeepsInvariant DEF ParseDefaultSecurity
<1>2. CASE ~ SecurityThrows(node, config)
  <2>1. pc = "security" /\ Parsed(new)
    BY <1>2 DEF ParseDefaultSecurity
  <2>2. IsConfig(new) /\ new.methodPath = config.methodPath
    BY DEF Invariant, ParserInvariant, IsConfig
  <2> HIDE DEF new
  <2> QED BY <2>1, <2>2, SectionKeepsInvariant
<1> QED BY <1>1, <1>2

\* Reading the operations at a path keeps the invariant.
LEMMA PathsKeepInvariant ==
  ASSUME Invariant, ParsePaths
  PROVE  Invariant'
<1> DEFINE item == document.paths[next]
           new  == WithMethods(item, config)[Len(SupportedMethods)]
           done == OperationsBefore(document.paths, next - 1)
<1>1. pc = "paths" /\ next \in DOMAIN document.paths
  BY DEF ParsePaths
<1>2. CASE PathThrows(item, config)
  BY <1>2, FailKeepsInvariant DEF ParsePaths
<1>3. CASE ~ PathThrows(item, config)
  <2>1. config' = new /\ next' = next + 1 /\ UNCHANGED <<base, commandLine, pc, default, configs, document>>
    BY <1>3 DEF ParsePaths, Parsed
  <2>2. FromInput /\ next \in Nat \ {0}
    BY DEF Invariant, FromInput
  <2>3. FromInput'
    BY <1>1, <2>1, <2>2 DEF FromInput, Generated
  <2>4. Entries' = Entries /\ Generated' = Generated /\ ValidSpec' = ValidSpec /\ Operations' = Operations
    BY <2>1 DEF Entries, Generated, ValidSpec, Operations
  <2>5. TagsInvariant'
    BY <1>1, <2>1, <2>4 DEF Invariant, TagsInvariant
  <2>6. MethodsInvariant'
    BY <1>1, <2>1, <2>4 DEF Invariant, MethodsInvariant
  <2>7. IsDocument(document)
    BY <1>1, DocumentType DEF Reading
  <2>8. Len(document.paths) \in Nat /\ DOMAIN document.paths = 1 .. Len(document.paths)
    BY <2>7 DEF IsDocument, IsSequence
  <2>9. IsConfig(config) /\ HasRead(config, Operations, done)
    BY <1>1 DEF Invariant, ParserInvariant
  <2>10. done \in SUBSET Operations /\ OperationsAt(item) \subseteq Operations
    <3>1. \A i \in 1 .. next - 1 : i \in DOMAIN document.paths
      BY <1>1, <2>2, <2>8
    <3> QED BY <1>1, <3>1, OperationsByItem DEF OperationsBefore
  <2>11. OperationsAt(item) \intersect done = {}
    <3>1. ASSUME NEW i \in 1 .. next - 1
          PROVE  document.paths[i].path # item.path
      <4>1. i \in DOMAIN document.paths /\ i # next
        BY <1>1, <2>2, <2>8
      <4> QED BY <1>1, <2>7, <4>1 DEF IsDocument
    <3>2. \A x : \A o \in OperationsAt(x) : o.path = x.path
      BY DEF OperationsAt, OperationAt
    <3> HIDE DEF item
    <3> QED BY <3>1, <3>2 DEF OperationsBefore
  <2>12. \A m \in DOMAIN item.methods : IsSequence(item.methods[m].parameters)
    BY <1>1, <2>7 DEF IsDocument
  <2>13. OperationsBefore(document.paths, next) = done \union OperationsAt(item)
    <3>1. 1 .. next = 1 .. next - 1 \union {next}
      BY <2>2
    <3>2. \A o : o \in OperationsBefore(document.paths, next) <=>
                    \E i \in 1 .. next : o \in OperationsAt(document.paths[i])
      BY DEF OperationsBefore
    <3>3. \A o : o \in done <=> \E i \in 1 .. next - 1 : o \in OperationsAt(document.paths[i])
      BY DEF OperationsBefore
    <3> HIDE DEF done
    <3> QED BY <3>1, <3>2, <3>3
  <2> HIDE DEF item, done
  <2>14. IsConfig(new) /\ HasRead(new, Operations, done \union OperationsAt(item))
    BY <1>3, <2>9, <2>10, <2>11, <2>12, ItemRead
  <2> HIDE DEF new
  <2>15. IsConfig(config)' /\ HasRead(config', Operations, OperationsBefore(document.paths, next))
    BY <2>1, <2>13, <2>14 DEF IsConfig
  <2>16. ParserInvariant'
    <3>1. next' - 1 = next /\ next' <= Len(document.paths) + 1
      BY <1>1, <2>1, <2>2, <2>8
    <3>2. document' = document
      BY <2>1
    <3>3. HasRead(config, Operations, OperationsBefore(document.paths, next - 1))'
      BY <2>4, <2>15, <3>1, <3>2
    <3> QED BY <1>1, <2>1, <2>15, <3>1, <3>3 DEF ParserInvariant, Read
  <2> QED BY <2>3, <2>5, <2>6, <2>16 DEF Invariant
<1> QED BY <1>2, <1>3

\* So does going on to the next section.
LEMMA SectionsKeepInvariant ==
  ASSUME Invariant, NextSection
  PROVE  Invariant'
<1>1. /\ pc \in Reading /\ next > Len(SectionOf(pc)) /\ pc' = After[pc] /\ next' = 1
      /\ UNCHANGED <<base, commandLine, default, configs, document, config>>
  BY DEF NextSection, Advance, After, Reading
<1>2. /\ pc = "servers" => pc' = "schemes"
      /\ pc = "schemes" => pc' = "security"
      /\ pc = "security" => pc' = "paths"
      /\ pc = "paths" => pc' = "parsed"
  BY <1>1 DEF After
<1>3. pc \in {"servers", "schemes", "security", "paths"} /\ pc' \in {"schemes", "security", "paths", "parsed"}
  BY <1>1, <1>2 DEF Reading
<1>4. FromInput /\ next \in Nat \ {0}
  BY DEF Invariant, FromInput
<1>5. FromInput'
  BY <1>1, <1>3, <1>4 DEF FromInput, Generated, Reading, Read
<1>6. Entries' = Entries /\ Generated' = Generated /\ ValidSpec' = ValidSpec /\ Operations' = Operations
  BY <1>1 DEF Entries, Generated, ValidSpec, Operations
<1>7. TagsInvariant'
  BY <1>1, <1>3, <1>6 DEF Invariant, TagsInvariant
<1>8. MethodsInvariant'
  BY <1>1, <1>3, <1>6 DEF Invariant, MethodsInvariant, Reading
<1>9. IsConfig(config)'
  BY <1>1 DEF Invariant, ParserInvariant, IsConfig
<1>10. IsDocument(document)
  BY <1>1, DocumentType
<1>11. Len(document.paths) \in Nat /\ DOMAIN document.paths = 1 .. Len(document.paths)
  BY <1>10 DEF IsDocument, IsSequence
<1>12. ParserInvariant'
  <2>1. CASE pc \in {"servers", "schemes"}
    BY <1>1, <1>2, <1>9, <2>1 DEF Invariant, ParserInvariant, Read
  <2>2. CASE pc = "security"
    <3>1. DOMAIN config.methodPath = {}
      BY <2>2 DEF Invariant, ParserInvariant
    <3>2. OperationsBefore(document.paths, 0) = {}
      BY DEF OperationsBefore
    <3>3. HasRead(config, Operations, {})
      BY <3>1 DEF HasRead
    <3>4. HasRead(config, Operations, OperationsBefore(document.paths, next - 1))'
      <4>1. next' - 1 = 0
        BY <1>1
      <4>2. OperationsBefore(document'.paths, next' - 1) = {}
        BY <4>1 DEF OperationsBefore
      <4> QED BY <1>1, <1>6, <3>3, <4>2
    <3> QED BY <1>1, <1>2, <1>9, <1>11, <2>2, <3>4 DEF ParserInvariant, Read
  <2>3. CASE pc = "paths"
    <3>1. /\ next <= Len(document.paths) + 1
          /\ HasRead(config, Operations, OperationsBefore(document.paths, next - 1))
      BY <2>3 DEF Invariant, ParserInvariant
    <3>2. next - 1 = Len(document.paths)
      BY <1>1, <1>4, <1>11, <2>3, <3>1 DEF SectionOf
    <3>3. OperationsBefore(document.paths, next - 1) = Operations
      BY <1>11, <3>2, OperationsByItem DEF OperationsBefore
    <3>4. HasRead(config, Operations, Operations)'
      BY <1>1, <1>6, <3>1, <3>3
    <3> QED BY <1>1, <1>2, <1>9, <2>3, <3>4 DEF ParserInvariant, Read
  <2> QED BY <1>3, <2>1, <2>2, <2>3
<1> QED BY <1>5, <1>7, <1>8, <1>12 DEF Invariant

\* So does the server.
LEMMA VerifyKeepsInvariant ==
  ASSUME Invariant, VerifyOpenapiSchema
  PROVE  Invariant'
<1>1. /\ pc = "parsed" /\ UNCHANGED <<base, commandLine, next, default, configs, document, config>>
      /\ pc' = IF Range(Methods) \subseteq DOMAIN config.methodPath THEN "ready" ELSE "incomplete"
  BY DEF VerifyOpenapiSchema
<1>2. pc' \in {"ready", "incomplete"}
  BY <1>1
<1>3. FromInput'
  BY <1>1, <1>2 DEF Invariant, FromInput, Generated, Read
<1>4. Entries' = Entries /\ Generated' = Generated /\ ValidSpec' = ValidSpec /\ Operations' = Operations
  BY <1>1 DEF Entries, Generated, ValidSpec, Operations
<1>5. TagsInvariant'
  BY <1>1, <1>2, <1>4 DEF Invariant, TagsInvariant
<1>6. MethodsInvariant'
  BY <1>1, <1>2, <1>4 DEF Invariant, MethodsInvariant, Reading, Read
<1>7. ParserInvariant'
  BY <1>1, <1>2, <1>4 DEF Invariant, ParserInvariant, IsConfig, Read
<1> QED BY <1>3, <1>5, <1>6, <1>7 DEF Invariant

\* The document and what is read of it are, at each stage, what the input says.
THEOREM InvariantHolds == Spec => []Invariant
<1>1. Init => Invariant
  BY InitInvariant
<1>2. Invariant /\ [Next]_vars => Invariant'
  <2>1. ASSUME Invariant, UNCHANGED vars
        PROVE  Invariant'
    <3>1. UNCHANGED <<base, commandLine, pc, next, default, configs, document, config>>
      BY <2>1 DEF vars
    <3>2. Entries' = Entries /\ Generated' = Generated /\ ValidSpec' = ValidSpec /\ Operations' = Operations
      BY <3>1 DEF Entries, Generated, ValidSpec, Operations
    <3>3. FromInput'
      BY <2>1, <3>1, <3>2 DEF Invariant, FromInput
    <3>4. TagsInvariant' /\ MethodsInvariant'
      BY <2>1, <3>1, <3>2 DEF Invariant, TagsInvariant, MethodsInvariant
    <3>6. ParserInvariant'
      BY <2>1, <3>1, <3>2 DEF Invariant, ParserInvariant, IsConfig
    <3> QED BY <3>3, <3>4, <3>6 DEF Invariant
  <2> QED BY <2>1, TagsKeepInvariant, TagsDoneKeepsInvariant, ProcessKeepsInvariant,
             GenerateKeepsInvariant, ServersKeepInvariant, SchemesKeepInvariant,
             SecurityKeepsInvariant, PathsKeepInvariant, SectionsKeepInvariant,
             VerifyKeepsInvariant DEF Next
<1> QED BY <1>1, <1>2, PTL DEF Spec

-----------------------------------------------------------------------------
(* The properties.                                                         *)

\* Whoever made the document, what is read of its operations is what they say.
THEOREM ReadAsWrittenHolds == Spec => []ReadAsWritten
<1>1. Invariant => ReadAsWritten
  <2> SUFFICES ASSUME Invariant, Done
               PROVE  /\ DOMAIN config.methodPath = {o.node.operationId : o \in Operations}
                      /\ \A o \in Operations :
                           LET ps   == o.node.parameters
                               read == config.methodPath[o.node.operationId]
                           IN  /\ \A p \in Operations : p.node.operationId = o.node.operationId => p = o
                               /\ \A i, j \in Parts(o.node) : ps[i].name = ps[j].name => i = j
                               => /\ read.path = o.path /\ read.httpMethod = UpperCase[o.method]
                                  /\ read.bodyRequestObject = ("application/x-zserio-object" \in o.node.contentTypes)
                                  /\ DOMAIN read.parameters = {ps[i].name : i \in Parts(o.node)}
                                  /\ \A i \in Parts(o.node) : read.parameters[ps[i].name] = ParameterAsWritten(ps[i])
                                  /\ read.security = << >> <=> o.node.security = << >>
    BY Zenon DEF ReadAsWritten
  <2>1. HasRead(config, Operations, Operations)
    BY DEF Invariant, ParserInvariant, Done, Read
  <2>2. ASSUME NEW o \in Operations,
               \A p \in Operations : p.node.operationId = o.node.operationId => p = o,
               DifferentNames(o.node.parameters)
        PROVE  IsAsWritten(config.methodPath[o.node.operationId], o, config)
    BY <2>1, <2>2 DEF HasRead, IsSole
  <2>3. \A o : Parts(o.node) = PartsOf(o.node.parameters)
    BY DEF Parts, PartsOf
  <2>4. ASSUME NEW o \in Operations,
               \A p \in Operations : p.node.operationId = o.node.operationId => p = o,
               \A i, j \in Parts(o.node) : o.node.parameters[i].name = o.node.parameters[j].name => i = j
        PROVE  LET ps   == o.node.parameters
                   read == config.methodPath[o.node.operationId]
               IN  /\ read.path = o.path /\ read.httpMethod = UpperCase[o.method]
                   /\ read.bodyRequestObject = ("application/x-zserio-object" \in o.node.contentTypes)
                   /\ DOMAIN read.parameters = {ps[i].name : i \in Parts(o.node)}
                   /\ \A i \in Parts(o.node) : read.parameters[ps[i].name] = ParameterAsWritten(ps[i])
                   /\ read.security = << >> <=> o.node.security = << >>
    <3> DEFINE read == config.methodPath[o.node.operationId]
    <3>1. DifferentNames(o.node.parameters)
      BY <2>3, <2>4 DEF DifferentNames
    <3>2. IsAsWritten(read, o, config)
      BY <2>2, <2>4, <3>1
    <3> HIDE DEF read
    <3>3. read.security = << >> <=> o.node.security = << >>
      BY <3>2 DEF IsAsWritten
    <3>4. read.bodyRequestObject = ("application/x-zserio-object" \in o.node.contentTypes)
      BY <3>2, Zenon DEF IsAsWritten, HasBody
    <3> QED BY <2>3, <3>2, <3>3, <3>4 DEF IsAsWritten, ReadsParameters, NamesOf, read
  <2> QED BY <2>1, <2>4, Zenon DEF HasRead
<1> QED BY <1>1, InvariantHolds, PTL

MadeOperation(cs, k) ==
  LET c == ConfigFor(cs, Methods[k])
  IN  [path |-> PathOf(c, Methods[k]), method |-> c.httpMethod, node |-> OperationNode(c, Methods[k])]

\* The operations of a generated document are those of the methods that are the last at
\* their path; each has an operationId of its own and parameters of different names.
LEMMA GeneratedOperations ==
  ASSUME Invariant, Generated, pc \in Read
  PROVE  /\ \A k \in 1 .. Len(Methods) : IsMethodConfig(ConfigFor(configs, Methods[k]))
         /\ \A o \in Operations : \E k \in 1 .. Len(Methods) :
              IsLast(configs, k, Len(Methods)) /\ o = MadeOperation(configs, k)
         /\ \A k \in 1 .. Len(Methods) :
              IsLast(configs, k, Len(Methods)) => MadeOperation(configs, k) \in Operations
         /\ \A o \in Operations : IsAsWritten(config.methodPath[o.node.operationId], o, config)
<1> DEFINE N == Len(Methods)
<1>1. N \in Nat /\ DOMAIN Methods = 1 .. N
  BY ServiceLists
<1>2. pc \notin {"failed", "tags", "methods"}
  BY DEF Read
<1>3. MethodsMade(configs, document.paths, N)
  BY <1>2 DEF Invariant, MethodsInvariant
<1>4. Len(Entries) \in Nat /\ TagsRead(Entries, default, configs, Len(Entries))
  BY <1>2, EntriesType DEF Invariant, TagsInvariant
<1>5. ASSUME NEW k \in 1 .. N
      PROVE  IsMethodConfig(ConfigFor(configs, Methods[k]))
  BY <1>4, ConfigSumsUp
<1> HIDE DEF N
<1>6. ASSUME NEW k \in 1 .. N
      PROVE  OperationsAt(Made(configs, k)) = {MadeOperation(configs, k)}
  <2> DEFINE c    == ConfigFor(configs, Methods[k])
             item == Made(configs, k)
  <2>1. c.httpMethod \in DOMAIN UpperCase
    BY <1>5 DEF IsMethodConfig
  <2>2. /\ item.path = PathOf(c, Methods[k])
        /\ item.methods = [h \in {c.httpMethod} |-> OperationNode(c, Methods[k])]
    BY DEF Made, ItemOf
  <2>3. MadeOperation(configs, k)
          = [path |-> PathOf(c, Methods[k]), method |-> c.httpMethod, node |-> OperationNode(c, Methods[k])]
    BY DEF MadeOperation
  <2> HIDE DEF c, item
  <2>4. DOMAIN item.methods \intersect DOMAIN UpperCase = {c.httpMethod}
    BY <2>1, <2>2
  <2>5. OperationAt(item, c.httpMethod) = MadeOperation(configs, k)
    BY <2>2, <2>3 DEF OperationAt
  <2> QED BY <2>4, <2>5 DEF OperationsAt, item
<1>7. ASSUME NEW o \in Operations
      PROVE  \E k \in 1 .. N : IsLast(configs, k, N) /\ o = MadeOperation(configs, k)
  <2>1. PICK i \in DOMAIN document.paths : o \in OperationsAt(document.paths[i])
    BY OperationsByItem
  <2>2. PICK k \in 1 .. N : IsLast(configs, k, N) /\ document.paths[i] = Made(configs, k)
    BY <1>3 DEF MethodsMade
  <2> QED BY <1>6, <2>1, <2>2
<1>8. ASSUME NEW k \in 1 .. N, IsLast(configs, k, N)
      PROVE  MadeOperation(configs, k) \in Operations
  <2>1. PICK i \in DOMAIN document.paths : document.paths[i].path = Made(configs, k).path
    BY <1>3 DEF MethodsMade
  <2>2. PICK l \in 1 .. N : IsLast(configs, l, N) /\ document.paths[i] = Made(configs, l)
    BY <1>3 DEF MethodsMade
  <2>3. Made(configs, l).path = Made(configs, k).path
    BY <2>1, <2>2
  <2>4. ~ (k < l) /\ ~ (l < k)
    <3>1. k < l => l \in k + 1 .. N
      BY <1>1
    <3>2. l < k => k \in l + 1 .. N
      BY <1>1
    <3> QED BY <1>8, <2>2, <2>3, <3>1, <3>2 DEF IsLast
  <2>5. k = l
    BY <1>1, <2>4
  <2> QED BY <1>6, <2>2, <2>5, OperationsByItem
<1>9. ASSUME NEW o \in Operations
      PROVE  IsAsWritten(config.methodPath[o.node.operationId], o, config)
  <2>1. PICK k \in 1 .. N : o = MadeOperation(configs, k)
    BY <1>7
  <2>2. \A j \in 1 .. N : MadeOperation(configs, j).node.operationId = Methods[j]
    BY DEF MadeOperation, OperationNode
  <2>3. ASSUME NEW p \in Operations, p.node.operationId = o.node.operationId
        PROVE  p = o
    <3>1. PICK j \in 1 .. N : p = MadeOperation(configs, j)
      BY <1>7
    <3>2. Methods[j] = Methods[k]
      BY <2>1, <2>2, <2>3, <3>1
    <3>3. j = k
      BY <1>1, <3>2, ServiceAssumption
    <3> QED BY <2>1, <3>1, <3>3
  <2>4. DifferentNames(o.node.parameters)
    <3> DEFINE c == ConfigFor(configs, Methods[k])
    <3>1. o.node.parameters = Processed(c, Methods[k]).parameters
      BY <2>1 DEF MadeOperation, OperationNode
    <3>2. IsMethodConfig(c)
      BY <1>5
    <3> HIDE DEF c
    <3>3. Methods[k] \in Range(Methods)
      BY <1>1 DEF Range
    <3>4. \A i, j \in DOMAIN o.node.parameters :
            o.node.parameters[i].name = o.node.parameters[j].name => i = j
      BY <3>1, <3>2, <3>3, ProcessedType
    <3> QED BY <3>4 DEF DifferentNames, PartsOf
  <2>5. HasRead(config, Operations, Operations)
    BY DEF Invariant, ParserInvariant
  <2> QED BY <2>3, <2>4, <2>5 DEF HasRead, IsSole
<1> QED BY <1>5, <1>7, <1>8, <1>9 DEF N

\* Whatever the tags are, only a path two methods share keeps the server from starting.
THEOREM StartsUnlessPathSharedHolds == Spec => []StartsUnlessPathShared
<1>1. ASSUME Invariant, Done, Generated
      PROVE  pc = "incomplete" <=>
               \E i, j \in DOMAIN Methods :
                 i < j /\ PathOf(ConfigForMethod(Methods[i]), Methods[i])
                            = PathOf(ConfigForMethod(Methods[j]), Methods[j])
  <2> DEFINE N == Len(Methods)
  <2>1. N \in Nat /\ DOMAIN Methods = 1 .. N
    BY ServiceLists
  <2>2. pc \in {"ready", "incomplete"} /\ pc \in Read
    BY <1>1 DEF Done, Read
  <2>3. \A k : PathOf(ConfigForMethod(Methods[k]), Methods[k]) = Made(configs, k).path
    BY DEF Made, ItemOf, ConfigFor, ConfigForMethod
  <2>4. pc = "incomplete" <=> ~ (Range(Methods) \subseteq DOMAIN config.methodPath)
    BY <1>1, <2>2 DEF Invariant, ParserInvariant
  <2>5. DOMAIN config.methodPath = {o.node.operationId : o \in Operations}
    BY <1>1, <2>2 DEF Invariant, ParserInvariant, HasRead
  <2>6. \A k \in 1 .. N : MadeOperation(configs, k).node.operationId = Methods[k]
    BY DEF MadeOperation, OperationNode
  <2>7. ASSUME NEW k \in 1 .. N
        PROVE  Methods[k] \in DOMAIN config.methodPath <=> IsLast(configs, k, N)
    <3>1. ASSUME IsLast(configs, k, N)
          PROVE  Methods[k] \in DOMAIN config.methodPath
      <4>1. MadeOperation(configs, k) \in Operations
        BY <1>1, <2>2, <3>1, GeneratedOperations
      <4> QED BY <2>5, <2>6, <4>1
    <3>2. ASSUME Methods[k] \in DOMAIN config.methodPath
          PROVE  IsLast(configs, k, N)
      <4>1. PICK o \in Operations : o.node.operationId = Methods[k]
        BY <2>5, <3>2
      <4>2. PICK l \in 1 .. N : IsLast(configs, l, N) /\ o = MadeOperation(configs, l)
        BY <1>1, <2>2, GeneratedOperations
      <4>3. k = l
        BY <2>1, <2>6, <4>1, <4>2, ServiceAssumption
      <4> QED BY <4>2, <4>3
    <3> QED BY <3>1, <3>2
  <2>8. pc = "incomplete" <=> \E k \in 1 .. N : ~ IsLast(configs, k, N)
    BY <2>1, <2>4, <2>7 DEF Range
  <2>9. \A k \in 1 .. N : ~ IsLast(configs, k, N) <=>
          \E l \in 1 .. N : k < l /\ Made(configs, l).path = Made(configs, k).path
    <3> TAKE k \in 1 .. N
    <3>1. k + 1 .. N = {l \in 1 .. N : k < l}
      BY <2>1
    <3> QED BY <3>1 DEF IsLast
  <2> HIDE DEF N
  <2> QED BY <2>1, <2>3, <2>8, <2>9
<1>2. Invariant => StartsUnlessPathShared
  BY <1>1 DEF StartsUnlessPathShared
<1> QED BY <1>2, InvariantHolds, PTL

\* What is read under the name of a method is what its configuration makes of it.
LEMMA GeneratedRead ==
  ASSUME Invariant, Generated, pc \in Read, NEW m \in DOMAIN config.methodPath
  PROVE  LET c  == ConfigFor(configs, m)
             ss == SpecifiersOf(c, m)
             p  == config.methodPath[m]
         IN  /\ IsMethodConfig(c) /\ SumsUp(c, Entries, Held(Entries, m, Len(Entries)))
             /\ IsSpecList(ss)
             /\ p.httpMethod = UpperCase[c.httpMethod]
             /\ p.bodyRequestObject <=> ForBody(ss) # {}
             /\ DOMAIN p.parameters = {s.name : s \in InRequest(ss)}
             /\ \A s \in InRequest(ss) : /\ p.parameters[s.name].field = s.part
                                         /\ p.parameters[s.name].location = s.location
             /\ \A s \in Range(ss) : s.location = "path" => Slot(s.name) \in Range(p.path)
             /\ \A s \in Range(p.path) :
                  s.slot # "" => \E q \in InRequest(ss) : q.location = "path" /\ q.name = s.slot
             /\ p.security = IF OperationNode(c, m).security = << >> THEN << >>
                             ELSE <<ParseSecurity(OperationNode(c, m).security[1], config)>>
<1> DEFINE N  == Len(Methods)
           c  == ConfigFor(configs, m)
           ss == SpecifiersOf(c, m)
           p  == config.methodPath[m]
           node  == OperationNode(c, m)
           nodes == node.parameters
<1>1. pc \notin {"failed", "tags", "methods"}
  BY DEF Read
<1>2. IsMethodConfig(c) /\ SumsUp(c, Entries, Held(Entries, m, Len(Entries)))
  <2>1. Len(Entries) \in Nat /\ TagsRead(Entries, default, configs, Len(Entries))
    BY <1>1, EntriesType DEF Invariant, TagsInvariant
  <2> QED BY <2>1, ConfigSumsUp
<1>3. PICK o \in Operations : o.node.operationId = m
  BY DEF Invariant, ParserInvariant, HasRead
<1>4. PICK k \in 1 .. N : IsLast(configs, k, N) /\ o = MadeOperation(configs, k)
  BY GeneratedOperations
<1>5. Methods[k] = m /\ m \in Range(Methods)
  <2>1. Methods[k] = m
    BY <1>3, <1>4 DEF MadeOperation, OperationNode
  <2>2. k \in DOMAIN Methods
    BY <1>4, ServiceLists
  <2> QED BY <2>1, <2>2 DEF Range
<1>6. o.path = PathOf(c, m) /\ o.method = c.httpMethod /\ o.node = node
  BY <1>4, <1>5 DEF MadeOperation
<1>7. IsAsWritten(p, o, config)
  BY <1>3, GeneratedOperations
<1>8. /\ node.contentTypes = Processed(c, m).contentTypes
      /\ nodes = Processed(c, m).parameters
  BY DEF OperationNode
<1>9. IsSpecList(ss)
  BY <1>2, <1>5, SpecifiersOfType
<1> HIDE DEF c, p, node
<1>10. /\ Range(nodes) = {ParameterNode(s) : s \in InRequest(ss)}
       /\ "application/x-zserio-object" \in node.contentTypes <=> ForBody(ss) # {}
       /\ \A s \in Range(ss) : s.location = "path" => Slot(s.name) \in Range(PathOf(c, m))
  <2> DEFINE made == Processed(c, m)
  <2>1. /\ Range(made.parameters) = {ParameterNode(s) : s \in InRequest(ss)}
        /\ "application/x-zserio-object" \in made.contentTypes <=> ForBody(ss) # {}
        /\ \A s \in Range(ss) : s.location = "path" => Slot(s.name) \in Range(made.path)
    BY <1>2, <1>5, ProcessedType
  <2> HIDE DEF made, ss
  <2> QED BY <1>8, <2>1 DEF PathOf, made
<1> HIDE DEF ss
<1>11. /\ p.path = PathOf(c, m) /\ p.httpMethod = UpperCase[c.httpMethod]
       /\ ReadsParameters(p.parameters, nodes)
       /\ p.security = IF node.security = << >> THEN << >> ELSE <<ParseSecurity(node.security[1], config)>>
  BY <1>6, <1>7 DEF IsAsWritten
<1>12. p.bodyRequestObject = HasBody(node)
  BY <1>6, <1>7 DEF IsAsWritten
<1>13. p.bodyRequestObject <=> ForBody(ss) # {}
  BY <1>10, <1>12 DEF HasBody
<1>14. ASSUME NEW s \in Range(ss)
       PROVE  IsSpec(s)
  BY <1>9 DEF IsSpecList, Range
<1> HIDE DEF nodes
<1>15. ASSUME NEW i \in DOMAIN nodes
       PROVE  \E s \in InRequest(ss) : nodes[i] = ParameterNode(s)
  <2>1. nodes[i] \in Range(nodes)
    BY DEF Range
  <2> QED BY <1>10, <2>1 DEF nodes
<1>16. ASSUME NEW s \in InRequest(ss)
       PROVE  \E i \in DOMAIN nodes : nodes[i] = ParameterNode(s)
  <2>1. ParameterNode(s) \in Range(nodes)
    BY <1>10 DEF nodes
  <2> QED BY <2>1 DEF Range
<1>17. PartsOf(nodes) = DOMAIN nodes
  <2>1. ASSUME NEW i \in DOMAIN nodes
        PROVE  nodes[i].part # Absent
    <3>1. PICK s \in InRequest(ss) : nodes[i] = ParameterNode(s)
      BY <1>15
    <3>2. s.part # Absent
      BY <1>14 DEF InRequest, IsSpec
    <3> QED BY <3>1, <3>2 DEF ParameterNode
  <2> QED BY <2>1 DEF PartsOf
<1>18. DOMAIN p.parameters = {s.name : s \in InRequest(ss)}
  <2>1. \A s : ParameterNode(s).name = s.name
    BY DEF ParameterNode
  <2>2. DOMAIN p.parameters = {nodes[i].name : i \in DOMAIN nodes}
    BY <1>11, <1>17 DEF ReadsParameters, NamesOf
  <2> QED BY <1>15, <1>16, <2>1, <2>2
<1>19. ASSUME NEW s \in InRequest(ss)
       PROVE  p.parameters[s.name].field = s.part /\ p.parameters[s.name].location = s.location
  <2>1. PICK i \in DOMAIN nodes : nodes[i] = ParameterNode(s)
    BY <1>16
  <2>2. p.parameters[nodes[i].name] = ParameterAsWritten(nodes[i])
    BY <1>11, <1>17 DEF ReadsParameters
  <2>3. nodes[i].name = s.name /\ nodes[i].part = s.part /\ nodes[i].in = s.location
    BY <2>1 DEF ParameterNode
  <2>4. s.location # Absent
    BY <1>14 DEF InRequest, IsSpec, Locations, Absent
  <2>5. /\ ParameterAsWritten(nodes[i]).field = nodes[i].part
        /\ nodes[i].in # Absent => ParameterAsWritten(nodes[i]).location = nodes[i].in
    BY DEF ParameterAsWritten
  <2> QED BY <2>2, <2>3, <2>4, <2>5
<1>20. ASSUME NEW s \in Range(p.path), s.slot # ""
       PROVE  \E q \in InRequest(ss) : q.location = "path" /\ q.name = s.slot
  <2>1. ValidSpec
    BY <1>1 DEF Invariant, MethodsInvariant
  <2>2. PICK i \in DOMAIN document.paths : o \in OperationsAt(document.paths[i])
    BY OperationsByItem
  <2> DEFINE item == document.paths[i]
  <2>3. PICK h \in DOMAIN item.methods : o = OperationAt(item, h)
    BY <2>2 DEF OperationsAt
  <2>4. item.path = p.path /\ item.methods[h] = node
    BY <1>6, <1>11, <2>3 DEF OperationAt
  <2>5. item \in Range(document.paths)
    BY DEF Range
  <2> HIDE DEF item
  <2>6. PICK x \in Range(item.methods[h].parameters) : x.in = "path" /\ x.name = s.slot
    BY <1>20, <2>1, <2>4, <2>5 DEF ValidSpec
  <2>7. x \in Range(nodes)
    BY <2>4, <2>6 DEF nodes
  <2>8. PICK q \in InRequest(ss) : x = ParameterNode(q)
    BY <1>10, <2>7 DEF nodes
  <2>9. q.location = "path" /\ q.name = s.slot
    BY <2>6, <2>8 DEF ParameterNode
  <2> QED BY <2>9
<1>21. \A s \in Range(ss) : s.location = "path" => Slot(s.name) \in Range(p.path)
  BY <1>10, <1>11
<1> QED BY <1>2, <1>9, <1>11, <1>13, <1>18, <1>19, <1>20, <1>21 DEF c, ss, p, node

\* Each name in braces has a parameter, and each path parameter a place.
THEOREM PathParametersHavePlacesHolds == Spec => []PathParametersHavePlaces
<1>1. ASSUME Invariant, Done, Generated, NEW m \in DOMAIN config.methodPath
      PROVE  LET p == config.methodPath[m]
             IN  {s.slot : s \in Range(p.path)} \ {""}
                   = {n \in DOMAIN p.parameters : p.parameters[n].location = "path"}
  <2> DEFINE p  == config.methodPath[m]
             ss == SpecifiersOf(ConfigFor(configs, m), m)
  <2>1. pc \in Read
    BY <1>1 DEF Done, Read
  <2>2. /\ IsSpecList(ss)
        /\ DOMAIN p.parameters = {s.name : s \in InRequest(ss)}
        /\ \A s \in InRequest(ss) : p.parameters[s.name].location = s.location
        /\ \A s \in Range(ss) : s.location = "path" => Slot(s.name) \in Range(p.path)
        /\ \A s \in Range(p.path) :
             s.slot # "" => \E q \in InRequest(ss) : q.location = "path" /\ q.name = s.slot
    BY <1>1, <2>1, GeneratedRead
  <2> HIDE DEF p, ss
  <2>3. ASSUME NEW s \in Range(p.path), s.slot # ""
        PROVE  s.slot \in DOMAIN p.parameters /\ p.parameters[s.slot].location = "path"
    BY <2>2, <2>3
  <2>4. ASSUME NEW n \in DOMAIN p.parameters, p.parameters[n].location = "path"
        PROVE  n # "" /\ \E s \in Range(p.path) : s.slot = n
    <3>1. PICK s \in InRequest(ss) : s.name = n
      BY <2>2
    <3>2. s \in Range(ss) /\ s.location = "path"
      BY <2>2, <2>4, <3>1 DEF InRequest
    <3>3. n # ""
      BY <2>2, <3>1, <3>2 DEF IsSpecList, IsSpec, Range
    <3>4. Slot(n) \in Range(p.path) /\ Slot(n).slot = n
      BY <2>2, <3>1, <3>2 DEF Slot
    <3> QED BY <3>3, <3>4
  <2> DEFINE AtPath == {n \in DOMAIN p.parameters : p.parameters[n].location = "path"}
             Slots  == {s.slot : s \in Range(p.path)} \ {""}
  <2>5. Slots \subseteq AtPath
    BY <2>3
  <2>6. AtPath \subseteq Slots
    <3>1. ASSUME NEW n \in AtPath
          PROVE  n \in Slots
      <4>1. n # "" /\ \E s \in Range(p.path) : s.slot = n
        BY <2>4
      <4> QED BY <4>1
    <3> QED BY <3>1
  <2> QED BY <2>5, <2>6 DEF p
<1>2. Invariant => PathParametersHavePlaces
  BY <1>1 DEF PathParametersHavePlaces
<1> QED BY <1>2, InvariantHolds, PTL

-----------------------------------------------------------------------------
(* The tags a user gave, and what is read.                                 *)

\* The tags that hold for a method are well formed, at positions that have an order.
LEMMA TagsForType ==
  ASSUME FromInput, Generated, NEW m
  PROVE  /\ TagsFor(m) = Held(Entries, m, Len(Entries))
         /\ \A at \in TagsFor(m) : at \in Nat \X Nat /\ IsTag(TagAt(at))
<1>1. /\ Len(Entries) \in Nat /\ DOMAIN Entries = 1 .. Len(Entries)
      /\ \A i \in DOMAIN Entries : IsTagList(Entries[i].tags)
  BY EntriesType
<1>2. TagsFor(m) = Held(Entries, m, Len(Entries))
  BY <1>1 DEF TagsFor, Held
<1>3. ASSUME NEW at \in TagsFor(m)
      PROVE  at \in Nat \X Nat /\ IsTag(TagAt(at))
  <2>1. \E i \in DOMAIN Entries : \E j \in DOMAIN Entries[i].tags : at = <<i, j>>
    <3> DEFINE own  == {i \in DOMAIN Entries : Entries[i].method = m}
               wild == {i \in DOMAIN Entries : Entries[i].method = Wildcard /\ (own # {} => i <= Max(own))}
               held == IF own = {} THEN wild ELSE wild \union {Max(own)}
    <3>1. own # {} => Max(own) \in own
      <4>1. own \in SUBSET (0 .. Len(Entries))
        BY <1>1
      <4> HIDE DEF own
      <4> QED BY <1>1, <4>1, GreatestNumber
    <3>2. held \subseteq DOMAIN Entries
      BY <3>1
    <3>3. TagsFor(m) = UNION {{<<i, j>> : j \in DOMAIN Entries[i].tags} : i \in held}
      BY DEF TagsFor
    <3> HIDE DEF own, held
    <3> QED BY <3>2, <3>3
  <2>2. PICK i \in DOMAIN Entries : \E j \in DOMAIN Entries[i].tags : at = <<i, j>>
    BY <2>1
  <2> PICK j \in DOMAIN Entries[i].tags : at = <<i, j>>
    BY <2>2
  <2>3. IsTagList(Entries[i].tags) /\ i \in Nat
    BY <1>1
  <2>4. j \in Nat
    BY <2>3 DEF IsTagList, IsSequence
  <2>5. IsTag(Entries[i].tags[j])
    BY <2>3 DEF IsTagList
  <2> QED BY <2>2, <2>3, <2>4, <2>5 DEF TagAt
<1> QED BY <1>2, <1>3

\* There is one last tag of a kind.
LEMMA LastOfKind ==
  ASSUME FromInput, Generated, NEW m, NEW v, NEW kind, NEW otherwise,
         IsLastValue(v, Entries, TagsFor(m), kind, otherwise)
  PROVE  v = LastValue(m, kind, otherwise)
<1> DEFINE tags == TagsOfKind(m, kind)
           IsLatest(x) == x \in tags /\ \A at \in tags : ~ Precedes(x, at)
<1>1. OfKind(Entries, TagsFor(m), kind) = tags
  BY DEF OfKind, TagsOfKind, TagAt
<1>2. \A at \in tags : at \in Nat \X Nat
  BY TagsForType DEF TagsOfKind
<1> HIDE DEF tags
<1>3. CASE tags = {}
  <2>1. v = otherwise
    BY <1>1, <1>3 DEF IsLastValue
  <2> QED BY <1>3, <2>1 DEF LastValue, tags
<1>4. CASE tags # {}
  <2>1. PICK last \in tags : /\ \A at \in tags : ~ Precedes(last, at)
                             /\ v = Entries[last[1]].tags[last[2]].value
    BY <1>1, <1>4 DEF IsLastValue
  <2> DEFINE chosen == CHOOSE x \in tags : \A at \in tags : ~ Precedes(x, at)
  <2>2. chosen \in tags /\ \A at \in tags : ~ Precedes(chosen, at)
    BY <2>1
  <2>3. LastValue(m, kind, otherwise) = TagAt(chosen).value
    BY <1>4 DEF LastValue, tags
  <2> HIDE DEF chosen
  <2>4. ~ Precedes(last, chosen) /\ ~ Precedes(chosen, last)
    BY <2>1, <2>2
  <2>5. last \in Nat \X Nat /\ chosen \in Nat \X Nat
    BY <1>2, <2>1, <2>2
  <2>6. last[1] = chosen[1] /\ last[2] = chosen[2]
    BY <2>4, <2>5 DEF Precedes
  <2>7. last = chosen
    BY <2>5, <2>6
  <2> QED BY <2>1, <2>3, <2>7 DEF TagAt
<1> QED BY <1>3, <1>4

\* The security of an operation comes back as it is in the configuration of its method.
LEMMA SecurityRead ==
  ASSUME NEW c, NEW m, NEW d
  PROVE  LET node == OperationNode(c, m)
             read == IF node.security = << >> THEN << >> ELSE <<ParseSecurity(node.security[1], d)>>
         IN  read = CASE c.security = Absent -> << >>
                      [] c.security = ""     -> << << >> >>
                      [] OTHER -> << << <<[scheme |-> d.securitySchemes[c.security],
                                           scopes |-> << >>]>> >> >>
<1> DEFINE node == OperationNode(c, m)
           read == IF node.security = << >> THEN << >> ELSE <<ParseSecurity(node.security[1], d)>>
           said == [scheme |-> c.security, scopes |-> << >>]
           kept == [scheme |-> d.securitySchemes[c.security], scopes |-> << >>]
<1>1. node.security = CASE c.security = Absent -> << >>
                        [] c.security = ""     -> << << >> >>
                        [] OTHER               -> << << <<said>> >> >>
  BY DEF OperationNode
<1>2. \A x : <<x>> # << >> /\ <<x>>[1] = x /\ DOMAIN <<x>> = {1}
  BY ShortLists
<1>3. ParseSecurity(<< >>, d) = << >>
  BY DEF ParseSecurity
<1>4. ParseSecurity(<< <<said>> >>, d) = << <<kept>> >>
  BY DEF ParseSecurity
<1>5. "" # Absent
  BY DEF Absent
<1> HIDE DEF node, said, kept
<1>6. CASE c.security = Absent
  <2>1. node.security = << >>
    BY <1>1, <1>5, <1>6
  <2>2. read = << >>
    BY <2>1
  <2> QED BY <1>5, <1>6, <2>2 DEF node
<1>7. CASE c.security = ""
  <2>1. node.security = << << >> >>
    BY <1>1, <1>5, <1>7
  <2>2. read = << << >> >>
    BY <1>2, <1>3, <2>1
  <2> QED BY <1>5, <1>7, <2>2 DEF node
<1>8. CASE c.security # Absent /\ c.security # ""
  <2>1. node.security = << << <<said>> >> >>
    BY <1>1, <1>8
  <2>2. read = << << <<kept>> >> >>
    BY <1>2, <1>4, <2>1
  <2> QED BY <1>8, <2>2 DEF node, kept
<1> QED BY <1>6, <1>7, <1>8 DEF node

\* What is read of a method is what its tags ask for, however many entries say something of
\* it and in whatever order.
THEOREM TagsTakeEffectHolds == Spec => []TagsTakeEffect
<1>1. ASSUME Invariant, Done, Generated, NEW m \in DOMAIN config.methodPath
      PROVE  LET p     == config.methodPath[m]
                 asked == {TagAt(at).spec : at \in TagsOfKind(m, "param")}
                 named == LastValue(m, "security", Absent)
             IN  /\ p.httpMethod = UpperCase[LastValue(m, "http", "post")]
                 /\ p.security = CASE named = Absent -> << >>
                                   [] named = ""     -> << << >> >>
                                   [] OTHER -> << << <<[scheme |-> config.securitySchemes[named],
                                                        scopes |-> << >>]>> >> >>
                 /\ asked # {} =>
                      /\ p.bodyRequestObject <=> \E s \in asked : s.location = "body"
                      /\ {<<n, p.parameters[n].field, p.parameters[n].location>> : n \in DOMAIN p.parameters}
                           = {<<s.name, s.part, s.location>> : s \in {r \in asked : r.location # "body"}}
  <2> DEFINE c     == ConfigFor(configs, m)
             ss    == SpecifiersOf(c, m)
             p     == config.methodPath[m]
             asked == {TagAt(at).spec : at \in TagsOfKind(m, "param")}
             named == LastValue(m, "security", Absent)
             secured == IF OperationNode(c, m).security = << >> THEN << >>
                        ELSE <<ParseSecurity(OperationNode(c, m).security[1], config)>>
  <2>1. pc \in Read /\ FromInput
    BY <1>1 DEF Done, Read, Invariant
  <2>2. /\ IsMethodConfig(c) /\ SumsUp(c, Entries, Held(Entries, m, Len(Entries)))
        /\ IsSpecList(ss)
        /\ p.httpMethod = UpperCase[c.httpMethod]
        /\ p.bodyRequestObject <=> ForBody(ss) # {}
        /\ DOMAIN p.parameters = {s.name : s \in InRequest(ss)}
        /\ \A s \in InRequest(ss) : /\ p.parameters[s.name].field = s.part
                                    /\ p.parameters[s.name].location = s.location
        /\ p.security = secured
    BY <1>1, <2>1, GeneratedRead
  <2>3. TagsFor(m) = Held(Entries, m, Len(Entries))
    BY <1>1, <2>1, TagsForType
  <2>4. secured = CASE c.security = Absent -> << >>
                    [] c.security = ""     -> << << >> >>
                    [] OTHER -> << << <<[scheme |-> config.securitySchemes[c.security],
                                         scopes |-> << >>]>> >> >>
    BY SecurityRead
  <2>5. c.paramSpecifiers # << >> => ss = c.paramSpecifiers
    BY DEF SpecifiersOf
  <2> HIDE DEF c, ss, p, secured
  <2>6. SumsUp(c, Entries, TagsFor(m))
    BY <2>2, <2>3
  <2>7. c.httpMethod = LastValue(m, "http", "post") /\ c.security = named
    BY <1>1, <2>1, <2>6, LastOfKind DEF SumsUp
  <2>8. Range(c.paramSpecifiers) = {Specifier(s) : s \in asked}
    <3>1. OfKind(Entries, TagsFor(m), "param") = TagsOfKind(m, "param")
      BY DEF OfKind, TagsOfKind, TagAt
    <3>2. Range(c.paramSpecifiers) = {Specifier(TagAt(at).spec) : at \in TagsOfKind(m, "param")}
      BY <2>6, <3>1 DEF SumsUp, SpecifiersAt, TagAt
    <3> QED BY <3>2
  <2> HIDE DEF asked, named
  <2>9. ASSUME asked # {}
        PROVE  /\ p.bodyRequestObject <=> \E s \in asked : s.location = "body"
               /\ {<<n, p.parameters[n].field, p.parameters[n].location>> : n \in DOMAIN p.parameters}
                    = {<<s.name, s.part, s.location>> : s \in {r \in asked : r.location # "body"}}
    <3>1. ss = c.paramSpecifiers
      <4>1. c.paramSpecifiers # << >>
        BY <2>8, <2>9, ShortLists
      <4> QED BY <2>5, <4>1
    <3>2. Range(ss) = {Specifier(s) : s \in asked}
      BY <2>8, <3>1
    <3>3. \A s : s.location = "body" => Specifier(s).location = "body"
      BY DEF Specifier, Body
    <3>4. \A s : s.location # "body" => Specifier(s) = s
      BY DEF Specifier
    <3>5. InRequest(ss) = {r \in asked : r.location # "body"}
      <4>1. ASSUME NEW s \in asked, s.location # "body"
            PROVE  s \in Range(ss)
        BY <3>2, <3>4, <4>1
      <4>2. ASSUME NEW q \in Range(ss), q.location # "body"
            PROVE  q \in asked
        <5>1. PICK s \in asked : q = Specifier(s)
          BY <3>2
        <5>2. q = s
          BY <3>3, <3>4, <4>2, <5>1
        <5> QED BY <5>2
      <4> QED BY <4>1, <4>2 DEF InRequest
    <3>6. ForBody(ss) # {} <=> \E s \in asked : s.location = "body"
      <4>1. ASSUME NEW s \in asked, s.location = "body"
            PROVE  Specifier(s) \in ForBody(ss)
        BY <3>2, <3>3, <4>1 DEF ForBody
      <4>2. ASSUME NEW q \in ForBody(ss)
            PROVE  \E s \in asked : s.location = "body"
        <5>1. PICK s \in asked : q = Specifier(s)
          BY <3>2 DEF ForBody
        <5> QED BY <3>4, <5>1 DEF ForBody
      <4> QED BY <4>1, <4>2
    <3> DEFINE As(s)  == <<s.name, s.part, s.location>>
               Has(n) == <<n, p.parameters[n].field, p.parameters[n].location>>
    <3>7. \A s \in InRequest(ss) : Has(s.name) = As(s)
      BY <2>2
    <3> HIDE DEF As, Has
    <3>8. {Has(n) : n \in DOMAIN p.parameters} = {As(s) : s \in InRequest(ss)}
      BY <2>2, <3>7
    <3>9. {Has(n) : n \in DOMAIN p.parameters} = {As(s) : s \in {r \in asked : r.location # "body"}}
      BY <3>5, <3>8
    <3> QED BY <2>2, <3>6, <3>9 DEF As, Has
  <2>10. p.httpMethod = UpperCase[LastValue(m, "http", "post")]
    BY <2>2, <2>7
  <2>11. p.security = CASE named = Absent -> << >>
                        [] named = ""     -> << << >> >>
                        [] OTHER -> << << <<[scheme |-> config.securitySchemes[named],
                                             scopes |-> << >>]>> >> >>
    BY <2>2, <2>4, <2>7
  <2> QED BY <2>9, <2>10, <2>11 DEF p, asked, named
<1>2. Invariant => TagsTakeEffect
  BY <1>1 DEF TagsTakeEffect
<1> QED BY <1>2, InvariantHolds, PTL
===============================================================================
