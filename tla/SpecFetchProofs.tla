--------------------------- MODULE SpecFetchProofs ---------------------------
(***************************************************************************)
(* Theorems about SettingsLookup and SpecFetch: for any settings, with     *)
(* however many entries, any configuration of the client, and any          *)
(* documents.                                                              *)
(***************************************************************************)
EXTENDS SpecFetch, SequenceTheorems, TLAPS

-----------------------------------------------------------------------------
(* The first and the last of the values at some places, without Min and Max. *)

IsFirst(x, values) ==
  IF Given(values) = {} THEN x = None
  ELSE \E i \in Given(values) : x = values[i] /\ \A j \in Given(values) : i <= j

IsLast(x, values) ==
  IF Given(values) = {} THEN x = None
  ELSE \E i \in Given(values) : x = values[i] /\ \A j \in Given(values) : j <= i

LEMMA FirstIsFirstOf ==
  ASSUME NEW x, NEW values, DOMAIN values \subseteq Nat, IsFirst(x, values)
  PROVE  x = FirstOf(values)
<1>1. CASE Given(values) = {}
  BY <1>1 DEF IsFirst, FirstOf
<1>2. CASE Given(values) # {}
  <2>1. PICK i \in Given(values) : x = values[i] /\ \A j \in Given(values) : i <= j
    BY <1>2 DEF IsFirst
  <2>2. Given(values) \subseteq Nat
    BY DEF Given
  <2>3. \A k \in Given(values) : (\A j \in Given(values) : k <= j) => k = i
    BY <2>1, <2>2
  <2>4. Min(Given(values)) = i
    BY <2>1, <2>3 DEF Min
  <2> QED BY <1>2, <2>1, <2>4 DEF FirstOf
<1> QED BY <1>1, <1>2

LEMMA LastIsLastOf ==
  ASSUME NEW x, NEW values, DOMAIN values \subseteq Nat, IsLast(x, values)
  PROVE  x = LastOf(values)
<1>1. CASE Given(values) = {}
  BY <1>1 DEF IsLast, LastOf
<1>2. CASE Given(values) # {}
  <2>1. PICK i \in Given(values) : x = values[i] /\ \A j \in Given(values) : j <= i
    BY <1>2 DEF IsLast
  <2>2. Given(values) \subseteq Nat
    BY DEF Given
  <2>3. \A k \in Given(values) : (\A j \in Given(values) : j <= k) => k = i
    BY <2>1, <2>2
  <2>4. Max(Given(values)) = i
    BY <2>1, <2>3 DEF Max
  <2> QED BY <1>2, <2>1, <2>4 DEF LastOf
<1> QED BY <1>1, <1>2

-----------------------------------------------------------------------------
(* One more place, after the others or before them.                        *)

\* The values are those of before, and one at p.
OneMore(values, p, more) ==
  /\ DOMAIN values \subseteq Nat /\ p \in Nat /\ p \notin DOMAIN values
  /\ DOMAIN more = DOMAIN values \union {p}
  /\ \A i \in DOMAIN values : more[i] = values[i]

AddedLast(values, p, more)  == OneMore(values, p, more) /\ \A i \in DOMAIN values : i < p
AddedFirst(values, p, more) == OneMore(values, p, more) /\ \A i \in DOMAIN values : p < i

LEMMA GivenWithOneMore ==
  ASSUME NEW values, NEW p, NEW more, OneMore(values, p, more)
  PROVE  /\ Given(more) = IF more[p] = None THEN Given(values) ELSE Given(values) \union {p}
         /\ Given(values) \subseteq DOMAIN values
         /\ \A i \in Given(values) : more[i] = values[i] /\ values[i] # None
BY DEF OneMore, Given

LEMMA FirstAmongMore ==
  ASSUME NEW values, NEW p, NEW more, NEW x, IsFirst(x, values)
  PROVE  /\ AddedLast(values, p, more)  => IsFirst(Overwrite(more[p], x), more)
         /\ AddedFirst(values, p, more) => IsFirst(Overwrite(x, more[p]), more)
<1>1. ASSUME AddedLast(values, p, more)
      PROVE  IsFirst(Overwrite(more[p], x), more)
  <2>1. OneMore(values, p, more) /\ p \in Nat /\ \A i \in Given(values) : i < p /\ i \in Nat
    BY <1>1 DEF AddedLast, OneMore, Given
  <2>2. CASE Given(values) = {}
    BY <2>1, <2>2, GivenWithOneMore DEF IsFirst, Overwrite
  <2>3. CASE Given(values) # {}
    BY <2>1, <2>3, GivenWithOneMore DEF IsFirst, Overwrite
  <2> QED BY <2>2, <2>3
<1>2. ASSUME AddedFirst(values, p, more)
      PROVE  IsFirst(Overwrite(x, more[p]), more)
  <2>1. OneMore(values, p, more) /\ p \in Nat /\ \A i \in Given(values) : p < i /\ i \in Nat
    BY <1>2 DEF AddedFirst, OneMore, Given
  <2>2. CASE more[p] = None
    BY <2>1, <2>2, GivenWithOneMore DEF IsFirst, Overwrite
  <2>3. CASE more[p] # None
    BY <2>1, <2>3, GivenWithOneMore DEF IsFirst, Overwrite
  <2> QED BY <2>2, <2>3
<1> QED BY <1>1, <1>2

LEMMA LastAmongMore ==
  ASSUME NEW values, NEW p, NEW more, NEW x, IsLast(x, values)
  PROVE  /\ AddedLast(values, p, more)  => IsLast(Overwrite(x, more[p]), more)
         /\ AddedFirst(values, p, more) => IsLast(Overwrite(more[p], x), more)
<1>1. ASSUME AddedLast(values, p, more)
      PROVE  IsLast(Overwrite(x, more[p]), more)
  <2>1. OneMore(values, p, more) /\ p \in Nat /\ \A i \in Given(values) : i < p /\ i \in Nat
    BY <1>1 DEF AddedLast, OneMore, Given
  <2>2. CASE more[p] = None
    BY <2>1, <2>2, GivenWithOneMore DEF IsLast, Overwrite
  <2>3. CASE more[p] # None
    BY <2>1, <2>3, GivenWithOneMore DEF IsLast, Overwrite
  <2> QED BY <2>2, <2>3
<1>2. ASSUME AddedFirst(values, p, more)
      PROVE  IsLast(Overwrite(more[p], x), more)
  <2>1. OneMore(values, p, more) /\ p \in Nat /\ \A i \in Given(values) : p < i /\ i \in Nat
    BY <1>2 DEF AddedFirst, OneMore, Given
  <2>2. CASE Given(values) = {}
    BY <2>1, <2>2, GivenWithOneMore DEF IsLast, Overwrite
  <2>3. CASE Given(values) # {}
    BY <2>1, <2>3, GivenWithOneMore DEF IsLast, Overwrite
  <2> QED BY <2>2, <2>3
<1> QED BY <1>1, <1>2

LEMMA PartAddedLast ==
  ASSUME NEW S, NEW whole \in Seq(S), NEW parts, NEW p, NEW more,
         AddedLast(parts, p, more), \A i \in DOMAIN more : more[i] \in Seq(S),
         Concatenates(whole, parts)
  PROVE  Concatenates(whole \o more[p], more)
<1> DEFINE part  == more[p]
           longer == whole \o part
<1>1. /\ DOMAIN more = DOMAIN parts \union {p} /\ p \notin DOMAIN parts
      /\ DOMAIN parts \subseteq Nat /\ p \in Nat /\ part \in Seq(S)
      /\ \A i \in DOMAIN parts : i < p /\ more[i] = parts[i] /\ parts[i] \in Seq(S)
  BY DEF AddedLast, OneMore
<1>2. PICK at \in [DOMAIN parts -> 0 .. Len(whole)] :
        /\ \A i \in DOMAIN parts : \A k \in DOMAIN parts[i] :
             at[i] + k <= Len(whole) /\ whole[at[i] + k] = parts[i][k]
        /\ \A i, j \in DOMAIN parts : i < j => at[i] + Len(parts[i]) <= at[j]
        /\ \A k \in DOMAIN whole : \E i \in DOMAIN parts : at[i] < k /\ k <= at[i] + Len(parts[i])
  BY DEF Concatenates
<1>3. /\ Len(whole) \in Nat /\ DOMAIN whole = 1 .. Len(whole)
      /\ Len(part) \in Nat /\ DOMAIN part = 1 .. Len(part)
      /\ \A i \in DOMAIN parts : Len(parts[i]) \in Nat /\ DOMAIN parts[i] = 1 .. Len(parts[i])
  BY <1>1, LenProperties
<1>4. /\ longer \in Seq(S) /\ Len(longer) = Len(whole) + Len(part)
      /\ DOMAIN longer = 1 .. Len(whole) + Len(part)
      /\ \A k \in 1 .. Len(whole) + Len(part) :
           longer[k] = IF k <= Len(whole) THEN whole[k] ELSE part[k - Len(whole)]
  BY <1>1, ConcatProperties, LenProperties
<1> DEFINE to == [i \in DOMAIN more |-> IF i = p THEN Len(whole) ELSE at[i]]
<1>5. \A i \in DOMAIN parts : to[i] = at[i] /\ at[i] \in 0 .. Len(whole)
  BY <1>1, <1>2
<1>6. to[p] = Len(whole) /\ to \in [DOMAIN more -> 0 .. Len(longer)]
  BY <1>1, <1>3, <1>4, <1>5
<1> HIDE DEF part, longer, to
<1>7. ASSUME NEW i \in DOMAIN more, NEW k \in DOMAIN more[i]
      PROVE  to[i] + k <= Len(longer) /\ longer[to[i] + k] = more[i][k]
  <2>1. CASE i = p
    <3>1. k \in 1 .. Len(part) /\ more[i] = part /\ to[i] = Len(whole)
      BY <2>1, <1>3, <1>6, <1>7 DEF part
    <3>2. /\ Len(whole) + k \in 1 .. Len(whole) + Len(part)
          /\ ~(Len(whole) + k <= Len(whole)) /\ (Len(whole) + k) - Len(whole) = k
      BY <3>1, <1>3
    <3> QED BY <3>1, <3>2, <1>4
  <2>2. CASE i \in DOMAIN parts
    <3>1. k \in 1 .. Len(parts[i]) /\ at[i] + k <= Len(whole) /\ whole[at[i] + k] = more[i][k]
      BY <2>2, <1>1, <1>2, <1>3, <1>7
    <3> QED BY <3>1, <2>2, <1>3, <1>4, <1>5
  <2> QED BY <2>1, <2>2, <1>1
<1>8. ASSUME NEW i \in DOMAIN more, NEW j \in DOMAIN more, i < j
      PROVE  to[i] + Len(more[i]) <= to[j]
  <2>1. i \in DOMAIN parts
    BY <1>1, <1>8
  <2>2. CASE j \in DOMAIN parts
    BY <2>1, <2>2, <1>1, <1>2, <1>5, <1>8
  <2>3. CASE j = p
    <3>1. CASE Len(parts[i]) = 0
      BY <3>1, <2>1, <2>3, <1>1, <1>3, <1>5, <1>6
    <3>2. CASE Len(parts[i]) # 0
      <4>1. Len(parts[i]) \in DOMAIN parts[i]
        BY <3>2, <2>1, <1>3
      <4>2. at[i] + Len(parts[i]) <= Len(whole)
        BY <4>1, <2>1, <1>2
      <4> QED BY <4>2, <2>1, <2>3, <1>1, <1>5, <1>6
    <3> QED BY <3>1, <3>2
  <2> QED BY <2>2, <2>3, <1>1
<1>9. ASSUME NEW k \in DOMAIN longer
      PROVE  \E i \in DOMAIN more : to[i] < k /\ k <= to[i] + Len(more[i])
  <2>1. CASE k \in DOMAIN whole
    <3>1. PICK i \in DOMAIN parts : at[i] < k /\ k <= at[i] + Len(parts[i])
      BY <2>1, <1>2
    <3> QED BY <3>1, <1>1, <1>5
  <2>2. CASE k \notin DOMAIN whole
    <3>1. k \in Len(whole) + 1 .. Len(whole) + Len(part)
      BY <2>2, <1>3, <1>4, <1>9
    <3>2. p \in DOMAIN more /\ to[p] < k /\ k <= to[p] + Len(more[p])
      BY <3>1, <1>1, <1>3, <1>6 DEF part
    <3> QED BY <3>2
  <2> QED BY <2>1, <2>2
<1>10. Concatenates(longer, more)
  BY <1>6, <1>7, <1>8, <1>9 DEF Concatenates
<1> QED BY <1>10 DEF longer, part

LEMMA PartAddedFirst ==
  ASSUME NEW S, NEW whole \in Seq(S), NEW parts, NEW p, NEW more,
         AddedFirst(parts, p, more), \A i \in DOMAIN more : more[i] \in Seq(S),
         Concatenates(whole, parts)
  PROVE  Concatenates(more[p] \o whole, more)
<1> DEFINE part  == more[p]
           longer == part \o whole
<1>1. /\ DOMAIN more = DOMAIN parts \union {p} /\ p \notin DOMAIN parts
      /\ DOMAIN parts \subseteq Nat /\ p \in Nat /\ part \in Seq(S)
      /\ \A i \in DOMAIN parts : p < i /\ more[i] = parts[i] /\ parts[i] \in Seq(S)
  BY DEF AddedFirst, OneMore
<1>2. PICK at \in [DOMAIN parts -> 0 .. Len(whole)] :
        /\ \A i \in DOMAIN parts : \A k \in DOMAIN parts[i] :
             at[i] + k <= Len(whole) /\ whole[at[i] + k] = parts[i][k]
        /\ \A i, j \in DOMAIN parts : i < j => at[i] + Len(parts[i]) <= at[j]
        /\ \A k \in DOMAIN whole : \E i \in DOMAIN parts : at[i] < k /\ k <= at[i] + Len(parts[i])
  BY DEF Concatenates
<1>3. /\ Len(whole) \in Nat /\ DOMAIN whole = 1 .. Len(whole)
      /\ Len(part) \in Nat /\ DOMAIN part = 1 .. Len(part)
      /\ \A i \in DOMAIN parts : Len(parts[i]) \in Nat /\ DOMAIN parts[i] = 1 .. Len(parts[i])
  BY <1>1, LenProperties
<1>4. /\ longer \in Seq(S) /\ Len(longer) = Len(part) + Len(whole)
      /\ DOMAIN longer = 1 .. Len(part) + Len(whole)
      /\ \A k \in 1 .. Len(part) + Len(whole) :
           longer[k] = IF k <= Len(part) THEN part[k] ELSE whole[k - Len(part)]
  BY <1>1, ConcatProperties, LenProperties
<1> DEFINE to == [i \in DOMAIN more |-> IF i = p THEN 0 ELSE at[i] + Len(part)]
<1>5. \A i \in DOMAIN parts : to[i] = at[i] + Len(part) /\ at[i] \in 0 .. Len(whole)
  BY <1>1, <1>2
<1>6. to[p] = 0 /\ to \in [DOMAIN more -> 0 .. Len(longer)]
  BY <1>1, <1>3, <1>4, <1>5
<1> HIDE DEF part, longer, to
<1>7. ASSUME NEW i \in DOMAIN more, NEW k \in DOMAIN more[i]
      PROVE  to[i] + k <= Len(longer) /\ longer[to[i] + k] = more[i][k]
  <2>1. CASE i = p
    BY <2>1, <1>3, <1>4, <1>6, <1>7 DEF part
  <2>2. CASE i \in DOMAIN parts
    <3>1. k \in 1 .. Len(parts[i]) /\ at[i] + k <= Len(whole) /\ whole[at[i] + k] = more[i][k]
      BY <2>2, <1>1, <1>2, <1>3, <1>7
    <3>2. to[i] + k = Len(part) + (at[i] + k) /\ at[i] + k \in 1 .. Len(whole)
      BY <3>1, <2>2, <1>3, <1>5
    <3> QED BY <3>1, <3>2, <1>3, <1>4
  <2> QED BY <2>1, <2>2, <1>1
<1>8. ASSUME NEW i \in DOMAIN more, NEW j \in DOMAIN more, i < j
      PROVE  to[i] + Len(more[i]) <= to[j]
  <2>1. j \in DOMAIN parts
    BY <1>1, <1>8
  <2>2. CASE i \in DOMAIN parts
    BY <2>1, <2>2, <1>1, <1>2, <1>3, <1>5, <1>8
  <2>3. CASE i = p
    BY <2>1, <2>3, <1>3, <1>5, <1>6 DEF part
  <2> QED BY <2>2, <2>3, <1>1
<1>9. ASSUME NEW k \in DOMAIN longer
      PROVE  \E i \in DOMAIN more : to[i] < k /\ k <= to[i] + Len(more[i])
  <2>1. CASE k \in DOMAIN part
    BY <2>1, <1>1, <1>3, <1>6 DEF part
  <2>2. CASE k \notin DOMAIN part
    <3>1. k - Len(part) \in DOMAIN whole
      BY <2>2, <1>3, <1>4, <1>9
    <3>2. PICK i \in DOMAIN parts : at[i] < k - Len(part) /\ k - Len(part) <= at[i] + Len(parts[i])
      BY <3>1, <1>2
    <3>3. at[i] \in Nat /\ to[i] = at[i] + Len(part) /\ more[i] = parts[i] /\ Len(parts[i]) \in Nat
      BY <1>1, <1>3, <1>5
    <3>4. k \in Nat
      BY <1>4, <1>9
    <3>5. to[i] < k /\ k <= to[i] + Len(more[i])
      BY <3>2, <3>3, <3>4, <1>3
    <3> QED BY <3>5, <1>1
  <2> QED BY <2>1, <2>2
<1>10. Concatenates(longer, more)
  BY <1>6, <1>7, <1>8, <1>9 DEF Concatenates
<1> QED BY <1>10 DEF longer, part

-----------------------------------------------------------------------------
(* Configurations at some places, merged in their order.                   *)

Cookies(src, n) == [i \in DOMAIN src |-> src[i].cookies[n]]
Headers(src, n) == [i \in DOMAIN src |-> src[i].headers[n]]
Queries(src, n) == [i \in DOMAIN src |-> src[i].query[n]]
Auths(src)      == [i \in DOMAIN src |-> src[i].auth]
Proxies(src)    == [i \in DOMAIN src |-> src[i].proxy]
ApiKeys(src)    == [i \in DOMAIN src |-> src[i].apiKey]
OAuth2s(src)    == [i \in DOMAIN src |-> src[i].oauth2]

TextsAt(sections, f) ==
  [i \in DOMAIN sections |-> IF sections[i] = None THEN None ELSE sections[i].texts[f]]

UsesAt(sections) ==
  [i \in DOMAIN sections |-> IF sections[i] = None THEN None ELSE sections[i].useForSpecFetch]

MergesOAuth2(o, sections) ==
  /\ o = None <=> Given(sections) = {}
  /\ o # None =>
       /\ \A f \in OAuth2Strings : IsLast(o.texts[f], TextsAt(sections, f))
       /\ IsLast(o.useForSpecFetch, UsesAt(sections))

\* conf is what src comes to.
Aggregates(conf, src) ==
  /\ \A n \in Names : /\ IsFirst(conf.cookies[n], Cookies(src, n))
                      /\ Concatenates(conf.headers[n], Headers(src, n))
                      /\ Concatenates(conf.query[n], Queries(src, n))
  /\ IsLast(conf.auth, Auths(src)) /\ IsLast(conf.proxy, Proxies(src))
  /\ IsLast(conf.apiKey, ApiKeys(src)) /\ MergesOAuth2(conf.oauth2, OAuth2s(src))

\* The fields of a configuration.
LEMMA ConfigTypes ==
  ASSUME NEW c, IsConfig(c)
  PROVE  /\ c.cookies \in [Names -> OrNone(Texts)]
         /\ c.headers \in [Names -> Seq(Texts)] /\ c.query \in [Names -> Seq(Texts)]
         /\ c.auth \in OrNone(Credentials) /\ c.proxy \in OrNone(Credentials)
         /\ c.apiKey \in OrNone(Texts) /\ c.oauth2 \in OrNone(OAuth2Sections)
BY DEF IsConfig

\* Sections are merged into one, which is there if one of them is.
LEMMA OAuth2Merged ==
  ASSUME NEW o \in OrNone(OAuth2Sections), NEW new \in OrNone(OAuth2Sections)
  PROVE  /\ MergeOAuth2(o, new) \in OrNone(OAuth2Sections)
         /\ MergeOAuth2(o, new) = None <=> o = None /\ new = None
<1>1. CASE new = None
  BY <1>1 DEF MergeOAuth2
<1>2. CASE new # None
  <2> DEFINE texts == (IF o = None THEN NewOAuth2 ELSE o).texts
  <2>1. new \in OAuth2Sections
    BY <1>2 DEF OrNone
  <2>2. texts \in [OAuth2Strings -> OrNone(Texts)]
    BY DEF NewOAuth2, OAuth2Sections, OrNone
  <2>3. [texts |-> [f \in OAuth2Strings |-> Overwrite(texts[f], new.texts[f])],
         useForSpecFetch |-> new.useForSpecFetch] \in OAuth2Sections
    BY <2>1, <2>2 DEF Overwrite, OAuth2Sections
  <2>4. MergeOAuth2(o, new) \in OAuth2Sections
    BY <1>2, <2>3 DEF MergeOAuth2
  <2> QED BY <1>2, <2>4, NoneAssumption DEF OrNone
<1> QED BY <1>1, <1>2

\* What is merged is a configuration again.
LEMMA MergeTyped ==
  ASSUME NEW c, NEW d, IsConfig(c), IsConfig(d)
  PROVE  IsConfig(Merge(c, d))
<1> DEFINE m == Merge(c, d)
<1>1. \A n \in Names : Overwrite(d.cookies[n], c.cookies[n]) \in OrNone(Texts)
  BY ConfigTypes DEF Overwrite
<1>2. /\ Appended(c.headers, d.headers) \in [Names -> Seq(Texts)]
      /\ Appended(c.query, d.query) \in [Names -> Seq(Texts)]
  BY ConfigTypes, ConcatProperties DEF Appended
<1>3. /\ Overwrite(c.auth, d.auth) \in OrNone(Credentials)
      /\ Overwrite(c.proxy, d.proxy) \in OrNone(Credentials)
      /\ Overwrite(c.apiKey, d.apiKey) \in OrNone(Texts)
  BY ConfigTypes DEF Overwrite
<1>4. MergeOAuth2(c.oauth2, d.oauth2) \in OrNone(OAuth2Sections)
  BY ConfigTypes, OAuth2Merged
<1>5. m \in [target : {c.target}, cookies : [Names -> OrNone(Texts)],
             headers : [Names -> Seq(Texts)], query : [Names -> Seq(Texts)],
             auth : OrNone(Credentials), proxy : OrNone(Credentials),
             apiKey : OrNone(Texts), oauth2 : OrNone(OAuth2Sections)]
  BY <1>1, <1>2, <1>3, <1>4 DEF Merge
<1>6. m.target = c.target
  BY DEF Merge
<1> QED BY <1>5, <1>6 DEF IsConfig

\* OAuth2 sections at one more place.
LEMMA OAuth2AmongMore ==
  ASSUME NEW sections, NEW p, NEW more, NEW o \in OrNone(OAuth2Sections),
         MergesOAuth2(o, sections), OneMore(sections, p, more),
         more[p] \in OrNone(OAuth2Sections)
  PROVE  /\ AddedLast(sections, p, more)  => MergesOAuth2(MergeOAuth2(o, more[p]), more)
         /\ AddedFirst(sections, p, more) => MergesOAuth2(MergeOAuth2(more[p], o), more)
<1> DEFINE text(f) == IF o = None THEN None ELSE o.texts[f]
           used    == IF o = None THEN None ELSE o.useForSpecFetch
           at(f)   == IF more[p] = None THEN None ELSE more[p].texts[f]
           useAt   == IF more[p] = None THEN None ELSE more[p].useForSpecFetch
<1>1. /\ \A f \in OAuth2Strings : OneMore(TextsAt(sections, f), p, TextsAt(more, f))
      /\ OneMore(UsesAt(sections), p, UsesAt(more))
      /\ \A f \in OAuth2Strings : TextsAt(more, f)[p] = at(f)
      /\ UsesAt(more)[p] = useAt
  BY DEF OneMore, TextsAt, UsesAt
<1>2. /\ \A f \in OAuth2Strings : IsLast(text(f), TextsAt(sections, f))
      /\ IsLast(used, UsesAt(sections))
  <2>1. CASE o = None
    <3>1. Given(sections) = {}
      BY <2>1 DEF MergesOAuth2
    <3>2. \A f \in OAuth2Strings : Given(TextsAt(sections, f)) = {}
      BY <3>1 DEF Given, TextsAt
    <3>3. Given(UsesAt(sections)) = {}
      BY <3>1 DEF Given, UsesAt
    <3> QED BY <2>1, <3>2, <3>3 DEF IsLast
  <2>2. CASE o # None
    BY <2>2 DEF MergesOAuth2
  <2> QED BY <2>1, <2>2
<1>3. Given(more) = IF more[p] = None THEN Given(sections) ELSE Given(sections) \union {p}
  BY GivenWithOneMore
<1>4. /\ o # None => o = [texts |-> o.texts, useForSpecFetch |-> o.useForSpecFetch]
      /\ o # None => o.texts \in [OAuth2Strings -> OrNone(Texts)] /\ o.useForSpecFetch \in BOOLEAN
      /\ more[p] # None => /\ more[p].texts \in [OAuth2Strings -> OrNone(Texts)]
                           /\ more[p].useForSpecFetch \in BOOLEAN
  BY DEF OrNone, OAuth2Sections
<1>5. ASSUME AddedLast(sections, p, more)
      PROVE  MergesOAuth2(MergeOAuth2(o, more[p]), more)
  <2> DEFINE m == MergeOAuth2(o, more[p])
  <2>1. /\ \A f \in OAuth2Strings : IsLast(Overwrite(text(f), at(f)), TextsAt(more, f))
        /\ IsLast(Overwrite(used, useAt), UsesAt(more))
    <3>1. /\ \A f \in OAuth2Strings : AddedLast(TextsAt(sections, f), p, TextsAt(more, f))
          /\ AddedLast(UsesAt(sections), p, UsesAt(more))
      BY <1>1, <1>5 DEF AddedLast, TextsAt, UsesAt
    <3> QED BY <3>1, <1>1, <1>2, LastAmongMore
  <2>2. m = None <=> Given(more) = {}
    BY <1>3, OAuth2Merged DEF MergesOAuth2
  <2>3. ASSUME m # None
        PROVE  /\ \A f \in OAuth2Strings : m.texts[f] = Overwrite(text(f), at(f))
               /\ m.useForSpecFetch = Overwrite(used, useAt)
    BY <2>3, <1>4, NoneAssumption DEF MergeOAuth2, Overwrite, NewOAuth2
  <2> QED BY <2>1, <2>2, <2>3 DEF MergesOAuth2
<1>6. ASSUME AddedFirst(sections, p, more)
      PROVE  MergesOAuth2(MergeOAuth2(more[p], o), more)
  <2> DEFINE m == MergeOAuth2(more[p], o)
  <2>1. /\ \A f \in OAuth2Strings : IsLast(Overwrite(at(f), text(f)), TextsAt(more, f))
        /\ IsLast(Overwrite(useAt, used), UsesAt(more))
    <3>1. /\ \A f \in OAuth2Strings : AddedFirst(TextsAt(sections, f), p, TextsAt(more, f))
          /\ AddedFirst(UsesAt(sections), p, UsesAt(more))
      BY <1>1, <1>6 DEF AddedFirst, TextsAt, UsesAt
    <3> QED BY <3>1, <1>1, <1>2, LastAmongMore
  <2>2. m = None <=> Given(more) = {}
    BY <1>3, OAuth2Merged DEF MergesOAuth2
  <2>3. ASSUME m # None
        PROVE  /\ \A f \in OAuth2Strings : m.texts[f] = Overwrite(at(f), text(f))
               /\ m.useForSpecFetch = Overwrite(useAt, used)
    BY <2>3, <1>4, NoneAssumption DEF MergeOAuth2, Overwrite, NewOAuth2
  <2> QED BY <2>1, <2>2, <2>3 DEF MergesOAuth2
<1> QED BY <1>5, <1>6

\* Nothing comes to the empty configuration.
LEMMA NothingAggregated ==
  ASSUME NEW src, DOMAIN src = {}
  PROVE  Aggregates(NewConfig, src) /\ IsConfig(NewConfig)
<1>1. << >> \in Seq(Texts) /\ Len(<< >>) = 0 /\ DOMAIN << >> = {}
  BY EmptySeq
<1>2. \A values : DOMAIN values = {} => IsFirst(None, values) /\ IsLast(None, values) /\ Given(values) = {}
  BY DEF IsFirst, IsLast, Given
<1>3. \A parts : DOMAIN parts = {} => Concatenates(<< >>, parts)
  <2>1. SUFFICES ASSUME NEW parts, DOMAIN parts = {}
                 PROVE  Concatenates(<< >>, parts)
    OBVIOUS
  <2>2. [i \in DOMAIN parts |-> 0] \in [DOMAIN parts -> 0 .. Len(<< >>)]
    BY <2>1
  <2> QED BY <2>1, <2>2, <1>1 DEF Concatenates
<1>4. Aggregates(NewConfig, src)
  <2>1. \A n \in Names : /\ DOMAIN Cookies(src, n) = {} /\ DOMAIN Headers(src, n) = {}
                         /\ DOMAIN Queries(src, n) = {}
    BY DEF Cookies, Headers, Queries
  <2>2. /\ DOMAIN Auths(src) = {} /\ DOMAIN Proxies(src) = {} /\ DOMAIN ApiKeys(src) = {}
        /\ DOMAIN OAuth2s(src) = {}
    BY DEF Auths, Proxies, ApiKeys, OAuth2s
  <2>3. /\ \A n \in Names : /\ NewConfig.cookies[n] = None /\ NewConfig.headers[n] = << >>
                            /\ NewConfig.query[n] = << >>
        /\ NewConfig.auth = None /\ NewConfig.proxy = None /\ NewConfig.apiKey = None
        /\ NewConfig.oauth2 = None
    BY DEF NewConfig
  <2> QED BY <2>1, <2>2, <2>3, <1>2, <1>3 DEF Aggregates, MergesOAuth2
<1>5. IsConfig(NewConfig)
  BY <1>1 DEF IsConfig, NewConfig, OrNone
<1> QED BY <1>4, <1>5

\* One more configuration, merged after the others or before them.
LEMMA MergeAggregates ==
  ASSUME NEW conf, NEW src, NEW p, NEW more, IsConfig(conf), Aggregates(conf, src),
         OneMore(src, p, more), \A i \in DOMAIN more : IsConfig(more[i])
  PROVE  /\ AddedLast(src, p, more)  => Aggregates(Merge(conf, more[p]), more)
         /\ AddedFirst(src, p, more) => Aggregates(Merge(more[p], conf), more)
<1> DEFINE c == more[p]
<1>1. p \in DOMAIN more /\ IsConfig(c)
  BY DEF OneMore
<1>2. \A n \in Names : /\ \A i \in DOMAIN more : Headers(more, n)[i] \in Seq(Texts)
                       /\ \A i \in DOMAIN more : Queries(more, n)[i] \in Seq(Texts)
                       /\ DOMAIN Headers(more, n) = DOMAIN more
                       /\ DOMAIN Queries(more, n) = DOMAIN more
                       /\ conf.headers[n] \in Seq(Texts) /\ conf.query[n] \in Seq(Texts)
  BY ConfigTypes DEF Headers, Queries
<1>3. /\ \A n \in Names : /\ Cookies(more, n)[p] = c.cookies[n]
                          /\ Headers(more, n)[p] = c.headers[n] /\ Queries(more, n)[p] = c.query[n]
      /\ Auths(more)[p] = c.auth /\ Proxies(more)[p] = c.proxy /\ ApiKeys(more)[p] = c.apiKey
      /\ OAuth2s(more)[p] = c.oauth2
  BY <1>1 DEF Cookies, Headers, Queries, Auths, Proxies, ApiKeys, OAuth2s
<1>4. /\ conf.oauth2 \in OrNone(OAuth2Sections) /\ c.oauth2 \in OrNone(OAuth2Sections)
  BY <1>1, ConfigTypes
<1>5. ASSUME AddedLast(src, p, more)
      PROVE  Aggregates(Merge(conf, c), more)
  <2> DEFINE m == Merge(conf, c)
  <2>1. /\ \A n \in Names : /\ AddedLast(Cookies(src, n), p, Cookies(more, n))
                            /\ AddedLast(Headers(src, n), p, Headers(more, n))
                            /\ AddedLast(Queries(src, n), p, Queries(more, n))
        /\ AddedLast(Auths(src), p, Auths(more)) /\ AddedLast(Proxies(src), p, Proxies(more))
        /\ AddedLast(ApiKeys(src), p, ApiKeys(more)) /\ AddedLast(OAuth2s(src), p, OAuth2s(more))
    BY <1>5 DEF AddedLast, OneMore, Cookies, Headers, Queries, Auths, Proxies, ApiKeys, OAuth2s
  <2>2. /\ \A n \in Names : /\ m.cookies[n] = Overwrite(c.cookies[n], conf.cookies[n])
                            /\ m.headers[n] = conf.headers[n] \o c.headers[n]
                            /\ m.query[n] = conf.query[n] \o c.query[n]
        /\ m.auth = Overwrite(conf.auth, c.auth) /\ m.proxy = Overwrite(conf.proxy, c.proxy)
        /\ m.apiKey = Overwrite(conf.apiKey, c.apiKey)
        /\ m.oauth2 = MergeOAuth2(conf.oauth2, c.oauth2)
    BY DEF Merge, Appended
  <2> HIDE DEF m, c
  <2>3. ASSUME NEW n \in Names
        PROVE  /\ IsFirst(m.cookies[n], Cookies(more, n))
               /\ Concatenates(m.headers[n], Headers(more, n))
               /\ Concatenates(m.query[n], Queries(more, n))
    <3>1. /\ IsFirst(conf.cookies[n], Cookies(src, n))
          /\ Concatenates(conf.headers[n], Headers(src, n))
          /\ Concatenates(conf.query[n], Queries(src, n))
      BY DEF Aggregates
    <3>2. /\ AddedLast(Cookies(src, n), p, Cookies(more, n))
          /\ AddedLast(Headers(src, n), p, Headers(more, n))
          /\ AddedLast(Queries(src, n), p, Queries(more, n))
      BY <2>1
    <3>3. /\ m.cookies[n] = Overwrite(Cookies(more, n)[p], conf.cookies[n])
          /\ m.headers[n] = conf.headers[n] \o Headers(more, n)[p]
          /\ m.query[n] = conf.query[n] \o Queries(more, n)[p]
      BY <1>3, <2>2
    <3>4. IsFirst(Overwrite(Cookies(more, n)[p], conf.cookies[n]), Cookies(more, n))
      BY <3>1, <3>2, FirstAmongMore
    <3>5. Concatenates(conf.headers[n] \o Headers(more, n)[p], Headers(more, n))
      BY <3>1, <3>2, <1>2, PartAddedLast
    <3>6. Concatenates(conf.query[n] \o Queries(more, n)[p], Queries(more, n))
      BY <3>1, <3>2, <1>2, PartAddedLast
    <3> QED BY <3>3, <3>4, <3>5, <3>6
  <2>4. /\ IsLast(m.auth, Auths(more)) /\ IsLast(m.proxy, Proxies(more))
        /\ IsLast(m.apiKey, ApiKeys(more))
    <3>1. /\ IsLast(conf.auth, Auths(src)) /\ IsLast(conf.proxy, Proxies(src))
          /\ IsLast(conf.apiKey, ApiKeys(src))
      BY DEF Aggregates
    <3>2. /\ m.auth = Overwrite(conf.auth, Auths(more)[p])
          /\ m.proxy = Overwrite(conf.proxy, Proxies(more)[p])
          /\ m.apiKey = Overwrite(conf.apiKey, ApiKeys(more)[p])
      BY <1>3, <2>2
    <3>3. /\ IsLast(Overwrite(conf.auth, Auths(more)[p]), Auths(more))
          /\ IsLast(Overwrite(conf.proxy, Proxies(more)[p]), Proxies(more))
          /\ IsLast(Overwrite(conf.apiKey, ApiKeys(more)[p]), ApiKeys(more))
      BY <3>1, <2>1, LastAmongMore
    <3> QED BY <3>2, <3>3
  <2>5. MergesOAuth2(m.oauth2, OAuth2s(more))
    BY <1>3, <1>4, <2>1, <2>2, OAuth2AmongMore DEF Aggregates, AddedLast
  <2>6. Aggregates(m, more)
    BY <2>3, <2>4, <2>5 DEF Aggregates
  <2> QED BY <2>6 DEF m
<1>6. ASSUME AddedFirst(src, p, more)
      PROVE  Aggregates(Merge(c, conf), more)
  <2> DEFINE m == Merge(c, conf)
  <2>1. /\ \A n \in Names : /\ AddedFirst(Cookies(src, n), p, Cookies(more, n))
                            /\ AddedFirst(Headers(src, n), p, Headers(more, n))
                            /\ AddedFirst(Queries(src, n), p, Queries(more, n))
        /\ AddedFirst(Auths(src), p, Auths(more)) /\ AddedFirst(Proxies(src), p, Proxies(more))
        /\ AddedFirst(ApiKeys(src), p, ApiKeys(more)) /\ AddedFirst(OAuth2s(src), p, OAuth2s(more))
    BY <1>6 DEF AddedFirst, OneMore, Cookies, Headers, Queries, Auths, Proxies, ApiKeys, OAuth2s
  <2>2. /\ \A n \in Names : /\ m.cookies[n] = Overwrite(conf.cookies[n], c.cookies[n])
                            /\ m.headers[n] = c.headers[n] \o conf.headers[n]
                            /\ m.query[n] = c.query[n] \o conf.query[n]
        /\ m.auth = Overwrite(c.auth, conf.auth) /\ m.proxy = Overwrite(c.proxy, conf.proxy)
        /\ m.apiKey = Overwrite(c.apiKey, conf.apiKey)
        /\ m.oauth2 = MergeOAuth2(c.oauth2, conf.oauth2)
    BY DEF Merge, Appended
  <2> HIDE DEF m, c
  <2>3. ASSUME NEW n \in Names
        PROVE  /\ IsFirst(m.cookies[n], Cookies(more, n))
               /\ Concatenates(m.headers[n], Headers(more, n))
               /\ Concatenates(m.query[n], Queries(more, n))
    <3>1. /\ IsFirst(conf.cookies[n], Cookies(src, n))
          /\ Concatenates(conf.headers[n], Headers(src, n))
          /\ Concatenates(conf.query[n], Queries(src, n))
      BY DEF Aggregates
    <3>2. /\ AddedFirst(Cookies(src, n), p, Cookies(more, n))
          /\ AddedFirst(Headers(src, n), p, Headers(more, n))
          /\ AddedFirst(Queries(src, n), p, Queries(more, n))
      BY <2>1
    <3>3. /\ m.cookies[n] = Overwrite(conf.cookies[n], Cookies(more, n)[p])
          /\ m.headers[n] = Headers(more, n)[p] \o conf.headers[n]
          /\ m.query[n] = Queries(more, n)[p] \o conf.query[n]
      BY <1>3, <2>2
    <3>4. IsFirst(Overwrite(conf.cookies[n], Cookies(more, n)[p]), Cookies(more, n))
      BY <3>1, <3>2, FirstAmongMore
    <3>5. Concatenates(Headers(more, n)[p] \o conf.headers[n], Headers(more, n))
      BY <3>1, <3>2, <1>2, PartAddedFirst
    <3>6. Concatenates(Queries(more, n)[p] \o conf.query[n], Queries(more, n))
      BY <3>1, <3>2, <1>2, PartAddedFirst
    <3> QED BY <3>3, <3>4, <3>5, <3>6
  <2>4. /\ IsLast(m.auth, Auths(more)) /\ IsLast(m.proxy, Proxies(more))
        /\ IsLast(m.apiKey, ApiKeys(more))
    <3>1. /\ IsLast(conf.auth, Auths(src)) /\ IsLast(conf.proxy, Proxies(src))
          /\ IsLast(conf.apiKey, ApiKeys(src))
      BY DEF Aggregates
    <3>2. /\ m.auth = Overwrite(Auths(more)[p], conf.auth)
          /\ m.proxy = Overwrite(Proxies(more)[p], conf.proxy)
          /\ m.apiKey = Overwrite(ApiKeys(more)[p], conf.apiKey)
      BY <1>3, <2>2
    <3>3. /\ IsLast(Overwrite(Auths(more)[p], conf.auth), Auths(more))
          /\ IsLast(Overwrite(Proxies(more)[p], conf.proxy), Proxies(more))
          /\ IsLast(Overwrite(ApiKeys(more)[p], conf.apiKey), ApiKeys(more))
      BY <3>1, <2>1, LastAmongMore
    <3> QED BY <3>2, <3>3
  <2>5. MergesOAuth2(m.oauth2, OAuth2s(more))
    BY <1>3, <1>4, <2>1, <2>2, OAuth2AmongMore DEF Aggregates, AddedFirst
  <2>6. Aggregates(m, more)
    BY <2>3, <2>4, <2>5 DEF Aggregates
  <2> QED BY <2>6 DEF m
<1> QED BY <1>5, <1>6

-----------------------------------------------------------------------------
(* The inductive invariant of the lookup.                                  *)

\* The matching entries the loop has passed.
Passed == [i \in {j \in matching : j < next} |-> settings[i]]

\* The loop stays within the settings, and all it puts together is a configuration.
LookupTypeOK ==
  /\ settings \in SettingsLists /\ matching \subseteq DOMAIN settings
  /\ httpConfig \in AdHocConfigs /\ use \in {"call", "fetch"}
  /\ next \in 1 .. Len(settings) + 1
  /\ IsConfig(result)
  /\ sent # None => IsConfig(sent) /\ next > Len(settings)

LookupInv ==
  /\ LookupTypeOK
  /\ Aggregates(result, Passed)
  /\ sent # None =>
       /\ sent = IF use = "call" THEN Merge(result, httpConfig) ELSE Merge(httpConfig, result)
       /\ Aggregates(sent, Source)

\* The settings are a list of configurations.
LEMMA SettingsAreConfigs ==
  ASSUME settings \in SettingsLists
  PROVE  /\ Len(settings) \in Nat /\ DOMAIN settings = 1 .. Len(settings)
         /\ \A i \in DOMAIN settings : IsConfig(settings[i])
BY ConfigsAssumption, LenProperties DEF IsConfigList

\* The places of a request, each with a configuration.
LEMMA PlacesAreConfigs ==
  ASSUME LookupTypeOK
  PROVE  /\ Places \subseteq Nat /\ DOMAIN Source = Places
         /\ \A i \in Places : IsConfig(Source[i])
         /\ \A i \in matching : i \in 1 .. Len(settings) /\ Source[i] = settings[i]
         /\ Len(settings) + 1 \notin DOMAIN settings /\ 0 \notin DOMAIN settings
BY SettingsAreConfigs, ConfigsAssumption DEF LookupTypeOK, Places, Source

LEMMA LookupInitially == Init => LookupInv
<1> SUFFICES ASSUME Init PROVE LookupInv
  OBVIOUS
<1>1. /\ Len(settings) \in Nat /\ DOMAIN settings = 1 .. Len(settings)
  BY SettingsAreConfigs DEF Init
<1>2. DOMAIN Passed = {}
  BY <1>1 DEF Init, Passed
<1> QED
  BY <1>1, <1>2, NothingAggregated DEF Init, LookupInv, LookupTypeOK

\* All entries have been passed.
LEMMA AllPassed ==
  ASSUME LookupTypeOK, next > Len(settings)
  PROVE  DOMAIN Passed = matching /\ \A i \in matching : Passed[i] = Source[i]
<1>1. {j \in matching : j < next} = matching
  BY PlacesAreConfigs, SettingsAreConfigs DEF LookupTypeOK
<1> QED BY <1>1, PlacesAreConfigs DEF Passed

LEMMA LookupInductive == LookupInv /\ [Next]_vars => LookupInv'
<1> SUFFICES ASSUME LookupInv, [Next]_vars PROVE LookupInv'
  OBVIOUS
<1>1. /\ settings \in SettingsLists /\ next \in 1 .. Len(settings) + 1
      /\ Len(settings) \in Nat /\ DOMAIN settings = 1 .. Len(settings)
      /\ \A i \in DOMAIN settings : IsConfig(settings[i])
      /\ matching \subseteq DOMAIN settings
  BY SettingsAreConfigs DEF LookupInv, LookupTypeOK
<1>2. CASE AggregateMatching
  <2>1. next \in 1 .. Len(settings) /\ next' = next + 1 /\ sent = None
    BY <1>1, <1>2 DEF AggregateMatching, LookupInv, LookupTypeOK
  <2>2. DOMAIN Passed' = DOMAIN Passed \union {next}
    BY <1>1, <1>2, <2>1 DEF AggregateMatching, Passed
  <2>3. AddedLast(Passed, next, Passed') /\ Passed'[next] = settings[next]
    BY <1>1, <1>2, <2>1, <2>2 DEF AggregateMatching, Passed, AddedLast, OneMore
  <2>4. \A i \in DOMAIN Passed' : IsConfig(Passed'[i])
    BY <1>1, <1>2, <2>2 DEF AggregateMatching, Passed
  <2>5. Aggregates(result', Passed')
    <3>1. OneMore(Passed, next, Passed') /\ IsConfig(result) /\ Aggregates(result, Passed)
      BY <2>3 DEF AddedLast, LookupInv, LookupTypeOK
    <3>2. Aggregates(Merge(result, Passed'[next]), Passed')
      BY <2>3, <2>4, <3>1, MergeAggregates
    <3> QED BY <3>2, <2>3, <1>2 DEF AggregateMatching
  <2>6. IsConfig(result')
    BY <1>1, <1>2, <2>1, MergeTyped DEF AggregateMatching, LookupInv, LookupTypeOK
  <2> QED
    BY <1>1, <1>2, <2>1, <2>5, <2>6 DEF AggregateMatching, LookupInv, LookupTypeOK
<1>3. CASE SkipOther
  <2>1. next \in 1 .. Len(settings) /\ next' = next + 1 /\ sent = None
    BY <1>1, <1>3 DEF SkipOther, LookupInv, LookupTypeOK
  <2>2. Passed' = Passed
    <3>1. {j \in matching : j < next + 1} = {j \in matching : j < next}
      BY <1>1, <1>3 DEF SkipOther
    <3> QED BY <3>1, <2>1, <1>3 DEF SkipOther, Passed
  <2>3. LookupTypeOK'
    BY <1>1, <1>3, <2>1 DEF SkipOther, LookupInv, LookupTypeOK
  <2> QED BY <1>3, <2>1, <2>2, <2>3 DEF SkipOther, LookupInv
<1>4. ASSUME ConfigureCall \/ ConfigureFetch
      PROVE  LookupInv'
  <2> DEFINE p == IF use = "call" THEN Len(settings) + 1 ELSE 0
  <2>1. LookupTypeOK /\ next > Len(settings) /\ IsConfig(result) /\ IsConfig(httpConfig)
    BY <1>4, ConfigsAssumption DEF ConfigureCall, ConfigureFetch, LookupInv, LookupTypeOK
  <2>2. /\ use = "call" => sent' = Merge(result, httpConfig)
        /\ use # "call" => sent' = Merge(httpConfig, result)
    BY <1>4 DEF ConfigureCall, ConfigureFetch
  <2>3. /\ UNCHANGED <<settings, matching, httpConfig, use, next, result>>
        /\ Source' = Source /\ Passed' = Passed
    BY <1>4 DEF ConfigureCall, ConfigureFetch, Source, Places, Passed
  <2>4. /\ p \in Nat /\ p \notin matching /\ Source[p] = httpConfig
        /\ DOMAIN Source = matching \union {p}
        /\ DOMAIN Source \subseteq Nat /\ \A i \in DOMAIN Source : IsConfig(Source[i])
        /\ DOMAIN Passed = matching /\ \A i \in matching : Passed[i] = Source[i]
    <3>1. p \in Nat /\ p \notin DOMAIN settings /\ Places = matching \union {p}
      BY <1>1, PlacesAreConfigs, <2>1 DEF Places
    <3> HIDE DEF p
    <3>2. Source[p] = httpConfig
      BY <3>1 DEF Source
    <3> QED BY <3>1, <3>2, <2>1, <1>1, PlacesAreConfigs, AllPassed
  <2>5. /\ use = "call" => AddedLast(Passed, p, Source)
        /\ use # "call" => AddedFirst(Passed, p, Source)
        /\ OneMore(Passed, p, Source)
    <3>1. OneMore(Passed, p, Source)
      BY <2>4 DEF OneMore
    <3>2. use = "call" => \A i \in matching : i < p
      BY <1>1
    <3>3. use # "call" => \A i \in matching : p < i
      BY <1>1
    <3> HIDE DEF p
    <3> QED BY <3>1, <3>2, <3>3, <2>4 DEF AddedLast, AddedFirst
  <2> HIDE DEF p
  <2>6. Aggregates(sent', Source)
    <3>1. Aggregates(result, Passed)
      BY DEF LookupInv
    <3>2. CASE use = "call"
      <4>1. Aggregates(Merge(result, Source[p]), Source)
        BY <3>1, <3>2, <2>1, <2>4, <2>5, MergeAggregates
      <4> QED BY <4>1, <3>2, <2>2, <2>4
    <3>3. CASE use # "call"
      <4>1. Aggregates(Merge(Source[p], result), Source)
        BY <3>1, <3>3, <2>1, <2>4, <2>5, MergeAggregates
      <4> QED BY <4>1, <3>3, <2>2, <2>4
    <3> QED BY <3>2, <3>3
  <2>7. IsConfig(sent')
    BY <2>1, <2>2, MergeTyped
  <2>8. LookupTypeOK'
    BY <2>1, <2>3, <2>7 DEF LookupTypeOK
  <2>9. Aggregates(result', Passed') /\ Aggregates(sent', Source')
    BY <2>3, <2>6 DEF LookupInv
  <2> QED BY <2>2, <2>3, <2>8, <2>9 DEF LookupInv
<1>5. CASE UNCHANGED vars
  <2>1. Source' = Source /\ Passed' = Passed
    BY <1>5 DEF vars, Source, Places, Passed
  <2> QED BY <1>5, <2>1 DEF vars, LookupInv, LookupTypeOK
<1> QED BY <1>2, <1>3, <1>4, <1>5 DEF Next

-----------------------------------------------------------------------------
(* What the invariant says of a request.                                   *)

\* The settings' part, once all entries have been passed.
LEMMA EntriesFollow ==
  ASSUME LookupInv, next > Len(settings)
  PROVE  /\ \A n \in Names :
              result.cookies[n] = FirstOf([i \in matching |-> settings[i].cookies[n]])
         /\ result.auth = LastOf([i \in matching |-> settings[i].auth])
         /\ result.proxy = LastOf([i \in matching |-> settings[i].proxy])
         /\ result.apiKey = LastOf([i \in matching |-> settings[i].apiKey])
<1>1. /\ DOMAIN Passed = matching /\ \A i \in matching : Passed[i] = settings[i]
      /\ matching \subseteq Nat /\ Aggregates(result, Passed)
  BY AllPassed, PlacesAreConfigs DEF LookupInv
<1>2. ASSUME NEW n \in Names
      PROVE  result.cookies[n] = FirstOf([i \in matching |-> settings[i].cookies[n]])
  <2>1. Cookies(Passed, n) = [i \in matching |-> settings[i].cookies[n]]
    BY <1>1 DEF Cookies
  <2>2. IsFirst(result.cookies[n], [i \in matching |-> settings[i].cookies[n]])
    BY <1>1, <2>1 DEF Aggregates
  <2>3. DOMAIN [i \in matching |-> settings[i].cookies[n]] \subseteq Nat
    BY <1>1
  <2> QED BY <2>2, <2>3, FirstIsFirstOf
<1>3. /\ IsLast(result.auth, [i \in matching |-> settings[i].auth])
      /\ IsLast(result.proxy, [i \in matching |-> settings[i].proxy])
      /\ IsLast(result.apiKey, [i \in matching |-> settings[i].apiKey])
  <2>1. /\ Auths(Passed) = [i \in matching |-> settings[i].auth]
        /\ Proxies(Passed) = [i \in matching |-> settings[i].proxy]
        /\ ApiKeys(Passed) = [i \in matching |-> settings[i].apiKey]
    BY <1>1 DEF Auths, Proxies, ApiKeys
  <2> QED BY <1>1, <2>1 DEF Aggregates
<1>4. /\ DOMAIN [i \in matching |-> settings[i].auth] \subseteq Nat
      /\ DOMAIN [i \in matching |-> settings[i].proxy] \subseteq Nat
      /\ DOMAIN [i \in matching |-> settings[i].apiKey] \subseteq Nat
  BY <1>1
<1> QED BY <1>2, <1>3, <1>4, LastIsLastOf

\* The headers and query parameters of the request.
LEMMA RequestConcatenates ==
  ASSUME LookupInv, sent # None, NEW n \in Names
  PROVE  /\ Concatenates(sent.headers[n], [i \in Places |-> Source[i].headers[n]])
         /\ Concatenates(sent.query[n], [i \in Places |-> Source[i].query[n]])
<1>1. DOMAIN Source = Places /\ Aggregates(sent, Source)
  BY PlacesAreConfigs DEF LookupInv
<1> QED BY <1>1 DEF Aggregates, Headers, Queries

LEMMA PrecedenceFollows == LookupInv => PrecedenceHolds
BY EntriesFollow, RequestConcatenates DEF PrecedenceHolds

LEMMA OAuth2Follows == LookupInv => OAuth2FieldWise
<1> DEFINE sections == [i \in Places |-> Source[i].oauth2]
           text(f) == [i \in Places |-> IF sections[i] = None THEN None ELSE sections[i].texts[f]]
           uses == [i \in Places |-> IF sections[i] = None THEN None ELSE sections[i].useForSpecFetch]
<1>0. SpecFetchUses = uses
  BY DEF SpecFetchUses
<1> SUFFICES ASSUME LookupInv, sent # None
             PROVE  /\ sent.oauth2 = None <=> Given(sections) = {}
                    /\ sent.oauth2 # None =>
                         /\ \A f \in OAuth2Strings : sent.oauth2.texts[f] = LastOf(text(f))
                         /\ sent.oauth2.useForSpecFetch = LastOf(uses)
  BY <1>0 DEF OAuth2FieldWise
<1>1. Places \subseteq Nat /\ DOMAIN Source = Places /\ Aggregates(sent, Source)
  BY PlacesAreConfigs DEF LookupInv
<1>2. MergesOAuth2(sent.oauth2, sections)
  BY <1>1 DEF Aggregates, OAuth2s
<1>3. /\ \A f \in OAuth2Strings : TextsAt(sections, f) = text(f)
      /\ UsesAt(sections) = uses
  BY DEF TextsAt, UsesAt
<1>4. ASSUME sent.oauth2 # None
      PROVE  /\ \A f \in OAuth2Strings : IsLast(sent.oauth2.texts[f], text(f))
             /\ IsLast(sent.oauth2.useForSpecFetch, uses)
  BY <1>2, <1>3, <1>4 DEF MergesOAuth2
<1>5. (\A f \in OAuth2Strings : DOMAIN text(f) \subseteq Nat) /\ DOMAIN uses \subseteq Nat
  BY <1>1
<1>6. sent.oauth2 = None <=> Given(sections) = {}
  BY <1>2 DEF MergesOAuth2
<1> HIDE DEF sections, text, uses
<1> QED BY <1>4, <1>5, <1>6, LastIsLastOf

LEMMA CredentialsFollow == LookupInv => FetchKeepsCredentials
<1> SUFFICES ASSUME LookupInv, use = "fetch", sent # None
             PROVE  \A s \in {"auth", "proxy", "apiKey"} : result[s] # None => sent[s] = result[s]
  BY DEF FetchKeepsCredentials
<1>1. sent = Merge(httpConfig, result)
  BY DEF LookupInv
<1>2. /\ sent.auth = Overwrite(httpConfig.auth, result.auth)
      /\ sent.proxy = Overwrite(httpConfig.proxy, result.proxy)
      /\ sent.apiKey = Overwrite(httpConfig.apiKey, result.apiKey)
  BY <1>1 DEF Merge
<1> QED BY <1>2 DEF Overwrite

-----------------------------------------------------------------------------
(* The inductive invariant of the fetch.                                   *)

Authorization == sent.headers["Authorization"]

\* The token that is put into the request, by what the endpoint has granted.
TokenOK ==
  /\ minted \in {None, Minted}
  /\ minted = None => token = None
  /\ minted = Minted =>
       /\ sent.oauth2 # None /\ sent.oauth2.useForSpecFetch
       /\ token = Extracted(Append(Authorization, Bearer(Minted)))

RequestOK ==
  request # None =>
    request = Applied(IF token = None THEN sent ELSE AddHeader(sent, Bearer(token)))

\* The servers of a document that was read.
ServersRead ==
  LET named == IF document = << >> THEN <<NewServer>> ELSE document
  IN  document \in ServerLists /\ servers = [i \in DOMAIN named |-> Completed(named[i])]

FetchInv ==
  /\ phase \in {"configuring", "authorised", "waiting", "fetched", "thrown", "made"}
  /\ phase = "configuring" => minted = None /\ token = None /\ request = None
  /\ phase # "configuring" => use = "fetch" /\ sent # None
  /\ TokenOK
  /\ RequestOK
  /\ phase \in {"configuring", "authorised", "waiting"} => document = None
  /\ phase \in {"fetched", "made"} => ServersRead
  /\ phase = "made" => index \in ServerIndexes /\ index < Len(servers)
  /\ phase = "thrown" /\ document # None =>
       ServersRead /\ index \in ServerIndexes /\ ~ (index < Len(servers))

\* A document names at least one server, and each server is where calls can go.
LEMMA ServersComplete ==
  ASSUME ServersRead
  PROVE  /\ Len(servers) \in Nat /\ Len(servers) >= 1
         /\ Len(servers) = IF document = << >> THEN 1 ELSE Len(document)
         /\ document # << >> => \A i \in 1 .. Len(servers) : servers[i] = Completed(document[i])
         /\ document = << >> => servers[1] = Completed(NewServer)
         /\ \A i \in 1 .. Len(servers) : servers[i].scheme # "" /\ servers[i].host # ""
<1> DEFINE named == IF document = << >> THEN <<NewServer>> ELSE document
<1>1. document \in Seq(Range(document))
  BY FetchAssumption DEF ServersRead
<1>2. /\ named \in Seq(Range(document) \union {NewServer})
      /\ Len(named) = IF document = << >> THEN 1 ELSE Len(document)
      /\ Len(named) \in Nat /\ Len(named) >= 1
  <2>1. CASE document = << >>
    BY <2>1
  <2>2. CASE document # << >>
    BY <2>2, <1>1, EmptySeq, SeqMonotonic
  <2> QED BY <2>1, <2>2
<1>3. DOMAIN named = 1 .. Len(named) /\ servers = [i \in 1 .. Len(named) |-> Completed(named[i])]
  BY <1>2, LenProperties DEF ServersRead
<1>4. document # << >> => named = document
  OBVIOUS
<1>5. document = << >> => named[1] = NewServer
  OBVIOUS
<1> HIDE DEF named
<1>6. Len(servers) = Len(named)
  BY <1>2, <1>3
<1>7. ASSUME NEW s
      PROVE  Completed(s).scheme # "" /\ Completed(s).host # ""
  BY FetchAssumption DEF Completed
<1>8. \A i \in 1 .. Len(servers) : servers[i] = Completed(named[i])
  BY <1>3, <1>6
<1>9. document = << >> => servers[1] = Completed(NewServer)
  BY <1>2, <1>5, <1>6, <1>8
<1>10. document # << >> => \A i \in 1 .. Len(servers) : servers[i] = Completed(document[i])
  BY <1>4, <1>8
<1>11. \A i \in 1 .. Len(servers) : servers[i].scheme # "" /\ servers[i].host # ""
  BY <1>7, <1>8
<1> QED BY <1>2, <1>6, <1>9, <1>10, <1>11

LEMMA FetchInitially == FetchInit => LookupInv /\ FetchInv
<1>1. FetchInit => LookupInv
  BY LookupInitially DEF FetchInit
<1>2. FetchInit => FetchInv
  BY FetchAssumption DEF FetchInit, FetchInv, TokenOK, RequestOK
<1> QED BY <1>1, <1>2

\* The fetch leaves the lookup alone.
LEMMA FetchSteps == [FetchNext]_fetchVars => [Next]_vars
BY DEF FetchNext, fetchVars, SkipToken, MintSucceeds, MintFails, RequestDocument, DocumentArrives,
       DocumentFails, MakeClient

LEMMA FetchInductive == LookupInv /\ FetchInv /\ [FetchNext]_fetchVars => FetchInv'
<1> SUFFICES ASSUME LookupInv, FetchInv, [FetchNext]_fetchVars PROVE FetchInv'
  OBVIOUS
<1>1. CASE Next /\ UNCHANGED fetch
  <2>1. sent = None
    BY <1>1, SettingsAreConfigs
    DEF Next, AggregateMatching, SkipOther, ConfigureCall, ConfigureFetch, LookupInv, LookupTypeOK
  <2>2. phase = "configuring"
    BY <2>1 DEF FetchInv
  <2> QED BY <1>1, <2>2, FetchAssumption DEF fetch, FetchInv, TokenOK, RequestOK, ServersRead
<1>2. CASE SkipToken
  BY <1>2, FetchAssumption DEF SkipToken, Configured, vars, FetchInv, TokenOK, RequestOK
<1>3. CASE MintSucceeds
  <2>1. UNCHANGED vars /\ request' = None /\ document' = None /\ phase' = "authorised"
        /\ minted' = Minted /\ use = "fetch" /\ sent # None
        /\ sent.oauth2 # None /\ sent.oauth2.useForSpecFetch
    BY <1>3 DEF MintSucceeds, Configured, TokenWanted, FetchInv
  <2>2. sent.headers \in [Names -> Seq(Texts)] /\ "headers" \in DOMAIN sent
    BY <2>1 DEF LookupInv, LookupTypeOK, IsConfig
  <2>3. AddHeader(sent, Bearer(Minted)).headers["Authorization"] = Append(Authorization, Bearer(Minted))
    BY <2>2, FetchAssumption DEF AddHeader, Authorization
  <2>4. token' = Extracted(Append(Authorization, Bearer(Minted)))
    BY <1>3, <2>3 DEF MintSucceeds
  <2> QED
    BY <2>1, <2>4, FetchAssumption DEF vars, FetchInv, TokenOK, RequestOK, Authorization
<1>4. CASE MintFails
  BY <1>4, FetchAssumption DEF MintFails, Configured, vars, FetchInv, TokenOK, RequestOK
<1>5. CASE RequestDocument
  BY <1>5 DEF RequestDocument, vars, FetchInv, TokenOK, RequestOK, Authorization
<1>6. CASE DocumentArrives
  BY <1>6 DEF DocumentArrives, vars, FetchInv, TokenOK, RequestOK, Authorization, ServersRead
<1>7. CASE DocumentFails
  BY <1>7 DEF DocumentFails, vars, FetchInv, TokenOK, RequestOK, Authorization
<1>8. CASE MakeClient
  <2>1. ServersRead /\ UNCHANGED <<vars, minted, token, request, document, servers>>
        /\ index' \in ServerIndexes /\ use = "fetch" /\ sent # None
    BY <1>8 DEF MakeClient, FetchInv
  <2>2. index' < Len(servers) => servers[index' + 1].scheme # "" /\ servers[index' + 1].host # ""
    <3>1. index' \in Nat /\ Len(servers) \in Nat
      BY <2>1, FetchAssumption, ServersComplete
    <3>2. \A k, n \in Nat : k < n => k + 1 \in 1 .. n
      OBVIOUS
    <3>3. index' < Len(servers) => index' + 1 \in 1 .. Len(servers)
      BY <3>1, <3>2
    <3> QED BY <3>3, <2>1, ServersComplete
  <2>3. phase' = IF index' < Len(servers) THEN "made" ELSE "thrown"
    BY <1>8, <2>2 DEF MakeClient
  <2> QED
    BY <2>1, <2>3 DEF vars, FetchInv, TokenOK, RequestOK, Authorization, ServersRead
<1>9. CASE UNCHANGED fetchVars
  BY <1>9 DEF fetchVars, vars, fetch, FetchInv, TokenOK, RequestOK, Authorization, ServersRead
<1> QED BY <1>1, <1>2, <1>3, <1>4, <1>5, <1>6, <1>7, <1>8, <1>9 DEF FetchNext

LEMMA FetchInvariance == FetchSpec => [](LookupInv /\ FetchInv)
<1>1. LookupInv /\ FetchInv /\ [FetchNext]_fetchVars => (LookupInv /\ FetchInv)'
  BY FetchSteps, LookupInductive, FetchInductive
<1> QED BY FetchInitially, <1>1, PTL DEF FetchSpec

-----------------------------------------------------------------------------
(* What the invariant says of the headers of the request for the document. *)

\* The headers of the request: those of the configuration, the token, and basic
\* authentication.
LEMMA RequestHeaders ==
  ASSUME LookupInv, FetchInv, request # None
  PROVE  /\ Authorization \in Seq(Texts)
         /\ request.headers["Authorization"] =
              (Authorization \o (IF token = None THEN << >> ELSE <<Bearer(token)>>))
                             \o (IF sent.auth = None THEN << >> ELSE <<Basic(sent.auth)>>)
<1>1. sent # None /\ IsConfig(sent)
  BY DEF LookupInv, LookupTypeOK, FetchInv
<1>2. "Authorization" \in Names
  BY FetchAssumption
<1>3. Authorization \in Seq(Texts)
  BY <1>1, <1>2, ConfigTypes DEF Authorization
<1> DEFINE conf == IF token = None THEN sent ELSE AddHeader(sent, Bearer(token))
           all  == Texts \union {Bearer(token), Basic(sent.auth)}
<1>4. Authorization \in Seq(all)
  BY <1>3, SeqMonotonic
<1>5. /\ conf.auth = sent.auth
      /\ conf.headers \in [Names -> Seq(all)]
      /\ conf.headers["Authorization"] =
           Authorization \o (IF token = None THEN << >> ELSE <<Bearer(token)>>)
      /\ conf = [target |-> conf.target, cookies |-> conf.cookies, headers |-> conf.headers,
                 query |-> conf.query, auth |-> conf.auth, proxy |-> conf.proxy,
                 apiKey |-> conf.apiKey, oauth2 |-> conf.oauth2]
  <2>1. sent = [target |-> sent.target, cookies |-> sent.cookies, headers |-> sent.headers,
                query |-> sent.query, auth |-> sent.auth, proxy |-> sent.proxy,
                apiKey |-> sent.apiKey, oauth2 |-> sent.oauth2]
    BY <1>1 DEF IsConfig
  <2>2. sent.headers \in [Names -> Seq(all)]
    BY <1>1, ConfigTypes, SeqMonotonic
  <2>3. CASE token = None
    BY <2>1, <2>2, <2>3, <1>4, ConcatEmptySeq DEF Authorization
  <2>4. CASE token # None
    <3>1. Append(Authorization, Bearer(token)) = Authorization \o <<Bearer(token)>>
      BY <1>4
    <3>2. Append(Authorization, Bearer(token)) \in Seq(all)
      BY <1>4
    <3> HIDE DEF all
    <3>3. AddHeader(sent, Bearer(token)) =
            [target |-> sent.target, cookies |-> sent.cookies,
             headers |-> [sent.headers EXCEPT !["Authorization"] = Append(Authorization, Bearer(token))],
             query |-> sent.query, auth |-> sent.auth, proxy |-> sent.proxy,
             apiKey |-> sent.apiKey, oauth2 |-> sent.oauth2]
      BY <2>1 DEF AddHeader, Authorization
    <3> QED BY <2>2, <2>4, <3>1, <3>2, <3>3, <1>2
  <2> QED BY <2>3, <2>4
<1>6. request = Applied(conf)
  BY DEF FetchInv, RequestOK
<1> DEFINE h == conf.headers["Authorization"]
<1> HIDE DEF conf
<1>7. h \in Seq(all)
  BY <1>2, <1>5
<1>8. request.headers["Authorization"] =
        h \o (IF sent.auth = None THEN << >> ELSE <<Basic(sent.auth)>>)
  <2>1. CASE sent.auth = None
    BY <2>1, <1>5, <1>6, <1>7, ConcatEmptySeq DEF Applied
  <2>2. CASE sent.auth # None
    <3>1. Append(h, Basic(sent.auth)) = h \o <<Basic(sent.auth)>>
      BY <1>7
    <3>2. AddHeader(conf, Basic(sent.auth)).headers =
            [conf.headers EXCEPT !["Authorization"] = Append(h, Basic(sent.auth))]
      BY <1>5 DEF AddHeader
    <3>3. request.headers = AddHeader(conf, Basic(sent.auth)).headers
      BY <2>2, <1>5, <1>6 DEF Applied
    <3> QED BY <2>2, <3>1, <3>2, <3>3, <1>2, <1>5
  <2> QED BY <2>1, <2>2
<1> QED BY <1>3, <1>5, <1>8

\* The Authorization headers of a request are those of its configurations, one by one.
LEMMA HeadersAreOwn ==
  ASSUME LookupInv, sent # None
  PROVE  /\ OwnHeaders = {} <=> Authorization = << >>
         /\ \A m \in OwnHeaders : m[2] = "header"
         /\ (\A m, n \in OwnHeaders : m = n) => Len(Authorization) <= 1
<1> DEFINE parts == [i \in Places |-> Source[i].headers["Authorization"]]
<1>1. /\ "Authorization" \in Names /\ IsConfig(sent) /\ LookupTypeOK
      /\ \A i \in Places : IsConfig(Source[i])
  BY FetchAssumption, PlacesAreConfigs DEF LookupInv, LookupTypeOK
<1>2. /\ Authorization \in Seq(Texts) /\ Len(Authorization) \in Nat
      /\ DOMAIN Authorization = 1 .. Len(Authorization)
      /\ Authorization = << >> <=> Len(Authorization) = 0
  BY <1>1, ConfigTypes, LenProperties, EmptySeq DEF Authorization
<1>3. Concatenates(Authorization, parts)
  BY <1>1, RequestConcatenates, FetchAssumption DEF Authorization
<1>4. PICK at \in [Places -> 0 .. Len(Authorization)] :
        /\ \A i \in Places : \A k \in DOMAIN parts[i] : at[i] + k <= Len(Authorization)
        /\ \A k \in DOMAIN Authorization : \E i \in Places : at[i] < k /\ k <= at[i] + Len(parts[i])
  BY <1>3 DEF Concatenates
<1>5. \A i \in Places : Len(parts[i]) \in Nat /\ DOMAIN parts[i] = 1 .. Len(parts[i])
  BY <1>1, ConfigTypes, LenProperties
<1>6. \A m : m \in OwnHeaders <=> \E i \in Places : \E k \in DOMAIN parts[i] : m = <<i, "header", k>>
  BY DEF OwnHeaders
<1> HIDE DEF parts
<1>7. ASSUME NEW k \in DOMAIN Authorization
      PROVE  \E i \in Places : at[i] \in Nat /\ k - at[i] \in DOMAIN parts[i]
  <2>1. PICK i \in Places : at[i] < k /\ k <= at[i] + Len(parts[i])
    BY <1>4
  <2>2. at[i] \in Nat /\ k \in Nat /\ Len(parts[i]) \in Nat
    BY <1>2, <1>5
  <2>3. k - at[i] \in 1 .. Len(parts[i])
    BY <2>1, <2>2
  <2> QED BY <2>2, <2>3, <1>5
<1>8. OwnHeaders # {} => Authorization # << >>
  <2> SUFFICES ASSUME NEW m \in OwnHeaders PROVE Len(Authorization) # 0
    BY <1>2
  <2>1. PICK i \in Places : \E k \in DOMAIN parts[i] : at[i] + k <= Len(Authorization)
    BY <1>4, <1>6
  <2>2. PICK k \in DOMAIN parts[i] : at[i] + k <= Len(Authorization)
    BY <2>1
  <2>3. at[i] \in Nat /\ k \in Nat /\ k >= 1
    BY <1>5
  <2> QED BY <2>2, <2>3, <1>2
<1>9. Authorization # << >> => OwnHeaders # {}
  <2> SUFFICES ASSUME Authorization # << >> PROVE OwnHeaders # {}
    OBVIOUS
  <2>1. 1 \in DOMAIN Authorization
    BY <1>2
  <2>2. PICK i \in Places : 1 - at[i] \in DOMAIN parts[i]
    BY <2>1, <1>7
  <2> QED BY <2>2, <1>6
<1>10. ASSUME \A m, n \in OwnHeaders : m = n
       PROVE  Len(Authorization) <= 1
  <2> SUFFICES ASSUME Len(Authorization) >= 2 PROVE FALSE
    BY <1>2
  <2>1. 1 \in DOMAIN Authorization /\ 2 \in DOMAIN Authorization
    BY <1>2
  <2>2. PICK i \in Places : at[i] \in Nat /\ 1 - at[i] \in DOMAIN parts[i]
    BY <2>1, <1>7
  <2>3. PICK j \in Places : at[j] \in Nat /\ 2 - at[j] \in DOMAIN parts[j]
    BY <2>1, <1>7
  <2>4. <<i, "header", 1 - at[i]>> \in OwnHeaders /\ <<j, "header", 2 - at[j]>> \in OwnHeaders
    BY <2>2, <2>3, <1>6
  <2>5. i = j /\ 1 - at[i] = 2 - at[j]
    BY <2>4, <1>10
  <2> QED BY <2>2, <2>3, <2>5
<1> QED BY <1>6, <1>8, <1>9, <1>10

\* The parts of the headers of a request are sequences over the same set.
LEMMA OptionalParts ==
  ASSUME NEW h \in Seq(Texts), NEW x, NEW y
  PROVE  LET all == Texts \union {x, y}
         IN  /\ h \in Seq(all)
             /\ \A P \in BOOLEAN : /\ (IF P THEN << >> ELSE <<x>>) \in Seq(all)
                                  /\ (IF P THEN << >> ELSE <<y>>) \in Seq(all)
<1> DEFINE all == Texts \union {x, y}
<1>1. Texts \subseteq all /\ x \in all /\ y \in all
  OBVIOUS
<1> HIDE DEF all
<1>2. h \in Seq(all)
  BY <1>1, SeqMonotonic
<1>3. << >> \in Seq(all) /\ <<x>> \in Seq(all) /\ <<y>> \in Seq(all)
  BY <1>1
<1>4. \A P \in BOOLEAN : /\ (IF P THEN << >> ELSE <<x>>) \in Seq(all)
                        /\ (IF P THEN << >> ELSE <<y>>) \in Seq(all)
  BY <1>3
<1> QED BY <1>2, <1>4 DEF all

LEMMA TokenFollows == LookupInv /\ FetchInv => TokenSentAsConfigured
<1> SUFFICES ASSUME LookupInv, FetchInv, request # None
             PROVE  /\ minted # None /\ OwnHeaders = {} =>
                         Bearer(Minted) \in Range(request.headers["Authorization"])
                    /\ Bearer(Minted) \in Range(request.headers["Authorization"]) =>
                         LastOf(SpecFetchUses) = TRUE
  BY DEF TokenSentAsConfigured
<1> DEFINE put   == IF token = None THEN << >> ELSE <<Bearer(token)>>
           basic == IF sent.auth = None THEN << >> ELSE <<Basic(sent.auth)>>
           all   == Texts \union {Bearer(token), Basic(sent.auth)}
<1>1. /\ Authorization \in Seq(Texts)
      /\ request.headers["Authorization"] = (Authorization \o put) \o basic
  BY RequestHeaders
<1>2. /\ OwnHeaders = {} <=> Authorization = << >>
      /\ sent # None /\ TokenOK
  BY HeadersAreOwn DEF FetchInv
<1>3. Authorization \in Seq(all) /\ put \in Seq(all) /\ basic \in Seq(all)
  BY <1>1, OptionalParts
<1>4. Range(put) = IF token = None THEN {} ELSE {Bearer(token)}
  BY DEF Range
<1>5. Range(basic) = IF sent.auth = None THEN {} ELSE {Basic(sent.auth)}
  BY DEF Range
<1>6. Range(Authorization) \subseteq Texts
  BY <1>1, RangeOfSeq
<1> HIDE DEF put, basic, all
<1>7. Range(request.headers["Authorization"]) = Range(Authorization) \union Range(put) \union Range(basic)
  <2>1. /\ Authorization \o put \in Seq(all)
        /\ Range(Authorization \o put) = Range(Authorization) \union Range(put)
    BY <1>3, ConcatProperties, RangeConcatenation
  <2>2. basic \in Seq(all)
    BY <1>3
  <2> DEFINE both == Authorization \o put
  <2>3. both \in Seq(all)
    BY <2>1
  <2> HIDE DEF both
  <2>4. Range(both \o basic) = Range(both) \union Range(basic)
    BY <2>2, <2>3, RangeConcatenation
  <2> QED BY <2>1, <2>4, <1>1 DEF both
<1>8. /\ Bearer(Minted) \notin Texts
      /\ \A c : Basic(c) # Bearer(Minted)
      /\ \A t : Bearer(t) = Bearer(Minted) <=> t = Minted
  BY FetchAssumption DEF Bearer, Basic
<1>9. Bearer(Minted) \in Range(request.headers["Authorization"]) <=> token # None /\ token = Minted
  BY <1>4, <1>5, <1>6, <1>7, <1>8
<1>10. ASSUME minted # None, OwnHeaders = {}
       PROVE  Bearer(Minted) \in Range(request.headers["Authorization"])
  <2>1. Append(Authorization, Bearer(Minted)) = <<Bearer(Minted)>>
    BY <1>2, <1>10
  <2>2. Head(<<Bearer(Minted)>>) = Bearer(Minted)
    OBVIOUS
  <2>3. Extracted(<<Bearer(Minted)>>) = Minted
    BY <2>2 DEF Extracted, Bearer
  <2>4. token = Minted
    BY <1>2, <1>10, <2>1, <2>3 DEF TokenOK
  <2> QED BY <1>9, <2>4, FetchAssumption
<1>11. ASSUME Bearer(Minted) \in Range(request.headers["Authorization"])
       PROVE  LastOf(SpecFetchUses) = TRUE
  <2>1. minted = Minted
    BY <1>2, <1>9, <1>11 DEF TokenOK
  <2>2. sent.oauth2 # None /\ sent.oauth2.useForSpecFetch = LastOf(SpecFetchUses)
    BY <1>2, <2>1, OAuth2Follows DEF TokenOK, OAuth2FieldWise
  <2>3. sent.oauth2 \in OAuth2Sections
    BY <1>2, <2>2, ConfigTypes DEF LookupInv, LookupTypeOK, OrNone
  <2>4. sent.oauth2.useForSpecFetch \in BOOLEAN /\ sent.oauth2.useForSpecFetch
    BY <1>2, <2>1, <2>3 DEF TokenOK, OAuth2Sections
  <2> QED BY <2>2, <2>4
<1> QED BY <1>10, <1>11

LEMMA OneFollows == LookupInv /\ FetchInv => OneAuthorization
<1> SUFFICES ASSUME LookupInv, FetchInv, request # None, \A m, n \in Means : m = n
             PROVE  Len(request.headers["Authorization"]) <= 1
  BY DEF OneAuthorization
<1> DEFINE put   == IF token = None THEN << >> ELSE <<Bearer(token)>>
           basic == IF sent.auth = None THEN << >> ELSE <<Basic(sent.auth)>>
           all   == Texts \union {Bearer(token), Basic(sent.auth)}
<1>1. /\ Authorization \in Seq(Texts)
      /\ request.headers["Authorization"] = (Authorization \o put) \o basic
  BY RequestHeaders
<1>2. Authorization \in Seq(all) /\ put \in Seq(all) /\ basic \in Seq(all)
  BY <1>1, OptionalParts
<1>3. /\ Len(put) = IF token = None THEN 0 ELSE 1
      /\ Len(basic) = IF sent.auth = None THEN 0 ELSE 1
  OBVIOUS
<1> HIDE DEF put, basic, all
<1>4. /\ Len(Authorization) \in Nat
      /\ Len(request.headers["Authorization"]) = Len(Authorization) + Len(put) + Len(basic)
  <2>1. /\ Authorization \o put \in Seq(all)
        /\ Len(Authorization \o put) = Len(Authorization) + Len(put)
    BY <1>2, ConcatProperties
  <2>2. Len((Authorization \o put) \o basic) = Len(Authorization \o put) + Len(basic)
    BY <2>1, <1>2, ConcatProperties
  <2> QED BY <2>1, <2>2, <1>1, <1>2, LenProperties
<1>5. /\ sent # None /\ TokenOK /\ Places \subseteq Nat /\ DOMAIN Source = Places
      /\ Aggregates(sent, Source)
  BY PlacesAreConfigs DEF FetchInv, LookupInv
<1>6. Len(Authorization) <= 1 /\ \A m \in OwnHeaders : m \in Means /\ m[2] = "header"
  <2>1. OwnHeaders \subseteq Means
    BY DEF Means
  <2> QED BY <2>1, <1>5, HeadersAreOwn
<1>7. Len(Authorization) # 0 => \E m \in Means : m[2] = "header"
  <2>1. Len(Authorization) # 0 => Authorization # << >>
    BY EmptySeq
  <2> QED BY <2>1, <1>5, <1>6, HeadersAreOwn
<1>8. sent.auth # None => \E m \in Means : m[2] = "auth"
  <2> SUFFICES ASSUME sent.auth # None PROVE \E m \in Means : m[2] = "auth"
    OBVIOUS
  <2>1. IsLast(sent.auth, Auths(Source))
    BY <1>5 DEF Aggregates
  <2>2. Given(Auths(Source)) # {}
    BY <2>1 DEF IsLast
  <2>3. PICK i \in Places : Source[i].auth # None
    BY <2>2, <1>5 DEF Given, Auths
  <2>4. <<i, "auth", 1>> \in Means
    BY <2>3 DEF Means
  <2> QED BY <2>4
<1>9. token # None => \E m \in Means : m[2] = "oauth2"
  <2> SUFFICES ASSUME token # None PROVE \E m \in Means : m[2] = "oauth2"
    OBVIOUS
  <2>1. sent.oauth2 # None
    BY <1>5 DEF TokenOK
  <2>2. Given(OAuth2s(Source)) # {}
    BY <2>1, <1>5 DEF Aggregates, MergesOAuth2
  <2>3. PICK i \in Places : Source[i].oauth2 # None
    BY <2>2, <1>5 DEF Given, OAuth2s
  <2>4. <<i, "oauth2", 1>> \in Means
    BY <2>3 DEF Means
  <2> QED BY <2>4
<1>10. /\ ~ (Len(Authorization) # 0 /\ sent.auth # None)
       /\ ~ (Len(Authorization) # 0 /\ token # None)
       /\ ~ (sent.auth # None /\ token # None)
  <2>1. \A m, n \in Means : m[2] = n[2]
    OBVIOUS
  <2>2. "header" # "auth" /\ "header" # "oauth2" /\ "auth" # "oauth2"
    OBVIOUS
  <2> QED BY <2>1, <2>2, <1>7, <1>8, <1>9
<1>11. \A n, put_, basic_ \in Nat :
         /\ n <= 1 /\ put_ <= 1 /\ basic_ <= 1
         /\ ~ (n # 0 /\ basic_ # 0) /\ ~ (n # 0 /\ put_ # 0) /\ ~ (basic_ # 0 /\ put_ # 0)
         => n + put_ + basic_ <= 1
  OBVIOUS
<1>12. Len(put) \in Nat /\ Len(put) <= 1 /\ Len(basic) \in Nat /\ Len(basic) <= 1
  BY <1>3
<1>13. Len(Authorization) + Len(put) + Len(basic) <= 1
  <2>1. /\ ~ (Len(Authorization) # 0 /\ Len(basic) # 0) /\ ~ (Len(Authorization) # 0 /\ Len(put) # 0)
        /\ ~ (Len(basic) # 0 /\ Len(put) # 0)
    BY <1>3, <1>10
  <2>2. Len(Authorization) \in Nat /\ Len(Authorization) <= 1
    BY <1>4, <1>6
  <2> QED BY <2>1, <2>2, <1>11, <1>12
<1> QED BY <1>4, <1>13

LEMMA MadeFollows == FetchInv => MadeForItsServer
<1>1. ASSUME FetchInv, phase = "thrown", document # None
      PROVE  index > 0 /\ index >= Len(document)
  <2>1. ServersRead /\ index \in ServerIndexes /\ ~ (index < Len(servers))
    BY <1>1 DEF FetchInv
  <2>2. index \in Nat /\ Len(servers) \in Nat /\ Len(servers) >= 1
    BY <2>1, ServersComplete, FetchAssumption
  <2>3. Len(servers) = IF document = << >> THEN 1 ELSE Len(document)
    BY <2>1, ServersComplete
  <2>4. document = << >> => Len(document) = 0
    BY EmptySeq
  <2> QED BY <2>1, <2>2, <2>3, <2>4
<1>2. ASSUME FetchInv, phase = "made", document = << >> \/ document[index + 1].host = ""
      PROVE  /\ servers[index + 1].host = DocumentUrl.host
             /\ servers[index + 1].port = DocumentUrl.port
  <2>1. ServersRead /\ index \in ServerIndexes /\ index < Len(servers)
    BY <1>2 DEF FetchInv
  <2>2. index \in Nat /\ Len(servers) \in Nat /\ Len(servers) >= 1
    BY <2>1, ServersComplete, FetchAssumption
  <2>3. index + 1 \in 1 .. Len(servers)
    BY <2>1, <2>2
  <2>4. \A s : s.host = "" => /\ Completed(s).host = DocumentUrl.host
                              /\ Completed(s).port = DocumentUrl.port
    BY DEF Completed
  <2>5. CASE document = << >>
    <3>1. Len(servers) = 1 /\ servers[1] = Completed(NewServer)
      BY <2>1, <2>5, ServersComplete
    <3>2. index + 1 = 1
      BY <2>1, <2>2, <3>1
    <3> QED BY <3>1, <3>2 DEF Completed, NewServer
  <2>6. CASE document # << >>
    <3>1. servers[index + 1] = Completed(document[index + 1])
      BY <2>1, <2>3, <2>6, ServersComplete
    <3> QED BY <1>2, <2>4, <2>6, <3>1
  <2> QED BY <2>5, <2>6
<1> QED BY <1>1, <1>2 DEF MadeForItsServer

-----------------------------------------------------------------------------
(* The theorems.                                                           *)

\* fetchOpenAPIConfig uses the settings as any request does: a fetch is a lookup, with
\* more to come.
THEOREM FetchLooksUp == FetchSpec => Spec
BY FetchSteps, PTL DEF FetchSpec, FetchInit, Spec

\* The loop of Settings::operator[] stays within the list, and everything it makes of
\* well-formed entries is a well-formed configuration.
THEOREM LookupTyped == Spec => []LookupTypeOK
<1>1. LookupInv => LookupTypeOK
  BY DEF LookupInv
<1> QED BY <1>1, LookupInitially, LookupInductive, PTL DEF Spec

\* Settings::operator[] and Config::operator|=, for any number of matching entries: the
\* first cookie and the last credentials of the settings, and every header and query
\* parameter in order.
THEOREM Precedence == FetchSpec => []PrecedenceHolds
BY FetchInvariance, PrecedenceFollows, PTL

\* Config::operator|= merges OAuth2 sections field by field.
THEOREM OAuth2ByField == FetchSpec => []OAuth2FieldWise
BY FetchInvariance, OAuth2Follows, PTL

\* fetchOpenAPIConfig: the credentials of the settings are not overwritten.
THEOREM CredentialsKept == FetchSpec => []FetchKeepsCredentials
BY FetchInvariance, CredentialsFollow, PTL

\* acquireOAuth2TokenForSpecFetch: without a configured Authorization header the minted
\* token is sent, and it is never sent against useForSpecFetch.
THEOREM TokenSent == FetchSpec => []TokenSentAsConfigured
BY FetchInvariance, TokenFollows, PTL

\* fetchOpenAPIConfig and Config::apply: one means of authorisation gives one header.
THEOREM AuthorizedOnce == FetchSpec => []OneAuthorization
BY FetchInvariance, OneFollows, PTL

\* A client can be made for each server of a document, and for none else; it stays with
\* the host of the document's URL unless the document names another.
THEOREM ServersServe == FetchSpec => []MadeForItsServer
BY FetchInvariance, MadeFollows, PTL

=============================================================================
