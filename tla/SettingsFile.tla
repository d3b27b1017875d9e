----------------------------- MODULE SettingsFile -----------------------------
(***************************************************************************)
(* The life of the HTTP settings file: a program that loads it, changes    *)
(* its settings through getOrCreateConfigScope, stores them and may stop   *)
(* at any moment, and users who edit the file.                             *)
(*                                                                         *)
(* A file is the list of the nodes of its settings; one that is missing or *)
(* without a list has none.  Other sections of the file are left out:      *)
(* load() does not look at them and store() never writes them.             *)
(***************************************************************************)
EXTENDS HttpConfig, Naturals, FiniteSetsExt

CONSTANTS
  Scopes,     \* the scopes asked for
  Configs,    \* what a program may assign to an entry (its target aside)
  UserFiles,  \* the files users write
  Patterns,   \* the scopes and regular expressions of entries
  MaxLength,  \* bound of the number of entries
  MaxSteps    \* bound of the changes, loads, stores, edits and restarts

Targets == [key : {"scope", "url"}, pattern : Patterns]

ASSUME FilesAssumption ==
  /\ Scopes \subseteq Patterns /\ "*" \in Patterns /\ None \notin Targets
  /\ \A conf \in Configs : IsConfig(conf)
  /\ \A nodes \in UserFiles :
       /\ nodes \in Seq({nodes[i] : i \in DOMAIN nodes})
       /\ \A i \in DOMAIN nodes : IsNode(nodes[i]) /\ nodes[i].target \in OrNone(Targets)
  /\ MaxLength \in Nat /\ MaxSteps \in Nat

VARIABLES
  file,        \* the settings file
  settings,    \* Settings::settings
  storing,     \* the nodes store() is about to write, or None
  source,      \* ghost: where settings come from: a "user" file, a "stored" one, or "memory"
  stored,      \* ghost: the settings the file was stored from, or None if it is a user's
  storedFrom,  \* ghost: the source of those settings
  steps        \* the steps taken

vars == <<file, settings, storing, source, stored, storedFrom, steps>>

-----------------------------------------------------------------------------

NodesOf(list) == [i \in DOMAIN list |-> ConfigToNode(list[i])]

\* The entries up to the first that configFromNode throws on; the error is logged.
Loaded(nodes) ==
  LET bad    == {i \in DOMAIN nodes : Throws(nodes[i])}
      length == IF bad = {} THEN Len(nodes) ELSE Min(bad) - 1
  IN  [i \in 1 .. length |-> ConfigFromNode(nodes[i])]

HasScope(conf, scope) == conf.target = [key |-> "scope", pattern |-> scope]

NewEntry(scope) == [NewConfig EXCEPT !.target = [key |-> "scope", pattern |-> scope]]

Idle == storing = None /\ steps < MaxSteps
Count == steps' = steps + 1

-----------------------------------------------------------------------------

Init ==
  /\ file \in UserFiles
  /\ settings = Loaded(file)
  /\ storing = None
  /\ source = "user"
  /\ stored = None
  /\ storedFrom = "user"
  /\ steps = 0

Read ==
  /\ settings' = Loaded(file)
  /\ source' = IF stored = None THEN "user" ELSE "stored"

Load ==
  /\ Idle
  /\ Read
  /\ Count
  /\ UNCHANGED <<file, storing, stored, storedFrom>>

\* Opening the file for writing empties it.
OpenForStore ==
  /\ Idle
  /\ storing' = NodesOf(settings)
  /\ file' = << >>
  /\ stored' = None
  /\ Count
  /\ UNCHANGED <<settings, source, storedFrom>>

WriteStore ==
  /\ storing # None
  /\ file' = storing
  /\ storing' = None
  /\ stored' = settings
  /\ storedFrom' = source
  /\ UNCHANGED <<settings, source, steps>>

\* The program stops, possibly within store(), and is started anew.
Restart ==
  /\ steps < MaxSteps
  /\ storing' = None
  /\ Read
  /\ Count
  /\ UNCHANGED <<file, stored, storedFrom>>

GetOrCreateConfigScope(scope) ==
  /\ Idle
  /\ \A i \in DOMAIN settings : ~ HasScope(settings[i], scope)
  /\ Len(settings) < MaxLength
  /\ settings' = Append(settings, NewEntry(scope))
  /\ source' = "memory"
  /\ Count
  /\ UNCHANGED <<file, storing, stored, storedFrom>>

\* The program assigns through the reference it gets to the entry of a scope.
Assign(scope, conf) ==
  /\ Idle
  /\ \E i \in DOMAIN settings :
       /\ HasScope(settings[i], scope)
       /\ \A j \in 1 .. i - 1 : ~ HasScope(settings[j], scope)
       /\ settings' = [settings EXCEPT ![i] = [conf EXCEPT !.target = settings[i].target]]
  /\ source' = "memory"
  /\ Count
  /\ UNCHANGED <<file, storing, stored, storedFrom>>

\* A user replaces the file.
Edit(new) ==
  /\ Idle
  /\ file' = new
  /\ stored' = None
  /\ Count
  /\ UNCHANGED <<settings, storing, source, storedFrom>>

Next ==
  \/ Load
  \/ OpenForStore
  \/ WriteStore
  \/ Restart
  \/ \E scope \in Scopes :
       \/ GetOrCreateConfigScope(scope)
       \/ \E conf \in Configs : Assign(scope, conf)
  \/ \E new \in UserFiles : Edit(new)

Spec == Init /\ [][Next]_vars

-----------------------------------------------------------------------------
(* Properties.                                                             *)

\* What store() wrote, load() reads back: all fields match.
RoundTrip == stored # None => Loaded(file) = stored

HasOneSecret(c) == HasPassword(c) /\ (c.password = None \/ c.keychain = None)

\* A configuration without OAuth2 scopes, with one secret for each of its users,
\* with one value for each header and query parameter, and with readable settings.
Plain(conf) ==
  /\ conf.oauth2 # None => LET texts == conf.oauth2.texts
                           IN  texts["scopes"] = None /\ texts["tokenEndpointAuth"] # "bad"
  /\ conf.auth # None => HasOneSecret(conf.auth)
  /\ conf.proxy # None =>
       IF conf.proxy.user = None THEN ~ HasPassword(conf.proxy) ELSE HasOneSecret(conf.proxy)
  /\ \A n \in Names : Len(conf.headers[n]) <= 1 /\ Len(conf.query[n]) <= 1

\* What store() wrote reads back unchanged exactly if every entry is plain; an
\* entry that is not loses something, or takes all entries after it along.
PlainRoundTrip ==
  stored # None =>
    (Loaded(file) = stored <=> \A i \in DOMAIN stored : Plain(stored[i]))

\* One round trip loses all there is to lose: settings that come from a stored file
\* are stored and read back unchanged.
StableAfterRoundTrip ==
  stored # None /\ storedFrom = "stored" => Loaded(file) = stored
=============================================================================
