---------------------------- MODULE SettingsReload ----------------------------
(***************************************************************************)
(* httpcl::Settings as it is used while calls are made: threads look a URL *)
(* up with operator[], which re-reads the settings file when               *)
(* updateTimestamp has announced a change, and editors change the file and *)
(* announce it.                                                            *)
(*                                                                         *)
(* A file is [version, entries]: version numbers the edits, entries is the *)
(* list of its entries, "good" or "bad" (one that configFromNode throws    *)
(* on); a file that is missing, unreadable or not YAML has no entries.     *)
(* The settings in memory are the entries read so far, as version numbers. *)
(* Every reading of the steady clock returns a later time than the one     *)
(* before.                                                                 *)
(***************************************************************************)
EXTENDS Naturals, Sequences, SequencesExt

CONSTANTS
  Readers,   \* threads calling Settings::operator[]
  Editors,   \* threads or tools that edit the file and call updateTimestamp
  Shapes,    \* the lists of entries files may have
  MaxEdits,  \* bound of the edits made
  MaxCalls,  \* bound of the look-ups each reader makes
  NoThread

ASSUME EditorsAssumption == Readers \intersect Editors = {} /\ NoThread \notin Readers
ASSUME LimitsAssumption == MaxEdits \in Nat /\ MaxCalls \in Nat

VARIABLES
  clock,        \* the last reading of steady_clock::now()
  files,        \* the versions of the settings file written so far; the last is on disk
  settings,     \* [version, entries] in memory; version is a ghost: the file they come from
  lastRead,     \* when load() last began to read
  lastUpdated,  \* the time last announced (Settings::lastUpdated, static)
  sharing,      \* the threads holding the mutex shared
  loader,       \* the thread holding it exclusively, or NoThread
  pc,           \* where each thread is
  stamp,        \* the time an editor is about to announce
  announced,    \* ghost: the newest version whose announcement is complete
  due,          \* ghost: announced when the look-up of a reader began
  result,       \* what the last look-up of a reader returned
  calls         \* the look-ups each reader has begun

vars == <<clock, files, settings, lastRead, lastUpdated, sharing, loader, pc, stamp,
          announced, due, result, calls>>

-----------------------------------------------------------------------------

Cleared == [version |-> 0, entries |-> << >>]

Version == Len(files)

\* What load() makes of a file: the entries up to the first it throws on.
LoadedFrom(version) ==
  LET entries == files[version]
      bad     == {i \in DOMAIN entries : entries[i] = "bad"}
      loaded  == IF bad = {} THEN Len(entries) ELSE Min(bad) - 1
  IN  [version |-> version, entries |-> [i \in 1 .. loaded |-> version]]

Go(t, from, to) ==
  /\ pc[t] = from
  /\ pc' = [pc EXCEPT ![t] = to]

-----------------------------------------------------------------------------
(* Settings::operator[].                                                   *)

Begin(t) ==
  /\ calls[t] < MaxCalls
  /\ Go(t, "idle", "lockShared")
  /\ calls' = [calls EXCEPT ![t] = @ + 1]
  /\ due' = [due EXCEPT ![t] = announced]
  /\ UNCHANGED <<clock, files, settings, lastRead, lastUpdated, sharing, loader, stamp,
                 announced, result>>

\* Mutant: the lock is taken during a reload.
LockSharedAnyway(t) ==
  /\ \/ Go(t, "lockShared", "check")
     \/ Go(t, "relock", "aggregate")
  /\ sharing' = sharing \union {t}
  /\ UNCHANGED <<clock, files, settings, lastRead, lastUpdated, loader, stamp, announced,
                 due, result, calls>>

LockShared(t) ==
  /\ loader = NoThread
  /\ \/ Go(t, "lockShared", "check")
     \/ Go(t, "relock", "aggregate")
  /\ sharing' = sharing \union {t}
  /\ UNCHANGED <<clock, files, settings, lastRead, lastUpdated, loader, stamp, announced,
                 due, result, calls>>

\* Mutant: the shared lock is kept for the reload.
CheckStaleKeepsLock(t) ==
  /\ Go(t, "check", "lockUnique")
  /\ lastRead < lastUpdated
  /\ UNCHANGED <<clock, files, settings, lastRead, lastUpdated, sharing, loader, stamp,
                 announced, due, result, calls>>

\* The shared lock is given up for the reload.
CheckStale(t) ==
  /\ Go(t, "check", "lockUnique")
  /\ lastRead < lastUpdated
  /\ sharing' = sharing \ {t}
  /\ UNCHANGED <<clock, files, settings, lastRead, lastUpdated, loader, stamp, announced,
                 due, result, calls>>

CheckFresh(t) ==
  /\ Go(t, "check", "aggregate")
  /\ ~ (lastRead < lastUpdated)
  /\ UNCHANGED <<clock, files, settings, lastRead, lastUpdated, sharing, loader, stamp,
                 announced, due, result, calls>>

Aggregate(t) ==
  /\ Go(t, "aggregate", "idle")
  /\ result' = [result EXCEPT ![t] = settings]
  /\ sharing' = sharing \ {t}
  /\ UNCHANGED <<clock, files, settings, lastRead, lastUpdated, loader, stamp, announced,
                 due, calls>>

-----------------------------------------------------------------------------
(* Settings::load.                                                         *)

\* Mutant: the loader does not wait for the look-ups under way.
LockUniqueAmongLookups(t) ==
  /\ loader = NoThread
  /\ Go(t, "lockUnique", "stampRead")
  /\ loader' = t
  /\ UNCHANGED <<clock, files, settings, lastRead, lastUpdated, sharing, stamp, announced,
                 due, result, calls>>

LockUnique(t) ==
  /\ loader = NoThread
  /\ sharing = {}
  /\ Go(t, "lockUnique", "stampRead")
  /\ loader' = t
  /\ UNCHANGED <<clock, files, settings, lastRead, lastUpdated, sharing, stamp, announced,
                 due, result, calls>>

StampAndClear(t) ==
  /\ Go(t, "stampRead", "readFile")
  /\ clock' = clock + 1
  /\ lastRead' = clock'
  /\ settings' = Cleared
  /\ UNCHANGED <<files, lastUpdated, sharing, loader, stamp, announced, due, result, calls>>

\* Mutant: the time is taken after the file is read.
ReadFileThenStamp(t) ==
  \/ /\ Go(t, "readFile", "stampLate")
     /\ settings' = LoadedFrom(Version)
     /\ UNCHANGED <<clock, files, lastRead, lastUpdated, sharing, loader, stamp, announced,
                    due, result, calls>>
  \/ /\ Go(t, "stampLate", "relock")
     /\ clock' = clock + 1
     /\ lastRead' = clock'
     /\ loader' = NoThread
     /\ UNCHANGED <<files, settings, lastUpdated, sharing, stamp, announced, due, result,
                    calls>>

\* Errors are logged and swallowed: what was read before them stays.
ReadFile(t) ==
  /\ Go(t, "readFile", "relock")
  /\ settings' = LoadedFrom(Version)
  /\ loader' = NoThread
  /\ UNCHANGED <<clock, files, lastRead, lastUpdated, sharing, stamp, announced, due,
                 result, calls>>

-----------------------------------------------------------------------------
(* Editing the file, and updateTimestamp(steady_clock::now()).             *)

Edit(e, shape) ==
  /\ Version <= MaxEdits
  /\ pc[e] \in {"idle", "edited"}
  /\ pc' = [pc EXCEPT ![e] = "edited"]
  /\ files' = Append(files, shape)
  /\ UNCHANGED <<clock, settings, lastRead, lastUpdated, sharing, loader, stamp, announced,
                 due, result, calls>>

ReadClock(e) ==
  /\ Go(e, "edited", "announce")
  /\ clock' = clock + 1
  /\ stamp' = [stamp EXCEPT ![e] = [time |-> clock', version |-> Version]]
  /\ UNCHANGED <<files, settings, lastRead, lastUpdated, sharing, loader, announced, due,
                 result, calls>>

\* The store is a plain overwrite.
UpdateTimestamp(e) ==
  /\ Go(e, "announce", "idle")
  /\ lastUpdated' = stamp[e].time
  /\ announced' = IF stamp[e].version > announced THEN stamp[e].version ELSE announced
  /\ UNCHANGED <<clock, files, settings, lastRead, sharing, loader, stamp, due, result, calls>>

-----------------------------------------------------------------------------

\* The constructor has loaded the first version of the file.
Init ==
  /\ files \in {<<shape>> : shape \in Shapes}
  /\ clock = 1
  /\ lastUpdated = 0
  /\ lastRead = 1
  /\ settings = LoadedFrom(1)
  /\ sharing = {}
  /\ loader = NoThread
  /\ pc = [t \in Readers \union Editors |-> "idle"]
  /\ stamp = [e \in Editors |-> [time |-> 0, version |-> 1]]
  /\ announced = 1
  /\ due = [t \in Readers |-> 1]
  /\ result = [t \in Readers |-> LoadedFrom(1)]
  /\ calls = [t \in Readers |-> 0]

Step(t) ==
  \/ LockShared(t)
  \/ CheckStale(t)
  \/ CheckFresh(t)
  \/ Aggregate(t)
  \/ LockUnique(t)
  \/ StampAndClear(t)
  \/ ReadFile(t)

Next ==
  \/ \E t \in Readers : Begin(t) \/ Step(t)
  \/ \E e \in Editors :
       \/ \E shape \in Shapes : Edit(e, shape)
       \/ ReadClock(e)
       \/ UpdateTimestamp(e)

Spec == Init /\ [][Next]_vars

\* A running look-up is scheduled.
FairSpec == Spec /\ \A t \in Readers : WF_vars(Step(t))

-----------------------------------------------------------------------------
(* Properties.                                                             *)

\* A look-up that begins after an edit was announced returns that edit or a
\* later one: updateTimestamp prompts the instance to re-parse the file.
AnnouncedEditSeen ==
  \A t \in Readers : pc[t] = "idle" => result[t].version >= due[t]

\* A look-up returns what one load made of one version of the file: never the
\* settings of a reload under way.
NoTornSettings ==
  \A t \in Readers :
    /\ result[t].version \in DOMAIN files
    /\ result[t] = LoadedFrom(result[t].version)

\* A thread that reads the settings in memory excludes the one that reloads them.
LoaderExclusive ==
  \A t, u \in Readers :
    pc[t] \in {"stampRead", "readFile"} /\ u # t =>
      pc[u] \notin {"check", "aggregate", "stampRead", "readFile"}

\* A look-up never returns older settings than one that has returned before it, whichever
\* thread made that: a reload does not go back behind another one.
NeverOlder ==
  [][\A t, u \in Readers :
       pc[t] = "aggregate" /\ pc'[t] = "idle" => result'[t].version >= result[u].version]_vars

\* Every look-up returns.
LookupReturns == \A t \in Readers : pc[t] # "idle" ~> pc[t] = "idle"
=============================================================================
