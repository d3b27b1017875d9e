------------------------- MODULE SettingsReloadProofs -------------------------
(***************************************************************************)
(* Theorems about SettingsReload, for any readers, editors, files and      *)
(* bounds.                                                                 *)
(***************************************************************************)
EXTENDS SettingsReload, TLAPS

-----------------------------------------------------------------------------
(* The invariants.                                                         *)

ReaderPlaces ==
  {"idle", "lockShared", "check", "lockUnique", "stampRead", "readFile", "relock", "aggregate"}

EditorPlaces == {"idle", "edited", "announce"}

\* What a load makes of the versions of the file written so far.
Loadable == {LoadedFrom(v) : v \in DOMAIN files}

TypeOK ==
  /\ clock \in Nat /\ lastUpdated \in Nat
  /\ lastRead \in Nat /\ lastRead <= clock
  /\ files \in Seq(Shapes) /\ Version >= 1
  /\ announced \in Nat /\ announced <= Version
  /\ pc \in [Readers \union Editors -> ReaderPlaces \union EditorPlaces]
  /\ stamp \in [Editors -> [time : Nat, version : Nat]]
  /\ \A e \in Editors : stamp[e].version <= Version
  /\ due \in [Readers -> Nat]
  /\ \A t \in Readers : due[t] <= announced
  /\ result \in [Readers -> Loadable]

\* Who holds the mutex shared, and who exclusively, follows from where the readers are.
LockInv ==
  /\ sharing \subseteq Readers
  /\ loader \in Readers \union {NoThread}
  /\ loader # NoThread => sharing = {}
  /\ \A t \in Readers : /\ t \in sharing <=> pc[t] \in {"check", "aggregate"}
                        /\ t = loader <=> pc[t] \in {"stampRead", "readFile"}

\* The list of settings is empty, and the file is not read yet.
Reloading == \E t \in Readers : pc[t] = "readFile"

\* Except during a reload, what is in memory was loaded whole and is not older than
\* what any look-up has returned.
MemoryInv ==
  ~Reloading => /\ settings \in Loadable
                /\ \A t \in Readers : result[t].version <= settings.version

BaseInvariant == TypeOK /\ LockInv /\ MemoryInv

-----------------------------------------------------------------------------
(* The files.                                                              *)

\* A load remembers the version it is of, which is one that has been written.
LEMMA LoadedVersion ==
  /\ \A v : LoadedFrom(v).version = v
  /\ \A s \in Loadable : s.version \in DOMAIN files /\ s = LoadedFrom(s.version)
<1>1. \A v : LoadedFrom(v).version = v
  BY DEF LoadedFrom
<1> QED
  BY <1>1 DEF Loadable

\* The newest version can be loaded, and no loadable version is newer.
LEMMA NewestLoadable ==
  ASSUME TypeOK
  PROVE  /\ Version \in Nat
         /\ LoadedFrom(Version) \in Loadable
         /\ LoadedFrom(Version).version = Version
         /\ \A s \in Loadable : s.version \in Nat /\ s.version <= Version
<1>1. DOMAIN files = 1 .. Version /\ Version \in Nat /\ Version >= 1
  BY DEF TypeOK, Version
<1>2. \A s \in Loadable : s.version \in 1 .. Version
  BY <1>1, LoadedVersion
<1>3. Version \in DOMAIN files
  BY <1>1
<1>4. LoadedFrom(Version) \in Loadable
  BY <1>3 DEF Loadable
<1> QED
  BY <1>1, <1>2, <1>4, LoadedVersion

\* While no file is written, the same can be loaded.
LEMMA SameLoadable ==
  ASSUME files' = files
  PROVE  Loadable' = Loadable /\ Version' = Version
BY DEF Loadable, LoadedFrom, Version

\* An edit leaves the versions before it as they are.
LEMMA EditKeepsLoadable ==
  ASSUME TypeOK, NEW shape \in Shapes, files' = Append(files, shape)
  PROVE  /\ files' \in Seq(Shapes)
         /\ Version' = Version + 1
         /\ Loadable \subseteq Loadable'
<1>1. /\ files \in Seq(Shapes)
      /\ files' \in Seq(Shapes)
      /\ Len(files') = Len(files) + 1
  BY DEF TypeOK
<1>2. ASSUME NEW v \in DOMAIN files
      PROVE  v \in DOMAIN files' /\ files'[v] = files[v]
  BY <1>1, <1>2
<1>3. ASSUME NEW v \in DOMAIN files
      PROVE  LoadedFrom(v)' = LoadedFrom(v)
  BY <1>2, <1>3 DEF LoadedFrom
<1>4. Loadable \subseteq Loadable'
  BY <1>2, <1>3 DEF Loadable
<1> QED
  BY <1>1, <1>4 DEF Version

-----------------------------------------------------------------------------
(* Types.                                                                  *)

\* Every step keeps the variables in their types.
LEMMA TypeStep ==
  ASSUME TypeOK, LockInv, MemoryInv, [Next]_vars
  PROVE  TypeOK'
<1> USE EditorsAssumption DEF TypeOK, ReaderPlaces, EditorPlaces
<1>1. ASSUME NEW t \in Readers, Begin(t) PROVE TypeOK'
  BY <1>1, SameLoadable DEF Begin, Go
<1>2. ASSUME NEW t \in Readers, LockShared(t) PROVE TypeOK'
  <2>1. pc' \in [Readers \union Editors -> ReaderPlaces \union EditorPlaces]
    BY <1>2 DEF LockShared, Go
  <2> QED
    BY <1>2, <2>1, SameLoadable DEF LockShared
<1>3. ASSUME NEW t \in Readers, CheckStale(t) PROVE TypeOK'
  BY <1>3, SameLoadable DEF CheckStale, Go
<1>4. ASSUME NEW t \in Readers, CheckFresh(t) PROVE TypeOK'
  BY <1>4, SameLoadable DEF CheckFresh, Go
<1>5. ASSUME NEW t \in Readers, Aggregate(t) PROVE TypeOK'
  <2>1. ~Reloading
    BY <1>5 DEF Aggregate, Go, LockInv, Reloading
  <2>2. settings \in Loadable
    BY <2>1 DEF MemoryInv
  <2> QED
    BY <1>5, <2>2, SameLoadable DEF Aggregate, Go
<1>6. ASSUME NEW t \in Readers, LockUnique(t) PROVE TypeOK'
  BY <1>6, SameLoadable DEF LockUnique, Go
<1>7. ASSUME NEW t \in Readers, StampAndClear(t) PROVE TypeOK'
  BY <1>7, SameLoadable DEF StampAndClear, Go
<1>8. ASSUME NEW t \in Readers, ReadFile(t) PROVE TypeOK'
  BY <1>8, SameLoadable DEF ReadFile, Go
<1>9. ASSUME NEW e \in Editors, NEW shape \in Shapes, Edit(e, shape) PROVE TypeOK'
  <2>1. files' \in Seq(Shapes) /\ Version' = Version + 1 /\ Loadable \subseteq Loadable'
    BY <1>9, EditKeepsLoadable DEF Edit
  <2>2. Version \in Nat
    BY NewestLoadable
  <2> QED
    BY <1>9, <2>1, <2>2 DEF Edit
<1>10. ASSUME NEW e \in Editors, ReadClock(e) PROVE TypeOK'
  <2>1. Version \in Nat
    BY NewestLoadable
  <2> QED
    BY <1>10, <2>1, SameLoadable DEF ReadClock, Go
<1>11. ASSUME NEW e \in Editors, UpdateTimestamp(e) PROVE TypeOK'
  <2>1. Version \in Nat
    BY NewestLoadable
  <2> QED
    BY <1>11, <2>1, SameLoadable DEF UpdateTimestamp, Go
<1>12. CASE UNCHANGED vars
  BY <1>12, SameLoadable DEF vars
<1> QED
  BY <1>1, <1>2, <1>3, <1>4, <1>5, <1>6, <1>7, <1>8, <1>9, <1>10, <1>11, <1>12
  DEF Next, Step

-----------------------------------------------------------------------------
(* The mutex.                                                              *)

\* Every step keeps the mutex and the places of the readers in agreement.
LEMMA LockStep ==
  ASSUME TypeOK, LockInv, [Next]_vars
  PROVE  LockInv'
<1> USE EditorsAssumption DEF LockInv
<1> pc \in [Readers \union Editors -> ReaderPlaces \union EditorPlaces]
  BY DEF TypeOK
<1>1. ASSUME NEW t \in Readers, Begin(t) PROVE LockInv'
  BY <1>1 DEF Begin, Go
<1>2. ASSUME NEW t \in Readers, LockShared(t) PROVE LockInv'
  <2>1. CASE Go(t, "lockShared", "check")
    BY <1>2, <2>1 DEF LockShared, Go
  <2>2. CASE Go(t, "relock", "aggregate")
    BY <1>2, <2>2 DEF LockShared, Go
  <2> QED
    BY <1>2, <2>1, <2>2 DEF LockShared
<1>3. ASSUME NEW t \in Readers, CheckStale(t) PROVE LockInv'
  BY <1>3 DEF CheckStale, Go
<1>4. ASSUME NEW t \in Readers, CheckFresh(t) PROVE LockInv'
  BY <1>4 DEF CheckFresh, Go
<1>5. ASSUME NEW t \in Readers, Aggregate(t) PROVE LockInv'
  BY <1>5 DEF Aggregate, Go
<1>6. ASSUME NEW t \in Readers, LockUnique(t) PROVE LockInv'
  BY <1>6 DEF LockUnique, Go
<1>7. ASSUME NEW t \in Readers, StampAndClear(t) PROVE LockInv'
  BY <1>7 DEF StampAndClear, Go
<1>8. ASSUME NEW t \in Readers, ReadFile(t) PROVE LockInv'
  BY <1>8 DEF ReadFile, Go
<1>9. ASSUME NEW e \in Editors, NEW shape \in Shapes, Edit(e, shape) PROVE LockInv'
  BY <1>9 DEF Edit
<1>10. ASSUME NEW e \in Editors, ReadClock(e) PROVE LockInv'
  BY <1>10 DEF ReadClock, Go
<1>11. ASSUME NEW e \in Editors, UpdateTimestamp(e) PROVE LockInv'
  BY <1>11 DEF UpdateTimestamp, Go
<1>12. CASE UNCHANGED vars
  BY <1>12 DEF vars
<1> QED
  BY <1>1, <1>2, <1>3, <1>4, <1>5, <1>6, <1>7, <1>8, <1>9, <1>10, <1>11, <1>12
  DEF Next, Step

\* A reader that looks at the settings excludes a reload.
LEMMA LookersExclude ==
  ASSUME LockInv, NEW t \in Readers, pc[t] \in {"check", "aggregate"}
  PROVE  ~Reloading /\ loader = NoThread
BY EditorsAssumption DEF LockInv, Reloading

\* There is one loader.
LEMMA OneLoader ==
  ASSUME LockInv, NEW t \in Readers, pc[t] \in {"stampRead", "readFile"}
  PROVE  \A u \in Readers : pc[u] \in {"stampRead", "readFile"} => u = t
BY DEF LockInv

-----------------------------------------------------------------------------
(* The settings in memory.                                                 *)

\* A reload is begun and ended by its loader alone.
LEMMA ReloadingChanges ==
  ASSUME TypeOK, LockInv, [Next]_vars
  PROVE  /\ ~Reloading /\ Reloading' => \E t \in Readers : StampAndClear(t)
         /\ Reloading /\ ~Reloading' => \E t \in Readers : ReadFile(t)
         /\ settings' # settings => \E t \in Readers : StampAndClear(t) \/ ReadFile(t)
         /\ \A t \in Readers : StampAndClear(t) => Reloading'
         /\ \A t \in Readers : ReadFile(t) => Reloading /\ ~Reloading'
<1> pc \in [Readers \union Editors -> ReaderPlaces \union EditorPlaces]
  BY DEF TypeOK
<1> USE EditorsAssumption DEF Reloading
<1>1. ASSUME NEW t \in Readers, StampAndClear(t) PROVE Reloading'
  BY <1>1 DEF StampAndClear, Go
<1>2. ASSUME NEW t \in Readers, ReadFile(t) PROVE Reloading /\ ~Reloading'
  <2>1. pc[t] = "readFile" /\ pc' = [pc EXCEPT ![t] = "relock"]
    BY <1>2 DEF ReadFile, Go
  <2> QED
    BY <2>1, OneLoader
<1>3. CASE (\A t \in Readers : ~StampAndClear(t) /\ ~ReadFile(t))
  <2>1. settings' = settings
    BY <1>3 DEF Next, Step, Begin, LockShared, CheckStale, CheckFresh, Aggregate, LockUnique,
       Edit, ReadClock, UpdateTimestamp, vars
  <2>2. ASSUME NEW u \in Readers
        PROVE  pc'[u] = "readFile" <=> pc[u] = "readFile"
    BY <1>3 DEF Next, Step, Begin, LockShared, CheckStale, CheckFresh, Aggregate, LockUnique,
       Edit, ReadClock, UpdateTimestamp, Go, vars
  <2> QED
    BY <1>3, <2>1, <2>2
<1> QED
  BY <1>1, <1>2, <1>3

\* Except during a reload, what is in memory was loaded whole and is the newest in use.
LEMMA MemoryStep ==
  ASSUME BaseInvariant, [Next]_vars
  PROVE  MemoryInv'
<1> USE DEF BaseInvariant
<1>1. TypeOK'
  BY TypeStep
<1>2. ASSUME NEW t \in Readers, ReadFile(t) PROVE MemoryInv'
  <2>1. settings' = LoadedFrom(Version) /\ files' = files /\ result' = result
    BY <1>2 DEF ReadFile
  <2>2. settings' \in Loadable /\ settings'.version = Version
    BY <2>1, NewestLoadable
  <2>3. \A u \in Readers : result[u].version <= Version
    BY NewestLoadable DEF TypeOK
  <2> QED
    BY <2>1, <2>2, <2>3, SameLoadable DEF MemoryInv
<1>3. CASE ~Reloading /\ settings' = settings
  <2>1. Loadable \subseteq Loadable'
    <3>1. CASE files' = files
      BY <3>1, SameLoadable
    <3>2. CASE files' # files
      BY <3>2, EditKeepsLoadable DEF Next, Step, Begin, LockShared, CheckStale, CheckFresh,
         Aggregate, LockUnique, StampAndClear, ReadFile, Edit, ReadClock, UpdateTimestamp, vars
    <3> QED
      BY <3>1, <3>2
  <2>2. \A u \in Readers : result'[u] \in {result[u], settings}
    BY <1>3 DEF Next, Step, Begin, LockShared, CheckStale, CheckFresh, Aggregate, LockUnique,
       StampAndClear, ReadFile, Edit, ReadClock, UpdateTimestamp, vars, TypeOK
  <2>3. settings \in Loadable /\ settings.version \in Nat
    BY <1>3, NewestLoadable DEF MemoryInv
  <2> QED
    BY <1>3, <2>1, <2>2, <2>3 DEF MemoryInv
<1> QED
  BY <1>2, <1>3, ReloadingChanges DEF MemoryInv

-----------------------------------------------------------------------------
(* The invariants hold.                                                    *)

\* The constructor establishes the invariants.
LEMMA BaseInit == Init => BaseInvariant
<1> SUFFICES ASSUME Init PROVE BaseInvariant
  OBVIOUS
<1>1. PICK shape \in Shapes : files = <<shape>>
  BY DEF Init
<1>2. /\ files \in Seq(Shapes) /\ DOMAIN files = 1 .. 1 /\ Version = 1
  BY <1>1 DEF Version
<1>3. LoadedFrom(1) \in Loadable /\ LoadedFrom(1).version = 1
  BY <1>2, LoadedVersion DEF Loadable
<1>4. TypeOK
  BY <1>2, <1>3 DEF Init, TypeOK, ReaderPlaces, EditorPlaces
<1>5. LockInv
  BY EditorsAssumption DEF Init, LockInv
<1>6. MemoryInv
  BY <1>3 DEF Init, MemoryInv
<1> QED
  BY <1>4, <1>5, <1>6 DEF BaseInvariant

\* Every step preserves the invariants.
LEMMA BaseStep == BaseInvariant /\ [Next]_vars => BaseInvariant'
BY TypeStep, LockStep, MemoryStep DEF BaseInvariant

\* The invariants hold throughout.
LEMMA BaseHolds == Spec => []BaseInvariant
BY BaseInit, BaseStep, PTL DEF Spec

\* The variables keep their types.  (Settings)
THEOREM TypeCorrect == Spec => []TypeOK
<1>1. BaseInvariant => TypeOK
  BY DEF BaseInvariant
<1> QED
  BY <1>1, BaseHolds, PTL

\* While a reader stamps and reads the file in load(), no other reader is between taking
\* and giving up the mutex.  (Settings::operator[], Settings::load)
THEOREM LoaderAlone == Spec => []LoaderExclusive
<1>1. BaseInvariant => LoaderExclusive
  <2> SUFFICES ASSUME BaseInvariant, NEW t \in Readers, NEW u \in Readers, u # t,
                      pc[t] \in {"stampRead", "readFile"}
               PROVE  pc[u] \notin {"check", "aggregate", "stampRead", "readFile"}
    BY DEF LoaderExclusive
  <2>1. loader = t /\ loader # NoThread
    BY EditorsAssumption DEF BaseInvariant, LockInv
  <2> QED
    BY <2>1 DEF BaseInvariant, LockInv
<1> QED
  BY <1>1, BaseHolds, PTL

\* A look-up returns what one load made of one version of the file.  (Settings::operator[])
THEOREM NotTorn == Spec => []NoTornSettings
<1>1. BaseInvariant => NoTornSettings
  BY LoadedVersion DEF BaseInvariant, TypeOK, NoTornSettings
<1> QED
  BY <1>1, BaseHolds, PTL

\* No look-up returns older settings than one of any thread that has returned before it.
\* (Settings::operator[])
THEOREM NotBack == Spec => NeverOlder
<1>1. BaseInvariant /\ [Next]_vars
        => [\A t, u \in Readers :
              pc[t] = "aggregate" /\ pc'[t] = "idle" => result'[t].version >= result[u].version]_vars
  <2> SUFFICES ASSUME BaseInvariant, Next, NEW t \in Readers, NEW u \in Readers,
                      pc[t] = "aggregate", pc'[t] = "idle"
               PROVE  result'[t].version >= result[u].version
    BY DEF vars
  <2>1. result \in [Readers -> Loadable] /\ pc \in [Readers \union Editors -> ReaderPlaces \union EditorPlaces]
    BY DEF BaseInvariant, TypeOK
  <2>2. settings.version \in Nat /\ result[u].version \in Nat /\ result[u].version <= settings.version
    BY <2>1, LookersExclude, NewestLoadable DEF BaseInvariant, MemoryInv
  <2>3. CASE \E r \in Readers : Aggregate(r)
    <3>1. PICK r \in Readers : Aggregate(r)
      BY <2>3
    <3>2. r = t
      BY <2>1, <3>1 DEF Aggregate, Go
    <3>3. result'[t] = settings
      BY <2>1, <3>1, <3>2 DEF Aggregate
    <3> QED
      BY <2>2, <3>3
  <2>4. CASE ~ \E r \in Readers : Aggregate(r)
    <3>1. pc'[t] # "idle"
      BY <2>1, <2>4, EditorsAssumption DEF Next, Step, Begin, LockShared, CheckStale, CheckFresh,
         LockUnique, StampAndClear, ReadFile, Edit, ReadClock, UpdateTimestamp, Go
    <3> QED
      BY <3>1
  <2> QED
    BY <2>3, <2>4
<1> QED
  BY <1>1, BaseHolds, PTL DEF Spec, NeverOlder

-----------------------------------------------------------------------------
(* Announced edits.  Two announcements that overlap can be stored in the   *)
(* wrong order, so there is one editor from here on.                       *)

OneEditor == \A e, f \in Editors : e = f

\* The settings in memory are as new as version v, or will be after the reload under way.
UpTo(v) == Reloading \/ settings.version >= v

\* What is in memory is as new as what was announced, unless the announcement is the last
\* word; the same holds of an edit whose announcement is stored next.  A reader on its way
\* to the settings in memory finds there what it is due, and returns it.
SeenInv ==
  /\ lastRead < lastUpdated \/ UpTo(announced)
  /\ \A e \in Editors : /\ announced <= stamp[e].version
                        /\ pc[e] = "announce" =>
                             lastRead < stamp[e].time \/ UpTo(stamp[e].version)
  /\ \A t \in Readers : /\ pc[t] \in {"relock", "aggregate"} => UpTo(due[t])
                        /\ pc[t] = "idle" => result[t].version >= due[t]

\* What is in memory does not become older.
LEMMA UpToStays ==
  ASSUME BaseInvariant, [Next]_vars, NEW v \in Nat, v <= Version, UpTo(v)
  PROVE  UpTo(v)'
<1>0. TypeOK /\ LockInv
  BY DEF BaseInvariant
<1>1. ASSUME NEW t \in Readers, ReadFile(t) PROVE UpTo(v)'
  BY <1>0, <1>1, NewestLoadable DEF ReadFile, UpTo
<1>2. ASSUME NEW t \in Readers, StampAndClear(t) PROVE UpTo(v)'
  BY <1>0, <1>2, ReloadingChanges DEF UpTo
<1>3. CASE (\A t \in Readers : ~StampAndClear(t) /\ ~ReadFile(t))
  BY <1>0, <1>3, ReloadingChanges DEF UpTo
<1> QED
  BY <1>1, <1>2, <1>3

\* A reload finds everything written so far.
LEMMA ReloadReachesAll ==
  ASSUME BaseInvariant, NEW t \in Readers, ReadFile(t), NEW v \in Nat, v <= Version
  PROVE  UpTo(v)'
BY NewestLoadable DEF BaseInvariant, ReadFile, UpTo

\* What the reader finds that goes to look at the settings, and returns, is what it is due.
LEMMA DueStep ==
  ASSUME BaseInvariant, SeenInv, [Next]_vars, NEW t \in Readers
  PROVE  /\ pc'[t] \in {"relock", "aggregate"} => UpTo(due[t])'
         /\ pc'[t] = "idle" => result'[t].version >= due'[t]
<1> USE EditorsAssumption
<1>1. /\ pc \in [Readers \union Editors -> ReaderPlaces \union EditorPlaces]
      /\ due \in [Readers -> Nat] /\ due[t] <= announced /\ announced <= Version
      /\ due[t] \in Nat /\ announced \in Nat /\ Version \in Nat /\ due[t] <= Version
      /\ result \in [Readers -> Loadable]
  BY NewestLoadable DEF BaseInvariant, TypeOK
<1>2. CASE \E u \in Readers : Begin(u)
  <2>1. PICK u \in Readers : Begin(u)
    BY <1>2
  <2>2. CASE u = t
    BY <1>1, <2>1, <2>2 DEF Begin, Go
  <2>3. CASE u # t
    <3>1. pc'[t] = pc[t] /\ due'[t] = due[t] /\ result' = result
      BY <1>1, <2>1, <2>3 DEF Begin, Go
    <3> QED
      BY <1>1, <3>1, UpToStays DEF SeenInv
  <2> QED
    BY <2>2, <2>3
<1>3. CASE due' = due /\ pc'[t] = pc[t] /\ (result'[t] = result[t] \/ pc[t] # "idle")
  BY <1>1, <1>3, UpToStays DEF SeenInv
<1>4. CASE LockShared(t)
  <2>1. due' = due /\ pc[t] \in {"lockShared", "relock"}
        /\ pc'[t] = (IF pc[t] = "relock" THEN "aggregate" ELSE "check")
    BY <1>1, <1>4 DEF LockShared, Go
  <2> QED
    BY <1>1, <2>1, UpToStays DEF SeenInv
<1>5. CASE CheckStale(t) \/ LockUnique(t) \/ StampAndClear(t)
  BY <1>1, <1>5 DEF CheckStale, LockUnique, StampAndClear, Go
<1>6. CASE CheckFresh(t)
  <2>1. UpTo(announced) /\ ~Reloading
    BY <1>6, LookersExclude DEF SeenInv, CheckFresh, Go, BaseInvariant
  <2>2. settings.version \in Nat /\ settings.version >= announced
    BY <2>1, NewestLoadable DEF UpTo, BaseInvariant, MemoryInv
  <2>3. UpTo(due[t])
    BY <1>1, <2>2 DEF UpTo
  <2> QED
    BY <1>1, <1>6, <2>3, UpToStays DEF CheckFresh, Go
<1>7. CASE Aggregate(t)
  <2>1. settings.version >= due[t]
    BY <1>7, LookersExclude DEF SeenInv, UpTo, Aggregate, Go, BaseInvariant
  <2> QED
    BY <1>1, <1>7, <2>1 DEF Aggregate, Go
<1>8. CASE ReadFile(t)
  BY <1>1, <1>8, ReloadReachesAll DEF ReadFile, Go
<1>9. CASE \E u \in Readers \ {t} : Step(u)
  BY <1>1, <1>3, <1>9 DEF Step, LockShared, CheckStale, CheckFresh, Aggregate, LockUnique,
     StampAndClear, ReadFile, Go
<1>10. CASE \E e \in Editors : \/ \E shape \in Shapes : Edit(e, shape)
                               \/ ReadClock(e)
                               \/ UpdateTimestamp(e)
  BY <1>1, <1>3, <1>10 DEF Edit, ReadClock, UpdateTimestamp, Go
<1>11. CASE UNCHANGED vars
  BY <1>3, <1>11 DEF vars
<1> QED
  BY <1>2, <1>4, <1>5, <1>6, <1>7, <1>8, <1>9, <1>10, <1>11 DEF Next, Step

\* What is announced is in memory, unless the announcement is newer than the last reload.
LEMMA AnnouncedStep ==
  ASSUME OneEditor, BaseInvariant, SeenInv, [Next]_vars
  PROVE  /\ (lastRead < lastUpdated)' \/ UpTo(announced)'
         /\ \A e \in Editors : /\ (announced <= stamp[e].version)'
                               /\ pc'[e] = "announce" =>
                                    (lastRead < stamp[e].time)' \/ UpTo(stamp[e].version)'
<1> USE EditorsAssumption DEF TypeOK
<1> TypeOK
  BY DEF BaseInvariant
<1>1. /\ announced \in Nat /\ announced <= Version /\ Version \in Nat
      /\ \A e \in Editors : stamp[e].version \in Nat /\ stamp[e].version <= Version
                            /\ stamp[e].time \in Nat
  BY NewestLoadable
<1>2. ASSUME NEW t \in Readers, StampAndClear(t) \/ ReadFile(t)
      PROVE  /\ UpTo(announced)'
             /\ \A e \in Editors : UpTo(stamp[e].version)' /\ (announced <= stamp[e].version)'
  <2>1. announced' = announced /\ stamp' = stamp
    BY <1>2 DEF StampAndClear, ReadFile
  <2>2. ASSUME NEW v \in Nat, v <= Version PROVE UpTo(v)'
    BY <1>2, <2>2, ReloadReachesAll, ReloadingChanges DEF UpTo, BaseInvariant
  <2>3. UpTo(announced)'
    BY <1>1, <2>1, <2>2 DEF UpTo
  <2>4. ASSUME NEW e \in Editors PROVE UpTo(stamp[e].version)'
    BY <1>1, <2>1, <2>2 DEF UpTo
  <2> QED
    BY <2>1, <2>3, <2>4 DEF SeenInv
<1>3. ASSUME NEW e \in Editors, UpdateTimestamp(e)
      PROVE  /\ (lastRead < lastUpdated)' \/ UpTo(announced)'
             /\ \A f \in Editors : (announced <= stamp[f].version)' /\ pc'[f] # "announce"
  <2>1. /\ lastUpdated' = stamp[e].time /\ announced' = stamp[e].version
        /\ stamp' = stamp /\ lastRead' = lastRead /\ settings' = settings
        /\ pc[e] = "announce" /\ pc'[e] = "idle"
    BY <1>1, <1>3 DEF UpdateTimestamp, Go, SeenInv
  <2>2. lastRead < stamp[e].time \/ UpTo(stamp[e].version)'
    BY <1>1, <2>1, UpToStays DEF SeenInv
  <2> QED
    BY <1>1, <2>1, <2>2 DEF OneEditor, UpTo
<1>4. ASSUME NEW e \in Editors, ReadClock(e)
      PROVE  /\ (lastRead < lastUpdated)' \/ UpTo(announced)'
             /\ \A f \in Editors : (announced <= stamp[f].version)'
                                   /\ (lastRead < stamp[f].time)'
  <2>1. /\ stamp'[e] = [time |-> clock + 1, version |-> Version] /\ announced' = announced
        /\ lastRead' = lastRead /\ lastUpdated' = lastUpdated
    BY <1>4 DEF ReadClock
  <2>2. lastRead < lastUpdated \/ UpTo(announced)'
    BY <1>1, <2>1, UpToStays DEF SeenInv, UpTo
  <2> QED
    BY <1>1, <2>1, <2>2 DEF OneEditor
<1>5. CASE /\ UNCHANGED <<lastRead, lastUpdated, announced, stamp>>
           /\ \A e \in Editors : pc'[e] = "announce" => pc[e] = "announce"
  <2>1. lastRead < lastUpdated \/ UpTo(announced)'
    BY <1>1, <1>5, UpToStays DEF SeenInv, UpTo
  <2>2. ASSUME NEW e \in Editors, pc'[e] = "announce"
        PROVE  lastRead < stamp[e].time \/ UpTo(stamp[e].version)'
    BY <1>1, <1>5, <2>2, UpToStays DEF SeenInv, UpTo
  <2> QED
    BY <1>5, <2>1, <2>2 DEF SeenInv
<1>6. ASSUME NEW t \in Readers,
             \/ Begin(t) \/ LockShared(t) \/ CheckStale(t) \/ CheckFresh(t)
             \/ Aggregate(t) \/ LockUnique(t)
      PROVE  /\ UNCHANGED <<lastRead, lastUpdated, announced, stamp>>
             /\ \A e \in Editors : pc'[e] = pc[e]
  BY <1>6 DEF Begin, LockShared, CheckStale, CheckFresh, Aggregate, LockUnique, Go
<1>7. ASSUME NEW e \in Editors, NEW shape \in Shapes, Edit(e, shape)
      PROVE  /\ UNCHANGED <<lastRead, lastUpdated, announced, stamp>>
             /\ \A f \in Editors : pc'[f] = "announce" => pc[f] = "announce"
  BY <1>7 DEF Edit
<1>8. CASE UNCHANGED vars
  BY <1>5, <1>8 DEF vars
<1> QED
  BY <1>2, <1>3, <1>4, <1>5, <1>6, <1>7, <1>8 DEF Next, Step

\* With one editor, a look-up that begins after an edit was announced returns that edit or
\* a later one.  (Settings::operator[], Settings::updateTimestamp)
THEOREM EditSeen == OneEditor /\ Spec => []AnnouncedEditSeen
<1> DEFINE Inv == OneEditor /\ SeenInv
<1>1. OneEditor /\ Init => Inv
  BY LoadedVersion DEF Init, SeenInv, UpTo
<1>2. BaseInvariant /\ Inv /\ [Next]_vars => Inv'
  <2> SUFFICES ASSUME OneEditor, BaseInvariant, SeenInv, [Next]_vars PROVE Inv'
    OBVIOUS
  <2>1. SeenInv'
    BY DueStep, AnnouncedStep DEF SeenInv
  <2> QED
    BY <2>1 DEF OneEditor
<1>3. Inv => AnnouncedEditSeen
  BY DEF SeenInv, AnnouncedEditSeen
<1> HIDE DEF Inv
<1> QED
  BY <1>1, <1>2, <1>3, BaseHolds, PTL DEF Spec
=============================================================================
