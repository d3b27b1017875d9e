---------------------------- MODULE KeychainProofs ----------------------------
(***************************************************************************)
(* Theorems about Keychain, for any callers, services, passwords and       *)
(* bounds.                                                                 *)
(***************************************************************************)
EXTENDS Keychain, TLAPS

-----------------------------------------------------------------------------
(* The invariants.                                                         *)

TypeOK ==
  /\ vault \in [Services -> Contents]
  /\ known \subseteq Services
  /\ call \in [Callers -> CallRecords \union {None}]
  /\ jobs \subseteq JobRecords
  /\ settled \in [Services -> SUBSET Contents]
  /\ overlapped \subseteq Callers
  /\ calls \in Nat

\* A call is that of its caller, and a job that runs has its call waiting for it.
WaitingInv ==
  /\ \A c \in Callers : call[c] # None => call[c].job.caller = c
  /\ \A job \in jobs : /\ call[job.caller] # None
                       /\ call[job.caller].job = job /\ call[job.caller].outcome = "running"

\* Calls that write the same service at a time are overlapped; one that is not, and whose
\* job has succeeded, finds its password in the keychain.
AloneInv ==
  /\ \A c, d \in Callers : \A s \in Services :
       c # d /\ Writes(c, s) /\ Writes(d, s) => c \in overlapped
  /\ \A c \in Callers : \A s \in Services :
       Writes(c, s) /\ call[c].outcome = "done" /\ c \notin overlapped
         => vault[s] = call[c].job.password

\* What is settled is so, and nobody is writing it.
SettledInv ==
  /\ SettledPasswordKept
  /\ \A c \in Callers : \A s \in Services : Writes(c, s) => settled[s] = {}

KeychainInv == TypeOK /\ WaitingInv /\ AloneInv /\ SettledInv

-----------------------------------------------------------------------------
(* The start of a call.                                                    *)

LEMMA StartTyped ==
  ASSUME TypeOK, NEW c \in Callers, NEW op \in {"load", "store", "remove"},
         NEW service \in Services, NEW password \in Contents, Start(c, op, service, password)
  PROVE  /\ TypeOK'
         /\ call[c] = None
         /\ call'[c] # None
         /\ call'[c].job = [caller |-> c, number |-> calls + 1, op |-> op, service |-> service,
                            password |-> password]
         /\ call'[c].outcome = "running"
         /\ \A d \in Callers \ {c} : call'[d] = call[d]
         /\ jobs' = jobs \union {call'[c].job}
         /\ UNCHANGED <<vault, known, restarts>>
<1> DEFINE job == [caller |-> c, number |-> calls', op |-> op, service |-> service,
                   password |-> password]
           new == [job |-> job, outcome |-> "running", found |-> None, timedOut |-> FALSE]
<1>1. /\ call[c] = None /\ calls' = calls + 1 /\ jobs' = jobs \union {job}
      /\ call' = [call EXCEPT ![c] = new]
      /\ overlapped' \subseteq Callers
      /\ settled' = IF op = "load" THEN settled ELSE [settled EXCEPT ![service] = {}]
      /\ UNCHANGED <<vault, known, restarts>>
  BY DEF Start, TypeOK
<1>2. job \in JobRecords /\ calls' \in Nat
  BY <1>1 DEF JobRecords, TypeOK
<1>3. new \in CallRecords
  BY <1>2 DEF CallRecords, Contents
<1>4. /\ new.job = job /\ new.outcome = "running"
      /\ job = [caller |-> c, number |-> calls + 1, op |-> op, service |-> service,
                password |-> password]
  BY <1>1
<1>5. new # None
  BY <1>3, KeychainAssumption
<1> QED BY <1>1, <1>2, <1>3, <1>4, <1>5 DEF TypeOK

LEMMA StartStep ==
  ASSUME KeychainInv, NEW c \in Callers, NEW op \in {"load", "store", "remove"},
         NEW service \in Services, NEW password \in Contents, Start(c, op, service, password)
  PROVE  KeychainInv'
<1> DEFINE others == {d \in Callers : op # "load" /\ Writes(d, service)}
<1>1. /\ TypeOK' /\ TypeOK /\ call[c] = None /\ call'[c] # None
      /\ call'[c].job = [caller |-> c, number |-> calls + 1, op |-> op, service |-> service,
                         password |-> password]
      /\ call'[c].outcome = "running"
      /\ \A d \in Callers \ {c} : call'[d] = call[d]
      /\ jobs' = jobs \union {call'[c].job}
      /\ UNCHANGED vault
  BY StartTyped DEF KeychainInv
<1>2. /\ call'[c].job.caller = c /\ call'[c].job.op = op /\ call'[c].job.service = service
  BY <1>1
<1>3. /\ \A d \in Callers \ {c} : \A s \in Services : Writes(d, s)' <=> Writes(d, s)
      /\ \A s \in Services : ~ Writes(c, s)
      /\ \A s \in Services : Writes(c, s)' <=> op # "load" /\ s = service
  BY <1>1, <1>2 DEF Writes
<1>4. /\ others = {} => overlapped' = overlapped \ {c}
      /\ others # {} => overlapped' = overlapped \union others \union {c}
  BY DEF Start
<1>5. /\ settled' = IF op = "load" THEN settled ELSE [settled EXCEPT ![service] = {}]
      /\ settled \in [Services -> SUBSET Contents]
  BY DEF Start, KeychainInv, TypeOK
<1>6. WaitingInv'
  <2>1. \A d \in Callers : call'[d] # None => call'[d].job.caller = d
    BY <1>1, <1>2 DEF KeychainInv, WaitingInv
  <2>2. ASSUME NEW job \in jobs
        PROVE  /\ call'[job.caller] # None
               /\ call'[job.caller].job = job /\ call'[job.caller].outcome = "running"
    <3>1. job.caller \in Callers
      BY <1>1 DEF TypeOK, JobRecords
    <3>2. job.caller # c
      BY <1>1 DEF KeychainInv, WaitingInv
    <3> QED BY <1>1, <3>1, <3>2 DEF KeychainInv, WaitingInv
  <2> QED BY <1>1, <1>2, <2>1, <2>2 DEF WaitingInv
<1>7. AloneInv'
  <2>1. ASSUME NEW d \in Callers, NEW e \in Callers, NEW s \in Services,
               d # e, Writes(d, s)', Writes(e, s)'
        PROVE  d \in overlapped'
    <3>1. CASE d # c /\ e # c
      BY <1>3, <1>4, <2>1, <3>1 DEF KeychainInv, AloneInv
    <3>2. CASE d = c
      BY <1>3, <1>4, <2>1, <3>2
    <3>3. CASE e = c
      BY <1>3, <1>4, <2>1, <3>3
    <3> QED BY <3>1, <3>2, <3>3
  <2>2. ASSUME NEW d \in Callers, NEW s \in Services,
               Writes(d, s)', call'[d].outcome = "done", d \notin overlapped'
        PROVE  vault'[s] = call'[d].job.password
    <3>1. d # c /\ d \notin overlapped
      BY <1>1, <1>4, <2>2
    <3> QED BY <1>1, <1>3, <2>2, <3>1 DEF KeychainInv, AloneInv
  <2> QED BY <2>1, <2>2 DEF AloneInv
<1>8. SettledInv'
  <2>1. \A s \in Services : settled'[s] \subseteq settled[s]
    BY <1>5
  <2>2. op # "load" => settled'[service] = {}
    BY <1>5
  <2> QED BY <1>1, <1>3, <2>1, <2>2 DEF KeychainInv, SettledInv, SettledPasswordKept
<1> QED BY <1>1, <1>6, <1>7, <1>8 DEF KeychainInv

-----------------------------------------------------------------------------
(* The end of a job, of the wait for it, and of the call.                  *)

\* A job that ends is that of the call of its caller, and no other call notices.
LEMMA EndJobTyped ==
  ASSUME TypeOK, WaitingInv, NEW job \in jobs, NEW outcome \in {"done", "error"},
         NEW found \in Contents, EndJob(job, outcome, found)
  PROVE  /\ job \in JobRecords /\ call[job.caller] # None /\ call[job.caller].job = job
         /\ call[job.caller].outcome = "running"
         /\ call' \in [Callers -> CallRecords \union {None}]
         /\ call'[job.caller] # None /\ call'[job.caller].job = job
         /\ call'[job.caller].outcome = outcome
         /\ \A d \in Callers \ {job.caller} : call'[d] = call[d]
         /\ jobs' = jobs \ {job}
         /\ UNCHANGED <<known, settled, overlapped, calls>>
<1> DEFINE c == job.caller
           ended == [call[c] EXCEPT !.outcome = outcome, !.found = found]
<1>1. /\ job \in JobRecords /\ c \in Callers /\ call[c] # None /\ call[c].job = job
      /\ call[c].outcome = "running"
  BY DEF TypeOK, WaitingInv, JobRecords
<1>2. call[c] \in CallRecords
  BY <1>1 DEF TypeOK
<1>3. ended \in CallRecords /\ ended.job = job /\ ended.outcome = outcome
  BY <1>1, <1>2 DEF CallRecords
<1>4. call' = [d \in Callers |-> IF call[d] # None /\ call[d].job = job
                                 THEN [call[d] EXCEPT !.outcome = outcome, !.found = found]
                                 ELSE call[d]]
  BY DEF EndJob
<1>5. call'[c] = ended
  BY <1>1, <1>4
<1>6. \A d \in Callers \ {c} : call'[d] = call[d]
  BY <1>4 DEF WaitingInv
<1>7. call' \in [Callers -> CallRecords \union {None}]
  BY <1>3, <1>4, <1>5, <1>6 DEF TypeOK
<1>8. ended # None
  BY <1>3, KeychainAssumption
<1> QED BY <1>1, <1>3, <1>5, <1>6, <1>7, <1>8 DEF EndJob

\* The keychain is written under the service of the job, and nowhere else.
LEMMA JobStep ==
  ASSUME KeychainInv, NEW job \in jobs, JobSucceeds(job) \/ JobFails(job)
  PROVE  KeychainInv'
<1> DEFINE c == job.caller
           outcome == IF JobSucceeds(job) THEN "done" ELSE "error"
<1>0. TypeOK /\ WaitingInv /\ AloneInv /\ SettledInv
  BY DEF KeychainInv
<1>1. /\ job \in JobRecords /\ c \in Callers /\ job.service \in Services
      /\ job.password \in Contents /\ job.op \in {"load", "store", "remove"}
  BY <1>0 DEF TypeOK, JobRecords
<1>2. /\ call[c] # None /\ call[c].job = job /\ call[c].outcome = "running"
      /\ call' \in [Callers -> CallRecords \union {None}]
      /\ call'[c] # None /\ call'[c].job = job
      /\ call'[c].outcome \in {"done", "error"}
      /\ \A d \in Callers \ {c} : call'[d] = call[d]
      /\ jobs' = jobs \ {job}
      /\ UNCHANGED <<known, settled, overlapped, calls>>
  <2>1. CASE JobSucceeds(job)
    <3>1. (IF job.op = "load" THEN vault[job.service] ELSE None) \in Contents
      BY <1>0, <1>1 DEF TypeOK, Contents
    <3> QED BY <1>0, <2>1, <3>1, EndJobTyped DEF JobSucceeds
  <2>2. CASE JobFails(job)
    <3>1. None \in Contents
      BY DEF Contents
    <3> QED BY <1>0, <2>2, <3>1, EndJobTyped DEF JobFails
  <2> QED BY <2>1, <2>2
<1>3. /\ vault' \in [Services -> Contents]
      /\ \A s \in Services : vault'[s] = vault[s] \/ (s = job.service /\ job.op # "load")
      /\ job.op # "load" /\ call'[c].outcome = "done" => vault'[job.service] = job.password
  <2>1. CASE JobSucceeds(job)
    BY <1>0, <1>1, <2>1 DEF JobSucceeds, TypeOK
  <2>2. CASE JobFails(job)
    <3>1. call'[c].outcome = "error"
      BY <1>0, <2>2, EndJobTyped DEF JobFails, Contents
    <3> QED BY <1>0, <2>2, <3>1 DEF JobFails, TypeOK
  <2> QED BY <2>1, <2>2
<1> HIDE DEF c, outcome
<1>4. \A d \in Callers : \A s \in Services : Writes(d, s)' <=> Writes(d, s)
  BY <1>2 DEF Writes
<1>5. \A s \in Services : vault'[s] # vault[s] => Writes(c, s)
  BY <1>2, <1>3 DEF Writes
<1>6. TypeOK'
  BY <1>0, <1>2, <1>3 DEF TypeOK
<1>7. WaitingInv'
  <2>1. \A d \in Callers : call'[d] # None => call'[d].job.caller = d
    BY <1>0, <1>2 DEF WaitingInv, c
  <2>2. ASSUME NEW j \in jobs'
        PROVE  call'[j.caller] # None /\ call'[j.caller].job = j /\ call'[j.caller].outcome = "running"
    <3>1. j \in jobs /\ j # job /\ j.caller \in Callers
      BY <1>0, <1>2, <2>2 DEF TypeOK, JobRecords
    <3>2. j.caller # c
      BY <1>0, <1>2, <3>1 DEF WaitingInv
    <3> QED BY <1>0, <1>2, <3>1, <3>2 DEF WaitingInv
  <2> QED BY <2>1, <2>2 DEF WaitingInv
<1>8. AloneInv'
  <2>1. \A d, e \in Callers : \A s \in Services :
          d # e /\ Writes(d, s)' /\ Writes(e, s)' => d \in overlapped'
    BY <1>0, <1>2, <1>4 DEF AloneInv
  <2>2. ASSUME NEW d \in Callers, NEW s \in Services,
               Writes(d, s)', call'[d].outcome = "done", d \notin overlapped'
        PROVE  vault'[s] = call'[d].job.password
    <3>1. CASE d = c
      BY <1>2, <1>3, <2>2, <3>1 DEF Writes
    <3>2. CASE d # c
      <4>1. Writes(d, s) /\ call'[d] = call[d] /\ d \notin overlapped
        BY <1>2, <1>4, <2>2, <3>2
      <4>2. ~ Writes(c, s)
        BY <1>0, <1>1, <3>2, <4>1 DEF AloneInv, c
      <4> QED BY <1>0, <1>5, <2>2, <4>1, <4>2 DEF AloneInv
    <3> QED BY <3>1, <3>2
  <2> QED BY <2>1, <2>2 DEF AloneInv
<1>9. SettledInv'
  <2>1. \A s \in Services : Writes(c, s) => settled[s] = {}
    BY <1>0, <1>1 DEF SettledInv, c
  <2>2. \A s \in Services : settled'[s] \subseteq {vault'[s]}
    BY <1>0, <1>2, <1>5, <2>1 DEF SettledInv, SettledPasswordKept
  <2> QED BY <1>0, <1>2, <1>4, <2>2 DEF SettledInv, SettledPasswordKept
<1> QED BY <1>6, <1>7, <1>8, <1>9 DEF KeychainInv

LEMMA TimeOutStep ==
  ASSUME KeychainInv, NEW c \in Callers, TimesOut(c)
  PROVE  KeychainInv'
<1>0. TypeOK /\ WaitingInv /\ AloneInv /\ SettledInv
  BY DEF KeychainInv
<1>1. /\ call[c] # None /\ call[c] \in CallRecords
      /\ call' = [call EXCEPT ![c] = [call[c] EXCEPT !.timedOut = TRUE]]
      /\ UNCHANGED <<vault, known, jobs, settled, overlapped, calls>>
  BY <1>0 DEF TypeOK, TimesOut
<1>2. /\ [call[c] EXCEPT !.timedOut = TRUE] \in CallRecords
      /\ [call[c] EXCEPT !.timedOut = TRUE].job = call[c].job
      /\ [call[c] EXCEPT !.timedOut = TRUE].outcome = call[c].outcome
  BY <1>1 DEF CallRecords
<1>3. /\ call' \in [Callers -> CallRecords \union {None}]
      /\ \A d \in Callers : /\ call'[d] # None <=> call[d] # None
                            /\ call'[d].job = call[d].job /\ call'[d].outcome = call[d].outcome
  BY <1>0, <1>1, <1>2, KeychainAssumption DEF TypeOK
<1>4. \A d \in Callers : \A s \in Services : Writes(d, s)' <=> Writes(d, s)
  BY <1>3 DEF Writes
<1>5. TypeOK'
  BY <1>0, <1>1, <1>3 DEF TypeOK
<1>6. WaitingInv'
  BY <1>0, <1>1, <1>3 DEF WaitingInv, TypeOK, JobRecords
<1>7. AloneInv'
  BY <1>0, <1>1, <1>3, <1>4 DEF AloneInv
<1>8. SettledInv'
  BY <1>0, <1>1, <1>4 DEF SettledInv, SettledPasswordKept
<1> QED BY <1>5, <1>6, <1>7, <1>8 DEF KeychainInv

\* A call that returns settles its service if it was alone and its job has succeeded.
LEMMA ReturnStep ==
  ASSUME KeychainInv, NEW c \in Callers, Return(c)
  PROVE  KeychainInv'
<1> DEFINE k == call[c]
           settles == k.job.op # "load" /\ k.outcome = "done" /\ c \notin overlapped
<1>0. TypeOK /\ WaitingInv /\ AloneInv /\ SettledInv
  BY DEF KeychainInv
<1>1. /\ k # None /\ k.outcome # "running" /\ k \in CallRecords
      /\ k.job.service \in Services /\ k.job.password \in Contents
  BY <1>0 DEF TypeOK, Return, Finished, CallRecords, JobRecords
<1>2. /\ call' = [call EXCEPT ![c] = None]
      /\ known' \in {known, known \union {k.job.service}}
      /\ settled' = IF settles THEN [settled EXCEPT ![k.job.service] = {k.job.password}] ELSE settled
      /\ UNCHANGED <<vault, jobs, overlapped, calls>>
  BY DEF Return
<1>3. call'[c] = None /\ \A d \in Callers \ {c} : call'[d] = call[d]
  BY <1>0, <1>2 DEF TypeOK
<1>4. /\ \A s \in Services : ~ Writes(c, s)'
      /\ \A d \in Callers \ {c} : \A s \in Services : Writes(d, s)' <=> Writes(d, s)
  BY <1>3 DEF Writes
<1>5. settles => Writes(c, k.job.service)
  BY <1>1 DEF Writes
<1>6. TypeOK'
  BY <1>0, <1>1, <1>2 DEF TypeOK
<1>7. WaitingInv'
  <2>1. \A d \in Callers : call'[d] # None => call'[d].job.caller = d
    BY <1>0, <1>3 DEF WaitingInv
  <2>2. ASSUME NEW j \in jobs
        PROVE  call'[j.caller] # None /\ call'[j.caller].job = j /\ call'[j.caller].outcome = "running"
    <3>1. j.caller \in Callers \ {c}
      BY <1>0, <1>1 DEF TypeOK, JobRecords, WaitingInv
    <3> QED BY <1>0, <1>3, <3>1 DEF WaitingInv
  <2> QED BY <1>2, <2>1, <2>2 DEF WaitingInv
<1>8. AloneInv'
  BY <1>0, <1>2, <1>3, <1>4 DEF AloneInv
<1>9. SettledInv'
  <2>1. CASE settles
    <3>1. /\ settled' = [settled EXCEPT ![k.job.service] = {k.job.password}]
          /\ settled \in [Services -> SUBSET Contents]
      BY <1>0, <1>2, <2>1 DEF TypeOK
    <3>2. vault[k.job.service] = k.job.password
      BY <1>0, <1>1, <1>5, <2>1 DEF AloneInv
    <3>3. \A d \in Callers \ {c} : ~ Writes(d, k.job.service)
      BY <1>0, <1>1, <1>5, <2>1 DEF AloneInv
    <3>4. \A s \in Services : settled'[s] \subseteq {vault'[s]}
      BY <1>0, <1>1, <1>2, <3>1, <3>2 DEF SettledInv, SettledPasswordKept
    <3>5. ASSUME NEW d \in Callers, NEW s \in Services, Writes(d, s)'
          PROVE  settled'[s] = {}
      <4>1. d # c /\ Writes(d, s) /\ s # k.job.service
        BY <1>4, <3>3, <3>5
      <4> QED BY <1>0, <3>1, <4>1 DEF SettledInv
    <3> QED BY <3>4, <3>5 DEF SettledInv, SettledPasswordKept
  <2>2. CASE ~ settles
    BY <1>0, <1>2, <1>4, <2>2 DEF SettledInv, SettledPasswordKept
  <2> QED BY <2>1, <2>2
<1> QED BY <1>6, <1>7, <1>8, <1>9 DEF KeychainInv

-----------------------------------------------------------------------------
(* The invariants hold.                                                    *)

LEMMA InvInitially == Init => KeychainInv
<1> SUFFICES ASSUME Init PROVE KeychainInv
  OBVIOUS
<1>1. TypeOK
  BY DEF Init, TypeOK, Services, Contents
<1>2. WaitingInv /\ AloneInv /\ SettledInv
  BY DEF Init, WaitingInv, AloneInv, SettledInv, SettledPasswordKept, Writes
<1> QED BY <1>1, <1>2 DEF KeychainInv

LEMMA InvStep == KeychainInv /\ [Next]_vars => KeychainInv'
<1> SUFFICES ASSUME KeychainInv, [Next]_vars PROVE KeychainInv'
  OBVIOUS
<1>0. /\ Drawable \subseteq Services /\ known \subseteq Services
      /\ Passwords \subseteq Contents /\ None \in Contents
  BY DEF KeychainInv, TypeOK, Services, Contents
<1>1. ASSUME NEW c \in Callers, NEW password \in Passwords, StoreUnderNewService(c, password)
      PROVE  KeychainInv'
  BY <1>0, <1>1, StartStep DEF StoreUnderNewService
<1>2. ASSUME NEW c \in Callers, NEW s \in known,
             (\E password \in Passwords : Store(c, s, password)) \/ Load(c, s) \/ Remove(c, s)
      PROVE  KeychainInv'
  BY <1>0, <1>2, StartStep DEF Store, Load, Remove
<1>3. CASE Restart
  BY <1>3 DEF Restart, KeychainInv, TypeOK, WaitingInv, AloneInv, SettledInv,
              SettledPasswordKept, Writes
<1>4. CASE UNCHANGED vars
  BY <1>4 DEF vars, KeychainInv, TypeOK, WaitingInv, AloneInv, SettledInv,
              SettledPasswordKept, Writes
<1> QED BY <1>1, <1>2, <1>3, <1>4, JobStep, TimeOutStep, ReturnStep DEF Next

LEMMA InvHolds == Spec => []KeychainInv
BY InvInitially, InvStep, PTL DEF Spec

\* The variables keep their types.  (secret::load, store, remove)
THEOREM TypeCorrect == Spec => []TypeOK
<1>1. KeychainInv => TypeOK
  BY DEF KeychainInv
<1> QED BY <1>1, InvHolds, PTL

\* What an undisturbed store or removal has left under a service stays there until another
\* call names or draws the service, whatever names are drawn and however often the process
\* is started anew.  (secret::store, secret::remove)
THEOREM PasswordKept == Spec => []SettledPasswordKept
<1>1. KeychainInv => SettledPasswordKept
  BY DEF KeychainInv, SettledInv
<1> QED BY <1>1, InvHolds, PTL
=============================================================================
