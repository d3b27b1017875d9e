------------------------------- MODULE Keychain -------------------------------
(***************************************************************************)
(* httpcl::secret: passwords in the system keychain.  Each call starts a   *)
(* background job that talks to the keychain and waits for it for at most  *)
(* KEYCHAIN_TIMEOUT.  When the wait times out the result is given up, but  *)
(* the destructor of the future still waits for the job.                   *)
(*                                                                         *)
(* A service is a name users chose or one that store() makes of twelve     *)
(* calls of rand().  Nothing seeds rand(), and nobody asks whether a name  *)
(* is in use: a drawn name may be any, one that was drawn before included. *)
(***************************************************************************)
EXTENDS Naturals

CONSTANTS
  Callers,     \* the threads that call
  Chosen,      \* the services users choose
  Drawable,    \* the services store() may draw
  Passwords,
  MaxCalls,    \* bound of the calls
  MaxRestarts, \* bound of the restarts
  None         \* no password, no service, no call

Services == Chosen \union Drawable
Contents == Passwords \union {None}

\* A job, and a call that waits for it.
JobRecords ==
  [caller : Callers, number : Nat, op : {"load", "store", "remove"}, service : Services,
   password : Contents]

CallRecords ==
  [job : JobRecords, outcome : {"running", "done", "error"}, found : Contents,
   timedOut : BOOLEAN]

ASSUME KeychainAssumption ==
  /\ MaxCalls \in Nat /\ MaxRestarts \in Nat
  /\ None \notin Passwords \union CallRecords

VARIABLES
  vault,      \* the keychain: per service its password or None; it outlives processes
  known,      \* the services users can name: chosen, or returned by store()
  call,       \* per caller None or the call under way
  jobs,       \* the jobs that are running
  result,     \* how the last call of each caller ended
  settled,    \* ghost: per service what the last call that stored or removed its
              \*        password has left there, as a set, empty if one is under way,
              \*        failed or overlapped another
  overlapped, \* ghost: the callers whose call overlaps one that writes the same service
  calls, restarts

vars == <<vault, known, call, jobs, result, settled, overlapped, calls, restarts>>

NoResult == [op |-> "none", outcome |-> "none", returned |-> None]

-----------------------------------------------------------------------------
(* The calls.                                                              *)

\* The call of c stores or removes the password of a service.
Writes(c, service) ==
  call[c] # None /\ call[c].job.op # "load" /\ call[c].job.service = service

Start(c, op, service, password) ==
  /\ call[c] = None
  /\ calls < MaxCalls
  /\ calls' = calls + 1
  /\ LET job == [caller |-> c, number |-> calls', op |-> op, service |-> service,
                 password |-> password]
         others == {d \in Callers : op # "load" /\ Writes(d, service)}
     IN  /\ jobs' = jobs \union {job}
         /\ call' = [call EXCEPT ![c] = [job |-> job, outcome |-> "running", found |-> None,
                                         timedOut |-> FALSE]]
         /\ overlapped' = IF others = {} THEN overlapped \ {c} ELSE overlapped \union others \union {c}
  /\ settled' = IF op = "load" THEN settled ELSE [settled EXCEPT ![service] = {}]
  /\ result' = [result EXCEPT ![c] = NoResult]
  /\ UNCHANGED <<vault, known, restarts>>

StoreUnderNewService(c, password) ==
  \E service \in Drawable : Start(c, "store", service, password)

Store(c, service, password) == Start(c, "store", service, password)
Load(c, service)            == Start(c, "load", service, None)
Remove(c, service)          == Start(c, "remove", service, None)

-----------------------------------------------------------------------------
(* The job: the keychain does what it is asked, or reports an error, as it *)
(* does when asked for what is not there.                                  *)

EndJob(job, outcome, found) ==
  /\ jobs' = jobs \ {job}
  /\ call' = [c \in Callers |->
                IF call[c] # None /\ call[c].job = job
                THEN [call[c] EXCEPT !.outcome = outcome, !.found = found] ELSE call[c]]
  /\ UNCHANGED <<known, result, settled, overlapped, calls, restarts>>

\* What is removed has no password any more.
JobSucceeds(job) ==
  /\ job.op = "store" \/ vault[job.service] # None
  /\ EndJob(job, "done", IF job.op = "load" THEN vault[job.service] ELSE None)
  /\ vault' = IF job.op = "load" THEN vault ELSE [vault EXCEPT ![job.service] = job.password]

\* Mutant: the job does not pass its error on, as it would not with a thread and a promise
\* in place of std::async.
JobFailsSilently(job) ==
  /\ jobs' = jobs \ {job}
  /\ UNCHANGED <<vault, call, known, result, settled, overlapped, calls, restarts>>

JobFails(job) ==
  /\ EndJob(job, "error", None)
  /\ UNCHANGED vault

\* The caller gives the result up, and from here on waits for the end of the job.
TimesOut(c) ==
  /\ call[c] # None
  /\ call[c].outcome = "running" /\ ~ call[c].timedOut
  /\ call' = [call EXCEPT ![c].timedOut = TRUE]
  /\ UNCHANGED <<vault, known, jobs, result, settled, overlapped, calls, restarts>>

\* Mutant: a job that timed out is left to itself, as a detached thread would be.
FinishedOrTimedOut(c) == call[c] # None /\ (call[c].outcome # "running" \/ call[c].timedOut)

\* The job has ended: the future can be read, and destroyed.
Finished(c) == call[c] # None /\ call[c].outcome # "running"

\* What a call returns: the outcome of a store is never asked for, and that of a
\* removal is the error converted to bool, true if there is one.
Returned(k) ==
  CASE k.job.op = "load"   -> IF k.timedOut THEN None
                              ELSE IF k.outcome = "error" THEN "throws" ELSE k.found
    [] k.job.op = "store"  -> IF k.timedOut THEN None ELSE k.job.service
    [] k.job.op = "remove" -> ~ k.timedOut /\ k.outcome = "error"

Return(c) ==
  /\ Finished(c)
  /\ LET k == call[c]
     IN  /\ result' = [result EXCEPT ![c] = [op |-> k.job.op, outcome |-> k.outcome,
                                             returned |-> Returned(k)]]
         /\ known' = IF k.job.op = "store" /\ ~ k.timedOut THEN known \union {k.job.service}
                     ELSE known
         /\ settled' = IF k.job.op # "load" /\ k.outcome = "done" /\ c \notin overlapped
                       THEN [settled EXCEPT ![k.job.service] = {k.job.password}] ELSE settled
  /\ call' = [call EXCEPT ![c] = None]
  /\ UNCHANGED <<vault, jobs, overlapped, calls, restarts>>

\* The process ends, with its calls and jobs, and is started anew.
Restart ==
  /\ restarts < MaxRestarts
  /\ restarts' = restarts + 1
  /\ call' = [c \in Callers |-> None]
  /\ jobs' = {} /\ overlapped' = {}
  /\ result' = [c \in Callers |-> NoResult]
  /\ UNCHANGED <<vault, known, settled, calls>>

-----------------------------------------------------------------------------

Init ==
  /\ vault = [s \in Services |-> None]
  /\ known = Chosen
  /\ call = [c \in Callers |-> None]
  /\ jobs = {} /\ overlapped = {}
  /\ result = [c \in Callers |-> NoResult]
  /\ settled = [s \in Services |-> {None}]
  /\ calls = 0 /\ restarts = 0

EndsJob(c) == \E job \in jobs : job.caller = c /\ (JobSucceeds(job) \/ JobFails(job))

Next ==
  \/ \E c \in Callers :
       \/ \E password \in Passwords : StoreUnderNewService(c, password)
       \/ \E s \in known : \/ \E password \in Passwords : Store(c, s, password)
                           \/ Load(c, s)
                           \/ Remove(c, s)
       \/ TimesOut(c)
       \/ Return(c)
  \/ \E job \in jobs : JobSucceeds(job) \/ JobFails(job)
  \/ Restart

Spec == Init /\ [][Next]_vars

\* The keychain answers every job in the end, which may take a user's attention,
\* and a thread whose job has ended goes on.  Nothing is asked of the timeout.
FairSpec == Spec /\ \A c \in Callers : WF_vars(EndsJob(c)) /\ WF_vars(Return(c))

-----------------------------------------------------------------------------
(* Properties.                                                             *)

\* What a call has stored or removed, if it succeeded and no other call that writes the
\* service overlapped it, is what the keychain holds once it has returned, across restarts,
\* until another call names or draws the service: no job that timed out is left behind
\* to undo later calls.  (secret::store, secret::remove)
SettledPasswordKept == \A s \in Services : settled[s] \subseteq {vault[s]}

\* Every call returns, if the keychain answers: the error of a job reaches the call that
\* waits for it, and none is waited for in vain.
EveryCallReturns == \A c \in Callers : call[c] # None ~> call[c] = None
=============================================================================
