-------------------------- MODULE DeliveryQueue --------------------------
(***************************************************************************)
(* The durable queue of internal/queue and the three parties that share    *)
(* it: the webhook handlers and pollers that call Enqueue, the worker      *)
(* goroutine of cmd/gitmirror that claims and settles, and the daemon's    *)
(* restart, which takes unfinished files back.                             *)
(*                                                                         *)
(* The queue is four directories of files, one file per event.  Queue.mu   *)
(* makes every call atomic for the other goroutines, so the only place     *)
(* where the file operations inside a call become visible is where the     *)
(* call is cut short: by an I/O error, after which the daemon goes on, or  *)
(* by the end of the process, which is the same cut followed by Crash.     *)
(* These cuts are the "...Interrupted" actions.  The ".tmp" files a cut    *)
(* leaves are never read (Claim only lists ".json", Enqueue stats exact    *)
(* names), so they are not represented.                                    *)
(*                                                                         *)
(* A file is represented by its name and by the attempt count stored in    *)
(* it.  Canonical gives eventFileName of the event inside: a file written  *)
(* by a release that named files without the provider has another name.    *)
(* What Process does with an event is module BranchSync; here it returns   *)
(* nil or an error.                                                        *)
(***************************************************************************)
EXTENDS Naturals

CONSTANTS
  Names,          \* file names, numbered in the order sort.Strings gives them
  Canonical,      \* file name -> eventFileName of the event stored in it
  MaxAttempts,    \* maxAttempts of queue.go
  Interruptible,  \* may a call be cut short between its file operations?
  MaxCrashes,     \* bound on process deaths
  MaxRevivals,    \* bound on deliveries accepted again after they failed
  NoFile          \* "no such file"

ASSUME QueueAssumption ==
  /\ Names \subseteq Nat
  /\ Canonical \in [Names -> Names]
  /\ \A n \in Names : Canonical[Canonical[n]] = Canonical[n]
  /\ MaxAttempts \in Nat \ {0}
  /\ Interruptible \in BOOLEAN
  /\ MaxCrashes \in Nat
  /\ MaxRevivals \in Nat
  /\ NoFile \notin Nat

\* The names Enqueue writes; only an earlier release wrote the others.
Deliveries == {n \in Names : Canonical[n] = n}

\* The deliveries that no file of an earlier release holds.
Current == {d \in Deliveries : \A n \in Names : Canonical[n] = d => n = d}

VARIABLES
  (* the directories: file name -> attempts stored in the file, or NoFile *)
  pending,
  processing,
  done,
  failed,
  worker,    \* the worker goroutine and the event it holds in memory
  (* observation only: no guard reads these, except for the bounds *)
  runs,      \* times the worker got the delivery since it was last accepted
  crashes,
  revivals

folders == <<pending, processing, done, failed>>
vars == <<pending, processing, done, failed, worker, runs, crashes, revivals>>

-----------------------------------------------------------------------------
(* Files *)

Has(folder, n) == folder[n] # NoFile

NoFiles == [n \in Names |-> NoFile]

Put(folder, n, attempts) == [folder EXCEPT ![n] = attempts]

Drop(folder, n) == [folder EXCEPT ![n] = NoFile]

(* The worker's states.  "starting" is Queue.Init at daemon start, before   *)
(* the worker, the pollers and the HTTP server run.                         *)

Phases == {"starting", "idle", "running", "succeeded", "errored"}

Resting(phase) == [phase |-> phase, name |-> NoFile, attempts |-> 0]

Serving == worker.phase # "starting"

Busy(d) == worker.name = d

-----------------------------------------------------------------------------
Init ==
  /\ pending \in [Names -> {0, NoFile}]
  /\ \A d \in Deliveries : ~Has(pending, d)
  /\ processing = NoFiles
  /\ done = NoFiles
  /\ failed = NoFiles
  /\ worker = Resting("starting")
  /\ runs = [d \in Deliveries |-> 0]
  /\ crashes = 0
  /\ revivals = 0

-----------------------------------------------------------------------------
(* Queue.Init: every file left in processing goes back to pending, one      *)
(* rename at a time; a crash in between leaves the rest for the next start. *)

\* Mutation: a file left in processing is removed instead of renamed.
RecoveredNowhere(n) == pending

Recovered(n) == Put(pending, n, processing[n])

Recover(n) ==
  /\ worker.phase = "starting"
  /\ Has(processing, n)
  /\ pending' = Recovered(n)
  /\ processing' = Drop(processing, n)
  /\ UNCHANGED <<done, failed, worker, runs, crashes, revivals>>

Start ==
  /\ worker.phase = "starting"
  /\ \A n \in Names : ~Has(processing, n)
  /\ worker' = Resting("idle")
  /\ UNCHANGED <<folders, runs, crashes, revivals>>

-----------------------------------------------------------------------------
(* Queue.Enqueue, called by a webhook handler for a verified request and by *)
(* a poller; the caller answers 200 for a duplicate, 202 when accepted and  *)
(* 500 on an error.  A duplicate changes nothing and is not an action.       *)

\* Mutation: a file being processed is not looked for.
KnownButProcessing(d) == Has(pending, d) \/ Has(done, d)

Known(d) == Has(pending, d) \/ Has(processing, d) \/ Has(done, d)

Accept(d) ==
  /\ Serving
  /\ ~Known(d)
  /\ Has(failed, d) => revivals < MaxRevivals
  /\ failed' = Drop(failed, d)
  /\ pending' = Put(pending, d, 0)
  /\ revivals' = IF Has(failed, d) THEN revivals + 1 ELSE revivals
  /\ runs' = [runs EXCEPT ![d] = 0]
  /\ UNCHANGED <<processing, done, worker, crashes>>

\* The record in failed is removed and the new file is never written.
AcceptInterrupted(d) ==
  /\ Interruptible
  /\ Serving
  /\ ~Known(d)
  /\ Has(failed, d)
  /\ revivals < MaxRevivals
  /\ failed' = Drop(failed, d)
  /\ revivals' = revivals + 1
  /\ UNCHANGED <<pending, processing, done, worker, runs, crashes>>

-----------------------------------------------------------------------------
(* Queue.Claim: the first pending name moves to processing, under the       *)
(* canonical name, and its attempt count is incremented on disk before the  *)
(* worker sees the event.                                                   *)

\* Mutation: a file that was tried before is not listed.
FirstUntried(n) ==
  /\ pending[n] = 0
  /\ \A m \in Names : pending[m] = 0 => n <= m

First(n) ==
  /\ Has(pending, n)
  /\ \A m \in Names : Has(pending, m) => n <= m

\* Mutations: the incremented count stays in memory; a file with an older name
\* keeps it.
ClaimedFileUncounted(n) ==
  Put(Drop(processing, n), Canonical[n], pending[n])

ClaimedFileUnrenamed(n) == Put(processing, n, pending[n] + 1)

ClaimedFile(n) ==
  Put(Drop(processing, n), Canonical[n], pending[n] + 1)

Claim(n) ==
  /\ worker.phase = "idle"
  /\ First(n)
  /\ pending' = Drop(pending, n)
  /\ processing' = ClaimedFile(n)
  /\ worker' = [phase |-> "running", name |-> Canonical[n], attempts |-> pending[n] + 1]
  /\ runs' = [runs EXCEPT ![Canonical[n]] = @ + 1]
  /\ UNCHANGED <<done, failed, crashes, revivals>>

\* The file cannot be read, renamed or rewritten: it stays in processing
\* under either name, and the worker logs the error and waits for a tick.
ClaimInterrupted(n) ==
  /\ Interruptible
  /\ worker.phase = "idle"
  /\ First(n)
  /\ pending' = Drop(pending, n)
  /\ \E m \in {n, Canonical[n]} : processing' = Put(processing, m, pending[n])
  /\ UNCHANGED <<done, failed, worker, runs, crashes, revivals>>

-----------------------------------------------------------------------------
(* The worker loop: Process returns, then Complete or Fail renames the file. *)

ProcessReturns ==
  /\ worker.phase = "running"
  /\ \E outcome \in {"succeeded", "errored"} :
       worker' = [worker EXCEPT !.phase = outcome]
  /\ UNCHANGED <<folders, runs, crashes, revivals>>

Complete ==
  /\ worker.phase = "succeeded"
  /\ done' = Put(done, worker.name, processing[worker.name])
  /\ processing' = Drop(processing, worker.name)
  /\ worker' = Resting("idle")
  /\ UNCHANGED <<pending, failed, runs, crashes, revivals>>

\* Mutation: one attempt too many before giving up.
ExhaustedLate(attempts) == attempts > MaxAttempts

Exhausted(attempts) == attempts >= MaxAttempts

Fail ==
  /\ worker.phase = "errored"
  /\ processing' = Drop(processing, worker.name)
  /\ \/ /\ Exhausted(worker.attempts)
        /\ failed' = Put(failed, worker.name, processing[worker.name])
        /\ UNCHANGED pending
     \/ /\ ~Exhausted(worker.attempts)
        /\ pending' = Put(pending, worker.name, processing[worker.name])
        /\ UNCHANGED failed
  /\ worker' = Resting("idle")
  /\ UNCHANGED <<done, runs, crashes, revivals>>

\* The rename fails: the error is logged and the file stays in processing.
SettleInterrupted ==
  /\ Interruptible
  /\ worker.phase \in {"succeeded", "errored"}
  /\ worker' = Resting("idle")
  /\ UNCHANGED <<folders, runs, crashes, revivals>>

-----------------------------------------------------------------------------
(* The process dies (crash, kill, or main returning while the worker still  *)
(* runs) and is started again.  Only the directories survive.               *)

Crash ==
  /\ crashes < MaxCrashes
  /\ crashes' = crashes + 1
  /\ worker' = Resting("starting")
  /\ UNCHANGED <<folders, runs, revivals>>

-----------------------------------------------------------------------------
WorkerStep ==
  \/ \E n \in Names : Claim(n) \/ ClaimInterrupted(n)
  \/ ProcessReturns
  \/ Complete
  \/ Fail
  \/ SettleInterrupted

Boot == Start \/ \E n \in Names : Recover(n)

Next ==
  \/ Boot
  \/ \E d \in Deliveries : Accept(d) \/ AcceptInterrupted(d)
  \/ WorkerStep
  \/ Crash

Spec == Init /\ [][Next]_vars

(* The worker's ticker keeps firing and Process returns (the git commands   *)
(* it runs have no deadline of their own, so this is an assumption about    *)
(* git); systemd starts the daemon again after a crash.                     *)
FairSpec == Spec /\ WF_vars(WorkerStep) /\ WF_vars(Boot)

-----------------------------------------------------------------------------
(* Properties *)

Attempts == Nat \union {NoFile}

\* Every variable keeps its type: folders hold attempt counts, the worker holds
\* an event exactly while it is busy, and that event's file is in processing
\* under the name Complete and Fail will look for.
TypeOK ==
  /\ pending \in [Names -> Attempts]
  /\ processing \in [Names -> Attempts]
  /\ done \in [Names -> Attempts]
  /\ failed \in [Names -> Attempts]
  /\ worker \in [phase : Phases, name : Deliveries \union {NoFile}, attempts : Nat]
  /\ worker.phase \in {"starting", "idle"} <=> worker.name = NoFile
  /\ worker.name # NoFile => Has(processing, worker.name)
  /\ runs \in [Deliveries -> Nat]
  /\ crashes \in Nat
  /\ revivals \in Nat

\* The directories are the state of a delivery: it is in at most one of them,
\* whatever calls were cut short (Enqueue looks in three directories before
\* it writes into the fourth, and four operations rename between them).
OnePlace ==
  \A d \in Current : \A i, j \in DOMAIN folders :
    i # j /\ Has(folders[i], d) => ~Has(folders[j], d)

\* The attempt count on disk never falls behind the number of times Process
\* really ran the event, so no crash gives an event back an attempt it used.
RunsCounted ==
  \A d \in Current : \A i \in DOMAIN folders :
    Has(folders[i], d) => runs[d] <= folders[i][d]

\* Retries are bounded across restarts: a file that may be claimed has fewer
\* than MaxAttempts attempts, plus one for every time the process died.
RetryBound ==
  \A n \in Names :
    /\ Has(pending, n) => pending[n] < MaxAttempts + crashes
    /\ Has(processing, n) => processing[n] <= MaxAttempts + crashes

\* Some file in a folder that the worker still serves, or that records
\* success, holds the delivery, under its own or an older name.
Live(d) ==
  \E n \in Names :
    Canonical[n] = d /\ (Has(pending, n) \/ Has(processing, n) \/ Has(done, n))

\* A delivery the queue holds only leaves pending, processing and done by
\* being given up into failed: no cut call, crash, restart or renaming of an
\* older file loses it.
NeverDropped ==
  [][\A d \in Deliveries : Live(d) => Live(d)' \/ Has(failed, d)']_vars

\* A call was cut short after the event's file moved to processing: nothing
\* looks at the file until the next start.
Stranded(d) ==
  ~Busy(d) /\ \E n \in Names : Canonical[n] = d /\ Has(processing, n)

\* Every file that is pending ends in done or in failed, whatever names sort
\* before it and whatever files of an earlier release are there; only a call
\* that was cut short leaves it waiting, for the next start of the daemon.
Settles ==
  \A n \in Names :
    LET d == Canonical[n]
    IN Has(pending, n) ~> Has(done, d) \/ Has(failed, d) \/ (Interruptible /\ Stranded(d))

\* The queue as its callers see it.
StatusOf(d) ==
  CASE Busy(d) -> "running"
    [] ~Busy(d) /\ (Has(pending, d) \/ Has(processing, d)) -> "queued"
    [] ~Busy(d) /\ ~Known(d) /\ Has(failed, d) -> "failed"
    [] ~Busy(d) /\ ~Known(d) /\ ~Has(failed, d) -> "unknown"
    [] OTHER -> "done"

Promise == INSTANCE DeliveryPromise
  WITH Deliveries <- Current, status <- [d \in Current |-> StatusOf(d)]

\* For the deliveries of this release the file queue implements DeliveryPromise:
\* done is final, nothing accepted is forgotten before it was tried and given
\* up, one event runs at a time.
KeepsPromise == Promise!Spec

==========================================================================
