----------------------------- MODULE ControlJobs -----------------------------
(***************************************************************************)
(* The job queue and the uploads of the control plane: the rows of         *)
(* persistence/control.py, written by the API's request handlers and by    *)
(* the workers.  Every action is one transaction, one effect on the data   *)
(* store, or something that befalls a process between two of them.         *)
(*                                                                         *)
(* A job is known by its parameters: the import of an upload, or Refresh,  *)
(* which stands for one set of parameters of a job type that may be        *)
(* retried.  Heartbeat times are abstracted to whether the last one is     *)
(* older than ten minutes (stale).                                         *)
(***************************************************************************)
EXTENDS Integers, FiniteSets

CONSTANTS
    Uploads,   \* uploaded files
    Refresh,   \* the parameters of a job that is not an import
    Requests,  \* API handlers that can run at the same time
    Workers,   \* worker ids
    NoWorker,  \* a job nobody has claimed
    MaxJobs    \* bound on the jobs ever queued

ASSUME RefreshAssumption == Refresh \notin Uploads
ASSUME WorkerAssumption == NoWorker \notin Workers
ASSUME MaxJobsAssumption == MaxJobs \in Nat

Jobs  == 1..MaxJobs
Kinds == Uploads \cup {Refresh}
NoJob == 0

Active   == {"queued", "running"}
Terminal == {"succeeded", "failed", "cancelled"}

\* Where a worker is in an import; the first four are inside its try block.
Guarded   == {"preview", "write", "written", "published"}
Importing == Guarded \cup {"read", "mark", "undo"}

VARIABLES
    \* control_jobs
    status, params, owner, cancelRequested, stale,
    \* data_uploads
    upload,
    \* API handlers
    rpc, asked,
    \* workers: where the loop is, its job, the job's outcome so far
    wpc, cur, outcome,
    \* history: runs of a job, files written for an upload, the identical jobs
    \* queued since a handler's duplicate check and, then, before its own job
    runs, written, unseen, copies

jobRows  == <<status, params, owner, cancelRequested, stale>>
requests == <<rpc, asked>>
workers  == <<wpc, cur, outcome>>
history  == <<runs, written, unseen, copies>>
vars     == <<jobRows, upload, requests, workers, history>>

TypeOK ==
    /\ status  \in [Jobs -> {"none"} \cup Active \cup Terminal]
    /\ params  \in [Jobs -> Kinds]
    /\ owner   \in [Jobs -> Workers \cup {NoWorker}]
    /\ cancelRequested \in [Jobs -> BOOLEAN] /\ stale \in [Jobs -> BOOLEAN]
    /\ upload  \in [Uploads -> {"none", "validated", "invalid", "queued", "imported",
                                "failed", "discarded"}]
    /\ rpc     \in [Requests -> {"idle", "look", "insert", "link"}]
    /\ asked   \in [Requests -> Kinds]
    /\ unseen  \in [Requests -> SUBSET Jobs]
    /\ wpc     \in [Workers -> {"down", "idle", "begin", "worked", "finish"} \cup Importing]
    /\ cur     \in [Workers -> Jobs \cup {NoJob}]
    /\ \A w \in Workers :
         /\ wpc[w] \in {"down", "idle"} <=> cur[w] = NoJob
         /\ wpc[w] \in Importing => params[cur[w]] \in Uploads
    /\ outcome \in [Workers -> Terminal]
    /\ runs    \in [Jobs -> Nat] /\ written \in [Uploads -> Nat]
    /\ copies  \in [Jobs -> SUBSET Jobs]

Init ==
    /\ status = [j \in Jobs |-> "none"] /\ params = [j \in Jobs |-> Refresh]
    /\ owner = [j \in Jobs |-> NoWorker]
    /\ cancelRequested = [j \in Jobs |-> FALSE] /\ stale = [j \in Jobs |-> FALSE]
    /\ upload = [u \in Uploads |-> "none"]
    /\ rpc = [r \in Requests |-> "idle"] /\ asked = [r \in Requests |-> Refresh]
    /\ unseen = [r \in Requests |-> {}]
    /\ wpc = [w \in Workers |-> "down"] /\ cur = [w \in Workers |-> NoJob]
    /\ outcome = [w \in Workers |-> "failed"]
    /\ runs = [j \in Jobs |-> 0] /\ written = [u \in Uploads |-> 0]
    /\ copies = [j \in Jobs |-> {}]

-----------------------------------------------------------------------------
(***************************************************************************)
(* The API's handlers.                                                     *)
(***************************************************************************)
\* create_upload: the preview accepts the file or not.
Receive(u) ==
    /\ upload[u] = "none"
    /\ \E s \in {"validated", "invalid"} : upload' = [upload EXCEPT ![u] = s]
    /\ UNCHANGED <<jobRows, requests, workers, history>>

\* set_upload_status with its row locked: refused unless the status is expected.
SetUpload(u, s, expected) ==
    /\ upload[u] \in expected
    /\ upload' = [upload EXCEPT ![u] = s]

Discard(u) ==
    /\ SetUpload(u, "discarded", {"validated", "invalid"})
    /\ UNCHANGED <<jobRows, requests, workers, history>>

\* MaxJobs leaves an id for another job.
Spare ==
    Cardinality({j \in Jobs : status[j] # "none"})
      + Cardinality({r \in Requests : rpc[r] \in {"look", "insert"}}) < MaxJobs

\* A handler is about to call create_job for k.
WillCreate(r, k) ==
    /\ rpc[r] = "idle" /\ Spare
    /\ rpc' = [rpc EXCEPT ![r] = "look"]
    /\ asked' = [asked EXCEPT ![r] = k]

Queue(r) ==
    /\ WillCreate(r, Refresh)
    /\ UNCHANGED <<jobRows, upload, workers, history>>

\* Only a finished job of a type that is not an import.
Retry(r, j) ==
    /\ status[j] \in Terminal /\ params[j] \notin Uploads
    /\ WillCreate(r, params[j])
    /\ UNCHANGED <<jobRows, upload, workers, history>>

\* Mutant: a failed import may be asked for again.
Import_again(r, u) ==
    /\ SetUpload(u, "queued", {"validated", "failed"})
    /\ WillCreate(r, u)
    /\ UNCHANGED <<jobRows, workers, history>>

Import(r, u) ==
    /\ SetUpload(u, "queued", {"validated"})
    /\ WillCreate(r, u)
    /\ UNCHANGED <<jobRows, workers, history>>

Answer(r) ==
    /\ rpc' = [rpc EXCEPT ![r] = "idle"]
    /\ asked' = [asked EXCEPT ![r] = Refresh]

\* create_job has returned: the import handler has the job's id left to store.
Created(r) ==
    IF asked[r] \in Uploads
    THEN rpc' = [rpc EXCEPT ![r] = "link"] /\ UNCHANGED asked
    ELSE Answer(r)

\* Mutant: a running job is no duplicate.
Look_queuedOnly(r) ==
    /\ rpc[r] = "look"
    /\ IF \E j \in Jobs : status[j] = "queued" /\ params[j] = asked[r]
       THEN Created(r)
       ELSE rpc' = [rpc EXCEPT ![r] = "insert"] /\ UNCHANGED asked
    /\ UNCHANGED <<jobRows, upload, workers, history>>

\* create_job's duplicate check: its rows stay unlocked, so it and the insertion
\* are two actions.
Look(r) ==
    /\ rpc[r] = "look"
    /\ IF \E j \in Jobs : status[j] \in Active /\ params[j] = asked[r]
       THEN Created(r)
       ELSE rpc' = [rpc EXCEPT ![r] = "insert"] /\ UNCHANGED asked
    /\ UNCHANGED <<jobRows, upload, workers, history>>

Insert(r) ==
    /\ rpc[r] = "insert"
    /\ \E j \in Jobs :
         /\ status[j] = "none" /\ \A i \in Jobs : i < j => status[i] # "none"
         /\ status' = [status EXCEPT ![j] = "queued"]
         /\ params' = [params EXCEPT ![j] = asked[r]]
         /\ copies' = [copies EXCEPT ![j] = unseen[r]]
         /\ unseen' = [q \in Requests |->
                         CASE q = r -> {}
                           [] rpc[q] = "insert" /\ q # r /\ asked[q] = asked[r]
                                -> unseen[q] \cup {j}
                           [] OTHER -> unseen[q]]
    /\ Created(r)
    /\ UNCHANGED <<owner, cancelRequested, stale, upload, workers, runs, written>>

\* The import handler stores the job's id, and "queued" once more whatever the
\* status is by now.
Link(r) ==
    /\ rpc[r] = "link"
    /\ upload' = [upload EXCEPT ![asked[r]] = "queued"]
    /\ Answer(r)
    /\ UNCHANGED <<jobRows, workers, history>>

\* The API process is stopped, or its database call fails.
Abort(r) ==
    /\ rpc[r] # "idle"
    /\ Answer(r)
    /\ unseen' = [unseen EXCEPT ![r] = {}]
    /\ UNCHANGED <<jobRows, upload, workers, runs, written, copies>>

\* Mutant: a queued job is only flagged, like a running one.
RequestCancel_flags(j) ==
    /\ status[j] \in Active
    /\ cancelRequested' = [cancelRequested EXCEPT ![j] = TRUE]
    /\ UNCHANGED <<status, params, owner, stale, upload, requests, workers, history>>

RequestCancel(j) ==
    /\ \/ /\ status[j] = "queued"
          /\ status' = [status EXCEPT ![j] = "cancelled"]
          /\ UNCHANGED cancelRequested
       \/ /\ status[j] = "running"
          /\ cancelRequested' = [cancelRequested EXCEPT ![j] = TRUE]
          /\ UNCHANGED status
    /\ UNCHANGED <<params, owner, stale, upload, requests, workers, history>>

-----------------------------------------------------------------------------
(***************************************************************************)
(* A worker.                                                               *)
(***************************************************************************)
Busy(w) == wpc[w] \notin {"down", "idle"}
Goto(w, p) == wpc' = [wpc EXCEPT ![w] = p]

\* The worker has no job any more.
Leave(w, p) ==
    /\ Goto(w, p)
    /\ cur' = [cur EXCEPT ![w] = NoJob]
    /\ outcome' = [outcome EXCEPT ![w] = "failed"]

\* Mutant: the job of a dead worker is queued again.
Start_requeues(w) ==
    /\ wpc[w] = "down"
    /\ status' = [j \in Jobs |-> IF status[j] = "running" /\ stale[j]
                                 THEN "queued" ELSE status[j]]
    /\ Goto(w, "idle")
    /\ UNCHANGED <<params, owner, cancelRequested, stale, upload, requests, cur, outcome,
                   history>>

\* startup(): fail_orphans, here and nowhere else.
Start(w) ==
    /\ wpc[w] = "down"
    /\ status' = [j \in Jobs |-> IF status[j] = "running" /\ stale[j]
                                 THEN "failed" ELSE status[j]]
    /\ Goto(w, "idle")
    /\ UNCHANGED <<params, owner, cancelRequested, stale, upload, requests, cur, outcome,
                   history>>

\* claim_next.  Locked rows are skipped and the times jobs are ordered by are
\* read before their transactions, so that any queued job may be the next.
Claim(w, j) ==
    /\ wpc[w] = "idle"
    /\ status[j] = "queued" /\ ~cancelRequested[j]
    /\ status' = [status EXCEPT ![j] = "running"]
    /\ owner' = [owner EXCEPT ![j] = w]
    /\ stale' = [stale EXCEPT ![j] = FALSE]
    /\ cur' = [cur EXCEPT ![w] = j]
    /\ runs' = [runs EXCEPT ![j] = @ + 1]
    /\ Goto(w, "begin")
    /\ UNCHANGED <<params, cancelRequested, upload, requests, outcome, written, unseen,
                   copies>>

\* heartbeat: refreshes the claimer's running job.
Beat(w) ==
    stale' = [stale EXCEPT ![cur[w]] =
                @ /\ ~(status[cur[w]] = "running" /\ owner[cur[w]] = w)]

\* The keep-alive thread: no heartbeat can be missed for ever.
KeepAlive(w) ==
    /\ Busy(w) /\ wpc[w] # "finish"
    /\ Beat(w)
    /\ UNCHANGED <<status, params, owner, cancelRequested, upload, requests, wpc, cur,
                   outcome, history>>

\* Where a handler is at its next checkpoint or write.  The work of a Refresh, and
\* the merge of the imported bars, are done on the way.
AfterCheckpoint(w) ==
    [begin |-> IF params[cur[w]] \in Uploads THEN "read" ELSE "worked", preview |-> "write",
     written |-> "published", published |-> "mark", worked |-> "finish"][wpc[w]]

\* An exception in the handler: the import marks its upload first.
Raise(w, s) ==
    /\ outcome' = [outcome EXCEPT ![w] = s]
    /\ Goto(w, IF wpc[w] \in Guarded THEN "undo" ELSE "finish")

\* progress(): a heartbeat; the job stops here when it has been cancelled.  The
\* context's own flag only remembers a request that is never taken back.
Checkpoint(w) ==
    /\ wpc[w] \in {"begin", "preview", "written", "published", "worked"}
    /\ Beat(w)
    /\ IF cancelRequested[cur[w]]
       THEN Raise(w, "cancelled")
       ELSE /\ Goto(w, AfterCheckpoint(w))
            /\ outcome' = [outcome EXCEPT ![w] =
                             IF wpc[w] = "worked" THEN "succeeded" ELSE @]
    /\ UNCHANGED <<status, params, owner, cancelRequested, upload, requests, cur, history>>

\* Any call of a handler may fail.
Fails(w) ==
    /\ wpc[w] \in {"begin", "read", "worked"} \cup Guarded
    /\ Raise(w, "failed")
    /\ UNCHANGED <<jobRows, upload, requests, cur, history>>

ReadUpload(w) ==
    /\ wpc[w] = "read"
    /\ IF upload[params[cur[w]]] = "queued"
       THEN Goto(w, "preview") /\ UNCHANGED outcome
       ELSE Raise(w, "failed")
    /\ UNCHANGED <<jobRows, upload, requests, cur, history>>

\* The accepted file replaces the one in the import directory.  A file of
\* corporate actions without its bars ends there.
ReplaceFile(w) ==
    /\ wpc[w] = "write"
    /\ written' = [written EXCEPT ![params[cur[w]]] = @ + 1]
    /\ \E p \in {"written", "mark"} : Goto(w, p)
    /\ UNCHANGED <<jobRows, upload, requests, cur, outcome, runs, unseen, copies>>

\* The result is stored with the upload; the data set list is refreshed, which
\* may fail.
Mark(w) ==
    /\ wpc[w] = "mark"
    /\ \E s \in {"imported", "failed"}, o \in {"succeeded", "failed"} :
         /\ upload' = [upload EXCEPT ![params[cur[w]]] = s]
         /\ outcome' = [outcome EXCEPT ![w] = o]
    /\ Goto(w, "finish")
    /\ UNCHANGED <<jobRows, requests, cur, history>>

\* The exception handler of the import.
Undo(w) ==
    /\ wpc[w] = "undo"
    /\ upload' = [upload EXCEPT ![params[cur[w]]] = "failed"]
    /\ Goto(w, "finish")
    /\ UNCHANGED <<jobRows, requests, cur, outcome, history>>

\* The upload cannot be written: this failure is the job's, whatever came before.
StoreFails(w) ==
    /\ wpc[w] \in {"mark", "undo"}
    /\ outcome' = [outcome EXCEPT ![w] = "failed"]
    /\ Goto(w, "finish")
    /\ UNCHANGED <<jobRows, upload, requests, cur, history>>

\* Mutant: the row is written whatever its status is.
Finish_anyway(w) ==
    /\ wpc[w] = "finish"
    /\ status' = [status EXCEPT ![cur[w]] =
                    IF owner[cur[w]] = w THEN outcome[w] ELSE @]
    /\ Leave(w, "idle")
    /\ UNCHANGED <<params, owner, cancelRequested, stale, upload, requests, history>>

\* finish: only a job that is still running, and only its claimer's.
Finish(w) ==
    /\ wpc[w] = "finish"
    /\ status' = [status EXCEPT ![cur[w]] =
                    IF @ = "running" /\ owner[cur[w]] = w THEN outcome[w] ELSE @]
    /\ Leave(w, "idle")
    /\ UNCHANGED <<params, owner, cancelRequested, stale, upload, requests, history>>

\* The database is away before the handler starts or when it has ended: run()
\* catches the error and takes the next job.
Drop(w) ==
    /\ wpc[w] \in {"begin", "finish"}
    /\ Leave(w, "idle")
    /\ UNCHANGED <<jobRows, upload, requests, history>>

Crash(w) ==
    /\ wpc[w] # "down"
    /\ Leave(w, "down")
    /\ UNCHANGED <<jobRows, upload, requests, history>>

\* Ten minutes pass in which no heartbeat is stored.
Age(j) ==
    /\ status[j] = "running" /\ ~stale[j]
    /\ stale' = [stale EXCEPT ![j] = TRUE]
    /\ UNCHANGED <<status, params, owner, cancelRequested, upload, requests, workers, history>>

Request(r) == Look(r) \/ Insert(r) \/ Link(r)
Handle(w)  == \/ Checkpoint(w) \/ ReadUpload(w) \/ ReplaceFile(w) \/ Mark(w)
              \/ Undo(w) \/ Finish(w)

Proceed ==
    \/ \E u \in Uploads : Receive(u) \/ Discard(u)
    \/ \E r \in Requests :
         \/ Queue(r) \/ Request(r)
         \/ \E j \in Jobs : Retry(r, j)
         \/ \E u \in Uploads : Import(r, u)
    \/ \E j \in Jobs : RequestCancel(j) \/ Age(j)
    \/ \E w \in Workers :
         \/ Start(w) \/ Handle(w) \/ Fails(w) \/ KeepAlive(w)
         \/ \E j \in Jobs : Claim(w, j)

\* A process dies, or the database is away.
Interrupt ==
    \/ \E r \in Requests : Abort(r)
    \/ \E w \in Workers : Crash(w) \/ Drop(w) \/ StoreFails(w)

Next == Proceed \/ Interrupt

Spec == Init /\ [][Next]_vars

-----------------------------------------------------------------------------
(***************************************************************************)
(* Properties.                                                             *)
(***************************************************************************)
\* No job runs twice, whichever workers died or were taken for dead while they
\* ran it: claim_next takes queued jobs only and nothing makes a job queued again.
NeverRerun == \A j \in Jobs : runs[j] <= 1

\* Two active jobs with the same parameters were queued by handlers that passed
\* create_job's duplicate check at the same time; otherwise the first is found.
CopiesAreRaced ==
    \A i, j \in Jobs :
        i < j /\ {status[i], status[j]} \subseteq Active /\ params[i] = params[j]
            => i \in copies[j]

\* A file is imported once at most, whatever is imported, discarded, cancelled
\* or left behind by an API or a worker that died; a discarded file never is, and
\* no job is left that would.
ImportedAtMostOnce ==
    \A u \in Uploads :
        /\ written[u] <= 1
        /\ upload[u] = "discarded" =>
              written[u] = 0 /\ \A j \in Jobs : status[j] \in Active => params[j] # u

\* A queued import finds its upload as _data_import wants it, though upload row
\* and job row are written in three transactions of upload_import and discard
\* and other jobs come in between.
QueuedImportIsImportable ==
    \A j \in Jobs : status[j] = "queued" /\ params[j] \in Uploads
                        => upload[params[j]] = "queued"

\* What a finished job says stays said: a worker that was taken for dead and
\* comes back with a result changes nothing, nor does a late cancellation.
OutcomesStand ==
    [][\A j \in Jobs : status[j] \in Terminal => status'[j] = status[j]]_vars

\* An import runs on a file that waits for it, and on no file twice.
ImportsAreSound == ImportedAtMostOnce /\ QueuedImportIsImportable
=============================================================================
