------------------------------ MODULE JobLedger ------------------------------
(* Operation jobs: a request creates a row and a goroutine that works on it *)
(* and reports its progress through a reporter shared by the goroutines it  *)
(* starts; retention removes old rows; a restart loses every worker and     *)
(* reconciles the rows it left behind (launchV2Job, v2JobProgressReporter,  *)
(* persistV2JobUpdate, FailIncompleteJobs, PruneRetentionData).             *)
(*                                                                          *)
(* Progress 0..Cap is that of a running job (the code caps it at 99), Done  *)
(* is 100.  Messages and error codes are left out: a report whose progress  *)
(* is the last one has another message.                                     *)
EXTENDS Integers, FiniteSets

CONSTANTS
    MaxJobs,     \* jobs created in a behaviour: bounds the state
    Cap,         \* highest progress of a running job
    Attempts,    \* writes tried for one report (3 in the code)
    KeptJobs,    \* MaximumOperationJobs
    MaxCrashes   \* restarts in a behaviour: bounds the state

ASSUME JobAssumption == MaxJobs \in Nat /\ Cap \in Nat /\ Attempts \in Nat \ {0} /\ KeptJobs \in Nat /\ MaxCrashes \in Nat

VARIABLES
    job,        \* rows of operation_job: identifier -> status and progress
    worker,     \* goroutine of each job ever created, or NoWorker
    expired,    \* finished rows older than the retention period
    abandoned,  \* identifiers whose worker never started or whose last write failed
    server,     \* "serving" or "starting"
    crashes
jobVars == <<job, worker, expired, abandoned, server, crashes>>

Jobs == 1..MaxJobs
Done == Cap + 1
Final == {"succeeded", "failed"}
Row(status, progress) == [status |-> status, progress |-> progress]

NoWorker == [at |-> "none"]
Busy(w) == w.at # "none"
(* Writes in flight: the report mutex is held until the row is written, so  *)
(* there is never more than one.                                            *)
Write(status, progress) == [status |-> status, progress |-> progress, tries |-> 0]

Unfinished == {i \in DOMAIN job : job[i].status \notin Final}
Finished == DOMAIN job \ Unfinished
Ids == Cardinality({i \in Jobs : worker[i].at # "unborn"})

JobInit ==
    /\ job = <<>>
    /\ worker = [i \in Jobs |-> [at |-> "unborn"]]
    /\ expired = {} /\ abandoned = {} /\ server = "serving" /\ crashes = 0

(* The row is inserted and read back; when it cannot be read the request is *)
(* refused and the row stays queued.  The worker's first report, "running", *)
(* is forced.                                                               *)
QueueJob ==
    LET i == Ids + 1 IN
    /\ server = "serving" /\ i \in Jobs
    /\ job' = [k \in DOMAIN job \cup {i} |-> IF k = i THEN Row("queued", 0) ELSE job[k]]
    /\ \/ /\ worker' = [worker EXCEPT ![i] = [at |-> "starting", last |-> 0, writes |-> {Write("running", 0)}]]
          /\ UNCHANGED abandoned
       \/ worker' = [worker EXCEPT ![i] = NoWorker] /\ abandoned' = abandoned \cup {i}
    /\ UNCHANGED <<expired, server, crashes>>

(* A report of the work, by any of its goroutines: one that would take the  *)
(* progress back is dropped, and reports wait for the one being written.    *)
Report_Unlocked(i) ==
    /\ worker[i].at = "working" /\ Cardinality(worker[i].writes) < 2
    /\ \E p \in worker[i].last..Cap :
        worker' = [worker EXCEPT ![i].last = p, ![i].writes = @ \cup {Write("running", p)}]
    /\ UNCHANGED <<job, expired, abandoned, server, crashes>>

Report(i) ==
    /\ worker[i].at = "working" /\ worker[i].writes = {}
    /\ \E p \in worker[i].last..Cap :
        worker' = [worker EXCEPT ![i].last = p, ![i].writes = {Write("running", p)}]
    /\ UNCHANGED <<job, expired, abandoned, server, crashes>>

(* The work returns, with an error, without one, or by a panic that the     *)
(* goroutine recovers from; its own goroutines have ended by then.          *)
WorkEnds(i) ==
    /\ worker[i].at = "working" /\ worker[i].writes = {}
    /\ \E status \in Final :
        worker' = [worker EXCEPT ![i].at = "ending", ![i].writes = {Write(status, Done)}]
    /\ UNCHANGED <<job, expired, abandoned, server, crashes>>

(* What follows a write of the job, done or given up.                       *)
After(w, write) ==
    LET left == w.writes \ {write} IN
    CASE w.at = "ending" -> NoWorker
      [] w.at = "starting" -> [w EXCEPT !.at = "working", !.writes = left]
      [] OTHER -> [w EXCEPT !.writes = left]

(* UpdateJob: the row is replaced, whatever it says; a row that is gone is  *)
(* not an error.                                                            *)
WriteRow(i) ==
    /\ Busy(worker[i]) /\ worker[i].at # "unborn"
    /\ \E w \in worker[i].writes :
        /\ job' = [k \in DOMAIN job |-> IF k = i THEN Row(w.status, w.progress) ELSE job[k]]
        /\ worker' = [worker EXCEPT ![i] = After(@, w)]
    /\ UNCHANGED <<expired, abandoned, server, crashes>>

(* A failed write is tried again, Attempts times in all, and then given up  *)
(* with a log message.                                                      *)
JobWriteFails(i) ==
    /\ Busy(worker[i]) /\ worker[i].at # "unborn"
    /\ \E w \in worker[i].writes :
        IF w.tries + 1 < Attempts
        THEN /\ worker' = [worker EXCEPT ![i].writes = (@ \ {w}) \cup {[w EXCEPT !.tries = @ + 1]}]
             /\ UNCHANGED abandoned
        ELSE /\ worker' = [worker EXCEPT ![i] = After(@, w)]
             /\ abandoned' = IF w.status \in Final THEN abandoned \cup {i} ELSE abandoned
    /\ UNCHANGED <<job, expired, server, crashes>>

---------------------------------------------------------------------------
(* Retention: rows that finished before the cut-off, and finished rows      *)
(* beyond the newest KeptJobs.  Every batch is a transaction of its own, so *)
(* a row at a time is the finest interleaving with the workers.             *)
WithoutRow(rows, i) == [k \in DOMAIN rows \ {i} |-> rows[k]]

Expires(i) ==
    /\ i \in Finished \ expired
    /\ expired' = expired \cup {i}
    /\ UNCHANGED <<job, worker, abandoned, server, crashes>>

PruneExpired(i) ==
    /\ i \in Finished \cap expired
    /\ job' = WithoutRow(job, i)
    /\ UNCHANGED <<worker, expired, abandoned, server, crashes>>

PruneSurplus(i) ==
    /\ i \in Finished /\ Cardinality({k \in Finished : k > i}) >= KeptJobs
    /\ job' = WithoutRow(job, i)
    /\ UNCHANGED <<worker, expired, abandoned, server, crashes>>

(* The process stops at any point: a signal, or a panic in a goroutine the  *)
(* work started, which nothing recovers.                                    *)
Crash ==
    /\ server = "serving" /\ crashes < MaxCrashes
    /\ worker' = [i \in Jobs |-> IF worker[i].at = "unborn" THEN worker[i] ELSE NoWorker]
    /\ server' = "starting" /\ crashes' = crashes + 1
    /\ UNCHANGED <<job, expired, abandoned>>

(* StartServer: the rows no worker will finish are failed before anything   *)
(* is served.  A database error is logged and the server starts all the     *)
(* same.                                                                    *)
FailIncompleteJobs_RunningOnly ==
    /\ server = "starting"
    /\ job' = [i \in DOMAIN job |-> IF job[i].status = "running" THEN Row("failed", Done) ELSE job[i]]
    /\ server' = "serving"
    /\ UNCHANGED <<worker, expired, abandoned, crashes>>

FailIncompleteJobs ==
    /\ server = "starting"
    /\ job' = [i \in DOMAIN job |-> IF i \in Unfinished THEN Row("failed", Done) ELSE job[i]]
    /\ server' = "serving"
    /\ UNCHANGED <<worker, expired, abandoned, crashes>>

ReconcileFails ==
    /\ server = "starting"
    /\ abandoned' = abandoned \cup Unfinished
    /\ server' = "serving"
    /\ UNCHANGED <<job, worker, expired, crashes>>

JobNext ==
    \/ QueueJob \/ Crash \/ FailIncompleteJobs \/ ReconcileFails
    \/ \E i \in Jobs :
        \/ Report(i) \/ WorkEnds(i) \/ WriteRow(i) \/ JobWriteFails(i)
        \/ Expires(i) \/ PruneExpired(i) \/ PruneSurplus(i)
JobSpec == JobInit /\ [][JobNext]_jobVars

---------------------------------------------------------------------------
(* The ledger says what runs: the row of a job that has a worker is there   *)
(* and unfinished, whatever retention removes, and while the server serves  *)
(* an unfinished row has a worker, unless its worker was never started or   *)
(* the last write of it was given up (V2Events keeps polling such a job     *)
(* until the next restart).                                                 *)
LedgerTruthful ==
    server = "serving" =>
        /\ {i \in Jobs : worker[i].at \in {"starting", "working", "ending"}} \subseteq Unfinished
        /\ \A i \in Unfinished : worker[i] = NoWorker => i \in abandoned

(* Jobs only go forward: no write takes the progress of a row back, and a   *)
(* finished row is never written again, whichever of reports, their         *)
(* retries, a panic and a restart come together.                            *)
JobsOnlyAdvance ==
    [][\A i \in DOMAIN job \cap DOMAIN job' :
        /\ job'[i].progress >= job[i].progress
        /\ i \in Finished => job'[i] = job[i]]_jobVars
=============================================================================
