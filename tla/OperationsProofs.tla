-------------------------- MODULE OperationsProofs ---------------------------
(***************************************************************************)
(* Safety of what the server runs in the background and of the settings it *)
(* runs under: the rows of jobs (JobLedger) and the live settings; of the  *)
(* channel matchers (Matching); of the lineup groups that follow a source  *)
(* group (SourceGroups); and of the refresh of playlists (PlaylistImport). *)
(***************************************************************************)
EXTENDS JobLedger, LiveSettings, Matching, SourceGroups, PlaylistImport, FilteringProofs, FiniteSetTheorems, TLAPS

-----------------------------------------------------------------------------
(***************************************************************************)
(* The rows of operation_job say what runs and only go forward, for any    *)
(* number of jobs, of write attempts, of rows that retention keeps and of  *)
(* restarts.                                                               *)
(*                                                                         *)
(* LedgerTruthful is not inductive: that a write cannot bring back a       *)
(* finished row, nor take progress back, rests on what the reporter's      *)
(* mutex keeps true of each worker (JobOK): one write at a time, none      *)
(* behind the row, and the last one alone final.                           *)
(***************************************************************************)

UnbornJob == [at |-> "unborn"]
Writes == [status : {"running"} \cup Final, progress : 0..Done, tries : Nat]
JobWorkers == [at : {"starting", "working", "ending"}, last : 0..Cap, writes : SUBSET Writes]
Rows == [status : {"queued", "running"} \cup Final, progress : 0..Done]

Active(i) == worker[i].at \in {"starting", "working", "ending"}
Born == {i \in Jobs : worker[i].at # "unborn"}

\* What the writes of a worker may say.
Fits(w, x) == IF w.at = "ending" THEN x.status \in Final /\ x.progress = Done
                                 ELSE x.status = "running" /\ x.progress <= w.last

JobOK(i) ==
    /\ i \in DOMAIN job => job[i] \in Rows
    /\ worker[i] = UnbornJob => i \notin DOMAIN job
    /\ Active(i) =>
          /\ server = "serving" /\ i \in DOMAIN job /\ job[i].status \notin Final
          /\ job[i].progress <= worker[i].last
          /\ \A x \in worker[i].writes : Fits(worker[i], x) /\ job[i].progress <= x.progress
          /\ \A x, y \in worker[i].writes : x = y
    /\ server = "serving" /\ i \in DOMAIN job /\ worker[i] = NoWorker =>
          job[i].status \in Final \/ i \in abandoned

JobTypeOK ==
    /\ DOMAIN job \subseteq Jobs
    /\ worker \in [Jobs -> JobWorkers \cup {UnbornJob, NoWorker}]
    /\ server \in {"serving", "starting"}

JobInv ==
    /\ JobTypeOK
    /\ \E n \in Nat : Born = 1..n
    /\ \A i \in Jobs : JobOK(i)

-----------------------------------------------------------------------------
(* A worker is what its state says.                                        *)
LEMMA WorkerKinds ==
    ASSUME JobTypeOK, NEW i \in Jobs
    PROVE  /\ Active(i) <=> worker[i] \in JobWorkers
           /\ Active(i) <=> (Busy(worker[i]) /\ worker[i].at # "unborn")
           /\ worker[i].at = "unborn" <=> worker[i] = UnbornJob
           /\ ~Active(i) /\ worker[i].at # "unborn" <=> worker[i] = NoWorker
  <1>1. worker[i] \in JobWorkers \/ worker[i] = UnbornJob \/ worker[i] = NoWorker
    BY DEF JobTypeOK
  <1>2. CASE worker[i] \in JobWorkers
    <2>1. worker[i].at \in {"starting", "working", "ending"}  BY <1>2 DEF JobWorkers
    <2>2. worker[i] # UnbornJob /\ worker[i] # NoWorker  BY <2>1 DEF UnbornJob, NoWorker
    <2>. QED  BY <1>2, <2>1, <2>2 DEF Active, Busy
  <1>3. CASE worker[i] = UnbornJob
    <2>1. worker[i].at = "unborn" /\ worker[i] # NoWorker  BY <1>3 DEF UnbornJob, NoWorker
    <2>2. worker[i] \notin JobWorkers  BY <2>1 DEF JobWorkers
    <2>. QED  BY <1>3, <2>1, <2>2 DEF Active, Busy
  <1>4. CASE worker[i] = NoWorker
    <2>1. worker[i].at = "none" /\ worker[i] # UnbornJob  BY <1>4 DEF UnbornJob, NoWorker
    <2>2. worker[i] \notin JobWorkers  BY <2>1 DEF JobWorkers
    <2>. QED  BY <1>4, <2>1, <2>2 DEF Active, Busy
  <1>. QED  BY <1>1, <1>2, <1>3, <1>4

(* A job whose row and worker a step leaves alone stays as it was.         *)
LEMMA OthersKept ==
    ASSUME NEW k \in Jobs, JobOK(k), worker'[k] = worker[k], server' = server,
           k \in DOMAIN job' <=> k \in DOMAIN job,
           k \in DOMAIN job => job'[k] = job[k],
           k \in abandoned => k \in abandoned'
    PROVE  JobOK(k)'
  BY DEF JobOK, Active, Fits

(* A step of one worker that exists: no other job is touched.              *)
LEMMA WorkerStepKeepsInv ==
    ASSUME JobInv, NEW i \in Jobs, Active(i),
           NEW w \in JobWorkers \cup {NoWorker}, worker' = [worker EXCEPT ![i] = w],
           server' = server, abandoned \subseteq abandoned',
           DOMAIN job' = DOMAIN job, \A k \in DOMAIN job : k # i => job'[k] = job[k],
           JobOK(i)'
    PROVE  JobInv'
  <1>1. JobTypeOK'  BY DEF JobInv, JobTypeOK
  <1>2. \A k \in Jobs : k # i => worker'[k] = worker[k]  BY DEF JobInv, JobTypeOK
  <1>3. \A k \in Jobs : JobOK(k)'
    BY <1>2, OthersKept DEF JobInv
  <1>4. \A k \in Jobs : worker'[k].at = "unborn" <=> worker[k].at = "unborn"
    <2>1. worker[i].at # "unborn" /\ w.at # "unborn" /\ worker'[i] = w
      BY DEF JobInv, JobTypeOK, Active, JobWorkers, NoWorker
    <2>. QED  BY <1>2, <2>1
  <1>5. Born' = Born  BY <1>4 DEF Born
  <1>. QED  BY <1>1, <1>3, <1>5 DEF JobInv

LEMMA JobInitInv == JobInit => JobInv
  <1>. SUFFICES ASSUME JobInit PROVE JobInv
    OBVIOUS
  <1>1. DOMAIN job = {}  BY DEF JobInit
  <1>2. \A i \in Jobs : worker[i] = UnbornJob /\ worker[i].at = "unborn"
    BY DEF JobInit, UnbornJob
  <1>3. JobTypeOK  BY <1>1 DEF JobInit, JobTypeOK, UnbornJob
  <1>4. Born = 1..0  BY <1>2 DEF Born
  <1>5. \A i \in Jobs : JobOK(i)
    BY <1>1, <1>2, <1>3, WorkerKinds DEF JobOK, Active
  <1>. QED  BY <1>3, <1>4, <1>5 DEF JobInv

-----------------------------------------------------------------------------
(* A job takes the identifier after the last.                              *)
LEMMA QueueKeepsInv ==
    ASSUME JobInv, QueueJob
    PROVE  JobInv'
  <1>1. PICK n \in Nat : Born = 1..n  BY DEF JobInv
  <1>2. Ids = n
    <2>1. Cardinality(1..n) = n  BY FS_Interval
    <2>. QED  BY <1>1, <2>1 DEF Ids, Born
  <1>3. PICK i \in Jobs : i = n + 1  BY <1>2 DEF QueueJob
  <1>4. i \notin Born /\ worker[i] = UnbornJob /\ i \notin DOMAIN job
    <2>1. i \notin 1..n  BY <1>3
    <2>. QED  BY <1>1, <2>1, WorkerKinds DEF Born, JobInv, JobOK
  <1>5. /\ server = "serving" /\ server' = server /\ abandoned \subseteq abandoned'
        /\ job' = [k \in DOMAIN job \cup {i} |-> IF k = i THEN Row("queued", 0) ELSE job[k]]
    BY <1>2, <1>3 DEF QueueJob
  <1>6. PICK w \in JobWorkers \cup {NoWorker} :
          /\ worker' = [worker EXCEPT ![i] = w]
          /\ w = NoWorker => i \in abandoned'
          /\ w # NoWorker => w = [at |-> "starting", last |-> 0, writes |-> {Write("running", 0)}]
    <2>1. Write("running", 0) \in Writes
      BY JobAssumption DEF Write, Writes, Done
    <2>2. [at |-> "starting", last |-> 0, writes |-> {Write("running", 0)}] \in JobWorkers
      BY <2>1, JobAssumption DEF JobWorkers
    <2>3. CASE worker' = [worker EXCEPT ![i] = [at |-> "starting", last |-> 0, writes |-> {Write("running", 0)}]]
      <3>1. [at |-> "starting", last |-> 0, writes |-> {Write("running", 0)}] # NoWorker
        BY DEF NoWorker
      <3>. QED  BY <2>2, <2>3, <3>1
    <2>4. CASE worker' = [worker EXCEPT ![i] = NoWorker] /\ abandoned' = abandoned \cup {i}
      BY <2>4
    <2>. QED  BY <1>2, <1>3, <2>3, <2>4 DEF QueueJob
  <1>7. JobTypeOK'  BY <1>5, <1>6 DEF JobInv, JobTypeOK
  <1>8. worker'[i] = w /\ \A k \in Jobs : k # i => worker'[k] = worker[k]
    BY <1>6 DEF JobInv, JobTypeOK
  <1>9. job'[i] = Row("queued", 0) /\ i \in DOMAIN job'
    BY <1>5
  <1>10. JobOK(i)'
    <2>1. job'[i] \in Rows /\ job'[i].status = "queued" /\ job'[i].progress = 0
      BY <1>9, JobAssumption DEF Row, Rows, Done
    <2>2. job'[i].status \notin Final  BY <2>1 DEF Final
    <2>3. CASE w = NoWorker
      <3>1. worker'[i].at = "none" /\ worker'[i] # UnbornJob /\ ~Active(i)'
        BY <1>8, <2>3 DEF NoWorker, UnbornJob, Active
      <3>. QED  BY <1>5, <1>6, <2>1, <2>3, <3>1 DEF JobOK
    <2>4. CASE w # NoWorker
      <3>1. /\ worker'[i].at = "starting" /\ worker'[i].last = 0
            /\ worker'[i].writes = {Write("running", 0)}
            /\ worker'[i] # UnbornJob /\ worker'[i] # NoWorker
        BY <1>6, <1>8, <2>4 DEF UnbornJob, NoWorker
      <3>2. \A x \in worker'[i].writes : x.status = "running" /\ x.progress = 0
        BY <3>1 DEF Write
      <3>. QED  BY <1>5, <1>9, <2>1, <2>2, <3>1, <3>2 DEF JobOK, Active, Fits
    <2>. QED  BY <2>3, <2>4
  <1>11. \A k \in Jobs : JobOK(k)'
    <2>. SUFFICES ASSUME NEW k \in Jobs, k # i PROVE JobOK(k)'
      BY <1>10
    <2>. QED  BY <1>5, <1>8, OthersKept DEF JobInv
  <1>12. Born' = 1..(n + 1)
    <2>1. w.at # "unborn"  BY <1>6 DEF JobWorkers, NoWorker
    <2>2. Born' = Born \cup {i}  BY <1>8, <2>1 DEF Born
    <2>. QED  BY <1>1, <1>3, <2>2
  <1>. QED  BY <1>7, <1>11, <1>12 DEF JobInv

(* Reports, and the last one: each waits for the write before it.          *)
LEMMA ReportKeepsInv ==
    ASSUME JobInv, NEW i \in Jobs, Report(i) \/ WorkEnds(i)
    PROVE  JobInv'
  <1>1. worker[i].at = "working" /\ worker[i].writes = {} /\ UNCHANGED <<job, abandoned, server>>
    BY DEF Report, WorkEnds
  <1>2. /\ Active(i) /\ worker[i] \in JobWorkers
        /\ server = "serving" /\ i \in DOMAIN job /\ job[i] \in Rows /\ job[i].status \notin Final
        /\ job[i].progress <= worker[i].last
    BY <1>1, WorkerKinds DEF Active, JobInv, JobOK
  <1>3. /\ worker[i].last \in 0..Cap /\ job[i].progress \in 0..Done /\ Cap \in Nat /\ Done = Cap + 1
    BY <1>2, JobAssumption DEF JobWorkers, Rows, Done
  <1>4. PICK w \in JobWorkers, x \in Writes :
          /\ worker' = [worker EXCEPT ![i] = w]
          /\ w.writes = {x} /\ Fits(w, x) /\ worker[i].last <= w.last /\ job[i].progress <= x.progress
    <2>1. CASE Report(i)
      <3>1. PICK p \in worker[i].last..Cap :
              worker' = [worker EXCEPT ![i].last = p, ![i].writes = {Write("running", p)}]
        BY <2>1 DEF Report
      <3>2. p \in 0..Cap /\ p \in 0..Done /\ worker[i].last <= p /\ job[i].progress <= p
        BY <1>2, <1>3
      <3>3. Write("running", p) \in Writes /\ Write("running", p).status = "running" /\ Write("running", p).progress = p
        BY <3>2 DEF Write, Writes
      <3>4. PICK w \in JobWorkers : w = [worker[i] EXCEPT !.last = p, !.writes = {Write("running", p)}]
        BY <1>2, <3>2, <3>3 DEF JobWorkers
      <3>5. /\ w.at = "working" /\ w.last = p /\ w.writes = {Write("running", p)}
            /\ worker' = [worker EXCEPT ![i] = w]
        BY <1>1, <1>2, <3>1, <3>4 DEF JobWorkers, JobInv, JobTypeOK
      <3>6. PICK x \in Writes : x = Write("running", p)  BY <3>3
      <3>7. x.status = "running" /\ x.progress = p  BY <3>3, <3>6
      <3>8. Fits(w, x)  BY <3>2, <3>5, <3>7 DEF Fits
      <3>. QED  BY <3>2, <3>5, <3>6, <3>7, <3>8
    <2>2. CASE WorkEnds(i)
      <3>1. PICK status \in Final :
              worker' = [worker EXCEPT ![i].at = "ending", ![i].writes = {Write(status, Done)}]
        BY <2>2 DEF WorkEnds
      <3>2. Write(status, Done) \in Writes /\ Write(status, Done).status = status /\ Write(status, Done).progress = Done
        BY <1>3 DEF Write, Writes
      <3>3. PICK w \in JobWorkers : w = [worker[i] EXCEPT !.at = "ending", !.writes = {Write(status, Done)}]
        BY <1>2, <3>2 DEF JobWorkers
      <3>4. /\ w.at = "ending" /\ w.last = worker[i].last /\ w.writes = {Write(status, Done)}
            /\ worker' = [worker EXCEPT ![i] = w]
        BY <1>2, <3>1, <3>3 DEF JobWorkers, JobInv, JobTypeOK
      <3>5. PICK x \in Writes : x = Write(status, Done)  BY <3>2
      <3>6. x.status \in Final /\ x.progress = Done  BY <3>2, <3>5
      <3>7. Fits(w, x)  BY <3>4, <3>6 DEF Fits
      <3>8. worker[i].last <= w.last /\ job[i].progress <= x.progress
        BY <1>3, <3>4, <3>6
      <3>. QED  BY <3>4, <3>5, <3>7, <3>8
    <2>. QED  BY <2>1, <2>2
  <1>5. worker'[i] = w  BY <1>4 DEF JobInv, JobTypeOK
  <1>6. w # UnbornJob /\ w # NoWorker /\ w.last \in 0..Cap  BY DEF JobWorkers, UnbornJob, NoWorker
  <1>7. JobOK(i)'
    BY <1>1, <1>2, <1>3, <1>4, <1>5, <1>6 DEF JobOK, Active
  <1>. QED  BY <1>1, <1>2, <1>4, <1>7, WorkerStepKeepsInv

(* What is left of a worker when its only write is done or given up.       *)
LEMMA AfterIsOrderly ==
    ASSUME JobInv, NEW i \in Jobs, Active(i), NEW x \in worker[i].writes
    PROVE  /\ After(worker[i], x) \in JobWorkers \cup {NoWorker}
           /\ worker[i].at = "ending" => After(worker[i], x) = NoWorker
           /\ worker[i].at # "ending" =>
                 /\ After(worker[i], x) \in JobWorkers /\ After(worker[i], x).at = "working"
                 /\ After(worker[i], x).last = worker[i].last
                 /\ After(worker[i], x).writes = {}
  <1>1. worker[i] \in JobWorkers  BY WorkerKinds DEF JobInv
  <1>2. worker[i].writes \ {x} = {}  BY DEF JobInv, JobOK
  <1>3. CASE worker[i].at = "ending"
    BY <1>3 DEF After
  <1>4. CASE worker[i].at = "starting"
    <2>1. After(worker[i], x) = [worker[i] EXCEPT !.at = "working", !.writes = {}]
      BY <1>2, <1>4 DEF After
    <2>. QED  BY <1>1, <1>4, <2>1 DEF JobWorkers
  <1>5. CASE worker[i].at = "working"
    <2>1. After(worker[i], x) = [worker[i] EXCEPT !.writes = {}]
      BY <1>2, <1>5 DEF After
    <2>. QED  BY <1>1, <1>5, <2>1 DEF JobWorkers
  <1>. QED  BY <1>3, <1>4, <1>5 DEF Active

LEMMA WriteKeepsInv ==
    ASSUME JobInv, NEW i \in Jobs, WriteRow(i)
    PROVE  JobInv'
  <1>1. Active(i) /\ worker[i] \in JobWorkers
    BY WorkerKinds DEF WriteRow, JobInv
  <1>2. PICK x \in worker[i].writes :
          /\ job' = [k \in DOMAIN job |-> IF k = i THEN Row(x.status, x.progress) ELSE job[k]]
          /\ worker' = [worker EXCEPT ![i] = After(worker[i], x)]
    BY DEF WriteRow
  <1>3. UNCHANGED <<abandoned, server>> /\ server = "serving" /\ i \in DOMAIN job
    BY <1>1 DEF WriteRow, JobInv, JobOK
  <1>4. x \in Writes /\ Fits(worker[i], x)
    BY <1>1 DEF JobWorkers, JobInv, JobOK
  <1>5. PICK w : w = After(worker[i], x)  OBVIOUS
  <1>6. worker'[i] = w  BY <1>2, <1>5 DEF JobInv, JobTypeOK
  <1>7. job'[i] = Row(x.status, x.progress) /\ DOMAIN job' = DOMAIN job
    BY <1>2, <1>3
  <1>8. job'[i] \in Rows /\ job'[i].status = x.status /\ job'[i].progress = x.progress
    BY <1>4, <1>7 DEF Row, Rows, Writes
  <1>9. JobOK(i)'
    <2>1. CASE worker[i].at = "ending"
      <3>1. w = NoWorker /\ x.status \in Final
        BY <1>1, <1>4, <1>5, <2>1, AfterIsOrderly DEF Fits
      <3>2. w.at = "none" /\ w # UnbornJob  BY <3>1 DEF NoWorker, UnbornJob
      <3>. QED  BY <1>6, <1>8, <3>1, <3>2 DEF JobOK, Active
    <2>2. CASE worker[i].at # "ending"
      <3>1. /\ w \in JobWorkers /\ w.at = "working" /\ w.last = worker[i].last /\ w.writes = {}
            /\ x.status = "running" /\ x.progress <= w.last
        BY <1>1, <1>4, <1>5, <2>2, AfterIsOrderly DEF Fits
      <3>2. w # UnbornJob /\ w # NoWorker  BY <3>1 DEF NoWorker, UnbornJob
      <3>. QED  BY <1>3, <1>6, <1>7, <1>8, <3>1, <3>2 DEF JobOK, Active, Final
    <2>. QED  BY <2>1, <2>2
  <1>10. w \in JobWorkers \cup {NoWorker}  BY <1>1, <1>5, AfterIsOrderly
  <1>11. \A k \in DOMAIN job : k # i => job'[k] = job[k]  BY <1>2
  <1>. QED  BY <1>1, <1>2, <1>3, <1>5, <1>7, <1>9, <1>10, <1>11, WorkerStepKeepsInv

LEMMA FailedWriteKeepsInv ==
    ASSUME JobInv, NEW i \in Jobs, JobWriteFails(i)
    PROVE  JobInv'
  <1>1. Active(i) /\ worker[i] \in JobWorkers
    BY WorkerKinds DEF JobWriteFails, JobInv
  <1>2. PICK x \in worker[i].writes :
          IF x.tries + 1 < Attempts
          THEN /\ worker' = [worker EXCEPT ![i].writes = (@ \ {x}) \cup {[x EXCEPT !.tries = @ + 1]}]
               /\ UNCHANGED abandoned
          ELSE /\ worker' = [worker EXCEPT ![i] = After(worker[i], x)]
               /\ abandoned' = IF x.status \in Final THEN abandoned \cup {i} ELSE abandoned
    BY DEF JobWriteFails
  <1>3. /\ UNCHANGED <<job, server>> /\ server = "serving" /\ i \in DOMAIN job /\ job[i] \in Rows
        /\ job[i].status \notin Final /\ job[i].progress <= worker[i].last
    BY <1>1 DEF JobWriteFails, JobInv, JobOK
  <1>4. /\ x \in Writes /\ Fits(worker[i], x) /\ worker[i].writes = {x}
        /\ job[i].progress <= x.progress
    BY <1>1 DEF JobWorkers, JobInv, JobOK
  <1>5. CASE x.tries + 1 < Attempts
    <2>1. PICK y \in Writes : y = [x EXCEPT !.tries = @ + 1]
      <3>1. x.tries + 1 \in Nat  BY <1>4 DEF Writes
      <3>. QED  BY <1>4, <3>1 DEF Writes
    <2>2. y.status = x.status /\ y.progress = x.progress
      BY <1>4, <2>1 DEF Writes
    <2>3. PICK w \in JobWorkers : w = [worker[i] EXCEPT !.writes = {y}]
      BY <1>1 DEF JobWorkers
    <2>4. /\ w.at = worker[i].at /\ w.last = worker[i].last /\ w.writes = {y}
          /\ w # UnbornJob /\ w # NoWorker
      BY <1>1, <2>3 DEF JobWorkers, UnbornJob, NoWorker
    <2>5. worker' = [worker EXCEPT ![i] = w] /\ UNCHANGED abandoned
      <3>1. (worker[i].writes \ {x}) \cup {[x EXCEPT !.tries = @ + 1]} = {y}
        BY <1>4, <2>1
      <3>2. worker' = [worker EXCEPT ![i] = [worker[i] EXCEPT !.writes = (worker[i].writes \ {x}) \cup {[x EXCEPT !.tries = @ + 1]}]]
        BY <1>2, <1>5
      <3>. QED  BY <1>2, <1>5, <2>3, <3>1, <3>2
    <2>6. worker'[i] = w  BY <2>5 DEF JobInv, JobTypeOK
    <2>7. JobOK(i)'
      BY <1>1, <1>3, <1>4, <2>2, <2>4, <2>6 DEF JobOK, Active, Fits
    <2>. QED  BY <1>1, <1>3, <2>5, <2>7, WorkerStepKeepsInv
  <1>6. CASE ~(x.tries + 1 < Attempts)
    <2>1. PICK w \in JobWorkers \cup {NoWorker} : w = After(worker[i], x)
      BY <1>1, AfterIsOrderly
    <2>2. /\ worker' = [worker EXCEPT ![i] = w] /\ worker'[i] = w
          /\ abandoned' = IF x.status \in Final THEN abandoned \cup {i} ELSE abandoned
      BY <1>2, <1>6, <2>1 DEF JobInv, JobTypeOK
    <2>3. JobOK(i)'
      <3>1. CASE worker[i].at = "ending"
        <4>1. w = NoWorker /\ i \in abandoned'
          BY <1>1, <1>4, <2>1, <2>2, <3>1, AfterIsOrderly DEF Fits
        <4>2. w.at = "none" /\ w # UnbornJob  BY <4>1 DEF NoWorker, UnbornJob
        <4>. QED  BY <1>3, <2>2, <4>1, <4>2 DEF JobOK, Active
      <3>2. CASE worker[i].at # "ending"
        <4>1. w \in JobWorkers /\ w.at = "working" /\ w.last = worker[i].last /\ w.writes = {}
          BY <1>1, <2>1, <3>2, AfterIsOrderly
        <4>2. w # UnbornJob /\ w # NoWorker  BY <4>1 DEF NoWorker, UnbornJob
        <4>. QED  BY <1>3, <2>2, <4>1, <4>2 DEF JobOK, Active
      <3>. QED  BY <3>1, <3>2
    <2>. QED  BY <1>1, <1>3, <2>2, <2>3, WorkerStepKeepsInv
  <1>. QED  BY <1>5, <1>6

(* Retention takes finished rows, which no worker writes any more.         *)
LEMMA PruneKeepsInv ==
    ASSUME JobInv, NEW i \in Jobs, Expires(i) \/ PruneExpired(i) \/ PruneSurplus(i)
    PROVE  JobInv'
  <1>1. /\ UNCHANGED <<worker, abandoned, server>>
        /\ i \in Finished /\ (job' = job \/ job' = WithoutRow(job, i))
    BY DEF Expires, PruneExpired, PruneSurplus
  <1>2. i \in DOMAIN job /\ job[i].status \in Final /\ ~Active(i)
    BY <1>1 DEF Finished, Unfinished, JobInv, JobOK
  <1>3. /\ DOMAIN job' \subseteq DOMAIN job
        /\ \A k \in DOMAIN job : k # i => k \in DOMAIN job' /\ job'[k] = job[k]
        /\ i \in DOMAIN job' => job'[i] = job[i]
    BY <1>1 DEF WithoutRow
  <1>4. JobTypeOK'  BY <1>1, <1>3 DEF JobInv, JobTypeOK
  <1>5. Born' = Born  BY <1>1 DEF Born
  <1>6. ASSUME NEW k \in Jobs PROVE JobOK(k)'
    <2>1. CASE k = i  BY <1>1, <1>2, <1>3, <2>1 DEF JobInv, JobOK, Active
    <2>2. CASE k # i  BY <1>1, <1>3, <2>2, OthersKept DEF JobInv
    <2>. QED  BY <2>1, <2>2
  <1>. QED  BY <1>4, <1>5, <1>6 DEF JobInv

(* A crash takes every worker, and the restart settles what they left.     *)
LEMMA CrashKeepsInv ==
    ASSUME JobInv, Crash
    PROVE  JobInv'
  <1>1. /\ worker' = [i \in Jobs |-> IF worker[i].at = "unborn" THEN worker[i] ELSE NoWorker]
        /\ server' = "starting" /\ UNCHANGED <<job, abandoned>>
    BY DEF Crash
  <1>2. ASSUME NEW i \in Jobs
        PROVE  /\ worker'[i] \in {UnbornJob, NoWorker} /\ ~Active(i)'
               /\ worker'[i].at = "unborn" <=> worker[i].at = "unborn"
               /\ JobOK(i)'
    <2>1. CASE worker[i].at = "unborn"
      <3>1. worker'[i] = UnbornJob /\ worker[i] = UnbornJob
        BY <1>1, <2>1, WorkerKinds DEF JobInv
      <3>. QED  BY <1>1, <2>1, <3>1 DEF JobInv, JobOK, Active, UnbornJob
    <2>2. CASE worker[i].at # "unborn"
      <3>1. worker'[i] = NoWorker /\ NoWorker.at = "none" /\ NoWorker # UnbornJob
        BY <1>1, <2>2 DEF NoWorker, UnbornJob
      <3>. QED  BY <1>1, <2>2, <3>1 DEF JobInv, JobOK, Active
    <2>. QED  BY <2>1, <2>2
  <1>3. JobTypeOK'
    <2>1. worker' \in [Jobs -> JobWorkers \cup {UnbornJob, NoWorker}]  BY <1>1, <1>2
    <2>. QED  BY <1>1, <2>1 DEF JobInv, JobTypeOK
  <1>4. Born' = Born  BY <1>2 DEF Born
  <1>. QED  BY <1>2, <1>3, <1>4 DEF JobInv

LEMMA RestartKeepsInv ==
    ASSUME JobInv, FailIncompleteJobs \/ ReconcileFails
    PROVE  JobInv'
  <1>1. server = "starting" /\ server' = "serving" /\ UNCHANGED worker
    BY DEF FailIncompleteJobs, ReconcileFails
  <1>2. \A i \in Jobs : ~Active(i) /\ ~Active(i)'
    BY <1>1 DEF JobInv, JobOK, Active
  <1>3. CASE FailIncompleteJobs
    <2>1. /\ job' = [i \in DOMAIN job |-> IF i \in Unfinished THEN Row("failed", Done) ELSE job[i]]
          /\ UNCHANGED abandoned
      BY <1>3 DEF FailIncompleteJobs
    <2>2. \A i \in DOMAIN job : job'[i] \in Rows /\ job'[i].status \in Final
      <3>1. Row("failed", Done) \in Rows /\ Row("failed", Done).status \in Final
        BY JobAssumption DEF Row, Rows, Done, Final
      <3>. QED  BY <2>1, <3>1 DEF JobInv, JobTypeOK, JobOK, Unfinished
    <2>3. DOMAIN job' = DOMAIN job  BY <2>1
    <2>4. JobTypeOK' /\ Born' = Born  BY <1>1, <2>3 DEF JobInv, JobTypeOK, Born
    <2>5. \A i \in Jobs : JobOK(i)'
      BY <1>1, <1>2, <2>2, <2>3 DEF JobInv, JobOK
    <2>. QED  BY <2>4, <2>5 DEF JobInv
  <1>4. CASE ReconcileFails
    <2>1. abandoned' = abandoned \cup Unfinished /\ UNCHANGED job
      BY <1>4 DEF ReconcileFails
    <2>2. JobTypeOK' /\ Born' = Born  BY <1>1, <2>1 DEF JobInv, JobTypeOK, Born
    <2>3. \A i \in Jobs : JobOK(i)'
      BY <1>1, <1>2, <2>1 DEF JobInv, JobOK, Unfinished
    <2>. QED  BY <2>2, <2>3 DEF JobInv
  <1>. QED  BY <1>3, <1>4

LEMMA JobStepInv == JobInv /\ [JobNext]_jobVars => JobInv'
  <1>. SUFFICES ASSUME JobInv, [JobNext]_jobVars PROVE JobInv'
    OBVIOUS
  <1>1. CASE QueueJob  BY <1>1, QueueKeepsInv
  <1>2. CASE Crash  BY <1>2, CrashKeepsInv
  <1>3. CASE FailIncompleteJobs \/ ReconcileFails  BY <1>3, RestartKeepsInv
  <1>4. ASSUME NEW i \in Jobs, Report(i) \/ WorkEnds(i) PROVE JobInv'  BY <1>4, ReportKeepsInv
  <1>5. ASSUME NEW i \in Jobs, WriteRow(i) PROVE JobInv'  BY <1>5, WriteKeepsInv
  <1>6. ASSUME NEW i \in Jobs, JobWriteFails(i) PROVE JobInv'  BY <1>6, FailedWriteKeepsInv
  <1>7. ASSUME NEW i \in Jobs, Expires(i) \/ PruneExpired(i) \/ PruneSurplus(i) PROVE JobInv'
    BY <1>7, PruneKeepsInv
  <1>8. CASE UNCHANGED jobVars
    <2>1. UNCHANGED <<job, worker, abandoned, server>>  BY <1>8 DEF jobVars
    <2>. QED  BY <2>1 DEF JobInv, JobTypeOK, Born, JobOK, Active, Fits
  <1>. QED  BY <1>1, <1>2, <1>3, <1>4, <1>5, <1>6, <1>7, <1>8 DEF JobNext

LEMMA InvIsTruthful == JobInv => LedgerTruthful
  <1>. SUFFICES ASSUME JobInv, server = "serving"
                PROVE  /\ {i \in Jobs : worker[i].at \in {"starting", "working", "ending"}} \subseteq Unfinished
                       /\ \A i \in Unfinished : worker[i] = NoWorker => i \in abandoned
    BY DEF LedgerTruthful
  <1>1. \A i \in Jobs : Active(i) => i \in Unfinished
    BY DEF JobInv, JobOK, Unfinished
  <1>2. \A i \in Unfinished : worker[i] = NoWorker => i \in abandoned
    BY DEF JobInv, JobTypeOK, JobOK, Unfinished
  <1>. QED  BY <1>1, <1>2 DEF Active

(* Only a worker's write and the restart change a row that stays.          *)
LEMMA StepsAdvance ==
    JobInv /\ [JobNext]_jobVars =>
        \A i \in DOMAIN job \cap DOMAIN job' :
            /\ job'[i].progress >= job[i].progress
            /\ i \in Finished => job'[i] = job[i]
  <1>. SUFFICES ASSUME JobInv, [JobNext]_jobVars, NEW i \in DOMAIN job, i \in DOMAIN job'
                PROVE  /\ job'[i].progress >= job[i].progress
                       /\ i \in Finished => job'[i] = job[i]
    OBVIOUS
  <1>1. job[i] \in Rows /\ job[i].progress \in 0..Done /\ i \in Jobs /\ Done \in Nat
    BY JobAssumption DEF JobInv, JobTypeOK, JobOK, Rows, Done
  <1>2. CASE job'[i] = job[i]
    BY <1>1, <1>2
  <1>3. ASSUME NEW k \in Jobs, WriteRow(k)
        PROVE  job'[i] = job[i] \/ (i \notin Finished /\ job'[i].progress >= job[i].progress)
    <2>1. PICK x \in worker[k].writes :
            job' = [r \in DOMAIN job |-> IF r = k THEN Row(x.status, x.progress) ELSE job[r]]
      BY <1>3 DEF WriteRow
    <2>2. Active(k) /\ worker[k] \in JobWorkers
      BY <1>3, WorkerKinds DEF WriteRow, JobInv
    <2>3. x \in Writes /\ job[k].progress <= x.progress /\ k \notin Finished
      BY <2>2 DEF JobWorkers, JobInv, JobOK, Finished, Unfinished
    <2>4. k = i => job'[i].progress = x.progress
      BY <2>1 DEF Row
    <2>5. x.progress \in 0..Done  BY <2>3 DEF Writes
    <2>. QED  BY <1>1, <2>1, <2>3, <2>4, <2>5
  <1>4. CASE FailIncompleteJobs
    <2>1. job'[i] = IF i \in Unfinished THEN Row("failed", Done) ELSE job[i]
      BY <1>4 DEF FailIncompleteJobs
    <2>2. Row("failed", Done).progress = Done  BY DEF Row
    <2>. QED  BY <1>1, <2>1, <2>2 DEF Finished
  <1>5. CASE QueueJob
    <2>1. PICK n \in Nat : Born = 1..n  BY DEF JobInv
    <2>2. Ids = n
      <3>1. Cardinality(1..n) = n  BY FS_Interval
      <3>. QED  BY <2>1, <3>1 DEF Ids, Born
    <2>3. Ids + 1 \in Jobs /\ Ids + 1 \notin Born  BY <1>5, <2>1, <2>2 DEF QueueJob
    <2>4. Ids + 1 \notin DOMAIN job
      BY <2>3, WorkerKinds DEF Born, JobInv, JobOK
    <2>5. job'[i] = job[i]  BY <1>5, <2>4 DEF QueueJob
    <2>. QED  BY <1>2, <2>5
  <1>6. CASE \E k \in Jobs : Report(k) \/ WorkEnds(k) \/ JobWriteFails(k) \/ Expires(k)
    <2>1. UNCHANGED job  BY <1>6 DEF Report, WorkEnds, JobWriteFails, Expires
    <2>. QED  BY <1>2, <2>1
  <1>7. CASE \E k \in Jobs : PruneExpired(k) \/ PruneSurplus(k)
    <2>1. job'[i] = job[i]  BY <1>7 DEF PruneExpired, PruneSurplus, WithoutRow
    <2>. QED  BY <1>2, <2>1
  <1>8. CASE Crash \/ ReconcileFails \/ UNCHANGED jobVars
    <2>1. UNCHANGED job  BY <1>8 DEF Crash, ReconcileFails, jobVars
    <2>. QED  BY <1>2, <2>1
  <1>. QED  BY <1>1, <1>2, <1>3, <1>4, <1>5, <1>6, <1>7, <1>8 DEF JobNext

-----------------------------------------------------------------------------
(* What the reporter's mutex and the restart keep true of each job.        *)
THEOREM JobSafety == JobSpec => []JobInv
  <1>. QED  BY JobInitInv, JobStepInv, PTL DEF JobSpec

(* The ledger that V2Events reads says what runs, whatever retention       *)
(* removes, whichever writes fail and wherever the process stops.          *)
THEOREM LedgerStaysTruthful == JobSpec => []LedgerTruthful
  <1>. QED  BY JobSafety, InvIsTruthful, PTL

(* No write of persistV2JobUpdate or FailIncompleteJobs takes progress     *)
(* back or touches a finished row.                                         *)
THEOREM JobsAdvance == JobSpec => JobsOnlyAdvance
  <1>1. JobInv /\ [JobNext]_jobVars =>
          [\A i \in DOMAIN job \cap DOMAIN job' :
             /\ job'[i].progress >= job[i].progress
             /\ i \in Finished => job'[i] = job[i]]_jobVars
    BY StepsAdvance
  <1>. QED  BY <1>1, JobSafety, PTL DEF JobSpec, JobsOnlyAdvance

-----------------------------------------------------------------------------
(***************************************************************************)
(* What runs is what is configured, for any number of requests at once, of *)
(* lineups, of saves and of failures.                                      *)
(*                                                                         *)
(* SettingsAgree speaks of moments without a save, or without any request; *)
(* the inductive invariant says what is true in the middle of one: how far *)
(* the save, or the way back, has come with the file, the published        *)
(* settings and the schedule (SavePhase), what a request has read of the   *)
(* lineups (OutputPhase), and who still has to close the socket            *)
(* (SocketsOK).                                                            *)
(***************************************************************************)

SavePlaces == {"write", "publish", "build", "apply"}
DevicePlaces == {"devices", "start", "stop", "closing"}

RequestRecords ==
    [kind : {"none", "save", "toggle", "delete"}, at : {"idle", "store"} \cup SavePlaces \cup DevicePlaces,
     undo : BOOLEAN, value : Nat, old : Nat, lineup : SUBSET Outputs, read : Nat]

\* A request is only where its kind goes.
Placed(q) ==
    /\ q.kind = "none" => q.at = "idle"
    /\ q.kind = "save" => q.at \in SavePlaces \cup DevicePlaces
    /\ q.kind \in {"toggle", "delete"} => q.at \in {"store"} \cup DevicePlaces

SettingsTypeOK ==
    /\ {file, current, schedule, accepted} \subseteq Nat
    /\ discovery \in [running : BOOLEAN, open : BOOLEAN, closing : SUBSET Requests]
    /\ request \in [Requests -> RequestRecords]
    /\ budget \in [saves : Nat, toggles : Nat, troubles : Nat]
    /\ upset \in BOOLEAN /\ crossed \in BOOLEAN
    /\ \A r \in Requests : Placed(request[r])

AllAgree == file = accepted /\ current = accepted /\ schedule = accepted

\* How far a save that is alone has come, forwards or back.
SavePhase(q) ==
    /\ accepted = q.old
    /\ q.undo => q.value = q.old
    /\ ~q.undo /\ q.at = "write" => file = q.old
    /\ ~q.undo /\ q.at \in {"write", "publish"} => current = q.old
    /\ ~q.undo /\ q.at \in SavePlaces => schedule = q.old
    /\ q.at # "write" => file = q.value
    /\ q.at \notin {"write", "publish"} => current = q.value
    /\ q.at = "apply" => q.read = q.value
    /\ q.at \in DevicePlaces => schedule = q.value

SavesOK ==
    ~upset => /\ Saving = {} => AllAgree
              /\ \A q, r \in Saving : q = r
              /\ \A r \in Saving : SavePhase(request[r])

\* Sockets are held while the service runs, or by one that is being stopped.
SocketsOK ==
    /\ discovery.running => discovery.open /\ discovery.closing = {}
    /\ ~discovery.running => (discovery.open <=> discovery.closing # {})
    /\ \A q, r \in discovery.closing : q = r
    /\ \A r \in Requests : r \in discovery.closing <=> request[r].at = "closing"

Faithful == discovery.running = (enabled # {})

\* What a request that is alone has read of the lineups still holds.
OutputPhase(q) ==
    /\ q.kind = "save" => Faithful
    /\ q.at = "start" => enabled # {}
    /\ q.at \in {"stop", "closing"} => enabled = {}

OutputsOK ==
    ~crossed => /\ InFlight = {} => Faithful
                /\ \A q, r \in InFlight : q = r
                /\ \A r \in InFlight : OutputPhase(request[r])

SettingsInv == SettingsTypeOK /\ SavesOK /\ SocketsOK /\ OutputsOK

-----------------------------------------------------------------------------
(* A step of one request.                                                  *)
LEMMA RequestStep ==
    ASSUME SettingsTypeOK, NEW r \in Requests, NEW q, request' = [request EXCEPT ![r] = q]
    PROVE  /\ request'[r] = q /\ \A s \in Requests : s # r => request'[s] = request[s]
           /\ Saving' = IF q.kind = "save" THEN Saving \cup {r} ELSE Saving \ {r}
           /\ InFlight' = IF q.kind = "none" THEN InFlight \ {r} ELSE InFlight \cup {r}
  <1>1. request'[r] = q /\ \A s \in Requests : s # r => request'[s] = request[s]
    BY DEF SettingsTypeOK
  <1>2. InFlight' = IF q.kind = "none" THEN InFlight \ {r} ELSE InFlight \cup {r}
    BY <1>1 DEF InFlight
  <1>3. Saving = {s \in Requests : request[s].kind = "save"}
    BY DEF Saving, InFlight
  <1>4. Saving' = {s \in Requests : request'[s].kind = "save"}
    BY DEF Saving, InFlight
  <1>5. Saving' = IF q.kind = "save" THEN Saving \cup {r} ELSE Saving \ {r}
    BY <1>1, <1>3, <1>4
  <1>. QED  BY <1>1, <1>2, <1>5

(* The saves after a step of a request in flight.                          *)
LEMMA SavesStep ==
    ASSUME SettingsInv, NEW r \in InFlight, NEW q, request' = [request EXCEPT ![r] = q],
           upset => upset',
           request[r].kind # "save" => q.kind # "save" /\ UNCHANGED <<file, current, schedule, accepted>>,
           ~upset' /\ request[r].kind = "save" /\ SavePhase(request[r]) =>
              IF q.kind = "save" THEN SavePhase(q)' ELSE AllAgree'
    PROVE  SavesOK'
  <1>. SUFFICES ASSUME ~upset'
                PROVE  /\ Saving' = {} => AllAgree'
                       /\ \A s, t \in Saving' : s = t
                       /\ \A s \in Saving' : SavePhase(request[s])'
    BY DEF SavesOK
  <1>1. /\ Saving = {} => AllAgree
        /\ \A s, t \in Saving : s = t
        /\ \A s \in Saving : SavePhase(request[s])
    BY DEF SettingsInv, SavesOK
  <1>2. /\ r \in Requests /\ request'[r] = q /\ \A s \in Requests : s # r => request'[s] = request[s]
        /\ Saving' = IF q.kind = "save" THEN Saving \cup {r} ELSE Saving \ {r}
    BY RequestStep DEF SettingsInv, InFlight
  <1>3. CASE request[r].kind = "save"
    <2>1. Saving = {r} /\ SavePhase(request[r])  BY <1>1, <1>3 DEF Saving
    <2>2. CASE q.kind = "save"
      <3>1. Saving' = {r} /\ SavePhase(q)'  BY <1>2, <1>3, <2>1, <2>2
      <3>2. SavePhase(request[r])'  BY <1>2, <3>1 DEF SavePhase
      <3>. QED  BY <3>1, <3>2
    <2>3. CASE q.kind # "save"
      <3>1. Saving' = {} /\ AllAgree'  BY <1>2, <1>3, <2>1, <2>3
      <3>. QED  BY <3>1
    <2>. QED  BY <2>2, <2>3
  <1>4. CASE request[r].kind # "save"
    <2>1. Saving' = Saving /\ r \notin Saving /\ UNCHANGED <<file, current, schedule, accepted>>
      BY <1>2, <1>4 DEF Saving
    <2>2. \A s \in Saving : s \in Requests /\ request'[s] = request[s]
      BY <1>2, <2>1 DEF Saving, InFlight
    <2>3. \A s \in Saving' : SavePhase(request[s])'
      BY <1>1, <2>1, <2>2 DEF SavePhase
    <2>. QED  BY <1>1, <2>1, <2>3 DEF AllAgree
  <1>. QED  BY <1>3, <1>4

(* Discovery after a step of a request in flight.                          *)
LEMMA OutputsStep ==
    ASSUME SettingsInv, NEW r \in InFlight, NEW q, request' = [request EXCEPT ![r] = q],
           crossed => crossed',
           ~crossed' /\ OutputPhase(request[r]) =>
              IF q.kind = "none" THEN Faithful' ELSE OutputPhase(q)'
    PROVE  OutputsOK'
  <1>. SUFFICES ASSUME ~crossed'
                PROVE  /\ InFlight' = {} => Faithful'
                       /\ \A s, t \in InFlight' : s = t
                       /\ \A s \in InFlight' : OutputPhase(request[s])'
    BY DEF OutputsOK
  <1>1. InFlight = {r} /\ OutputPhase(request[r])  BY DEF SettingsInv, OutputsOK
  <1>2. /\ request'[r] = q
        /\ InFlight' = IF q.kind = "none" THEN InFlight \ {r} ELSE InFlight \cup {r}
    BY RequestStep DEF SettingsInv, InFlight
  <1>3. CASE q.kind = "none"
    BY <1>1, <1>2, <1>3
  <1>4. CASE q.kind # "none"
    <2>1. InFlight' = {r} /\ OutputPhase(q)'  BY <1>1, <1>2, <1>4
    <2>2. OutputPhase(request[r])'  BY <1>2, <2>1 DEF OutputPhase
    <2>. QED  BY <2>1, <2>2
  <1>. QED  BY <1>3, <1>4

(* Sockets are left alone by a request that neither was nor is closing.    *)
LEMMA SocketsKept ==
    ASSUME SettingsInv, NEW r \in Requests, NEW q, request' = [request EXCEPT ![r] = q],
           request[r].at # "closing", q.at # "closing", UNCHANGED discovery
    PROVE  SocketsOK'
  <1>1. request'[r] = q /\ \A s \in Requests : s # r => request'[s] = request[s]
    BY RequestStep DEF SettingsInv
  <1>. QED  BY <1>1 DEF SettingsInv, SocketsOK

LEMMA TypesStep ==
    ASSUME SettingsInv, NEW r \in Requests, NEW q \in RequestRecords, Placed(q),
           request' = [request EXCEPT ![r] = q],
           {file', current', schedule', accepted'} \subseteq Nat,
           discovery' \in [running : BOOLEAN, open : BOOLEAN, closing : SUBSET Requests],
           budget' \in [saves : Nat, toggles : Nat, troubles : Nat],
           upset' \in BOOLEAN, crossed' \in BOOLEAN
    PROVE  SettingsTypeOK'
  <1>1. request'[r] = q /\ \A s \in Requests : s # r => request'[s] = request[s]
    BY RequestStep DEF SettingsInv
  <1>2. \A s \in Requests : Placed(request'[s])
    BY <1>1 DEF SettingsInv, SettingsTypeOK
  <1>. QED  BY <1>2 DEF SettingsInv, SettingsTypeOK

LEMMA SpendingKeepsTypes ==
    ASSUME SettingsInv, NEW what \in {"saves", "toggles", "troubles"}, Spend(what)
    PROVE  budget' \in [saves : Nat, toggles : Nat, troubles : Nat]
  BY DEF Spend, SettingsInv, SettingsTypeOK

LEMMA SettingsInitInv == SettingsInit => SettingsInv
  <1>. SUFFICES ASSUME SettingsInit PROVE SettingsInv
    OBVIOUS
  <1>1. \A r \in Requests : request[r] = NotRequested  BY DEF SettingsInit
  <1>2. InFlight = {} /\ Saving = {}  BY <1>1 DEF InFlight, Saving, NotRequested
  <1>3. SettingsTypeOK
    <2>1. NotRequested \in RequestRecords /\ Placed(NotRequested)
      BY DEF NotRequested, RequestRecords, Placed
    <2>2. request \in [Requests -> RequestRecords] /\ \A r \in Requests : Placed(request[r])
      BY <1>1, <2>1 DEF SettingsInit
    <2>3. discovery \in [running : BOOLEAN, open : BOOLEAN, closing : SUBSET Requests]
      <3>1. PICK on \in BOOLEAN : on = (enabled # {})  OBVIOUS
      <3>2. discovery = [running |-> on, open |-> on, closing |-> {}]  BY <3>1 DEF SettingsInit
      <3>. QED  BY <3>2
    <2>4. budget \in [saves : Nat, toggles : Nat, troubles : Nat]  BY DEF SettingsInit
    <2>5. {file, current, schedule, accepted} \subseteq Nat  BY DEF SettingsInit
    <2>6. upset \in BOOLEAN /\ crossed \in BOOLEAN  BY Zenon DEF SettingsInit
    <2>. QED  BY <2>2, <2>3, <2>4, <2>5, <2>6 DEF SettingsTypeOK
  <1>4. SocketsOK  BY <1>1 DEF SettingsInit, SocketsOK, NotRequested
  <1>. QED  BY <1>2, <1>3, <1>4 DEF SettingsInit, SettingsInv, SavesOK, AllAgree, OutputsOK, Faithful

-----------------------------------------------------------------------------
(* A request begins: alone, or what it disturbs is on record.              *)
LEMMA BeginKeepsInv ==
    ASSUME SettingsInv, NEW r \in Requests,
           BeginSave(r) \/ \E l \in Outputs : BeginToggle(r, l) \/ BeginDelete(r, l)
    PROVE  SettingsInv'
  <1>1. PICK q \in RequestRecords :
          /\ request' = [request EXCEPT ![r] = q]
          /\ q.kind \in {"save", "toggle", "delete"} /\ Placed(q) /\ ~q.undo
          /\ q.kind = "save" => q.at = "write" /\ q.old = current
          /\ q.kind # "save" => q.at = "store"
          /\ upset' = IF q.kind = "save" THEN upset \/ Saving # {} ELSE upset
    <2>1. budget.saves + 1 \in Nat /\ current \in Nat  BY DEF SettingsInv, SettingsTypeOK
    <2>2. CASE BeginSave(r)
      <3>1. PICK q \in RequestRecords : q = [NotRequested EXCEPT !.kind = "save", !.at = "write",
                                               !.value = budget.saves + 1, !.old = current]
        BY <2>1 DEF NotRequested, RequestRecords, SavePlaces
      <3>2. q.kind = "save" /\ q.at = "write" /\ q.old = current /\ ~q.undo
        BY <3>1 DEF NotRequested
      <3>3. Placed(q)  BY <3>2 DEF Placed, SavePlaces
      <3>. QED  BY <2>2, <3>1, <3>2, <3>3 DEF BeginSave
    <2>3. ASSUME NEW l \in Outputs, BeginToggle(r, l)
          PROVE  \E q \in RequestRecords :
                    /\ request' = [request EXCEPT ![r] = q]
                    /\ q.kind = "toggle" /\ q.at = "store" /\ ~q.undo /\ UNCHANGED upset
      <3>0. PICK value \in Nat, old \in Nat :
              value = (IF l \in enabled THEN 0 ELSE 1) /\ old = (IF l \in enabled THEN 1 ELSE 0)
        OBVIOUS
      <3>1. PICK q \in RequestRecords : q = [NotRequested EXCEPT !.kind = "toggle", !.at = "store", !.lineup = {l},
                                               !.value = value, !.old = old]
        BY DEF NotRequested, RequestRecords
      <3>2. q.kind = "toggle" /\ q.at = "store" /\ ~q.undo  BY <3>1 DEF NotRequested
      <3>. QED  BY <2>3, <3>0, <3>1, <3>2 DEF BeginToggle
    <2>4. ASSUME NEW l \in Outputs, BeginDelete(r, l)
          PROVE  \E q \in RequestRecords :
                    /\ request' = [request EXCEPT ![r] = q]
                    /\ q.kind = "delete" /\ q.at = "store" /\ ~q.undo /\ UNCHANGED upset
      <3>1. PICK q \in RequestRecords : q = [NotRequested EXCEPT !.kind = "delete", !.at = "store", !.lineup = {l}]
        BY DEF NotRequested, RequestRecords
      <3>2. q.kind = "delete" /\ q.at = "store" /\ ~q.undo  BY <3>1 DEF NotRequested
      <3>. QED  BY <2>4, <3>1, <3>2 DEF BeginDelete
    <2>. QED  BY <2>2, <2>3, <2>4 DEF Placed
  <1>2. /\ UNCHANGED <<file, current, schedule, enabled, existing, discovery, accepted>>
        /\ request[r].kind = "none" /\ crossed' = (crossed \/ InFlight # {})
        /\ budget' \in [saves : Nat, toggles : Nat, troubles : Nat]
    BY SpendingKeepsTypes DEF BeginSave, BeginToggle, BeginDelete
  <1>3. /\ request'[r] = q /\ \A s \in Requests : s # r => request'[s] = request[s]
        /\ Saving' = IF q.kind = "save" THEN Saving \cup {r} ELSE Saving \ {r}
        /\ InFlight' = IF q.kind = "none" THEN InFlight \ {r} ELSE InFlight \cup {r}
    BY <1>1, RequestStep DEF SettingsInv
  <1>4. r \notin InFlight /\ r \notin Saving  BY <1>2 DEF InFlight, Saving
  <1>5. SettingsTypeOK'
    BY <1>1, <1>2, TypesStep DEF SettingsInv, SettingsTypeOK
  <1>6. SocketsOK'
    <2>1. request[r].at # "closing" /\ q.at # "closing"
      BY <1>1, <1>2 DEF SettingsInv, SettingsTypeOK, Placed
    <2>. QED  BY <1>1, <1>2, <2>1, SocketsKept
  <1>7. SavesOK'
    <2>. SUFFICES ASSUME ~upset'
                  PROVE  /\ Saving' = {} => AllAgree'
                         /\ \A s, t \in Saving' : s = t
                         /\ \A s \in Saving' : SavePhase(request[s])'
      BY DEF SavesOK
    <2>1. CASE q.kind = "save"
      <3>1. Saving = {} /\ AllAgree  BY <1>1, <2>1 DEF SettingsInv, SavesOK
      <3>2. Saving' = {r}  BY <1>3, <2>1, <3>1
      <3>3. SavePhase(request[r])'
        BY <1>1, <1>2, <1>3, <2>1, <3>1 DEF AllAgree, SavePhase, DevicePlaces
      <3>. QED  BY <3>2, <3>3
    <2>2. CASE q.kind # "save"
      <3>1. Saving' = Saving /\ \A s \in Saving : request'[s] = request[s]
        BY <1>3, <1>4, <2>2 DEF Saving, InFlight
      <3>2. /\ Saving = {} => AllAgree
            /\ \A s, t \in Saving : s = t
            /\ \A s \in Saving : SavePhase(request[s])
        BY <1>1, <2>2 DEF SettingsInv, SavesOK
      <3>. QED  BY <1>2, <3>1, <3>2 DEF AllAgree, SavePhase
    <2>. QED  BY <2>1, <2>2
  <1>8. OutputsOK'
    <2>. SUFFICES ASSUME ~crossed'
                  PROVE  /\ InFlight' = {} => Faithful'
                         /\ \A s, t \in InFlight' : s = t
                         /\ \A s \in InFlight' : OutputPhase(request[s])'
      BY DEF OutputsOK
    <2>1. InFlight = {} /\ Faithful  BY <1>2 DEF SettingsInv, OutputsOK
    <2>2. InFlight' = {r}  BY <1>1, <1>3, <2>1
    <2>3. OutputPhase(request[r])'
      BY <1>1, <1>2, <1>3, <2>1 DEF OutputPhase, Faithful
    <2>. QED  BY <2>2, <2>3
  <1>. QED  BY <1>5, <1>6, <1>7, <1>8 DEF SettingsInv

(* A save writes, publishes, builds and applies, and goes back from        *)
(* failures; the lineups are none of its business until then.              *)
LEMMA SaveStepsKeepInv ==
    ASSUME SettingsInv, NEW r \in Requests, WriteFile(r) \/ Publish(r) \/ BuildScheduler(r) \/ ApplySchedule(r)
    PROVE  SettingsInv'
  <1>1. /\ request[r].at \in SavePlaces /\ request[r] \in RequestRecords /\ Placed(request[r])
        /\ UNCHANGED <<enabled, existing, discovery, accepted, upset, crossed, budget>>
    BY DEF WriteFile, Publish, BuildScheduler, ApplySchedule, SavePlaces, SettingsInv, SettingsTypeOK
  <1>2. request[r].kind = "save" /\ r \in InFlight
    BY <1>1 DEF Placed, SavePlaces, DevicePlaces, RequestRecords, InFlight
  <1>3. PICK q \in RequestRecords :
          /\ request' = [request EXCEPT ![r] = q]
          /\ q.kind = "save" /\ q.at \in {"publish", "build", "apply", "devices"} /\ q.undo = request[r].undo
          /\ q.value = request[r].value /\ q.old = request[r].old
          /\ q.read = IF q.at = "apply" THEN current ELSE request[r].read
          /\ q.at = "publish" => request[r].at = "write" /\ WriteFile(r)
          /\ q.at = "build" => request[r].at = "publish" /\ Publish(r)
          /\ q.at = "apply" => request[r].at = "build" /\ BuildScheduler(r)
          /\ q.at = "devices" => request[r].at = "apply" /\ ApplySchedule(r)
    <2>0. current \in Nat  BY DEF SettingsInv, SettingsTypeOK
    <2>1. CASE WriteFile(r)
      <3>1. PICK q \in RequestRecords : q = [request[r] EXCEPT !.at = "publish"]
        BY <1>1 DEF RequestRecords, SavePlaces
      <3>. QED  BY <1>1, <1>2, <2>1, <3>1 DEF WriteFile, RequestRecords
    <2>2. CASE Publish(r)
      <3>1. PICK q \in RequestRecords : q = [request[r] EXCEPT !.at = "build"]
        BY <1>1 DEF RequestRecords, SavePlaces
      <3>. QED  BY <1>1, <1>2, <2>2, <3>1 DEF Publish, RequestRecords
    <2>3. CASE BuildScheduler(r)
      <3>1. PICK q \in RequestRecords : q = [request[r] EXCEPT !.at = "apply", !.read = current]
        BY <1>1, <2>0 DEF RequestRecords, SavePlaces
      <3>2. request' = [request EXCEPT ![r] = q]
        BY <2>3, <3>1 DEF BuildScheduler, SettingsInv, SettingsTypeOK
      <3>. QED  BY <1>1, <1>2, <2>3, <3>1, <3>2 DEF BuildScheduler, RequestRecords
    <2>4. CASE ApplySchedule(r)
      <3>1. PICK q \in RequestRecords : q = [request[r] EXCEPT !.at = "devices"]
        BY <1>1 DEF RequestRecords, DevicePlaces
      <3>. QED  BY <1>1, <1>2, <2>4, <3>1 DEF ApplySchedule, RequestRecords
    <2>. QED  BY <2>1, <2>2, <2>3, <2>4
  <1>4. SettingsTypeOK'
    <2>1. Placed(q)  BY <1>3 DEF Placed, SavePlaces, DevicePlaces
    <2>2. request[r].value \in Nat /\ request[r].read \in Nat  BY <1>1 DEF RequestRecords
    <2>3. {file', current', schedule', accepted'} \subseteq Nat
      BY <1>1, <2>2 DEF WriteFile, Publish, BuildScheduler, ApplySchedule, SettingsInv, SettingsTypeOK
    <2>. QED  BY <1>1, <1>3, <2>1, <2>3, TypesStep DEF SettingsInv, SettingsTypeOK
  <1>5. SocketsOK'
    <2>1. request[r].at # "closing" /\ q.at # "closing"  BY <1>1, <1>3 DEF SavePlaces
    <2>. QED  BY <1>1, <1>3, <2>1, SocketsKept
  <1>6. SavesOK'
    <2>1. ASSUME SavePhase(request[r]) PROVE SavePhase(q)'
      <3>1. CASE q.at = "publish"
        BY <1>1, <1>3, <2>1, <3>1 DEF WriteFile, SavePhase, SavePlaces, DevicePlaces
      <3>2. CASE q.at = "build"
        BY <1>1, <1>3, <2>1, <3>2 DEF Publish, SavePhase, SavePlaces, DevicePlaces
      <3>3. CASE q.at = "apply"
        BY <1>1, <1>3, <2>1, <3>3 DEF BuildScheduler, SavePhase, SavePlaces, DevicePlaces
      <3>4. CASE q.at = "devices"
        BY <1>1, <1>3, <2>1, <3>4 DEF ApplySchedule, SavePhase, SavePlaces, DevicePlaces
      <3>. QED  BY <1>3, <3>1, <3>2, <3>3, <3>4
    <2>. QED  BY <1>1, <1>2, <1>3, <2>1, SavesStep
  <1>7. OutputsOK'
    <2>1. ASSUME OutputPhase(request[r]) PROVE OutputPhase(q)'
      BY <1>1, <1>2, <1>3, <2>1 DEF OutputPhase, Faithful
    <2>. QED  BY <1>1, <1>2, <1>3, <2>1, OutputsStep
  <1>. QED  BY <1>4, <1>5, <1>6, <1>7 DEF SettingsInv

LEMMA SaveFailuresKeepInv ==
    ASSUME SettingsInv, NEW r \in Requests, WriteFails(r) \/ BuildFails(r)
    PROVE  SettingsInv'
  <1>1. /\ request[r].at \in {"write", "build"} /\ request[r] \in RequestRecords /\ Placed(request[r])
        /\ UNCHANGED <<current, schedule, enabled, existing, discovery, accepted, crossed>>
        /\ budget' \in [saves : Nat, toggles : Nat, troubles : Nat]
    BY SpendingKeepsTypes DEF WriteFails, BuildFails, SettingsInv, SettingsTypeOK
  <1>2. request[r].kind = "save" /\ r \in InFlight
    BY <1>1 DEF Placed, SavePlaces, DevicePlaces, RequestRecords, InFlight
  <1>3. PICK back \in RequestRecords :
          /\ back = [request[r] EXCEPT !.undo = TRUE, !.at = "write", !.value = request[r].old]
          /\ back.kind = "save" /\ back.at = "write" /\ back.undo
          /\ back.value = request[r].old /\ back.old = request[r].old
    <2>1. PICK back \in RequestRecords :
            back = [request[r] EXCEPT !.undo = TRUE, !.at = "write", !.value = request[r].old]
      BY <1>1 DEF RequestRecords, SavePlaces
    <2>. QED  BY <1>1, <1>2, <2>1 DEF RequestRecords
  <1>4. PICK q \in RequestRecords :
          /\ request' = [request EXCEPT ![r] = q]
          /\ Placed(q) /\ q.at \notin {"start", "stop", "closing"} /\ (q.kind = "save" \/ q = NotRequested)
          /\ ~upset' => /\ q = NotRequested \/ q = back
                        /\ q = NotRequested => request[r].at = "write" /\ ~request[r].undo
                        /\ UNCHANGED file
    <2>1. CASE ~request[r].undo /\ WriteFails(r)
      <3>1. request' = [request EXCEPT ![r] = NotRequested] /\ (~upset' => UNCHANGED file)
        BY <2>1 DEF WriteFails
      <3>2. NotRequested \in RequestRecords /\ Placed(NotRequested) /\ NotRequested.at = "idle"
        BY DEF NotRequested, RequestRecords, Placed
      <3>. QED  BY <2>1, <3>1, <3>2 DEF WriteFails
    <2>2. CASE ~request[r].undo /\ BuildFails(r)
      <3>1. StepFails(r, FALSE) = back  BY <1>2, <1>3, <2>2 DEF StepFails
      <3>2. Placed(back)  BY <1>3 DEF Placed, SavePlaces
      <3>3. NotRequested # back  BY <1>3 DEF NotRequested
      <3>. QED  BY <1>3, <2>2, <3>1, <3>2, <3>3 DEF BuildFails
    <2>3. CASE request[r].undo
      <3>1. PICK q \in RequestRecords :
              /\ q = [request[r] EXCEPT !.at = IF request[r].at = "write" THEN "build" ELSE "devices"]
              /\ q.kind = "save" /\ q.at \in {"build", "devices"}
        <4>1. PICK at \in {"build", "devices"} : at = IF request[r].at = "write" THEN "build" ELSE "devices"
          OBVIOUS
        <4>2. PICK q \in RequestRecords : q = [request[r] EXCEPT !.at = at]
          BY <1>1, <4>1 DEF RequestRecords, SavePlaces, DevicePlaces
        <4>. QED  BY <1>1, <1>2, <4>1, <4>2 DEF RequestRecords
      <3>2. StepFails(r, FALSE) = q  BY <1>2, <2>3, <3>1 DEF StepFails
      <3>3. Placed(q)  BY <3>1 DEF Placed, SavePlaces, DevicePlaces
      <3>4. upset'  BY <2>3 DEF WriteFails, BuildFails
      <3>. QED  BY <2>3, <3>1, <3>2, <3>3, <3>4 DEF WriteFails, BuildFails
    <2>. QED  BY <2>1, <2>2, <2>3
  <1>5. upset => upset'  BY DEF WriteFails, BuildFails
  <1>6. SettingsTypeOK'
    <2>1. request[r].value \in Nat /\ file \in Nat /\ upset \in BOOLEAN
      BY <1>1 DEF RequestRecords, SettingsInv, SettingsTypeOK
    <2>2. file' \in Nat /\ upset' \in BOOLEAN
      BY <2>1 DEF WriteFails, BuildFails
    <2>. QED  BY <1>1, <1>4, <2>2, TypesStep DEF SettingsInv, SettingsTypeOK
  <1>7. SocketsOK'
    BY <1>1, <1>4, SocketsKept
  <1>8. SavesOK'
    <2>1. ASSUME ~upset', SavePhase(request[r])
          PROVE  IF q.kind = "save" THEN SavePhase(q)' ELSE AllAgree'
      <3>1. CASE q = NotRequested
        <4>1. q.kind # "save"  BY <3>1 DEF NotRequested
        <4>2. AllAgree'
          BY <1>1, <1>4, <2>1, <3>1 DEF SavePhase, AllAgree, SavePlaces
        <4>. QED  BY <4>1, <4>2
      <3>2. CASE q = back
        <4>1. SavePhase(q)'
          BY <1>1, <1>3, <2>1, <3>2 DEF SavePhase, DevicePlaces
        <4>. QED  BY <1>3, <3>2, <4>1
      <3>. QED  BY <1>4, <2>1, <3>1, <3>2
    <2>. QED  BY <1>2, <1>4, <1>5, <2>1, SavesStep
  <1>9. OutputsOK'
    <2>1. ASSUME OutputPhase(request[r])
          PROVE  IF q.kind = "none" THEN Faithful' ELSE OutputPhase(q)'
      <3>1. Faithful /\ Faithful'  BY <1>1, <1>2, <2>1 DEF OutputPhase, Faithful
      <3>. QED  BY <1>4, <3>1 DEF OutputPhase, Faithful
    <2>. QED  BY <1>1, <1>2, <1>4, <2>1, OutputsStep
  <1>. QED  BY <1>6, <1>7, <1>8, <1>9 DEF SettingsInv

(* The row of the lineup, and reading the lineups.                         *)
LEMMA OutputStepsKeepInv ==
    ASSUME SettingsInv, NEW r \in Requests, StoreOutput(r) \/ ReadDevices(r)
    PROVE  SettingsInv'
  <1>1. /\ request[r].at \in {"store", "devices"} /\ request[r] \in RequestRecords /\ Placed(request[r])
        /\ UNCHANGED <<file, current, schedule, discovery, accepted, upset, crossed, budget>>
    BY DEF StoreOutput, ReadDevices, SettingsInv, SettingsTypeOK
  <1>2. request[r].kind # "none" /\ r \in InFlight
    BY <1>1 DEF Placed, InFlight
  <1>3. PICK q \in RequestRecords :
          /\ request' = [request EXCEPT ![r] = q] /\ q = [request[r] EXCEPT !.at = q.at]
          /\ q.kind = request[r].kind /\ q.at \in {"devices", "start", "stop"}
          /\ q.at = "devices" => StoreOutput(r)
          /\ q.at # "devices" => ReadDevices(r)
          /\ q.at = "start" => enabled # {}
          /\ q.at = "stop" => enabled = {}
    <2>1. CASE StoreOutput(r)
      <3>1. PICK q \in RequestRecords : q = [request[r] EXCEPT !.at = "devices"]
        BY <1>1 DEF RequestRecords, DevicePlaces
      <3>. QED  BY <1>1, <2>1, <3>1 DEF StoreOutput, RequestRecords
    <2>2. CASE ReadDevices(r)
      <3>1. PICK q \in RequestRecords : q = [request[r] EXCEPT !.at = IF enabled # {} THEN "start" ELSE "stop"]
        BY <1>1 DEF RequestRecords, DevicePlaces
      <3>. QED  BY <1>1, <2>2, <3>1 DEF ReadDevices, RequestRecords
    <2>. QED  BY <2>1, <2>2
  <1>4. SettingsTypeOK'
    <2>1. Placed(q)  BY <1>1, <1>2, <1>3 DEF Placed, DevicePlaces
    <2>. QED  BY <1>1, <1>3, <2>1, TypesStep DEF SettingsInv, SettingsTypeOK
  <1>5. SocketsOK'  BY <1>1, <1>3, SocketsKept
  <1>6. SavesOK'
    <2>1. ASSUME request[r].kind = "save", SavePhase(request[r]) PROVE SavePhase(q)'
      <3>1. request[r].at = "devices"  BY <1>1, <2>1 DEF Placed, SavePlaces, DevicePlaces
      <3>2. q.at \in DevicePlaces /\ q.at \notin SavePlaces  BY <1>3 DEF DevicePlaces, SavePlaces
      <3>3. /\ q.undo = request[r].undo /\ q.value = request[r].value /\ q.old = request[r].old
        BY <1>1, <1>3 DEF RequestRecords
      <3>. QED  BY <1>1, <2>1, <3>1, <3>2, <3>3 DEF SavePhase, DevicePlaces, SavePlaces
    <2>. QED  BY <1>1, <1>2, <1>3, <2>1, SavesStep
  <1>7. OutputsOK'
    <2>1. ASSUME OutputPhase(request[r]) PROVE OutputPhase(q)'
      <3>1. CASE StoreOutput(r) /\ q.at = "devices"
        <4>1. request[r].kind # "save"
          BY <3>1, <1>1 DEF StoreOutput, Placed, SavePlaces, DevicePlaces
        <4>. QED  BY <1>3, <3>1, <4>1 DEF OutputPhase
      <3>2. CASE ReadDevices(r) /\ q.at # "devices"
        <4>1. UNCHANGED enabled  BY <3>2 DEF ReadDevices
        <4>. QED  BY <1>1, <1>3, <2>1, <3>2, <4>1 DEF OutputPhase, Faithful
      <3>. QED  BY <1>3, <3>1, <3>2
    <2>. QED  BY <1>1, <1>2, <1>3, <2>1, OutputsStep
  <1>. QED  BY <1>4, <1>5, <1>6, <1>7 DEF SettingsInv

(* A request ends: with a save that is accepted, or put back already.      *)
LEMMA CompletionSettles ==
    ASSUME SettingsInv, NEW r \in InFlight, request[r].at \in DevicePlaces, Complete(r),
           UNCHANGED <<file, current, schedule, upset>>
    PROVE  /\ request' = [request EXCEPT ![r] = NotRequested]
           /\ NotRequested \in RequestRecords /\ Placed(NotRequested)
           /\ NotRequested.kind = "none" /\ NotRequested.at = "idle"
           /\ accepted' \in Nat /\ SavesOK'
  <1>1. /\ request' = [request EXCEPT ![r] = NotRequested]
        /\ accepted' = IF request[r].kind = "save" /\ ~request[r].undo THEN request[r].value ELSE accepted
    BY DEF Complete
  <1>2. /\ NotRequested \in RequestRecords /\ Placed(NotRequested)
        /\ NotRequested.kind = "none" /\ NotRequested.at = "idle"
    BY DEF NotRequested, RequestRecords, Placed
  <1>3. accepted' \in Nat
    <2>1. request[r].value \in Nat /\ accepted \in Nat
      BY DEF SettingsInv, SettingsTypeOK, RequestRecords, InFlight
    <2>. QED  BY <1>1, <2>1
  <1>4. ASSUME request[r].kind = "save", SavePhase(request[r]) PROVE AllAgree'
    BY <1>1, <1>4 DEF SavePhase, AllAgree, DevicePlaces
  <1>5. PICK q : q = NotRequested  OBVIOUS
  <1>6. SavesOK'  BY <1>1, <1>2, <1>4, <1>5, SavesStep
  <1>. QED  BY <1>1, <1>2, <1>3, <1>6

LEMMA StartKeepsInv ==
    ASSUME SettingsInv, NEW r \in Requests, StartService(r)
    PROVE  SettingsInv'
  <1>1. /\ request[r].at = "start" /\ (discovery.running \/ ~discovery.open) /\ Complete(r)
        /\ discovery' = [discovery EXCEPT !.running = TRUE, !.open = TRUE]
        /\ UNCHANGED <<file, current, schedule, enabled, existing, upset, crossed, budget>>
    BY DEF StartService
  <1>2. r \in InFlight /\ request[r].at \in DevicePlaces
    BY <1>1 DEF InFlight, DevicePlaces, SettingsInv, SettingsTypeOK, Placed
  <1>3. /\ request' = [request EXCEPT ![r] = NotRequested]
        /\ NotRequested \in RequestRecords /\ Placed(NotRequested)
        /\ NotRequested.kind = "none" /\ NotRequested.at = "idle"
        /\ accepted' \in Nat /\ SavesOK'
    BY <1>1, <1>2, CompletionSettles
  <1>4. /\ discovery' \in [running : BOOLEAN, open : BOOLEAN, closing : SUBSET Requests]
        /\ discovery'.running /\ discovery'.open /\ discovery'.closing = discovery.closing
    BY <1>1 DEF SettingsInv, SettingsTypeOK
  <1>5. SettingsTypeOK'
    BY <1>1, <1>3, <1>4, TypesStep DEF SettingsInv, SettingsTypeOK
  <1>6. SocketsOK'
    <2>1. discovery.closing = {}  BY <1>1 DEF SettingsInv, SocketsOK
    <2>2. \A s \in Requests : request'[s].at # "closing"
      BY <1>3, <2>1 DEF SettingsInv, SettingsTypeOK, SocketsOK
    <2>. QED  BY <1>4, <2>1, <2>2 DEF SocketsOK
  <1>7. OutputsOK'
    <2>1. PICK q : q = NotRequested  OBVIOUS
    <2>2. ASSUME OutputPhase(request[r]) PROVE Faithful'
      BY <1>1, <1>4, <2>2 DEF OutputPhase, Faithful
    <2>. QED  BY <1>1, <1>2, <1>3, <2>1, <2>2, OutputsStep
  <1>. QED  BY <1>3, <1>5, <1>6, <1>7 DEF SettingsInv

LEMMA StopKeepsInv ==
    ASSUME SettingsInv, NEW r \in Requests, StopService(r)
    PROVE  SettingsInv'
  <1>1. /\ request[r].at = "stop" /\ request[r] \in RequestRecords /\ Placed(request[r])
        /\ UNCHANGED <<file, current, schedule, enabled, existing, upset, crossed, budget>>
    BY DEF StopService, SettingsInv, SettingsTypeOK
  <1>2. r \in InFlight /\ request[r].at \in DevicePlaces
    BY <1>1 DEF InFlight, DevicePlaces, Placed
  <1>3. CASE discovery.running
    <2>1. PICK q \in RequestRecords : q = [request[r] EXCEPT !.at = "closing"]
      BY <1>1 DEF RequestRecords, DevicePlaces
    <2>2. /\ request' = [request EXCEPT ![r] = q] /\ UNCHANGED accepted
          /\ discovery' = [discovery EXCEPT !.running = FALSE, !.closing = @ \cup {r}]
      BY <1>3, <2>1 DEF StopService
    <2>3. /\ q.kind = request[r].kind /\ q.at = "closing" /\ q.undo = request[r].undo
          /\ q.value = request[r].value /\ q.old = request[r].old
      BY <1>1, <2>1 DEF RequestRecords
    <2>4. discovery.closing = {} /\ discovery.open  BY <1>3 DEF SettingsInv, SocketsOK
    <2>5. /\ discovery' \in [running : BOOLEAN, open : BOOLEAN, closing : SUBSET Requests]
          /\ ~discovery'.running /\ discovery'.open /\ discovery'.closing = {r}
      BY <2>2, <2>4 DEF SettingsInv, SettingsTypeOK
    <2>6. SettingsTypeOK'
      <3>1. Placed(q)  BY <1>1, <2>3 DEF Placed, DevicePlaces
      <3>. QED  BY <1>1, <2>2, <2>5, <3>1, TypesStep DEF SettingsInv, SettingsTypeOK
    <2>7. SocketsOK'
      <3>1. request'[r] = q /\ \A s \in Requests : s # r => request'[s] = request[s]
        BY <2>2, RequestStep DEF SettingsInv
      <3>2. \A s \in Requests : request'[s].at = "closing" <=> s = r
        BY <2>3, <2>4, <3>1 DEF SettingsInv, SocketsOK
      <3>. QED  BY <2>5, <3>2 DEF SocketsOK
    <2>8. SavesOK'
      <3>1. ASSUME SavePhase(request[r]) PROVE SavePhase(q)'
        BY <1>1, <2>2, <2>3, <3>1 DEF SavePhase, SavePlaces, DevicePlaces
      <3>. QED  BY <1>1, <1>2, <2>2, <2>3, <3>1, SavesStep
    <2>9. OutputsOK'
      <3>1. ASSUME OutputPhase(request[r]) PROVE OutputPhase(q)' /\ q.kind # "none"
        BY <1>1, <1>2, <1>3, <2>3, <2>5, <3>1 DEF OutputPhase, Faithful, InFlight
      <3>. QED  BY <1>1, <1>2, <2>2, <3>1, OutputsStep
    <2>. QED  BY <2>6, <2>7, <2>8, <2>9 DEF SettingsInv
  <1>4. CASE ~discovery.running
    <2>1. Complete(r) /\ UNCHANGED discovery  BY <1>4 DEF StopService
    <2>2. /\ request' = [request EXCEPT ![r] = NotRequested]
          /\ NotRequested \in RequestRecords /\ Placed(NotRequested)
          /\ NotRequested.kind = "none" /\ NotRequested.at = "idle"
          /\ accepted' \in Nat /\ SavesOK'
      BY <1>1, <1>2, <2>1, CompletionSettles
    <2>3. PICK q : q = NotRequested  OBVIOUS
    <2>4. SettingsTypeOK'
      BY <1>1, <2>1, <2>2, TypesStep DEF SettingsInv, SettingsTypeOK
    <2>5. SocketsOK'  BY <1>1, <2>1, <2>2, <2>3, SocketsKept
    <2>6. OutputsOK'
      <3>1. ASSUME OutputPhase(request[r]) PROVE Faithful'
        BY <1>1, <1>4, <2>1, <3>1 DEF OutputPhase, Faithful, SettingsInv, SettingsTypeOK
      <3>. QED  BY <1>1, <1>2, <2>2, <2>3, <3>1, OutputsStep
    <2>. QED  BY <2>2, <2>4, <2>5, <2>6 DEF SettingsInv
  <1>. QED  BY <1>3, <1>4

LEMMA CloseKeepsInv ==
    ASSUME SettingsInv, NEW r \in Requests, CloseSocket(r)
    PROVE  SettingsInv'
  <1>1. /\ request[r].at = "closing" /\ Complete(r)
        /\ discovery' = [discovery EXCEPT !.open = FALSE, !.closing = @ \ {r}]
        /\ UNCHANGED <<file, current, schedule, enabled, existing, upset, crossed, budget>>
    BY DEF CloseSocket
  <1>2. r \in InFlight /\ request[r].at \in DevicePlaces
    BY <1>1 DEF InFlight, DevicePlaces, SettingsInv, SettingsTypeOK, Placed
  <1>3. /\ request' = [request EXCEPT ![r] = NotRequested]
        /\ NotRequested \in RequestRecords /\ Placed(NotRequested)
        /\ NotRequested.kind = "none" /\ NotRequested.at = "idle"
        /\ accepted' \in Nat /\ SavesOK'
    BY <1>1, <1>2, CompletionSettles
  <1>4. discovery.closing = {r} /\ ~discovery.running  BY <1>1 DEF SettingsInv, SocketsOK
  <1>5. /\ discovery' \in [running : BOOLEAN, open : BOOLEAN, closing : SUBSET Requests]
        /\ ~discovery'.running /\ ~discovery'.open /\ discovery'.closing = {}
    BY <1>1, <1>4 DEF SettingsInv, SettingsTypeOK
  <1>6. SettingsTypeOK'
    BY <1>1, <1>3, <1>5, TypesStep DEF SettingsInv, SettingsTypeOK
  <1>7. SocketsOK'
    <2>1. request'[r].at = "idle" /\ \A s \in Requests : s # r => request'[s] = request[s]
      BY <1>3 DEF SettingsInv, SettingsTypeOK
    <2>2. \A s \in Requests : request'[s].at # "closing"
      BY <1>4, <2>1 DEF SettingsInv, SocketsOK
    <2>. QED  BY <1>5, <2>2 DEF SocketsOK
  <1>8. OutputsOK'
    <2>1. PICK q : q = NotRequested  OBVIOUS
    <2>2. ASSUME OutputPhase(request[r]) PROVE Faithful'
      BY <1>1, <1>5, <2>2 DEF OutputPhase, Faithful
    <2>. QED  BY <1>1, <1>2, <1>3, <2>1, <2>2, OutputsStep
  <1>. QED  BY <1>3, <1>6, <1>7, <1>8 DEF SettingsInv

(* The port is taken: the request goes back, or is over.                   *)
LEMMA StartFailsKeepsInv ==
    ASSUME SettingsInv, NEW r \in Requests, StartFails(r)
    PROVE  SettingsInv'
  <1>1. /\ request[r].at = "start" /\ request[r] \in RequestRecords /\ Placed(request[r]) /\ ~discovery.running
        /\ request' = [request EXCEPT ![r] = StepFails(r, TRUE)]
        /\ crossed' = (crossed \/ request[r].undo \/ request[r].kind = "delete")
        /\ UNCHANGED <<file, current, schedule, enabled, existing, discovery, accepted, upset>>
        /\ budget' \in [saves : Nat, toggles : Nat, troubles : Nat]
    BY SpendingKeepsTypes DEF StartFails, SettingsInv, SettingsTypeOK
  <1>2. r \in InFlight  BY <1>1 DEF InFlight, Placed
  <1>3. PICK q \in RequestRecords :
          /\ q = StepFails(r, TRUE) /\ Placed(q) /\ q.at \in {"idle", "write", "store"}
          /\ ~request[r].undo /\ request[r].kind # "delete" =>
                /\ q.kind = request[r].kind /\ q.kind # "none" /\ q.undo
                /\ q.old = request[r].old /\ q.value = q.old
                /\ q.kind = "save" => q.at = "write"
          /\ request[r].undo \/ request[r].kind = "delete" => q.kind = "none"
    <2>1. /\ NotRequested \in RequestRecords /\ Placed(NotRequested)
          /\ NotRequested.kind = "none" /\ NotRequested.at = "idle"
      BY DEF NotRequested, RequestRecords, Placed
    <2>2. CASE request[r].undo \/ request[r].kind = "delete"
      <3>1. StepFails(r, TRUE) = NotRequested  BY <2>2 DEF StepFails
      <3>. QED  BY <2>1, <2>2, <3>1
    <2>3. CASE ~request[r].undo /\ request[r].kind # "delete"
      <3>1. PICK q \in RequestRecords :
              q = [request[r] EXCEPT !.undo = TRUE, !.value = request[r].old,
                                     !.at = IF request[r].kind = "save" THEN "write" ELSE "store"]
        BY <1>1 DEF RequestRecords, SavePlaces
      <3>2. q = StepFails(r, TRUE)  BY <2>3, <3>1 DEF StepFails
      <3>3. /\ q.kind = request[r].kind /\ q.undo /\ q.old = request[r].old /\ q.value = q.old
            /\ q.at = IF request[r].kind = "save" THEN "write" ELSE "store"
        BY <1>1, <3>1 DEF RequestRecords
      <3>4. q.kind \in {"save", "toggle"}
        BY <1>1, <2>3, <3>3 DEF Placed, RequestRecords
      <3>5. Placed(q)  BY <3>3, <3>4 DEF Placed, SavePlaces
      <3>. QED  BY <2>3, <3>2, <3>3, <3>4, <3>5
    <2>. QED  BY <2>2, <2>3
  <1>4. SettingsTypeOK'
    BY <1>1, <1>3, TypesStep DEF SettingsInv, SettingsTypeOK, RequestRecords
  <1>5. SocketsOK'  BY <1>1, <1>3, SocketsKept
  <1>6. SavesOK'
    <2>1. ASSUME request[r].kind = "save", SavePhase(request[r])
          PROVE  IF q.kind = "save" THEN SavePhase(q)' ELSE AllAgree'
      <3>1. CASE request[r].undo
        BY <1>1, <1>3, <2>1, <3>1 DEF SavePhase, AllAgree, DevicePlaces
      <3>2. CASE ~request[r].undo
        <4>1. SavePhase(q)'
          BY <1>1, <1>3, <2>1, <3>2 DEF SavePhase, DevicePlaces
        <4>. QED  BY <1>3, <2>1, <3>2, <4>1
      <3>. QED  BY <3>1, <3>2
    <2>2. request[r].kind # "save" => q.kind # "save"  BY <1>3
    <2>. QED  BY <1>1, <1>2, <1>3, <2>1, <2>2, SavesStep
  <1>7. OutputsOK'
    <2>1. ASSUME ~crossed', OutputPhase(request[r])
          PROVE  IF q.kind = "none" THEN Faithful' ELSE OutputPhase(q)'
      <3>1. ~request[r].undo /\ request[r].kind # "delete"  BY <1>1, <2>1
      <3>2. request[r].kind # "save"
        BY <1>1, <2>1 DEF OutputPhase, Faithful, SettingsInv, SettingsTypeOK
      <3>. QED  BY <1>3, <3>1, <3>2 DEF OutputPhase
    <2>. QED  BY <1>1, <1>2, <1>3, <2>1, OutputsStep
  <1>. QED  BY <1>4, <1>5, <1>6, <1>7 DEF SettingsInv

LEMMA SettingsStepInv == SettingsInv /\ [SettingsNext]_settingsVars => SettingsInv'
  <1>. SUFFICES ASSUME SettingsInv, [SettingsNext]_settingsVars PROVE SettingsInv'
    OBVIOUS
  <1>1. ASSUME NEW r \in Requests, BeginSave(r) \/ \E l \in Outputs : BeginToggle(r, l) \/ BeginDelete(r, l)
        PROVE  SettingsInv'
    BY <1>1, BeginKeepsInv
  <1>2. ASSUME NEW r \in Requests, WriteFile(r) \/ Publish(r) \/ BuildScheduler(r) \/ ApplySchedule(r)
        PROVE  SettingsInv'
    BY <1>2, SaveStepsKeepInv
  <1>3. ASSUME NEW r \in Requests, WriteFails(r) \/ BuildFails(r) PROVE SettingsInv'
    BY <1>3, SaveFailuresKeepInv
  <1>4. ASSUME NEW r \in Requests, StoreOutput(r) \/ ReadDevices(r) PROVE SettingsInv'
    BY <1>4, OutputStepsKeepInv
  <1>5. ASSUME NEW r \in Requests, StartService(r) PROVE SettingsInv'  BY <1>5, StartKeepsInv
  <1>6. ASSUME NEW r \in Requests, StartFails(r) PROVE SettingsInv'  BY <1>6, StartFailsKeepsInv
  <1>7. ASSUME NEW r \in Requests, StopService(r) PROVE SettingsInv'  BY <1>7, StopKeepsInv
  <1>8. ASSUME NEW r \in Requests, CloseSocket(r) PROVE SettingsInv'  BY <1>8, CloseKeepsInv
  <1>9. CASE UNCHANGED settingsVars
    <2>1. UNCHANGED <<file, current, schedule, enabled, discovery, request, accepted, upset, crossed, budget>>
      BY <1>9 DEF settingsVars
    <2>2. Saving' = Saving /\ InFlight' = InFlight  BY <2>1 DEF Saving, InFlight
    <2>3. SettingsTypeOK'  BY <2>1 DEF SettingsInv, SettingsTypeOK, Placed
    <2>4. SavesOK'  BY <2>1, <2>2 DEF SettingsInv, SavesOK, AllAgree, SavePhase
    <2>5. SocketsOK'  BY <2>1 DEF SettingsInv, SocketsOK
    <2>6. OutputsOK'  BY <2>1, <2>2 DEF SettingsInv, OutputsOK, OutputPhase, Faithful
    <2>. QED  BY <2>3, <2>4, <2>5, <2>6 DEF SettingsInv
  <1>. QED  BY <1>1, <1>2, <1>3, <1>4, <1>5, <1>6, <1>7, <1>8, <1>9 DEF SettingsNext

-----------------------------------------------------------------------------
(* How far each save has come, what each request has read and who holds    *)
(* the socket hold in every reachable state of a running server.           *)
THEOREM SettingsSafety == SettingsSpec => []SettingsInv
  <1>. QED  BY SettingsInitInv, SettingsStepInv, PTL DEF SettingsSpec

(* UpdateSettings, cron.Reconfigure and virtualtuner.Reconfigure leave     *)
(* running what is configured, whichever of their steps fail, unless       *)
(* requests overlapped or something could not be put back.                 *)
THEOREM SettingsStayAgreed == SettingsSpec => []SettingsAgree
  <1>1. SettingsInv => SettingsAgree
    <2>. SUFFICES ASSUME SettingsInv PROVE SettingsAgree
      OBVIOUS
    <2>1. discovery.closing = {} => discovery.running = discovery.open
      BY DEF SettingsInv, SettingsTypeOK, SocketsOK
    <2>. QED  BY <2>1 DEF SettingsInv, SavesOK, AllAgree, OutputsOK, Faithful, SettingsAgree
  <1>. QED  BY <1>1, SettingsSafety, PTL

-----------------------------------------------------------------------------
(***************************************************************************)
(* What the proofs below use of finite sets of ids.                        *)
(***************************************************************************)

LEMMA FiniteRange ==
    ASSUME NEW S, IsFiniteSet(S), NEW f, DOMAIN f = S
    PROVE  IsFiniteSet({f[x] : x \in S})
  <1>1. PICK T, g : T = {f[x] : x \in S} /\ g = [x \in S |-> f[x]]
    OBVIOUS
  <1>2. g \in Surjection(S, T)
    BY <1>1 DEF Surjection
  <1>. QED  BY <1>1, <1>2, FS_Surjection

(* The ranks of the members of a finite set of numbers.                    *)
LEMMA RanksDiffer ==
    ASSUME NEW ids, ids \subseteq Nat, IsFiniteSet(ids), NEW n \in Nat, n = Cardinality(ids),
           NEW f, f = [r \in ids |-> Cardinality({q \in ids : q <= r})]
    PROVE  /\ \A r \in ids : f[r] \in 1..n
           /\ \A r, q \in ids : r < q => f[r] < f[q]
           /\ \A r, q \in ids : f[r] = f[q] => r = q
  <1>1. f = [r \in ids |-> Cardinality({q \in ids : q <= r})]
    OBVIOUS
  <1>2. \A r \in ids : f[r] \in 1..n
    <2>. TAKE r \in ids
    <2>1. PICK T : T = {q \in ids : q <= r}
      OBVIOUS
    <2>2. IsFiniteSet(T) /\ Cardinality(T) <= n /\ Cardinality(T) \in Nat
      BY <2>1, FS_Subset, FS_CardinalityType
    <2>3. r \in T
      BY <2>1
    <2>4. Cardinality(T) # 0
      BY <2>2, <2>3, FS_EmptySet
    <2>. QED  BY <1>1, <2>1, <2>2, <2>4
  <1>3. \A r, q \in ids : r < q => f[r] < f[q]
    <2>. SUFFICES ASSUME NEW r \in ids, NEW q \in ids, r < q
                  PROVE  f[r] < f[q]
      OBVIOUS
    <2>1. PICK T, U : T = {p \in ids : p <= r} /\ U = {p \in ids : p <= q}
      OBVIOUS
    <2>0. r \in Nat /\ q \in Nat /\ ids \subseteq Nat
      OBVIOUS
    <2>2. T \subseteq U /\ q \in U /\ q \notin T
      <3>1. ASSUME NEW p \in T
            PROVE  p \in U
        <4>1. p \in ids /\ p \in Nat /\ p <= r
          BY <2>1
        <4>. QED  BY <2>0, <2>1, <4>1
      <3>2. q \in U
        BY <2>0, <2>1
      <3>3. q \notin T
        BY <2>0, <2>1
      <3>. QED  BY <3>1, <3>2, <3>3
    <2>3. IsFiniteSet(U)
      BY <2>1, FS_Subset
    <2>4. Cardinality(T) <= Cardinality(U) /\ Cardinality(T) # Cardinality(U)
      BY <2>2, <2>3, FS_Subset
    <2>5. f[r] = Cardinality(T) /\ f[q] = Cardinality(U) /\ f[r] \in 1..n /\ f[q] \in 1..n
      BY <1>1, <1>2, <2>1
    <2>. QED  BY <2>4, <2>5
  <1>4. \A r, q \in ids : f[r] = f[q] => r = q
    <2>. SUFFICES ASSUME NEW r \in ids, NEW q \in ids, f[r] = f[q], r # q
                  PROVE  FALSE
      OBVIOUS
    <2>1. r < q \/ q < r
      OBVIOUS
    <2>2. f[r] \in 1..n
      BY <1>2
    <2>. QED  BY <1>3, <2>1, <2>2
  <1>. QED  BY <1>2, <1>3, <1>4

(* Ascending lists a finite set of numbers: each of them once, in order.   *)
LEMMA AscendingLists ==
    ASSUME NEW ids, ids \subseteq Nat, IsFiniteSet(ids), NEW n \in Nat, n = Cardinality(ids)
    PROVE  /\ Ascending(ids) \in [1..n -> ids]
           /\ \A i, k \in 1..n : i < k => Ascending(ids)[i] < Ascending(ids)[k]
           /\ \A r \in ids : \E i \in 1..n : Ascending(ids)[i] = r
  <1>1. PICK f : f = [r \in ids |-> Cardinality({q \in ids : q <= r})]
    OBVIOUS
  <1>2. \A r \in ids : f[r] \in 1..n
    BY <1>1, RanksDiffer
  <1>3. \A r, q \in ids : r < q => f[r] < f[q]
    BY <1>1, RanksDiffer
  <1>4. \A r, q \in ids : f[r] = f[q] => r = q
    BY <1>1, RanksDiffer
  <1>5. f \in Injection(ids, 1..n)
    BY <1>1, <1>2, <1>4 DEF Injection, IsInjective
  <1>6. IsFiniteSet(1..n) /\ Cardinality(1..n) = n
    BY FS_Interval
  <1>7. f \in Surjection(ids, 1..n)
    BY <1>5, <1>6, FS_Injection
  <1>8. \A i \in 1..n : \E r \in ids : f[r] = i
    BY <1>7 DEF Surjection
  <1>9. PICK a : a = Ascending(ids)
    OBVIOUS
  <1>10. a = [i \in 1..n |-> CHOOSE r \in ids : Cardinality({q \in ids : q <= r}) = i]
    BY <1>9 DEF Ascending
  <1>11. \A i \in 1..n : a[i] \in ids /\ f[a[i]] = i
    <2>. TAKE i \in 1..n
    <2>1. PICK r \in ids : Cardinality({q \in ids : q <= r}) = i
      BY <1>1, <1>8
    <2>2. a[i] \in ids /\ Cardinality({q \in ids : q <= a[i]}) = i
      BY <1>10, <2>1
    <2>. QED  BY <1>1, <2>2
  <1>12. a \in [1..n -> ids]
    BY <1>10, <1>11
  <1>13. \A i, k \in 1..n : i < k => a[i] < a[k]
    <2>. SUFFICES ASSUME NEW i \in 1..n, NEW k \in 1..n, i < k, ~(a[i] < a[k])
                  PROVE  FALSE
      OBVIOUS
    <2>1. a[i] \in Nat /\ a[k] \in Nat /\ f[a[i]] = i /\ f[a[k]] = k /\ a[i] \in ids /\ a[k] \in ids
      BY <1>11
    <2>2. a[k] < a[i] \/ a[k] = a[i]
      BY <2>1
    <2>. QED  BY <1>3, <2>1, <2>2
  <1>14. \A r \in ids : \E i \in 1..n : a[i] = r
    BY <1>2, <1>4, <1>11
  <1>. QED  BY <1>9, <1>12, <1>13, <1>14

(* Max is the largest of a finite set of numbers.                          *)
LEMMA MaxIsLargest ==
    ASSUME NEW S, S \subseteq Nat, IsFiniteSet(S), S # {}
    PROVE  Max(S) \in S /\ \A x \in S : x <= Max(S)
  <1>1a. PICK n \in Nat : n = Cardinality(S)
    BY FS_CardinalityType
  <1>1. PICK a : n = Cardinality(S) /\ a = Ascending(S)
    BY <1>1a
  <1>2. n # 0
    BY <1>1, FS_EmptySet
  <1>3. /\ a \in [1..n -> S]
        /\ \A i, k \in 1..n : i < k => a[i] < a[k]
        /\ \A r \in S : \E i \in 1..n : a[i] = r
    BY <1>1, AscendingLists
  <1>4. a[n] \in S /\ \A x \in S : a[n] >= x
    <2>1. n \in 1..n /\ a[n] \in S
      BY <1>2, <1>3
    <2>2. ASSUME NEW x \in S
          PROVE  a[n] >= x
      <3>1. PICK i \in 1..n : a[i] = x
        BY <1>3
      <3>2. i = n \/ i < n
        OBVIOUS
      <3>3. x \in Nat /\ a[n] \in Nat
        BY <2>1
      <3>. QED  BY <1>3, <2>1, <3>1, <3>2, <3>3
    <2>. QED  BY <2>1, <2>2
  <1>5. Max(S) \in S /\ \A x \in S : Max(S) >= x
    BY <1>4 DEF Max
  <1>. QED  BY <1>5

(* Min is the smallest of a set of numbers.                                *)
LEMMA MinIsSmallest ==
    ASSUME NEW S, S \subseteq Nat, S # {}
    PROVE  Min(S) \in S /\ \A x \in S : Min(S) <= x
  <1>1. \E x \in S : \A y \in S : x <= y
    BY LeastNumber
  <1>. QED  BY <1>1 DEF Min

(* Appending one sequence to another.                                      *)
IsSeq(s) == \E A : s \in Seq(A)

LEMMA Appended ==
    ASSUME NEW s, NEW t, IsSeq(s), IsSeq(t), NEW u, u = s \o t
    PROVE  /\ IsSeq(u) /\ ToSet(u) = ToSet(s) \cup ToSet(t)
           /\ Len(s) \in Nat /\ Len(t) \in Nat /\ DOMAIN s = 1..Len(s) /\ DOMAIN t = 1..Len(t)
           /\ DOMAIN u = 1..Len(s) + Len(t)
           /\ \A i \in DOMAIN u : IF i <= Len(s) THEN i \in DOMAIN s /\ u[i] = s[i]
                                  ELSE i - Len(s) \in DOMAIN t /\ u[i] = t[i - Len(s)]
  <1>1. PICK A, B : s \in Seq(A) /\ t \in Seq(B)
    BY DEF IsSeq
  <1>2. PICK C : C = A \cup B
    OBVIOUS
  <1>3. s \in Seq(C) /\ t \in Seq(C)
    BY <1>1, <1>2
  <1>4. PICK m \in Nat : m = Len(s)
    BY <1>3
  <1>5. PICK n \in Nat : n = Len(t)
    BY <1>3
  <1>6. DOMAIN s = 1..m /\ DOMAIN t = 1..n
    BY <1>3, <1>4, <1>5
  <1>7. u \in Seq(C) /\ Len(u) = m + n /\ DOMAIN u = 1..m + n
    BY <1>3, <1>4, <1>5
  <1>8. \A i \in 1..m : i \in 1..m + n /\ u[i] = s[i]
    BY <1>3, <1>4, <1>5
  <1>9. \A i \in 1..n : m + i \in 1..m + n /\ u[m + i] = t[i]
    BY <1>3, <1>4, <1>5
  <1>10. \A i \in 1..m + n : IF i <= m THEN i \in 1..m /\ u[i] = s[i] ELSE i - m \in 1..n /\ u[i] = t[i - m]
    <2>. TAKE i \in 1..m + n
    <2>1. ASSUME i <= m
          PROVE  i \in 1..m /\ u[i] = s[i]
      <3>1. i \in 1..m
        BY <2>1
      <3>. QED  BY <1>8, <3>1
    <2>2. ASSUME ~(i <= m)
          PROVE  i - m \in 1..n /\ u[i] = t[i - m]
      <3>1. PICK k \in 1..n : k = i - m /\ i = m + k
        BY <2>2
      <3>2. u[m + k] = t[k]
        BY <1>9
      <3>. QED  BY <3>1, <3>2
    <2>. QED  BY <2>1, <2>2
  <1>11. ToSet(u) = ToSet(s) \cup ToSet(t)
    <2>1. ToSet(u) = {u[i] : i \in 1..m + n} /\ ToSet(s) = {s[i] : i \in 1..m} /\ ToSet(t) = {t[i] : i \in 1..n}
      BY <1>6, <1>7 DEF ToSet
    <2>2. \A i \in 1..m : s[i] \in {u[k] : k \in 1..m + n}
      BY <1>8
    <2>3. \A i \in 1..n : t[i] \in {u[k] : k \in 1..m + n}
      BY <1>9
    <2>4. \A i \in 1..m + n : u[i] \in {s[k] : k \in 1..m} \cup {t[k] : k \in 1..n}
      BY <1>10
    <2>. QED  BY <2>1, <2>2, <2>3, <2>4
  <1>. QED  BY <1>4, <1>5, <1>6, <1>7, <1>10, <1>11 DEF IsSeq

LEMMA OnePair ==
    ASSUME NEW p
    PROVE  IsSeq(<<p>>) /\ ToSet(<<p>>) = {p} /\ DOMAIN <<p>> = {1} /\ <<p>>[1] = p
  <1>1. <<p>> \in Seq({p})
    OBVIOUS
  <1>2. DOMAIN <<p>> = {1} /\ <<p>>[1] = p
    OBVIOUS
  <1>. QED  BY <1>1, <1>2 DEF IsSeq, ToSet

LEMMA NoPair == IsSeq(<<>>) /\ ToSet(<<>>) = {} /\ DOMAIN <<>> = {}
  BY DEF IsSeq, ToSet

-----------------------------------------------------------------------------
(***************************************************************************)
(* What people removed stays out of the stacks of sources, for any number  *)
(* of channels, rows, requests and matchers, and for any scores.           *)
(*                                                                         *)
(* MatchingInv: every mark people rely on is a rejection the matchers see  *)
(* (removed \subseteq rejection), through acceptances in two transactions  *)
(* and merges that rename the channels of both; and a matcher's choice is  *)
(* a finite set, so that what is attached is what was chosen.              *)
(***************************************************************************)
StackEntries(R) == [row : R, auto : BOOLEAN]

ChosenFinite(m) ==
    /\ m = [of |-> m.of, pass |-> m.pass, chosen |-> m.chosen, attempts |-> m.attempts]
    /\ IsFiniteSet(m.chosen)

MatchingInv ==
    /\ \E R : stack \in [Canonical -> Seq(StackEntries(R))]
    /\ DOMAIN plrow \subseteq PlRows
    /\ removed \subseteq rejection
    /\ \A m \in matching : ChosenFinite(m)

(* A stack is known by its entries.                                        *)
LEMMA WithoutKeeps ==
    ASSUME NEW R, NEW s \in Seq(StackEntries(R)), NEW r
    PROVE  /\ Without(s, r) \in Seq(StackEntries(R))
           /\ ToSet(Without(s, r)) \subseteq ToSet(s)
  <1>1. PICK S : S = {x \in ToSet(s) : x.row = r}
    OBVIOUS
  <1>2. /\ Omitting(s, S) \in Seq(StackEntries(R))
        /\ \A j \in 1..Len(Omitting(s, S)) : \E h \in 1..Len(s) : Omitting(s, S)[j] = s[h]
    BY OmittingMembers
  <1>3. DOMAIN s = 1..Len(s) /\ DOMAIN Omitting(s, S) = 1..Len(Omitting(s, S))
    BY <1>2
  <1>4. Without(s, r) = Omitting(s, S)
    BY <1>1 DEF Without
  <1>. QED  BY <1>2, <1>3, <1>4 DEF ToSet

(* The sequence of a finite set holds members of it.                       *)
LEMMA SeqOfSet ==
    ASSUME NEW S, IsFiniteSet(S)
    PROVE  SetToSeq(S) \in [1..Cardinality(S) -> S]
  <1>1. ExistsBijection(1..Cardinality(S), S)
    BY FS_CardinalityType
  <1>2. \E f \in [1..Cardinality(S) -> S] : IsInjective(f)
    BY <1>1 DEF ExistsBijection, Bijection, Injection
  <1>. QED  BY <1>2 DEF SetToSeq

(* What a matcher attaches is among the pairs it wants.                    *)
LEMMA AttachedAreWanted ==
    ASSUME NEW R, stack \in [Canonical -> Seq(StackEntries(R))],
           NEW pairs, IsFiniteSet(pairs), Attaches(pairs)
    PROVE  /\ \E Q : stack' \in [Canonical -> Seq(StackEntries(Q))]
           /\ \A c \in Canonical : \A s \in NewSources(c) : \E p \in pairs : p.channel = c /\ p.row = s.row
  <1>1. PICK Q : Q = R \cup {p.row : p \in pairs}
    OBVIOUS
  <1>2. ASSUME NEW c \in Canonical
        PROVE  /\ stack'[c] \in Seq(StackEntries(Q))
               /\ \A s \in NewSources(c) : \E p \in pairs : p.channel = c /\ p.row = s.row
    <2>1. PICK new : new = {p \in pairs : p.channel = c}
      OBVIOUS
    <2>2. IsFiniteSet(new) /\ Cardinality(new) \in Nat
      BY <2>1, FS_Subset, FS_CardinalityType
    <2>3a. PICK n \in Nat : n = Cardinality(new)
      BY <2>2
    <2>3. PICK q : n = Cardinality(new) /\ q = SetToSeq(new)
      BY <2>3a
    <2>4. q \in [1..n -> new]
      BY <2>2, <2>3, SeqOfSet
    <2>5. PICK t : t = [i \in 1..n |-> [row |-> q[i].row, auto |-> TRUE]]
      OBVIOUS
    <2>6. t \in Seq(StackEntries(Q))
      <3>1. \A i \in 1..n : q[i].row \in Q
        BY <2>1, <2>4, <1>1
      <3>2. \A i \in 1..n : t[i] \in StackEntries(Q)
        BY <3>1, <2>5 DEF StackEntries
      <3>3. t \in [1..n -> StackEntries(Q)]
        BY <3>2, <2>5
      <3>. QED  BY <3>3
    <2>7. stack'[c] = stack[c] \o t
      BY <2>1, <2>3, <2>5 DEF Attaches
    <2>8. stack[c] \in Seq(StackEntries(Q))
      <3>1. StackEntries(R) \subseteq StackEntries(Q)
        BY <1>1 DEF StackEntries
      <3>. QED  BY <3>1
    <2>9. ASSUME NEW s \in NewSources(c)
          PROVE  \E p \in pairs : p.channel = c /\ p.row = s.row
      <3>1. PICK i \in 1..Len(stack'[c]) : s = stack'[c][i]
        BY <2>6, <2>7, <2>8 DEF NewSources, ToSet
      <3>2. s \notin ToSet(stack[c])
        BY DEF NewSources
      <3>3. i \notin 1..Len(stack[c])
        BY <2>6, <2>7, <2>8, <3>1, <3>2 DEF ToSet
      <3>4. Len(t) = n /\ Len(stack'[c]) = Len(stack[c]) + n
        BY <2>5, <2>6, <2>7, <2>8
      <3>5. s = t[i - Len(stack[c])] /\ i - Len(stack[c]) \in 1..n
        BY <3>1, <3>3, <3>4, <2>6, <2>7, <2>8
      <3>6. s.row = q[i - Len(stack[c])].row
        BY <3>5, <2>5
      <3>. QED  BY <3>5, <3>6, <2>1, <2>4
    <2>. QED  BY <2>6, <2>7, <2>8, <2>9
  <1>3. stack' = [c \in Canonical |-> stack'[c]]
    BY DEF Attaches
  <1>4. stack' \in [Canonical -> Seq(StackEntries(Q))]
    BY <1>2, <1>3
  <1>. QED  BY <1>2, <1>4

(* No automatic source is new.                                             *)
NothingNew == \A c \in Canonical : NewSources(c) = {}

LEMMA SameStack ==
    ASSUME UNCHANGED stack
    PROVE  NothingNew
  BY DEF NothingNew, NewSources

LEMMA OneStack ==
    ASSUME NEW R, stack \in [Canonical -> Seq(StackEntries(R))], NEW c \in Canonical, NEW t,
           stack' = [stack EXCEPT ![c] = t],
           NEW Q, t \in Seq(StackEntries(Q)), \A x \in ToSet(t) : x.auto => x \in ToSet(stack[c])
    PROVE  NothingNew /\ \E P : stack' \in [Canonical -> Seq(StackEntries(P))]
  <1>1. PICK P : P = R \cup Q
    OBVIOUS
  <1>2. StackEntries(R) \subseteq StackEntries(P) /\ StackEntries(Q) \subseteq StackEntries(P)
    BY <1>1 DEF StackEntries
  <1>3. stack \in [Canonical -> Seq(StackEntries(P))] /\ t \in Seq(StackEntries(P))
    BY <1>2
  <1>4. stack' \in [Canonical -> Seq(StackEntries(P))]
    BY <1>3
  <1>5. ASSUME NEW d \in Canonical, NEW s \in NewSources(d)
        PROVE  FALSE
    <2>1. s \in ToSet(stack'[d]) /\ s \notin ToSet(stack[d]) /\ s.auto
      BY DEF NewSources
    <2>2. d = c /\ stack'[d] = t
      BY <2>1, <1>3
    <2>. QED  BY <2>1, <2>2
  <1>. QED  BY <1>4, <1>5 DEF NothingNew

(* Manual sources join without their rows' second copies.                  *)
LEMMA JoinedKeeps ==
    ASSUME NEW R, NEW kept \in Seq(StackEntries(R)), NEW others \in Seq(StackEntries(R))
    PROVE  /\ Joined(kept, others) \in Seq(StackEntries(R))
           /\ \A x \in ToSet(Joined(kept, others)) : x.auto => x \in ToSet(kept)
  <1>1. PICK S : S = {s \in ToSet(others) : \E i \in DOMAIN kept : kept[i].row = s.row}
    OBVIOUS
  <1>2. PICK fresh : fresh = Omitting(others, S)
    OBVIOUS
  <1>3. fresh \in Seq(StackEntries(R))
    BY <1>2, OmittingMembers
  <1>4. PICK t : t = [i \in 1..Len(fresh) |-> [row |-> fresh[i].row, auto |-> FALSE]]
    OBVIOUS
  <1>5. t \in Seq(StackEntries(R)) /\ Len(t) = Len(fresh)
    <2>1. \A i \in 1..Len(fresh) : fresh[i] \in StackEntries(R)
      BY <1>3
    <2>2. \A i \in 1..Len(fresh) : [row |-> fresh[i].row, auto |-> FALSE] \in StackEntries(R)
      BY <2>1 DEF StackEntries
    <2>3. t \in [1..Len(fresh) -> StackEntries(R)] /\ Len(fresh) \in Nat
      BY <1>3, <1>4, <2>2
    <2>. QED  BY <2>3
  <1>6. Joined(kept, others) = kept \o t
    BY <1>1, <1>2, <1>4 DEF Joined
  <1>7. ASSUME NEW x \in ToSet(kept \o t), x.auto
        PROVE  x \in ToSet(kept)
    <2>1. PICK i \in 1..Len(kept) + Len(t) : x = (kept \o t)[i]
      BY <1>5 DEF ToSet
    <2>2. CASE i \in 1..Len(kept)
      BY <2>1, <2>2, <1>5 DEF ToSet
    <2>3. CASE i \notin 1..Len(kept)
      <3>1. i - Len(kept) \in 1..Len(fresh) /\ x = t[i - Len(kept)]
        BY <2>1, <2>3, <1>5
      <3>2. x.auto = FALSE
        BY <3>1, <1>4
      <3>. QED  BY <3>2, <1>7
    <2>. QED  BY <2>2, <2>3
  <1>. QED  BY <1>5, <1>6, <1>7

(* The recursion of MovedUpTo has a solution.                              *)
MoveRound(g, keep, q, i) == IF i = 0 THEN stack[keep] ELSE Joined(g[i - 1], stack[q[i]])
MoveRecords(g, keep, q, m) == g = [i \in 0..m |-> MoveRound(g, keep, q, i)]

LEMMA MoveRecordGrows ==
    ASSUME NEW keep, NEW q, NEW m \in Nat, NEW g, MoveRecords(g, keep, q, m)
    PROVE  \E h : MoveRecords(h, keep, q, m + 1)
  <1>1. PICK h : h = [i \in 0..m + 1 |-> IF i <= m THEN g[i] ELSE MoveRound(g, keep, q, m + 1)]
    OBVIOUS
  <1>2. ASSUME NEW i \in 0..m + 1
        PROVE  h[i] = MoveRound(h, keep, q, i)
    <2>1. CASE i = 0
      BY <1>1, <2>1 DEF MoveRecords, MoveRound
    <2>2. CASE i \in 1..m
      <3>1. h[i] = g[i] /\ h[i - 1] = g[i - 1] /\ i # 0
        BY <1>1, <2>2
      <3>2. g[i] = MoveRound(g, keep, q, i)
        BY <2>2 DEF MoveRecords
      <3>. QED  BY <3>1, <3>2 DEF MoveRound
    <2>3. CASE i = m + 1
      <3>1. h[i] = MoveRound(g, keep, q, i) /\ h[i - 1] = g[i - 1] /\ i # 0
        BY <1>1, <2>3
      <3>. QED  BY <3>1 DEF MoveRound
    <2>. QED  BY <2>1, <2>2, <2>3
  <1>3. h = [i \in 0..m + 1 |-> h[i]]
    BY <1>1
  <1>4. h = [i \in 0..m + 1 |-> MoveRound(h, keep, q, i)]
    BY <1>2, <1>3, Zenon
  <1>. QED  BY <1>4 DEF MoveRecords

LEMMA MoveRounds ==
    ASSUME NEW keep, NEW dups, NEW n \in Nat, n = Cardinality(dups)
    PROVE  /\ MovedUpTo(keep, dups)[0] = stack[keep]
           /\ \A i \in 1..n : MovedUpTo(keep, dups)[i] = Joined(MovedUpTo(keep, dups)[i - 1], stack[SetToSeq(dups)[i]])
  <1>1. PICK q : q = SetToSeq(dups)
    OBVIOUS
  <1>2. PICK T : T = {m \in 0..n : \E g : MoveRecords(g, keep, q, m)}
    OBVIOUS
  <1>3. 0 \in T
    <2>1. [i \in 0..0 |-> stack[keep]] = [i \in 0..0 |-> MoveRound([j \in 0..0 |-> stack[keep]], keep, q, i)]
      BY DEF MoveRound
    <2>2. MoveRecords([i \in 0..0 |-> stack[keep]], keep, q, 0)
      BY <2>1 DEF MoveRecords
    <2>. QED  BY <2>2, <1>2
  <1>4. ASSUME NEW m \in 0..n, m \in T, m < n
        PROVE  m + 1 \in T
    <2>1. m + 1 \in 0..n /\ m \in Nat
      BY <1>4
    <2>. QED  BY <2>1, <1>2, <1>4, MoveRecordGrows
  <1>5. 0..n \subseteq T
    BY <1>3, <1>4, InductionTo
  <1>6. MoveRecords(CHOOSE g : MoveRecords(g, keep, q, n), keep, q, n)
    BY <1>2, <1>5
  <1>7. MovedUpTo(keep, dups) = CHOOSE g : MoveRecords(g, keep, q, n)
    BY <1>1, Zenon DEF MovedUpTo, MoveRecords, MoveRound
  <1>8. PICK g : g = MovedUpTo(keep, dups) /\ MoveRecords(g, keep, q, n)
    BY <1>6, <1>7
  <1>9. g = [i \in 0..n |-> MoveRound(g, keep, q, i)]
    BY <1>8 DEF MoveRecords
  <1>10. g[0] = stack[keep]
    BY <1>9 DEF MoveRound
  <1>11. \A i \in 1..n : g[i] = Joined(g[i - 1], stack[q[i]])
    BY <1>9 DEF MoveRound
  <1>. QED  BY <1>1, <1>8, <1>10, <1>11

(* A merge brings manual sources only.                                     *)
LEMMA MovedKeeps ==
    ASSUME NEW R, stack \in [Canonical -> Seq(StackEntries(R))],
           NEW keep \in Canonical, NEW dups, dups \subseteq Canonical
    PROVE  /\ Moved(keep, dups) \in Seq(StackEntries(R))
           /\ \A x \in ToSet(Moved(keep, dups)) : x.auto => x \in ToSet(stack[keep])
  <1>1. IsFiniteSet(dups) /\ Cardinality(dups) \in Nat
    BY FinitelyManyChannels, FS_Subset, FS_CardinalityType
  <1>2a. PICK n \in Nat : n = Cardinality(dups)
    BY <1>1
  <1>2. PICK q, g : n = Cardinality(dups) /\ q = SetToSeq(dups) /\ g = MovedUpTo(keep, dups)
    BY <1>2a
  <1>3. q \in [1..n -> dups]
    BY <1>1, <1>2, SeqOfSet
  <1>4. g[0] = stack[keep] /\ \A i \in 1..n : g[i] = Joined(g[i - 1], stack[q[i]])
    BY <1>2, MoveRounds
  <1>5. PICK T : T = {i \in 0..n : /\ g[i] \in Seq(StackEntries(R))
                                   /\ \A x \in ToSet(g[i]) : x.auto => x \in ToSet(stack[keep])}
    OBVIOUS
  <1>6. 0 \in T
    BY <1>4, <1>5
  <1>7. ASSUME NEW m \in 0..n, m \in T, m < n
        PROVE  m + 1 \in T
    <2>1. m + 1 \in 1..n /\ (m + 1) - 1 = m
      BY <1>7
    <2>2. g[m + 1] = Joined(g[m], stack[q[m + 1]]) /\ q[m + 1] \in Canonical
      BY <2>1, <1>3, <1>4
    <2>3. /\ Joined(g[m], stack[q[m + 1]]) \in Seq(StackEntries(R))
          /\ \A x \in ToSet(Joined(g[m], stack[q[m + 1]])) : x.auto => x \in ToSet(g[m])
      BY <2>2, <1>5, <1>7, JoinedKeeps
    <2>. QED  BY <2>1, <2>2, <2>3, <1>5, <1>7
  <1>8. 0..n \subseteq T
    BY <1>6, <1>7, InductionTo
  <1>9. n \in T
    BY <1>8
  <1>. QED  BY <1>2, <1>5, <1>9 DEF Moved

-----------------------------------------------------------------------------
(* What a step that attaches nothing automatically keeps and respects.     *)
Respected == \A c \in Canonical : \A s \in NewSources(c) :
                \A m \in removed : m.channel = c /\ m.list = PlaylistOf[s.row] =>
                    ~Matches(m.id, IdentityOf(s.row)) \/ Outdated(c, s.row)

LEMMA NothingIsRespected ==
    ASSUME NothingNew
    PROVE  Respected
  BY DEF NothingNew, Respected

(* Forgetting what an acceptance covers keeps the marks among the          *)
(* rejections.                                                             *)
LEMMA AcceptedStaysWithin ==
    ASSUME NEW c, NEW r, NEW M, NEW N, M \subseteq N
    PROVE  Accepted(c, r, M) \subseteq Accepted(c, r, N)
  BY DEF Accepted

LEMMA PeopleKeepInv ==
    ASSUME MatchingInv, PeopleDecide
    PROVE  MatchingInv' /\ Respected
  <1>1. PICK R : stack \in [Canonical -> Seq(StackEntries(R))]
    BY DEF MatchingInv
  <1>2. ASSUME UNCHANGED <<stack, matching>>, DOMAIN plrow' \subseteq PlRows, removed' \subseteq rejection'
        PROVE  MatchingInv' /\ Respected
    <2>1. NothingNew
      BY <1>2, SameStack
    <2>. QED  BY <1>2, <2>1, NothingIsRespected DEF MatchingInv
  <1>3. ASSUME NothingNew, \E P : stack' \in [Canonical -> Seq(StackEntries(P))],
               UNCHANGED matching, DOMAIN plrow' \subseteq PlRows, removed' \subseteq rejection'
        PROVE  MatchingInv' /\ Respected
    BY <1>3, NothingIsRespected DEF MatchingInv
  <1>4. DOMAIN plrow \subseteq PlRows /\ removed \subseteq rejection
    BY DEF MatchingInv
  <1>5. ASSUME NEW c \in Canonical, NEW name, NEW tvg, NEW asks \in BOOLEAN, EditChannel(c, name, tvg, asks)
        PROVE  MatchingInv' /\ Respected
    BY <1>2, <1>4, <1>5 DEF EditChannel
  <1>6. ASSUME NEW c \in Canonical, NEW r \in PlRows, NEW attached \in BOOLEAN, CreateChannel(c, r, attached)
        PROVE  MatchingInv' /\ Respected
    <2>1. PICK t : t = IF attached THEN <<[row |-> r, auto |-> FALSE]>> ELSE <<>>
      OBVIOUS
    <2>2. stack' = [stack EXCEPT ![c] = t]
      BY <1>6, <2>1 DEF CreateChannel
    <2>3. t \in Seq(StackEntries(PlRows)) /\ \A x \in ToSet(t) : x.auto => x \in ToSet(stack[c])
      <3>1. [row |-> r, auto |-> FALSE] \in StackEntries(PlRows)
        BY DEF StackEntries
      <3>2. CASE attached
        <4>1. t = <<[row |-> r, auto |-> FALSE]>>
          BY <2>1, <3>2
        <4>. QED  BY <3>1, <4>1 DEF ToSet
      <3>3. CASE ~attached
        BY <2>1, <3>3 DEF ToSet
      <3>. QED  BY <3>2, <3>3
    <2>4. NothingNew /\ \E P : stack' \in [Canonical -> Seq(StackEntries(P))]
      BY <1>1, <2>2, <2>3, OneStack
    <2>. QED  BY <1>3, <1>4, <1>6, <2>4 DEF CreateChannel
  <1>7. ASSUME NEW c \in Canonical, NEW r \in PlRows, AttachManualMatch(c, r)
        PROVE  MatchingInv' /\ Respected
    <2>1. PICK t : t = IF Has(c, r) THEN [i \in DOMAIN stack[c] |-> IF stack[c][i].row = r THEN [stack[c][i] EXCEPT !.auto = FALSE] ELSE stack[c][i]]
                       ELSE Append(stack[c], [row |-> r, auto |-> FALSE])
      OBVIOUS
    <2>2. stack' = [stack EXCEPT ![c] = t]
      BY <1>7, <2>1 DEF AttachManualMatch
    <2>3. PICK Q : Q = R \cup {r}
      OBVIOUS
    <2>4. /\ stack[c] \in Seq(StackEntries(Q)) /\ [row |-> r, auto |-> FALSE] \in StackEntries(Q)
          /\ \A i \in 1..Len(stack[c]) : [stack[c][i] EXCEPT !.auto = FALSE] \in StackEntries(Q)
                                         /\ [stack[c][i] EXCEPT !.auto = FALSE].auto = FALSE
      <3>1. StackEntries(R) \subseteq StackEntries(Q) /\ [row |-> r, auto |-> FALSE] \in StackEntries(Q)
        BY <2>3 DEF StackEntries
      <3>2. stack[c] \in Seq(StackEntries(Q))
        BY <1>1, <3>1
      <3>3. \A i \in 1..Len(stack[c]) : stack[c][i] \in StackEntries(Q)
        BY <3>2
      <3>4. \A x \in StackEntries(Q) : [x EXCEPT !.auto = FALSE] \in StackEntries(Q) /\ [x EXCEPT !.auto = FALSE].auto = FALSE
        BY DEF StackEntries
      <3>. QED  BY <3>1, <3>2, <3>3, <3>4
    <2>5. t \in Seq(StackEntries(Q)) /\ \A x \in ToSet(t) : x.auto => x \in ToSet(stack[c])
      <3>0. PICK s : s = stack[c]
        OBVIOUS
      <3>00. PICK n \in Nat : n = Len(s) /\ DOMAIN s = 1..n
        BY <2>4, <3>0
      <3>1. CASE Has(c, r)
        <4>1. t = [i \in 1..n |-> IF s[i].row = r THEN [s[i] EXCEPT !.auto = FALSE] ELSE s[i]]
          BY <2>1, <3>0, <3>00, <3>1
        <4>2. \A i \in 1..n : s[i] \in StackEntries(Q) /\ [s[i] EXCEPT !.auto = FALSE] \in StackEntries(Q)
          BY <2>4, <3>0, <3>00
        <4>3. t \in [1..n -> StackEntries(Q)]
          BY <4>1, <4>2
        <4>4. t \in Seq(StackEntries(Q)) /\ DOMAIN t = 1..n
          BY <4>3
        <4>5. \A i \in 1..n : t[i].auto => t[i] = s[i]
          BY <4>1, <2>4, <3>0, <3>00
        <4>. QED  BY <3>0, <3>00, <4>4, <4>5 DEF ToSet
      <3>2. CASE ~Has(c, r)
        <4>1. t = Append(s, [row |-> r, auto |-> FALSE]) /\ s \in Seq(StackEntries(Q))
          BY <2>1, <2>4, <3>0, <3>00, <3>2
        <4>2. t \in Seq(StackEntries(Q)) /\ DOMAIN t = 1..n + 1
          BY <4>1, <3>0, <3>00, <2>4
        <4>3. \A i \in 1..n + 1 : t[i] = IF i <= n THEN s[i] ELSE [row |-> r, auto |-> FALSE]
          BY <4>1, <3>0, <3>00, <2>4
        <4>4. \A i \in 1..n + 1 : t[i].auto => i \in 1..n /\ t[i] = s[i]
          BY <4>3
        <4>. QED  BY <3>0, <3>00, <4>2, <4>4 DEF ToSet
      <3>. QED  BY <3>1, <3>2
    <2>6. NothingNew /\ \E P : stack' \in [Canonical -> Seq(StackEntries(P))]
      BY <1>1, <2>2, <2>5, OneStack
    <2>. QED  BY <1>3, <1>4, <1>7, <2>6, AcceptedStaysWithin DEF AttachManualMatch
  <1>8. ASSUME NEW c \in Canonical, NEW r \in PlRows, AddChannelMatch(c, r)
        PROVE  MatchingInv' /\ Respected
    <2>1. PICK t, Q : t = Append(stack[c], [row |-> r, auto |-> FALSE]) /\ Q = R \cup {r}
      OBVIOUS
    <2>2. stack' = [stack EXCEPT ![c] = t]
      BY <1>8, <2>1 DEF AddChannelMatch
    <2>3. stack[c] \in Seq(StackEntries(Q)) /\ [row |-> r, auto |-> FALSE] \in StackEntries(Q)
      <3>1. StackEntries(R) \subseteq StackEntries(Q) /\ [row |-> r, auto |-> FALSE] \in StackEntries(Q)
        BY <2>1 DEF StackEntries
      <3>. QED  BY <1>1, <3>1
    <2>4. /\ t \in Seq(StackEntries(Q))
          /\ \A i \in 1..Len(t) : t[i] = IF i <= Len(stack[c]) THEN stack[c][i] ELSE [row |-> r, auto |-> FALSE]
      BY <2>1, <2>3
    <2>5. \A x \in ToSet(t) : x.auto => x \in ToSet(stack[c])
      BY <2>3, <2>4 DEF ToSet
    <2>6. NothingNew /\ \E P : stack' \in [Canonical -> Seq(StackEntries(P))]
      BY <1>1, <2>2, <2>4, <2>5, OneStack
    <2>7. removed' \subseteq rejection'
      BY <1>4, <1>8 DEF AddChannelMatch, Accepted
    <2>. QED  BY <1>3, <1>4, <1>8, <2>6, <2>7 DEF AddChannelMatch
  <1>9. ASSUME NEW c \in Canonical, NEW r \in PlRows, RemoveSource(c, r)
        PROVE  MatchingInv' /\ Respected
    <2>1. stack' = [stack EXCEPT ![c] = Without(stack[c], r)]
      BY <1>9 DEF RemoveSource
    <2>2. Without(stack[c], r) \in Seq(StackEntries(R)) /\ ToSet(Without(stack[c], r)) \subseteq ToSet(stack[c])
      BY <1>1, WithoutKeeps
    <2>3. NothingNew /\ \E P : stack' \in [Canonical -> Seq(StackEntries(P))]
      BY <1>1, <2>1, <2>2, OneStack
    <2>. QED  BY <1>3, <1>4, <1>9, <2>3 DEF RemoveSource
  <1>10. ASSUME NEW c \in Canonical, NEW r \in PlRows, NEW at \in 1..Cardinality(PlRows), MoveMatchVariant(c, r, at)
         PROVE  MatchingInv' /\ Respected
    <2>1. PICK moved : moved = CHOOSE s \in ToSet(stack[c]) : s.row = r
      OBVIOUS
    <2>2. moved \in ToSet(stack[c])
      BY <2>1, <1>10 DEF MoveMatchVariant, Has, ToSet
    <2>3. PICK left, t : left = Without(stack[c], r) /\ t = SubSeq(left, 1, at - 1) \o <<moved>> \o SubSeq(left, at, Len(left))
      OBVIOUS
    <2>4. stack' = [stack EXCEPT ![c] = t]
      BY <1>10, <2>1, <2>3 DEF MoveMatchVariant, InsertAt
    <2>5. left \in Seq(StackEntries(R)) /\ ToSet(left) \subseteq ToSet(stack[c])
      BY <1>1, <2>3, WithoutKeeps
    <2>6. PICK E : E = ToSet(stack[c])
      OBVIOUS
    <2>7. E \subseteq StackEntries(R)
      BY <1>1, <2>6 DEF ToSet
    <2>8. left \in Seq(E)
      BY <2>5, <2>6 DEF ToSet
    <2>9. at \in 1..Len(left) + 1
      BY <1>10, <2>3 DEF MoveMatchVariant
    <2>10. t \in Seq(E)
      <3>1. SubSeq(left, 1, at - 1) \in Seq(E)
        BY <2>8, <2>9
      <3>2. SubSeq(left, at, Len(left)) \in Seq(E)
        BY <2>8, <2>9
      <3>3. <<moved>> \in Seq(E)
        BY <2>2, <2>6
      <3>. QED  BY <2>3, <3>1, <3>2, <3>3
    <2>11. t \in Seq(StackEntries(R)) /\ \A x \in ToSet(t) : x \in ToSet(stack[c])
      BY <2>6, <2>7, <2>10 DEF ToSet
    <2>12. NothingNew /\ \E P : stack' \in [Canonical -> Seq(StackEntries(P))]
      BY <1>1, <2>4, <2>11, OneStack
    <2>. QED  BY <1>3, <1>4, <1>10, <2>12 DEF MoveMatchVariant
  <1>11. ASSUME NEW c \in Live, ManageChannel(c) \/ MergeReads(c)
         PROVE  MatchingInv' /\ Respected
    BY <1>2, <1>4, <1>11 DEF ManageChannel, MergeReads
  <1>12. ASSUME NEW j \in rejection, DeleteMatchRejection(j)
         PROVE  MatchingInv' /\ Respected
    BY <1>2, <1>4, <1>12 DEF DeleteMatchRejection
  <1>13. ASSUME NEW r \in PlRows, NEW name, NEW tvg, RefreshRow(r, name, tvg)
         PROVE  MatchingInv' /\ Respected
    <2>1. DOMAIN plrow' = DOMAIN plrow
      BY <1>13 DEF RefreshRow
    <2>. QED  BY <1>2, <1>4, <1>13, <2>1 DEF RefreshRow
  <1>14. ASSUME NEW r \in PlRows, DeleteRow(r)
         PROVE  MatchingInv' /\ Respected
    <2>1. stack' = [c \in Canonical |-> Without(stack[c], r)]
      BY <1>14 DEF DeleteRow
    <2>2. \A c \in Canonical : Without(stack[c], r) \in Seq(StackEntries(R)) /\ ToSet(Without(stack[c], r)) \subseteq ToSet(stack[c])
      BY <1>1, WithoutKeeps
    <2>3. stack' \in [Canonical -> Seq(StackEntries(R))] /\ NothingNew
      BY <2>1, <2>2 DEF NothingNew, NewSources
    <2>4. DOMAIN plrow' \subseteq PlRows
      BY <1>4, <1>14 DEF DeleteRow
    <2>. QED  BY <1>3, <1>4, <1>14, <2>3, <2>4 DEF DeleteRow
  <1>15. ASSUME NEW r \in PlRows, SetSourceChannelsEnabled(r)
         PROVE  MatchingInv' /\ Respected
    <2>1. DOMAIN plrow' = DOMAIN plrow
      BY <1>15 DEF SetSourceChannelsEnabled
    <2>. QED  BY <1>2, <1>4, <1>15, <2>1 DEF SetSourceChannelsEnabled
  <1>. QED
    BY <1>5, <1>6, <1>7, <1>8, <1>9, <1>10, <1>11, <1>12, <1>13, <1>14, <1>15 DEF PeopleDecide

LEMMA MergeKeepsInv ==
    ASSUME MatchingInv, MergeCommits
    PROVE  MatchingInv' /\ Respected
  <1>1. PICK R : stack \in [Canonical -> Seq(StackEntries(R))]
    BY DEF MatchingInv
  <1>2. PICK keep, dups : keep = merging.keep /\ dups = merging.dups \cap Live
    OBVIOUS
  <1>3. stack' = [c \in Canonical |-> IF c = keep THEN Moved(keep, dups) ELSE IF c \in dups THEN <<>> ELSE stack[c]]
    BY <1>2 DEF MergeCommits
  <1>4. dups \subseteq Canonical
    BY <1>2 DEF Live
  <1>5. ASSUME NEW c \in Canonical
        PROVE  stack'[c] \in Seq(StackEntries(R)) /\ \A x \in ToSet(stack'[c]) : x.auto => x \in ToSet(stack[c])
    <2>1. CASE c = keep
      BY <1>1, <1>3, <1>4, <2>1, MovedKeeps
    <2>2. CASE c # keep /\ c \in dups
      BY <1>3, <2>2 DEF ToSet
    <2>3. CASE c # keep /\ c \notin dups
      BY <1>1, <1>3, <2>3
    <2>. QED  BY <2>1, <2>2, <2>3
  <1>6. stack' \in [Canonical -> Seq(StackEntries(R))] /\ NothingNew
    BY <1>3, <1>5 DEF NothingNew, NewSources
  <1>7. removed' \subseteq rejection'
    BY <1>2 DEF MergeCommits, Inherits, MatchingInv
  <1>. QED  BY <1>6, <1>7, NothingIsRespected DEF MergeCommits, MatchingInv

(* What a function has for a finite domain is finite.                      *)
LEMMA AutomaticFinite ==
    ASSUME NEW q, NEW candidates
    PROVE  IsFiniteSet(Automatic(q, candidates))
  <1>1. IsFiniteSet({}) /\ \A x : IsFiniteSet({x})
    BY FS_EmptySet, FS_Singleton
  <1>. QED  BY <1>1, Zenon DEF Automatic

(* A request goes on or ends with nothing attached.                        *)
LEMMA ChoiceKeepsInv ==
    ASSUME MatchingInv, NEW m \in matching, NEW pairs, IsFiniteSet(pairs), Chooses(m, pairs),
           UNCHANGED <<stack, plrow, rejection, removed>>
    PROVE  MatchingInv' /\ Respected
  <1>1. ChosenFinite(m)
    BY DEF MatchingInv
  <1>2. ASSUME NEW n \in matching'
        PROVE  ChosenFinite(n)
    <2>1. n \in matching \/ n = [m EXCEPT !.pass = "name", !.attempts = 1] \/ n = [m EXCEPT !.chosen = pairs]
      BY DEF Chooses, Becomes, Ends
    <2>2. CASE n \in matching
      BY <2>2 DEF MatchingInv
    <2>3. CASE n = [m EXCEPT !.pass = "name", !.attempts = 1]
      BY <1>1, <2>3 DEF ChosenFinite
    <2>4. CASE n = [m EXCEPT !.chosen = pairs]
      BY <1>1, <2>4 DEF ChosenFinite
    <2>. QED  BY <2>1, <2>2, <2>3, <2>4
  <1>3. NothingNew
    BY SameStack
  <1>. QED  BY <1>2, <1>3, NothingIsRespected DEF MatchingInv

LEMMA TakeKeepsInv ==
    ASSUME MatchingInv, NEW q \in asked, Take(q)
    PROVE  MatchingInv' /\ Respected
  <1>1. NothingNew
    BY SameStack DEF Take
  <1>2. \A n \in matching' : n \in matching \/ n = [of |-> q, pass |-> "tvg", chosen |-> {}, attempts |-> 1]
    BY DEF Take
  <1>3. ChosenFinite([of |-> q, pass |-> "tvg", chosen |-> {}, attempts |-> 1])
    BY FS_EmptySet DEF ChosenFinite
  <1>4. \A n \in matching' : ChosenFinite(n)
    BY <1>2, <1>3 DEF MatchingInv
  <1>. QED  BY <1>1, <1>4, NothingIsRespected DEF Take, MatchingInv

LEMMA RowChoiceKeepsInv ==
    ASSUME MatchingInv, NEW m \in matching, RowChooses(m)
    PROVE  MatchingInv' /\ Respected
  <1>1. PICK withId : withId = IF m.of.copy.tvg = NoGuideId THEN {} ELSE {c \in Live : canon[c].tvg = m.of.copy.tvg}
    OBVIOUS
  <1>2. PICK byId : byId = IF Cardinality(withId) < 2 THEN withId ELSE Automatic(m.of.copy.name, ChannelsNamed(withId))
    OBVIOUS
  <1>3. PICK best : best = IF m.pass = "tvg" THEN byId ELSE Automatic(m.of.copy.name, ChannelsNamed(Live))
    OBVIOUS
  <1>4. IsFiniteSet(withId)
    <2>1. withId \subseteq Canonical
      BY <1>1 DEF Live
    <2>. QED  BY <2>1, FinitelyManyChannels, FS_Subset
  <1>5. IsFiniteSet(best)
    BY <1>2, <1>3, <1>4, AutomaticFinite
  <1>6. PICK f : f = [c \in best |-> [channel |-> c, row |-> m.of.id, seen |-> [tvg |-> m.of.copy.tvg, name |-> m.of.copy.name]]]
    OBVIOUS
  <1>7. PICK pairs : pairs = {f[c] : c \in best}
    OBVIOUS
  <1>8. IsFiniteSet(pairs)
    BY <1>5, <1>6, <1>7, FiniteRange
  <1>9. pairs = {[channel |-> c, row |-> m.of.id, seen |-> [tvg |-> m.of.copy.tvg, name |-> m.of.copy.name]] : c \in best}
    BY <1>6, <1>7
  <1>10. Chooses(m, pairs)
    BY <1>1, <1>2, <1>3, <1>9, Zenon DEF RowChooses
  <1>. QED  BY <1>8, <1>10, ChoiceKeepsInv DEF RowChooses

LEMMA ChannelChoiceKeepsInv ==
    ASSUME MatchingInv, NEW m \in matching, ChannelChooses(m)
    PROVE  MatchingInv' /\ Respected
  <1>. DEFINE rows == {r \in DOMAIN plrow : plrow[r].enabled /\ plrow[r].tvg = m.of.copy.tvg /\ m.of.copy.tvg # NoGuideId}
              ofList(p) == {r \in rows : PlaylistOf[r] = p}
              best(p) == IF Cardinality(ofList(p)) < 2 THEN ofList(p) ELSE Automatic(m.of.copy.name, RowsNamed(ofList(p)))
              kinds == {best(PlaylistOf[s]) : s \in rows}
              pairs == {[channel |-> m.of.id, row |-> r, seen |-> IdentityOf(r)] : r \in UNION kinds}
  <1>1. IsFiniteSet(rows)
    <2>1. rows \subseteq PlRows
      BY DEF MatchingInv
    <2>. QED  BY <2>1, FinitelyManyChannels, FS_Subset
  <1>2. \A T \in kinds : IsFiniteSet(T)
    <2>1. \A p : IsFiniteSet(ofList(p))
      BY <1>1, FS_Subset
    <2>2. \A p : IsFiniteSet(best(p))
      BY <2>1, AutomaticFinite
    <2>. QED  BY <2>2
  <1>3. IsFiniteSet(kinds)
    <2>1. PICK D, f : D = rows /\ f = [s \in D |-> best(PlaylistOf[s])]
      OBVIOUS
    <2>. HIDE DEF rows, best
    <2>2. IsFiniteSet(D) /\ DOMAIN f = D
      BY <1>1, <2>1
    <2>3. IsFiniteSet({f[s] : s \in D})
      BY <2>2, FiniteRange
    <2>4. {f[s] : s \in D} = kinds
      BY <2>1
    <2>. QED  BY <2>3, <2>4
  <1>4. IsFiniteSet(UNION kinds)
    BY <1>2, <1>3, FS_UNION
  <1>5. IsFiniteSet(pairs)
    <2>1. PICK D, f : D = UNION kinds /\ f = [r \in D |-> [channel |-> m.of.id, row |-> r, seen |-> IdentityOf(r)]]
      OBVIOUS
    <2>. HIDE DEF kinds
    <2>2. IsFiniteSet(D) /\ DOMAIN f = D
      BY <1>4, <2>1
    <2>3. IsFiniteSet({f[r] : r \in D})
      BY <2>2, FiniteRange
    <2>4. {f[r] : r \in D} = pairs
      BY <2>1
    <2>. QED  BY <2>3, <2>4
  <1>6. Chooses(m, pairs)
    BY Zenon DEF ChannelChooses
  <1>. HIDE DEF pairs
  <1>. QED  BY <1>5, <1>6, ChoiceKeepsInv DEF ChannelChooses

(* The pool's transaction looks at the rejections of that moment: what it  *)
(* attaches against them is a row that has changed since it was chosen.    *)
LEMMA CommitKeepsInv ==
    ASSUME MatchingInv, NEW m \in matching, Commit(m)
    PROVE  MatchingInv' /\ Respected
  <1>1. PICK R : stack \in [Canonical -> Seq(StackEntries(R))]
    BY DEF MatchingInv
  <1>2. PICK wanted : wanted = {p \in m.chosen : ~Rejected(p.channel, PlaylistOf[p.row], p.seen) /\ ~HasSource(p.channel, p.row)}
    OBVIOUS
  <1>3. ChosenFinite(m) /\ removed \subseteq rejection
    BY DEF MatchingInv
  <1>4. IsFiniteSet(wanted)
    BY <1>2, <1>3, FS_Subset DEF ChosenFinite
  <1>5. m.chosen # {} /\ UNCHANGED <<plrow, rejection, removed>>
    BY DEF Commit
  <1>6. \/ Attaches(wanted) /\ (Becomes(m, [m EXCEPT !.pass = "name", !.chosen = {}]) \/ Ends(m))
        \/ UNCHANGED stack /\ (Becomes(m, [m EXCEPT !.chosen = {}, !.attempts = @ + 1]) \/ Ends(m))
    BY <1>2 DEF Commit
  <1>7. \A n \in matching' : ChosenFinite(n)
    <2>1. \A n \in matching' : \/ n \in matching \/ n = [m EXCEPT !.pass = "name", !.chosen = {}]
                               \/ n = [m EXCEPT !.chosen = {}, !.attempts = @ + 1]
      BY <1>6 DEF Becomes, Ends
    <2>2. ASSUME NEW n, n = [m EXCEPT !.pass = "name", !.chosen = {}] \/ n = [m EXCEPT !.chosen = {}, !.attempts = @ + 1]
          PROVE  n = [of |-> n.of, pass |-> n.pass, chosen |-> n.chosen, attempts |-> n.attempts] /\ n.chosen = {}
      BY <1>3, <2>2 DEF ChosenFinite
    <2>3. \A n \in matching' : n \in matching \/ ChosenFinite(n)
      BY <2>1, <2>2, FS_EmptySet DEF ChosenFinite
    <2>. QED  BY <2>3 DEF MatchingInv
  <1>8. CASE UNCHANGED stack
    <2>1. NothingNew
      BY <1>8, SameStack
    <2>. QED  BY <1>5, <1>7, <1>8, <2>1, NothingIsRespected DEF MatchingInv
  <1>9. CASE Attaches(wanted) /\ (Becomes(m, [m EXCEPT !.pass = "name", !.chosen = {}]) \/ Ends(m))
    <2>1. /\ \E Q : stack' \in [Canonical -> Seq(StackEntries(Q))]
          /\ \A c \in Canonical : \A s \in NewSources(c) : \E p \in wanted : p.channel = c /\ p.row = s.row
      BY <1>1, <1>4, <1>9, AttachedAreWanted
    <2>2. m \notin matching'
      <3>1. [m EXCEPT !.pass = "name", !.chosen = {}].chosen = {}
        BY <1>3 DEF ChosenFinite
      <3>2. [m EXCEPT !.pass = "name", !.chosen = {}] # m
        BY <3>1, <1>5
      <3>. QED  BY <1>9, <3>2 DEF Becomes, Ends
    <2>3. ASSUME NEW c \in Canonical, NEW s \in NewSources(c), NEW k \in removed,
                 k.channel = c, k.list = PlaylistOf[s.row], Matches(k.id, IdentityOf(s.row))
          PROVE  Outdated(c, s.row)
      <3>1. PICK p \in wanted : p.channel = c /\ p.row = s.row
        BY <2>1
      <3>2. p \in m.chosen /\ ~Rejected(c, PlaylistOf[s.row], p.seen)
        BY <1>2, <3>1
      <3>3. ~Matches(k.id, p.seen)
        BY <1>3, <2>3, <3>2 DEF Rejected
      <3>4. p.seen # IdentityOf(s.row)
        BY <2>3, <3>3
      <3>. QED  BY <2>2, <3>1, <3>2, <3>4 DEF Outdated
    <2>4. Respected
      BY <2>3 DEF Respected
    <2>. QED  BY <1>5, <1>7, <2>1, <2>4 DEF MatchingInv
  <1>. QED  BY <1>6, <1>8, <1>9

LEMMA ChannelNamesKeepsInv ==
    ASSUME MatchingInv, NEW m \in matching, ChannelNames(m)
    PROVE  MatchingInv' /\ Respected
  <1>. DEFINE rows(p) == {r \in DOMAIN plrow : plrow[r].enabled /\ PlaylistOf[r] = p}
              kinds == {Automatic(m.of.copy.name, RowsNamed(rows(PlaylistOf[r]))) : r \in DOMAIN plrow}
              wanted == {r \in UNION kinds : ~HasSource(m.of.id, r) /\ ~Rejected(m.of.id, PlaylistOf[r], IdentityOf(r))}
              pairs == {[channel |-> m.of.id, row |-> r] : r \in wanted}
  <1>1. PICK R : stack \in [Canonical -> Seq(StackEntries(R))]
    BY DEF MatchingInv
  <1>2. IsFiniteSet(wanted)
    <2>1. IsFiniteSet(DOMAIN plrow)
      BY FinitelyManyChannels, FS_Subset DEF MatchingInv
    <2>. HIDE DEF rows
    <2>2. PICK D, f : D = DOMAIN plrow /\ f = [r \in D |-> Automatic(m.of.copy.name, RowsNamed(rows(PlaylistOf[r])))]
      OBVIOUS
    <2>7. IsFiniteSet(D) /\ DOMAIN f = D
      BY <2>1, <2>2
    <2>3. IsFiniteSet({f[r] : r \in D})
      BY <2>7, FiniteRange
    <2>4. {f[r] : r \in D} = kinds
      BY <2>2
    <2>5. \A T \in kinds : IsFiniteSet(T)
      BY AutomaticFinite
    <2>6. IsFiniteSet(UNION kinds)
      BY <2>3, <2>4, <2>5, FS_UNION
    <2>. QED  BY <2>6, FS_Subset
  <1>3. IsFiniteSet(pairs)
    <2>1. PICK D, f : D = wanted /\ f = [r \in D |-> [channel |-> m.of.id, row |-> r]]
      OBVIOUS
    <2>. HIDE DEF wanted
    <2>2. IsFiniteSet(D) /\ DOMAIN f = D
      BY <1>2, <2>1
    <2>3. IsFiniteSet({f[r] : r \in D})
      BY <2>2, FiniteRange
    <2>4. {f[r] : r \in D} = pairs
      BY <2>1
    <2>. QED  BY <2>3, <2>4
  <1>4. Attaches(pairs) \/ UNCHANGED stack
    BY Zenon DEF ChannelNames
  <1>5. UNCHANGED <<plrow, rejection, removed>> /\ matching' \subseteq matching
    BY DEF ChannelNames, Ends
  <1>6. removed \subseteq rejection
    BY DEF MatchingInv
  <1>7. \A p \in pairs : ~Rejected(p.channel, PlaylistOf[p.row], IdentityOf(p.row))
    OBVIOUS
  <1>. HIDE DEF pairs
  <1>8. CASE UNCHANGED stack
    <2>1. NothingNew
      BY <1>8, SameStack
    <2>. QED  BY <1>5, <1>8, <2>1, NothingIsRespected DEF MatchingInv
  <1>9. CASE Attaches(pairs)
    <2>1. /\ \E Q : stack' \in [Canonical -> Seq(StackEntries(Q))]
          /\ \A c \in Canonical : \A s \in NewSources(c) : \E p \in pairs : p.channel = c /\ p.row = s.row
      BY <1>1, <1>3, <1>9, AttachedAreWanted
    <2>2. \A c \in Canonical : \A s \in NewSources(c) : ~Rejected(c, PlaylistOf[s.row], IdentityOf(s.row))
      BY <1>7, <2>1
    <2>3. Respected
      BY <1>6, <2>2 DEF Respected, Rejected
    <2>. QED  BY <1>5, <2>1, <2>3 DEF MatchingInv
  <1>. QED  BY <1>4, <1>8, <1>9

LEMMA MatchingStepInv ==
    ASSUME MatchingInv, [MatchingNext]_mvars
    PROVE  MatchingInv' /\ Respected
  <1>1. CASE PeopleDecide
    BY <1>1, PeopleKeepInv
  <1>2. ASSUME NEW a \in accepting, ClearChannelMatchRejection(a)
        PROVE  MatchingInv' /\ Respected
    <2>1. NothingNew
      BY <1>2, SameStack DEF ClearChannelMatchRejection
    <2>2. removed' \subseteq rejection'
      BY <1>2, AcceptedStaysWithin DEF ClearChannelMatchRejection, MatchingInv
    <2>. QED  BY <1>2, <2>1, <2>2, NothingIsRespected DEF ClearChannelMatchRejection, MatchingInv
  <1>3. CASE MergeCommits
    BY <1>3, MergeKeepsInv
  <1>4. ASSUME NEW q \in asked, Take(q)
        PROVE  MatchingInv' /\ Respected
    BY <1>4, TakeKeepsInv
  <1>5. ASSUME NEW m \in matching, MatchStep(m)
        PROVE  MatchingInv' /\ Respected
    BY <1>5, RowChoiceKeepsInv, ChannelChoiceKeepsInv, CommitKeepsInv, ChannelNamesKeepsInv DEF MatchStep
  <1>6. CASE UNCHANGED mvars
    <2>1. NothingNew
      BY <1>6, SameStack DEF mvars
    <2>. QED  BY <1>6, <2>1, NothingIsRespected DEF mvars, MatchingInv
  <1>. QED  BY <1>1, <1>2, <1>3, <1>4, <1>5, <1>6 DEF MatchingNext

LEMMA MatchingStarts == MatchingInit => MatchingInv
  <1>. SUFFICES ASSUME MatchingInit
                PROVE  MatchingInv
    OBVIOUS
  <1>1. stack \in [Canonical -> Seq(StackEntries({}))]
    BY DEF MatchingInit
  <1>2. DOMAIN plrow \subseteq PlRows
    BY DEF MatchingInit
  <1>. QED  BY <1>1, <1>2 DEF MatchingInit, MatchingInv

(* Marks stay among the rejections and choices finite                      *)
(* (template_query.go:618, duplicate_tvg_query.go:324).                    *)
THEOREM MatchingSafety == MatchingSpec => []MatchingInv
  <1>1. MatchingInit => MatchingInv
    BY MatchingStarts
  <1>2. MatchingInv /\ [MatchingNext]_mvars => MatchingInv'
    BY MatchingStepInv
  <1>. QED  BY <1>1, <1>2, PTL DEF MatchingSpec

(* A source people removed from a channel is not matched to it again until *)
(* they accept it, but for a row that changed since the matcher read it    *)
(* (matching_tools.go:163, template_query.go:594).                         *)
THEOREM RemovedSourcesStayOut == MatchingSpec => RemovedStaysOut
  <1>1. MatchingInv /\ [MatchingNext]_mvars => [Respected]_mvars
    BY MatchingStepInv
  <1>2. [][Respected]_mvars => RemovedStaysOut
    BY PTL DEF Respected, RemovedStaysOut
  <1>. QED  BY <1>1, <1>2, MatchingSafety, PTL DEF MatchingSpec

-----------------------------------------------------------------------------
(***************************************************************************)
(* A group that follows a disabled source group shows that it is paused,   *)
(* for any number of groups, rows and synchronisations at once.            *)
(*                                                                         *)
(* PauseInv adds what a synchronisation between its statements may still   *)
(* write: its verdict is "paused", or its source is not disabled, or its   *)
(* group is among those it overlapped (lagging).                           *)
(***************************************************************************)

Statuses == {"none", "pending", "active", "paused", "disconnected", "error"}
Standings == {"absent", "enabled", "disabled"}
Links == [source : Sources \cup {Nothing}, name : Sources \cup {Nothing}, status : Statuses]
Running == [pc : {"idle", "commit", "mark"}, group : StudioGroups \cup {Nothing}, source : Sources \cup {Nothing}, status : Statuses]

FollowsDisabled(g) == link[g].source # Nothing /\ source[link[g].source] = "disabled"

PauseInv ==
    /\ source \in [Sources -> Standings]
    /\ link \in [StudioGroups -> Links]
    /\ sync \in [Syncs -> Running]
    /\ \A g \in StudioGroups : Linked(g) => link[g].name \in Sources
    /\ \A j \in Syncs : sync[j] # NoSync =>
          /\ sync[j].group \in StudioGroups
          /\ sync[j].status # "paused" /\ FollowsDisabled(sync[j].group) => sync[j].group \in lagging
    /\ \A j \in Syncs : sync[j].pc = "commit" =>
          /\ sync[j].source \in Sources /\ sync[j].status # "paused"
          /\ source[sync[j].source] = "disabled" => sync[j].group \in lagging
    /\ PausedUnlessOverlapped

(* What neither links, source groups nor synchronisations see.             *)
LEMMA UnseenByLinks ==
    ASSUME PauseInv, UNCHANGED <<source, link, sync, lagging>>
    PROVE  PauseInv'
  BY DEF PauseInv, PausedUnlessOverlapped, FollowsDisabled, Linked

LEMMA RefreshKeepsPauseInv ==
    ASSUME PauseInv,
           \/ \E s \in Sources, t \in Tvgs \cup {Nothing} : RowAppears(s, t)
           \/ \E r \in DOMAIN row, t \in Tvgs : RowChanges(r, t)
           \/ \E r \in DOMAIN row : RowDeleted(r)
           \/ PlaylistDeleted
    PROVE  PauseInv'
  <1>1. ASSUME NEW s \in Sources, NEW t \in Tvgs \cup {Nothing}, RowAppears(s, t)
        PROVE  PauseInv'
    BY <1>1 DEF RowAppears, RowsBecome, PauseInv, PausedUnlessOverlapped, FollowsDisabled, Linked, Standings, Links, Running, Statuses
  <1>2. ASSUME NEW r \in DOMAIN row, NEW t \in Tvgs, RowChanges(r, t)
        PROVE  PauseInv'
    BY <1>2, UnseenByLinks DEF RowChanges, RowsBecome
  <1>3. ASSUME NEW r \in DOMAIN row, RowDeleted(r)
        PROVE  PauseInv'
    <2>1. PICK gone : /\ source' = [s \in Sources |-> IF s \in gone THEN "absent" ELSE source[s]]
                      /\ link' = [g \in StudioGroups |-> IF link[g].source \in gone THEN [link[g] EXCEPT !.source = Nothing] ELSE link[g]]
                      /\ sync' = sync /\ lagging' = lagging
      BY <1>3 DEF RowDeleted, RowsBecome
    <2>2. \A g \in StudioGroups : (Linked(g)' => Linked(g)) /\ link'[g].name = link[g].name /\ link'[g].status = link[g].status
      BY <2>1 DEF PauseInv, Linked, Links, NoLink, Statuses
    <2>3. \A g \in StudioGroups : FollowsDisabled(g)' => FollowsDisabled(g)
      BY <2>1 DEF PauseInv, FollowsDisabled, Links, Statuses
    <2>4. source' \in [Sources -> Standings] /\ link' \in [StudioGroups -> Links]
      BY <2>1 DEF PauseInv, Links, Standings, Statuses
    <2>5. \A s \in Sources : source'[s] = "disabled" => source[s] = "disabled"
      BY <2>1
    <2>. QED  BY <2>1, <2>2, <2>3, <2>4, <2>5 DEF PauseInv, PausedUnlessOverlapped, FollowsDisabled
  <1>4. CASE PlaylistDeleted
    BY <1>4 DEF PlaylistDeleted, RowsBecome, PauseInv, PausedUnlessOverlapped, FollowsDisabled, Linked, Standings, Links, Running, NoLink, Statuses
  <1>. QED  BY <1>1, <1>2, <1>3, <1>4

LEMMA SwitchKeepsPauseInv ==
    ASSUME PauseInv, NEW s \in Sources, NEW on \in BOOLEAN, SetSourceGroupEnabled(s, on)
    PROVE  PauseInv'
  <1>1. sync' = sync
    BY DEF SetSourceGroupEnabled
  <1>2. \A g \in StudioGroups : link'[g].source = link[g].source /\ link'[g].name = link[g].name /\ (Linked(g)' => Linked(g))
    BY LibraryConstants DEF Paused,  SetSourceGroupEnabled, PauseInv, Links, Linked, NoLink, Statuses
  <1>3. source' \in [Sources -> Standings] /\ link' \in [StudioGroups -> Links]
    BY DEF SetSourceGroupEnabled, PauseInv, Links, Standings, Statuses
  <1>4. CASE on
    <2>1. lagging' = lagging /\ \A t \in Sources : source'[t] = "disabled" => source[t] = "disabled"
      BY <1>4 DEF SetSourceGroupEnabled, PauseInv
    <2>2. \A g \in StudioGroups : FollowsDisabled(g)' => FollowsDisabled(g) /\ link'[g].status = link[g].status
      BY <1>4 DEF SetSourceGroupEnabled, PauseInv, FollowsDisabled, Links, Statuses
    <2>. QED  BY <1>1, <1>2, <1>3, <2>1, <2>2 DEF PauseInv, PausedUnlessOverlapped, FollowsDisabled
  <1>5. CASE ~on
    <2>1. lagging \subseteq lagging' /\ \A j \in Syncs : sync[j] # NoSync => sync[j].group \in lagging'
      BY <1>5 DEF SetSourceGroupEnabled
    <2>2. \A j \in Syncs : sync[j].pc = "commit" => sync[j] # NoSync
      BY DEF NoSync
    <2>3. \A g \in StudioGroups : FollowsDisabled(g)' => link'[g].status = "paused" \/ (FollowsDisabled(g) /\ link'[g] = link[g])
      BY <1>5 DEF SetSourceGroupEnabled, PauseInv, FollowsDisabled, Links, Paused, Statuses
    <2>. QED  BY <1>1, <1>2, <1>3, <2>1, <2>2, <2>3 DEF PauseInv, PausedUnlessOverlapped, FollowsDisabled
  <1>. QED  BY <1>4, <1>5

(* A link is made to an on group or taken away.                       *)
LEMMA LinkKeepsPauseInv ==
    ASSUME PauseInv, UNCHANGED <<source, sync, lagging>>, NEW g \in StudioGroups, NEW l,
           link' = [link EXCEPT ![g] = l], l = NoLink \/ \E s \in Sources : source[s] = "enabled" /\ l = LinkTo(s)
    PROVE  PauseInv'
  <1>1. l \in Links /\ (l # NoLink => l.name \in Sources)
    BY DEF Links, NoLink, LinkTo, Statuses
  <1>2. link' \in [StudioGroups -> Links] /\ \A h \in StudioGroups : Linked(h)' => link'[h].name \in Sources
    BY <1>1 DEF PauseInv, Linked
  <1>3. \A h \in StudioGroups : FollowsDisabled(h)' => h # g
    BY DEF PauseInv, FollowsDisabled, NoLink, LinkTo
  <1>4. \A h \in StudioGroups : h # g => link'[h] = link[h]
    BY DEF PauseInv
  <1>. QED  BY <1>2, <1>3, <1>4 DEF PauseInv, PausedUnlessOverlapped, FollowsDisabled

LEMMA StudioKeepsPauseInv ==
    ASSUME PauseInv, NEW g \in StudioGroups,
           \/ \E s \in Sources \cup {Nothing} : CreateStudioGroup(g, s)
           \/ \E s \in Sources : SetSourceGroupLink(g, s)
           \/ DeleteStudioGroup(g)
           \/ \E at : MoveWorkspaceGroup(g, at)
           \/ \E retain \in BOOLEAN : DisconnectSourceGroup(g, retain)
           \/ \E s \in Sources : CopySourceGroupToLineup(g, s) \/ AddSourceGroupToStudioGroup(g, s)
    PROVE  PauseInv'
  <1>1. ASSUME NEW s \in Sources \cup {Nothing}, CreateStudioGroup(g, s)
        PROVE  PauseInv'
    BY <1>1, LinkKeepsPauseInv DEF CreateStudioGroup
  <1>2. ASSUME NEW s \in Sources, SetSourceGroupLink(g, s)
        PROVE  PauseInv'
    BY <1>2, LinkKeepsPauseInv DEF SetSourceGroupLink
  <1>3. CASE DeleteStudioGroup(g)
    BY <1>3, LinkKeepsPauseInv DEF DeleteStudioGroup
  <1>4. ASSUME NEW at, MoveWorkspaceGroup(g, at)
        PROVE  PauseInv'
    BY <1>4, UnseenByLinks DEF MoveWorkspaceGroup
  <1>5. ASSUME NEW retain \in BOOLEAN, DisconnectSourceGroup(g, retain)
        PROVE  PauseInv'
    BY <1>5, LinkKeepsPauseInv DEF DisconnectSourceGroup
  <1>6. ASSUME NEW s \in Sources, CopySourceGroupToLineup(g, s) \/ AddSourceGroupToStudioGroup(g, s)
        PROVE  PauseInv'
    BY <1>6, UnseenByLinks DEF CopySourceGroupToLineup, AddSourceGroupToStudioGroup, Imports
  <1>. QED  BY <1>1, <1>2, <1>3, <1>4, <1>5, <1>6

LEMMA EditKeepsPauseInv ==
    ASSUME PauseInv,
           \/ \E op, g, h, ids : BeginEdit(op, g, h, ids)
           \/ BatchAdd \/ BatchRemove \/ EditFails
           \/ \E at : BatchMove(at)
    PROVE  PauseInv'
  BY UnseenByLinks DEF BeginEdit, BatchAdd, BatchRemove, EditFails, BatchMove, Imports

\* What a synchronisation of g takes from its read.
Resolves(turn, g) ==
    /\ turn \in Running /\ turn.group = g
    /\ \/ turn.status = "paused" /\ turn.pc = "mark"
       \/ source[Named(link[g])] # "disabled" /\ turn.status # "paused" /\ turn.pc \in {"commit", "mark"}
    /\ turn.pc = "commit" => turn.source \in Sources /\ source[turn.source] # "disabled"

LEMMA ReadKeepsPauseInv ==
    ASSUME PauseInv, NEW j \in Syncs, NEW g \in StudioGroups, SyncReads(j, g)
    PROVE  PauseInv'
  <1>. DEFINE s == Named(link[g])
  <1>1. s \in Sources /\ (link[g].source # Nothing => s = link[g].source)
    BY DEF SyncReads, PauseInv, Named, Links, Statuses
  <1>2. PICK turn : sync' = [sync EXCEPT ![j] = turn] /\ Resolves(turn, g)
    <2>1. CASE source[s] = "enabled" /\ sync' = [sync EXCEPT ![j] = [pc |-> "commit", group |-> g, source |-> s, status |-> "active"]]
      <3>1. Resolves([pc |-> "commit", group |-> g, source |-> s, status |-> "active"], g)
        BY <1>1, <2>1 DEF Resolves, Running, Statuses
      <3>. QED  BY <2>1, <3>1
    <2>2. CASE source[s] = "disabled" /\ sync' = [sync EXCEPT ![j] = [pc |-> "mark", group |-> g, source |-> Nothing, status |-> "paused"]]
      <3>1. Resolves([pc |-> "mark", group |-> g, source |-> Nothing, status |-> "paused"], g)
        BY DEF Resolves, Running, Statuses
      <3>. QED  BY <2>2, <3>1
    <2>3. ASSUME NEW t \in Sources, source[s] = "absent", source[t] = "enabled",
                 sync' = [sync EXCEPT ![j] = [pc |-> "commit", group |-> g, source |-> t, status |-> "active"]]
          PROVE  \E turn : sync' = [sync EXCEPT ![j] = turn] /\ Resolves(turn, g)
      <3>1. Resolves([pc |-> "commit", group |-> g, source |-> t, status |-> "active"], g)
        BY <2>3 DEF Resolves, Running, Statuses
      <3>. QED  BY <2>3, <3>1
    <2>4. CASE source[s] = "absent" /\ sync' = [sync EXCEPT ![j] = [pc |-> "mark", group |-> g, source |-> Nothing, status |-> "disconnected"]]
      <3>1. Resolves([pc |-> "mark", group |-> g, source |-> Nothing, status |-> "disconnected"], g)
        BY <2>4 DEF Resolves, Running, Statuses
      <3>. QED  BY <2>4, <3>1
    <2>5. \/ source[s] = "enabled" /\ sync' = [sync EXCEPT ![j] = [pc |-> "commit", group |-> g, source |-> s, status |-> "active"]]
          \/ source[s] = "disabled" /\ sync' = [sync EXCEPT ![j] = [pc |-> "mark", group |-> g, source |-> Nothing, status |-> "paused"]]
          \/ \E t \in Sources : source[s] = "absent" /\ source[t] = "enabled" /\ sync' = [sync EXCEPT ![j] = [pc |-> "commit", group |-> g, source |-> t, status |-> "active"]]
          \/ source[s] = "absent" /\ sync' = [sync EXCEPT ![j] = [pc |-> "mark", group |-> g, source |-> Nothing, status |-> "disconnected"]]
      BY DEF SyncReads, Replaces
    <2>. QED  BY <2>1, <2>2, <2>3, <2>4, <2>5
  <1>3. UNCHANGED <<source, link, lagging>>
    BY DEF SyncReads
  <1>4. turn.status # "paused" => ~FollowsDisabled(g)
    BY <1>1, <1>2 DEF FollowsDisabled, Resolves
  <1>5. \A k \in Syncs : k # j => sync'[k] = sync[k]
    BY <1>2 DEF PauseInv
  <1>6. sync'[j] = turn /\ sync' \in [Syncs -> Running]
    BY <1>2 DEF PauseInv, Resolves
  <1>7. \A h : (FollowsDisabled(h)' <=> FollowsDisabled(h)) /\ (Linked(h)' <=> Linked(h))
    BY <1>3 DEF FollowsDisabled, Linked
  <1>. QED  BY <1>2, <1>3, <1>4, <1>5, <1>6, <1>7 DEF PauseInv, PausedUnlessOverlapped, FollowsDisabled, Resolves

LEMMA MarkKeepsPauseInv ==
    ASSUME PauseInv, NEW j \in Syncs, SyncMarks(j)
    PROVE  PauseInv'
  <1>. DEFINE g == sync[j].group
  <1>1. sync[j] # NoSync /\ g \in StudioGroups
    BY DEF SyncMarks, PauseInv, NoSync
  <1>2. source' = source /\ sync' \in [Syncs -> Running] /\ sync'[j] = NoSync /\ \A k \in Syncs : k # j => sync'[k] = sync[k]
    BY DEF SyncMarks, PauseInv, Running, NoSync, Statuses
  <1>3. /\ link' \in [StudioGroups -> Links]
        /\ \A h \in StudioGroups : link'[h].source = link[h].source /\ link'[h].name = link[h].name /\ (Linked(h)' => Linked(h))
        /\ \A h \in StudioGroups : h # g => link'[h] = link[h]
        /\ Linked(g) => link'[g].status = sync[j].status
        /\ ~Linked(g) => link'[g] = link[g]
    BY <1>1 DEF SyncMarks, PauseInv, Linked, Links, Running, NoLink, Statuses
  <1>4. \A h \in StudioGroups : FollowsDisabled(h)' <=> FollowsDisabled(h)
    BY <1>2, <1>3 DEF FollowsDisabled
  <1>5. \A h : h \in lagging => h \in lagging' \/ (h = g /\ sync[j].status = "paused" /\ \A k \in Syncs : k # j => sync[k].group # g)
    BY DEF SyncMarks
  <1>6. \A k \in Syncs : sync'[k] # NoSync => k # j
    BY <1>2
  <1>7. \A k \in Syncs : sync'[k].pc = "commit" => k # j
    BY <1>2 DEF NoSync
  <1>8. \A k \in Syncs : k # j /\ sync[k].group \in lagging => sync'[k].group \in lagging'
    BY <1>2, <1>5
  <1>9. PausedUnlessOverlapped'
    <2>. SUFFICES ASSUME NEW h \in StudioGroups, FollowsDisabled(h)
                  PROVE  link'[h].status = "paused" \/ h \in lagging'
      BY <1>4 DEF PausedUnlessOverlapped, FollowsDisabled
    <2>1. CASE h # g
      BY <1>3, <1>5, <2>1 DEF PauseInv, PausedUnlessOverlapped, FollowsDisabled
    <2>2. CASE h = g
      <3>1. Linked(g)
        BY <2>2 DEF FollowsDisabled, Linked, NoLink
      <3>2. sync[j].status # "paused" => g \in lagging
        BY <1>1, <2>2 DEF PauseInv
      <3>. QED  BY <1>3, <1>5, <2>2, <3>1, <3>2
    <2>. QED  BY <2>1, <2>2
  <1>. QED  BY <1>2, <1>3, <1>4, <1>6, <1>7, <1>8, <1>9 DEF PauseInv

LEMMA CommitKeepsPauseInv ==
    ASSUME PauseInv, NEW j \in Syncs, SyncCommits(j)
    PROVE  PauseInv'
  <1>. DEFINE g == sync[j].group
              s == sync[j].source
  <1>1. sync[j].pc = "commit" /\ Linked(g) /\ UNCHANGED <<source, lagging>>
        /\ link' = [link EXCEPT ![g] = [source |-> s, name |-> s, status |-> "active"]] /\ sync' = [sync EXCEPT ![j] = NoSync]
    BY DEF SyncCommits
  <1>2. g \in StudioGroups /\ s \in Sources /\ (source[s] = "disabled" => g \in lagging)
    BY <1>1 DEF PauseInv, NoSync
  <1>3. link' \in [StudioGroups -> Links] /\ link'[g].source = s /\ link'[g].name = s /\ \A h \in StudioGroups : h # g => link'[h] = link[h]
    BY <1>1, <1>2 DEF PauseInv, Links, Statuses
  <1>4. sync' \in [Syncs -> Running] /\ sync'[j] = NoSync /\ \A k \in Syncs : k # j => sync'[k] = sync[k]
    BY <1>1 DEF PauseInv, Running, NoSync, Statuses
  <1>5. \A h \in StudioGroups : FollowsDisabled(h)' => h \in lagging \/ (h # g /\ FollowsDisabled(h))
    BY <1>1, <1>2, <1>3 DEF FollowsDisabled
  <1>6. \A h \in StudioGroups : Linked(h)' => link'[h].name \in Sources
    BY <1>2, <1>3 DEF PauseInv, Linked
  <1>7. \A k \in Syncs : sync'[k] # NoSync \/ sync'[k].pc = "commit" => k # j
    BY <1>4 DEF NoSync
  <1>8. PausedUnlessOverlapped'
    BY <1>1, <1>3, <1>5 DEF PauseInv, PausedUnlessOverlapped, FollowsDisabled
  <1>. QED  BY <1>1, <1>3, <1>4, <1>5, <1>6, <1>7, <1>8 DEF PauseInv

LEMMA FailKeepsPauseInv ==
    ASSUME PauseInv, NEW j \in Syncs, SyncFails(j)
    PROVE  PauseInv'
  <1>1. sync[j].pc = "commit" /\ sync[j] # NoSync /\ UNCHANGED <<source, link, lagging>>
    BY DEF SyncFails, NoSync
  <1>2. sync' \in [Syncs -> Running] /\ sync'[j].pc = "mark" /\ sync'[j].group = sync[j].group /\ \A k \in Syncs : k # j => sync'[k] = sync[k]
    BY DEF SyncFails, PauseInv, Running, Statuses
  <1>3. \A h : (FollowsDisabled(h)' <=> FollowsDisabled(h)) /\ (Linked(h)' <=> Linked(h))
    BY <1>1 DEF FollowsDisabled, Linked
  <1>4. sync[j].status # "paused"
    BY <1>1 DEF PauseInv
  <1>5. PausedUnlessOverlapped'
    BY <1>1 DEF PauseInv, PausedUnlessOverlapped
  <1>. QED  BY <1>1, <1>2, <1>3, <1>4, <1>5 DEF PauseInv

LEMMA PauseStep ==
    ASSUME PauseInv, [SourceGroupsNext]_sgvars
    PROVE  PauseInv'
  <1>1. CASE UNCHANGED sgvars
    BY <1>1, UnseenByLinks DEF sgvars
  <1>2. CASE SourceGroupsNext
    BY <1>2, RefreshKeepsPauseInv, SwitchKeepsPauseInv, StudioKeepsPauseInv, EditKeepsPauseInv,
       ReadKeepsPauseInv, MarkKeepsPauseInv, CommitKeepsPauseInv, FailKeepsPauseInv DEF SourceGroupsNext
  <1>. QED  BY <1>1, <1>2

LEMMA PauseStarts == SourceGroupsInit => PauseInv
  BY DEF SourceGroupsInit, PauseInv, PausedUnlessOverlapped, FollowsDisabled, Linked, Links, Running, Standings, NoLink, NoSync, Statuses

(* A group that follows a disabled source group is paused, unless a        *)
(* synchronisation of it overlapped the change                             *)
(* (source_group_sync_query.go:137, source_group_sync_query.go:900).       *)
THEOREM PausedStaysShown == SourceGroupsSpec => []PausedUnlessOverlapped
  <1>1. SourceGroupsInit => PauseInv
    BY PauseStarts
  <1>2. PauseInv /\ [SourceGroupsNext]_sgvars => PauseInv'
    BY PauseStep
  <1>3. PauseInv => PausedUnlessOverlapped
    BY DEF PauseInv
  <1>. QED  BY <1>1, <1>2, <1>3, PTL DEF SourceGroupsSpec

-----------------------------------------------------------------------------
(***************************************************************************)
(* A synchronisation gives every row of the source group a channel of its  *)
(* own, in order, for any number of rows and channels.                     *)
(*                                                                         *)
(* LibraryInv: ids in use are below the next ids, and no two members of a  *)
(* group have a channel, an identity or a row in common.  CarryOK and      *)
(* OwnChannels say what i rounds of the loop have made of the tables.      *)
(***************************************************************************)

LEMMA FirstIsOne ==
    ASSUME NEW order, NEW cs, cs # {}, cs \subseteq DOMAIN order, cs \subseteq Nat,
           \A c \in cs : order[c] \in Nat
    PROVE  First(order, cs) \in cs
  <1>1. PICK T : T = {order[c] : c \in cs}
    OBVIOUS
  <1>2. T \subseteq Nat /\ T # {}
    BY <1>1
  <1>3. PICK v \in T : \A y \in T : v <= y
    BY <1>2, LeastNumber
  <1>4. PICK U : U = {c \in cs : order[c] = v}
    OBVIOUS
  <1>5. U \subseteq Nat /\ U # {}
    BY <1>1, <1>3, <1>4
  <1>6. PICK c \in U : \A d \in U : c <= d
    BY <1>5, LeastNumber
  <1>7. c \in cs /\ \A d \in cs \ {c} : Before(order, c, d)
    <2>1. c \in cs /\ order[c] = v
      BY <1>4, <1>6
    <2>2. ASSUME NEW d \in cs \ {c}
          PROVE  order[c] < order[d] \/ (order[c] = order[d] /\ c < d)
      <3>1. order[d] \in Nat /\ v \in Nat /\ v <= order[d] /\ c \in Nat /\ d \in Nat
        BY <1>1, <1>2, <1>3, <2>1
      <3>2. CASE v < order[d]
        BY <2>1, <3>2
      <3>3. CASE v = order[d]
        <4>1. d \in U
          BY <1>4, <3>3
        <4>. QED  BY <1>6, <2>1, <3>1, <3>3, <4>1
      <3>. QED  BY <3>1, <3>2, <3>3
    <2>. QED  BY <2>1, <2>2 DEF Before
  <1>. QED  BY <1>7, Zenon DEF First

(* The rounds of a synchronisation, as the proofs below use them.          *)
CarryStart(g) == [channel |-> channel, next |-> next.channel, order |-> place[g], member |-> member, variant |-> variant,
                  claimed |-> {m.channel : m \in Members(g)}, seen |-> {}, failed |-> FALSE]
CarryRound(a, g, rows, i) == IF i = 0 THEN CarryStart(g) ELSE Carry(g, a[i - 1], rows[i], i)
CarryRecords(a, g, rows, m) == a = [i \in 0..m |-> CarryRound(a, g, rows, i)]

LEMMA CarryRecordGrows ==
    ASSUME NEW g, NEW rows, NEW m \in Nat, NEW a, CarryRecords(a, g, rows, m)
    PROVE  \E h : CarryRecords(h, g, rows, m + 1)
  <1>1. PICK h : h = [i \in 0..m + 1 |-> IF i <= m THEN a[i] ELSE CarryRound(a, g, rows, m + 1)]
    OBVIOUS
  <1>2. ASSUME NEW i \in 0..m + 1
        PROVE  h[i] = CarryRound(h, g, rows, i)
    <2>1. CASE i = 0
      BY <1>1, <2>1 DEF CarryRecords, CarryRound
    <2>2. CASE i \in 1..m
      <3>1. h[i] = a[i] /\ h[i - 1] = a[i - 1] /\ i # 0
        BY <1>1, <2>2
      <3>2. a[i] = CarryRound(a, g, rows, i)
        BY <2>2 DEF CarryRecords
      <3>. QED  BY <3>1, <3>2 DEF CarryRound
    <2>3. CASE i = m + 1
      <3>1. h[i] = CarryRound(a, g, rows, i) /\ h[i - 1] = a[i - 1] /\ i # 0
        BY <1>1, <2>3
      <3>. QED  BY <3>1 DEF CarryRound
    <2>. QED  BY <2>1, <2>2, <2>3
  <1>3. h = [i \in 0..m + 1 |-> h[i]]
    BY <1>1
  <1>4. h = [i \in 0..m + 1 |-> CarryRound(h, g, rows, i)]
    BY <1>2, <1>3, Zenon
  <1>. QED  BY <1>4 DEF CarryRecords

LEMMA CarryRounds ==
    ASSUME NEW g, NEW n \in Nat, NEW rows, Len(rows) = n
    PROVE  /\ CarriedUpTo(g, rows)[0] = CarryStart(g)
           /\ \A i \in 1..n : CarriedUpTo(g, rows)[i] = Carry(g, CarriedUpTo(g, rows)[i - 1], rows[i], i)
  <1>1. PICK T : T = {m \in 0..n : \E a : CarryRecords(a, g, rows, m)}
    OBVIOUS
  <1>2. 0 \in T
    <2>1. [i \in 0..0 |-> CarryStart(g)] = [i \in 0..0 |-> CarryRound([j \in 0..0 |-> CarryStart(g)], g, rows, i)]
      BY DEF CarryRound
    <2>2. CarryRecords([i \in 0..0 |-> CarryStart(g)], g, rows, 0)
      BY <2>1 DEF CarryRecords
    <2>. QED  BY <2>2, <1>1
  <1>3. ASSUME NEW m \in 0..n, m \in T, m < n
        PROVE  m + 1 \in T
    <2>1. m + 1 \in 0..n /\ m \in Nat
      BY <1>3
    <2>. QED  BY <2>1, <1>1, <1>3, CarryRecordGrows
  <1>4. 0..n \subseteq T
    BY <1>2, <1>3, InductionTo
  <1>5. CarryRecords(CHOOSE a : CarryRecords(a, g, rows, n), g, rows, n)
    BY <1>1, <1>4
  <1>6. CarriedUpTo(g, rows) = CHOOSE a : CarryRecords(a, g, rows, n)
    BY Zenon DEF CarriedUpTo, CarryRecords, CarryRound, CarryStart
  <1>7. PICK a : a = CarriedUpTo(g, rows) /\ CarryRecords(a, g, rows, n)
    BY <1>5, <1>6
  <1>8. a = [i \in 0..n |-> CarryRound(a, g, rows, i)]
    BY <1>7 DEF CarryRecords
  <1>9. a[0] = CarryStart(g)
    BY <1>8 DEF CarryRound
  <1>10. \A i \in 1..n : a[i] = Carry(g, a[i - 1], rows[i], i)
    BY <1>8 DEF CarryRound
  <1>. QED  BY <1>7, <1>9, <1>10

Positive == Nat \ {0}

MemberForm(m) == m = [group |-> m.group, channel |-> m.channel, row |-> m.row, identity |-> m.identity]

\* PRIMARY KEY(group_id, template_channel_id), UNIQUE(group_id, source_identity); and a
\* row is one member's.
Distinct(ms) ==
    \A m, n \in ms : m.group = n.group /\ m # n =>
        m.channel # n.channel /\ m.identity # n.identity /\ (m.row = n.row => m.row = 0)

OrderOK(order, bound) == DOMAIN order \subseteq 1..bound - 1 /\ \A c \in DOMAIN order : order[c] \in Nat
MembersOK(ms, bound) == \A m \in ms : MemberForm(m) /\ m.channel \in 1..bound - 1

LibraryInv ==
    /\ next \in [row : Positive, channel : Positive, changes : Nat]
    /\ DOMAIN row \subseteq 1..next.row - 1
    /\ place = [g \in StudioGroups |-> place[g]]
    /\ \A g \in StudioGroups : OrderOK(place[g], next.channel)
    /\ MembersOK(member, next.channel) /\ Distinct(member)
    /\ edit # NoEdit => edit.from \in StudioGroups /\ \E n \in Nat : \E ids : edit.ids \in [1..n -> ids]

LEMMA OrderGrows ==
    ASSUME NEW order, NEW b \in Nat, NEW d \in Nat, b <= d, OrderOK(order, b)
    PROVE  OrderOK(order, d)
  <1>1. 1..b - 1 \subseteq 1..d - 1
    OBVIOUS
  <1>. QED  BY <1>1 DEF OrderOK

LEMMA MembersGrow ==
    ASSUME NEW ms, NEW b \in Nat, NEW d \in Nat, b <= d, MembersOK(ms, b)
    PROVE  MembersOK(ms, d)
  <1>1. 1..b - 1 \subseteq 1..d - 1
    OBVIOUS
  <1>. QED  BY <1>1 DEF MembersOK

LEMMA WithoutKeepsOrder ==
    ASSUME NEW order, NEW b, NEW cs, OrderOK(order, b)
    PROVE  OrderOK(WithoutChannels(order, cs), b)
  BY DEF OrderOK, WithoutChannels

LEMMA OrderFinite ==
    ASSUME NEW order, NEW b \in Nat, OrderOK(order, b)
    PROVE  IsFiniteSet(DOMAIN order) /\ DOMAIN order \subseteq Nat
  <1>1. IsFiniteSet(1..b - 1)
    BY FS_Interval
  <1>2. DOMAIN order \subseteq 1..b - 1
    BY DEF OrderOK
  <1>. QED  BY <1>1, <1>2, FS_Subset

LEMMA NumberedKeepsOrder ==
    ASSUME NEW order, NEW b \in Nat, OrderOK(order, b)
    PROVE  OrderOK(Numbered(order), b)
  <1>1. IsFiniteSet(DOMAIN order)
    BY OrderFinite
  <1>2. ASSUME NEW c \in DOMAIN order
        PROVE  1 + Cardinality({d \in DOMAIN order : Before(order, d, c)}) \in Nat
    <2>1. PICK S : S = {d \in DOMAIN order : Before(order, d, c)}
      OBVIOUS
    <2>2. Cardinality(S) \in Nat
      BY <1>1, <2>1, FS_Subset, FS_CardinalityType
    <2>. QED  BY <2>1, <2>2
  <1>. QED  BY <1>2 DEF OrderOK, Numbered

(* Fewer members are as distinct, and stay so when they lose their rows.   *)
LEMMA FewerMembers ==
    ASSUME NEW ms, NEW ns, ns \subseteq ms, NEW b, MembersOK(ms, b), Distinct(ms)
    PROVE  MembersOK(ns, b) /\ Distinct(ns)
  BY DEF MembersOK, Distinct

LEMMA RowlessMembers ==
    ASSUME NEW ms, NEW b, MembersOK(ms, b), Distinct(ms), NEW r,
           NEW ns, \A n \in ns : \E m \in ms : n = IF m.row = r THEN [m EXCEPT !.row = 0] ELSE m
    PROVE  MembersOK(ns, b) /\ Distinct(ns)
  <1>2. ASSUME NEW n \in ns
        PROVE  \E m \in ms : /\ MemberForm(n) /\ n.group = m.group /\ n.channel = m.channel /\ n.identity = m.identity
                             /\ (n.row = m.row \/ n.row = 0)
                             /\ n = IF m.row = r THEN [m EXCEPT !.row = 0] ELSE m
    <2>1. PICK m \in ms : n = IF m.row = r THEN [m EXCEPT !.row = 0] ELSE m
      OBVIOUS
    <2>2. MemberForm(m)
      BY DEF MembersOK
    <2>3. MemberForm(n) /\ n.group = m.group /\ n.channel = m.channel /\ n.identity = m.identity /\ (n.row = m.row \/ n.row = 0)
      BY <2>1, <2>2 DEF MemberForm
    <2>. QED  BY <2>1, <2>3
  <1>3. MembersOK(ns, b)
    BY <1>2 DEF MembersOK
  <1>4. Distinct(ns)
    <2>. SUFFICES ASSUME NEW p \in ns, NEW q \in ns, p.group = q.group, p # q
                  PROVE  p.channel # q.channel /\ p.identity # q.identity /\ (p.row = q.row => p.row = 0)
      BY DEF Distinct
    <2>1. PICK m \in ms : /\ p.group = m.group /\ p.channel = m.channel /\ p.identity = m.identity
                          /\ (p.row = m.row \/ p.row = 0)
                          /\ p = IF m.row = r THEN [m EXCEPT !.row = 0] ELSE m
      BY <1>2
    <2>2. PICK n \in ms : /\ q.group = n.group /\ q.channel = n.channel /\ q.identity = n.identity
                          /\ (q.row = n.row \/ q.row = 0)
                          /\ q = IF n.row = r THEN [n EXCEPT !.row = 0] ELSE n
      BY <1>2
    <2>3. m # n
      BY <2>1, <2>2
    <2>4. m.channel # n.channel /\ m.identity # n.identity /\ (m.row = n.row => m.row = 0)
      <3>1. m.group = n.group
        BY <2>1, <2>2
      <3>. QED  BY <2>3, <3>1 DEF Distinct
    <2>5. p.channel # q.channel /\ p.identity # q.identity
      BY <2>1, <2>2, <2>4
    <2>6. p.row = q.row => p.row = 0
      <3>1. p.row = m.row \/ p.row = 0
        BY <2>1
      <3>2. q.row = n.row \/ q.row = 0
        BY <2>2
      <3>. QED  BY <2>4, <3>1, <3>2
    <2>. QED  BY <2>5, <2>6
  <1>. QED  BY <1>3, <1>4

LEMMA LastPositionIsNat ==
    ASSUME LibraryInv
    PROVE  LastPosition \in Nat
  <1>1. \A g \in StudioGroups : IsFiniteSet(Range(place[g])) /\ Range(place[g]) \subseteq Nat
    <2>. TAKE g \in StudioGroups
    <2>1. OrderOK(place[g], next.channel)
      BY DEF LibraryInv
    <2>2. next.channel \in Nat
      BY DEF LibraryInv, Positive
    <2>3. Range(place[g]) = {place[g][c] : c \in DOMAIN place[g]}
      BY DEF Range
    <2>4. IsFiniteSet({place[g][c] : c \in DOMAIN place[g]})
      BY <2>1, <2>2, OrderFinite, FiniteRange
    <2>. QED  BY <2>1, <2>3, <2>4 DEF OrderOK
  <1>2. PICK f : f = [g \in StudioGroups |-> Range(place[g])]
    OBVIOUS
  <1>3. IsFiniteSet({f[g] : g \in StudioGroups})
    BY <1>2, LibraryConstants, FiniteRange
  <1>4. {f[g] : g \in StudioGroups} = {Range(place[g]) : g \in StudioGroups}
    BY <1>2
  <1>5. PICK A : A = UNION {Range(place[g]) : g \in StudioGroups}
    OBVIOUS
  <1>6. IsFiniteSet(A) /\ A \subseteq Nat
    BY <1>1, <1>3, <1>4, <1>5, FS_UNION
  <1>7. IsFiniteSet({0} \cup A) /\ {0} \cup A \subseteq Nat
    <2>1. IsFiniteSet({0})
      BY FS_Singleton
    <2>2. IsFiniteSet({0} \cup A)
      BY <1>6, <2>1, FS_Union
    <2>. QED  BY <1>6, <2>2
  <1>. QED  BY <1>5, <1>7, MaxIsLargest DEF LastPosition

LEMMA RowsFinite ==
    ASSUME LibraryInv
    PROVE  IsFiniteSet(DOMAIN row) /\ DOMAIN row \subseteq Positive
  <1>1. next.row - 1 \in Int
    BY DEF LibraryInv, Positive
  <1>2. IsFiniteSet(DOMAIN row)
    <2>1. IsFiniteSet(1..next.row - 1)
      BY <1>1, FS_Interval
    <2>. QED  BY <2>1, FS_Subset DEF LibraryInv
  <1>3. DOMAIN row \subseteq Positive
    BY <1>1 DEF LibraryInv, Positive
  <1>. QED  BY <1>2, <1>3

(* What neither the rows, the channels nor the members of groups see.      *)
LEMMA UnseenByLibrary ==
    ASSUME LibraryInv, UNCHANGED <<row, place, member>>, next'.row = next.row, next'.channel = next.channel,
           next' \in [row : Positive, channel : Positive, changes : Nat],
           edit' = NoEdit \/ edit' = edit \/ (edit'.from \in StudioGroups /\ \E n \in Nat : \E ids : edit'.ids \in [1..n -> ids])
    PROVE  LibraryInv'
  BY DEF LibraryInv, OrderOK, MembersOK, MemberForm, Distinct

LEMMA ImportsKeepInv ==
    ASSUME LibraryInv, NEW g \in StudioGroups, NEW n \in Nat, NEW S, NEW ids \in [1..n -> S], Imports(g, ids),
           edit' = NoEdit \/ edit' = edit
    PROVE  LibraryInv'
  <1>1a. PICK k \in Nat : k = next.channel
    BY DEF LibraryInv, Positive
  <1>1. PICK made : k = next.channel /\ made = [i \in 1..Len(ids) |-> next.channel + i - 1]
    BY <1>1a
  <1>2. Len(ids) = n
    OBVIOUS
  <1>3. ToSet(made) \subseteq 1..k + n - 1 /\ \A c \in ToSet(made) : c >= k
    <2>1. k > 0
      BY <1>1 DEF LibraryInv, Positive
    <2>2. DOMAIN made = 1..n /\ \A i \in 1..n : made[i] = k + i - 1
      BY <1>1, <1>2
    <2>. QED  BY <2>1, <2>2 DEF ToSet
  <1>4. PICK last \in Nat : last = LastPosition
    BY LastPositionIsNat
  <1>5. PICK new : new = [c \in ToSet(made) |-> last + 1 + c - k]
    OBVIOUS
  <1>6. \A c \in ToSet(made) : new[c] \in Nat
    BY <1>3, <1>5
  <1>7. place' = [place EXCEPT ![g] = Beside(@, new)]
    BY <1>1, <1>4, <1>5 DEF Imports
  <1>8. next' = [next EXCEPT !.channel = k + n, !.changes = @ + 1] /\ UNCHANGED <<row, member>>
    BY <1>1, <1>2 DEF Imports
  <1>9. next'.channel = k + n /\ next'.row = next.row /\ next' \in [row : Positive, channel : Positive, changes : Nat]
    <2>1. next.channel = k /\ k + n \in Positive /\ next.changes + 1 \in Nat
      BY <1>1 DEF LibraryInv, Positive
    <2>. QED  BY <1>8, <2>1 DEF LibraryInv
  <1>10. ASSUME NEW h \in StudioGroups
         PROVE  OrderOK(place'[h], k + n)
    <2>1. OrderOK(place[h], k)
      BY <1>1 DEF LibraryInv
    <2>2. OrderOK(place[h], k + n)
      BY <2>1, OrderGrows
    <2>3. CASE h = g
      <3>1. place'[h] = Beside(place[h], new)
        BY <1>7, <2>3 DEF LibraryInv
      <3>2. DOMAIN place'[h] = DOMAIN place[h] \cup ToSet(made) /\ \A c \in DOMAIN place'[h] : place'[h][c] = IF c \in DOMAIN place[h] THEN place[h][c] ELSE new[c]
        BY <1>5, <3>1 DEF Beside
      <3>. QED  BY <1>3, <1>6, <2>2, <3>2 DEF OrderOK
    <2>4. CASE h # g
      BY <1>7, <2>2, <2>4 DEF LibraryInv
    <2>. QED  BY <2>3, <2>4
  <1>11. place' = [h \in StudioGroups |-> place'[h]]
    BY <1>7 DEF LibraryInv
  <1>12. MembersOK(member, k + n)
    BY <1>1, MembersGrow DEF LibraryInv
  <1>13. MembersOK(member, k + n)' /\ (\A h \in StudioGroups : OrderOK(place'[h], next'.channel))
    BY <1>8, <1>9, <1>10, <1>12 DEF MembersOK, MemberForm
  <1>. QED  BY <1>8, <1>9, <1>11, <1>12, <1>13 DEF LibraryInv

Changed == next' = [next EXCEPT !.changes = @ + 1]

LEMMA ChangedKeepsNext ==
    ASSUME LibraryInv, Changed
    PROVE  next' \in [row : Positive, channel : Positive, changes : Nat] /\ next'.row = next.row /\ next'.channel = next.channel
  BY DEF LibraryInv, Changed

LEMMA RefreshKeepsLibraryInv ==
    ASSUME LibraryInv,
           \/ \E s \in Sources, t \in Tvgs \cup {Nothing} : RowAppears(s, t)
           \/ \E r \in DOMAIN row, t \in Tvgs : RowChanges(r, t)
           \/ \E r \in DOMAIN row : RowDeleted(r)
           \/ PlaylistDeleted
    PROVE  LibraryInv'
  <1>1. ASSUME NEW s \in Sources, NEW t \in Tvgs \cup {Nothing}, RowAppears(s, t)
        PROVE  LibraryInv'
    <2>1. UNCHANGED <<place, member, edit>> /\ next' = [next EXCEPT !.row = @ + 1, !.changes = @ + 1]
          /\ row' = With(row, next.row, [group |-> s, tvg |-> t])
      BY <1>1 DEF RowAppears, RowsBecome
    <2>2. next.row \in Nat /\ next.row > 0 /\ next.row + 1 \in Positive /\ next.changes + 1 \in Nat
      BY DEF LibraryInv, Positive
    <2>3. next' \in [row : Positive, channel : Positive, changes : Nat] /\ next'.channel = next.channel /\ next'.row = next.row + 1
      BY <2>1, <2>2 DEF LibraryInv
    <2>4. DOMAIN row' \subseteq 1..next'.row - 1
      BY <2>1, <2>2, <2>3 DEF LibraryInv, With
    <2>. QED  BY <2>1, <2>3, <2>4 DEF LibraryInv, OrderOK, MembersOK, MemberForm, Distinct
  <1>2. ASSUME NEW r \in DOMAIN row, NEW t \in Tvgs, RowChanges(r, t)
        PROVE  LibraryInv'
    <2>1. UNCHANGED <<place, member, edit>> /\ Changed /\ DOMAIN row' = DOMAIN row
      BY <1>2 DEF RowChanges, RowsBecome, Changed
    <2>. QED  BY <2>1, ChangedKeepsNext DEF LibraryInv, OrderOK, MembersOK, MemberForm, Distinct
  <1>3. ASSUME NEW r \in DOMAIN row, RowDeleted(r)
        PROVE  LibraryInv'
    <2>1. UNCHANGED <<place, edit>> /\ Changed /\ DOMAIN row' \subseteq DOMAIN row
          /\ member' = {IF m.row = r THEN [m EXCEPT !.row = 0] ELSE m : m \in member}
      BY <1>3 DEF RowDeleted, RowsBecome, Changed
    <2>2. MembersOK(member', next.channel) /\ Distinct(member')
      <3>1. PICK ns : ns = member'
        OBVIOUS
      <3>2. \A n \in ns : \E m \in member : n = IF m.row = r THEN [m EXCEPT !.row = 0] ELSE m
        BY <2>1, <3>1
      <3>3. MembersOK(ns, next.channel) /\ Distinct(ns)
        BY <3>2, RowlessMembers DEF LibraryInv
      <3>. QED  BY <3>1, <3>3
    <2>. QED  BY <2>1, <2>2, ChangedKeepsNext DEF LibraryInv, OrderOK, MembersOK
  <1>4. CASE PlaylistDeleted
    <2>1. UNCHANGED <<place, edit>> /\ member' = {} /\ row' = <<>> /\ next' = [next EXCEPT !.changes = MaxChanges, !.row = MaxRow + 1]
      BY <1>4 DEF PlaylistDeleted, RowsBecome
    <2>2. next' \in [row : Positive, channel : Positive, changes : Nat] /\ next'.channel = next.channel
      <3>1. MaxRow + 1 \in Positive /\ MaxChanges \in Nat
        BY LibraryConstants DEF Positive
      <3>. QED  BY <2>1, <3>1 DEF LibraryInv
    <2>3. DOMAIN row' = {}
      BY <2>1
    <2>. QED  BY <2>1, <2>2, <2>3 DEF LibraryInv, OrderOK, MembersOK, Distinct
  <1>. QED  BY <1>1, <1>2, <1>3, <1>4

LEMMA StudioKeepsLibraryInv ==
    ASSUME LibraryInv, NEW g \in StudioGroups,
           \/ \E s \in Sources, on \in BOOLEAN : SetSourceGroupEnabled(s, on)
           \/ \E s \in Sources \cup {Nothing} : CreateStudioGroup(g, s)
           \/ \E s \in Sources : SetSourceGroupLink(g, s)
           \/ DeleteStudioGroup(g)
           \/ \E at : MoveWorkspaceGroup(g, at)
           \/ \E retain \in BOOLEAN : DisconnectSourceGroup(g, retain)
           \/ \E s \in Sources : CopySourceGroupToLineup(g, s) \/ AddSourceGroupToStudioGroup(g, s)
    PROVE  LibraryInv'
  <1>. USE ChangedKeepsNext, UnseenByLibrary
  <1>1. ASSUME NEW s \in Sources, NEW on \in BOOLEAN, SetSourceGroupEnabled(s, on)
        PROVE  LibraryInv'
    BY <1>1 DEF SetSourceGroupEnabled, Changed
  <1>2. ASSUME NEW s \in Sources \cup {Nothing}, CreateStudioGroup(g, s)
        PROVE  LibraryInv'
    BY <1>2 DEF CreateStudioGroup, Edits, Changed
  <1>3. ASSUME NEW s \in Sources, SetSourceGroupLink(g, s)
        PROVE  LibraryInv'
    BY <1>3 DEF SetSourceGroupLink, Edits, Changed
  <1>4. ASSUME NEW at, MoveWorkspaceGroup(g, at)
        PROVE  LibraryInv'
    BY <1>4 DEF MoveWorkspaceGroup, Edits, Changed
  <1>5. CASE DeleteStudioGroup(g)
    <2>1. UNCHANGED <<row, edit>> /\ Changed /\ place' = [place EXCEPT ![g] = <<>>] /\ member' \subseteq member
      BY <1>5 DEF DeleteStudioGroup, Edits, Changed, KeptMembers
    <2>2. MembersOK(member', next.channel) /\ Distinct(member')
      BY <2>1, FewerMembers DEF LibraryInv
    <2>3. \A h \in StudioGroups : OrderOK(place'[h], next.channel)
      BY <2>1 DEF LibraryInv, OrderOK
    <2>4. place' = [h \in StudioGroups |-> place'[h]]
      BY <2>1 DEF LibraryInv
    <2>. QED  BY <2>1, <2>2, <2>3, <2>4 DEF LibraryInv, MembersOK, OrderOK
  <1>6. ASSUME NEW retain \in BOOLEAN, DisconnectSourceGroup(g, retain)
        PROVE  LibraryInv'
    <2>1. PICK lost, left : /\ UNCHANGED <<row, edit>> /\ Changed /\ member' \subseteq member
                            /\ place' = [h \in StudioGroups |-> IF h = g THEN Numbered(WithoutChannels(place[g], left)) ELSE WithoutChannels(place[h], lost)]
      BY <1>6 DEF DisconnectSourceGroup, Edits, Changed, KeptMembers
    <2>2. MembersOK(member', next.channel) /\ Distinct(member')
      BY <2>1, FewerMembers DEF LibraryInv
    <2>3. next.channel \in Nat
      BY DEF LibraryInv, Positive
    <2>4. \A h \in StudioGroups : OrderOK(place'[h], next.channel)
      BY <2>1, <2>3, NumberedKeepsOrder, WithoutKeepsOrder DEF LibraryInv
    <2>5. place' = [h \in StudioGroups |-> place'[h]]
      BY <2>1
    <2>. QED  BY <2>1, <2>2, <2>4, <2>5 DEF LibraryInv, MembersOK, OrderOK
  <1>7. ASSUME NEW s \in Sources, CopySourceGroupToLineup(g, s) \/ AddSourceGroupToStudioGroup(g, s)
        PROVE  LibraryInv'
    <2>1. PICK S : S \subseteq DOMAIN row /\ Imports(g, Ascending(S)) /\ edit' = edit
      BY <1>7 DEF CopySourceGroupToLineup, AddSourceGroupToStudioGroup, RowsOf
    <2>2. IsFiniteSet(S) /\ S \subseteq Nat
      BY <2>1, RowsFinite, FS_Subset DEF Positive
    <2>3. PICK n \in Nat : n = Cardinality(S)
      BY <2>2, FS_CardinalityType
    <2>4. Ascending(S) \in [1..n -> S]
      BY <2>2, <2>3, AscendingLists
    <2>. QED  BY <2>1, <2>4, ImportsKeepInv
  <1>. QED  BY <1>1, <1>2, <1>3, <1>4, <1>5, <1>6, <1>7

LEMMA SelectionsAreIds ==
    ASSUME NEW S, NEW ids \in Selections(S)
    PROVE  \E n \in Nat : ids \in [1..n -> S]
  <1>1. PICK n \in 1..MaxSelected : ids \in [1..n -> S]
    BY Zenon DEF Selections
  <1>. QED  BY <1>1, LibraryConstants

LEMMA EditKeepsLibraryInv ==
    ASSUME LibraryInv,
           \/ \E g \in StudioGroups : \E ids \in Selections(DOMAIN row) : BeginEdit("add", g, g, ids)
           \/ \E g \in StudioGroups : \E ids \in Selections(DOMAIN place[g]) : BeginEdit("remove", g, g, ids)
           \/ \E g, h \in StudioGroups : \E ids \in Selections(DOMAIN place[g]) : BeginEdit("move", g, h, ids)
           \/ BatchAdd \/ BatchRemove \/ EditFails
           \/ \E at \in 0..MaxChannel : BatchMove(at)
    PROVE  LibraryInv'
  <1>0. next \in [row : Positive, channel : Positive, changes : Nat] /\ next.channel \in Nat
    BY DEF LibraryInv, Positive
  <1>1. ASSUME NEW op, NEW g \in StudioGroups, NEW h, NEW S, NEW ids \in Selections(S), BeginEdit(op, g, h, ids)
        PROVE  LibraryInv'
    <2>1. UNCHANGED <<row, place, member, next>> /\ edit' = [op |-> op, from |-> g, to |-> h, ids |-> ids]
      BY <1>1 DEF BeginEdit
    <2>2. edit'.from = g /\ edit'.ids = ids
      BY <2>1
    <2>3. \E n \in Nat : \E T : edit'.ids \in [1..n -> T]
      BY <2>2, SelectionsAreIds
    <2>. QED  BY <1>0, <2>1, <2>2, <2>3, UnseenByLibrary
  <1>2. CASE BatchAdd
    <2>1. edit # NoEdit /\ edit' = NoEdit /\ Imports(edit.from, edit.ids)
      BY <1>2 DEF BatchAdd, NoEdit
    <2>2a. PICK n \in Nat : \E S : edit.from \in StudioGroups /\ edit.ids \in [1..n -> S]
      BY <2>1 DEF LibraryInv
    <2>2. PICK S : edit.from \in StudioGroups /\ edit.ids \in [1..n -> S]
      BY <2>2a
    <2>. QED  BY <2>1, <2>2, ImportsKeepInv
  <1>3. CASE BatchRemove
    <2>1. PICK cs, touched : /\ UNCHANGED row /\ edit' = NoEdit /\ Changed /\ member' \subseteq member
                             /\ place' = [h \in StudioGroups |-> IF h \in touched THEN Numbered(WithoutChannels(place[h], cs)) ELSE place[h]]
      BY <1>3 DEF BatchRemove, Changed, KeptMembers
    <2>2. MembersOK(member', next.channel) /\ Distinct(member')
      BY <2>1, FewerMembers DEF LibraryInv
    <2>3. \A h \in StudioGroups : OrderOK(place'[h], next.channel)
      BY <1>0, <2>1, NumberedKeepsOrder, WithoutKeepsOrder DEF LibraryInv
    <2>4. place' = [h \in StudioGroups |-> place'[h]]
      BY <2>1
    <2>. QED  BY <2>1, <2>2, <2>3, <2>4, ChangedKeepsNext DEF LibraryInv, MembersOK, OrderOK
  <1>4. CASE EditFails
    BY <1>0, <1>4, UnseenByLibrary DEF EditFails
  <1>5. ASSUME NEW at \in 0..MaxChannel, BatchMove(at)
        PROVE  LibraryInv'
    <2>1. PICK g, h, cs, others, final :
             /\ g = edit.from /\ h = edit.to /\ cs = ToSet(edit.ids) /\ others = Numbered(WithoutChannels(place[h], cs))
             /\ final = [c \in DOMAIN others \cup cs |->
                           IF c \in cs THEN at + (CHOOSE i \in DOMAIN edit.ids : edit.ids[i] = c)
                           ELSE IF others[c] <= at THEN others[c] ELSE others[c] + Len(edit.ids)]
      OBVIOUS
    <2>2. /\ edit # NoEdit /\ cs \subseteq DOMAIN place[g] /\ at \in 0..Cardinality(DOMAIN others)
          /\ place' = [f \in StudioGroups |-> IF f = h THEN final ELSE IF f = g THEN Numbered(WithoutChannels(place[g], cs)) ELSE place[f]]
          /\ edit' = NoEdit /\ Changed /\ UNCHANGED <<row, member>>
      BY <1>5, <2>1 DEF BatchMove, Changed, NoEdit
    <2>3a. PICK n \in Nat : \E S : g \in StudioGroups /\ edit.ids \in [1..n -> S]
      BY <2>1, <2>2 DEF LibraryInv
    <2>3. PICK S : g \in StudioGroups /\ edit.ids \in [1..n -> S]
      BY <2>3a
    <2>4. at \in Nat
      OBVIOUS
    <2>5. ASSUME h \in StudioGroups
          PROVE  OrderOK(final, next.channel)
      <3>1. OrderOK(others, next.channel)
        BY <1>0, <2>1, <2>5, NumberedKeepsOrder, WithoutKeepsOrder DEF LibraryInv
      <3>2. cs \subseteq 1..next.channel - 1
        BY <2>2, <2>3 DEF LibraryInv, OrderOK
      <3>3. DOMAIN final \subseteq 1..next.channel - 1
        BY <2>1, <3>1, <3>2 DEF OrderOK
      <3>4. Len(edit.ids) \in Nat
        BY <2>3
      <3>5. ASSUME NEW c \in DOMAIN final
            PROVE  final[c] \in Nat
        <4>1. CASE c \in cs
          <5>1. PICK i \in DOMAIN edit.ids : edit.ids[i] = c
            BY <2>1, <4>1 DEF ToSet
          <5>2. (CHOOSE k \in DOMAIN edit.ids : edit.ids[k] = c) \in 1..n
            BY <2>3, <5>1
          <5>3. final[c] = at + (CHOOSE k \in DOMAIN edit.ids : edit.ids[k] = c)
            BY <2>1, <4>1
          <5>. QED  BY <2>4, <5>2, <5>3
        <4>2. CASE c \notin cs
          <5>1. c \in DOMAIN others /\ others[c] \in Nat
            BY <2>1, <3>1, <4>2 DEF OrderOK
          <5>. QED  BY <2>1, <3>4, <4>2, <5>1
        <4>. QED  BY <4>1, <4>2
      <3>. QED  BY <3>3, <3>5 DEF OrderOK
    <2>6. \A f \in StudioGroups : OrderOK(place'[f], next.channel)
      BY <1>0, <2>2, <2>5, NumberedKeepsOrder, WithoutKeepsOrder DEF LibraryInv
    <2>7. place' = [f \in StudioGroups |-> place'[f]]
      BY <2>2
    <2>. QED  BY <2>2, <2>6, <2>7, ChangedKeepsNext DEF LibraryInv, MembersOK, MemberForm, OrderOK, Distinct
  <1>. QED  BY <1>1, <1>2, <1>3, <1>4, <1>5

(* Two rows of a source group have two identities.                         *)
LEMMA IdentitiesDiffer ==
    ASSUME NEW s, NEW r \in RowsOf(s), NEW q \in RowsOf(s), r # q
    PROVE  Identity(r) # Identity(q)
  <1>. SUFFICES ASSUME Identity(r) = Identity(q)
                PROVE  FALSE
    OBVIOUS
  <1>1. row[r].group = s /\ row[q].group = s
    BY DEF RowsOf
  <1>2. PICK x, y : /\ x = IF row[r].tvg = Nothing \/ \E p \in RowsOf(s) \ {r} : row[p].tvg = row[r].tvg THEN r ELSE 0
                    /\ y = IF row[q].tvg = Nothing \/ \E p \in RowsOf(s) \ {q} : row[p].tvg = row[q].tvg THEN q ELSE 0
    OBVIOUS
  <1>3. <<row[r].tvg, x>> = <<row[q].tvg, y>>
    BY <1>1, <1>2 DEF Identity
  <1>4. row[r].tvg = row[q].tvg /\ x = y
    BY <1>3
  <1>5. x = r /\ y = q
    BY <1>2, <1>4
  <1>. QED  BY <1>4, <1>5

\* The channels of the members of g as they were.
Managed(g) == {m.channel : m \in Members(g)}

(* What i rounds of a synchronisation have made, whatever the rows are:    *)
(* members are still distinct unless it failed, and a member of the group  *)
(* is either as it was or of one of the i rows.                            *)
CarryOK(acc, g, rows, i) ==
    /\ acc.next \in Nat /\ next.channel <= acc.next
    /\ OrderOK(acc.order, acc.next)
    /\ MembersOK(acc.member, acc.next)
    /\ acc.seen \subseteq acc.claimed /\ acc.claimed \subseteq 1..acc.next - 1 /\ Managed(g) \subseteq acc.claimed
    /\ \A m, n \in acc.member : m.group = n.group /\ m.channel = n.channel => m = n
    /\ \A m \in acc.member :
          \/ m \in member /\ (m.group = g => m.channel \notin acc.seen)
          \/ m.group = g /\ m.channel \in acc.seen /\ m.row \in {rows[k] : k \in 1..i}
    /\ \A m \in Members(g) : m.row \in {rows[k] : k \in 1..i} => m.channel \in acc.seen
    /\ ~acc.failed => Distinct(acc.member)

LEMMA CarryStartsOK ==
    ASSUME LibraryInv, NEW g \in StudioGroups, NEW rows
    PROVE  CarryOK(CarryStart(g), g, rows, 0)
  <1>1. next.channel \in Nat
    BY DEF LibraryInv, Positive
  <1>2. Managed(g) \subseteq 1..next.channel - 1
    BY DEF Managed, Members, LibraryInv, MembersOK
  <1>3. \A m, n \in member : m.group = n.group /\ m.channel = n.channel => m = n
    BY DEF LibraryInv, Distinct
  <1>4. {rows[k] : k \in 1..0} = {}
    OBVIOUS
  <1>5. OrderOK(place[g], next.channel) /\ MembersOK(member, next.channel) /\ Distinct(member)
    BY DEF LibraryInv
  <1>6. PICK acc : acc = CarryStart(g)
    OBVIOUS
  <1>7. /\ acc.next = next.channel /\ acc.order = place[g] /\ acc.member = member
        /\ acc.claimed = Managed(g) /\ acc.seen = {} /\ acc.failed = FALSE
    BY <1>6 DEF CarryStart, Managed
  <1>8. CarryOK(acc, g, rows, 0)
    BY <1>1, <1>2, <1>3, <1>4, <1>5, <1>7 DEF CarryOK
  <1>. QED  BY <1>6, <1>8

(* The channel a row is carried by: a member's, one of the group nobody    *)
(* claimed, or a new one.                                                  *)
MayCarry(acc, g, r, c) ==
    \/ \E m \in Carrying(g, r) : c = m.channel
    \/ Carrying(g, r) = {} /\ c \in DOMAIN place[g] \ acc.claimed
    \/ Carrying(g, r) = {} /\ c = acc.next

LEMMA CarrierMay ==
    ASSUME NEW acc, NEW g, NEW r, OrderOK(place[g], next.channel)
    PROVE  MayCarry(acc, g, r, Carrier(g, acc, r))
  <1>1. PICK held, adopted, c : /\ held = Carrying(g, r) /\ adopted = Adoptable(g, r, acc.claimed, acc.variant)
                                 /\ c = IF held # {} THEN (CHOOSE m \in held : TRUE).channel
                                        ELSE IF adopted # {} THEN First(place[g], adopted) ELSE acc.next
    OBVIOUS
  <1>3. adopted \subseteq DOMAIN place[g] \ acc.claimed
    BY <1>1 DEF Adoptable
  <1>4. adopted # {} => First(place[g], adopted) \in adopted
    <2>1. adopted \subseteq Nat /\ \A d \in adopted : place[g][d] \in Nat
      BY <1>3 DEF OrderOK
    <2>. QED  BY <1>3, <2>1, FirstIsOne
  <1>5. MayCarry(acc, g, r, c)
    BY <1>1, <1>3, <1>4 DEF MayCarry
  <1>6. c = Carrier(g, acc, r)
    BY <1>1 DEF Carrier
  <1>. QED  BY <1>5, <1>6

LEMMA CarryKeepsOK ==
    ASSUME LibraryInv, NEW g \in StudioGroups, NEW n \in Nat, NEW rows, NEW i \in 1..n, NEW acc,
           rows \in [1..n -> DOMAIN row], \A k, l \in 1..n : k < l => rows[k] < rows[l],
           CarryOK(acc, g, rows, i - 1)
    PROVE  CarryOK(Carry(g, acc, rows[i], i), g, rows, i)
  <1>1. PICK r : r = rows[i] /\ r \in Positive
    BY RowsFinite
  <1>2. OrderOK(place[g], next.channel)
    BY DEF LibraryInv
  <1>a. PICK c : c = Carrier(g, acc, r) /\ MayCarry(acc, g, r, c)
    BY <1>2, CarrierMay
  <1>b. PICK acc2 : acc2 = Carry(g, acc, r, i) /\ acc2 = CarryBy(g, acc, r, i, c)
    BY <1>a DEF Carry
  <1>c. PICK others : others = OthersOf(g, acc, c)
    OBVIOUS
  <1>3. /\ acc2 = Carry(g, acc, r, i)
        /\ MayCarry(acc, g, r, c)
        /\ others = {m \in acc.member : ~(m.group = g /\ m.channel = c)}
        /\ acc2.next = (IF c = acc.next THEN c + 1 ELSE acc.next)
        /\ acc2.order = With(acc.order, c, i)
        /\ acc2.member = others \cup {[group |-> g, channel |-> c, row |-> r, identity |-> Identity(r)]}
        /\ acc2.claimed = acc.claimed \cup {c}
        /\ acc2.seen = acc.seen \cup {c}
        /\ acc2.failed = (acc.failed \/ \E m \in others : m.group = g /\ m.identity = Identity(r))
    <2>1. others = {m \in acc.member : ~(m.group = g /\ m.channel = c)}
      BY <1>c DEF OthersOf
    <2>2. acc2.next = (IF c = acc.next THEN c + 1 ELSE acc.next) /\ acc2.order = With(acc.order, c, i)
      BY <1>b DEF CarryBy
    <2>3. acc2.member = others \cup {[group |-> g, channel |-> c, row |-> r, identity |-> Identity(r)]}
      BY <1>b, <1>c DEF CarryBy
    <2>4. acc2.claimed = acc.claimed \cup {c} /\ acc2.seen = acc.seen \cup {c}
      BY <1>b DEF CarryBy
    <2>5. acc2.failed = (acc.failed \/ \E m \in others : m.group = g /\ m.identity = Identity(r))
      BY <1>b, <1>c DEF CarryBy
    <2>. QED  BY <1>a, <1>b, <2>1, <2>2, <2>3, <2>4, <2>5
  <1>4. acc.next \in Nat /\ next.channel <= acc.next /\ next.channel \in Positive /\ next.channel \in Nat
    BY DEF CarryOK, LibraryInv, Positive
  <1>5. c \in 1..acc2.next - 1 /\ acc2.next \in Nat /\ acc.next <= acc2.next
    <2>1. c \in 1..next.channel - 1 \/ c = acc.next
      BY <1>2, <1>3 DEF MayCarry, Carrying, Members, LibraryInv, MembersOK, OrderOK
    <2>. QED  BY <1>3, <1>4, <2>1 DEF Positive
  <1>6. OrderOK(acc2.order, acc2.next)
    <2>1. OrderOK(acc.order, acc2.next)
      BY <1>4, <1>5, OrderGrows DEF CarryOK
    <2>. QED  BY <1>3, <1>5, <2>1 DEF OrderOK, With
  <1>7. PICK new : new = [group |-> g, channel |-> c, row |-> r, identity |-> Identity(r)]
    OBVIOUS
  <1>8. MemberForm(new) /\ new.group = g /\ new.channel = c /\ new.row = r /\ new.identity = Identity(r)
    BY <1>7 DEF MemberForm
  <1>9. MembersOK(acc2.member, acc2.next)
    <2>1. MembersOK(acc.member, acc2.next)
      BY <1>4, <1>5, MembersGrow DEF CarryOK
    <2>. QED  BY <1>3, <1>5, <1>7, <1>8, <2>1 DEF MembersOK
  <1>10. acc2.seen \subseteq acc2.claimed /\ acc2.claimed \subseteq 1..acc2.next - 1 /\ Managed(g) \subseteq acc2.claimed
    <2>1. acc.seen \subseteq acc.claimed /\ acc.claimed \subseteq 1..acc.next - 1 /\ Managed(g) \subseteq acc.claimed
      BY DEF CarryOK
    <2>2. 1..acc.next - 1 \subseteq 1..acc2.next - 1
      BY <1>4, <1>5
    <2>. QED  BY <1>3, <1>5, <2>1, <2>2
  <1>11. \A m, k \in acc2.member : m.group = k.group /\ m.channel = k.channel => m = k
    BY <1>3, <1>7, <1>8 DEF CarryOK
  <1>12. {rows[k] : k \in 1..i} = {rows[k] : k \in 1..i - 1} \cup {r}
    <2>1. 1..i = (1..i - 1) \cup {i}
      OBVIOUS
    <2>. QED  BY <1>1, <2>1
  <1>13. \A m \in acc2.member :
            \/ m \in member /\ (m.group = g => m.channel \notin acc2.seen)
            \/ m.group = g /\ m.channel \in acc2.seen /\ m.row \in {rows[k] : k \in 1..i}
    <2>1. ASSUME NEW m \in others
          PROVE  \/ m \in member /\ (m.group = g => m.channel \notin acc2.seen)
                 \/ m.group = g /\ m.channel \in acc2.seen /\ m.row \in {rows[k] : k \in 1..i}
      <3>1. m \in acc.member /\ (m.group = g => m.channel # c)
        BY <1>3
      <3>2. \/ m \in member /\ (m.group = g => m.channel \notin acc.seen)
            \/ m.group = g /\ m.channel \in acc.seen /\ m.row \in {rows[k] : k \in 1..i - 1}
        BY <3>1 DEF CarryOK
      <3>. QED  BY <1>3, <1>12, <3>1, <3>2
    <2>2. new.group = g /\ new.channel \in acc2.seen /\ new.row \in {rows[k] : k \in 1..i}
      BY <1>3, <1>8, <1>12
    <2>. QED  BY <1>3, <1>7, <2>1, <2>2
  <1>14. \A m \in Members(g) : m.row \in {rows[k] : k \in 1..i} => m.channel \in acc2.seen
    <2>. SUFFICES ASSUME NEW m \in Members(g), m.row \in {rows[k] : k \in 1..i}
                  PROVE  m.channel \in acc2.seen
      OBVIOUS
    <2>1. CASE m.row \in {rows[k] : k \in 1..i - 1}
      BY <1>3, <2>1 DEF CarryOK
    <2>2. CASE m.row = r
      <3>1. m \in Carrying(g, r) /\ \A k \in Carrying(g, r) : k \in member /\ k.group = g /\ k.row = r
        BY <2>2 DEF Carrying, Members
      <3>2. \A k \in Carrying(g, r) : k = m
        BY <1>1, <2>2, <3>1 DEF LibraryInv, Distinct, Members, Positive
      <3>3. c = m.channel
        BY <1>3, <3>1, <3>2 DEF MayCarry
      <3>. QED  BY <1>3, <3>3
    <2>. QED  BY <1>12, <2>1, <2>2
  <1>15. ASSUME ~acc2.failed
         PROVE  Distinct(acc2.member)
    <2>1. ~acc.failed /\ \A m \in others : m.group = g => m.identity # Identity(r)
      BY <1>3, <1>15
    <2>2. Distinct(acc.member)
      BY <2>1 DEF CarryOK
    <2>3. ASSUME NEW m \in others, m.group = g
          PROVE  m.channel # c /\ m.identity # Identity(r) /\ m.row # r
      <3>1. m.channel # c /\ m.identity # Identity(r) /\ m \in acc.member
        BY <1>3, <2>1, <2>3
      <3>2. m.row # r
        <4>1. CASE m \in member
          <5>1. m \in Members(g)
            BY <2>3, <4>1 DEF Members
          <5>2. ASSUME m.row = r
                PROVE  FALSE
            <6>1. m \in Carrying(g, r) /\ \A k \in Carrying(g, r) : k \in member /\ k.group = g /\ k.row = r
              BY <5>1, <5>2 DEF Carrying, Members
            <6>2. \A k \in Carrying(g, r) : k = m
              BY <1>1, <2>3, <5>2, <6>1 DEF LibraryInv, Distinct, Positive
            <6>3. c = m.channel
              BY <1>3, <6>1, <6>2 DEF MayCarry
            <6>. QED  BY <3>1, <6>3
          <5>. QED  BY <5>2
        <4>2. CASE m.row \in {rows[k] : k \in 1..i - 1}
          <5>1. PICK k \in 1..i - 1 : m.row = rows[k]
            BY <4>2
          <5>2. k \in 1..n /\ k < i /\ rows[k] \in Nat /\ rows[i] \in Nat
            BY RowsFinite DEF Positive
          <5>. QED  BY <1>1, <5>1, <5>2
        <4>. QED  BY <3>1, <4>1, <4>2 DEF CarryOK
      <3>. QED  BY <3>1, <3>2
    <2>4. Distinct(others)
      BY <1>3, <2>2 DEF Distinct
    <2>. QED  BY <1>3, <1>7, <1>8, <2>3, <2>4 DEF Distinct
  <1>16. CarryOK(acc2, g, rows, i)
    BY <1>4, <1>5, <1>6, <1>9, <1>10, <1>11, <1>13, <1>14, <1>15 DEF CarryOK
  <1>. QED  BY <1>1, <1>3, <1>16

(* All rounds of a synchronisation of group g with source group s.         *)
SyncRecord(n, rows, a, g, s) ==
    /\ rows \in [1..n -> RowsOf(s)] /\ rows \in [1..n -> DOMAIN row] /\ rows \in [1..n -> Nat]
    /\ \A k, l \in 1..n : k < l => rows[k] < rows[l]
    /\ \A r \in RowsOf(s) : \E k \in 1..n : rows[k] = r
    /\ a[0] = CarryStart(g)
    /\ \A i \in 1..n : a[i] = Carry(g, a[i - 1], rows[i], i)
    /\ a[n] = Carried(g, s)

LEMMA SyncRounds ==
    ASSUME LibraryInv, NEW g, NEW s
    PROVE  \E n \in Nat : \E rows, a : SyncRecord(n, rows, a, g, s)
  <1>1. RowsOf(s) \subseteq DOMAIN row
    BY DEF RowsOf
  <1>2. IsFiniteSet(RowsOf(s)) /\ RowsOf(s) \subseteq Nat /\ DOMAIN row \subseteq Nat
    BY <1>1, RowsFinite, FS_Subset DEF Positive
  <1>3a. PICK n \in Nat : n = Cardinality(RowsOf(s))
    BY <1>2, FS_CardinalityType
  <1>3. PICK rows, a : n = Cardinality(RowsOf(s)) /\ rows = Ascending(RowsOf(s)) /\ a = CarriedUpTo(g, rows)
    BY <1>3a
  <1>4. /\ rows \in [1..n -> RowsOf(s)]
        /\ \A k, l \in 1..n : k < l => rows[k] < rows[l]
        /\ \A r \in RowsOf(s) : \E k \in 1..n : rows[k] = r
    BY <1>2, <1>3, AscendingLists
  <1>5. Len(rows) = n
    BY <1>4
  <1>6. a[0] = CarryStart(g) /\ \A i \in 1..n : a[i] = Carry(g, a[i - 1], rows[i], i)
    BY <1>3, <1>5, CarryRounds
  <1>7. a[n] = Carried(g, s)
    BY <1>3 DEF Carried
  <1>8. rows \in [1..n -> DOMAIN row] /\ rows \in [1..n -> Nat]
    BY <1>1, <1>2, <1>4
  <1>9. SyncRecord(n, rows, a, g, s)
    BY <1>4, <1>6, <1>7, <1>8 DEF SyncRecord
  <1>. QED  BY <1>9

LEMMA CarriedOK ==
    ASSUME LibraryInv, NEW g \in StudioGroups, NEW s, NEW n \in Nat, NEW rows, NEW a, SyncRecord(n, rows, a, g, s)
    PROVE  \A i \in 0..n : CarryOK(a[i], g, rows, i)
  <1>1. PICK T : T = {i \in 0..n : CarryOK(a[i], g, rows, i)}
    OBVIOUS
  <1>2. 0 \in T
    BY <1>1, CarryStartsOK DEF SyncRecord
  <1>3. ASSUME NEW m \in 0..n, m \in T, m < n
        PROVE  m + 1 \in T
    <2>1. PICK i \in 1..n : i = m + 1
      BY <1>3
    <2>2. i - 1 = m /\ CarryOK(a[i - 1], g, rows, i - 1)
      BY <1>1, <1>3, <2>1
    <2>3. CarryOK(Carry(g, a[i - 1], rows[i], i), g, rows, i)
      BY <2>2, CarryKeepsOK DEF SyncRecord
    <2>4. CarryOK(a[i], g, rows, i)
      BY <2>3 DEF SyncRecord
    <2>. QED  BY <1>1, <2>1, <2>4
  <1>4. 0..n \subseteq T
    BY <1>2, <1>3, InductionTo
  <1>. QED  BY <1>1, <1>4

LEMMA CarriedIsOK ==
    ASSUME LibraryInv, NEW g \in StudioGroups, NEW s
    PROVE  \E n \in Nat : \E rows : rows \in [1..n -> RowsOf(s)] /\ CarryOK(Carried(g, s), g, rows, n)
  <1>1a. PICK n \in Nat : \E rows, a : SyncRecord(n, rows, a, g, s)
    BY SyncRounds
  <1>1. PICK rows, a : SyncRecord(n, rows, a, g, s)
    BY <1>1a
  <1>2. CarryOK(a[n], g, rows, n)
    BY <1>1, CarriedOK
  <1>. QED  BY <1>1, <1>2 DEF SyncRecord

(* A synchronisation that commits keeps the tables in order.               *)
LEMMA CommitKeepsLibraryInv ==
    ASSUME LibraryInv, PauseInv, NEW j \in Syncs, SyncCommits(j)
    PROVE  LibraryInv'
  <1>1. PICK g, s, acc, gone, lost : /\ g = sync[j].group /\ s = sync[j].source /\ acc = Carried(g, s)
                                     /\ gone = Unseen(g, acc) /\ lost = Unshared(g, gone)
    OBVIOUS
  <1>2. /\ sync[j].pc = "commit" /\ ~acc.failed
        /\ place' = [h \in StudioGroups |-> IF h = g THEN WithoutChannels(acc.order, gone) ELSE place[h]]
        /\ member' = KeptMembers({m \in acc.member : ~(m.group = g /\ m.channel \in gone)}, lost)
        /\ next' = [next EXCEPT !.channel = acc.next]
        /\ UNCHANGED <<row, edit>>
    BY <1>1 DEF SyncCommits
  <1>3. g \in StudioGroups
    BY <1>1, <1>2 DEF PauseInv, NoSync
  <1>4a. PICK n \in Nat : \E rows : CarryOK(acc, g, rows, n)
    BY <1>1, <1>3, CarriedIsOK
  <1>4. PICK rows : CarryOK(acc, g, rows, n)
    BY <1>4a
  <1>5. acc.next \in Nat /\ next.channel <= acc.next /\ next.channel \in Nat /\ next.channel > 0
    BY <1>4 DEF CarryOK, LibraryInv, Positive
  <1>6. next' \in [row : Positive, channel : Positive, changes : Nat] /\ next'.row = next.row /\ next'.channel = acc.next
    <2>1. acc.next \in Positive
      BY <1>5 DEF Positive
    <2>. QED  BY <1>2, <2>1 DEF LibraryInv
  <1>7. \A h \in StudioGroups : OrderOK(place'[h], acc.next)
    <2>1. OrderOK(WithoutChannels(acc.order, gone), acc.next)
      BY <1>4, WithoutKeepsOrder DEF CarryOK
    <2>2. \A h \in StudioGroups : OrderOK(place[h], acc.next)
      BY <1>5, OrderGrows DEF LibraryInv
    <2>. QED  BY <1>2, <2>1, <2>2
  <1>8. place' = [h \in StudioGroups |-> place'[h]]
    BY <1>2
  <1>9. MembersOK(member', acc.next) /\ Distinct(member')
    <2>1. MembersOK(acc.member, acc.next) /\ Distinct(acc.member)
      BY <1>2, <1>4 DEF CarryOK
    <2>2. member' \subseteq acc.member
      BY <1>2 DEF KeptMembers
    <2>. QED  BY <2>1, <2>2, FewerMembers
  <1>. QED  BY <1>2, <1>6, <1>7, <1>8, <1>9 DEF LibraryInv, MembersOK, OrderOK

LEMMA SyncKeepsLibraryInv ==
    ASSUME LibraryInv, PauseInv,
           \/ \E j \in Syncs, g \in StudioGroups : SyncReads(j, g)
           \/ \E j \in Syncs : SyncMarks(j) \/ SyncCommits(j) \/ SyncFails(j)
    PROVE  LibraryInv'
  <1>1. next \in [row : Positive, channel : Positive, changes : Nat]
    BY DEF LibraryInv
  <1>2. ASSUME NEW j \in Syncs, NEW g \in StudioGroups, SyncReads(j, g)
        PROVE  LibraryInv'
    BY <1>1, <1>2, UnseenByLibrary DEF SyncReads
  <1>3. ASSUME NEW j \in Syncs, SyncMarks(j) \/ SyncFails(j)
        PROVE  LibraryInv'
    BY <1>1, <1>3, UnseenByLibrary DEF SyncMarks, SyncFails
  <1>. QED  BY <1>2, <1>3, CommitKeepsLibraryInv

LEMMA LibraryStarts == SourceGroupsInit => LibraryInv
  <1>. SUFFICES ASSUME SourceGroupsInit
                PROVE  LibraryInv
    OBVIOUS
  <1>1. DOMAIN row = 1..2
    BY DEF SourceGroupsInit
  <1>2. DOMAIN row = 1..2 /\ next = [row |-> 3, channel |-> 1, changes |-> 0] /\ member = {} /\ edit = NoEdit
        /\ place = [g \in StudioGroups |-> <<>>]
    BY <1>1 DEF SourceGroupsInit
  <1>3. next \in [row : Positive, channel : Positive, changes : Nat] /\ next.row = 3 /\ next.channel = 1
    BY <1>2 DEF Positive
  <1>4. 1..2 \subseteq 1..3 - 1
    OBVIOUS
  <1>5. \A g \in StudioGroups : place[g] = <<>> /\ DOMAIN place[g] = {}
    BY <1>2
  <1>. QED  BY <1>2, <1>3, <1>4, <1>5 DEF LibraryInv, OrderOK, MembersOK, Distinct

LEMMA LibraryStep ==
    ASSUME LibraryInv, PauseInv, [SourceGroupsNext]_sgvars
    PROVE  LibraryInv'
  <1>1. CASE UNCHANGED sgvars
    BY <1>1 DEF sgvars, LibraryInv, OrderOK, MembersOK, MemberForm, Distinct
  <1>2. CASE \/ \E s \in Sources, on \in BOOLEAN : SetSourceGroupEnabled(s, on)
             \/ \E g \in StudioGroups, s \in Sources \cup {Nothing} : CreateStudioGroup(g, s)
             \/ \E g \in StudioGroups, s \in Sources : SetSourceGroupLink(g, s)
             \/ \E g \in StudioGroups : DeleteStudioGroup(g)
             \/ \E g \in StudioGroups, at \in 0..Cardinality(StudioGroups) : MoveWorkspaceGroup(g, at)
             \/ \E g \in StudioGroups, retain \in BOOLEAN : DisconnectSourceGroup(g, retain)
             \/ \E g \in StudioGroups, s \in Sources : CopySourceGroupToLineup(g, s)
             \/ \E g \in StudioGroups, s \in Sources : AddSourceGroupToStudioGroup(g, s)
    <2>1. ASSUME NEW s \in Sources, NEW on \in BOOLEAN, SetSourceGroupEnabled(s, on)
          PROVE  LibraryInv'
      BY <2>1, ChangedKeepsNext, UnseenByLibrary DEF SetSourceGroupEnabled, Changed
    <2>. QED  BY <1>2, <2>1, StudioKeepsLibraryInv
  <1>3. CASE SourceGroupsNext
    BY <1>2, <1>3, RefreshKeepsLibraryInv, EditKeepsLibraryInv, SyncKeepsLibraryInv DEF SourceGroupsNext
  <1>. QED  BY <1>1, <1>3

MemberOf(g, c, r) == [group |-> g, channel |-> c, row |-> r, identity |-> Identity(r)]
VariantOf(c, r) == [channel |-> c, row |-> r, method |-> "sync"]

(* Without a contested identity, i rounds have given the first i rows      *)
(* channels cs[1], ..., cs[i] of their own.                                *)
OwnChannels(acc, g, rows, cs, i) ==
    /\ ~acc.failed
    /\ acc.seen = {cs[k] : k \in 1..i}
    /\ \A k, l \in 1..i : k # l => cs[k] # cs[l]
    /\ \A k \in 1..i :
          /\ cs[k] \in DOMAIN acc.order /\ acc.order[cs[k]] = k
          /\ MemberOf(g, cs[k], rows[k]) \in acc.member
          /\ VariantOf(cs[k], rows[k]) \in acc.variant
          /\ (\E m \in Carrying(g, rows[k]) : cs[k] = m.channel) \/ cs[k] \notin Managed(g)

RowsOwn(acc, g, rows, i) == CarryOK(acc, g, rows, i) /\ \E cs : OwnChannels(acc, g, rows, cs, i)

(* A row has one carrying member, and no two rows have the same.           *)
LEMMA OneCarrier ==
    ASSUME LibraryInv, NEW g, NEW s, ~Contested(g, s), NEW r \in RowsOf(s), NEW q \in RowsOf(s),
           NEW m \in Carrying(g, r), NEW n \in Carrying(g, q), m.channel = n.channel
    PROVE  r = q
  <1>. SUFFICES ASSUME r # q
                PROVE  FALSE
    OBVIOUS
  <1>1. m \in member /\ m.group = g /\ n \in member /\ n.group = g
    BY DEF Carrying, Members
  <1>2. m = n
    BY <1>1 DEF LibraryInv, Distinct
  <1>3. m.row = r \/ (m.identity = Identity(r) /\ \A k \in Members(g) : k.row # r)
    BY DEF Carrying
  <1>4. m.row = q \/ (m.identity = Identity(q) /\ \A k \in Members(g) : k.row # q)
    BY <1>2 DEF Carrying
  <1>5. m \in Members(g)
    BY <1>1 DEF Members
  <1>6. CASE m.row = r
    <2>1. m.identity = Identity(q) /\ m.row # q /\ m.row \in RowsOf(s)
      BY <1>4, <1>6
    <2>. QED  BY <1>5, <2>1 DEF Contested
  <1>7. CASE m.row = q
    <2>1. m.identity = Identity(r) /\ m.row # r /\ m.row \in RowsOf(s)
      BY <1>3, <1>7
    <2>. QED  BY <1>5, <2>1 DEF Contested
  <1>8. CASE m.row # r /\ m.row # q
    BY <1>3, <1>4, <1>8, IdentitiesDiffer
  <1>. QED  BY <1>6, <1>7, <1>8

(* A member with a row's identity is the one that carries the row.         *)
LEMMA IdentityCarries ==
    ASSUME NEW g, NEW s, ~Contested(g, s), NEW r \in RowsOf(s), NEW m \in Members(g), m.identity = Identity(r)
    PROVE  m \in Carrying(g, r)
  <1>1. CASE m.row = r
    BY <1>1 DEF Carrying
  <1>2. CASE m.row # r
    <2>1. \A n \in Members(g) : n.row # r
      BY <1>2 DEF Contested
    <2>. QED  BY <2>1 DEF Carrying
  <1>. QED  BY <1>1, <1>2

LEMMA CarriersAreOne ==
    ASSUME LibraryInv, NEW g, NEW r, r # 0, NEW m \in Carrying(g, r), NEW n \in Carrying(g, r)
    PROVE  m = n
  <1>1. m \in member /\ m.group = g /\ n \in member /\ n.group = g
    BY DEF Carrying, Members
  <1>2. (m.row = r /\ n.row = r) \/ m.identity = n.identity
    BY DEF Carrying
  <1>. QED  BY <1>1, <1>2 DEF LibraryInv, Distinct

LEMMA OwnStarts ==
    ASSUME LibraryInv, NEW g \in StudioGroups, NEW rows
    PROVE  RowsOwn(CarryStart(g), g, rows, 0)
  <1>1. PICK acc : acc = CarryStart(g)
    OBVIOUS
  <1>2. acc.seen = {} /\ acc.failed = FALSE
    BY <1>1 DEF CarryStart
  <1>3. 1..0 = {} /\ {<<>>[k] : k \in 1..0} = {}
    OBVIOUS
  <1>4. OwnChannels(acc, g, rows, <<>>, 0)
    BY <1>2, <1>3 DEF OwnChannels
  <1>. QED  BY <1>1, <1>4, CarryStartsOK DEF RowsOwn

LEMMA CarryKeepsOwn ==
    ASSUME LibraryInv, NEW g \in StudioGroups, NEW s, ~Contested(g, s), NEW n \in Nat, NEW rows, NEW a,
           SyncRecord(n, rows, a, g, s), NEW i \in 1..n, NEW acc, RowsOwn(acc, g, rows, i - 1)
    PROVE  RowsOwn(Carry(g, acc, rows[i], i), g, rows, i)
  <1>1. PICK r : r = rows[i] /\ r \in RowsOf(s) /\ r \in Positive /\ r \in Nat
    <2>1. rows[i] \in RowsOf(s) /\ rows[i] \in DOMAIN row
      BY DEF SyncRecord
    <2>. QED  BY <2>1, RowsFinite DEF Positive
  <1>2. CarryOK(acc, g, rows, i - 1)
    BY DEF RowsOwn
  <1>3. PICK cs : OwnChannels(acc, g, rows, cs, i - 1)
    BY DEF RowsOwn
  <1>4. PICK c : c = Carrier(g, acc, r) /\ MayCarry(acc, g, r, c)
    BY CarrierMay DEF LibraryInv
  <1>5. PICK acc2 : acc2 = Carry(g, acc, r, i) /\ acc2 = CarryBy(g, acc, r, i, c)
    BY <1>4 DEF Carry
  <1>6. CarryOK(acc2, g, rows, i)
    <2>1. rows \in [1..n -> DOMAIN row] /\ \A k, l \in 1..n : k < l => rows[k] < rows[l]
      BY DEF SyncRecord
    <2>2. CarryOK(Carry(g, acc, rows[i], i), g, rows, i)
      BY <1>2, <2>1, CarryKeepsOK
    <2>. QED  BY <1>1, <1>5, <2>2
  <1>7. \A k \in 1..i - 1 : k \in 1..n /\ k < i /\ rows[k] \in RowsOf(s) /\ rows[k] < r /\ rows[k] # r
    <2>. TAKE k \in 1..i - 1
    <2>1. k \in 1..n /\ k < i
      OBVIOUS
    <2>2. rows[k] \in RowsOf(s) /\ rows[k] \in Nat /\ rows[k] < rows[i]
      BY <2>1 DEF SyncRecord
    <2>. QED  BY <1>1, <2>1, <2>2
  <1>8. acc.seen \subseteq acc.claimed /\ acc.claimed \subseteq 1..acc.next - 1 /\ Managed(g) \subseteq acc.claimed /\ acc.next \in Nat
    BY <1>2 DEF CarryOK
  <1>9. (\E m \in Carrying(g, r) : c = m.channel) \/ (c \notin Managed(g) /\ c \notin acc.claimed)
    BY <1>4, <1>8 DEF MayCarry
  <1>10. \A k \in 1..i - 1 : cs[k] # c
    <2>. SUFFICES ASSUME NEW k \in 1..i - 1, cs[k] = c
                  PROVE  FALSE
      OBVIOUS
    <2>1. c \in acc.seen
      BY <1>3 DEF OwnChannels
    <2>2. PICK m \in Carrying(g, r) : c = m.channel
      BY <1>8, <1>9, <2>1
    <2>3. c \in Managed(g)
      BY <2>2 DEF Managed, Carrying
    <2>4. PICK q \in Carrying(g, rows[k]) : c = q.channel
      BY <1>3, <2>3 DEF OwnChannels
    <2>. QED  BY <1>1, <1>7, <2>2, <2>4, OneCarrier
  <1>11. ~acc2.failed
    <2>. SUFFICES ASSUME NEW m \in OthersOf(g, acc, c), m.group = g, m.identity = Identity(r)
                  PROVE  FALSE
      <3>1. acc2.failed = (acc.failed \/ \E m \in OthersOf(g, acc, c) : m.group = g /\ m.identity = Identity(r))
        BY <1>5 DEF CarryBy
      <3>2. ~acc.failed
        BY <1>3 DEF OwnChannels
      <3>. QED  BY <3>1, <3>2, Zenon
    <2>1. m \in acc.member /\ m.channel # c
      BY DEF OthersOf
    <2>2. CASE m \in member
      <3>1. m \in Carrying(g, r)
        BY <1>1, <2>2, IdentityCarries DEF Members
      <3>2. PICK q \in Carrying(g, r) : c = q.channel
        BY <1>4, <3>1 DEF MayCarry
      <3>3. q = m
        BY <1>1, <3>1, <3>2, CarriersAreOne DEF Positive
      <3>. QED  BY <2>1, <3>2, <3>3
    <2>3. CASE m.channel \in acc.seen
      <3>1. PICK k \in 1..i - 1 : m.channel = cs[k]
        BY <1>3, <2>3 DEF OwnChannels
      <3>2. MemberOf(g, cs[k], rows[k]) \in acc.member
        BY <1>3 DEF OwnChannels
      <3>3. m = MemberOf(g, cs[k], rows[k])
        BY <1>2, <2>1, <3>1, <3>2 DEF CarryOK, MemberOf
      <3>4. Identity(rows[k]) = Identity(r)
        BY <3>3 DEF MemberOf
      <3>. QED  BY <1>1, <1>7, <3>4, IdentitiesDiffer
    <2>. QED  BY <1>2, <2>1, <2>2, <2>3 DEF CarryOK
  <1>12. PICK ds : ds = [k \in 1..i |-> IF k = i THEN c ELSE cs[k]]
    OBVIOUS
  <1>13. ds[i] = c /\ i \in 1..i /\ \A k \in 1..i - 1 : k \in 1..i /\ ds[k] = cs[k]
    BY <1>12
  <1>14. \A k \in 1..i : k = i \/ k \in 1..i - 1
    OBVIOUS
  <1>15. acc2.seen = {ds[k] : k \in 1..i}
    <2>1. acc2.seen = acc.seen \cup {c}
      BY <1>5 DEF CarryBy
    <2>2. acc.seen = {cs[k] : k \in 1..i - 1}
      BY <1>3 DEF OwnChannels
    <2>. QED  BY <2>1, <2>2, <1>13, <1>14
  <1>16. \A k, l \in 1..i : k # l => ds[k] # ds[l]
    <2>1. \A k, l \in 1..i - 1 : k # l => cs[k] # cs[l]
      BY <1>3 DEF OwnChannels
    <2>. QED  BY <1>10, <1>13, <1>14, <2>1
  <1>17. \A k \in 1..i : ds[k] \in DOMAIN acc2.order /\ acc2.order[ds[k]] = k
    <2>1. acc2.order = With(acc.order, c, i)
      BY <1>5 DEF CarryBy
    <2>2. \A k \in 1..i - 1 : cs[k] \in DOMAIN acc.order /\ acc.order[cs[k]] = k
      BY <1>3 DEF OwnChannels
    <2>. QED  BY <1>10, <1>13, <1>14, <2>1, <2>2 DEF With
  <1>18. \A k \in 1..i : MemberOf(g, ds[k], rows[k]) \in acc2.member
    <2>1. acc2.member = OthersOf(g, acc, c) \cup {MemberOf(g, c, r)}
      BY <1>5 DEF CarryBy, MemberOf
    <2>2. \A k \in 1..i - 1 : MemberOf(g, cs[k], rows[k]) \in OthersOf(g, acc, c)
      <3>. TAKE k \in 1..i - 1
      <3>1. MemberOf(g, cs[k], rows[k]) \in acc.member
        BY <1>3 DEF OwnChannels
      <3>2. MemberOf(g, cs[k], rows[k]).channel = cs[k]
        BY DEF MemberOf
      <3>. QED  BY <1>10, <3>1, <3>2 DEF OthersOf
    <2>. QED  BY <1>1, <1>13, <1>14, <2>1, <2>2
  <1>19. \A k \in 1..i : VariantOf(ds[k], rows[k]) \in acc2.variant
    <2>1. acc2.variant = KeptVariants(acc.variant, {c}) \cup {VariantOf(c, r)}
      BY <1>5 DEF CarryBy, VariantOf
    <2>2. \A k \in 1..i - 1 : VariantOf(cs[k], rows[k]) \in KeptVariants(acc.variant, {c})
      <3>. TAKE k \in 1..i - 1
      <3>1. VariantOf(cs[k], rows[k]) \in acc.variant
        BY <1>3 DEF OwnChannels
      <3>2. VariantOf(cs[k], rows[k]).channel = cs[k]
        BY DEF VariantOf
      <3>. QED  BY <1>10, <3>1, <3>2 DEF KeptVariants
    <2>. QED  BY <1>1, <1>13, <1>14, <2>1, <2>2
  <1>20. \A k \in 1..i : (\E m \in Carrying(g, rows[k]) : ds[k] = m.channel) \/ ds[k] \notin Managed(g)
    BY <1>1, <1>3, <1>9, <1>13, <1>14 DEF OwnChannels
  <1>21. OwnChannels(acc2, g, rows, ds, i)
    BY <1>11, <1>15, <1>16, <1>17, <1>18, <1>19, <1>20 DEF OwnChannels
  <1>. QED  BY <1>1, <1>5, <1>6, <1>21 DEF RowsOwn

LEMMA UncontestedOwn ==
    ASSUME LibraryInv, NEW g \in StudioGroups, NEW s, ~Contested(g, s), NEW n \in Nat, NEW rows, NEW a,
           SyncRecord(n, rows, a, g, s)
    PROVE  RowsOwn(Carried(g, s), g, rows, n)
  <1>1. PICK T : T = {i \in 0..n : RowsOwn(a[i], g, rows, i)}
    OBVIOUS
  <1>2. 0 \in T
    BY <1>1, OwnStarts DEF SyncRecord
  <1>3. ASSUME NEW m \in 0..n, m \in T, m < n
        PROVE  m + 1 \in T
    <2>1. PICK i \in 1..n : i = m + 1
      BY <1>3
    <2>2. i - 1 = m /\ RowsOwn(a[i - 1], g, rows, i - 1)
      BY <1>1, <1>3, <2>1
    <2>3. RowsOwn(Carry(g, a[i - 1], rows[i], i), g, rows, i)
      BY <2>2, CarryKeepsOwn
    <2>4. RowsOwn(a[i], g, rows, i)
      BY <2>3 DEF SyncRecord
    <2>. QED  BY <1>1, <2>1, <2>4
  <1>4. 0..n \subseteq T
    BY <1>2, <1>3, InductionTo
  <1>5. n \in T
    BY <1>4
  <1>. QED  BY <1>1, <1>5 DEF SyncRecord

(* What SyncFollowsSource says of one synchronisation.                     *)
Follows(j, g, s) ==
    \/ Contested(g, s)
    \/ sync'[j].pc = "mark" /\ (~Linked(g) \/ RowsOf(s) = {})
    \/ /\ sync'[j] = NoSync
       /\ {m.row : m \in {n \in member' : n.group = g}} = RowsOf(s)
       /\ \A m, n \in member' : m.group = g /\ n.group = g /\ m.row < n.row =>
              m.channel # n.channel /\ place'[g][m.channel] < place'[g][n.channel]
       /\ \A m \in member' : m.group = g => [channel |-> m.channel, row |-> m.row, method |-> "sync"] \in variant'

LEMMA CommitFollows ==
    ASSUME LibraryInv, PauseInv, NEW j \in Syncs, SyncCommits(j), NEW g, NEW s, g = sync[j].group, s = sync[j].source
    PROVE  Follows(j, g, s)
  <1>. SUFFICES ASSUME ~Contested(g, s)
                PROVE  /\ sync'[j] = NoSync
                       /\ {m.row : m \in {n \in member' : n.group = g}} = RowsOf(s)
                       /\ \A m, n \in member' : m.group = g /\ n.group = g /\ m.row < n.row =>
                              m.channel # n.channel /\ place'[g][m.channel] < place'[g][n.channel]
                       /\ \A m \in member' : m.group = g => [channel |-> m.channel, row |-> m.row, method |-> "sync"] \in variant'
    BY DEF Follows
  <1>1. PICK acc, gone, lost : acc = Carried(g, s) /\ gone = Unseen(g, acc) /\ lost = Unshared(g, gone)
    OBVIOUS
  <1>2. /\ sync[j].pc = "commit"
        /\ place' = [h \in StudioGroups |-> IF h = g THEN WithoutChannels(acc.order, gone) ELSE place[h]]
        /\ member' = KeptMembers({m \in acc.member : ~(m.group = g /\ m.channel \in gone)}, lost)
        /\ variant' = KeptVariants({IF v.channel \in gone THEN ManualFrom(v) ELSE v : v \in acc.variant}, lost)
        /\ sync' = [sync EXCEPT ![j] = NoSync]
    BY <1>1 DEF SyncCommits
  <1>3. g \in StudioGroups
    BY <1>2 DEF PauseInv, NoSync
  <1>4. sync'[j] = NoSync
    BY <1>2 DEF PauseInv
  <1>5a. PICK n \in Nat : \E rows, a : SyncRecord(n, rows, a, g, s)
    BY SyncRounds
  <1>5. PICK rows, a : SyncRecord(n, rows, a, g, s)
    BY <1>5a
  <1>6. CarryOK(acc, g, rows, n) /\ \E ds : OwnChannels(acc, g, rows, ds, n)
    BY <1>1, <1>3, <1>5, UncontestedOwn DEF RowsOwn
  <1>7. PICK cs : OwnChannels(acc, g, rows, cs, n)
    BY <1>6
  <1>8. gone = Managed(g) \ acc.seen /\ lost \subseteq gone
    BY <1>1 DEF Unseen, Managed, Unshared
  <1>9. \A k \in 1..n : cs[k] \in acc.seen /\ cs[k] \notin gone /\ cs[k] \notin lost
    BY <1>7, <1>8 DEF OwnChannels
  <1>10. ASSUME NEW k \in 1..n
         PROVE  /\ MemberOf(g, cs[k], rows[k]) \in member'
                /\ VariantOf(cs[k], rows[k]) \in variant'
                /\ place'[g][cs[k]] = k
    <2>1. MemberOf(g, cs[k], rows[k]) \in acc.member /\ MemberOf(g, cs[k], rows[k]).channel = cs[k]
      BY <1>7 DEF OwnChannels, MemberOf
    <2>2. VariantOf(cs[k], rows[k]) \in acc.variant /\ VariantOf(cs[k], rows[k]).channel = cs[k]
      BY <1>7 DEF OwnChannels, VariantOf
    <2>3. MemberOf(g, cs[k], rows[k]) \in member'
      BY <1>2, <1>9, <2>1 DEF KeptMembers
    <2>4. VariantOf(cs[k], rows[k]) \in variant'
      BY <1>2, <1>9, <2>2 DEF KeptVariants
    <2>5. cs[k] \in DOMAIN acc.order /\ acc.order[cs[k]] = k
      BY <1>7 DEF OwnChannels
    <2>6. place'[g] = WithoutChannels(acc.order, gone)
      BY <1>2, <1>3
    <2>7. place'[g][cs[k]] = k
      BY <1>9, <2>5, <2>6 DEF WithoutChannels
    <2>. QED  BY <2>3, <2>4, <2>7
  <1>11. ASSUME NEW m \in member', m.group = g
         PROVE  \E k \in 1..n : m = MemberOf(g, cs[k], rows[k])
    <2>1. m \in acc.member /\ m.channel \notin gone
      BY <1>2, <1>11 DEF KeptMembers
    <2>2. m.channel \in acc.seen
      <3>1. ASSUME m \in member
            PROVE  m.channel \in Managed(g)
        BY <1>11, <3>1 DEF Managed, Members
      <3>. QED  BY <1>6, <1>8, <2>1, <3>1 DEF CarryOK
    <2>3. PICK k \in 1..n : m.channel = cs[k]
      BY <1>7, <2>2 DEF OwnChannels
    <2>4. MemberOf(g, cs[k], rows[k]) \in acc.member
      BY <1>7 DEF OwnChannels
    <2>5. MemberOf(g, cs[k], rows[k]).group = g /\ MemberOf(g, cs[k], rows[k]).channel = cs[k]
      BY DEF MemberOf
    <2>6. m = MemberOf(g, cs[k], rows[k])
      BY <1>6, <1>11, <2>1, <2>3, <2>4, <2>5 DEF CarryOK
    <2>. QED  BY <2>6
  <1>12. \A k \in 1..n : rows[k] \in RowsOf(s) /\ rows[k] \in Nat
    BY <1>5 DEF SyncRecord
  <1>13. {m.row : m \in {p \in member' : p.group = g}} = RowsOf(s)
    <2>1. ASSUME NEW m \in member', m.group = g
          PROVE  m.row \in RowsOf(s)
      <3>1. PICK k \in 1..n : m = MemberOf(g, cs[k], rows[k])
        BY <1>11, <2>1
      <3>. QED  BY <1>12, <3>1 DEF MemberOf
    <2>2. ASSUME NEW r \in RowsOf(s)
          PROVE  \E m \in member' : m.group = g /\ m.row = r
      <3>1. PICK k \in 1..n : rows[k] = r
        BY <1>5 DEF SyncRecord
      <3>2. MemberOf(g, cs[k], rows[k]) \in member'
        BY <1>10
      <3>3. MemberOf(g, cs[k], rows[k]).group = g /\ MemberOf(g, cs[k], rows[k]).row = r
        BY <3>1 DEF MemberOf
      <3>. QED  BY <3>2, <3>3
    <2>. QED  BY <2>1, <2>2
  <1>14. ASSUME NEW m \in member', NEW p \in member', m.group = g, p.group = g, m.row < p.row
         PROVE  m.channel # p.channel /\ place'[g][m.channel] < place'[g][p.channel]
    <2>1. PICK k \in 1..n : m = MemberOf(g, cs[k], rows[k])
      BY <1>11, <1>14
    <2>2. PICK l \in 1..n : p = MemberOf(g, cs[l], rows[l])
      BY <1>11, <1>14
    <2>3. m.row = rows[k] /\ m.channel = cs[k] /\ p.row = rows[l] /\ p.channel = cs[l]
      BY <2>1, <2>2 DEF MemberOf
    <2>4. rows[k] < rows[l]
      BY <1>14, <2>3
    <2>5. k < l
      <3>1. l < k => rows[l] < rows[k]
        BY <1>5 DEF SyncRecord
      <3>. QED  BY <1>12, <2>4, <3>1
    <2>6. cs[k] # cs[l]
      BY <1>7, <2>5 DEF OwnChannels
    <2>. QED  BY <1>10, <2>3, <2>5, <2>6
  <1>15. ASSUME NEW m \in member', m.group = g
         PROVE  [channel |-> m.channel, row |-> m.row, method |-> "sync"] \in variant'
    <2>1. PICK k \in 1..n : m = MemberOf(g, cs[k], rows[k])
      BY <1>11, <1>15
    <2>2. m.row = rows[k] /\ m.channel = cs[k]
      BY <2>1 DEF MemberOf
    <2>. QED  BY <1>10, <2>2 DEF VariantOf
  <1>. QED  BY <1>4, <1>13, <1>14, <1>15

LEMMA FailFollows ==
    ASSUME LibraryInv, PauseInv, NEW j \in Syncs, SyncFails(j), NEW g, NEW s, g = sync[j].group, s = sync[j].source
    PROVE  Follows(j, g, s)
  <1>1. sync[j].pc = "commit" /\ (~Linked(g) \/ RowsOf(s) = {} \/ Carried(g, s).failed)
    BY DEF SyncFails
  <1>2. g \in StudioGroups
    BY <1>1 DEF PauseInv, NoSync
  <1>3. sync'[j].pc = "mark"
    BY DEF SyncFails, PauseInv, Running
  <1>4. ASSUME ~Contested(g, s)
        PROVE  ~Carried(g, s).failed
    <2>1a. PICK n \in Nat : \E rows, a : SyncRecord(n, rows, a, g, s)
      BY SyncRounds
    <2>1. PICK rows, a : SyncRecord(n, rows, a, g, s)
      BY <2>1a
    <2>. QED  BY <1>2, <1>4, <2>1, UncontestedOwn DEF RowsOwn, OwnChannels
  <1>. QED  BY <1>1, <1>3, <1>4 DEF Follows

LEMMA SyncStepFollows ==
    ASSUME LibraryInv, PauseInv, SourceGroupsNext, NEW j \in Syncs, sync[j].pc = "commit", sync'[j] # sync[j],
           NEW g, NEW s, g = sync[j].group, s = sync[j].source
    PROVE  Follows(j, g, s)
  <1>1. \/ sync' = sync
        \/ \E k \in Syncs, h \in StudioGroups : SyncReads(k, h)
        \/ \E k \in Syncs : SyncMarks(k) \/ SyncCommits(k) \/ SyncFails(k)
    BY DEF SourceGroupsNext, RowAppears, RowChanges, RowDeleted, PlaylistDeleted, RowsBecome, SetSourceGroupEnabled,
           CreateStudioGroup, SetSourceGroupLink, DeleteStudioGroup, MoveWorkspaceGroup, DisconnectSourceGroup,
           CopySourceGroupToLineup, AddSourceGroupToStudioGroup, Imports, BeginEdit, BatchAdd, BatchRemove, EditFails, BatchMove
  <1>2. ASSUME NEW k \in Syncs, NEW v, sync' = [sync EXCEPT ![k] = v]
        PROVE  k = j
    BY <1>2 DEF PauseInv
  <1>3. ASSUME NEW k \in Syncs, NEW h \in StudioGroups, SyncReads(k, h)
        PROVE  FALSE
    <2>1. sync[k] = NoSync /\ \E v : sync' = [sync EXCEPT ![k] = v]
      BY <1>3 DEF SyncReads
    <2>. QED  BY <1>2, <2>1 DEF NoSync
  <1>4. ASSUME NEW k \in Syncs, SyncMarks(k)
        PROVE  FALSE
    <2>1. sync[k].pc = "mark" /\ sync' = [sync EXCEPT ![k] = NoSync]
      BY <1>4 DEF SyncMarks
    <2>. QED  BY <1>2, <2>1
  <1>5. ASSUME NEW k \in Syncs, SyncCommits(k)
        PROVE  Follows(j, g, s)
    <2>1. k = j
      BY <1>2, <1>5 DEF SyncCommits
    <2>. QED  BY <1>5, <2>1, CommitFollows
  <1>6. ASSUME NEW k \in Syncs, SyncFails(k)
        PROVE  Follows(j, g, s)
    <2>1. k = j
      BY <1>2, <1>6 DEF SyncFails
    <2>. QED  BY <1>6, <2>1, FailFollows
  <1>. QED  BY <1>1, <1>3, <1>4, <1>5, <1>6

(* Ids, positions and members stay as the tables' keys and triggers keep   *)
(* them, whatever people, refreshes and synchronisations do                *)
(* (000001_create_init_tables.up.sql, source_group_sync_query.go:749).     *)
THEOREM LibrarySafety == SourceGroupsSpec => [](LibraryInv /\ PauseInv)
  <1>1. SourceGroupsInit => LibraryInv /\ PauseInv
    BY LibraryStarts, PauseStarts
  <1>2. LibraryInv /\ PauseInv /\ [SourceGroupsNext]_sgvars => (LibraryInv /\ PauseInv)'
    BY LibraryStep, PauseStep
  <1>. QED  BY <1>1, <1>2, PTL DEF SourceGroupsSpec

(* syncResolvedSourceGroup gives every row of the source group, in order,  *)
(* one channel of its own with that row as its source, and fails only      *)
(* without a row or a link, unless an identity moved between rows          *)
(* (source_group_sync_query.go:797, source_group_sync_query.go:846).       *)
THEOREM SynchronisationFollowsSource == SourceGroupsSpec => SyncFollowsSource
  <1>1. LibraryInv /\ PauseInv /\ [SourceGroupsNext]_sgvars
        => [\A j \in Syncs : sync[j].pc = "commit" /\ sync'[j] # sync[j] =>
              LET g == sync[j].group
                  s == sync[j].source
              IN \/ Contested(g, s)
                 \/ sync'[j].pc = "mark" /\ (~Linked(g) \/ RowsOf(s) = {})
                 \/ /\ sync'[j] = NoSync
                    /\ {m.row : m \in {n \in member' : n.group = g}} = RowsOf(s)
                    /\ \A m, n \in member' : m.group = g /\ n.group = g /\ m.row < n.row =>
                           m.channel # n.channel /\ place'[g][m.channel] < place'[g][n.channel]
                    /\ \A m \in member' : m.group = g => [channel |-> m.channel, row |-> m.row, method |-> "sync"] \in variant'
           ]_sgvars
    <2>. SUFFICES ASSUME LibraryInv, PauseInv, SourceGroupsNext, NEW j \in Syncs, sync[j].pc = "commit", sync'[j] # sync[j]
                  PROVE  Follows(j, sync[j].group, sync[j].source)
      BY DEF Follows
    <2>. QED  BY SyncStepFollows
  <1>. QED  BY LibrarySafety, <1>1, PTL DEF SourceGroupsSpec, SyncFollowsSource

-----------------------------------------------------------------------------
(***************************************************************************)
(* A complete refresh nobody interfered with leaves its playlist as the    *)
(* provider listed it, for any number of refreshes, entries, groups and    *)
(* batch sizes, and whatever happens to other playlists meanwhile.         *)
(*                                                                         *)
(* RefreshMirrorsFeed speaks of the last step only.  ImportInv says what a *)
(* refresh knows before: where each entry it listed is (Accounted: still   *)
(* to be looked at, in a pair, written, or of a disabled group), that the  *)
(* pairs will write it (FlightOK) and never twice (InsertsAlone), that     *)
(* what it wrote is of an enabled group (FreshOK), and which rows are left *)
(* to delete (StaleOK).  Of a refresh that was interfered with it only     *)
(* says that it writes to no other playlist (MineOK).                      *)
(***************************************************************************)

GroupForm(g) == g = [list |-> g.list, name |-> g.name, enabled |-> g.enabled]
RowForm(r) == r = [key |-> r.key, gid |-> r.gid, stamp |-> r.stamp, url |-> r.url]
ImportForm(m) ==
    /\ m = [pc |-> m.pc, kind |-> m.kind, queue |-> m.queue, start |-> m.start, before |-> m.before, listed |-> m.listed,
            todo |-> m.todo, doing |-> m.doing, batch |-> m.batch, stale |-> m.stale, calm |-> m.calm, saved |-> m.saved]
    /\ m.pc \in {"fetch", "parse", "clean", "delete", "end"} /\ m.calm \in BOOLEAN /\ m.saved \in BOOLEAN

\* Ids are below the counters, a row is in a group, and nothing was written later than now.
TablesOK ==
    /\ clock \in Nat /\ counted \in [group : Nat, row : Nat, edits : Nat]
    /\ DOMAIN listGroup \subseteq 1..counted.group /\ \A g \in DOMAIN listGroup : GroupForm(listGroup[g])
    /\ DOMAIN entryRow \subseteq 1..counted.row
    /\ \A r \in DOMAIN entryRow : /\ RowForm(entryRow[r]) /\ entryRow[r].gid \in DOMAIN listGroup
                                  /\ entryRow[r].stamp \in 0..clock

\* The pairs of a refresh: those in the batch, and those that wait for a flush.
PairsHeld(m) == ToSet(m.batch) \cup UNION {ToSet(m.doing[e].second) : e \in {f \in DOMAIN m.doing : m.doing[f].at = "flush"}}

\* What a refresh of l holds is of l, if it is still there.
GroupMine(g, l) == g \in 1..counted.group /\ (g \in DOMAIN listGroup => listGroup[g].list = l)
PairMine(p, l) ==
    /\ GroupMine(p.gid, l) /\ p.id \in 0..counted.row /\ p.stamp \in 0..clock
    /\ p.id \in DOMAIN entryRow => listGroup[entryRow[p.id].gid].list = l

MineOK(m, l) ==
    /\ ImportForm(m) /\ IsSeq(m.batch) /\ m.start \in 0..clock
    /\ \A e \in DOMAIN m.doing :
          /\ m.doing[e].at = "row" => GroupMine(m.doing[e].gid, l)
          /\ m.doing[e].at = "flush" => IsSeq(m.doing[e].second) /\ \A p \in ToSet(m.doing[e].second) : p.id # 0
    /\ \A p \in PairsHeld(m) : PairMine(p, l)
    /\ m.stale \subseteq 1..counted.row
    /\ \A r \in m.stale \cap DOMAIN entryRow : listGroup[entryRow[r].gid].list = l

(* What an undisturbed refresh of l knows.  GoodGroup: entries named n that *)
(* go to group g stay shown; LeastDisabled: they are not shown.            *)
AllEnabled(l, n) == \A h \in GroupsNamed(l, n) : listGroup[h].enabled
GoodGroup(l, n, g) ==
    g \in DOMAIN listGroup => /\ listGroup[g].list = l /\ listGroup[g].name = n
                              /\ \A h \in GroupsNamed(l, n) : h <= g => listGroup[h].enabled
LeastDisabled(l, n) == \E h \in GroupsNamed(l, n) : ~listGroup[h].enabled /\ \A k \in GroupsNamed(l, n) : h <= k

\* The rows of l this refresh wrote.
Fresh(m, l) == {r \in RowsOfList(l) : entryRow[r].stamp >= m.start}

EntryDone(m, e) == e \in m.listed \ m.todo /\ (e \in DOMAIN m.doing => m.doing[e].at = "flush")

FlightOK(m, l, p) ==
    /\ EntryDone(m, p.entry) /\ p.stamp >= m.start
    /\ GoodGroup(l, p.entry[2], p.gid)
    /\ p.id # 0 => /\ p.id \in DOMAIN entryRow /\ entryRow[p.id].gid = p.gid /\ entryRow[p.id].key = p.entry[1]
                   /\ p.id <= m.before
                   /\ \A r \in Fresh(m, l) : EntryOf(r) = p.entry => r <= m.before
    /\ p.id = 0 => \A r \in Fresh(m, l) : EntryOf(r) # p.entry

InsertsAlone(m) ==
    \A i \in DOMAIN m.batch : m.batch[i].id = 0 =>
        /\ \A k \in DOMAIN m.batch \ {i} : m.batch[k].entry # m.batch[i].entry
        /\ \A e \in DOMAIN m.doing : m.doing[e].at = "flush" =>
               \A p \in ToSet(m.doing[e].second) : p.entry # m.batch[i].entry

FreshOK(m, l, r) == GoodGroup(l, listGroup[entryRow[r].gid].name, entryRow[r].gid) /\ EntryDone(m, EntryOf(r))

Accounted(m, l, e) ==
    \/ e \in m.todo \/ (e \in DOMAIN m.doing /\ m.doing[e].at # "flush")
    \/ \E p \in PairsHeld(m) : p.entry = e
    \/ \E r \in Fresh(m, l) : EntryOf(r) = e
    \/ LeastDisabled(l, e[2])
    \/ m.saved = FALSE

Unrefreshed(m, l) == {r \in RowsOfList(l) : listGroup[entryRow[r].gid].enabled /\ entryRow[r].stamp < m.start}

DoingOK(m, l) ==
    \A e \in DOMAIN m.doing : /\ m.doing[e].at = "group" => AllEnabled(l, e[2])
                              /\ m.doing[e].at = "row" => GoodGroup(l, e[2], m.doing[e].gid)

TodoOK(m) ==
    /\ \A e \in m.listed : e = <<e[1], e[2]>>
    /\ m.todo \subseteq m.listed /\ DOMAIN m.doing \subseteq m.listed /\ m.todo \cap DOMAIN m.doing = {}
    /\ m.pc # "parse" => m.todo = {} /\ DOMAIN m.doing = {} /\ m.batch = <<>>
    /\ m.pc = "fetch" => m.listed = {}

CalmOK(m, l) ==
    /\ m.before \in 0..counted.row
    /\ TodoOK(m) /\ DoingOK(m, l) /\ InsertsAlone(m)
    /\ \A p \in PairsHeld(m) : FlightOK(m, l, p)
    /\ \A r \in RowsOfList(l) : entryRow[r].stamp < m.start => r <= m.before
    /\ \A r \in Fresh(m, l) : FreshOK(m, l, r)
    /\ \A r, q \in Fresh(m, l) : EntryOf(r) = EntryOf(q) /\ r # q => r <= m.before
    /\ \A e \in m.listed : Accounted(m, l, e)

StaleOK(m, l) == m.pc = "delete" => m.stale = Unrefreshed(m, l)

Refreshing(j) == import[j] # NotImporting

ImportInv ==
    /\ TablesOK
    /\ import = [j \in ImportJobs |-> import[j]]
    /\ \A j \in ImportJobs : Refreshing(j) => MineOK(import[j], ListOf(j))
    /\ \A j \in ImportJobs : Refreshing(j) /\ import[j].calm = TRUE => CalmOK(import[j], ListOf(j)) /\ StaleOK(import[j], ListOf(j))
    /\ \A j, k \in ImportJobs : j # k /\ Refreshing(j) /\ Refreshing(k) /\ ListOf(j) = ListOf(k) => import[j].calm = FALSE

(* What a transaction of flushBatches does: pair i gets row id[i].         *)
SavedAs(b, id) ==
    /\ DOMAIN id = {i \in DOMAIN b : b[i].id = 0}
    /\ counted' \in [group : Nat, row : Nat, edits : Nat] /\ counted'.group = counted.group /\ counted.row <= counted'.row
    /\ \A i \in DOMAIN id :
          /\ id[i] \in counted.row + 1..counted'.row
          /\ entryRow'[id[i]] = [key |-> b[i].entry[1], gid |-> b[i].gid, stamp |-> b[i].stamp, url |-> b[i].url]
    /\ DOMAIN entryRow' = DOMAIN entryRow \cup {id[i] : i \in DOMAIN id}
    /\ \A r \in DOMAIN entryRow :
          /\ RowForm(entryRow'[r]) /\ entryRow'[r].key = entryRow[r].key /\ entryRow'[r].gid = entryRow[r].gid
          /\ IF \E i \in DOMAIN b : b[i].id = r THEN \E i \in DOMAIN b : b[i].id = r /\ entryRow'[r].stamp = b[i].stamp
                                               ELSE entryRow'[r] = entryRow[r]

LEMMA WrittenRow ==
    ASSUME NEW r, RowForm(r), NEW p, NEW w, w = Written(r, p)
    PROVE  RowForm(w) /\ w.key = r.key /\ w.gid = r.gid /\ w.stamp = p.stamp
  <1>1. w = [r EXCEPT !.stamp = p.stamp, !.url = p.url]
    BY DEF Written
  <1>2. r = [key |-> r.key, gid |-> r.gid, stamp |-> r.stamp, url |-> r.url]
    BY DEF RowForm
  <1>3. w = [key |-> r.key, gid |-> r.gid, stamp |-> p.stamp, url |-> p.url]
    BY <1>1, <1>2
  <1>. QED  BY <1>3 DEF RowForm

LEMMA SavesRows ==
    ASSUME TablesOK, NEW j, NEW b, b = import[j].batch, IsSeq(b), Saves(j)
    PROVE  \E id : SavedAs(b, id)
  <1>1. PICK N : N = NewPairs(b) /\ N = {i \in DOMAIN b : b[i].id = 0}
    BY DEF NewPairs
  <1>2. DOMAIN b \subseteq Nat /\ IsFiniteSet(DOMAIN b) /\ N \subseteq Nat /\ IsFiniteSet(N)
    <2>1. PICK n \in Nat : DOMAIN b = 1..n
      BY DEF IsSeq
    <2>2. IsFiniteSet(1..n)
      BY FS_Interval
    <2>. QED  BY <1>1, <2>1, <2>2, FS_Subset
  <1>3. PICK n \in Nat : n = Cardinality(N)
    BY <1>2, FS_CardinalityType
  <1>4. PICK f : f = [r \in N |-> Cardinality({q \in N : q <= r})]
    OBVIOUS
  <1>5. (\A i \in N : f[i] \in 1..n) /\ (\A i, k \in N : f[i] = f[k] => i = k)
    BY <1>2, <1>3, <1>4, RanksDiffer
  <1>6. PICK c \in Nat : c = counted.row
    BY DEF TablesOK
  <1>7. PICK id : id = [i \in N |-> c + f[i]]
    OBVIOUS
  <1>8. \A i \in N : NewId(b, i) = id[i]
    BY <1>1, <1>4, <1>6, <1>7 DEF NewId
  <1>9. (\A i \in N : id[i] \in c + 1..c + n) /\ (\A i, k \in N : id[i] = id[k] => i = k)
    <2>1. \A i \in N : id[i] = c + f[i] /\ f[i] \in Nat /\ 1 <= f[i] /\ f[i] <= n
      BY <1>5, <1>7
    <2>. QED  BY <1>5, <2>1
  <1>10. counted' = [counted EXCEPT !.row = @ + n]
    BY <1>1, <1>3 DEF Saves
  <1>11. counted' \in [group : Nat, row : Nat, edits : Nat] /\ counted'.group = counted.group /\ counted'.row = c + n
    BY <1>6, <1>10 DEF TablesOK
  <1>12. entryRow' = [r \in DOMAIN entryRow \cup {NewId(b, i) : i \in N} |-> Saved(b, r)]
    BY <1>1 DEF Saves
  <1>13. {NewId(b, i) : i \in N} = {id[i] : i \in DOMAIN id}
    BY <1>7, <1>8
  <1>14. DOMAIN entryRow' = DOMAIN entryRow \cup {id[i] : i \in DOMAIN id}
    BY <1>12, <1>13
  <1>15. ASSUME NEW i \in N
         PROVE  entryRow'[id[i]] = [key |-> b[i].entry[1], gid |-> b[i].gid, stamp |-> b[i].stamp, url |-> b[i].url]
    <2>1. id[i] \notin DOMAIN entryRow
      BY <1>6, <1>9 DEF TablesOK
    <2>2. entryRow'[id[i]] = Saved(b, id[i])
      BY <1>7, <1>12, <1>13
    <2>3. PICK k : k = CHOOSE h \in NewPairs(b) : NewId(b, h) = id[i]
      OBVIOUS
    <2>4. k \in N /\ NewId(b, k) = id[i]
      BY <1>1, <1>8, <2>3
    <2>5. k = i
      BY <1>8, <1>9, <2>4
    <2>6. Saved(b, id[i]) = [key |-> b[k].entry[1], gid |-> b[k].gid, stamp |-> b[k].stamp, url |-> b[k].url]
      BY <2>1, <2>3 DEF Saved
    <2>. QED  BY <2>2, <2>5, <2>6
  <1>16. ASSUME NEW r \in DOMAIN entryRow
         PROVE  /\ RowForm(entryRow'[r]) /\ entryRow'[r].key = entryRow[r].key /\ entryRow'[r].gid = entryRow[r].gid
                /\ IF \E i \in DOMAIN b : b[i].id = r THEN \E i \in DOMAIN b : b[i].id = r /\ entryRow'[r].stamp = b[i].stamp
                                                     ELSE entryRow'[r] = entryRow[r]
    <2>1. RowForm(entryRow[r])
      BY DEF TablesOK
    <2>2. entryRow'[r] = Saved(b, r)
      BY <1>12
    <2>3. PICK S : S = {i \in DOMAIN b : b[i].id = r}
      OBVIOUS
    <2>4. entryRow'[r] = IF S = {} THEN entryRow[r] ELSE Written(entryRow[r], b[Max(S)])
      BY <2>2, <2>3 DEF Saved
    <2>5. CASE S = {}
      BY <2>1, <2>3, <2>4, <2>5
    <2>6. CASE S # {}
      <3>1. S \subseteq Nat /\ IsFiniteSet(S)
        BY <1>2, <2>3, FS_Subset
      <3>2. PICK k : k = Max(S) /\ k \in S
        BY <2>6, <3>1, MaxIsLargest
      <3>3. PICK w : w = entryRow'[r] /\ w = Written(entryRow[r], b[k])
        BY <2>4, <2>6, <3>2
      <3>4. RowForm(w) /\ w.key = entryRow[r].key /\ w.gid = entryRow[r].gid /\ w.stamp = b[k].stamp
        BY <2>1, <3>3, WrittenRow
      <3>. QED  BY <2>3, <3>2, <3>3, <3>4
    <2>. QED  BY <2>5, <2>6
  <1>17. DOMAIN id = {i \in DOMAIN b : b[i].id = 0} /\ counted.row <= counted'.row
    BY <1>1, <1>6, <1>7, <1>11
  <1>18. SavedAs(b, id)
    BY <1>1, <1>6, <1>7, <1>9, <1>11, <1>14, <1>15, <1>16, <1>17 DEF SavedAs
  <1>. QED  BY <1>18

(* How the tables may change under a refresh that does not act.            *)
TablesMove ==
    /\ clock <= clock' /\ counted.group <= counted'.group /\ counted.row <= counted'.row
    /\ \A g \in DOMAIN listGroup' : IF g \in DOMAIN listGroup THEN listGroup'[g].list = listGroup[g].list ELSE g > counted.group
    /\ \A r \in DOMAIN entryRow' : IF r \in DOMAIN entryRow THEN entryRow'[r].gid = entryRow[r].gid ELSE r > counted.row

LEMMA CountersNat ==
    ASSUME TablesOK
    PROVE  clock \in Nat /\ counted.group \in Nat /\ counted.row \in Nat
  BY DEF TablesOK

LEMMA GroupMineKept ==
    ASSUME TablesOK, TablesOK', TablesMove, NEW g, NEW l, GroupMine(g, l)
    PROVE  GroupMine(g, l)'
  <1>1. counted.group \in Nat /\ counted'.group \in Nat /\ g \in 1..counted.group
    BY DEF TablesOK, GroupMine
  <1>2. g \in 1..counted'.group
    BY <1>1 DEF TablesMove
  <1>3. g \in DOMAIN listGroup' => g \in DOMAIN listGroup /\ listGroup'[g].list = listGroup[g].list
    BY <1>1 DEF TablesMove
  <1>. QED  BY <1>2, <1>3 DEF GroupMine

(* A row that is still there is still of its list.                         *)
LEMMA RowListKept ==
    ASSUME TablesOK, TablesOK', TablesMove, NEW r, r \in 0..counted.row, r \in DOMAIN entryRow'
    PROVE  /\ r \in DOMAIN entryRow /\ entryRow'[r].gid = entryRow[r].gid
           /\ listGroup'[entryRow'[r].gid].list = listGroup[entryRow[r].gid].list
  <1>1. r \in DOMAIN entryRow /\ entryRow'[r].gid = entryRow[r].gid
    BY CountersNat DEF TablesMove
  <1>2. entryRow[r].gid \in DOMAIN listGroup /\ entryRow'[r].gid \in DOMAIN listGroup'
    BY <1>1 DEF TablesOK
  <1>. QED  BY <1>1, <1>2 DEF TablesMove

LEMMA MineKept ==
    ASSUME TablesOK, TablesOK', TablesMove, NEW m, NEW l, MineOK(m, l)
    PROVE  MineOK(m, l)'
  <1>1. /\ clock \in Nat /\ counted.row \in Nat /\ clock' \in Nat /\ counted'.row \in Nat
        /\ clock <= clock' /\ counted.row <= counted'.row
    BY DEF TablesOK, TablesMove
  <1>2. \A e \in DOMAIN m.doing : m.doing[e].at = "row" => GroupMine(m.doing[e].gid, l)'
    BY GroupMineKept DEF MineOK
  <1>3. ASSUME NEW p \in PairsHeld(m)
        PROVE  PairMine(p, l)'
    <2>1. PairMine(p, l)
      BY DEF MineOK
    <2>2. GroupMine(p.gid, l)'
      BY <2>1, GroupMineKept DEF PairMine
    <2>3. p.id \in 0..counted.row /\ p.id \in 0..counted'.row /\ p.stamp \in 0..clock'
      BY <1>1, <2>1 DEF PairMine
    <2>4. p.id \in DOMAIN entryRow' => listGroup'[entryRow'[p.id].gid].list = l
      BY <2>1, <2>3, RowListKept DEF PairMine
    <2>. QED  BY <2>2, <2>3, <2>4 DEF PairMine
  <1>4. m.stale \subseteq 1..counted'.row
    BY <1>1 DEF MineOK
  <1>5. ASSUME NEW r \in m.stale \cap DOMAIN entryRow'
        PROVE  listGroup'[entryRow'[r].gid].list = l
    <2>1. r \in 0..counted.row
      BY <1>1 DEF MineOK
    <2>. QED  BY <2>1, RowListKept DEF MineOK
  <1>6. m.start \in 0..clock'
    BY <1>1 DEF MineOK
  <1>7. PairsHeld(m)' = PairsHeld(m)
    BY DEF PairsHeld
  <1>. QED  BY <1>2, <1>3, <1>4, <1>5, <1>6, <1>7 DEF MineOK, ImportForm, PairsHeld

(* What others do to list l while a refresh of it is calm: they may create *)
(* enabled groups and delete enabled ones, and delete rows, not the ones   *)
(* this refresh wrote.                                                     *)
GroupsMove(l) ==
    /\ \A g \in DOMAIN listGroup' : listGroup'[g].list = l =>
          IF g \in DOMAIN listGroup THEN listGroup'[g] = listGroup[g] ELSE listGroup'[g].enabled
    /\ \A g \in DOMAIN listGroup : listGroup[g].list = l /\ ~listGroup[g].enabled => g \in DOMAIN listGroup'

RowsMove(m, l) ==
    /\ \A r \in RowsOfList(l)' : r \in RowsOfList(l) /\ entryRow'[r] = entryRow[r]
    /\ Fresh(m, l) \subseteq RowsOfList(l)'
    /\ \A p \in PairsHeld(m) : p.id # 0 /\ p.id \in DOMAIN entryRow => p.id \in DOMAIN entryRow'

Untouched(l) ==
    /\ GroupsMove(l)
    /\ RowsOfList(l)' = RowsOfList(l)
    /\ \A r \in RowsOfList(l) : entryRow'[r] = entryRow[r]

LEMMA GoodGroupKept ==
    ASSUME TablesOK, TablesOK', TablesMove, NEW l, GroupsMove(l), NEW n, NEW g, g \in 1..counted.group, GoodGroup(l, n, g)
    PROVE  GoodGroup(l, n, g)'
  <1>1. counted.group \in Nat
    BY CountersNat
  <1>2. SUFFICES ASSUME g \in DOMAIN listGroup'
                 PROVE  /\ listGroup'[g].list = l /\ listGroup'[g].name = n
                        /\ \A h \in GroupsNamed(l, n)' : h <= g => listGroup'[h].enabled
    BY DEF GoodGroup
  <1>3. g \in DOMAIN listGroup /\ listGroup'[g].list = listGroup[g].list
    BY <1>1, <1>2 DEF TablesMove
  <1>4. listGroup[g].list = l /\ listGroup[g].name = n /\ listGroup'[g] = listGroup[g]
    BY <1>2, <1>3 DEF GoodGroup, GroupsMove
  <1>5. ASSUME NEW h \in GroupsNamed(l, n)', h <= g
        PROVE  listGroup'[h].enabled
    <2>1. h \in DOMAIN listGroup' /\ listGroup'[h].list = l /\ listGroup'[h].name = n
      BY DEF GroupsNamed
    <2>2. CASE h \in DOMAIN listGroup
      <3>1. listGroup'[h] = listGroup[h]
        BY <2>1, <2>2 DEF GroupsMove
      <3>2. h \in GroupsNamed(l, n)
        BY <2>1, <2>2, <3>1 DEF GroupsNamed
      <3>. QED  BY <1>3, <1>5, <3>1, <3>2 DEF GoodGroup
    <2>3. CASE h \notin DOMAIN listGroup
      BY <2>1, <2>3 DEF GroupsMove
    <2>. QED  BY <2>2, <2>3
  <1>. QED  BY <1>4, <1>5

LEMMA LeastDisabledKept ==
    ASSUME TablesOK, TablesOK', TablesMove, NEW l, GroupsMove(l), NEW n, LeastDisabled(l, n)
    PROVE  LeastDisabled(l, n)'
  <1>1. PICK h \in GroupsNamed(l, n) : ~listGroup[h].enabled /\ \A k \in GroupsNamed(l, n) : h <= k
    BY DEF LeastDisabled
  <1>2. h \in DOMAIN listGroup /\ listGroup[h].list = l /\ listGroup[h].name = n
    BY DEF GroupsNamed
  <1>3. h \in DOMAIN listGroup'
    BY <1>1, <1>2 DEF GroupsMove
  <1>4. listGroup'[h].list = l
    BY <1>2, <1>3 DEF TablesMove
  <1>5. listGroup'[h] = listGroup[h]
    BY <1>2, <1>3, <1>4 DEF GroupsMove
  <1>6. h \in GroupsNamed(l, n)'
    BY <1>2, <1>3, <1>5 DEF GroupsNamed
  <1>7. ASSUME NEW k \in GroupsNamed(l, n)'
        PROVE  h <= k
    <2>1. k \in DOMAIN listGroup' /\ listGroup'[k].list = l /\ listGroup'[k].name = n
      BY DEF GroupsNamed
    <2>2. CASE k \in DOMAIN listGroup
      <3>1. listGroup'[k] = listGroup[k]
        BY <2>1, <2>2 DEF GroupsMove
      <3>2. k \in GroupsNamed(l, n)
        BY <2>1, <2>2, <3>1 DEF GroupsNamed
      <3>. QED  BY <1>1, <3>2
    <2>3. CASE k \notin DOMAIN listGroup
      <3>1. k > counted.group
        BY <2>1, <2>3 DEF TablesMove
      <3>2. h \in 1..counted.group /\ counted.group \in Nat /\ k \in 1..counted'.group /\ counted'.group \in Nat
        BY <1>2, <2>1 DEF TablesOK
      <3>. QED  BY <3>1, <3>2
    <2>. QED  BY <2>2, <2>3
  <1>8. ~listGroup'[h].enabled
    BY <1>1, <1>5
  <1>. QED  BY <1>6, <1>7, <1>8 DEF LeastDisabled

LEMMA AllEnabledKept ==
    ASSUME TablesOK, TablesOK', TablesMove, NEW l, GroupsMove(l), NEW n, AllEnabled(l, n)
    PROVE  AllEnabled(l, n)'
  <1>1. SUFFICES ASSUME NEW h \in GroupsNamed(l, n)'
                 PROVE  listGroup'[h].enabled
    BY DEF AllEnabled
  <1>2. h \in DOMAIN listGroup' /\ listGroup'[h].list = l /\ listGroup'[h].name = n
    BY DEF GroupsNamed
  <1>3. CASE h \in DOMAIN listGroup
    <2>1. listGroup'[h] = listGroup[h]
      BY <1>2, <1>3 DEF GroupsMove
    <2>2. h \in GroupsNamed(l, n)
      BY <1>2, <1>3, <2>1 DEF GroupsNamed
    <2>. QED  BY <2>1, <2>2 DEF AllEnabled
  <1>4. CASE h \notin DOMAIN listGroup
    BY <1>2, <1>4 DEF GroupsMove
  <1>. QED  BY <1>3, <1>4

LEMMA DoingKept ==
    ASSUME TablesOK, TablesOK', TablesMove, NEW l, GroupsMove(l), NEW m, MineOK(m, l), DoingOK(m, l)
    PROVE  DoingOK(m, l)'
  <1>1. SUFFICES ASSUME NEW e \in DOMAIN m.doing
                 PROVE  /\ m.doing[e].at = "group" => AllEnabled(l, e[2])'
                        /\ m.doing[e].at = "row" => GoodGroup(l, e[2], m.doing[e].gid)'
    BY DEF DoingOK
  <1>2. m.doing[e].at = "group" => AllEnabled(l, e[2])'
    BY AllEnabledKept DEF DoingOK
  <1>3. ASSUME m.doing[e].at = "row" PROVE GoodGroup(l, e[2], m.doing[e].gid)'
    <2>1. m.doing[e].gid \in 1..counted.group
      BY <1>3 DEF MineOK, GroupMine
    <2>. QED  BY <1>3, <2>1, GoodGroupKept DEF DoingOK
  <1>. QED  BY <1>2, <1>3

(* A row of l that stays stands for the same entry.                        *)
LEMMA EntryKept ==
    ASSUME TablesOK, TablesOK', TablesMove, NEW l, GroupsMove(l), NEW r \in RowsOfList(l)', r \in RowsOfList(l), entryRow'[r] = entryRow[r]
    PROVE  EntryOf(r)' = EntryOf(r) /\ listGroup'[entryRow'[r].gid] = listGroup[entryRow[r].gid]
  <1>1. entryRow[r].gid \in DOMAIN listGroup /\ entryRow[r].gid \in DOMAIN listGroup'
    BY DEF TablesOK, RowsOfList
  <1>2. listGroup'[entryRow[r].gid].list = l
    BY DEF RowsOfList
  <1>3. listGroup'[entryRow[r].gid] = listGroup[entryRow[r].gid]
    BY <1>1, <1>2 DEF GroupsMove
  <1>. QED  BY <1>3 DEF EntryOf

LEMMA FreshKept ==
    ASSUME TablesOK, TablesOK', TablesMove, NEW m, NEW l, GroupsMove(l), RowsMove(m, l)
    PROVE  Fresh(m, l)' = Fresh(m, l) /\ \A r \in Fresh(m, l) : EntryOf(r)' = EntryOf(r)
  <1>1. \A r \in Fresh(m, l)' : r \in Fresh(m, l)
    BY DEF RowsMove, Fresh
  <1>2. \A r \in Fresh(m, l) : r \in RowsOfList(l)' /\ r \in RowsOfList(l) /\ entryRow'[r] = entryRow[r]
    BY DEF RowsMove, Fresh
  <1>3. \A r \in Fresh(m, l) : r \in Fresh(m, l)'
    BY <1>2 DEF Fresh
  <1>4. \A r \in Fresh(m, l) : EntryOf(r)' = EntryOf(r)
    BY <1>2, EntryKept
  <1>. QED  BY <1>1, <1>3, <1>4

LEMMA CalmKept ==
    ASSUME TablesOK, TablesOK', TablesMove, NEW m, NEW l, GroupsMove(l), RowsMove(m, l), MineOK(m, l), CalmOK(m, l)
    PROVE  CalmOK(m, l)'
  <1>1. m.before \in 0..counted'.row
    <2>1. counted.row \in Nat /\ counted'.row \in Nat /\ counted.row <= counted'.row
      BY DEF TablesOK, TablesMove
    <2>. QED  BY <2>1 DEF CalmOK
  <1>2. DoingOK(m, l)'
    BY DoingKept DEF CalmOK
  <1>3. PairsHeld(m)' = PairsHeld(m) /\ TodoOK(m)' /\ InsertsAlone(m)'
    BY DEF PairsHeld, CalmOK, TodoOK, InsertsAlone
  <1>4. Fresh(m, l)' = Fresh(m, l) /\ \A r \in Fresh(m, l) : EntryOf(r)' = EntryOf(r)
    BY FreshKept
  <1>5. \A r \in Fresh(m, l) : r \in RowsOfList(l)' /\ r \in RowsOfList(l) /\ entryRow'[r] = entryRow[r]
    BY DEF RowsMove, Fresh
  <1>6. ASSUME NEW p \in PairsHeld(m)
        PROVE  FlightOK(m, l, p)'
    <2>1. FlightOK(m, l, p) /\ PairMine(p, l)
      BY DEF CalmOK, MineOK
    <2>2. p.gid \in 1..counted.group /\ p.id \in 0..counted.row
      BY <2>1 DEF PairMine, GroupMine
    <2>3. GoodGroup(l, p.entry[2], p.gid)'
      BY <2>1, <2>2, GoodGroupKept DEF FlightOK
    <2>4. EntryDone(m, p.entry)' /\ p.stamp >= m.start
      BY <2>1 DEF FlightOK, EntryDone
    <2>5. ASSUME p.id # 0
          PROVE  /\ p.id \in DOMAIN entryRow' /\ entryRow'[p.id].gid = p.gid /\ entryRow'[p.id].key = p.entry[1]
                 /\ p.id <= m.before
                 /\ \A r \in Fresh(m, l) : EntryOf(r) = p.entry => r <= m.before
      <3>1. /\ p.id \in DOMAIN entryRow /\ entryRow[p.id].gid = p.gid /\ entryRow[p.id].key = p.entry[1]
            /\ p.id <= m.before
            /\ \A r \in Fresh(m, l) : EntryOf(r) = p.entry => r <= m.before
        BY <2>1, <2>5 DEF FlightOK
      <3>2. p.id \in DOMAIN entryRow'
        BY <2>5, <3>1 DEF RowsMove
      <3>3. listGroup'[entryRow'[p.id].gid].list = l
        <4>1. listGroup'[entryRow'[p.id].gid].list = listGroup[entryRow[p.id].gid].list
          BY <2>2, <3>2, RowListKept
        <4>. QED  BY <2>1, <3>1, <4>1 DEF PairMine
      <3>4. p.id \in RowsOfList(l)'
        BY <3>2, <3>3 DEF RowsOfList
      <3>5. entryRow'[p.id] = entryRow[p.id]
        BY <3>4 DEF RowsMove
      <3>. QED  BY <3>1, <3>2, <3>5
    <2>6. p.id = 0 => \A r \in Fresh(m, l) : EntryOf(r) # p.entry
      BY <2>1 DEF FlightOK
    <2>. QED  BY <1>4, <2>3, <2>4, <2>5, <2>6 DEF FlightOK
  <1>7. \A r \in RowsOfList(l)' : entryRow'[r].stamp < m.start => r <= m.before
    BY DEF RowsMove, CalmOK
  <1>8. ASSUME NEW r \in Fresh(m, l)
        PROVE  FreshOK(m, l, r)'
    <2>1. FreshOK(m, l, r)
      BY DEF CalmOK
    <2>2. listGroup'[entryRow'[r].gid] = listGroup[entryRow[r].gid] /\ entryRow'[r] = entryRow[r]
      BY <1>5, EntryKept
    <2>3. entryRow[r].gid \in 1..counted.group
      BY <1>5 DEF TablesOK, RowsOfList
    <2>4. GoodGroup(l, listGroup[entryRow[r].gid].name, entryRow[r].gid)'
      <3>1. PICK n, g : n = listGroup[entryRow[r].gid].name /\ g = entryRow[r].gid
        OBVIOUS
      <3>2. GoodGroup(l, n, g)
        BY <2>1, <3>1 DEF FreshOK
      <3>3. GoodGroup(l, n, g)'
        BY <2>3, <3>1, <3>2, GoodGroupKept
      <3>. QED  BY <2>2, <3>1, <3>3
    <2>5. EntryDone(m, EntryOf(r))'
      BY <1>4, <2>1 DEF FreshOK, EntryDone
    <2>. QED  BY <2>2, <2>4, <2>5 DEF FreshOK
  <1>9. \A r, q \in Fresh(m, l) : EntryOf(r)' = EntryOf(q)' /\ r # q => r <= m.before
    BY <1>4 DEF CalmOK
  <1>10. ASSUME NEW e \in m.listed
         PROVE  Accounted(m, l, e)'
    <2>1. Accounted(m, l, e)
      BY DEF CalmOK
    <2>2. LeastDisabled(l, e[2]) => LeastDisabled(l, e[2])'
      BY LeastDisabledKept
    <2>. QED  BY <1>3, <1>4, <2>1, <2>2 DEF Accounted
  <1>11. \A r \in Fresh(m, l)' : FreshOK(m, l, r)'
    BY <1>4, <1>8
  <1>12. \A r, q \in Fresh(m, l)' : EntryOf(r)' = EntryOf(q)' /\ r # q => r <= m.before
    BY <1>4, <1>9
  <1>13. \A p \in PairsHeld(m)' : FlightOK(m, l, p)'
    BY <1>3, <1>6
  <1>. QED  BY <1>1, <1>2, <1>3, <1>7, <1>10, <1>11, <1>12, <1>13 DEF CalmOK

LEMMA UntouchedKept ==
    ASSUME TablesOK, TablesOK', TablesMove, NEW m, NEW l, Untouched(l), MineOK(m, l), CalmOK(m, l), StaleOK(m, l)
    PROVE  CalmOK(m, l)' /\ StaleOK(m, l)'
  <1>1. RowsMove(m, l)
    <2>1. \A r \in RowsOfList(l)' : r \in RowsOfList(l) /\ entryRow'[r] = entryRow[r]
      BY DEF Untouched
    <2>2. Fresh(m, l) \subseteq RowsOfList(l)'
      BY DEF Untouched, Fresh
    <2>3. ASSUME NEW p \in PairsHeld(m), p.id # 0, p.id \in DOMAIN entryRow
          PROVE  p.id \in DOMAIN entryRow'
      <3>1. PairMine(p, l)
        BY DEF MineOK
      <3>2. p.id \in RowsOfList(l)
        BY <2>3, <3>1 DEF PairMine, RowsOfList
      <3>3. p.id \in RowsOfList(l)'
        BY <3>2 DEF Untouched
      <3>. QED  BY <3>3 DEF RowsOfList
    <2>. QED  BY <2>1, <2>2, <2>3 DEF RowsMove
  <1>2. CalmOK(m, l)'
    BY <1>1, CalmKept DEF Untouched
  <1>3. Unrefreshed(m, l)' = Unrefreshed(m, l)
    <2>1. \A r \in RowsOfList(l) : listGroup'[entryRow'[r].gid] = listGroup[entryRow[r].gid] /\ entryRow'[r] = entryRow[r]
      BY EntryKept DEF Untouched
    <2>2. RowsOfList(l)' = RowsOfList(l)
      BY DEF Untouched
    <2>. QED  BY <2>1, <2>2 DEF Unrefreshed
  <1>. QED  BY <1>2, <1>3 DEF StaleOK

LEMMA SameTables ==
    ASSUME TablesOK, listGroup' = listGroup, entryRow' = entryRow, clock' \in Nat, clock <= clock',
           counted' \in [group : Nat, row : Nat, edits : Nat], counted'.group = counted.group, counted'.row = counted.row
    PROVE  TablesOK' /\ TablesMove /\ \A l : Untouched(l)
  <1>1. clock \in Nat /\ counted.group \in Nat /\ counted.row \in Nat
    BY CountersNat
  <1>2. \A r \in DOMAIN entryRow : entryRow[r].stamp \in 0..clock'
    BY <1>1 DEF TablesOK
  <1>3. TablesOK'
    BY <1>2 DEF TablesOK, GroupForm, RowForm
  <1>4. TablesMove
    BY <1>1 DEF TablesMove
  <1>5. ASSUME NEW l PROVE Untouched(l)
    BY DEF Untouched, GroupsMove, RowsOfList
  <1>. QED  BY <1>3, <1>4, <1>5

(* The step of a refresh that goes on with the same list.                  *)
LEMMA OwnStep ==
    ASSUME ImportInv, NEW j \in ImportJobs, Refreshing(j), NEW l, l = ListOf(j), NEW m, m # NotImporting,
           m.queue = import[j].queue, m.calm = import[j].calm, import' = [import EXCEPT ![j] = m],
           TablesOK', TablesMove, \A l2 : l2 # l => Untouched(l2),
           MineOK(m, l)', m.calm = TRUE => CalmOK(m, l)' /\ StaleOK(m, l)'
    PROVE  ImportInv'
  <1>1. import' = [k \in ImportJobs |-> import'[k]] /\ import'[j] = m /\ \A k \in ImportJobs \ {j} : import'[k] = import[k]
    BY DEF ImportInv
  <1>2. ListOf(j)' = l /\ \A k \in ImportJobs : ListOf(k)' = ListOf(k)
    BY <1>1 DEF ListOf
  <1>3. \A k \in ImportJobs : (Refreshing(k)' <=> Refreshing(k)) /\ import'[k].calm = import[k].calm
    BY <1>1 DEF Refreshing
  <1>4. ASSUME NEW k \in ImportJobs, Refreshing(k)'
        PROVE  MineOK(import[k], ListOf(k))'
    <2>1. CASE k = j
      BY <1>1, <1>2, <2>1
    <2>2. CASE k # j
      <3>1. PICK n, h : n = import[k] /\ h = ListOf(k) /\ n = import'[k] /\ h = ListOf(k)'
        BY <1>1, <1>2, <2>2
      <3>2. MineOK(n, h)
        BY <1>3, <1>4, <3>1 DEF ImportInv
      <3>3. MineOK(n, h)'
        BY <3>2, MineKept DEF ImportInv
      <3>. QED  BY <3>1, <3>3
    <2>. QED  BY <2>1, <2>2
  <1>5. ASSUME NEW k \in ImportJobs, Refreshing(k)', import'[k].calm = TRUE
        PROVE  CalmOK(import[k], ListOf(k))' /\ StaleOK(import[k], ListOf(k))'
    <2>1. CASE k = j
      BY <1>1, <1>2, <1>5, <2>1
    <2>2. CASE k # j
      <3>1. PICK n, h : n = import[k] /\ h = ListOf(k) /\ n = import'[k] /\ h = ListOf(k)'
        BY <1>1, <1>2, <2>2
      <3>2. Refreshing(k) /\ import[k].calm = TRUE
        BY <1>3, <1>5
      <3>3. MineOK(n, h) /\ CalmOK(n, h) /\ StaleOK(n, h)
        BY <3>1, <3>2 DEF ImportInv
      <3>4. h # l
        BY <2>2, <3>1, <3>2 DEF ImportInv
      <3>5. CalmOK(n, h)' /\ StaleOK(n, h)'
        BY <3>3, <3>4, UntouchedKept DEF ImportInv
      <3>. QED  BY <3>1, <3>5
    <2>. QED  BY <2>1, <2>2
  <1>6. \A k, n \in ImportJobs : k # n /\ Refreshing(k)' /\ Refreshing(n)' /\ ListOf(k)' = ListOf(n)' => import'[k].calm = FALSE
    BY <1>2, <1>3 DEF ImportInv
  <1>. QED  BY <1>1, <1>4, <1>5, <1>6 DEF ImportInv

(* The refresh goes on; the tables are as they are.                        *)
LEMMA Onward ==
    ASSUME NEW m, NEW n, NEW l, CalmOK(m, l)', n.start = m.start, n.before = m.before,
           TodoOK(n), DoingOK(n, l)', InsertsAlone(n), \A e : EntryDone(m, e) => EntryDone(n, e),
           \A p \in PairsHeld(n) : p \in PairsHeld(m) \/ FlightOK(n, l, p)',
           \A e \in n.listed : Accounted(n, l, e)'
    PROVE  CalmOK(n, l)'
  <1>1. Fresh(n, l)' = Fresh(m, l)'
    BY DEF Fresh
  <1>2. ASSUME NEW p \in PairsHeld(n)
        PROVE  FlightOK(n, l, p)'
    <2>1. CASE p \in PairsHeld(m)
      <3>1. FlightOK(m, l, p)'
        BY <2>1 DEF CalmOK, PairsHeld
      <3>2. EntryDone(n, p.entry)
        BY <3>1 DEF FlightOK, EntryDone
      <3>3. EntryDone(n, p.entry)'
        BY <3>2 DEF EntryDone
      <3>. QED  BY <1>1, <3>1, <3>3 DEF FlightOK
    <2>. QED  BY <1>2, <2>1
  <1>3. \A p \in PairsHeld(n)' : FlightOK(n, l, p)'
    BY <1>2 DEF PairsHeld
  <1>4. ASSUME NEW r \in Fresh(n, l)'
        PROVE  FreshOK(n, l, r)'
    <2>1. FreshOK(m, l, r)'
      BY <1>1 DEF CalmOK
    <2>2. PICK e : e = EntryOf(r)'
      OBVIOUS
    <2>3. EntryDone(n, e)
      BY <2>1, <2>2 DEF FreshOK, EntryDone
    <2>. QED  BY <2>1, <2>2, <2>3 DEF FreshOK, EntryDone
  <1>5. TodoOK(n)' /\ InsertsAlone(n)'
    BY DEF TodoOK, InsertsAlone
  <1>6. n.before \in 0..counted'.row /\ \A r \in RowsOfList(l)' : entryRow'[r].stamp < n.start => r <= n.before
    BY DEF CalmOK
  <1>7. \A r, q \in Fresh(n, l)' : EntryOf(r)' = EntryOf(q)' /\ r # q => r <= n.before
    BY <1>1 DEF CalmOK
  <1>. QED  BY <1>3, <1>4, <1>5, <1>6, <1>7 DEF CalmOK

LEMMA FormRefreshes ==
    ASSUME NEW m, ImportForm(m)
    PROVE  m # NotImporting
  BY DEF ImportForm, NotImporting

(* A step of a refresh that leaves the tables alone.                       *)
LEMMA Progress ==
    ASSUME ImportInv, NEW j \in ImportJobs, Refreshing(j), NEW m, m = import[j], NEW l, l = ListOf(j), NEW n,
           listGroup' = listGroup, entryRow' = entryRow, clock' = clock, counted' = counted,
           import' = [import EXCEPT ![j] = n], n.queue = m.queue, n.calm = m.calm, ImportForm(n),
           MineOK(m, l) /\ MineOK(m, l)' => MineOK(n, l)',
           MineOK(m, l) /\ CalmOK(m, l) /\ MineOK(m, l)' /\ CalmOK(m, l)' /\ StaleOK(m, l)' => CalmOK(n, l)' /\ StaleOK(n, l)'
    PROVE  ImportInv'
  <1>1. TablesOK
    BY DEF ImportInv
  <1>2. TablesOK' /\ TablesMove /\ \A l2 : Untouched(l2)
    <2>1. clock' \in Nat /\ clock <= clock' /\ counted' \in [group : Nat, row : Nat, edits : Nat]
      BY <1>1 DEF TablesOK
    <2>. QED  BY <1>1, <2>1, SameTables
  <1>3. MineOK(m, l) /\ (m.calm = TRUE => CalmOK(m, l) /\ StaleOK(m, l))
    BY DEF ImportInv
  <1>4. MineOK(m, l)' /\ (m.calm = TRUE => CalmOK(m, l)' /\ StaleOK(m, l)')
    BY <1>1, <1>2, <1>3, MineKept, UntouchedKept
  <1>5. n # NotImporting
    BY FormRefreshes
  <1>. QED  BY <1>2, <1>3, <1>4, <1>5, OwnStep

LEMMA FetchedStep ==
    ASSUME ImportInv, NEW j \in ImportJobs, Refreshing(j), Fetched(j)
    PROVE  ImportInv'
  <1>1. PICK m, l : m = import[j] /\ l = ListOf(j)
    OBVIOUS
  <1>2. ImportForm(m)
    BY <1>1 DEF ImportInv, MineOK
  <1>3. PICK entries : entries = {<<k, upstream[ListOf(j)][k]>> : k \in DOMAIN upstream[ListOf(j)]}
    OBVIOUS
  <1>4. PICK lost : import' = [import EXCEPT ![j].pc = "parse", ![j].listed = entries \ lost, ![j].todo = entries \ lost]
    <2>1. \E lost \in {{}} \cup (IF ListOf(j) \in LongLists THEN {{e} : e \in entries} ELSE {}) :
              import' = [import EXCEPT ![j].pc = "parse", ![j].listed = entries \ lost, ![j].todo = entries \ lost]
      BY <1>3, Zenon DEF Fetched
    <2>. QED  BY <2>1
  <1>5. PICK es : es = entries \ lost
    OBVIOUS
  <1>6. \A e \in es : e = <<e[1], e[2]>>
    BY <1>3, <1>5
  <1>7. PICK n : n = [m EXCEPT !.pc = "parse", !.listed = es, !.todo = es]
    OBVIOUS
  <1>8. import' = [import EXCEPT ![j] = n]
    BY <1>1, <1>4, <1>5, <1>7
  <1>9. n = [pc |-> "parse", kind |-> m.kind, queue |-> m.queue, start |-> m.start, before |-> m.before, listed |-> es,
             todo |-> es, doing |-> m.doing, batch |-> m.batch, stale |-> m.stale, calm |-> m.calm, saved |-> m.saved]
    BY <1>2, <1>7 DEF ImportForm
  <1>10. ImportForm(n)
    BY <1>2, <1>9 DEF ImportForm
  <1>11. PairsHeld(n) = PairsHeld(m)
    BY <1>9 DEF PairsHeld
  <1>12. MineOK(m, l)' => MineOK(n, l)'
    BY <1>9, <1>10, <1>11 DEF MineOK, PairsHeld, ImportForm
  <1>13. m.pc = "fetch"
    BY <1>1 DEF Fetched
  <1>14. ASSUME CalmOK(m, l)' PROVE CalmOK(n, l)'
    <2>1. m.listed = {} /\ DOMAIN m.doing = {} /\ m.batch = <<>>
      BY <1>13, <1>14 DEF CalmOK, TodoOK
    <2>2. TodoOK(n) /\ DoingOK(n, l)'
      BY <1>6, <1>9, <2>1 DEF TodoOK, DoingOK
    <2>3. InsertsAlone(n)
      BY <1>9, <2>1 DEF InsertsAlone
    <2>4. \A e : EntryDone(m, e) => EntryDone(n, e)
      BY <2>1 DEF EntryDone
    <2>5. \A e \in n.listed : Accounted(n, l, e)'
      BY <1>9 DEF Accounted
    <2>. QED  BY <1>9, <1>11, <1>14, <2>2, <2>3, <2>4, <2>5, Onward
  <1>15. StaleOK(n, l)'
    BY <1>9 DEF StaleOK
  <1>. QED  BY <1>1, <1>8, <1>9, <1>10, <1>12, <1>14, <1>15, Progress DEF Fetched

(* An entry is taken, and its group and rows are looked for.               *)
Went(m, n, e, step) ==
    /\ ImportForm(m) /\ step.at \in {"group", "row"}
    /\ e \in m.todo \/ (e \in DOMAIN m.doing /\ m.doing[e].at = "group")
    /\ n = [m EXCEPT !.todo = @ \ {e}, !.doing = With(@, e, step)]

LEMMA GoesOn ==
    ASSUME NEW m, NEW n, NEW l, NEW e, NEW step, Went(m, n, e, step)
    PROVE  /\ ImportForm(n) /\ n.queue = m.queue /\ n.calm = m.calm
           /\ (MineOK(m, l)' /\ (step.at = "row" => GroupMine(step.gid, l)')) => MineOK(n, l)'
           /\ (CalmOK(m, l)' /\ (step.at = "row" => GoodGroup(l, e[2], step.gid)') /\ (step.at = "group" => AllEnabled(l, e[2])')
               /\ m.pc = "parse") => CalmOK(n, l)'
  <1>1. n = [pc |-> m.pc, kind |-> m.kind, queue |-> m.queue, start |-> m.start, before |-> m.before, listed |-> m.listed,
             todo |-> m.todo \ {e}, doing |-> With(m.doing, e, step), batch |-> m.batch, stale |-> m.stale, calm |-> m.calm,
             saved |-> m.saved]
    BY DEF ImportForm, Went
  <1>2. ImportForm(n) /\ n.queue = m.queue /\ n.calm = m.calm
    BY <1>1 DEF ImportForm, Went
  <1>3. DOMAIN n.doing = DOMAIN m.doing \cup {e} /\ n.doing[e] = step /\ \A f \in DOMAIN m.doing \ {e} : n.doing[f] = m.doing[f]
    <2>1. PICK d : d = With(m.doing, e, step)
      OBVIOUS
    <2>2. d = [y \in DOMAIN m.doing \cup {e} |-> IF y = e THEN step ELSE m.doing[y]]
      BY <2>1 DEF With
    <2>3. n.doing = d
      BY <1>1, <2>1
    <2>. QED  BY <2>2, <2>3
  <1>4a. step.at \in {"group", "row"} /\ (e \in m.todo \/ (e \in DOMAIN m.doing /\ m.doing[e].at = "group"))
    BY DEF Went
  <1>4. \A f : f \in DOMAIN n.doing /\ n.doing[f].at = "flush" => f # e /\ f \in DOMAIN m.doing /\ n.doing[f] = m.doing[f]
    BY <1>3, <1>4a
  <1>5. PairsHeld(n) \subseteq PairsHeld(m)
    BY <1>1, <1>4 DEF PairsHeld
  <1>6. ASSUME MineOK(m, l)', step.at = "row" => GroupMine(step.gid, l)'
        PROVE  MineOK(n, l)'
    <2>1. ASSUME NEW f \in DOMAIN n.doing
          PROVE  /\ n.doing[f].at = "row" => GroupMine(n.doing[f].gid, l)'
                 /\ n.doing[f].at = "flush" => IsSeq(n.doing[f].second) /\ \A p \in ToSet(n.doing[f].second) : p.id # 0
      <3>1. CASE f = e
        BY <1>3, <1>4a, <1>6, <3>1
      <3>2. CASE f # e
        BY <1>3, <1>6, <3>2 DEF MineOK
      <3>. QED  BY <3>1, <3>2
    <2>2. \A p \in PairsHeld(n) : PairMine(p, l)'
      BY <1>5, <1>6 DEF MineOK, PairsHeld
    <2>. QED  BY <1>1, <1>2, <1>6, <2>1, <2>2 DEF MineOK, PairsHeld, ImportForm
  <1>7. ASSUME CalmOK(m, l)', step.at = "row" => GoodGroup(l, e[2], step.gid)', step.at = "group" => AllEnabled(l, e[2])', m.pc = "parse"
        PROVE  CalmOK(n, l)'
    <2>1. TodoOK(m) /\ DoingOK(m, l)' /\ InsertsAlone(m)
      BY <1>7 DEF CalmOK, TodoOK, InsertsAlone
    <2>2. e \in m.listed
      BY <1>4a, <2>1 DEF TodoOK
    <2>3. TodoOK(n)
      BY <1>1, <1>3, <1>7, <2>1, <2>2 DEF TodoOK
    <2>4. DoingOK(n, l)'
      <3>1. ASSUME NEW f \in DOMAIN n.doing
            PROVE  /\ n.doing[f].at = "group" => AllEnabled(l, f[2])'
                   /\ n.doing[f].at = "row" => GoodGroup(l, f[2], n.doing[f].gid)'
        <4>1. CASE f = e
          BY <1>3, <1>7, <4>1
        <4>2. CASE f # e
          BY <1>3, <2>1, <4>2 DEF DoingOK
        <4>. QED  BY <4>1, <4>2
      <3>. QED  BY <3>1 DEF DoingOK
    <2>5. InsertsAlone(n)
      BY <1>1, <1>4, <2>1 DEF InsertsAlone
    <2>6. ASSUME NEW f, EntryDone(m, f) PROVE EntryDone(n, f)
      <3>1. f # e
        BY <1>4a, <2>6 DEF EntryDone
      <3>. QED  BY <1>1, <1>3, <2>6, <3>1 DEF EntryDone
    <2>7. ASSUME NEW f \in n.listed
          PROVE  Accounted(n, l, f)'
      <3>1. CASE f = e
        <4>1. e \in DOMAIN n.doing /\ n.doing[e].at # "flush"
          BY <1>3, <1>4a
        <4>. QED  BY <3>1, <4>1 DEF Accounted
      <3>2. CASE f # e
        <4>1. Accounted(m, l, f)'
          BY <1>1, <1>7 DEF CalmOK
        <4>2. (\E p \in PairsHeld(m) : p.entry = f) => \E p \in PairsHeld(n) : p.entry = f
          <5>1. \A g : g \in DOMAIN m.doing /\ m.doing[g].at = "flush" => g \in DOMAIN n.doing /\ n.doing[g] = m.doing[g]
            BY <1>3, <1>4a, <2>1 DEF TodoOK
          <5>2. PairsHeld(m) \subseteq PairsHeld(n)
            BY <1>1, <5>1 DEF PairsHeld
          <5>. QED  BY <5>2
        <4>3. PairsHeld(m)' = PairsHeld(m) /\ PairsHeld(n)' = PairsHeld(n) /\ Fresh(n, l)' = Fresh(m, l)'
          BY <1>1 DEF PairsHeld, Fresh
        <4>4. f \in DOMAIN m.doing /\ m.doing[f].at # "flush" => f \in DOMAIN n.doing /\ n.doing[f].at # "flush"
          BY <1>3, <3>2
        <4>5. n.saved = m.saved /\ (f \in m.todo => f \in n.todo)
          BY <1>1, <3>2
        <4>. QED  BY <4>1, <4>2, <4>3, <4>4, <4>5 DEF Accounted
      <3>. QED  BY <3>1, <3>2
    <2>8. n.start = m.start /\ n.before = m.before
      BY <1>1
    <2>. QED  BY <1>5, <1>7, <2>3, <2>4, <2>5, <2>6, <2>7, <2>8, Onward
  <1>. QED  BY <1>2, <1>6, <1>7

LEMMA LookUpGroupStep ==
    ASSUME ImportInv, NEW j \in ImportJobs, Refreshing(j), NEW e \in import[j].todo, LookUpGroup(j, e)
    PROVE  ImportInv'
  <1>1. PICK m, l : m = import[j] /\ l = ListOf(j)
    OBVIOUS
  <1>2. ImportForm(m)
    BY <1>1 DEF ImportInv, MineOK
  <1>3. PICK named : named = GroupsNamed(l, e[2])
    OBVIOUS
  <1>4. /\ listGroup' = listGroup /\ entryRow' = entryRow /\ clock' = clock /\ counted' = counted
        /\ m.pc = "parse" /\ e \in m.todo
    BY <1>1 DEF LookUpGroup
  <1>5. named \subseteq 1..counted.group /\ counted.group \in Nat /\ named \subseteq Nat
    BY <1>3 DEF ImportInv, TablesOK, GroupsNamed
  <1>6. ASSUME NEW step, step.at \in {"group", "row"}, Goes(j, e, step),
               (step.at = "row" => GroupMine(step.gid, l)'),
               (step.at = "row" => GoodGroup(l, e[2], step.gid)') /\ (step.at = "group" => AllEnabled(l, e[2])')
        PROVE  ImportInv'
    <2>1. PICK n : n = [m EXCEPT !.todo = @ \ {e}, !.doing = With(@, e, step)]
      OBVIOUS
    <2>2. import' = [import EXCEPT ![j] = n]
      BY <1>1, <1>6, <2>1 DEF Goes
    <2>2a. Went(m, n, e, step)
      BY <1>2, <1>4, <1>6, <2>1 DEF Went
    <2>3. /\ ImportForm(n) /\ n.queue = m.queue /\ n.calm = m.calm
          /\ MineOK(m, l)' /\ CalmOK(m, l)' => CalmOK(n, l)'
      BY <1>4, <1>6, <2>2a, GoesOn
    <2>4. MineOK(m, l)' => MineOK(n, l)'
      BY <1>4, <1>6, <2>2a, GoesOn
    <2>5. StaleOK(n, l)'
      <3>1. n.pc = "parse"
        BY <1>2, <1>4, <2>1 DEF ImportForm
      <3>. QED  BY <3>1 DEF StaleOK
    <2>. QED  BY <1>1, <1>4, <2>2, <2>3, <2>4, <2>5, Progress
  <1>7. CASE named = {} /\ Goes(j, e, [at |-> "group"])
    <2>1. AllEnabled(l, e[2])'
      BY <1>3, <1>4, <1>7 DEF AllEnabled, GroupsNamed
    <2>. QED  BY <1>6, <1>7, <2>1
  <1>8. CASE named # {} /\ listGroup[Min(named)].enabled /\ Goes(j, e, [at |-> "row", gid |-> Min(named)])
    <2>1. PICK g : g = Min(named) /\ g \in named /\ \A h \in named : g <= h
      BY <1>5, <1>8, MinIsSmallest
    <2>2. GroupMine(g, l)'
      BY <1>3, <1>4, <1>5, <2>1 DEF GroupMine, GroupsNamed
    <2>3. GoodGroup(l, e[2], g)'
      <3>1. g \in DOMAIN listGroup /\ listGroup[g].list = l /\ listGroup[g].name = e[2]
        BY <1>3, <2>1 DEF GroupsNamed
      <3>2. \A h \in GroupsNamed(l, e[2]) : h <= g => h = g
        BY <1>3, <1>5, <2>1
      <3>3. \A h \in GroupsNamed(l, e[2])' : h <= g => listGroup'[h].enabled
        BY <1>4, <1>8, <2>1, <3>2 DEF GroupsNamed
      <3>. QED  BY <1>4, <3>1, <3>3 DEF GoodGroup
    <2>4. Goes(j, e, [at |-> "row", gid |-> g])
      BY <1>8, <2>1
    <2>. QED  BY <1>6, <2>2, <2>3, <2>4
  <1>9. CASE named # {} /\ ~listGroup[Min(named)].enabled /\ import' = [import EXCEPT ![j].todo = @ \ {e}]
    <2>1. PICK n : n = [m EXCEPT !.todo = @ \ {e}]
      OBVIOUS
    <2>2. import' = [import EXCEPT ![j] = n]
      BY <1>1, <1>9, <2>1
    <2>3. n = [pc |-> m.pc, kind |-> m.kind, queue |-> m.queue, start |-> m.start, before |-> m.before, listed |-> m.listed,
               todo |-> m.todo \ {e}, doing |-> m.doing, batch |-> m.batch, stale |-> m.stale, calm |-> m.calm,
               saved |-> m.saved]
      BY <1>2, <2>1 DEF ImportForm
    <2>4. ImportForm(n) /\ n.queue = m.queue /\ n.calm = m.calm
      BY <1>2, <2>3 DEF ImportForm
    <2>5. PairsHeld(n) = PairsHeld(m)
      BY <2>3 DEF PairsHeld
    <2>6. MineOK(m, l)' => MineOK(n, l)'
      BY <2>3, <2>4, <2>5 DEF MineOK, PairsHeld, ImportForm
    <2>7. LeastDisabled(l, e[2])'
      <3>1. Min(named) \in named /\ \A h \in named : Min(named) <= h
        BY <1>5, <1>9, MinIsSmallest
      <3>2. LeastDisabled(l, e[2])
        BY <1>3, <1>9, <3>1 DEF LeastDisabled
      <3>. QED  BY <1>4, <3>2 DEF LeastDisabled, GroupsNamed
    <2>8. ASSUME CalmOK(m, l)' PROVE CalmOK(n, l)'
      <3>1. TodoOK(m) /\ DoingOK(m, l)' /\ InsertsAlone(m)
        BY <2>8 DEF CalmOK, TodoOK, InsertsAlone
      <3>2. TodoOK(n) /\ DoingOK(n, l)' /\ InsertsAlone(n)
        BY <1>4, <2>3, <3>1 DEF TodoOK, DoingOK, InsertsAlone
      <3>3. \A f : EntryDone(m, f) => EntryDone(n, f)
        BY <2>3 DEF EntryDone
      <3>4. ASSUME NEW f \in n.listed PROVE Accounted(n, l, f)'
        <4>1. Accounted(m, l, f)'
          BY <2>3, <2>8 DEF CalmOK
        <4>2. CASE f = e
          BY <2>7, <4>2 DEF Accounted
        <4>3. CASE f # e
          BY <2>3, <4>1, <4>3 DEF Accounted, PairsHeld, Fresh
        <4>. QED  BY <4>2, <4>3
      <3>. QED  BY <2>3, <2>5, <2>8, <3>2, <3>3, <3>4, Onward
    <2>9. StaleOK(n, l)'
      BY <1>4, <2>3 DEF StaleOK
    <2>. QED  BY <1>1, <1>4, <2>2, <2>4, <2>6, <2>8, <2>9, Progress
  <1>. QED  BY <1>1, <1>3, <1>7, <1>8, <1>9 DEF LookUpGroup

LEMMA CreateGroupStep ==
    ASSUME ImportInv, NEW j \in ImportJobs, Refreshing(j), NEW e \in DOMAIN import[j].doing, CreateGroup(j, e)
    PROVE  ImportInv'
  <1>1. PICK m, l : m = import[j] /\ l = ListOf(j)
    OBVIOUS
  <1>2. TablesOK /\ MineOK(m, l) /\ ImportForm(m)
    BY <1>1 DEF ImportInv, MineOK
  <1>3. PICK g : g = counted.group + 1
    OBVIOUS
  <1>4. PICK step : step = [at |-> "row", gid |-> g]
    OBVIOUS
  <1>5. PICK new : new = [list |-> l, name |-> e[2], enabled |-> TRUE]
    OBVIOUS
  <1>6. /\ m.doing[e].at = "group" /\ e \in DOMAIN m.doing
        /\ listGroup' = With(listGroup, g, new) /\ counted' = [counted EXCEPT !.group = g]
        /\ Goes(j, e, step) /\ entryRow' = entryRow /\ clock' = clock
    BY <1>1, <1>3, <1>4, <1>5 DEF CreateGroup
  <1>7. /\ g \in Nat /\ counted.group \in Nat /\ g \notin DOMAIN listGroup
        /\ counted' \in [group : Nat, row : Nat, edits : Nat] /\ counted'.group = g /\ counted'.row = counted.row
        /\ counted.row \in Nat /\ clock \in Nat
    BY <1>2, <1>3, <1>6 DEF TablesOK
  <1>8. /\ DOMAIN listGroup' = DOMAIN listGroup \cup {g} /\ listGroup'[g] = new
        /\ \A h \in DOMAIN listGroup : listGroup'[h] = listGroup[h]
    BY <1>6, <1>7 DEF With
  <1>9. TablesOK'
    <2>1. DOMAIN listGroup' \subseteq 1..counted'.group
      BY <1>2, <1>3, <1>7, <1>8 DEF TablesOK
    <2>2. GroupForm(new)
      BY <1>5 DEF GroupForm
    <2>3. \A h \in DOMAIN listGroup' : GroupForm(listGroup'[h])
      BY <1>2, <1>8, <2>2 DEF TablesOK
    <2>4. \A r \in DOMAIN entryRow : /\ RowForm(entryRow[r]) /\ entryRow[r].gid \in DOMAIN listGroup'
                                     /\ entryRow[r].stamp \in 0..clock
      BY <1>2, <1>8 DEF TablesOK
    <2>. QED  BY <1>2, <1>6, <1>7, <2>1, <2>3, <2>4 DEF TablesOK, GroupForm, RowForm
  <1>10. TablesMove
    <2>1. \A h \in DOMAIN listGroup' : IF h \in DOMAIN listGroup THEN listGroup'[h].list = listGroup[h].list ELSE h > counted.group
      BY <1>3, <1>7, <1>8
    <2>. QED  BY <1>3, <1>6, <1>7, <2>1 DEF TablesMove
  <1>11. ASSUME NEW l2 PROVE Untouched(l2)
    <2>1. GroupsMove(l2)
      BY <1>5, <1>8 DEF GroupsMove
    <2>2. \A r \in DOMAIN entryRow : listGroup'[entryRow[r].gid] = listGroup[entryRow[r].gid]
      BY <1>2, <1>8 DEF TablesOK
    <2>3. RowsOfList(l2)' = RowsOfList(l2)
      BY <1>6, <2>2 DEF RowsOfList
    <2>. QED  BY <1>6, <2>1, <2>3 DEF Untouched
  <1>12. MineOK(m, l)' /\ (m.calm = TRUE => CalmOK(m, l) /\ CalmOK(m, l)' /\ StaleOK(m, l)')
    <2>1. m.calm = TRUE => CalmOK(m, l) /\ StaleOK(m, l)
      BY <1>1 DEF ImportInv
    <2>. QED  BY <1>2, <1>9, <1>10, <1>11, <2>1, MineKept, UntouchedKept
  <1>13. PICK n : n = [m EXCEPT !.todo = @ \ {e}, !.doing = With(@, e, step)]
    OBVIOUS
  <1>14. import' = [import EXCEPT ![j] = n]
    BY <1>1, <1>6, <1>13 DEF Goes
  <1>15. Went(m, n, e, step)
    BY <1>2, <1>4, <1>6, <1>13 DEF Went
  <1>16. GroupMine(g, l)'
    BY <1>3, <1>5, <1>7, <1>8 DEF GroupMine
  <1>17. ImportForm(n) /\ n.queue = m.queue /\ n.calm = m.calm /\ MineOK(n, l)'
    BY <1>4, <1>12, <1>15, <1>16, GoesOn
  <1>18. ASSUME m.calm = TRUE PROVE CalmOK(n, l)' /\ StaleOK(n, l)'
    <2>1. AllEnabled(l, e[2])'
      <3>1. DoingOK(m, l)'
        BY <1>12, <1>18 DEF CalmOK
      <3>. QED  BY <1>6, <3>1 DEF DoingOK
    <2>2. GoodGroup(l, e[2], g)'
      BY <1>5, <1>8, <2>1 DEF GoodGroup, AllEnabled
    <2>3. m.pc = "parse"
      BY <1>6, <1>12, <1>18 DEF CalmOK, TodoOK
    <2>4. CalmOK(n, l)'
      BY <1>4, <1>12, <1>15, <1>18, <2>2, <2>3, GoesOn
    <2>5. n.pc = "parse"
      BY <1>2, <1>13, <2>3 DEF ImportForm
    <2>. QED  BY <2>4, <2>5 DEF StaleOK
  <1>19. n # NotImporting
    BY <1>17, FormRefreshes
  <1>. QED  BY <1>1, <1>9, <1>10, <1>11, <1>14, <1>17, <1>18, <1>19, OwnStep

(* The pairs of an entry: what AddToBatch makes of the rows it found.      *)
MadeOf(p, e, g, found) ==
    p.entry = e /\ p.gid = g /\ p.stamp = clock /\ IF found = {} THEN p.id = 0 ELSE p.id \in found

PairsOf(e, g, found) ==
    IF found = {} THEN <<Pair(0, e, g, "listed")>>
    ELSE [i \in 1..Cardinality(found) |-> Pair(Ascending(found)[i], e, g, "listed")]
SecondOf(e, g, found) == IF found = {} \/ e[1] \in Guided THEN <<>> ELSE <<Pair(Max(found), e, g, "empty")>>

Makes(pairs, second, e, g, found) ==
    /\ IsSeq(pairs) /\ IsSeq(second) /\ ToSet(pairs) # {}
    /\ \A p \in ToSet(pairs) \cup ToSet(second) : MadeOf(p, e, g, found)
    /\ found = {} => DOMAIN pairs = {1} /\ second = <<>>
    /\ 0 \notin found

LEMMA PairsMade ==
    ASSUME TablesOK, NEW e, NEW g, NEW found, found \subseteq DOMAIN entryRow,
           NEW pairs, pairs = PairsOf(e, g, found), NEW second, second = SecondOf(e, g, found)
    PROVE  Makes(pairs, second, e, g, found)
  <1>a. pairs = IF found = {} THEN <<Pair(0, e, g, "listed")>>
                ELSE [i \in 1..Cardinality(found) |-> Pair(Ascending(found)[i], e, g, "listed")]
    BY DEF PairsOf
  <1>b. second = IF found = {} \/ e[1] \in Guided THEN <<>> ELSE <<Pair(Max(found), e, g, "empty")>>
    BY DEF SecondOf
  <1>1. DOMAIN entryRow \subseteq 1..counted.row /\ counted.row \in Nat
    BY DEF TablesOK
  <1>2. found \subseteq Nat /\ IsFiniteSet(found) /\ 0 \notin found
    <2>1. IsFiniteSet(1..counted.row)
      BY <1>1, FS_Interval
    <2>. QED  BY <1>1, <2>1, FS_Subset
  <1>3. ASSUME NEW id, NEW url
        PROVE  Pair(id, e, g, url).id = id /\ (IF found = {} THEN id = 0 ELSE id \in found) => MadeOf(Pair(id, e, g, url), e, g, found)
    BY DEF Pair, MadeOf
  <1>4. CASE found = {}
    <2>1. PICK p : p = Pair(0, e, g, "listed") /\ pairs = <<p>>
      BY <1>a, <1>4
    <2>2. second = <<>>
      BY <1>b, <1>4
    <2>3. MadeOf(p, e, g, found)
      BY <1>4, <2>1 DEF Pair, MadeOf
    <2>4. IsSeq(pairs) /\ ToSet(pairs) = {p} /\ DOMAIN pairs = {1}
      BY <2>1, OnePair
    <2>5. IsSeq(second) /\ ToSet(second) = {}
      BY <2>2, NoPair
    <2>. QED  BY <1>2, <1>4, <2>2, <2>3, <2>4, <2>5 DEF Makes
  <1>5. CASE found # {}
    <2>1. PICK k \in Nat : k = Cardinality(found)
      BY <1>2, FS_CardinalityType
    <2>2. k # 0
      BY <1>2, <1>5, <2>1, FS_EmptySet
    <2>3. PICK a : a = Ascending(found) /\ \A i \in 1..k : a[i] \in found
      BY <1>2, <2>1, AscendingLists
    <2>4. pairs = [i \in 1..k |-> Pair(a[i], e, g, "listed")]
      BY <1>a, <1>5, <2>1, <2>3
    <2>5. \A i \in 1..k : MadeOf(pairs[i], e, g, found)
      <3>1. SUFFICES ASSUME NEW i \in 1..k
                     PROVE  MadeOf(pairs[i], e, g, found)
        OBVIOUS
      <3>2. PICK p : p = Pair(a[i], e, g, "listed") /\ p = pairs[i]
        BY <2>4
      <3>3. p.entry = e /\ p.gid = g /\ p.stamp = clock /\ p.id \in found
        BY <2>3, <3>2 DEF Pair
      <3>. QED  BY <1>5, <3>2, <3>3 DEF MadeOf
    <2>6. IsSeq(pairs)
      <3>1. PICK A : A = {Pair(a[i], e, g, "listed") : i \in 1..k}
        OBVIOUS
      <3>2. pairs \in [1..k -> A]
        BY <2>4, <3>1
      <3>3. pairs \in Seq(A)
        BY <2>1, <3>2
      <3>. QED  BY <3>3 DEF IsSeq
    <2>7. DOMAIN pairs = 1..k /\ ToSet(pairs) = {pairs[i] : i \in 1..k}
      BY <2>4 DEF ToSet
    <2>8. 1 \in 1..k
      BY <2>2
    <2>9. IsSeq(second) /\ \A p \in ToSet(second) : MadeOf(p, e, g, found)
      <3>1. CASE e[1] \in Guided
        BY <1>b, <3>1, NoPair
      <3>2. CASE e[1] \notin Guided
        <4>1. PICK h : h = Max(found) /\ h \in found
          BY <1>2, <1>5, MaxIsLargest
        <4>2. PICK p : p = Pair(h, e, g, "empty") /\ second = <<p>>
          BY <1>b, <1>5, <3>2, <4>1
        <4>3. MadeOf(p, e, g, found)
          BY <1>5, <4>1, <4>2 DEF Pair, MadeOf
        <4>. QED  BY <4>2, <4>3, OnePair
      <3>. QED  BY <3>1, <3>2
    <2>. QED  BY <1>2, <1>5, <2>5, <2>6, <2>7, <2>8, <2>9 DEF Makes
  <1>. QED  BY <1>4, <1>5

(* The batch grows by t; if it is full, s waits for the flush.             *)
Grew(m, n, e, t, s) ==
    /\ n = [pc |-> m.pc, kind |-> m.kind, queue |-> m.queue, start |-> m.start, before |-> m.before, listed |-> m.listed,
            todo |-> m.todo, doing |-> n.doing, batch |-> n.batch, stale |-> m.stale, calm |-> m.calm, saved |-> m.saved]
    /\ n.batch = m.batch \o t
    /\ DOMAIN n.doing \subseteq DOMAIN m.doing
    /\ \A f \in DOMAIN m.doing \ {e} : f \in DOMAIN n.doing /\ n.doing[f] = m.doing[f]
    /\ IF e \in DOMAIN n.doing THEN n.doing[e].at = "flush" /\ n.doing[e].second = s ELSE s = <<>>

Appends(s, t, u) ==
    /\ IsSeq(u) /\ ToSet(u) = ToSet(s) \cup ToSet(t)
    /\ Len(s) \in Nat /\ Len(t) \in Nat /\ DOMAIN s = 1..Len(s) /\ DOMAIN t = 1..Len(t)
    /\ DOMAIN u = 1..Len(s) + Len(t)
    /\ \A i \in DOMAIN u : IF i <= Len(s) THEN i \in DOMAIN s /\ u[i] = s[i]
                           ELSE i - Len(s) \in DOMAIN t /\ u[i] = t[i - Len(s)]

LEMMA AppendsHold ==
    ASSUME NEW s, NEW t, NEW u, IsSeq(s), IsSeq(t), u = s \o t
    PROVE  Appends(s, t, u)
  BY Appended DEF Appends

LEMMA OnlyOne ==
    ASSUME NEW n \in Nat, 1..n = {1}
    PROVE  n = 1
  <1>1. 1 \in 1..n
    OBVIOUS
  <1>2. n \in 1..n
    BY <1>1
  <1>. QED  BY <1>2

LEMMA BatchGrows ==
    ASSUME ImportInv, NEW j \in ImportJobs, Refreshing(j), NEW m, m = import[j], NEW l, l = ListOf(j), NEW n,
           import' = [import EXCEPT ![j] = n], listGroup' = listGroup, entryRow' = entryRow, clock' = clock, counted' = counted,
           NEW e \in DOMAIN m.doing, m.doing[e].at = "row", NEW g, g = m.doing[e].gid,
           NEW found, found = {r \in DOMAIN entryRow : entryRow[r].gid = g /\ entryRow[r].key = e[1]},
           NEW t, NEW s, IsSeq(t), IsSeq(s), ToSet(t) # {}, Grew(m, n, e, t, s),
           \A p \in ToSet(t) \cup ToSet(s) : MadeOf(p, e, g, found),
           found = {} => DOMAIN t = {1} /\ s = <<>>, 0 \notin found
    PROVE  ImportInv'
  <1>1. TablesOK /\ MineOK(m, l) /\ ImportForm(m)
    BY DEF ImportInv, MineOK
  <1>2. n = [pc |-> m.pc, kind |-> m.kind, queue |-> m.queue, start |-> m.start, before |-> m.before, listed |-> m.listed,
             todo |-> m.todo, doing |-> n.doing, batch |-> n.batch, stale |-> m.stale, calm |-> m.calm, saved |-> m.saved]
    BY DEF Grew
  <1>3. ImportForm(n) /\ n.queue = m.queue /\ n.calm = m.calm
    BY <1>1, <1>2 DEF ImportForm
  <1>4. IsSeq(m.batch)
    BY <1>1 DEF MineOK
  <1>5. PICK a, b : a = m.batch /\ b = n.batch /\ b = a \o t /\ IsSeq(a)
    BY <1>4 DEF Grew
  <1>6. /\ IsSeq(b) /\ ToSet(b) = ToSet(a) \cup ToSet(t)
        /\ Len(a) \in Nat /\ Len(t) \in Nat /\ DOMAIN a = 1..Len(a) /\ DOMAIN t = 1..Len(t)
        /\ DOMAIN b = 1..Len(a) + Len(t)
        /\ \A i \in DOMAIN b : IF i <= Len(a) THEN i \in DOMAIN a /\ b[i] = a[i]
                               ELSE i - Len(a) \in DOMAIN t /\ b[i] = t[i - Len(a)]
    <2>1. IsSeq(t)
      OBVIOUS
    <2>2. Appends(a, t, b)
      BY <1>5, <2>1, AppendsHold
    <2>. QED  BY <2>2 DEF Appends
  <1>7. /\ DOMAIN n.doing \subseteq DOMAIN m.doing
        /\ \A f \in DOMAIN m.doing \ {e} : f \in DOMAIN n.doing /\ n.doing[f] = m.doing[f]
        /\ (e \in DOMAIN n.doing => n.doing[e].at = "flush" /\ n.doing[e].second = s)
        /\ (e \notin DOMAIN n.doing => ToSet(s) = {})
    BY NoPair DEF Grew
  <1>8. PairsHeld(n) = PairsHeld(m) \cup ToSet(t) \cup ToSet(s)
    <2>1. ASSUME NEW p \in PairsHeld(n) PROVE p \in PairsHeld(m) \cup ToSet(t) \cup ToSet(s)
      <3>1. CASE p \in ToSet(b)
        BY <1>5, <1>6, <3>1 DEF PairsHeld
      <3>2. CASE \E f \in DOMAIN n.doing : n.doing[f].at = "flush" /\ p \in ToSet(n.doing[f].second)
        BY <1>7, <3>2 DEF PairsHeld
      <3>. QED  BY <1>5, <2>1, <3>1, <3>2 DEF PairsHeld
    <2>2. ASSUME NEW p \in PairsHeld(m) PROVE p \in PairsHeld(n)
      <3>1. CASE p \in ToSet(a)
        BY <1>5, <1>6, <3>1 DEF PairsHeld
      <3>2. CASE \E f \in DOMAIN m.doing : m.doing[f].at = "flush" /\ p \in ToSet(m.doing[f].second)
        BY <1>7, <3>2 DEF PairsHeld
      <3>. QED  BY <1>5, <2>2, <3>1, <3>2 DEF PairsHeld
    <2>3. ToSet(t) \subseteq PairsHeld(n)
      BY <1>5, <1>6 DEF PairsHeld
    <2>4. ToSet(s) \subseteq PairsHeld(n)
      BY <1>7 DEF PairsHeld
    <2>. QED  BY <2>1, <2>2, <2>3, <2>4
  <1>9. \A p \in ToSet(t) \cup ToSet(s) : p.entry = e /\ p.gid = g /\ p.stamp = clock /\ IF found = {} THEN p.id = 0 ELSE p.id \in found
    BY DEF MadeOf
  <1>10. clock \in Nat /\ counted.row \in Nat /\ found \subseteq 1..counted.row /\ m.start \in 0..clock /\ GroupMine(g, l)
    BY <1>1 DEF TablesOK, MineOK
  <1>11. \A p \in ToSet(s) : p.id # 0
    BY <1>9, NoPair
  <1>12. \A r \in found : r \in RowsOfList(l)
    <2>1. SUFFICES ASSUME NEW r \in found PROVE r \in RowsOfList(l)
      OBVIOUS
    <2>2. r \in DOMAIN entryRow /\ entryRow[r].gid = g /\ g \in DOMAIN listGroup
      BY <1>1 DEF TablesOK
    <2>. QED  BY <1>10, <2>2 DEF GroupMine, RowsOfList
  <1>13. MineOK(n, l)'
    <2>1. ASSUME NEW f \in DOMAIN n.doing
          PROVE  /\ n.doing[f].at = "row" => GroupMine(n.doing[f].gid, l)'
                 /\ n.doing[f].at = "flush" => IsSeq(n.doing[f].second) /\ \A p \in ToSet(n.doing[f].second) : p.id # 0
      <3>1. CASE f = e
        BY <1>7, <1>11, <3>1
      <3>2. CASE f # e
        <4>1. f \in DOMAIN m.doing /\ n.doing[f] = m.doing[f]
          BY <1>7, <3>2
        <4>2. n.doing[f].at = "row" => GroupMine(n.doing[f].gid, l)
          BY <1>1, <4>1 DEF MineOK
        <4>3. n.doing[f].at = "row" => GroupMine(n.doing[f].gid, l)'
          BY <4>2 DEF GroupMine
        <4>4. n.doing[f].at = "flush" => IsSeq(n.doing[f].second) /\ \A p \in ToSet(n.doing[f].second) : p.id # 0
          BY <1>1, <4>1 DEF MineOK
        <4>. QED  BY <4>3, <4>4
      <3>. QED  BY <3>1, <3>2
    <2>2. ASSUME NEW p \in PairsHeld(n) PROVE PairMine(p, l)
      <3>1. CASE p \in PairsHeld(m)
        BY <1>1, <3>1 DEF MineOK
      <3>2. CASE p \in ToSet(t) \cup ToSet(s)
        <4>1. p.id \in 0..counted.row /\ p.stamp \in 0..clock
          BY <1>9, <1>10, <3>2
        <4>2. p.id \in DOMAIN entryRow => p.id \in found
          BY <1>1, <1>9, <3>2 DEF TablesOK
        <4>. QED  BY <1>9, <1>10, <1>12, <3>2, <4>1, <4>2 DEF PairMine, RowsOfList
      <3>. QED  BY <1>8, <2>2, <3>1, <3>2
    <2>3. \A p \in PairsHeld(n) : PairMine(p, l)'
      BY <2>2 DEF PairMine, GroupMine
    <2>4. \A p \in PairsHeld(n)' : PairMine(p, l)'
      BY <2>3 DEF PairsHeld
    <2>5. n.stale \subseteq 1..counted.row /\ \A r \in n.stale \cap DOMAIN entryRow : listGroup[entryRow[r].gid].list = l
      BY <1>1, <1>2 DEF MineOK
    <2>6. IsSeq(n.batch) /\ n.start \in 0..clock
      BY <1>2, <1>5, <1>6, <1>10
    <2>. QED  BY <1>3, <2>1, <2>4, <2>5, <2>6 DEF MineOK, ImportForm
  <1>14. ASSUME CalmOK(m, l), CalmOK(m, l)'
         PROVE  CalmOK(n, l)' /\ StaleOK(n, l)'
    <2>1. TodoOK(m) /\ DoingOK(m, l)' /\ InsertsAlone(m)
      BY <1>14 DEF CalmOK
    <2>2. m.pc = "parse" /\ e \in m.listed /\ e \notin m.todo /\ e = <<e[1], e[2]>> /\ ~EntryDone(m, e)
      BY <2>1 DEF TodoOK, EntryDone
    <2>3. TodoOK(n)
      BY <1>2, <1>7, <2>1, <2>2 DEF TodoOK
    <2>4. DoingOK(n, l)'
      <3>1. ASSUME NEW f \in DOMAIN n.doing
            PROVE  /\ n.doing[f].at = "group" => AllEnabled(l, f[2])'
                   /\ n.doing[f].at = "row" => GoodGroup(l, f[2], n.doing[f].gid)'
        <4>1. CASE f = e
          BY <1>7, <4>1
        <4>2. CASE f # e
          <5>1. f \in DOMAIN m.doing /\ n.doing[f] = m.doing[f]
            BY <1>7, <4>2
          <5>. QED  BY <2>1, <5>1 DEF DoingOK
        <4>. QED  BY <4>1, <4>2
      <3>. QED  BY <3>1 DEF DoingOK
    <2>5. \A f : EntryDone(m, f) => EntryDone(n, f)
      BY <1>2, <1>7, <2>2 DEF EntryDone
    <2>6. EntryDone(n, e)
      BY <1>2, <1>7, <2>2 DEF EntryDone
    <2>7. \A p \in PairsHeld(m) : p.entry # e
      BY <1>14, <2>2 DEF CalmOK, FlightOK
    <2>8. GoodGroup(l, e[2], g)
      BY <1>14 DEF CalmOK, DoingOK
    <2>9. \A r \in Fresh(m, l) : EntryOf(r) # e
      BY <1>14, <2>2 DEF CalmOK, FreshOK
    <2>10. \A r \in found : r \in DOMAIN entryRow /\ entryRow[r].gid = g /\ entryRow[r].key = e[1] /\ r <= m.before
      <3>1. SUFFICES ASSUME NEW r \in found PROVE r <= m.before
        OBVIOUS
      <3>2. r \in RowsOfList(l) /\ r \in DOMAIN entryRow /\ entryRow[r].gid = g /\ entryRow[r].key = e[1]
        BY <1>12
      <3>3. g \in DOMAIN listGroup /\ entryRow[r].stamp \in 0..clock
        BY <1>1, <3>2 DEF TablesOK
      <3>4. EntryOf(r) = e
        <4>1. listGroup[g].name = e[2]
          BY <2>8, <3>3 DEF GoodGroup
        <4>2. EntryOf(r) = <<e[1], e[2]>>
          BY <3>2, <4>1 DEF EntryOf
        <4>. QED  BY <2>2, <4>2
      <3>5. r \notin Fresh(m, l)
        BY <2>9, <3>4
      <3>6. entryRow[r].stamp < m.start
        BY <1>10, <3>2, <3>3, <3>5 DEF Fresh
      <3>. QED  BY <1>14, <3>2, <3>6 DEF CalmOK
    <2>11. ASSUME NEW p \in PairsHeld(n)
           PROVE  p \in PairsHeld(m) \/ FlightOK(n, l, p)'
      <3>1. CASE p \in ToSet(t) \cup ToSet(s)
        <4>1. p.entry = e /\ p.gid = g /\ p.stamp = clock /\ IF found = {} THEN p.id = 0 ELSE p.id \in found
          BY <1>9, <3>1
        <4>2. Fresh(n, l)' = Fresh(m, l) /\ \A r \in Fresh(m, l) : EntryOf(r)' = EntryOf(r)
          BY <1>2 DEF Fresh, RowsOfList, EntryOf
        <4>3. p.stamp >= n.start
          BY <1>2, <1>10, <4>1
        <4>4. GoodGroup(l, p.entry[2], p.gid)'
          BY <2>8, <4>1 DEF GoodGroup, GroupsNamed
        <4>5. \A r \in Fresh(n, l)' : EntryOf(r)' # p.entry
          BY <2>9, <4>1, <4>2
        <4>6. p.id # 0 => p.id \in DOMAIN entryRow /\ entryRow[p.id].gid = p.gid /\ entryRow[p.id].key = p.entry[1] /\ p.id <= n.before
          BY <1>2, <2>10, <4>1
        <4>7. EntryDone(n, p.entry)'
          BY <2>6, <4>1 DEF EntryDone
        <4>. QED  BY <4>3, <4>4, <4>5, <4>6, <4>7 DEF FlightOK
      <3>. QED  BY <1>8, <2>11, <3>1
    <2>12. InsertsAlone(n)
      <3>1. SUFFICES ASSUME NEW i \in DOMAIN b, b[i].id = 0
                     PROVE  /\ \A k \in DOMAIN b \ {i} : b[k].entry # b[i].entry
                            /\ \A f \in DOMAIN n.doing : n.doing[f].at = "flush" =>
                                  \A p \in ToSet(n.doing[f].second) : p.entry # b[i].entry
        BY <1>5 DEF InsertsAlone
      <3>2. \A k \in DOMAIN b : IF k <= Len(a) THEN b[k] \in PairsHeld(m) ELSE b[k].entry = e
        <4>1. SUFFICES ASSUME NEW k \in DOMAIN b
                       PROVE  IF k <= Len(a) THEN b[k] \in PairsHeld(m) ELSE b[k].entry = e
          OBVIOUS
        <4>2. CASE k <= Len(a)
          <5>1. k \in DOMAIN a /\ b[k] = a[k]
            BY <1>6, <4>2
          <5>2. b[k] \in ToSet(a)
            BY <5>1 DEF ToSet
          <5>. QED  BY <1>5, <4>2, <5>2 DEF PairsHeld
        <4>3. CASE ~(k <= Len(a))
          <5>1. k - Len(a) \in DOMAIN t /\ b[k] = t[k - Len(a)]
            BY <1>6, <4>3
          <5>2. b[k] \in ToSet(t)
            BY <5>1 DEF ToSet
          <5>. QED  BY <1>9, <4>3, <5>2
        <4>. QED  BY <4>2, <4>3
      <3>3. CASE i <= Len(a)
        <4>1. i \in DOMAIN a /\ b[i] = a[i] /\ a[i].id = 0 /\ b[i].entry # e
          BY <1>6, <2>7, <3>1, <3>2, <3>3
        <4>2. /\ \A k \in DOMAIN a \ {i} : a[k].entry # a[i].entry
              /\ \A f \in DOMAIN m.doing : m.doing[f].at = "flush" => \A p \in ToSet(m.doing[f].second) : p.entry # a[i].entry
          BY <1>5, <2>1, <4>1 DEF InsertsAlone
        <4>3. \A k \in DOMAIN b \ {i} : b[k].entry # b[i].entry
          BY <1>6, <3>2, <4>1, <4>2
        <4>4. \A f \in DOMAIN n.doing : n.doing[f].at = "flush" => \A p \in ToSet(n.doing[f].second) : p.entry # b[i].entry
          BY <1>7, <1>9, <4>1, <4>2
        <4>. QED  BY <4>3, <4>4
      <3>4. CASE ~(i <= Len(a))
        <4>1. i - Len(a) \in DOMAIN t /\ b[i] = t[i - Len(a)] /\ b[i].entry = e /\ b[i] \in ToSet(t)
          <5>1. i - Len(a) \in DOMAIN t /\ b[i] = t[i - Len(a)] /\ b[i].entry = e
            BY <1>6, <3>2, <3>4
          <5>. QED  BY <5>1 DEF ToSet
        <4>2. found = {}
          BY <1>9, <3>1, <4>1
        <4>3. DOMAIN t = {1} /\ ToSet(s) = {}
          BY <4>2, NoPair
        <4>4. Len(t) = 1
          <5>1. Len(t) \in Nat /\ 1..Len(t) = {1}
            BY <1>6, <4>3
          <5>. QED  BY <5>1, OnlyOne
        <4>5. i = Len(a) + 1
          BY <1>6, <3>4, <4>4
        <4>6. \A k \in DOMAIN b \ {i} : k <= Len(a)
          BY <1>6, <4>4, <4>5
        <4>7. \A k \in DOMAIN b \ {i} : b[k].entry # b[i].entry
          BY <2>7, <3>2, <4>1, <4>6
        <4>8. ASSUME NEW f \in DOMAIN n.doing, n.doing[f].at = "flush", NEW p \in ToSet(n.doing[f].second)
              PROVE  p.entry # b[i].entry
          <5>1. f # e
            BY <1>7, <4>3, <4>8
          <5>2. p \in PairsHeld(m)
            BY <1>7, <4>8, <5>1 DEF PairsHeld
          <5>. QED  BY <2>7, <4>1, <5>2
        <4>. QED  BY <4>7, <4>8
      <3>. QED  BY <3>3, <3>4
    <2>13. ASSUME NEW f \in n.listed
           PROVE  Accounted(n, l, f)'
      <3>1. CASE f = e
        <4>1. \E p \in PairsHeld(n) : p.entry = e
          BY <1>8, <1>9
        <4>. QED  BY <3>1, <4>1 DEF Accounted, PairsHeld
      <3>2. CASE f # e
        <4>1. Accounted(m, l, f)'
          BY <1>2, <1>14 DEF CalmOK
        <4>2. PairsHeld(m)' = PairsHeld(m) /\ PairsHeld(n)' = PairsHeld(n) /\ Fresh(n, l)' = Fresh(m, l)'
          BY <1>2 DEF PairsHeld, Fresh
        <4>3. f \in DOMAIN m.doing /\ m.doing[f].at # "flush" => f \in DOMAIN n.doing /\ n.doing[f].at # "flush"
          BY <1>7, <3>2
        <4>4. n.saved = m.saved /\ n.todo = m.todo
          BY <1>2
        <4>. QED  BY <1>8, <4>1, <4>2, <4>3, <4>4 DEF Accounted
      <3>. QED  BY <3>1, <3>2
    <2>14. n.start = m.start /\ n.before = m.before
      BY <1>2
    <2>15. CalmOK(n, l)'
      BY <1>14, <2>3, <2>4, <2>5, <2>11, <2>12, <2>13, <2>14, Onward
    <2>16. n.pc = "parse"
      BY <1>2, <2>2
    <2>. QED  BY <2>15, <2>16 DEF StaleOK
  <1>. QED  BY <1>3, <1>13, <1>14, Progress

LEMMA AddToBatchStep ==
    ASSUME ImportInv, NEW j \in ImportJobs, Refreshing(j), NEW e \in DOMAIN import[j].doing, AddToBatch(j, e)
    PROVE  ImportInv'
  <1>1. PICK m, l : m = import[j] /\ l = ListOf(j)
    OBVIOUS
  <1>2. TablesOK /\ MineOK(m, l) /\ ImportForm(m)
    BY <1>1 DEF ImportInv, MineOK
  <1>3. PICK g : g = import[j].doing[e].gid
    OBVIOUS
  <1>4. PICK found : found = {r \in DOMAIN entryRow : entryRow[r].gid = g /\ entryRow[r].key = e[1]}
    OBVIOUS
  <1>5. PICK pairs : pairs = PairsOf(e, g, found)
    OBVIOUS
  <1>6. PICK second : second = SecondOf(e, g, found)
    OBVIOUS
  <1>7. /\ import[j].doing[e].at = "row"
        /\ \/ import' = [import EXCEPT ![j].batch = @ \o pairs, ![j].doing = With(@, e, [at |-> "flush", second |-> second])]
           \/ Leaves(j, e, pairs \o second)
        /\ listGroup' = listGroup /\ entryRow' = entryRow /\ clock' = clock /\ counted' = counted
    BY <1>3, <1>4, <1>5, <1>6 DEF AddToBatch, PairsOf, SecondOf
  <1>8. /\ IsSeq(pairs) /\ IsSeq(second) /\ ToSet(pairs) # {}
        /\ \A p \in ToSet(pairs) \cup ToSet(second) : MadeOf(p, e, g, found)
        /\ found = {} => DOMAIN pairs = {1} /\ second = <<>>
        /\ 0 \notin found
    <2>1. found \subseteq DOMAIN entryRow
      BY <1>4
    <2>2. Makes(pairs, second, e, g, found)
      BY <1>2, <1>5, <1>6, <2>1, PairsMade
    <2>. QED  BY <2>2 DEF Makes
  <1>9. CASE import' = [import EXCEPT ![j].batch = @ \o pairs, ![j].doing = With(@, e, [at |-> "flush", second |-> second])]
    <2>1. PICK step : step = [at |-> "flush", second |-> second]
      OBVIOUS
    <2>2. PICK n : n = [m EXCEPT !.batch = @ \o pairs, !.doing = With(@, e, step)]
      OBVIOUS
    <2>3. import' = [import EXCEPT ![j] = n]
      BY <1>1, <1>9, <2>1, <2>2
    <2>4. PICK d : d = With(m.doing, e, step)
      OBVIOUS
    <2>5. /\ n = [pc |-> m.pc, kind |-> m.kind, queue |-> m.queue, start |-> m.start, before |-> m.before, listed |-> m.listed,
                  todo |-> m.todo, doing |-> d, batch |-> m.batch \o pairs, stale |-> m.stale, calm |-> m.calm, saved |-> m.saved]
      BY <1>2, <2>2, <2>4 DEF ImportForm
    <2>6. DOMAIN d = DOMAIN m.doing /\ d[e] = step /\ \A f \in DOMAIN m.doing \ {e} : d[f] = m.doing[f]
      BY <1>1, <2>4 DEF With
    <2>7. Grew(m, n, e, pairs, second)
      <3>1. n.doing = d /\ n.batch = m.batch \o pairs
        BY <2>5
      <3>2. IF e \in DOMAIN d THEN d[e].at = "flush" /\ d[e].second = second ELSE second = <<>>
        BY <1>1, <2>1, <2>6
      <3>. QED  BY <2>5, <2>6, <3>1, <3>2 DEF Grew
    <2>. QED  BY <1>1, <1>3, <1>4, <1>7, <1>8, <2>3, <2>7, BatchGrows
  <1>10. CASE Leaves(j, e, pairs \o second)
    <2>1. PICK t : t = pairs \o second
      OBVIOUS
    <2>2. Appends(pairs, second, t)
      BY <1>8, <2>1, AppendsHold
    <2>3. IsSeq(t) /\ ToSet(t) = ToSet(pairs) \cup ToSet(second)
      BY <2>2 DEF Appends
    <2>4. ASSUME found = {} PROVE DOMAIN t = {1}
      <3>1. DOMAIN pairs = {1} /\ DOMAIN second = {}
        BY <1>8, <2>4, NoPair
      <3>2. Len(pairs) \in Nat /\ Len(second) \in Nat /\ 1..Len(pairs) = {1} /\ 1..Len(second) = {} /\ DOMAIN t = 1..Len(pairs) + Len(second)
        BY <2>2, <3>1 DEF Appends
      <3>3. Len(pairs) = 1
        BY <3>2, OnlyOne
      <3>4. Len(second) = 0
        <4>1. 1 \notin 1..Len(second)
          BY <3>2
        <4>. QED  BY <3>2, <4>1
      <3>. QED  BY <3>2, <3>3, <3>4
    <2>5. PICK n : n = [m EXCEPT !.batch = @ \o t, !.doing = [f \in DOMAIN @ \ {e} |-> @[f]]]
      OBVIOUS
    <2>6. import' = [import EXCEPT ![j] = n]
      BY <1>1, <1>10, <2>1, <2>5 DEF Leaves
    <2>7. PICK d : d = [f \in DOMAIN m.doing \ {e} |-> m.doing[f]]
      OBVIOUS
    <2>8. /\ n = [pc |-> m.pc, kind |-> m.kind, queue |-> m.queue, start |-> m.start, before |-> m.before, listed |-> m.listed,
                  todo |-> m.todo, doing |-> d, batch |-> m.batch \o t, stale |-> m.stale, calm |-> m.calm, saved |-> m.saved]
      BY <1>2, <2>5, <2>7 DEF ImportForm
    <2>9. DOMAIN d = DOMAIN m.doing \ {e} /\ \A f \in DOMAIN m.doing \ {e} : d[f] = m.doing[f]
      BY <2>7
    <2>10. Grew(m, n, e, t, <<>>)
      <3>1. n.doing = d /\ n.batch = m.batch \o t
        BY <2>8
      <3>2. e \notin DOMAIN d
        BY <2>9
      <3>. QED  BY <2>8, <2>9, <3>1, <3>2 DEF Grew
    <2>11. PICK s : s = <<>> /\ IsSeq(s) /\ ToSet(s) = {} /\ Grew(m, n, e, t, s)
      BY <2>10, NoPair
    <2>12. ToSet(t) # {} /\ \A p \in ToSet(t) \cup ToSet(s) : MadeOf(p, e, g, found)
      BY <1>8, <2>3, <2>11
    <2>13. found = {} => DOMAIN t = {1} /\ s = <<>>
      BY <2>4, <2>11
    <2>14. 0 \notin found
      BY <1>8
    <2>. QED  BY <1>1, <1>3, <1>4, <1>7, <2>3, <2>6, <2>11, <2>12, <2>13, <2>14, BatchGrows
  <1>. QED  BY <1>7, <1>9, <1>10

(* What is known when the batch of m, a refresh of l, is saved.            *)
BatchSaved(m, l, id) ==
    /\ TablesOK /\ TablesOK' /\ MineOK(m, l) /\ SavedAs(m.batch, id) /\ listGroup' = listGroup /\ clock' = clock

LEMMA NewIdsAbove ==
    ASSUME NEW c \in Nat, NEW d \in Nat, NEW x, x \in c + 1..d
    PROVE  x > c /\ x \in 1..d
  OBVIOUS

LEMMA SavedTables ==
    ASSUME TablesOK, NEW j, NEW l, NEW m, m = import[j], MineOK(m, l), Saveable(j), NEW id, SavedAs(m.batch, id),
           listGroup' = listGroup, clock' = clock
    PROVE  /\ TablesOK' /\ TablesMove
           /\ \A l2 : l2 # l => Untouched(l2)
  <1>1. PICK b : b = m.batch
    OBVIOUS
  <1>2. /\ DOMAIN id = {i \in DOMAIN b : b[i].id = 0}
        /\ counted' \in [group : Nat, row : Nat, edits : Nat] /\ counted'.group = counted.group /\ counted.row <= counted'.row
        /\ \A i \in DOMAIN id :
              /\ id[i] \in counted.row + 1..counted'.row
              /\ entryRow'[id[i]] = [key |-> b[i].entry[1], gid |-> b[i].gid, stamp |-> b[i].stamp, url |-> b[i].url]
        /\ DOMAIN entryRow' = DOMAIN entryRow \cup {id[i] : i \in DOMAIN id}
        /\ \A r \in DOMAIN entryRow :
              /\ RowForm(entryRow'[r]) /\ entryRow'[r].key = entryRow[r].key /\ entryRow'[r].gid = entryRow[r].gid
              /\ IF \E i \in DOMAIN b : b[i].id = r THEN \E i \in DOMAIN b : b[i].id = r /\ entryRow'[r].stamp = b[i].stamp
                                                   ELSE entryRow'[r] = entryRow[r]
    BY <1>1 DEF SavedAs
  <1>3. clock \in Nat /\ counted.row \in Nat /\ counted.group \in Nat /\ DOMAIN entryRow \subseteq 1..counted.row
    BY DEF TablesOK
  <1>3a. \A i \in DOMAIN id : id[i] > counted.row /\ id[i] \in 1..counted'.row
    <2>1. counted'.row \in Nat
      BY <1>2
    <2>. QED  BY <1>2, <1>3, <2>1, NewIdsAbove
  <1>3b. DOMAIN entryRow \subseteq 1..counted'.row
    <2>1. counted'.row \in Nat
      BY <1>2
    <2>. QED  BY <1>2, <1>3, <2>1
  <1>4. \A i \in DOMAIN b : PairMine(b[i], l)
    <2>1. \A i \in DOMAIN b : b[i] \in PairsHeld(m)
      BY <1>1 DEF PairsHeld, ToSet
    <2>. QED  BY <2>1 DEF MineOK
  <1>5. \A i \in DOMAIN id : i \in DOMAIN b /\ b[i].gid \in DOMAIN listGroup
    BY <1>1, <1>2 DEF Saveable
  <1>6. ASSUME NEW r \in DOMAIN entryRow'
        PROVE  \/ r \in DOMAIN entryRow
               \/ r \notin DOMAIN entryRow /\ \E i \in DOMAIN id : r = id[i]
    BY <1>2
  <1>7. \A r \in DOMAIN entryRow' : RowForm(entryRow'[r]) /\ entryRow'[r].gid \in DOMAIN listGroup /\ entryRow'[r].stamp \in 0..clock
    <2>1. SUFFICES ASSUME NEW r \in DOMAIN entryRow'
                   PROVE  RowForm(entryRow'[r]) /\ entryRow'[r].gid \in DOMAIN listGroup /\ entryRow'[r].stamp \in 0..clock
      OBVIOUS
    <2>2. CASE r \in DOMAIN entryRow
      <3>1. RowForm(entryRow'[r]) /\ entryRow'[r].gid \in DOMAIN listGroup
        BY <1>2, <2>2 DEF TablesOK
      <3>2. entryRow'[r].stamp \in 0..clock
        <4>1. CASE \E i \in DOMAIN b : b[i].id = r
          <5>1. PICK i \in DOMAIN b : entryRow'[r].stamp = b[i].stamp
            BY <1>2, <2>2, <4>1
          <5>. QED  BY <1>4, <5>1 DEF PairMine
        <4>2. CASE ~\E i \in DOMAIN b : b[i].id = r
          <5>1. entryRow'[r] = entryRow[r]
            BY <1>2, <2>2, <4>2
          <5>. QED  BY <2>2, <5>1 DEF TablesOK
        <4>. QED  BY <4>1, <4>2
      <3>. QED  BY <3>1, <3>2
    <2>3. CASE \E i \in DOMAIN id : r = id[i]
      <3>1. PICK i \in DOMAIN id : r = id[i]
        BY <2>3
      <3>2. PICK w : w = entryRow'[r] /\ w = [key |-> b[i].entry[1], gid |-> b[i].gid, stamp |-> b[i].stamp, url |-> b[i].url]
        BY <1>2, <3>1
      <3>3. RowForm(w) /\ w.gid = b[i].gid /\ w.stamp = b[i].stamp
        BY <3>2 DEF RowForm
      <3>4. b[i].stamp \in 0..clock
        BY <1>4, <1>5 DEF PairMine
      <3>. QED  BY <1>5, <3>2, <3>3, <3>4
    <2>. QED  BY <1>6, <2>2, <2>3
  <1>8. TablesOK'
    <2>1. DOMAIN entryRow' \subseteq 1..counted'.row
      BY <1>3a, <1>3b, <1>6
    <2>. QED  BY <1>2, <1>7, <2>1 DEF TablesOK, GroupForm, RowForm
  <1>9. TablesMove
    <2>1. \A r \in DOMAIN entryRow' : IF r \in DOMAIN entryRow THEN entryRow'[r].gid = entryRow[r].gid ELSE r > counted.row
      BY <1>2, <1>3a, <1>6
    <2>. QED  BY <1>2, <1>3, <2>1 DEF TablesMove
  <1>10. ASSUME NEW l2, l2 # l PROVE Untouched(l2)
    <2>1. GroupsMove(l2)
      BY DEF GroupsMove
    <2>2. ASSUME NEW r \in RowsOfList(l2)' PROVE r \in RowsOfList(l2)
      <3>1. r \in DOMAIN entryRow' /\ listGroup[entryRow'[r].gid].list = l2
        BY <2>2 DEF RowsOfList
      <3>2. CASE r \in DOMAIN entryRow
        BY <1>2, <3>1, <3>2 DEF RowsOfList
      <3>3. ASSUME NEW i \in DOMAIN id, r = id[i] PROVE FALSE
        <4>1. PICK w : w = entryRow'[r] /\ w = [key |-> b[i].entry[1], gid |-> b[i].gid, stamp |-> b[i].stamp, url |-> b[i].url]
          BY <1>2, <3>3
        <4>2. entryRow'[r].gid = b[i].gid
          BY <4>1
        <4>3. listGroup[b[i].gid].list = l
          BY <1>4, <1>5 DEF PairMine, GroupMine
        <4>. QED  BY <1>10, <3>1, <4>2, <4>3
      <3>. QED  BY <1>6, <3>1, <3>2, <3>3
    <2>3. ASSUME NEW r \in RowsOfList(l2) PROVE r \in RowsOfList(l2)' /\ entryRow'[r] = entryRow[r]
      <3>1. r \in DOMAIN entryRow /\ listGroup[entryRow[r].gid].list = l2
        BY <2>3 DEF RowsOfList
      <3>2. ~\E i \in DOMAIN b : b[i].id = r
        BY <1>4, <1>10, <3>1 DEF PairMine
      <3>3. entryRow'[r] = entryRow[r] /\ r \in DOMAIN entryRow'
        BY <1>2, <3>1, <3>2
      <3>. QED  BY <3>1, <3>3 DEF RowsOfList
    <2>. QED  BY <2>1, <2>2, <2>3 DEF Untouched
  <1>. QED  BY <1>8, <1>9, <1>10

(* What a batch leaves: an entry for each of its pairs.                    *)
LEMMA SavedEntries ==
    ASSUME NEW m, NEW l, NEW id, BatchSaved(m, l, id), CalmOK(m, l), NEW b, b = m.batch
    PROVE  /\ \A r \in DOMAIN entryRow : EntryOf(r)' = EntryOf(r) /\ r \in DOMAIN entryRow' /\ entryRow'[r].gid = entryRow[r].gid
           /\ \A i \in DOMAIN b : \E r \in Fresh(m, l)' : EntryOf(r)' = b[i].entry
           /\ \A r \in Fresh(m, l) : r \in Fresh(m, l)'
           /\ \A r \in Fresh(m, l)' :
                 \/ r \in Fresh(m, l)
                 \/ \E i \in DOMAIN b : /\ EntryOf(r)' = b[i].entry /\ entryRow'[r].gid = b[i].gid
                                        /\ IF b[i].id = 0 THEN r = id[i] ELSE r = b[i].id /\ r <= m.before
           /\ \A r \in RowsOfList(l)' : entryRow'[r].stamp < m.start => r <= m.before
  <1>1. /\ DOMAIN id = {i \in DOMAIN b : b[i].id = 0}
        /\ \A i \in DOMAIN id :
              /\ id[i] \in counted.row + 1..counted'.row
              /\ entryRow'[id[i]] = [key |-> b[i].entry[1], gid |-> b[i].gid, stamp |-> b[i].stamp, url |-> b[i].url]
        /\ DOMAIN entryRow' = DOMAIN entryRow \cup {id[i] : i \in DOMAIN id}
        /\ \A r \in DOMAIN entryRow :
              /\ RowForm(entryRow'[r]) /\ entryRow'[r].key = entryRow[r].key /\ entryRow'[r].gid = entryRow[r].gid
              /\ IF \E i \in DOMAIN b : b[i].id = r THEN \E i \in DOMAIN b : b[i].id = r /\ entryRow'[r].stamp = b[i].stamp
                                                   ELSE entryRow'[r] = entryRow[r]
    BY DEF BatchSaved, SavedAs
  <1>2. TablesOK /\ TablesOK' /\ MineOK(m, l) /\ listGroup' = listGroup /\ clock' = clock
    BY DEF BatchSaved
  <1>3. /\ clock \in Nat /\ counted.row \in Nat /\ counted'.row \in Nat /\ DOMAIN entryRow \subseteq 1..counted.row /\ m.start \in 0..clock
        /\ m.before \in 0..counted.row
    BY <1>2 DEF TablesOK, MineOK, CalmOK
  <1>4. \A i \in DOMAIN b : b[i] \in PairsHeld(m) /\ PairMine(b[i], l) /\ FlightOK(m, l, b[i])
    <2>1. \A i \in DOMAIN b : b[i] \in PairsHeld(m)
      BY DEF PairsHeld, ToSet
    <2>. QED  BY <1>2, <2>1 DEF MineOK, CalmOK
  <1>5. \A i \in DOMAIN b : /\ b[i].entry = <<b[i].entry[1], b[i].entry[2]>>
                            /\ b[i].stamp \in 0..clock /\ b[i].stamp >= m.start
                            /\ GoodGroup(l, b[i].entry[2], b[i].gid)
    <2>1. SUFFICES ASSUME NEW i \in DOMAIN b
                   PROVE  b[i].entry = <<b[i].entry[1], b[i].entry[2]>> /\ b[i].stamp \in 0..clock
      BY <1>4 DEF FlightOK
    <2>2. b[i].entry \in m.listed
      BY <1>4 DEF FlightOK, EntryDone
    <2>3. b[i].entry = <<b[i].entry[1], b[i].entry[2]>>
      BY <2>2 DEF CalmOK, TodoOK
    <2>. QED  BY <1>4, <2>3 DEF PairMine
  <1>6. \A r \in DOMAIN entryRow : EntryOf(r)' = EntryOf(r) /\ r \in DOMAIN entryRow' /\ entryRow'[r].gid = entryRow[r].gid
    BY <1>1, <1>2 DEF EntryOf
  <1>7. ASSUME NEW i \in DOMAIN id
        PROVE  /\ i \in DOMAIN b /\ b[i].id = 0 /\ id[i] \in DOMAIN entryRow' /\ id[i] \in Fresh(m, l)' /\ id[i] > counted.row
               /\ EntryOf(id[i])' = b[i].entry /\ entryRow'[id[i]].gid = b[i].gid /\ entryRow'[id[i]].stamp >= m.start
    <2>1. i \in DOMAIN b /\ b[i].id = 0 /\ id[i] \in DOMAIN entryRow'
      BY <1>1
    <2>2. PICK w : w = entryRow'[id[i]] /\ w = [key |-> b[i].entry[1], gid |-> b[i].gid, stamp |-> b[i].stamp, url |-> b[i].url]
      BY <1>1
    <2>3. w.key = b[i].entry[1] /\ w.gid = b[i].gid /\ w.stamp = b[i].stamp
      BY <2>2
    <2>4. b[i].gid \in DOMAIN listGroup
      BY <1>2, <2>1, <2>2, <2>3 DEF TablesOK
    <2>5. listGroup[b[i].gid].list = l /\ listGroup[b[i].gid].name = b[i].entry[2]
      BY <1>5, <2>1, <2>4 DEF GoodGroup
    <2>6. EntryOf(id[i])' = <<b[i].entry[1], b[i].entry[2]>>
      BY <1>2, <2>2, <2>3, <2>5 DEF EntryOf
    <2>7. id[i] \in Fresh(m, l)'
      <3>1. entryRow'[id[i]].gid = b[i].gid /\ entryRow'[id[i]].stamp = b[i].stamp
        BY <2>2, <2>3
      <3>2. listGroup'[entryRow'[id[i]].gid].list = l
        BY <1>2, <2>5, <3>1
      <3>3. entryRow'[id[i]].stamp >= m.start
        BY <1>5, <2>1, <3>1
      <3>. QED  BY ONLY <2>1, <3>2, <3>3 DEF Fresh, RowsOfList
    <2>8. id[i] > counted.row
      BY <1>1, <1>3, NewIdsAbove
    <2>. QED  BY <1>5, <2>1, <2>2, <2>3, <2>6, <2>7, <2>8
  <1>8. ASSUME NEW i \in DOMAIN b, b[i].id # 0
        PROVE  /\ b[i].id \in DOMAIN entryRow /\ b[i].id \in Fresh(m, l)' /\ EntryOf(b[i].id)' = b[i].entry
               /\ entryRow'[b[i].id].gid = b[i].gid /\ b[i].id <= m.before
    <2>1. PICK r : r = b[i].id
      OBVIOUS
    <2>2. r \in DOMAIN entryRow /\ entryRow[r].gid = b[i].gid /\ entryRow[r].key = b[i].entry[1] /\ r <= m.before
      BY <1>4, <1>8, <2>1 DEF FlightOK
    <2>3. PICK k \in DOMAIN b : entryRow'[r].stamp = b[k].stamp
      BY <1>1, <2>1, <2>2
    <2>4. b[i].gid \in DOMAIN listGroup
      BY <1>2, <2>2 DEF TablesOK
    <2>5. listGroup[b[i].gid].list = l /\ listGroup[b[i].gid].name = b[i].entry[2]
      BY <1>5, <2>4 DEF GoodGroup
    <2>6. entryRow'[r].gid = b[i].gid /\ entryRow'[r].key = b[i].entry[1]
      BY <1>1, <2>2
    <2>7. EntryOf(r)' = <<b[i].entry[1], b[i].entry[2]>>
      BY <1>2, <2>5, <2>6 DEF EntryOf
    <2>8. r \in Fresh(m, l)'
      BY <1>2, <1>5, <1>6, <2>2, <2>3, <2>5, <2>6 DEF Fresh, RowsOfList
    <2>. QED  BY <1>5, <2>1, <2>2, <2>6, <2>7, <2>8
  <1>9. \A i \in DOMAIN b : \E r \in Fresh(m, l)' : EntryOf(r)' = b[i].entry
    BY <1>1, <1>7, <1>8
  <1>10. ASSUME NEW r \in DOMAIN entryRow, ~\E i \in DOMAIN b : b[i].id = r
         PROVE  entryRow'[r] = entryRow[r]
    BY <1>1, <1>10
  <1>11. ASSUME NEW r \in Fresh(m, l) PROVE r \in Fresh(m, l)'
    <2>1. r \in DOMAIN entryRow /\ listGroup[entryRow[r].gid].list = l /\ entryRow[r].stamp >= m.start
      BY DEF Fresh, RowsOfList
    <2>2. CASE \E i \in DOMAIN b : b[i].id = r
      <3>1. r # 0
        BY <1>3, <2>1
      <3>. QED  BY <1>8, <2>2, <3>1
    <2>3. CASE ~\E i \in DOMAIN b : b[i].id = r
      <3>1. entryRow'[r] = entryRow[r]
        BY <1>10, <2>1, <2>3
      <3>. QED  BY <1>2, <1>6, <2>1, <3>1 DEF Fresh, RowsOfList
    <2>. QED  BY <2>2, <2>3
  <1>12. ASSUME NEW r \in RowsOfList(l)'
         PROVE  /\ r \in Fresh(m, l)' => \/ r \in Fresh(m, l)
                                         \/ \E i \in DOMAIN b :
                                                /\ EntryOf(r)' = b[i].entry /\ entryRow'[r].gid = b[i].gid
                                                /\ IF b[i].id = 0 THEN r = id[i] ELSE r = b[i].id /\ r <= m.before
                /\ entryRow'[r].stamp < m.start => r <= m.before
    <2>1. r \in DOMAIN entryRow' /\ listGroup[entryRow'[r].gid].list = l
      BY <1>2 DEF RowsOfList
    <2>2. entryRow'[r].stamp \in 0..clock
      BY <1>2, <2>1 DEF TablesOK
    <2>3. CASE \E i \in DOMAIN id : r = id[i]
      <3>1. PICK i \in DOMAIN id : r = id[i]
        BY <2>3
      <3>. QED  BY <1>3, <1>7, <2>2, <3>1
    <2>4. CASE r \in DOMAIN entryRow /\ \E i \in DOMAIN b : b[i].id = r
      <3>1. PICK i \in DOMAIN b : b[i].id = r
        BY <2>4
      <3>2. r # 0
        BY <1>3, <2>4
      <3>3. r \in Fresh(m, l)' /\ EntryOf(r)' = b[i].entry /\ entryRow'[r].gid = b[i].gid /\ r <= m.before
        BY <1>8, <3>1, <3>2
      <3>. QED  BY <3>1, <3>2, <3>3
    <2>5. CASE r \in DOMAIN entryRow /\ ~\E i \in DOMAIN b : b[i].id = r
      <3>1. entryRow'[r] = entryRow[r]
        BY <1>10, <2>5
      <3>2. r \in RowsOfList(l)
        BY <1>2, <2>1, <2>5, <3>1 DEF RowsOfList
      <3>3. r \in Fresh(m, l)' => r \in Fresh(m, l)
        BY <3>1, <3>2 DEF Fresh
      <3>4. entryRow[r].stamp < m.start => r <= m.before
        BY <3>2 DEF CalmOK
      <3>. QED  BY <3>1, <3>3, <3>4
    <2>. QED  BY <1>1, <2>1, <2>3, <2>4, <2>5
  <1>13. \A r \in Fresh(m, l)' : r \in RowsOfList(l)'
    BY DEF Fresh
  <1>. QED  BY <1>6, <1>9, <1>11, <1>12, <1>13

(* The batch of m is saved; the pairs that waited for it go on.            *)
Flushed(m, n) ==
    /\ n.start = m.start /\ n.before = m.before /\ n.listed = m.listed /\ n.saved = m.saved /\ n.todo = m.todo
    /\ \A p \in PairsHeld(n) : \E f \in DOMAIN m.doing : m.doing[f].at = "flush" /\ p \in ToSet(m.doing[f].second)
    /\ \A p \in PairsHeld(m) : p \in ToSet(m.batch) \/ p \in PairsHeld(n)
    /\ \A f \in DOMAIN m.doing : m.doing[f].at # "flush" => f \in DOMAIN n.doing
    /\ \A f \in DOMAIN n.doing : f \in DOMAIN m.doing /\ n.doing[f] = m.doing[f]
    /\ \A i \in DOMAIN n.batch : n.batch[i].id # 0

LEMMA AfterSave ==
    ASSUME NEW m, NEW l, NEW id, BatchSaved(m, l, id), CalmOK(m, l), NEW n, Flushed(m, n), TodoOK(n)
    PROVE  CalmOK(n, l)'
  <1>1. PICK b : b = m.batch
    OBVIOUS
  <1>2. TablesOK /\ TablesOK' /\ MineOK(m, l) /\ listGroup' = listGroup /\ clock' = clock /\ SavedAs(b, id)
    BY <1>1 DEF BatchSaved
  <1>3. n.start = m.start /\ n.before = m.before /\ n.listed = m.listed /\ n.saved = m.saved /\ n.todo = m.todo
    BY DEF Flushed
  <1>4. /\ \A r \in DOMAIN entryRow : EntryOf(r)' = EntryOf(r) /\ r \in DOMAIN entryRow' /\ entryRow'[r].gid = entryRow[r].gid
        /\ \A i \in DOMAIN b : \E r \in Fresh(m, l)' : EntryOf(r)' = b[i].entry
        /\ \A r \in Fresh(m, l) : r \in Fresh(m, l)'
        /\ \A r \in Fresh(m, l)' :
              \/ r \in Fresh(m, l)
              \/ \E i \in DOMAIN b : /\ EntryOf(r)' = b[i].entry /\ entryRow'[r].gid = b[i].gid
                                     /\ IF b[i].id = 0 THEN r = id[i] ELSE r = b[i].id /\ r <= m.before
        /\ \A r \in RowsOfList(l)' : entryRow'[r].stamp < m.start => r <= m.before
    BY <1>1, SavedEntries
  <1>5. Fresh(n, l)' = Fresh(m, l)'
    BY <1>3 DEF Fresh
  <1>6. \A r \in Fresh(m, l) : r \in DOMAIN entryRow /\ EntryOf(r)' = EntryOf(r) /\ entryRow'[r].gid = entryRow[r].gid
    BY <1>4 DEF Fresh, RowsOfList
  <1>7. \A i \in DOMAIN b : b[i] \in PairsHeld(m) /\ FlightOK(m, l, b[i])
    <2>1. \A i \in DOMAIN b : b[i] \in PairsHeld(m)
      BY <1>1 DEF PairsHeld, ToSet
    <2>. QED  BY <2>1 DEF CalmOK
  <1>8. InsertsAlone(m)
    BY DEF CalmOK
  <1>9. \A f : EntryDone(m, f) => EntryDone(n, f)
    BY <1>3 DEF EntryDone, Flushed
  <1>10. n.before \in 0..counted'.row
    <2>1. counted.row \in Nat /\ counted'.row \in Nat /\ counted.row <= counted'.row
      BY <1>2 DEF TablesOK, SavedAs
    <2>. QED  BY <1>3, <2>1 DEF CalmOK
  <1>11. DoingOK(n, l)'
    <2>1. DoingOK(m, l)
      BY DEF CalmOK
    <2>2. DoingOK(n, l)
      BY <2>1 DEF Flushed, DoingOK
    <2>. QED  BY <1>2, <2>2 DEF DoingOK, AllEnabled, GoodGroup, GroupsNamed
  <1>12. InsertsAlone(n)'
    BY DEF Flushed, InsertsAlone
  <1>13. ASSUME NEW p \in PairsHeld(n)
         PROVE  FlightOK(n, l, p)'
    <2>1. PICK f \in DOMAIN m.doing : m.doing[f].at = "flush" /\ p \in ToSet(m.doing[f].second)
      BY DEF Flushed
    <2>2. p \in PairsHeld(m) /\ p.id # 0
      BY <1>2, <2>1 DEF PairsHeld, MineOK
    <2>3. FlightOK(m, l, p)
      BY <2>2 DEF CalmOK
    <2>4. p.id \in DOMAIN entryRow /\ entryRow[p.id].gid = p.gid /\ entryRow[p.id].key = p.entry[1] /\ p.id <= m.before
      BY <2>2, <2>3 DEF FlightOK
    <2>5. p.id \in DOMAIN entryRow' /\ entryRow'[p.id].gid = p.gid /\ entryRow'[p.id].key = p.entry[1]
      BY <1>2, <1>4, <2>4 DEF SavedAs
    <2>6. ASSUME NEW r \in Fresh(m, l)', EntryOf(r)' = p.entry PROVE r <= m.before
      <3>1. CASE r \in Fresh(m, l)
        BY <1>6, <2>2, <2>3, <2>6, <3>1 DEF FlightOK
      <3>2. ASSUME NEW i \in DOMAIN b, EntryOf(r)' = b[i].entry, IF b[i].id = 0 THEN r = id[i] ELSE r = b[i].id /\ r <= m.before
            PROVE  r <= m.before
        <4>1. b[i].id # 0
          BY <1>1, <1>8, <2>1, <2>6, <3>2 DEF InsertsAlone
        <4>. QED  BY <3>2, <4>1
      <3>. QED  BY <1>4, <3>1, <3>2
    <2>7. GoodGroup(l, p.entry[2], p.gid)'
      BY <1>2, <2>3 DEF FlightOK, GoodGroup, GroupsNamed
    <2>8. EntryDone(n, p.entry)'
      <3>1. EntryDone(n, p.entry)
        BY <1>9, <2>3 DEF FlightOK
      <3>. QED  BY <3>1 DEF EntryDone
    <2>9. p.stamp >= n.start
      BY <1>3, <2>3 DEF FlightOK
    <2>. QED  BY <1>3, <1>5, <2>2, <2>4, <2>5, <2>6, <2>7, <2>8, <2>9 DEF FlightOK
  <1>14. ASSUME NEW r \in Fresh(m, l)'
         PROVE  FreshOK(n, l, r)'
    <2>1. CASE r \in Fresh(m, l)
      <3>1. FreshOK(m, l, r)
        BY <2>1 DEF CalmOK
      <3>2. EntryDone(n, EntryOf(r)) /\ EntryOf(r)' = EntryOf(r) /\ entryRow'[r].gid = entryRow[r].gid
        BY <1>6, <1>9, <2>1, <3>1 DEF FreshOK
      <3>3. EntryDone(n, EntryOf(r))'
        BY <3>2 DEF EntryDone
      <3>. QED  BY <1>2, <3>1, <3>2, <3>3 DEF FreshOK, GoodGroup, GroupsNamed
    <2>2. ASSUME NEW i \in DOMAIN b, EntryOf(r)' = b[i].entry, entryRow'[r].gid = b[i].gid
          PROVE  FreshOK(n, l, r)'
      <3>1. EntryDone(m, b[i].entry) /\ GoodGroup(l, b[i].entry[2], b[i].gid)
        BY <1>7 DEF FlightOK
      <3>2. EntryDone(n, EntryOf(r))'
        <4>1. PICK e : e = b[i].entry /\ e = EntryOf(r)' /\ EntryDone(n, e)
          BY <1>9, <2>2, <3>1
        <4>. QED  BY <4>1 DEF EntryDone
      <3>3. b[i].gid \in DOMAIN listGroup
        BY <1>2, <2>2 DEF TablesOK, Fresh, RowsOfList
      <3>4. listGroup'[entryRow'[r].gid].name = b[i].entry[2]
        BY <1>2, <2>2, <3>1, <3>3 DEF GoodGroup
      <3>5. GoodGroup(l, b[i].entry[2], b[i].gid)'
        BY <1>2, <3>1 DEF GoodGroup, GroupsNamed
      <3>. QED  BY <2>2, <3>2, <3>4, <3>5 DEF FreshOK
    <2>. QED  BY <1>4, <2>1, <2>2
  <1>15. ASSUME NEW r \in Fresh(m, l)', NEW q \in Fresh(m, l)', EntryOf(r)' = EntryOf(q)', r # q
         PROVE  r <= m.before
    <2>1. CASE r \in Fresh(m, l)
      <3>1. CASE q \in Fresh(m, l)
        BY <1>6, <1>15, <2>1, <3>1 DEF CalmOK
      <3>2. ASSUME NEW i \in DOMAIN b, EntryOf(q)' = b[i].entry
            PROVE  r <= m.before
        BY <1>6, <1>7, <1>15, <2>1, <3>2 DEF FlightOK
      <3>. QED  BY <1>4, <3>1, <3>2
    <2>2. ASSUME NEW i \in DOMAIN b, EntryOf(r)' = b[i].entry, IF b[i].id = 0 THEN r = id[i] ELSE r = b[i].id /\ r <= m.before
          PROVE  r <= m.before
      <3>1. CASE b[i].id # 0
        BY <2>2, <3>1
      <3>2. CASE b[i].id = 0 /\ q \in Fresh(m, l)
        <4>1. EntryOf(q) = b[i].entry
          BY <1>6, <1>15, <2>2, <3>2
        <4>2. \A x \in Fresh(m, l) : EntryOf(x) # b[i].entry
          BY <1>7, <3>2 DEF FlightOK
        <4>. QED  BY <3>2, <4>1, <4>2
      <3>3. ASSUME NEW k \in DOMAIN b, EntryOf(q)' = b[k].entry, b[i].id = 0,
                   IF b[k].id = 0 THEN q = id[k] ELSE q = b[k].id /\ q <= m.before
            PROVE  FALSE
        <4>1. k # i
          BY <1>15, <2>2, <3>3
        <4>. QED  BY <1>1, <1>8, <1>15, <2>2, <3>3, <4>1 DEF InsertsAlone
      <3>4. CASE b[i].id = 0 /\ q \notin Fresh(m, l)
        <4>1. PICK k \in DOMAIN b : EntryOf(q)' = b[k].entry /\ IF b[k].id = 0 THEN q = id[k] ELSE q = b[k].id /\ q <= m.before
          BY <1>4, <1>15, <3>4
        <4>. QED  BY <3>3, <3>4, <4>1
      <3>. QED  BY <3>1, <3>2, <3>4
    <2>. QED  BY <1>4, <1>15, <2>1, <2>2
  <1>16. ASSUME NEW e \in n.listed PROVE Accounted(n, l, e)'
    <2>1. Accounted(m, l, e)
      BY <1>3 DEF CalmOK
    <2>2. CASE \E p \in PairsHeld(m) : p.entry = e
      <3>1. PICK p \in PairsHeld(m) : p.entry = e
        BY <2>2
      <3>2. CASE p \in ToSet(b)
        <4>1. PICK i \in DOMAIN b : b[i] = p
          BY <3>2 DEF ToSet
        <4>2. \E r \in Fresh(n, l)' : EntryOf(r)' = e
          BY <1>4, <1>5, <3>1, <4>1
        <4>. QED  BY <4>2 DEF Accounted
      <3>3. CASE p \in PairsHeld(n)
        BY <3>1, <3>3 DEF Accounted, PairsHeld
      <3>. QED  BY <1>1, <3>2, <3>3 DEF Flushed
    <2>3. CASE \E r \in Fresh(m, l) : EntryOf(r) = e
      <3>1. \E r \in Fresh(n, l)' : EntryOf(r)' = e
        BY <1>4, <1>5, <1>6, <2>3
      <3>. QED  BY <3>1 DEF Accounted
    <2>4. CASE LeastDisabled(l, e[2])
      <3>1. LeastDisabled(l, e[2])'
        BY <1>2, <2>4 DEF LeastDisabled, GroupsNamed
      <3>. QED  BY <3>1 DEF Accounted
    <2>5. CASE e \in m.todo \/ (e \in DOMAIN m.doing /\ m.doing[e].at # "flush") \/ m.saved = FALSE
      BY <1>3, <2>5 DEF Accounted, Flushed
    <2>. QED  BY <2>1, <2>2, <2>3, <2>4, <2>5 DEF Accounted
  <1>17. TodoOK(n)' /\ PairsHeld(n)' = PairsHeld(n)
    BY DEF TodoOK, PairsHeld
  <1>18. \A r \in RowsOfList(l)' : entryRow'[r].stamp < n.start => r <= n.before
    BY <1>3, <1>4
  <1>19. \A r \in Fresh(n, l)' : FreshOK(n, l, r)'
    BY <1>5, <1>14
  <1>20. \A r, q \in Fresh(n, l)' : EntryOf(r)' = EntryOf(q)' /\ r # q => r <= n.before
    BY <1>3, <1>5, <1>15
  <1>21. \A p \in PairsHeld(n)' : FlightOK(n, l, p)'
    BY <1>13, <1>17
  <1>22. \A e \in n.listed : Accounted(n, l, e)'
    BY <1>16
  <1>. QED  BY <1>10, <1>11, <1>12, <1>17, <1>18, <1>19, <1>20, <1>21, <1>22 DEF CalmOK

LEMMA SaveStep ==
    ASSUME ImportInv, NEW j \in ImportJobs, Refreshing(j), NEW m, m = import[j], NEW l, l = ListOf(j), NEW n,
           Saveable(j), Saves(j), listGroup' = listGroup, clock' = clock, import' = [import EXCEPT ![j] = n],
           ImportForm(n), n.queue = m.queue, n.calm = m.calm, n.stale = m.stale, IsSeq(n.batch),
           Flushed(m, n), m.calm = TRUE /\ CalmOK(m, l) => TodoOK(n) /\ n.pc # "delete"
    PROVE  ImportInv'
  <1>1. TablesOK /\ MineOK(m, l) /\ IsSeq(m.batch)
    BY DEF ImportInv, MineOK
  <1>2. PICK id : SavedAs(m.batch, id)
    <2>1. PICK b : b = m.batch
      OBVIOUS
    <2>2. b = import[j].batch /\ IsSeq(b)
      BY <1>1, <2>1
    <2>3. \E id : SavedAs(b, id)
      BY <1>1, <2>2, SavesRows
    <2>. QED  BY <2>1, <2>3
  <1>3. TablesOK' /\ TablesMove /\ \A l2 : l2 # l => Untouched(l2)
    BY <1>1, <1>2, SavedTables
  <1>4. MineOK(m, l)'
    BY <1>1, <1>3, MineKept
  <1>5. MineOK(n, l)'
    <2>1. PairsHeld(n) \subseteq PairsHeld(m)
      BY DEF Flushed, PairsHeld
    <2>2. \A p \in PairsHeld(n)' : PairMine(p, l)'
      BY <1>4, <2>1 DEF MineOK, PairsHeld
    <2>3. \A f \in DOMAIN n.doing : /\ n.doing[f].at = "row" => GroupMine(n.doing[f].gid, l)'
                                    /\ n.doing[f].at = "flush" => IsSeq(n.doing[f].second) /\ \A p \in ToSet(n.doing[f].second) : p.id # 0
      <3>1. SUFFICES ASSUME NEW f \in DOMAIN n.doing
                     PROVE  /\ n.doing[f].at = "row" => GroupMine(n.doing[f].gid, l)'
                            /\ n.doing[f].at = "flush" => IsSeq(n.doing[f].second) /\ \A p \in ToSet(n.doing[f].second) : p.id # 0
        OBVIOUS
      <3>2. f \in DOMAIN m.doing /\ n.doing[f] = m.doing[f]
        BY DEF Flushed
      <3>. QED  BY <1>4, <3>2 DEF MineOK
    <2>4. n.start = m.start
      BY DEF Flushed
    <2>. QED  BY <1>4, <2>2, <2>3, <2>4 DEF MineOK, ImportForm
  <1>6. ASSUME m.calm = TRUE PROVE CalmOK(n, l)' /\ StaleOK(n, l)'
    <2>1. CalmOK(m, l)
      BY <1>6 DEF ImportInv
    <2>2. BatchSaved(m, l, id)
      BY <1>1, <1>2, <1>3 DEF BatchSaved
    <2>3. TodoOK(n) /\ n.pc # "delete"
      BY <1>6, <2>1
    <2>4. CalmOK(n, l)'
      BY <2>1, <2>2, <2>3, AfterSave
    <2>. QED  BY <2>3, <2>4 DEF StaleOK
  <1>7. n # NotImporting
    BY FormRefreshes
  <1>. QED  BY <1>3, <1>5, <1>6, <1>7, OwnStep

LEMMA FlushStep ==
    ASSUME ImportInv, NEW j \in ImportJobs, Refreshing(j), NEW e \in DOMAIN import[j].doing, Flush(j, e)
    PROVE  ImportInv'
  <1>1. PICK m, l : m = import[j] /\ l = ListOf(j)
    OBVIOUS
  <1>2. TablesOK /\ MineOK(m, l) /\ ImportForm(m) /\ IsSeq(m.batch)
    BY <1>1 DEF ImportInv, MineOK
  <1>3. PICK s : s = m.doing[e].second
    OBVIOUS
  <1>4. e \in DOMAIN m.doing /\ m.doing[e].at = "flush" /\ listGroup' = listGroup /\ clock' = clock
    BY <1>1 DEF Flush
  <1>5. PICK d : d = [f \in DOMAIN m.doing \ {e} |-> m.doing[f]]
    OBVIOUS
  <1>6. DOMAIN d = DOMAIN m.doing \ {e} /\ \A f \in DOMAIN d : d[f] = m.doing[f]
    BY <1>5
  <1>7. IsSeq(s) /\ \A p \in ToSet(s) : p.id # 0
    BY <1>2, <1>3, <1>4 DEF MineOK
  <1>8. \/ Saveable(j) /\ Saves(j) /\ import' = [import EXCEPT ![j].batch = s, ![j].doing = [f \in DOMAIN @ \ {e} |-> @[f]]]
        \/ Leaves(j, e, s) /\ entryRow' = entryRow /\ counted' = counted
    BY <1>1, <1>3 DEF Flush
  <1>9. CASE Saveable(j) /\ Saves(j) /\ import' = [import EXCEPT ![j].batch = s, ![j].doing = [f \in DOMAIN @ \ {e} |-> @[f]]]
    <2>1. PICK n : n = [m EXCEPT !.batch = s, !.doing = [f \in DOMAIN @ \ {e} |-> @[f]]]
      OBVIOUS
    <2>2. import' = [import EXCEPT ![j] = n]
      BY <1>1, <1>9, <2>1
    <2>3. n = [pc |-> m.pc, kind |-> m.kind, queue |-> m.queue, start |-> m.start, before |-> m.before, listed |-> m.listed,
               todo |-> m.todo, doing |-> d, batch |-> s, stale |-> m.stale, calm |-> m.calm, saved |-> m.saved]
      BY <1>2, <1>5, <2>1 DEF ImportForm
    <2>4. ImportForm(n) /\ n.queue = m.queue /\ n.calm = m.calm /\ n.stale = m.stale /\ IsSeq(n.batch)
      BY <1>2, <1>7, <2>3 DEF ImportForm
    <2>5. n.doing = d /\ n.batch = s
      BY <2>3
    <2>6. PairsHeld(n) = ToSet(s) \cup UNION {ToSet(d[f].second) : f \in {g \in DOMAIN d : d[g].at = "flush"}}
      BY <2>5 DEF PairsHeld
    <2>7. \A p \in PairsHeld(n) : \E f \in DOMAIN m.doing : m.doing[f].at = "flush" /\ p \in ToSet(m.doing[f].second)
      BY <1>3, <1>4, <1>6, <2>6
    <2>8. ASSUME NEW p \in PairsHeld(m) PROVE p \in ToSet(m.batch) \/ p \in PairsHeld(n)
      <3>1. CASE \E f \in DOMAIN m.doing : m.doing[f].at = "flush" /\ p \in ToSet(m.doing[f].second)
        <4>1. PICK f \in DOMAIN m.doing : m.doing[f].at = "flush" /\ p \in ToSet(m.doing[f].second)
          BY <3>1
        <4>2. CASE f = e
          BY <1>3, <2>6, <4>1, <4>2
        <4>3. CASE f # e
          BY <1>6, <2>6, <4>1, <4>3
        <4>. QED  BY <4>2, <4>3
      <3>. QED  BY <2>8, <3>1 DEF PairsHeld
    <2>9. \A i \in DOMAIN n.batch : n.batch[i].id # 0
      BY <1>7, <2>5 DEF ToSet
    <2>10. Flushed(m, n)
      <3>1. n.start = m.start /\ n.before = m.before /\ n.listed = m.listed /\ n.saved = m.saved /\ n.todo = m.todo
        BY <2>3
      <3>. QED  BY <1>4, <1>6, <2>5, <2>7, <2>8, <2>9, <3>1 DEF Flushed
    <2>11. ASSUME CalmOK(m, l) PROVE TodoOK(n) /\ n.pc # "delete"
      <3>1. TodoOK(m) /\ m.pc = "parse"
        BY <1>4, <2>11 DEF CalmOK, TodoOK
      <3>. QED  BY <1>6, <2>3, <2>5, <3>1 DEF TodoOK
    <2>. QED  BY <1>1, <1>4, <1>9, <2>2, <2>4, <2>10, <2>11, SaveStep
  <1>10. CASE Leaves(j, e, s) /\ entryRow' = entryRow /\ counted' = counted
    <2>1. PICK n : n = [m EXCEPT !.batch = @ \o s, !.doing = [f \in DOMAIN @ \ {e} |-> @[f]]]
      OBVIOUS
    <2>2. import' = [import EXCEPT ![j] = n]
      BY <1>1, <1>10, <2>1 DEF Leaves
    <2>3. PICK a, b : a = m.batch /\ b = a \o s
      OBVIOUS
    <2>4. n = [pc |-> m.pc, kind |-> m.kind, queue |-> m.queue, start |-> m.start, before |-> m.before, listed |-> m.listed,
               todo |-> m.todo, doing |-> d, batch |-> b, stale |-> m.stale, calm |-> m.calm, saved |-> m.saved]
      BY <1>2, <1>5, <2>1, <2>3 DEF ImportForm
    <2>5. Appends(a, s, b)
      BY <1>2, <1>7, <2>3, AppendsHold
    <2>6. /\ IsSeq(b) /\ ToSet(b) = ToSet(a) \cup ToSet(s) /\ Len(a) \in Nat /\ DOMAIN a = 1..Len(a)
          /\ DOMAIN b \subseteq Nat
          /\ \A i \in DOMAIN b : IF i <= Len(a) THEN i \in DOMAIN a /\ b[i] = a[i] ELSE b[i] \in ToSet(s)
      <3>1. \A i \in DOMAIN s : s[i] \in ToSet(s)
        BY DEF ToSet
      <3>2. \A i \in DOMAIN b : IF i <= Len(a) THEN i \in DOMAIN a /\ b[i] = a[i] ELSE i - Len(a) \in DOMAIN s /\ b[i] = s[i - Len(a)]
        BY <2>5 DEF Appends
      <3>3. DOMAIN b \subseteq Nat
        BY <2>5 DEF Appends
      <3>. QED  BY <2>5, <3>1, <3>2, <3>3 DEF Appends
    <2>7. ImportForm(n) /\ n.queue = m.queue /\ n.calm = m.calm
      BY <1>2, <2>4 DEF ImportForm
    <2>8. n.doing = d /\ n.batch = b
      BY <2>4
    <2>9. PairsHeld(n) = ToSet(b) \cup UNION {ToSet(d[f].second) : f \in {g \in DOMAIN d : d[g].at = "flush"}}
      BY <2>8 DEF PairsHeld
    <2>10. PairsHeld(n) = PairsHeld(m)
      <3>1. ASSUME NEW p \in PairsHeld(n) PROVE p \in PairsHeld(m)
        <4>1. CASE p \in ToSet(a)
          BY <2>3, <4>1 DEF PairsHeld
        <4>2. CASE p \in ToSet(s)
          BY <1>3, <1>4, <4>2 DEF PairsHeld
        <4>3. CASE \E f \in DOMAIN d : d[f].at = "flush" /\ p \in ToSet(d[f].second)
          BY <1>6, <4>3 DEF PairsHeld
        <4>. QED  BY <2>6, <2>9, <3>1, <4>1, <4>2, <4>3
      <3>2. ASSUME NEW p \in PairsHeld(m) PROVE p \in PairsHeld(n)
        <4>1. CASE p \in ToSet(a)
          BY <2>6, <2>9, <4>1
        <4>2. CASE \E f \in DOMAIN m.doing : m.doing[f].at = "flush" /\ p \in ToSet(m.doing[f].second)
          <5>1. PICK f \in DOMAIN m.doing : m.doing[f].at = "flush" /\ p \in ToSet(m.doing[f].second)
            BY <4>2
          <5>2. CASE f = e
            BY <1>3, <2>6, <2>9, <5>1, <5>2
          <5>3. CASE f # e
            BY <1>6, <2>9, <5>1, <5>3
          <5>. QED  BY <5>2, <5>3
        <4>. QED  BY <2>3, <3>2, <4>1, <4>2 DEF PairsHeld
      <3>. QED  BY <3>1, <3>2
    <2>11. ASSUME MineOK(m, l)' PROVE MineOK(n, l)'
      <3>1. \A f \in DOMAIN n.doing : f \in DOMAIN m.doing /\ n.doing[f] = m.doing[f]
        BY <1>6, <2>8
      <3>2. \A p \in PairsHeld(n)' : PairMine(p, l)'
        BY <2>10, <2>11 DEF MineOK, PairsHeld
      <3>3. \A f \in DOMAIN n.doing : /\ n.doing[f].at = "row" => GroupMine(n.doing[f].gid, l)'
                                      /\ n.doing[f].at = "flush" => IsSeq(n.doing[f].second) /\ \A p \in ToSet(n.doing[f].second) : p.id # 0
        <4>1. SUFFICES ASSUME NEW f \in DOMAIN n.doing
                       PROVE  /\ n.doing[f].at = "row" => GroupMine(n.doing[f].gid, l)'
                              /\ n.doing[f].at = "flush" => IsSeq(n.doing[f].second) /\ \A p \in ToSet(n.doing[f].second) : p.id # 0
          OBVIOUS
        <4>2. f \in DOMAIN m.doing /\ n.doing[f] = m.doing[f]
          BY <3>1
        <4>. QED  BY <2>11, <4>2 DEF MineOK
      <3>4. n.start = m.start /\ n.stale = m.stale /\ IsSeq(n.batch)
        BY <2>4, <2>6
      <3>. QED  BY <2>7, <2>11, <3>2, <3>3, <3>4 DEF MineOK, ImportForm
    <2>12. ASSUME CalmOK(m, l)' PROVE CalmOK(n, l)' /\ StaleOK(n, l)'
      <3>1. TodoOK(m) /\ DoingOK(m, l)' /\ InsertsAlone(m)
        BY <2>12 DEF CalmOK, TodoOK, InsertsAlone
      <3>2. m.pc = "parse"
        BY <1>4, <3>1 DEF TodoOK
      <3>3. TodoOK(n)
        BY <1>6, <2>4, <2>8, <3>1, <3>2 DEF TodoOK
      <3>4. DoingOK(n, l)'
        BY <1>6, <2>8, <3>1 DEF DoingOK
      <3>5. InsertsAlone(n)
        <4>1. SUFFICES ASSUME NEW i \in DOMAIN b, b[i].id = 0
                       PROVE  /\ \A k \in DOMAIN b \ {i} : b[k].entry # b[i].entry
                              /\ \A f \in DOMAIN d : d[f].at = "flush" => \A p \in ToSet(d[f].second) : p.entry # b[i].entry
          BY <2>8 DEF InsertsAlone
        <4>2. i \in DOMAIN a /\ b[i] = a[i]
          BY <1>7, <2>6, <4>1
        <4>3. /\ \A k \in DOMAIN a \ {i} : a[k].entry # a[i].entry
              /\ \A f \in DOMAIN m.doing : m.doing[f].at = "flush" => \A p \in ToSet(m.doing[f].second) : p.entry # a[i].entry
          BY <2>3, <3>1, <4>1, <4>2 DEF InsertsAlone
        <4>4. \A p \in ToSet(s) : p.entry # b[i].entry
          BY <1>3, <1>4, <4>2, <4>3
        <4>5. \A k \in DOMAIN b \ {i} : b[k].entry # b[i].entry
          BY <2>6, <4>2, <4>3, <4>4
        <4>. QED  BY <1>6, <4>2, <4>3, <4>5
      <3>6. \A f : EntryDone(m, f) => EntryDone(n, f)
        BY <1>6, <2>4, <2>8 DEF EntryDone
      <3>7. ASSUME NEW f \in n.listed PROVE Accounted(n, l, f)'
        <4>1. Accounted(m, l, f)'
          BY <2>4, <2>12 DEF CalmOK
        <4>2. PairsHeld(m)' = PairsHeld(n)' /\ Fresh(n, l)' = Fresh(m, l)'
          BY <2>4, <2>10 DEF PairsHeld, Fresh
        <4>3. f \in DOMAIN m.doing /\ m.doing[f].at # "flush" => f \in DOMAIN n.doing /\ n.doing[f].at # "flush"
          BY <1>4, <1>6, <2>8
        <4>4. n.saved = m.saved /\ n.todo = m.todo
          BY <2>4
        <4>. QED  BY <4>1, <4>2, <4>3, <4>4 DEF Accounted
      <3>8. n.start = m.start /\ n.before = m.before /\ n.pc = "parse"
        BY <2>4, <3>2
      <3>9. CalmOK(n, l)'
        BY <2>10, <2>12, <3>3, <3>4, <3>5, <3>6, <3>7, <3>8, Onward
      <3>. QED  BY <3>8, <3>9 DEF StaleOK
    <2>. QED  BY <1>1, <1>4, <1>10, <2>2, <2>7, <2>11, <2>12, Progress
  <1>. QED  BY <1>8, <1>9, <1>10

LEMMA FinishParseStep ==
    ASSUME ImportInv, NEW j \in ImportJobs, Refreshing(j), FinishParse(j)
    PROVE  ImportInv'
  <1>1. PICK m, l : m = import[j] /\ l = ListOf(j)
    OBVIOUS
  <1>2. TablesOK /\ MineOK(m, l) /\ ImportForm(m)
    BY <1>1 DEF ImportInv, MineOK
  <1>3. PICK ahead : ahead = IF import[j].kind = "create" THEN "end" ELSE "clean"
    OBVIOUS
  <1>4. m.pc = "parse" /\ m.todo = {} /\ DOMAIN m.doing = {} /\ listGroup' = listGroup /\ clock' = clock
    BY <1>1, NoPair DEF FinishParse
  <1>5. \/ Saveable(j) /\ Saves(j) /\ import' = [import EXCEPT ![j].pc = ahead, ![j].batch = <<>>]
        \/ entryRow' = entryRow /\ counted' = counted /\ import' = [import EXCEPT ![j].pc = ahead, ![j].batch = <<>>, ![j].saved = FALSE]
    BY <1>3 DEF FinishParse
  <1>6. ahead \in {"end", "clean"}
    BY <1>3
  <1>7. CASE Saveable(j) /\ Saves(j) /\ import' = [import EXCEPT ![j].pc = ahead, ![j].batch = <<>>]
    <2>1. PICK n : n = [m EXCEPT !.pc = ahead, !.batch = <<>>]
      OBVIOUS
    <2>2. import' = [import EXCEPT ![j] = n]
      BY <1>1, <1>7, <2>1
    <2>3. n = [pc |-> ahead, kind |-> m.kind, queue |-> m.queue, start |-> m.start, before |-> m.before, listed |-> m.listed,
               todo |-> m.todo, doing |-> m.doing, batch |-> <<>>, stale |-> m.stale, calm |-> m.calm, saved |-> m.saved]
      BY <1>2, <2>1 DEF ImportForm
    <2>4. n.batch = <<>> /\ n.doing = m.doing /\ n.pc = ahead /\ n.todo = {} /\ n.listed = m.listed
      BY <1>4, <2>3
    <2>5. ImportForm(n) /\ n.queue = m.queue /\ n.calm = m.calm /\ n.stale = m.stale /\ IsSeq(n.batch)
      BY <1>2, <1>6, <2>3, NoPair DEF ImportForm
    <2>6. PairsHeld(n) = {}
      BY <1>4, <2>4, NoPair DEF PairsHeld
    <2>7. Flushed(m, n)
      <3>1. n.start = m.start /\ n.before = m.before /\ n.listed = m.listed /\ n.saved = m.saved /\ n.todo = m.todo
        BY <2>3
      <3>2. \A p \in PairsHeld(m) : p \in ToSet(m.batch)
        BY <1>4 DEF PairsHeld
      <3>. QED  BY <1>4, <2>4, <2>6, <3>1, <3>2, NoPair DEF Flushed
    <2>8. ASSUME CalmOK(m, l) PROVE TodoOK(n) /\ n.pc # "delete"
      BY <1>4, <1>6, <2>4, <2>8 DEF CalmOK, TodoOK
    <2>. QED  BY <1>1, <1>4, <1>7, <2>2, <2>5, <2>7, <2>8, SaveStep
  <1>8. CASE entryRow' = entryRow /\ counted' = counted /\ import' = [import EXCEPT ![j].pc = ahead, ![j].batch = <<>>, ![j].saved = FALSE]
    <2>1. PICK n : n = [m EXCEPT !.pc = ahead, !.batch = <<>>, !.saved = FALSE]
      OBVIOUS
    <2>2. import' = [import EXCEPT ![j] = n]
      BY <1>1, <1>8, <2>1
    <2>3. n = [pc |-> ahead, kind |-> m.kind, queue |-> m.queue, start |-> m.start, before |-> m.before, listed |-> m.listed,
               todo |-> m.todo, doing |-> m.doing, batch |-> <<>>, stale |-> m.stale, calm |-> m.calm, saved |-> FALSE]
      BY <1>2, <2>1 DEF ImportForm
    <2>4. n.batch = <<>> /\ n.doing = m.doing /\ n.pc = ahead /\ n.todo = {} /\ n.listed = m.listed /\ n.saved = FALSE
          /\ n.start = m.start /\ n.before = m.before /\ n.stale = m.stale
      BY <1>4, <2>3
    <2>5. ImportForm(n) /\ n.queue = m.queue /\ n.calm = m.calm
      BY <1>2, <1>6, <2>3 DEF ImportForm
    <2>6. PairsHeld(n) = {} /\ PairsHeld(n)' = {}
      BY <1>4, <2>4, NoPair DEF PairsHeld
    <2>7. ASSUME MineOK(m, l)' PROVE MineOK(n, l)'
      BY <1>4, <2>4, <2>5, <2>6, <2>7, NoPair DEF MineOK, ImportForm
    <2>8. ASSUME CalmOK(m, l)' PROVE CalmOK(n, l)' /\ StaleOK(n, l)'
      <3>1. TodoOK(n)
        BY <1>4, <1>6, <2>4, <2>8 DEF CalmOK, TodoOK
      <3>2. DoingOK(n, l)' /\ InsertsAlone(n)
        BY <1>4, <2>4, NoPair DEF DoingOK, InsertsAlone
      <3>3. \A f : EntryDone(m, f) => EntryDone(n, f)
        BY <1>4, <2>4 DEF EntryDone
      <3>4. \A f \in n.listed : Accounted(n, l, f)'
        BY <2>4 DEF Accounted
      <3>5. CalmOK(n, l)'
        BY <2>4, <2>6, <2>8, <3>1, <3>2, <3>3, <3>4, Onward
      <3>. QED  BY <1>6, <2>4, <3>5 DEF StaleOK
    <2>. QED  BY <1>1, <1>4, <1>8, <2>2, <2>5, <2>7, <2>8, Progress
  <1>. QED  BY <1>5, <1>7, <1>8

(* A refresh that parses no more: only its place and its list of rows to   *)
(* delete change.                                                          *)
ListsStale(m, n, stale) ==
    ImportForm(m) /\ m.pc \in {"clean", "delete"} /\ n = [m EXCEPT !.pc = "delete", !.stale = stale]

LEMMA OnToDelete ==
    ASSUME NEW m, NEW n, NEW l, NEW stale, ListsStale(m, n, stale), TablesOK', stale \subseteq DOMAIN entryRow',
           \A r \in stale \cap DOMAIN entryRow' : listGroup'[entryRow'[r].gid].list = l
    PROVE  /\ ImportForm(n) /\ n.queue = m.queue /\ n.calm = m.calm /\ n.pc = "delete" /\ n.stale = stale /\ n.start = m.start
           /\ MineOK(m, l)' => MineOK(n, l)'
           /\ CalmOK(m, l)' => CalmOK(n, l)'
  <1>1. n = [pc |-> "delete", kind |-> m.kind, queue |-> m.queue, start |-> m.start, before |-> m.before, listed |-> m.listed,
             todo |-> m.todo, doing |-> m.doing, batch |-> m.batch, stale |-> stale, calm |-> m.calm, saved |-> m.saved]
    BY DEF ImportForm, ListsStale
  <1>2. ImportForm(n) /\ n.queue = m.queue /\ n.calm = m.calm /\ n.pc = "delete" /\ n.stale = stale
    BY <1>1 DEF ImportForm, ListsStale
  <1>3. n.start = m.start /\ n.before = m.before /\ n.listed = m.listed /\ n.todo = m.todo /\ n.doing = m.doing /\ n.batch = m.batch
        /\ n.saved = m.saved
    BY <1>1
  <1>4. PairsHeld(n) = PairsHeld(m)
    BY <1>3 DEF PairsHeld
  <1>5. ASSUME MineOK(m, l)' PROVE MineOK(n, l)'
    <2>1. stale \subseteq 1..counted'.row
      BY DEF TablesOK
    <2>2. \A p \in PairsHeld(n)' : PairMine(p, l)'
      BY <1>4, <1>5 DEF MineOK, PairsHeld
    <2>. QED  BY <1>2, <1>3, <1>5, <2>1, <2>2 DEF MineOK, ImportForm
  <1>6. ASSUME CalmOK(m, l)' PROVE CalmOK(n, l)'
    <2>1. TodoOK(m) /\ DoingOK(m, l)' /\ InsertsAlone(m)
      BY <1>6 DEF CalmOK, TodoOK, InsertsAlone
    <2>2. TodoOK(n) /\ InsertsAlone(n)
      BY <1>2, <1>3, <2>1 DEF TodoOK, InsertsAlone, ListsStale
    <2>3. DoingOK(n, l)'
      BY <1>3, <2>1 DEF DoingOK
    <2>4. \A f : EntryDone(m, f) => EntryDone(n, f)
      BY <1>3 DEF EntryDone
    <2>5. \A f \in n.listed : Accounted(n, l, f)'
      BY <1>3, <1>4, <1>6 DEF CalmOK, Accounted, PairsHeld, Fresh
    <2>. QED  BY <1>3, <1>4, <1>6, <2>2, <2>3, <2>4, <2>5, Onward
  <1>. QED  BY <1>2, <1>3, <1>5, <1>6

LEMMA ListStaleStep ==
    ASSUME ImportInv, NEW j \in ImportJobs, Refreshing(j), ListStale(j)
    PROVE  ImportInv'
  <1>1. PICK m, l : m = import[j] /\ l = ListOf(j)
    OBVIOUS
  <1>2. TablesOK /\ MineOK(m, l) /\ ImportForm(m)
    BY <1>1 DEF ImportInv, MineOK
  <1>3. PICK stale : stale = {r \in RowsOfList(ListOf(j)) : listGroup[entryRow[r].gid].enabled /\ entryRow[r].stamp < import[j].start}
    OBVIOUS
  <1>4. /\ m.pc = "clean" /\ import' = [import EXCEPT ![j].pc = "delete", ![j].stale = stale]
        /\ listGroup' = listGroup /\ entryRow' = entryRow /\ clock' = clock /\ counted' = counted
    BY <1>1, <1>3 DEF ListStale
  <1>5. PICK n : n = [m EXCEPT !.pc = "delete", !.stale = stale]
    OBVIOUS
  <1>6. import' = [import EXCEPT ![j] = n]
    BY <1>1, <1>4, <1>5
  <1>7. stale = Unrefreshed(m, l)
    BY <1>1, <1>3 DEF Unrefreshed
  <1>8. TablesOK'
    BY <1>2, <1>4 DEF TablesOK, GroupForm, RowForm
  <1>9. stale \subseteq DOMAIN entryRow' /\ \A r \in stale \cap DOMAIN entryRow' : listGroup'[entryRow'[r].gid].list = l
    BY <1>4, <1>7 DEF Unrefreshed, RowsOfList
  <1>10. /\ ImportForm(n) /\ n.queue = m.queue /\ n.calm = m.calm /\ n.pc = "delete" /\ n.stale = stale /\ n.start = m.start
         /\ MineOK(m, l)' => MineOK(n, l)'
         /\ CalmOK(m, l)' => CalmOK(n, l)'
    <2>1. ListsStale(m, n, stale)
      BY <1>2, <1>4, <1>5 DEF ListsStale
    <2>. QED  BY <1>8, <1>9, <2>1, OnToDelete
  <1>11. StaleOK(n, l)'
    <2>1. Unrefreshed(n, l)' = Unrefreshed(m, l)
      BY <1>4, <1>10 DEF Unrefreshed, RowsOfList
    <2>. QED  BY <1>7, <1>10, <2>1 DEF StaleOK
  <1>. QED  BY <1>1, <1>4, <1>6, <1>10, <1>11, Progress

LEMMA DeleteStaleStep ==
    ASSUME ImportInv, NEW j \in ImportJobs, Refreshing(j), DeleteStale(j)
    PROVE  ImportInv'
  <1>1. PICK m, l : m = import[j] /\ l = ListOf(j)
    OBVIOUS
  <1>2. TablesOK /\ MineOK(m, l) /\ ImportForm(m)
    BY <1>1 DEF ImportInv, MineOK
  <1>3. PICK r : r = Min(import[j].stale)
    OBVIOUS
  <1>4. PICK left : left = [q \in DOMAIN entryRow \ {r} |-> entryRow[q]]
    OBVIOUS
  <1>5. PICK kept : kept = [g \in {h \in DOMAIN listGroup : ~listGroup[h].enabled \/ \E q \in DOMAIN left : left[q].gid = h} |-> listGroup[g]]
    OBVIOUS
  <1>6. /\ m.pc = "delete" /\ m.stale # {} /\ entryRow' = left /\ clock' = clock /\ counted' = counted
        /\ listGroup' = IF r \notin DOMAIN entryRow THEN listGroup ELSE kept
        /\ import' = [import EXCEPT ![j].stale = @ \ {r}]
    BY <1>1, <1>3, <1>4, <1>5 DEF DeleteStale
  <1>7. r \in m.stale
    <2>1. m.stale \subseteq 1..counted.row /\ counted.row \in Nat
      BY <1>2 DEF MineOK, TablesOK
    <2>2. m.stale \subseteq Nat
      BY <2>1
    <2>. QED  BY <1>1, <1>3, <1>6, <2>2, MinIsSmallest
  <1>8. DOMAIN entryRow' = DOMAIN entryRow \ {r} /\ \A q \in DOMAIN entryRow' : entryRow'[q] = entryRow[q]
    BY <1>4, <1>6
  <1>9. /\ \A g \in DOMAIN listGroup' : g \in DOMAIN listGroup /\ listGroup'[g] = listGroup[g]
        /\ \A g \in DOMAIN listGroup : ~listGroup[g].enabled => g \in DOMAIN listGroup'
        /\ \A q \in DOMAIN entryRow' : entryRow'[q].gid \in DOMAIN listGroup'
    <2>1. \A q \in DOMAIN left : left[q] = entryRow[q] /\ entryRow[q].gid \in DOMAIN listGroup
      BY <1>2, <1>4 DEF TablesOK
    <2>2. CASE r \notin DOMAIN entryRow
      BY <1>6, <2>1, <2>2
    <2>3. CASE r \in DOMAIN entryRow
      <3>1. listGroup' = kept
        BY <1>6, <2>3
      <3>2. DOMAIN kept = {h \in DOMAIN listGroup : ~listGroup[h].enabled \/ \E q \in DOMAIN left : left[q].gid = h}
            /\ \A g \in DOMAIN kept : kept[g] = listGroup[g]
        BY <1>5
      <3>. QED  BY <1>6, <2>1, <3>1, <3>2
    <2>. QED  BY <2>2, <2>3
  <1>10. TablesOK'
    <2>1. DOMAIN listGroup' \subseteq 1..counted.group /\ \A g \in DOMAIN listGroup' : GroupForm(listGroup'[g])
      BY <1>2, <1>9 DEF TablesOK
    <2>2. DOMAIN entryRow' \subseteq 1..counted.row
      BY <1>2, <1>8 DEF TablesOK
    <2>3. \A q \in DOMAIN entryRow' : RowForm(entryRow'[q]) /\ entryRow'[q].gid \in DOMAIN listGroup' /\ entryRow'[q].stamp \in 0..clock
      BY <1>2, <1>8, <1>9 DEF TablesOK
    <2>. QED  BY <1>2, <1>6, <2>1, <2>2, <2>3 DEF TablesOK, GroupForm, RowForm
  <1>11. TablesMove
    BY <1>2, <1>6, <1>8, <1>9 DEF TablesMove, TablesOK
  <1>12. \A l2 : GroupsMove(l2)
    BY <1>9 DEF GroupsMove
  <1>13. \A l2 : RowsOfList(l2)' = RowsOfList(l2) \ {r}
    <2>1. \A q \in DOMAIN entryRow' : listGroup'[entryRow'[q].gid] = listGroup[entryRow[q].gid]
      BY <1>8, <1>9
    <2>. QED  BY <1>8, <2>1 DEF RowsOfList
  <1>14. ASSUME NEW l2, l2 # l PROVE Untouched(l2)
    <2>1. r \notin RowsOfList(l2)
      BY <1>2, <1>7, <1>14 DEF MineOK, RowsOfList
    <2>2. \A q \in RowsOfList(l2) : entryRow'[q] = entryRow[q]
      BY <1>8, <2>1 DEF RowsOfList
    <2>. QED  BY <1>12, <1>13, <2>1, <2>2 DEF Untouched
  <1>15. MineOK(m, l)'
    BY <1>2, <1>10, <1>11, MineKept
  <1>16. PICK stale : stale = m.stale \ {r}
    OBVIOUS
  <1>17. PICK n : n = [m EXCEPT !.stale = @ \ {r}]
    OBVIOUS
  <1>18. import' = [import EXCEPT ![j] = n]
    BY <1>1, <1>6, <1>17
  <1>19. n = [pc |-> "delete", kind |-> m.kind, queue |-> m.queue, start |-> m.start, before |-> m.before, listed |-> m.listed,
              todo |-> m.todo, doing |-> m.doing, batch |-> m.batch, stale |-> stale, calm |-> m.calm, saved |-> m.saved]
    BY <1>2, <1>6, <1>16, <1>17 DEF ImportForm
  <1>20. ImportForm(n) /\ n.queue = m.queue /\ n.calm = m.calm /\ n.stale = stale /\ n.start = m.start
    BY <1>2, <1>19 DEF ImportForm
  <1>21. n.before = m.before /\ n.listed = m.listed /\ n.todo = m.todo /\ n.doing = m.doing /\ n.batch = m.batch /\ n.saved = m.saved
         /\ n.pc = m.pc
    BY <1>6, <1>19
  <1>22. PairsHeld(n) = PairsHeld(m) /\ PairsHeld(n)' = PairsHeld(m)'
    BY <1>21 DEF PairsHeld
  <1>23. MineOK(n, l)'
    <2>1. \A p \in PairsHeld(n)' : PairMine(p, l)'
      BY <1>15, <1>22 DEF MineOK
    <2>. QED  BY <1>15, <1>16, <1>20, <1>21, <2>1 DEF MineOK, ImportForm
  <1>24. ASSUME m.calm = TRUE PROVE CalmOK(n, l)' /\ StaleOK(n, l)'
    <2>1. CalmOK(m, l) /\ m.stale = Unrefreshed(m, l)
      BY <1>1, <1>6, <1>24 DEF ImportInv, StaleOK
    <2>2. PairsHeld(m) = {}
      BY <1>6, <2>1, NoPair DEF CalmOK, TodoOK, PairsHeld
    <2>3. r \notin Fresh(m, l)
      <3>1. r \in DOMAIN entryRow /\ entryRow[r].stamp < m.start
        BY <1>7, <2>1 DEF Unrefreshed, RowsOfList
      <3>2. entryRow[r].stamp \in Nat /\ m.start \in Nat
        <4>1. clock \in Nat
          BY <1>2 DEF TablesOK
        <4>. QED  BY <1>2, <3>1, <4>1 DEF TablesOK, MineOK
      <3>. QED  BY <3>1, <3>2 DEF Fresh
    <2>4. RowsMove(m, l)
      BY <1>8, <1>13, <2>2, <2>3 DEF RowsMove, Fresh, RowsOfList
    <2>5. CalmOK(m, l)'
      BY <1>2, <1>10, <1>11, <1>12, <2>1, <2>4, CalmKept
    <2>6. TodoOK(n) /\ InsertsAlone(n) /\ DoingOK(n, l)'
      BY <1>21, <2>5 DEF CalmOK, TodoOK, InsertsAlone, DoingOK
    <2>7. \A f : EntryDone(m, f) => EntryDone(n, f)
      BY <1>21 DEF EntryDone
    <2>8. \A f \in n.listed : Accounted(n, l, f)'
      BY <1>20, <1>21, <1>22, <2>5 DEF CalmOK, Accounted, Fresh
    <2>9. CalmOK(n, l)'
      BY <1>20, <1>21, <1>22, <2>5, <2>6, <2>7, <2>8, Onward
    <2>10. Unrefreshed(n, l)' = stale
      <3>1. \A q \in RowsOfList(l)' : entryRow'[q] = entryRow[q] /\ listGroup'[entryRow'[q].gid] = listGroup[entryRow[q].gid]
        BY <1>8, <1>9 DEF RowsOfList
      <3>2. Unrefreshed(n, l)' = Unrefreshed(m, l) \ {r}
        BY <1>13, <1>20, <3>1 DEF Unrefreshed
      <3>. QED  BY <1>16, <2>1, <3>2
    <2>. QED  BY <1>20, <2>9, <2>10 DEF StaleOK
  <1>25. n # NotImporting
    BY <1>20, FormRefreshes
  <1>. QED  BY <1>1, <1>10, <1>11, <1>14, <1>18, <1>20, <1>23, <1>24, <1>25, OwnStep

(* A refresh is told that somebody else acts on its list.                  *)
LEMMA Disturbed ==
    ASSUME NEW m, NEW l, MineOK(m, l)', NEW n, n = [m EXCEPT !.calm = FALSE]
    PROVE  MineOK(n, l)' /\ n.calm = FALSE /\ n.queue = m.queue /\ n # NotImporting /\ n.pc = m.pc
  <1>1. ImportForm(m)
    BY DEF MineOK, ImportForm
  <1>2. n = [pc |-> m.pc, kind |-> m.kind, queue |-> m.queue, start |-> m.start, before |-> m.before, listed |-> m.listed,
             todo |-> m.todo, doing |-> m.doing, batch |-> m.batch, stale |-> m.stale, calm |-> FALSE, saved |-> m.saved]
    BY <1>1 DEF ImportForm
  <1>3. ImportForm(n) /\ n.calm = FALSE /\ n.queue = m.queue /\ n.pc = m.pc
    BY <1>1, <1>2 DEF ImportForm
  <1>4. n.batch = m.batch /\ n.doing = m.doing /\ n.start = m.start /\ n.stale = m.stale
    BY <1>2
  <1>5. PairsHeld(n)' = PairsHeld(m)'
    BY <1>4 DEF PairsHeld
  <1>6. MineOK(n, l)'
    BY <1>3, <1>4, <1>5 DEF MineOK, ImportForm
  <1>7. n # NotImporting
    BY <1>3, FormRefreshes
  <1>. QED  BY <1>3, <1>6, <1>7

(* A step of somebody else, for one refresh.                               *)
LEMMA OthersStep ==
    ASSUME ImportInv, TablesOK', TablesMove, NEW k \in ImportJobs, Refreshing(k),
           \/ import'[k] = import[k] /\ Untouched(ListOf(k))
           \/ import'[k] = [import[k] EXCEPT !.calm = FALSE]
    PROVE  /\ Refreshing(k)' /\ ListOf(k)' = ListOf(k) /\ MineOK(import[k], ListOf(k))'
           /\ import'[k].calm = FALSE \/ (import'[k].calm = import[k].calm)
           /\ import'[k].calm = TRUE => CalmOK(import[k], ListOf(k))' /\ StaleOK(import[k], ListOf(k))'
           /\ import'[k].pc = import[k].pc
  <1>1. PICK m, l : m = import[k] /\ l = ListOf(k)
    OBVIOUS
  <1>2. TablesOK /\ MineOK(m, l) /\ (m.calm = TRUE => CalmOK(m, l) /\ StaleOK(m, l))
    BY <1>1 DEF ImportInv
  <1>3. MineOK(m, l)'
    BY <1>2, MineKept
  <1>4. CASE import'[k] = import[k] /\ Untouched(l)
    <2>1. m.calm = TRUE => CalmOK(m, l)' /\ StaleOK(m, l)'
      BY <1>2, <1>4, UntouchedKept
    <2>2. ListOf(k)' = l /\ import'[k] = m
      BY <1>1, <1>4 DEF ListOf
    <2>. QED  BY <1>1, <1>3, <1>4, <2>1, <2>2 DEF Refreshing
  <1>5. CASE import'[k] = [import[k] EXCEPT !.calm = FALSE]
    <2>1. PICK n : n = [m EXCEPT !.calm = FALSE] /\ n = import'[k]
      BY <1>1, <1>5
    <2>2. MineOK(n, l)' /\ n.calm = FALSE /\ n.queue = m.queue /\ n # NotImporting /\ n.pc = m.pc
      BY <1>3, <2>1, Disturbed
    <2>3. ListOf(k)' = l
      BY <1>1, <2>1, <2>2 DEF ListOf
    <2>. QED  BY <1>1, <2>1, <2>2, <2>3 DEF Refreshing
  <1>. QED  BY <1>1, <1>4, <1>5

LEMMA OpensStep ==
    ASSUME ImportInv, NEW j \in ImportJobs, NEW kind, NEW queue, Opens(j, kind, queue),
           listGroup' = listGroup, entryRow' = entryRow, counted' = counted
    PROVE  ImportInv' /\ \A k \in ImportJobs \ {j} : import'[k].pc = import[k].pc
  <1>1. PICK l, others : l = Head(queue) /\ others = Importing(Head(queue)) \ {j}
    OBVIOUS
  <1>2. PICK n : n = [pc |-> "fetch", kind |-> kind, queue |-> queue, start |-> clock + 1, before |-> counted.row, listed |-> {},
                      todo |-> {}, doing |-> <<>>, batch |-> <<>>, stale |-> {}, calm |-> others = {}, saved |-> TRUE]
    OBVIOUS
  <1>3. clock' = clock + 1 /\ import' = [k \in ImportJobs |-> IF k = j THEN n ELSE IF k \in others THEN [import[k] EXCEPT !.calm = FALSE]
                                                                                   ELSE import[k]]
    BY <1>1, <1>2 DEF Opens
  <1>4. TablesOK /\ clock \in Nat /\ counted.row \in Nat
    BY CountersNat DEF ImportInv
  <1>5. TablesOK' /\ TablesMove /\ \A l2 : Untouched(l2)
    <2>1. clock' \in Nat /\ clock <= clock' /\ counted' \in [group : Nat, row : Nat, edits : Nat]
      BY <1>3, <1>4 DEF TablesOK
    <2>. QED  BY <1>4, <2>1, SameTables
  <1>6. import' = [k \in ImportJobs |-> import'[k]] /\ import'[j] = n
    BY <1>3
  <1>7. /\ n.pc = "fetch" /\ n.queue = queue /\ n.start = clock' /\ n.before = counted.row /\ n.listed = {} /\ n.todo = {}
        /\ DOMAIN n.doing = {} /\ n.batch = <<>> /\ n.stale = {} /\ n.saved = TRUE /\ ImportForm(n)
    <2>1. (others = {}) \in BOOLEAN
      OBVIOUS
    <2>. QED  BY <1>2, <1>3, <2>1, NoPair DEF ImportForm
  <1>8. others # {} => n.calm = FALSE
    <2>1. others # {} => (others = {}) = FALSE
      OBVIOUS
    <2>. QED  BY <1>2, <2>1
  <1>9. ListOf(j)' = l /\ n # NotImporting /\ Refreshing(j)'
    BY <1>1, <1>6, <1>7, FormRefreshes DEF ListOf, Refreshing
  <1>10. PairsHeld(n)' = {}
    BY <1>7, NoPair DEF PairsHeld
  <1>11. MineOK(n, l)'
    <2>1. n.start \in 0..clock'
      BY <1>3, <1>4, <1>7
    <2>. QED  BY <1>7, <1>10, <2>1, NoPair DEF MineOK, ImportForm
  <1>12. CalmOK(n, l)' /\ StaleOK(n, l)'
    <2>1. TodoOK(n) /\ InsertsAlone(n) /\ DoingOK(n, l)'
      BY <1>7, NoPair DEF TodoOK, InsertsAlone, DoingOK
    <2>2. TodoOK(n)' /\ InsertsAlone(n)'
      BY <2>1 DEF TodoOK, InsertsAlone
    <2>3. \A r \in RowsOfList(l)' : r <= n.before
      <3>1. \A r \in DOMAIN entryRow : r <= counted.row
        BY <1>4 DEF TablesOK
      <3>. QED  BY <1>7, <3>1 DEF RowsOfList
    <2>4. Fresh(n, l)' = {}
      <3>1. \A r \in DOMAIN entryRow : entryRow[r].stamp \in 0..clock
        BY <1>4 DEF TablesOK
      <3>2. \A r \in DOMAIN entryRow : ~(entryRow[r].stamp >= clock + 1)
        BY <1>4, <3>1
      <3>. QED  BY <1>3, <1>7, <3>2 DEF Fresh, RowsOfList
    <2>5. n.before \in 0..counted'.row
      BY <1>4, <1>7
    <2>6. CalmOK(n, l)'
      BY <1>7, <1>10, <2>1, <2>2, <2>3, <2>4, <2>5 DEF CalmOK
    <2>. QED  BY <1>7, <2>6 DEF StaleOK
  <1>13. ASSUME NEW k \in ImportJobs \ {j}, Refreshing(k)
         PROVE  /\ Refreshing(k)' /\ ListOf(k)' = ListOf(k) /\ MineOK(import[k], ListOf(k))'
                /\ import'[k].calm = FALSE \/ (import'[k].calm = import[k].calm)
                /\ import'[k].calm = TRUE => CalmOK(import[k], ListOf(k))' /\ StaleOK(import[k], ListOf(k))'
                /\ import'[k].pc = import[k].pc
                /\ k \in others => import'[k].calm = FALSE
    <2>1. IF k \in others THEN import'[k] = [import[k] EXCEPT !.calm = FALSE] ELSE import'[k] = import[k]
      BY <1>3
    <2>2. \/ import'[k] = import[k] /\ Untouched(ListOf(k))
          \/ import'[k] = [import[k] EXCEPT !.calm = FALSE]
      BY <1>5, <2>1
    <2>3. /\ Refreshing(k)' /\ ListOf(k)' = ListOf(k) /\ MineOK(import[k], ListOf(k))'
          /\ import'[k].calm = FALSE \/ (import'[k].calm = import[k].calm)
          /\ import'[k].calm = TRUE => CalmOK(import[k], ListOf(k))' /\ StaleOK(import[k], ListOf(k))'
          /\ import'[k].pc = import[k].pc
      BY <1>5, <1>13, <2>2, OthersStep
    <2>4. k \in others => import'[k].calm = FALSE
      <3>1. PICK m, x : m = import[k] /\ x = [m EXCEPT !.calm = FALSE]
        OBVIOUS
      <3>2. ImportForm(m)
        BY <1>13, <3>1 DEF ImportInv, MineOK
      <3>3. x.calm = FALSE
        BY <3>1, <3>2 DEF ImportForm
      <3>. QED  BY <2>1, <3>1, <3>3
    <2>. QED  BY <2>3, <2>4
  <1>14. \A k \in ImportJobs \ {j} : Refreshing(k)' => Refreshing(k)
    <2>1. SUFFICES ASSUME NEW k \in ImportJobs \ {j}, ~Refreshing(k) PROVE ~Refreshing(k)'
      OBVIOUS
    <2>2. k \notin others
      BY <1>1, <2>1 DEF Importing, Refreshing
    <2>3. import'[k] = import[k]
      BY <1>3, <2>2
    <2>. QED  BY <2>1, <2>3 DEF Refreshing
  <1>15. ASSUME NEW k \in ImportJobs \ {j} PROVE import'[k].pc = import[k].pc
    <2>1. CASE Refreshing(k)
      BY <1>13, <2>1
    <2>2. CASE ~Refreshing(k)
      <3>1. k \notin others
        BY <1>1, <2>2 DEF Importing, Refreshing
      <3>. QED  BY <1>3, <3>1
    <2>. QED  BY <2>1, <2>2
  <1>16. \A k \in ImportJobs : Refreshing(k)' => MineOK(import[k], ListOf(k))'
    <2>1. MineOK(import[j], ListOf(j))'
      BY <1>6, <1>9, <1>11
    <2>. QED  BY <1>13, <1>14, <2>1
  <1>17. \A k \in ImportJobs : Refreshing(k)' /\ import'[k].calm = TRUE => CalmOK(import[k], ListOf(k))' /\ StaleOK(import[k], ListOf(k))'
    <2>1. CalmOK(import[j], ListOf(j))' /\ StaleOK(import[j], ListOf(j))'
      BY <1>6, <1>9, <1>12
    <2>. QED  BY <1>13, <1>14, <2>1
  <1>18. ASSUME NEW k \in ImportJobs, NEW i \in ImportJobs, k # i, Refreshing(k)', Refreshing(i)', ListOf(k)' = ListOf(i)'
         PROVE  import'[k].calm = FALSE
    <2>1. CASE k = j
      <3>1. i \in others
        BY <1>1, <1>9, <1>13, <1>14, <1>18, <2>1 DEF Importing, Refreshing
      <3>. QED  BY <1>6, <1>8, <2>1, <3>1
    <2>2. CASE i = j
      <3>1. k \in others
        BY <1>1, <1>9, <1>13, <1>14, <1>18, <2>2 DEF Importing, Refreshing
      <3>. QED  BY <1>13, <1>14, <1>18, <2>2, <3>1
    <2>3. CASE k # j /\ i # j
      <3>1. Refreshing(k) /\ Refreshing(i) /\ ListOf(k) = ListOf(i)
        BY <1>13, <1>14, <1>18, <2>3
      <3>2. import[k].calm = FALSE
        BY <1>18, <3>1 DEF ImportInv
      <3>. QED  BY <1>13, <2>3, <3>1, <3>2
    <2>. QED  BY <2>1, <2>2, <2>3
  <1>. QED  BY <1>5, <1>6, <1>15, <1>16, <1>17, <1>18 DEF ImportInv

(* A step that opens no refresh and goes on with none: refreshes are told, *)
(* or end.                                                                 *)
LEMMA OthersOnly ==
    ASSUME ImportInv, TablesOK', TablesMove, NEW gone, import' = [k \in ImportJobs |-> import'[k]],
           \A k \in gone \cap ImportJobs : import'[k] = NotImporting,
           \A k \in ImportJobs \ gone :
               \/ import'[k] = import[k] /\ Untouched(ListOf(k))
               \/ Refreshing(k) /\ import'[k] = [import[k] EXCEPT !.calm = FALSE]
    PROVE  ImportInv' /\ \A k \in ImportJobs \ gone : import'[k].pc = import[k].pc
  <1>1. \A k \in ImportJobs : Refreshing(k)' => k \notin gone /\ Refreshing(k)
    <2>1. SUFFICES ASSUME NEW k \in ImportJobs, Refreshing(k)' PROVE k \notin gone /\ Refreshing(k)
      OBVIOUS
    <2>2. k \notin gone
      BY <2>1 DEF Refreshing
    <2>. QED  BY <2>1, <2>2 DEF Refreshing
  <1>2. ASSUME NEW k \in ImportJobs \ gone, Refreshing(k)
        PROVE  /\ Refreshing(k)' /\ ListOf(k)' = ListOf(k) /\ MineOK(import[k], ListOf(k))'
               /\ import'[k].calm = FALSE \/ (import'[k].calm = import[k].calm)
               /\ import'[k].calm = TRUE => CalmOK(import[k], ListOf(k))' /\ StaleOK(import[k], ListOf(k))'
               /\ import'[k].pc = import[k].pc
    BY <1>2, OthersStep
  <1>3. ASSUME NEW k \in ImportJobs \ gone PROVE import'[k].pc = import[k].pc
    BY <1>2, <1>3
  <1>4. \A k \in ImportJobs : Refreshing(k)' => MineOK(import[k], ListOf(k))'
    BY <1>1, <1>2
  <1>5. \A k \in ImportJobs : Refreshing(k)' /\ import'[k].calm = TRUE => CalmOK(import[k], ListOf(k))' /\ StaleOK(import[k], ListOf(k))'
    BY <1>1, <1>2
  <1>6. ASSUME NEW k \in ImportJobs, NEW i \in ImportJobs, k # i, Refreshing(k)', Refreshing(i)', ListOf(k)' = ListOf(i)'
        PROVE  import'[k].calm = FALSE
    <2>1. Refreshing(k) /\ Refreshing(i) /\ ListOf(k) = ListOf(i) /\ k \notin gone
      BY <1>1, <1>2, <1>6
    <2>2. import[k].calm = FALSE
      BY <1>6, <2>1 DEF ImportInv
    <2>. QED  BY <1>2, <2>1, <2>2
  <1>. QED  BY <1>3, <1>4, <1>5, <1>6 DEF ImportInv

LEMMA UpstreamStep ==
    ASSUME ImportInv, NEW l, NEW k, NEW name, UpstreamChanges(l, k, name)
    PROVE  ImportInv' /\ \A j \in ImportJobs : import'[j].pc = import[j].pc
  <1>1. TablesOK
    BY DEF ImportInv
  <1>2. /\ listGroup' = listGroup /\ entryRow' = entryRow /\ clock' = clock /\ import' = import
        /\ counted' = [counted EXCEPT !.edits = @ + 1]
    BY DEF UpstreamChanges
  <1>3. /\ clock' \in Nat /\ clock <= clock' /\ counted' \in [group : Nat, row : Nat, edits : Nat]
        /\ counted'.group = counted.group /\ counted'.row = counted.row
    BY <1>1, <1>2 DEF TablesOK
  <1>4. TablesOK' /\ TablesMove /\ \A l2 : Untouched(l2)
    BY <1>1, <1>2, <1>3, SameTables
  <1>5. import' = [j \in ImportJobs |-> import'[j]]
    BY <1>2 DEF ImportInv
  <1>6. PICK gone : gone = {}
    OBVIOUS
  <1>7. \A j \in ImportJobs \ gone : import'[j] = import[j] /\ Untouched(ListOf(j))
    BY <1>2, <1>4
  <1>8. \A j \in gone \cap ImportJobs : import'[j] = NotImporting
    BY <1>6
  <1>. QED  BY <1>2, <1>4, <1>5, <1>7, <1>8, OthersOnly

LEMMA ToggleStep ==
    ASSUME ImportInv, NEW g \in DOMAIN listGroup, ToggleGroup(g)
    PROVE  ImportInv' /\ \A j \in ImportJobs : import'[j].pc = import[j].pc
  <1>1. TablesOK
    BY DEF ImportInv
  <1>2. PICK l, old, new : l = listGroup[g].list /\ old = listGroup[g] /\ new = [old EXCEPT !.enabled = ~@]
    OBVIOUS
  <1>3. /\ listGroup' = [listGroup EXCEPT ![g] = new] /\ entryRow' = entryRow /\ clock' = clock
        /\ counted' = [counted EXCEPT !.edits = @ + 1]
        /\ import' = [j \in ImportJobs |-> IF j \in Importing(l) THEN [import[j] EXCEPT !.calm = FALSE] ELSE import[j]]
    BY <1>2 DEF ToggleGroup
  <1>4. new = [list |-> l, name |-> old.name, enabled |-> ~old.enabled]
    <2>1. old = [list |-> old.list, name |-> old.name, enabled |-> old.enabled]
      BY <1>1, <1>2 DEF TablesOK, GroupForm
    <2>. QED  BY <1>2, <2>1
  <1>5. new.list = l /\ GroupForm(new)
    BY <1>4 DEF GroupForm
  <1>6. /\ DOMAIN listGroup' = DOMAIN listGroup /\ listGroup'[g] = new
        /\ \A h \in DOMAIN listGroup : h # g => listGroup'[h] = listGroup[h]
        /\ \A h \in DOMAIN listGroup : listGroup'[h].list = listGroup[h].list
    BY <1>2, <1>3, <1>5
  <1>7. counted' \in [group : Nat, row : Nat, edits : Nat] /\ counted'.group = counted.group /\ counted'.row = counted.row
    BY <1>1, <1>3 DEF TablesOK
  <1>8. TablesOK'
    <2>1. \A h \in DOMAIN listGroup' : GroupForm(listGroup'[h])
      BY <1>1, <1>5, <1>6 DEF TablesOK
    <2>. QED  BY <1>1, <1>3, <1>6, <1>7, <2>1 DEF TablesOK, GroupForm, RowForm
  <1>9. TablesMove
    BY <1>1, <1>3, <1>6, <1>7, CountersNat DEF TablesMove
  <1>10. ASSUME NEW l2, l2 # l PROVE Untouched(l2)
    <2>1. GroupsMove(l2)
      <3>1. \A h \in DOMAIN listGroup : listGroup'[h].list = l2 => h # g
        BY <1>2, <1>6, <1>10
      <3>. QED  BY <1>6, <3>1 DEF GroupsMove
    <2>2. RowsOfList(l2)' = RowsOfList(l2)
      BY <1>1, <1>3, <1>6 DEF RowsOfList, TablesOK
    <2>. QED  BY <1>3, <2>1, <2>2 DEF Untouched
  <1>11. import' = [j \in ImportJobs |-> import'[j]]
    BY <1>3
  <1>12. ASSUME NEW k \in ImportJobs
         PROVE  \/ import'[k] = import[k] /\ (Refreshing(k) => Untouched(ListOf(k)))
                \/ Refreshing(k) /\ import'[k] = [import[k] EXCEPT !.calm = FALSE]
    <2>1. CASE k \in Importing(l)
      BY <1>3, <2>1 DEF Importing, Refreshing
    <2>2. CASE k \notin Importing(l)
      <3>1. import'[k] = import[k]
        BY <1>3, <2>2
      <3>2. Refreshing(k) => ListOf(k) # l
        BY <2>2 DEF Importing, Refreshing
      <3>. QED  BY <1>10, <3>1, <3>2
    <2>. QED  BY <2>1, <2>2
  <1>13. PICK idle : idle = {k \in ImportJobs : ~Refreshing(k)}
    OBVIOUS
  <1>14. \A k \in idle \cap ImportJobs : import'[k] = NotImporting /\ import[k] = NotImporting
    BY <1>12, <1>13 DEF Refreshing
  <1>15. \A k \in ImportJobs \ idle :
               \/ import'[k] = import[k] /\ Untouched(ListOf(k))
               \/ Refreshing(k) /\ import'[k] = [import[k] EXCEPT !.calm = FALSE]
    BY <1>12, <1>13
  <1>16. ImportInv' /\ \A k \in ImportJobs \ idle : import'[k].pc = import[k].pc
    BY <1>8, <1>9, <1>11, <1>14, <1>15, OthersOnly
  <1>. QED  BY <1>14, <1>16

LEMMA EndListStep ==
    ASSUME ImportInv, NEW j \in ImportJobs, EndList(j), listGroup' = listGroup, entryRow' = entryRow, counted' = counted
    PROVE  ImportInv' /\ \A k \in ImportJobs \ {j} : import'[k].pc = import[k].pc
  <1>1. CASE Opens(j, import[j].kind, Tail(import[j].queue))
    BY <1>1, OpensStep
  <1>2. CASE import' = [import EXCEPT ![j] = NotImporting] /\ clock' = clock
    <2>1. TablesOK
      BY DEF ImportInv
    <2>2. clock' \in Nat /\ clock <= clock' /\ counted' \in [group : Nat, row : Nat, edits : Nat]
      BY <1>2, <2>1 DEF TablesOK
    <2>3. TablesOK' /\ TablesMove /\ \A l2 : Untouched(l2)
      BY <1>2, <2>1, <2>2, SameTables
    <2>4. import' = [k \in ImportJobs |-> import'[k]] /\ import'[j] = NotImporting /\ \A k \in ImportJobs \ {j} : import'[k] = import[k]
      BY <1>2 DEF ImportInv
    <2>5. \A k \in {j} \cap ImportJobs : import'[k] = NotImporting
      BY <2>4
    <2>. QED  BY <2>3, <2>4, <2>5, OthersOnly
  <1>. QED  BY <1>1, <1>2 DEF EndList

LEMMA ImportStarts ==
    ASSUME ImportInit
    PROVE  ImportInv
  <1>1. TablesOK
    BY NoPair DEF ImportInit, TablesOK
  <1>2. \A j \in ImportJobs : ~Refreshing(j)
    BY DEF ImportInit, Refreshing
  <1>3. import = [j \in ImportJobs |-> import[j]]
    BY DEF ImportInit
  <1>. QED  BY <1>1, <1>2, <1>3 DEF ImportInv

LEMMA OtherPlaces ==
    ASSUME ImportInv, NEW k \in ImportJobs, ImportStep(k), NEW j \in ImportJobs \ {k}
    PROVE  import'[j].pc = import[j].pc
  <1>1. import = [i \in ImportJobs |-> import[i]]
    BY DEF ImportInv
  <1>2. ASSUME NEW l \in Lists, CreatePlaylist(k, l) \/ RefreshPlaylist(k, l)
        PROVE  import'[j].pc = import[j].pc
    BY <1>2, OpensStep DEF CreatePlaylist, RefreshPlaylist
  <1>3. CASE UpdatePlaylists(k)
    BY <1>3, OpensStep DEF UpdatePlaylists
  <1>4. CASE FetchFails(k) \/ FinishList(k)
    BY <1>4, EndListStep DEF FetchFails, FinishList
  <1>5. CASE Fetched(k)
    BY <1>1, <1>5 DEF Fetched
  <1>6. ASSUME NEW e \in import[k].todo, LookUpGroup(k, e) PROVE import'[j].pc = import[j].pc
    BY <1>1, <1>6 DEF LookUpGroup, Goes
  <1>7. ASSUME NEW e \in DOMAIN import[k].doing, CreateGroup(k, e) PROVE import'[j].pc = import[j].pc
    BY <1>1, <1>7 DEF CreateGroup, Goes
  <1>8. ASSUME NEW e \in DOMAIN import[k].doing, AddToBatch(k, e) PROVE import'[j].pc = import[j].pc
    BY <1>1, <1>8 DEF AddToBatch, Leaves
  <1>9. ASSUME NEW e \in DOMAIN import[k].doing, Flush(k, e) PROVE import'[j].pc = import[j].pc
    BY <1>1, <1>9 DEF Flush, Leaves
  <1>10. CASE FinishParse(k)
    BY <1>1, <1>10 DEF FinishParse
  <1>11. CASE ListStale(k)
    BY <1>1, <1>11 DEF ListStale
  <1>12. CASE DeleteStale(k)
    BY <1>1, <1>12 DEF DeleteStale
  <1>. QED  BY <1>2, <1>3, <1>4, <1>5, <1>6, <1>7, <1>8, <1>9, <1>10, <1>11, <1>12 DEF ImportStep

(* Only FinishList ends a refresh that deletes.                            *)
LEMMA LeavesDelete ==
    ASSUME ImportInv, ImportNext, NEW j \in ImportJobs, import[j].pc = "delete", import[j].calm, import'[j].pc # "delete"
    PROVE  import[j].stale = {}
  <1>1. Refreshing(j) /\ ImportForm(import[j])
    <2>1. Refreshing(j)
      BY DEF Refreshing, NotImporting
    <2>. QED  BY <2>1 DEF ImportInv, MineOK
  <1>2. DOMAIN import[j].doing = {}
    <2>1. import[j].calm = TRUE
      OBVIOUS
    <2>2. CalmOK(import[j], ListOf(j))
      BY <1>1, <2>1 DEF ImportInv
    <2>. QED  BY <2>2 DEF CalmOK, TodoOK
  <1>3. ImportStep(j)
    <2>1. ~\E l \in Lists, k \in Keys, name \in GroupNames : UpstreamChanges(l, k, name)
      BY UpstreamStep
    <2>2. ~\E g \in DOMAIN listGroup : ToggleGroup(g)
      BY ToggleStep
    <2>. QED  BY <2>1, <2>2, OtherPlaces DEF ImportNext
  <1>4. import[j] # NotImporting /\ import[j].pc = "delete"
    BY <1>1 DEF Refreshing
  <1>5. ~DeleteStale(j)
    <2>1. SUFFICES ASSUME DeleteStale(j) PROVE FALSE
      OBVIOUS
    <2>2. PICK m, r : m = import[j] /\ r = Min(import[j].stale)
      OBVIOUS
    <2>3. import'[j] = [m EXCEPT !.stale = @ \ {r}]
      BY <2>1, <2>2 DEF DeleteStale, ImportInv
    <2>4. import'[j].pc = m.pc
      BY <1>1, <2>2, <2>3 DEF ImportForm
    <2>. QED  BY <2>2, <2>4
  <1>6. FinishList(j)
    <2>1. \A l \in Lists : ~CreatePlaylist(j, l) /\ ~RefreshPlaylist(j, l)
      BY <1>4 DEF CreatePlaylist, RefreshPlaylist
    <2>2. ~UpdatePlaylists(j) /\ ~FetchFails(j) /\ ~Fetched(j) /\ ~FinishParse(j) /\ ~ListStale(j)
      BY <1>4 DEF UpdatePlaylists, FetchFails, Fetched, FinishParse, ListStale
    <2>3. \A e : ~LookUpGroup(j, e)
      BY <1>4 DEF LookUpGroup
    <2>. QED  BY <1>2, <1>3, <1>5, <2>1, <2>2, <2>3 DEF ImportStep
  <1>. QED  BY <1>6 DEF FinishList

LEMMA ImportStepKeeps ==
    ASSUME ImportInv, NEW j \in ImportJobs, ImportStep(j)
    PROVE  ImportInv'
  <1>1. ASSUME NEW l \in Lists, CreatePlaylist(j, l) \/ RefreshPlaylist(j, l) PROVE ImportInv'
    BY <1>1, OpensStep DEF CreatePlaylist, RefreshPlaylist
  <1>2. CASE UpdatePlaylists(j)
    BY <1>2, OpensStep DEF UpdatePlaylists
  <1>3. CASE FetchFails(j) \/ FinishList(j)
    BY <1>3, EndListStep DEF FetchFails, FinishList
  <1>4. ASSUME Refreshing(j), Fetched(j) PROVE ImportInv'
    BY <1>4, FetchedStep
  <1>5. ASSUME Refreshing(j), NEW e \in import[j].todo, LookUpGroup(j, e) PROVE ImportInv'
    BY <1>5, LookUpGroupStep
  <1>6. ASSUME Refreshing(j), NEW e \in DOMAIN import[j].doing, CreateGroup(j, e) PROVE ImportInv'
    BY <1>6, CreateGroupStep
  <1>7. ASSUME Refreshing(j), NEW e \in DOMAIN import[j].doing, AddToBatch(j, e) PROVE ImportInv'
    BY <1>7, AddToBatchStep
  <1>8. ASSUME Refreshing(j), NEW e \in DOMAIN import[j].doing, Flush(j, e) PROVE ImportInv'
    BY <1>8, FlushStep
  <1>9. ASSUME Refreshing(j), FinishParse(j) PROVE ImportInv'
    BY <1>9, FinishParseStep
  <1>10. ASSUME Refreshing(j), ListStale(j) PROVE ImportInv'
    BY <1>10, ListStaleStep
  <1>11. ASSUME Refreshing(j), DeleteStale(j) PROVE ImportInv'
    BY <1>11, DeleteStaleStep
  <1>. QED  BY <1>1, <1>2, <1>3, <1>4, <1>5, <1>6, <1>7, <1>8, <1>9, <1>10, <1>11 DEF ImportStep, Refreshing

LEMMA ImportKeeps ==
    ASSUME ImportInv, [ImportNext]_importVars
    PROVE  ImportInv'
  <1>1. CASE UNCHANGED importVars
    <2>1. PICK t : t = TablesOK
      OBVIOUS
    <2>2. TablesOK
      BY DEF ImportInv
    <2>3. listGroup' = listGroup /\ entryRow' = entryRow /\ clock' = clock /\ counted' = counted /\ import' = import
      BY <1>1 DEF importVars
    <2>4. clock' \in Nat /\ clock <= clock' /\ counted' \in [group : Nat, row : Nat, edits : Nat]
      BY <2>2, <2>3 DEF TablesOK
    <2>5. TablesOK' /\ TablesMove /\ \A l2 : Untouched(l2)
      BY <2>2, <2>3, <2>4, SameTables
    <2>6. import' = [j \in ImportJobs |-> import'[j]]
      BY <2>3 DEF ImportInv
    <2>7. PICK gone : gone = {}
      OBVIOUS
    <2>8. \A j \in ImportJobs \ gone : import'[j] = import[j] /\ Untouched(ListOf(j))
      BY <2>3, <2>5
    <2>9. \A j \in gone \cap ImportJobs : import'[j] = NotImporting
      BY <2>7
    <2>. QED  BY <2>5, <2>6, <2>8, <2>9, OthersOnly
  <1>2. CASE ImportNext
    <2>1. CASE \E l \in Lists, k \in Keys, name \in GroupNames : UpstreamChanges(l, k, name)
      BY <2>1, UpstreamStep
    <2>2. CASE \E g \in DOMAIN listGroup : ToggleGroup(g)
      BY <2>2, ToggleStep
    <2>3. CASE \E j \in ImportJobs : ImportStep(j)
      BY <2>3, ImportStepKeeps
    <2>. QED  BY <1>2, <2>1, <2>2, <2>3 DEF ImportNext
  <1>. QED  BY <1>1, <1>2

(* What a calm refresh leaves when nothing is left to delete.              *)
LEMMA CalmMirrors ==
    ASSUME ImportInv, NEW j \in ImportJobs, import[j].pc = "delete", import[j].calm, import[j].saved, import[j].stale = {}
    PROVE  LET rows == {r \in RowsOfList(ListOf(j)) : listGroup[entryRow[r].gid].enabled}
           IN /\ \A e \in Shown(j) : \E r \in rows : EntryOf(r) = e
              /\ \A r \in rows : EntryOf(r) \in Shown(j)
              /\ \A r, q \in rows : EntryOf(r) = EntryOf(q) /\ r # q => {r, q} \subseteq 1..import[j].before
  <1>1. PICK m, l : m = import[j] /\ l = ListOf(j)
    OBVIOUS
  <1>2. Refreshing(j)
    BY DEF Refreshing, NotImporting
  <1>3. TablesOK /\ MineOK(m, l) /\ CalmOK(m, l) /\ StaleOK(m, l)
    <2>1. import[j].calm = TRUE
      OBVIOUS
    <2>. QED  BY <1>1, <1>2, <2>1 DEF ImportInv
  <1>4. m.todo = {} /\ DOMAIN m.doing = {} /\ PairsHeld(m) = {} /\ Unrefreshed(m, l) = {} /\ m.saved # FALSE
    BY <1>1, <1>3, NoPair DEF CalmOK, TodoOK, PairsHeld, StaleOK
  <1>5. /\ clock \in Nat /\ counted.row \in Nat /\ DOMAIN listGroup \subseteq Nat /\ DOMAIN entryRow \subseteq 1..counted.row
        /\ m.start \in 0..clock /\ m.before \in 0..counted.row
    BY <1>3 DEF TablesOK, MineOK, CalmOK
  <1>6. PICK rows : rows = {r \in RowsOfList(ListOf(j)) : listGroup[entryRow[r].gid].enabled}
    OBVIOUS
  <1>7. \A r \in rows : r \in Fresh(m, l) /\ FreshOK(m, l, r) /\ r \in 1..counted.row
    <2>1. SUFFICES ASSUME NEW r \in rows PROVE r \in Fresh(m, l) /\ r \in 1..counted.row
      BY <1>3 DEF CalmOK
    <2>2. r \in RowsOfList(l) /\ listGroup[entryRow[r].gid].enabled /\ r \in DOMAIN entryRow
      BY <1>1, <1>6 DEF RowsOfList
    <2>3. entryRow[r].stamp \in 0..clock
      BY <1>3, <2>2 DEF TablesOK
    <2>4. ~(entryRow[r].stamp < m.start)
      BY <1>4, <2>2 DEF Unrefreshed
    <2>. QED  BY <1>5, <2>2, <2>3, <2>4 DEF Fresh
  <1>8. ASSUME NEW r \in Fresh(m, l)
        PROVE  /\ entryRow[r].gid \in GroupsNamed(l, EntryOf(r)[2])
               /\ \A h \in GroupsNamed(l, EntryOf(r)[2]) : h <= entryRow[r].gid => listGroup[h].enabled
    <2>1. PICK g : g = entryRow[r].gid
      OBVIOUS
    <2>2. g \in DOMAIN listGroup /\ EntryOf(r)[2] = listGroup[g].name
      BY <1>3, <2>1 DEF Fresh, RowsOfList, TablesOK, EntryOf
    <2>3. GoodGroup(l, listGroup[g].name, g)
      BY <1>3, <2>1 DEF CalmOK, FreshOK
    <2>. QED  BY <2>1, <2>2, <2>3 DEF GoodGroup, GroupsNamed
  <1>9. \A n : GroupsNamed(l, n) \subseteq Nat
    BY <1>5 DEF GroupsNamed
  <1>10. ASSUME NEW e \in Shown(j) PROVE \E r \in rows : EntryOf(r) = e
    <2>1. PICK named : named = GroupsNamed(l, e[2])
      OBVIOUS
    <2>2. e \in m.listed /\ (named = {} \/ listGroup[Min(named)].enabled)
      BY <1>1, <2>1 DEF Shown
    <2>3. ~LeastDisabled(l, e[2])
      <3>1. SUFFICES ASSUME NEW h \in named, ~listGroup[h].enabled, \A k \in named : h <= k PROVE FALSE
        BY <2>1 DEF LeastDisabled
      <3>2. Min(named) \in named /\ \A x \in named : Min(named) <= x
        BY <1>9, <2>1, <3>1, MinIsSmallest
      <3>3. Min(named) = h
        BY <1>9, <2>1, <3>1, <3>2
      <3>. QED  BY <2>2, <3>1, <3>3
    <2>4. PICK r \in Fresh(m, l) : EntryOf(r) = e
      BY <1>3, <1>4, <2>2, <2>3 DEF CalmOK, Accounted
    <2>5. listGroup[entryRow[r].gid].enabled
      <3>1. entryRow[r].gid \in Nat
        BY <1>8, <1>9
      <3>. QED  BY <1>8, <3>1
    <2>6. r \in rows
      BY <1>1, <1>6, <2>5 DEF Fresh
    <2>. QED  BY <2>4, <2>6
  <1>11. ASSUME NEW r \in rows PROVE EntryOf(r) \in Shown(j)
    <2>1. PICK e, named : e = EntryOf(r) /\ named = GroupsNamed(l, e[2])
      OBVIOUS
    <2>2. r \in Fresh(m, l) /\ e \in m.listed
      BY <1>7, <2>1 DEF FreshOK, EntryDone
    <2>3. entryRow[r].gid \in named /\ \A h \in named : h <= entryRow[r].gid => listGroup[h].enabled
      BY <1>8, <2>1, <2>2
    <2>4. Min(named) \in named /\ \A x \in named : Min(named) <= x
      BY <1>9, <2>1, <2>3, MinIsSmallest
    <2>5. listGroup[Min(named)].enabled
      BY <2>3, <2>4
    <2>. QED  BY <1>1, <2>1, <2>2, <2>5 DEF Shown
  <1>12. \A r, q \in rows : EntryOf(r) = EntryOf(q) /\ r # q => {r, q} \subseteq 1..m.before
    <2>1. ASSUME NEW r \in rows, NEW q \in rows, EntryOf(r) = EntryOf(q), r # q
          PROVE  {r, q} \subseteq 1..m.before
      <3>1. r <= m.before /\ q <= m.before
        BY <1>3, <1>7, <2>1 DEF CalmOK
      <3>2. r \in 1..counted.row /\ q \in 1..counted.row
        BY <1>7
      <3>. QED  BY <1>5, <3>1, <3>2
    <2>. QED  BY <2>1
  <1>. QED  BY <1>1, <1>6, <1>10, <1>11, <1>12

(* What each refresh knows of its entries, rows and groups stays true of   *)
(* them (m3u_parser.go:281, cron.go:233).                                  *)
THEOREM ImportSafety == ImportSpec => []ImportInv
  <1>1. ImportInit => ImportInv
    BY ImportStarts
  <1>2. ImportInv /\ [ImportNext]_importVars => ImportInv'
    BY ImportKeeps
  <1>. QED  BY <1>1, <1>2, PTL DEF ImportSpec

(* CleanPlaylist leaves the enabled groups with a row for each entry the   *)
(* refresh listed and none for any other, and no entry is doubled that was *)
(* not before (m3u_parser.go:281, m3u_parser.go:362, cron.go:233).         *)
THEOREM CalmRefreshesMirrorTheFeed == ImportSpec => RefreshMirrorsFeed
  <1>1. ASSUME ImportInv, [ImportNext]_importVars
        PROVE  [\A j \in ImportJobs :
                  (/\ import[j].pc = "delete" /\ import[j].calm /\ import[j].saved
                   /\ import'[j].pc # "delete")
                  => LET rows == {r \in RowsOfList(ListOf(j)) : listGroup[entryRow[r].gid].enabled}
                     IN /\ \A e \in Shown(j) : \E r \in rows : EntryOf(r) = e
                        /\ \A r \in rows : EntryOf(r) \in Shown(j)
                        /\ \A r, q \in rows : EntryOf(r) = EntryOf(q) /\ r # q => {r, q} \subseteq 1..import[j].before
               ]_importVars
    <2>1. SUFFICES ASSUME ImportNext, NEW j \in ImportJobs, import[j].pc = "delete", import[j].calm, import[j].saved,
                          import'[j].pc # "delete"
                   PROVE  LET rows == {r \in RowsOfList(ListOf(j)) : listGroup[entryRow[r].gid].enabled}
                          IN /\ \A e \in Shown(j) : \E r \in rows : EntryOf(r) = e
                             /\ \A r \in rows : EntryOf(r) \in Shown(j)
                             /\ \A r, q \in rows : EntryOf(r) = EntryOf(q) /\ r # q => {r, q} \subseteq 1..import[j].before
      BY <1>1
    <2>2. import[j].stale = {}
      BY <1>1, <2>1, LeavesDelete
    <2>. QED  BY <1>1, <2>1, <2>2, CalmMirrors
  <1>. QED  BY ImportSafety, <1>1, PTL DEF ImportSpec, RefreshMirrorsFeed

=============================================================================
