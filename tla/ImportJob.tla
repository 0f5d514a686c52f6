------------------------------- MODULE ImportJob -------------------------------
(***************************************************************************)
(* The life of an Excel import job (plans_import/routes.py, jobs.py,       *)
(* transition_service.py): the upload route commits the row and then       *)
(* enqueues the parse, a Celery worker parses the workbook, and the        *)
(* reviewer accepts what was parsed, which creates the Tasks.              *)
(*                                                                         *)
(* A worker reads the job without a lock when it takes the message, and    *)
(* locks the row only to write the verdict.  `session.get` with            *)
(* with_for_update waits for the row but leaves the copy the session holds *)
(* as it was (the remark on populate_existing in milestones/queries.py:15  *)
(* says as much), so the verdict is judged by the status seen first.       *)
(*                                                                         *)
(* The broker is external: a message is acknowledged when a worker starts  *)
(* on it, and one that waits too long in a worker's prefetch buffer is     *)
(* delivered to another as well.  Who may upload or accept, and what the   *)
(* rows of a workbook say, are left out.                                   *)
(***************************************************************************)
EXTENDS Integers, Sequences

CONSTANTS
  Jobs, Workers, NoJob,
  MaxRedeliveries    \* bound: messages the broker delivers a second time

ASSUME ImportAssumption ==
  /\ NoJob \notin Jobs
  /\ MaxRedeliveries \in Nat

VARIABLES
  upload,       \* the upload request of each job, and how far its route has come
  file,         \* what was uploaded: a workbook, or something else
  status,       \* import_jobs.status as committed, NONE before that
  imported,     \* how often the Tasks of the job have been created
  queue,        \* parse messages waiting for a worker
  redelivered,
  worker,       \* the job a worker parses and the status it has seen
  lost          \* jobs whose message was never sent or died with its worker

importVars == <<upload, file, status, imported, queue, redelivered, worker, lost>>

LegalTransitions ==
  [PENDING |-> {"PARSED", "PARSE_FAILED"}, PARSED |-> {"ACCEPTED"},
   PARSE_FAILED |-> {}, ACCEPTED |-> {}]

EnqueueFirst == <<"enqueue", "commit">>
RouteSteps == <<"commit", "enqueue">>    \* of post_upload_import_excel, in order

NotSent == [at |-> "NOT_SENT", done |-> 0]
IdleWorker == [job |-> NoJob, seen |-> "NONE"]

--------------------------------------------------------------------------------
(* POST /dr-events/{id}/imports/excel                                       *)

\* create_import_job: the blob is stored and the row inserted, not committed.
UploadWorkbook(j) ==
  /\ upload[j].at = "NOT_SENT"
  /\ upload' = [upload EXCEPT ![j].at = "RUNNING"]
  /\ \E f \in {"WORKBOOK", "INVALID"} : file' = [file EXCEPT ![j] = f]
  /\ UNCHANGED <<status, imported, queue, redelivered, worker, lost>>

NextIs(j, step) ==
  upload[j].at = "RUNNING" /\ RouteSteps[upload[j].done + 1] = step

Advance(j) ==
  upload' = [upload EXCEPT ![j].done = @ + 1,
               ![j].at = IF upload[j].done + 1 = Len(RouteSteps) THEN "ANSWERED" ELSE @]

CommitJob(j) ==
  /\ NextIs(j, "commit")
  /\ status' = [status EXCEPT ![j] = "PENDING"]
  /\ Advance(j)
  /\ UNCHANGED <<file, imported, queue, redelivered, worker, lost>>

Enqueue(j) ==
  /\ NextIs(j, "enqueue")
  /\ queue' = [queue EXCEPT ![j] = @ + 1]
  /\ Advance(j)
  /\ UNCHANGED <<file, status, imported, redelivered, worker, lost>>

\* The process dies, or the commit or the broker fails.
BreakRequest(j) ==
  /\ upload[j].at = "RUNNING"
  /\ upload' = [upload EXCEPT ![j].at = "BROKEN"]
  /\ lost' = lost \cup {j}
  /\ UNCHANGED <<file, status, imported, queue, redelivered, worker>>

\* The client repeats the request with its key: what was committed is
\* replayed and not enqueued again, what was rolled back starts over.
Repeat(j) ==
  /\ upload[j].at = "BROKEN"
  /\ IF status[j] = "NONE"
     THEN upload' = [upload EXCEPT ![j] = NotSent] /\ lost' = lost \ {j}
     ELSE upload' = [upload EXCEPT ![j].at = "ANSWERED"] /\ UNCHANGED lost
  /\ UNCHANGED <<file, status, imported, queue, redelivered, worker>>

--------------------------------------------------------------------------------
(* The parse task                                                           *)

Redeliver(j) ==
  /\ queue[j] > 0 /\ redelivered < MaxRedeliveries
  /\ queue' = [queue EXCEPT ![j] = @ + 1]
  /\ redelivered' = redelivered + 1
  /\ UNCHANGED <<upload, file, status, imported, worker, lost>>

\* The message is gone; a job whose row is not there is left alone.
Take(w, j) ==
  /\ worker[w] = IdleWorker /\ queue[j] > 0
  /\ queue' = [queue EXCEPT ![j] = @ - 1]
  /\ worker' = IF status[j] = "NONE" THEN worker
               ELSE [worker EXCEPT ![w] = [job |-> j, seen |-> status[j]]]
  /\ UNCHANGED <<upload, file, status, imported, redelivered, lost>>

\* The worker dies, or the download fails: rolled back, and not tried again.
Abandon(w) ==
  /\ worker[w] # IdleWorker
  /\ worker' = [worker EXCEPT ![w] = IdleWorker]
  /\ lost' = lost \cup {worker[w].job}
  /\ UNCHANGED <<upload, file, status, imported, queue, redelivered>>

ParseVerdict(j) == IF file[j] = "WORKBOOK" THEN "PARSED" ELSE "PARSE_FAILED"

\* _assert_legal on the copy of the row the session holds.
LegalVerdict(w) == ParseVerdict(worker[w].job) \in LegalTransitions[worker[w].seen]

\* mark_parsed or mark_parse_failed, and the commit; an illegal one raises.
Mark(w) ==
  LET j == worker[w].job IN
  /\ worker[w] # IdleWorker
  /\ status' = IF LegalVerdict(w) THEN [status EXCEPT ![j] = ParseVerdict(j)] ELSE status
  /\ worker' = [worker EXCEPT ![w] = IdleWorker]
  /\ UNCHANGED <<upload, file, imported, queue, redelivered, lost>>

--------------------------------------------------------------------------------
\* process_accepted_import: a Task for each row of the workbook.
CreateTasks(j) == imported' = [imported EXCEPT ![j] = @ + 1]

\* The session holds no copy of the row, so this one is judged by the locked
\* row as it is.
MayAccept(j) == status[j] # "NONE" /\ "ACCEPTED" \in LegalTransitions[status[j]]

\* POST /imports/{id}/accept
Accept(j) ==
  /\ MayAccept(j)
  /\ status' = [status EXCEPT ![j] = "ACCEPTED"]
  /\ CreateTasks(j)
  /\ UNCHANGED <<upload, file, queue, redelivered, worker, lost>>

ImportInit ==
  /\ upload = [j \in Jobs |-> NotSent]
  /\ file = [j \in Jobs |-> "NONE"]
  /\ status = [j \in Jobs |-> "NONE"]
  /\ imported = [j \in Jobs |-> 0]
  /\ queue = [j \in Jobs |-> 0]
  /\ redelivered = 0
  /\ worker = [w \in Workers |-> IdleWorker]
  /\ lost = {}

ImportNext ==
  \/ \E j \in Jobs :
       \/ UploadWorkbook(j) \/ CommitJob(j) \/ Enqueue(j) \/ BreakRequest(j) \/ Repeat(j)
       \/ Redeliver(j) \/ Accept(j)
  \/ \E w \in Workers : (\E j \in Jobs : Take(w, j)) \/ Abandon(w) \/ Mark(w)

(* A route runs on until it breaks, and a worker serves its queue.  Nobody  *)
(* is held to upload, repeat or accept.                                     *)
ImportFairness ==
  /\ \A j \in Jobs : WF_importVars(CommitJob(j)) /\ WF_importVars(Enqueue(j))
  /\ \A w \in Workers : WF_importVars(\E j \in Jobs : Take(w, j)) /\ WF_importVars(Mark(w))

ImportSpec == ImportInit /\ [][ImportNext]_importVars /\ ImportFairness

--------------------------------------------------------------------------------
(* Correctness                                                              *)

\* A committed job gets its verdict unless its message is lost with the
\* process that held it: no order of route and worker steps strands it
\* (routes.py enqueues after the commit, jobs.py returns when it sees no row).
PendingIsParsed == \A j \in Jobs : status[j] = "PENDING" ~> (status[j] # "PENDING" \/ j \in lost)

\* No write touches a job in a terminal status (jobs.py:75-76).
TerminalIsFinal ==
  [][\A j \in Jobs : status[j] \in {"PARSE_FAILED", "ACCEPTED"} => status'[j] = status[j]]_importVars
===============================================================================
