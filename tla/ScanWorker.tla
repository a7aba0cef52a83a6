----------------------------- MODULE ScanWorker -----------------------------
(***************************************************************************)
(* The life of a scan job in the web server: the request threads that      *)
(* create and submit it (web/routes.py), the worker thread that runs it    *)
(* and records how it ended (worker.py), the startup and the stop of the   *)
(* process around them (web/app.py), over the job table of JobStore.       *)
(*                                                                         *)
(* Any write of the job table may fail, a request thread may be overtaken  *)
(* between any two of its calls, and the process may end at any moment.    *)
(* The pipeline is reduced to what the worker sees of it: the states it    *)
(* announces and how it ends.                                              *)
(***************************************************************************)
EXTENDS JobStore, Sequences

CONSTANTS
    NoJob,                 \* the value of current when no job is held
    QueueDepth,            \* _QUEUE_DEPTH
    DegradedAfter,         \* _DEGRADED_AFTER
    OwedRetryDegradedAfter,\* _OWED_RETRY_DEGRADED_AFTER
    MaxFaults,             \* bound: failing store calls and loop surprises
    MaxEnds                \* bound: how often the process ends

ASSUME WorkerAssumption ==
    /\ NoJob \notin Jobs
    /\ QueueDepth \in Nat \ {0}
    /\ DegradedAfter \in Nat \ {0}
    /\ OwedRetryDegradedAfter \in Nat \ {0}
    /\ MaxFaults \in Nat
    /\ MaxEnds \in Nat

VARIABLES
    \* The disk: the job table, and the workspaces a killed process left.
    rows, born, orphans,
    \* The process: the step its startup has reached, and what it has used up.
    proc, ends, faults,
    \* The request thread of each job.
    req,
    \* What request threads, the lifespan and the worker thread share.
    queue, shutdown, stopping, degraded, owed,
    \* The worker thread: where it is, the job it holds and how far that got.
    wpc, current, announced, persisted, meant,
    \* The worker thread: its failure counters and a flush in progress.
    loopFailures, owedRetries, pending, wrote,
    \* The recovery startup could not finish, and the kept sentences it found.
    recoveryPending, kept,
    \* History: jobs the pipeline was called for, jobs whose upload had begun,
    \* jobs whose row has said UPLOADING.
    ran, sent, landed

disk == <<rows, born, orphans>>
bounds == <<ends, faults>>
shared == <<queue, shutdown, stopping, degraded, owed>>
run == <<current, announced, persisted, meant>>
counters == <<loopFailures, owedRetries>>
flush == <<pending, wrote>>
recovery == <<recoveryPending, kept>>
history == <<ran, sent, landed>>
vars == <<disk, proc, bounds, req, shared, wpc, run, counters, flush,
          recovery, history>>

ProcSteps == {"down", "recoverKept", "recoverActive", "prune", "up"}
ReqSteps == {"new", "healthy", "unhealthy", "created", "putting",
             "refused", "owing", "done"}
WorkerSteps == {"off", "top", "get", "taken", "gate", "scan", "ending", "guard",
                "flushAfter", "idle", "flushIdle", "flushRecover",
                "recoverKept", "recoverActive", "clear", "prune",
                "exit", "flushExit", "dead"}
FlushSteps == {"flushAfter", "flushIdle", "flushRecover", "flushExit"}

\* The thread is alive from start() until _run returns.
IsAlive == wpc \notin {"off", "dead"}

\* The jobs with an entry in _unrecorded_failures; NoRow stands for no entry.
OwedJobs == {j \in Jobs : owed[j] # NoRow}

InQueue(j) == \E i \in 1..Len(queue) : queue[i] = j

Works == UNCHANGED faults
Fails == faults < MaxFaults /\ faults' = faults + 1

-----------------------------------------------------------------------------
(* Initially an empty table and a process that has just been launched. *)
Init ==
    /\ rows = [j \in Jobs |-> NoRow]
    /\ born = [j \in Jobs |-> 0]
    /\ orphans = {}
    /\ proc = "recoverKept"
    /\ ends = 0 /\ faults = 0
    /\ req = [j \in Jobs |-> "new"]
    /\ queue = <<>> /\ shutdown = FALSE /\ stopping = FALSE
    /\ degraded = FALSE
    /\ owed = [j \in Jobs |-> NoRow]
    /\ wpc = "off"
    /\ current = NoJob /\ announced = "PENDING" /\ persisted = "PENDING"
    /\ meant = [j \in Jobs |-> NoRow]
    /\ loopFailures = 0 /\ owedRetries = 0
    /\ pending = {} /\ wrote = FALSE
    /\ recoveryPending = FALSE /\ kept = {}
    /\ ran = {} /\ sent = {} /\ landed = {}

-----------------------------------------------------------------------------
(* The process: startup recovery, the start of the worker, and the end. *)

(* The sweep of orphaned workspaces: it keeps the pages of some, and the
   sentences naming where go to the recovery of the rows. *)
Boot ==
    /\ proc = "down"
    /\ proc' = "recoverKept"
    /\ \E found \in SUBSET orphans :
          /\ kept' = found
          /\ orphans' = orphans \ found
    /\ UNCHANGED <<rows, born, bounds, req, shared, wpc, run, counters, flush,
                   recoveryPending, history>>

(* mark_recovery_pending: start degraded and owe the recovery to the worker. *)
MarkRecoveryPending ==
    /\ recoveryPending' = TRUE
    /\ degraded' = TRUE
    /\ proc' = "prune"
    /\ UNCHANGED <<rows, kept>>

StartupRecoverKept ==
    /\ proc = "recoverKept"
    /\ \/ /\ Works
          /\ rows' = FailRecoveredJobs(rows, kept)
          /\ proc' = "recoverActive"
          /\ UNCHANGED <<degraded, recovery>>
       \/ kept # {} /\ Fails /\ MarkRecoveryPending
    /\ UNCHANGED <<born, orphans, ends, req, queue, shutdown, stopping, owed,
                   wpc, run, counters, flush, history>>

StartupRecoverActive ==
    /\ proc = "recoverActive"
    /\ \/ /\ Works
          /\ rows' = FailActiveJobs(rows)
          /\ proc' = "prune"
          /\ kept' = {}
          /\ UNCHANGED <<degraded, recoveryPending>>
       \/ Fails /\ MarkRecoveryPending
    /\ UNCHANGED <<born, orphans, ends, req, queue, shutdown, stopping, owed,
                   wpc, run, counters, flush, history>>

(* The startup prune, whose failure is only logged, and worker.start(). *)
StartWorker ==
    /\ proc = "prune"
    /\ \/ Works /\ \E cutoff \in {0} \cup {born[j] : j \in Jobs} :
                      rows' = Prune(rows, born, cutoff)
       \/ Fails /\ UNCHANGED rows
    /\ proc' = "up"
    /\ wpc' = "top"
    /\ UNCHANGED <<born, orphans, ends, req, shared, run, counters, flush,
                   recovery, history>>

(* stop(): the flag first, then the queue, which drops the jobs waiting. *)
StopSignal ==
    /\ proc = "up" /\ ~stopping
    /\ ends < MaxEnds
    /\ stopping' = TRUE
    /\ UNCHANGED <<disk, proc, bounds, req, queue, shutdown, degraded, owed,
                   wpc, run, counters, flush, recovery, history>>

StopQueue ==
    /\ stopping /\ ~shutdown
    /\ shutdown' = TRUE
    /\ queue' = <<>>
    /\ UNCHANGED <<disk, proc, bounds, req, stopping, degraded, owed, wpc,
                   run, counters, flush, recovery, history>>

(* The process ends: killed at any moment, or past the bounded join of a stop
   with the worker thread done or still busy.  Only the disk survives; a job
   inside the pipeline may leave a workspace with pages behind. *)
ProcessEnds ==
    /\ proc # "down" /\ ends < MaxEnds
    /\ ends' = ends + 1
    /\ proc' = "down"
    /\ orphans' \in {orphans} \cup
          (IF wpc = "scan" THEN {orphans \cup {current}} ELSE {})
    /\ req' = [j \in Jobs |-> IF req[j] = "new" THEN "new" ELSE "done"]
    /\ queue' = <<>> /\ shutdown' = FALSE /\ stopping' = FALSE
    /\ degraded' = FALSE
    /\ owed' = [j \in Jobs |-> NoRow]
    /\ wpc' = "off"
    /\ current' = NoJob /\ announced' = "PENDING" /\ persisted' = "PENDING"
    /\ meant' = [j \in Jobs |-> NoRow]
    /\ loopFailures' = 0 /\ owedRetries' = 0
    /\ pending' = {} /\ wrote' = FALSE
    /\ recoveryPending' = FALSE /\ kept' = {}
    /\ UNCHANGED <<rows, born, faults, history>>

-----------------------------------------------------------------------------
(* The request thread of job j: start_scan, call by call. *)

ReqStep(j, from, to) ==
    /\ proc = "up"
    /\ req[j] = from
    /\ req' = [req EXCEPT ![j] = to]

NextBirth == Cardinality({j \in Jobs : born[j] > 0}) + 1

(* worker.health, read before the row is created. *)
HealthOfThread == IF IsAlive THEN "HEALTHY" ELSE "DOWN"
Health == IF ~IsAlive THEN "DOWN" ELSE IF degraded THEN "DEGRADED" ELSE "HEALTHY"

CheckHealth(j) ==
    /\ ReqStep(j, "new", IF Health = "HEALTHY" THEN "healthy" ELSE "unhealthy")
    /\ UNCHANGED <<disk, bounds, proc, shared, wpc, run, counters, flush,
                   recovery, history>>

(* _record_refused_submit: one INSERT of a row already refused, and the trim;
   a failure is logged and leaves no row. *)
RecordRefusedSubmit(j) ==
    /\ ReqStep(j, "unhealthy", "done")
    /\ \/ /\ Works
          /\ born' = [born EXCEPT ![j] = NextBirth]
          /\ rows' = TrimRejected(InsertRow(rows, j, RejectedRow), born')
       \/ Fails /\ UNCHANGED <<rows, born>>
    /\ UNCHANGED <<orphans, ends, proc, shared, wpc, run, counters, flush,
                   recovery, history>>

(* create_job; a failure answers 500 and leaves no row. *)
CreateJob(j) ==
    /\ \/ /\ Works
          /\ ReqStep(j, "healthy", "created")
          /\ born' = [born EXCEPT ![j] = NextBirth]
          /\ rows' = InsertRow(rows, j, PendingRow)
       \/ /\ Fails
          /\ ReqStep(j, "healthy", "done")
          /\ UNCHANGED <<rows, born>>
    /\ UNCHANGED <<orphans, ends, proc, shared, wpc, run, counters, flush,
                   recovery, history>>

(* submit(), its reads of the thread, the stop flag and the degraded flag. *)
CheckSubmit(j) ==
    /\ ReqStep(j, "created",
               IF IsAlive /\ ~stopping /\ ~degraded THEN "putting" ELSE "refused")
    /\ UNCHANGED <<disk, bounds, proc, shared, wpc, run, counters, flush,
                   recovery, history>>

(* submit(), put_nowait: Full and ShutDown refuse. *)
PutJobThenCheck(j) ==
    /\ IF shutdown \/ Len(queue) >= QueueDepth
       THEN ReqStep(j, "putting", "refused") /\ UNCHANGED queue
       ELSE /\ ReqStep(j, "putting", IF degraded THEN "refused" ELSE "done")
            /\ queue' = Append(queue, j)
    /\ UNCHANGED <<disk, bounds, proc, shutdown, stopping, degraded, owed, wpc,
                   run, counters, flush, recovery, history>>
PutJob(j) ==
    /\ IF shutdown \/ Len(queue) >= QueueDepth
       THEN ReqStep(j, "putting", "refused") /\ UNCHANGED queue
       ELSE ReqStep(j, "putting", "done") /\ queue' = Append(queue, j)
    /\ UNCHANGED <<disk, bounds, proc, shutdown, stopping, degraded, owed, wpc,
                   run, counters, flush, recovery, history>>

(* _reject_created_job: finish the row as REJECTED, or owe it to the worker. *)
RejectionDropped == "done"
AfterFailedRejection == "owing"
RejectCreatedJob(j) ==
    /\ \/ /\ Works
          /\ ReqStep(j, "refused", "done")
          /\ rows' = FinishJob(rows, born, j, RejectedRow)
       \/ Fails /\ ReqStep(j, "refused", AfterFailedRejection) /\ UNCHANGED rows
    /\ UNCHANGED <<born, orphans, ends, proc, shared, wpc, run, counters,
                   flush, recovery, history>>

OweRejection(j) ==
    /\ ReqStep(j, "owing", "done")
    /\ owed' = [owed EXCEPT ![j] = RejectedRow]
    /\ UNCHANGED <<disk, bounds, proc, queue, shutdown, stopping, degraded,
                   wpc, run, counters, flush, recovery, history>>

Request(j) ==
    \/ CheckHealth(j) \/ RecordRefusedSubmit(j) \/ CreateJob(j)
    \/ CheckSubmit(j) \/ PutJob(j) \/ RejectCreatedJob(j) \/ OweRejection(j)

-----------------------------------------------------------------------------
(* The worker thread, _run: the loop condition, then get(). *)

WorkerStep(from, to) == wpc = from /\ wpc' = to

LoopTop ==
    /\ WorkerStep("top", IF stopping THEN "exit" ELSE "get")
    /\ UNCHANGED <<disk, bounds, proc, req, shared, run, counters, flush,
                   recovery, history>>

Dequeue ==
    /\ WorkerStep("get", "taken")
    /\ queue # <<>>
    /\ current' = Head(queue)
    /\ queue' = Tail(queue)
    /\ UNCHANGED <<disk, bounds, proc, req, shutdown, stopping, degraded, owed,
                   announced, persisted, meant, counters, flush, recovery,
                   history>>

\* queue.Empty: the wait on an empty queue timed out.
IdleTick ==
    /\ WorkerStep("get", "idle")
    /\ queue = <<>> /\ ~shutdown
    /\ UNCHANGED <<disk, bounds, proc, req, shared, run, counters, flush,
                   recovery, history>>

\* queue.ShutDown ends the loop at once.
GetShutDown ==
    /\ WorkerStep("get", "exit")
    /\ shutdown
    /\ UNCHANGED <<disk, bounds, proc, req, shared, run, counters, flush,
                   recovery, history>>

(* The check after the dequeue, then the start of _process_job.  A job
   dropped here keeps its PENDING row for the next startup's recovery. *)
TakeJob ==
    /\ IF stopping
       THEN WorkerStep("taken", "exit") /\ current' = NoJob
       ELSE WorkerStep("taken", "gate") /\ UNCHANGED current
    /\ announced' = "PENDING"
    /\ persisted' = "PENDING"
    /\ UNCHANGED <<disk, bounds, proc, req, shared, meant, counters, flush,
                   recovery, history>>

(* The scanner gate is handed over: refuse while stopping, else run_pipeline. *)
NeverRefuse == FALSE
RefuseToStart == stopping

EnterGate ==
    /\ IF RefuseToStart
       THEN /\ WorkerStep("gate", "ending")
            /\ meant' = [meant EXCEPT ![current] = RestartRow(announced, FALSE)]
            /\ UNCHANGED ran
       ELSE /\ WorkerStep("gate", "scan")
            /\ ran' = ran \cup {current}
            /\ UNCHANGED meant
    /\ UNCHANGED <<disk, bounds, proc, req, shared, current, announced,
                   persisted, counters, flush, recovery, sent, landed>>

(* _record_loop_failure. *)
CountLoopFailure ==
    /\ loopFailures' = IF loopFailures < DegradedAfter THEN loopFailures + 1
                                                       ELSE loopFailures
    /\ degraded' = (degraded \/ loopFailures' >= DegradedAfter)

(* Anything but the terminal write escapes _scan_job: nothing is owed yet. *)
JobBreaks ==
    /\ WorkerStep("gate", "guard")
    /\ Fails
    /\ CountLoopFailure
    /\ UNCHANGED <<disk, ends, proc, req, queue, shutdown, stopping, owed, run,
                   owedRetries, flush, recovery, history>>

(* What the pipeline may announce next, by class of states: its DONE event is
   not an active state, and the callback returns without announcing it. *)
NextStates(state) ==
    CASE state = "PENDING"   -> {"SCANNING"}
      [] state = "SCANNING"  -> {"SCANNING", "AWAITING", "UPLOADING"}
      [] state = "AWAITING"  -> {"SCANNING", "AWAITING"}
      [] state = "UPLOADING" -> {}

Attempts(state) == IF state = "AWAITING" THEN 2 ELSE 1

(* _status_cb and _store_progress_state: the state is announced first; it is
   written unless the row already says it, a waiting state in two attempts,
   and a write that never lands is only logged. *)
Announce ==
    /\ wpc = "scan"
    /\ \E state \in NextStates(announced) :
          /\ announced' = state
          /\ sent' = IF state = "UPLOADING" THEN sent \cup {current} ELSE sent
          /\ IF state = persisted
             THEN UNCHANGED <<rows, faults, persisted, landed>>
             ELSE \E failed \in 0..Attempts(state) :
                    /\ faults + failed <= MaxFaults
                    /\ faults' = faults + failed
                    /\ IF failed < Attempts(state)
                       THEN /\ rows' = UpdateState(rows, current, state)
                            /\ persisted' = state
                            /\ landed' = IF state = "UPLOADING"
                                         THEN landed \cup {current} ELSE landed
                       ELSE UNCHANGED <<rows, persisted, landed>>
    /\ UNCHANGED <<born, orphans, ends, proc, req, shared, wpc, current, meant,
                   counters, flush, recovery, ran>>

(* How run_pipeline may end, as the terminal write _scan_job then owes. *)
Outcomes ==
    {Row("ERROR", "failed", note) : note \in BOOLEAN}
    \cup (IF announced = "UPLOADING"
          THEN {Row("DONE", "none", FALSE)}
               \cup {Row("ERROR", "unconfirmed", note) : note \in BOOLEAN}
          ELSE {})
    \cup (IF announced = "AWAITING" THEN {Row("CANCELLED", "cancelled", FALSE)}
                                    ELSE {})
    \cup (IF stopping THEN {RestartRow(announced, note) : note \in BOOLEAN}
                      ELSE {})

PipelineEnds ==
    /\ WorkerStep("scan", "ending")
    /\ \E end \in Outcomes : meant' = [meant EXCEPT ![current] = end]
    /\ UNCHANGED <<disk, bounds, proc, req, shared, current, announced,
                   persisted, counters, flush, recovery, history>>

(* _finish_or_owe: a terminal write that fails is owed before it counts as a
   loop failure; one that lands ends both runs of failures. *)
RecordEnd ==
    /\ \/ /\ WorkerStep("ending", IF degraded THEN "top" ELSE "flushAfter")
          /\ Works
          /\ rows' = FinishJob(rows, born, current, meant[current])
          /\ current' = NoJob
          /\ loopFailures' = 0 /\ owedRetries' = 0
          /\ pending' = IF degraded THEN {} ELSE OwedJobs
          /\ wrote' = FALSE
          /\ UNCHANGED <<degraded, owed>>
       \/ /\ WorkerStep("ending", "guard")
          /\ Fails
          /\ owed' = [owed EXCEPT ![current] = meant[current]]
          /\ CountLoopFailure
          /\ UNCHANGED <<rows, current, owedRetries, flush>>
    /\ UNCHANGED <<born, orphans, ends, proc, req, queue, shutdown, stopping,
                   announced, persisted, meant, recovery, history>>

(* _best_effort_fail: the write already owed, else an ERROR of its own. *)
GuardWriteOf(end) ==
    /\ WorkerStep("guard", "top")
    /\ \/ /\ Works
          /\ rows' = FinishJob(rows, born, current, end)
          /\ owed' = [owed EXCEPT ![current] = NoRow]
       \/ /\ Fails
          /\ owed' = [owed EXCEPT ![current] = end]
          /\ UNCHANGED rows
    /\ current' = NoJob
    /\ UNCHANGED <<born, orphans, ends, proc, req, queue, shutdown, stopping,
                   degraded, announced, persisted, meant, counters, flush,
                   recovery, history>>
LoopFailureRow == Row("ERROR", "failed", FALSE)
GuardWriteIsError == GuardWriteOf(LoopFailureRow)
GuardWrite ==
    GuardWriteOf(IF owed[current] = NoRow THEN LoopFailureRow ELSE owed[current])

-----------------------------------------------------------------------------
(* _flush_unrecorded_failures: write what the snapshot owes, one row at a
   time.  Each entry is dropped once written; its writer is the only thread
   that can hold that id, so the write and the drop are one step. *)

FlushWrite(j) ==
    /\ wpc \in FlushSteps /\ j \in pending
    /\ Works
    /\ rows' = FinishJob(rows, born, j, owed[j])
    /\ owed' = [owed EXCEPT ![j] = NoRow]
    /\ pending' = pending \ {j}
    /\ wrote' = TRUE
    /\ UNCHANGED <<born, orphans, ends, proc, req, queue, shutdown, stopping,
                   degraded, wpc, run, counters, recovery, history>>

AfterFlushLooping(step) ==
    CASE step = "flushAfter"   -> "top"
      [] step = "flushIdle"    -> "prune"
      [] step = "flushRecover" -> "recoverKept"
      [] step = "flushExit"    -> "top"
AfterFlushStuck(step) ==
    CASE step = "flushAfter"   -> "top"
      [] step = "flushIdle"    -> "prune"
      [] step = "flushRecover" -> "prune"
      [] step = "flushExit"    -> "dead"
AfterFlush(step) ==
    CASE step = "flushAfter"   -> "top"
      [] step = "flushIdle"    -> "prune"
      [] step = "flushRecover" -> "recoverKept"
      [] step = "flushExit"    -> "dead"

AfterFailedFlushSwallowed(step) == AfterFlush(step)
AfterFailedFlush(step) ==
    CASE step = "flushAfter"   -> "top"
      [] step = "flushIdle"    -> "prune"
      [] step = "flushRecover" -> "prune"
      [] step = "flushExit"    -> "dead"

(* A raise leaves the rest owed.  Outside recovery and the last flush it is a
   failed retry, and enough of those in a row degrade the worker.  (The
   counters stop at their threshold: beyond it they change nothing.) *)
FlushFails ==
    /\ wpc \in FlushSteps /\ pending # {}
    /\ Fails
    /\ pending' = {}
    /\ wpc' = AfterFailedFlush(wpc)
    /\ IF wpc \in {"flushAfter", "flushIdle"}
       THEN /\ owedRetries' = IF owedRetries < OwedRetryDegradedAfter
                              THEN owedRetries + 1 ELSE owedRetries
            /\ degraded' = (degraded \/ owedRetries' >= OwedRetryDegradedAfter)
       ELSE UNCHANGED <<owedRetries, degraded>>
    /\ UNCHANGED <<disk, ends, proc, req, queue, shutdown, stopping, owed, run,
                   loopFailures, wrote, recovery, history>>

(* A retry that wrote a row also ends the run of loop failures. *)
FlushDone ==
    /\ wpc \in FlushSteps /\ pending = {}
    /\ wpc' = AfterFlush(wpc)
    /\ IF wpc \in {"flushAfter", "flushIdle"}
       THEN /\ owedRetries' = 0
            /\ loopFailures' = IF wrote THEN 0 ELSE loopFailures
       ELSE UNCHANGED counters
    /\ UNCHANGED <<disk, bounds, proc, req, shared, run, flush, recovery,
                   history>>

(* _idle_housekeeping: degraded, the probe (a read and a write that change no
   row) guards the recovery; otherwise the owed writes are retried. *)
Housekeep ==
    /\ \/ /\ Works
          /\ WorkerStep("idle", IF degraded THEN "flushRecover" ELSE "flushIdle")
          /\ pending' = OwedJobs
          /\ wrote' = FALSE
       \/ /\ degraded /\ Fails
          /\ WorkerStep("idle", "prune")
          /\ UNCHANGED flush
    /\ UNCHANGED <<disk, ends, proc, req, shared, run, counters, recovery,
                   history>>

(* _try_recover after the flush: the kept sentences, then the rest; a failure
   of either leaves the worker degraded, to try again on the next tick. *)
SentencesFailedGoOn == "recoverActive"
AfterFailedSentences == "prune"

RecoverKept ==
    /\ IF recoveryPending /\ kept # {}
       THEN \/ /\ Works
               /\ WorkerStep("recoverKept", "recoverActive")
               /\ rows' = FailRecoveredJobs(rows, kept)
               /\ kept' = {}
            \/ /\ Fails
               /\ WorkerStep("recoverKept", AfterFailedSentences)
               /\ UNCHANGED <<rows, kept>>
       ELSE /\ WorkerStep("recoverKept", "recoverActive")
            /\ UNCHANGED <<rows, kept, faults>>
    /\ UNCHANGED <<born, orphans, ends, proc, req, shared, run, counters, flush,
                   recoveryPending, history>>

RecoverActive ==
    /\ IF recoveryPending
       THEN \/ /\ Works
               /\ WorkerStep("recoverActive", "clear")
               /\ rows' = FailActiveJobs(rows)
               /\ recoveryPending' = FALSE
            \/ /\ Fails
               /\ WorkerStep("recoverActive", "prune")
               /\ UNCHANGED <<rows, recoveryPending>>
       ELSE /\ WorkerStep("recoverActive", "clear")
            /\ UNCHANGED <<rows, recoveryPending, faults>>
    /\ UNCHANGED <<born, orphans, ends, proc, req, shared, run, counters, flush,
                   kept, history>>

ClearDegraded ==
    /\ WorkerStep("clear", "prune")
    /\ degraded' = FALSE
    /\ loopFailures' = 0 /\ owedRetries' = 0
    /\ UNCHANGED <<disk, bounds, proc, req, queue, shutdown, stopping, owed,
                   run, flush, recovery, history>>

(* The idle prune, when its interval has passed. *)
IdlePrune ==
    /\ WorkerStep("prune", "top")
    /\ \/ UNCHANGED <<rows, faults, degraded, loopFailures>>
       \/ /\ Works
          /\ \E cutoff \in {0} \cup {born[j] : j \in Jobs} :
                rows' = Prune(rows, born, cutoff)
          /\ loopFailures' = 0
          /\ UNCHANGED degraded
       \/ /\ Fails
          /\ CountLoopFailure
          /\ UNCHANGED rows
    /\ UNCHANGED <<born, orphans, ends, proc, req, queue, shutdown, stopping,
                   owed, run, owedRetries, flush, recovery, history>>

(* _flush_before_exit. *)
FlushBeforeExit ==
    /\ WorkerStep("exit", "flushExit")
    /\ pending' = OwedJobs
    /\ wrote' = FALSE
    /\ UNCHANGED <<disk, bounds, proc, req, shared, run, counters, recovery,
                   history>>

Worker ==
    \/ LoopTop \/ Dequeue \/ IdleTick \/ GetShutDown \/ TakeJob \/ EnterGate
    \/ JobBreaks \/ Announce \/ PipelineEnds \/ RecordEnd \/ GuardWrite
    \/ \E j \in Jobs : FlushWrite(j)
    \/ FlushFails \/ FlushDone \/ Housekeep
    \/ RecoverKept \/ RecoverActive \/ ClearDegraded \/ IdlePrune
    \/ FlushBeforeExit

Process ==
    \/ Boot \/ StartupRecoverKept \/ StartupRecoverActive \/ StartWorker
    \/ StopSignal \/ StopQueue \/ ProcessEnds

Next == Worker \/ Process \/ \E j \in Jobs : Request(j)

Spec == Init /\ [][Next]_vars

-----------------------------------------------------------------------------
(* Fairness.  The worker thread and a request thread under way keep running;
   the pipeline always ends, because its waits for a person time out and its
   scan child, its spooling and its HTTP calls are bounded.  Nobody owes a new
   request, a stop, a crash or a restart. *)

WorkerGoesOn ==
    \/ LoopTop \/ Dequeue \/ IdleTick \/ GetShutDown \/ TakeJob \/ EnterGate
    \/ PipelineEnds \/ RecordEnd \/ GuardWrite
    \/ \E j \in Jobs : FlushWrite(j)
    \/ FlushFails \/ FlushDone \/ Housekeep
    \/ RecoverKept \/ RecoverActive \/ ClearDegraded \/ IdlePrune
    \/ FlushBeforeExit

RequestGoesOn(j) ==
    \/ RecordRefusedSubmit(j) \/ CreateJob(j) \/ CheckSubmit(j) \/ PutJob(j)
    \/ RejectCreatedJob(j) \/ OweRejection(j)

Fairness ==
    /\ WF_vars(WorkerGoesOn)
    /\ \A j \in Jobs : WF_vars(RequestGoesOn(j))
    /\ WF_vars(StopQueue)
    /\ WF_vars(StartupRecoverKept \/ StartupRecoverActive \/ StartWorker)

FairSpec == Spec /\ Fairness

-----------------------------------------------------------------------------
TypeOK ==
    /\ rows \in [Jobs -> RowType]
    /\ born \in [Jobs -> Nat]
    /\ orphans \subseteq Jobs
    /\ proc \in ProcSteps
    /\ ends \in Nat /\ faults \in Nat
    /\ req \in [Jobs -> ReqSteps]
    /\ queue \in Seq(Jobs)
    /\ shutdown \in BOOLEAN /\ stopping \in BOOLEAN /\ degraded \in BOOLEAN
    /\ owed \in [Jobs -> EndType \cup {NoRow}]
    /\ wpc \in WorkerSteps
    /\ current \in Jobs \cup {NoJob}
    /\ announced \in ActiveStates /\ persisted \in ActiveStates
    /\ meant \in [Jobs -> EndType \cup {NoRow}]
    /\ loopFailures \in 0..DegradedAfter
    /\ owedRetries \in 0..OwedRetryDegradedAfter
    /\ pending \subseteq Jobs
    /\ wrote \in BOOLEAN
    /\ recoveryPending \in BOOLEAN
    /\ kept \subseteq Jobs
    /\ ran \subseteq Jobs /\ sent \subseteq Jobs /\ landed \subseteq Jobs

(* A job's row ends the way the worker meant it to, however many of its
   writes failed first: a delivered document is never recorded as an error
   that invites a second scan (_finish_or_owe, _best_effort_fail and the
   flushes replay the owed write). *)
RecordedAsMeant ==
    \A j \in Jobs : meant[j] # NoRow =>
        IsActive(rows[j]) \/ rows[j] = NoRow \/ rows[j] = meant[j]

(* While the worker runs, no row sits active with nobody left to end it: its
   request is still under way, or it waits in the queue, or the worker holds
   it, or its terminal write is owed. *)
NoOrphanedRow ==
    proc = "up" /\ ~stopping /\ ~recoveryPending =>
        \A j \in Jobs : IsActive(rows[j]) =>
            \/ req[j] \in {"created", "putting", "refused", "owing"}
            \/ InQueue(j)
            \/ current = j
            \/ owed[j] # NoRow

(* A submit the worker refused is never scanned, before or after its row says
   so: a refusal that is only owed must not coexist with a queued job. *)
RejectedNeverRan ==
    \A j \in Jobs : rows[j].why = "rejected" \/ owed[j].why = "rejected" =>
        j \notin ran /\ ~InQueue(j) /\ current # j

(* A job whose row has said UPLOADING never ends with the plain restart text,
   which would tell its operator to scan again a document that may be in
   paperless-ngx, whichever of the stop, the crash recovery at startup and the
   deferred recovery ends it. *)
UploadingIsRemembered == \A j \in landed : rows[j].why # "restarted"

\* What a failed write or a kill must not take from a job: whoever will end its
\* row, and the word that its upload had begun (worker.py:1751, routes.py:474).
RowsSurvive == NoOrphanedRow /\ UploadingIsRemembered

(* The documented promise without that proviso: whatever the store did, a job
   that was uploading is not recorded with the plain restart text. *)
UploadingNeverPlainRestart == \A j \in sent : rows[j].why # "restarted"

(* A finished row is final: no late progress write, guard write, flush or
   recovery changes it; retention may delete it. *)
FinishedRowsFinal ==
    [][\A j \in Jobs : IsOver(rows[j]) => rows'[j] \in {rows[j], NoRow}]_vars

(* The pipeline starts only for a job whose row is still pending (or pruned),
   and never once the stop flag is set: nothing scans on behalf of a job that
   was already refused, recovered or ended. *)
StartsOnlyPending ==
    [][\A j \in ran' \ ran :
          rows[j].state \in {"PENDING", "ABSENT"} /\ ~stopping]_vars

\* A row only moves on: a finished one is final, and a run starts from a pending
\* one alone, whatever a refusal, a recovery or a stop does beside it.
RowsOnlyMoveOn == FinishedRowsFinal /\ StartsOnlyPending

(* While a process holds the sentence naming where a job's pages were kept,
   that job's row is not ended without it, whichever recovery write fails. *)
KeptSentenceWins ==
    [][\A j \in kept : IsActive(rows[j]) /\ IsOver(rows'[j]) => rows'[j].kept]_vars

(* Degraded is cleared only once the startup recovery it stood in for is done
   and every outcome the worker owes is written; a refusal a request thread
   owes meanwhile may remain. *)
RecoverySettlesFirst ==
    [][degraded /\ ~degraded' /\ proc' = "up" /\ ~stopping =>
          /\ ~recoveryPending
          /\ \A j \in Jobs : IsActive(rows[j]) =>
                \/ req[j] \in {"created", "putting", "refused", "owing"}
                \/ InQueue(j)
                \/ owed[j].why = "rejected"]_vars

\* A recovery that failed half way keeps its word: the sentence about kept pages
\* is written before the row ends, and degraded mode lasts until all is settled.
RecoveryKeepsItsWord == KeptSentenceWins /\ RecoverySettlesFirst

(* Every row that is created ends, unless the process is stopped or dies: the
   store fails only so often, and every owed write is retried until it lands. *)
EveryRowEnds ==
    \A j \in Jobs : IsActive(rows[j]) ~>
        (~IsActive(rows[j]) \/ stopping \/ proc = "down")

(* A degraded worker recovers once the store accepts writes again. *)
DegradedHeals == degraded ~> (~degraded \/ stopping)

(* A stop ends the worker thread, whatever it was doing. *)
StopEndsWorker == stopping ~> ~IsAlive

-----------------------------------------------------------------------------
(* The inductive invariant behind the safety properties: where a job is, as
   its request thread, the queue, the worker and the owed writes see it, and
   what its row can be meanwhile. *)

Untouched(j) ==
    /\ owed[j] = NoRow /\ meant[j] = NoRow
    /\ ~InQueue(j) /\ current # j /\ j \notin ran

NotBegun(j) == rows[j] \in {PendingRow, NoRow}
NotOver(j) == IsActive(rows[j]) \/ rows[j] = NoRow

\* A request that has created no row, then one whose row nobody runs yet.
RequestInv ==
    \A j \in Jobs :
        /\ req[j] \in {"new", "healthy", "unhealthy"} =>
              Untouched(j) /\ rows[j] = NoRow
        /\ req[j] \in {"created", "putting", "refused", "owing"} =>
              Untouched(j) /\ NotBegun(j)

QueueInv ==
    /\ \A j \in Jobs : InQueue(j) =>
          /\ req[j] = "done" /\ NotBegun(j)
          /\ owed[j] = NoRow /\ meant[j] = NoRow
          /\ current # j /\ j \notin ran
    /\ \A i, k \in 1..Len(queue) : queue[i] = queue[k] => i = k

HoldsJob == wpc \in {"taken", "gate", "scan", "ending", "guard"}

\* The worker thread runs exactly while the process serves; it holds a job
\* exactly where its code has one in hand, and comes to record an outcome only
\* with one to record.
HandInv ==
    /\ proc = "up" <=> wpc # "off"
    /\ HoldsJob <=> current # NoJob
    /\ wpc = "ending" => meant[current] # NoRow

CurrentInv ==
    HoldsJob =>
        /\ req[current] = "done"
        /\ wpc \in {"taken", "gate"} =>
              NotBegun(current) /\ meant[current] = NoRow /\ current \notin ran
        /\ wpc \in {"scan", "ending", "guard"} => NotOver(current)
        /\ wpc \in {"taken", "gate", "scan", "ending"} => owed[current] = NoRow
        /\ wpc = "scan" => meant[current] = NoRow
        /\ wpc = "ending" => meant[current].why \notin {"none", "rejected"}
                             \/ meant[current].state = "DONE"
        /\ wpc = "guard" => owed[current] = meant[current]
        /\ wpc = "gate" => announced = "PENDING"

OwedInv ==
    \A j \in Jobs : owed[j] # NoRow =>
        /\ req[j] = "done" /\ NotOver(j)
        /\ current = j => wpc = "guard"
        /\ meant[j] \in {NoRow, owed[j]}
        /\ owed[j].why = "rejected" => j \notin ran /\ current # j

\* A row refused at submit, and every outcome the worker means to record.
RejectedInv ==
    \A j \in Jobs :
        /\ rows[j].why = "rejected" =>
              /\ req[j] = "done" /\ IsOver(rows[j])
              /\ j \notin ran /\ ~InQueue(j) /\ current # j
        /\ meant[j].why # "rejected"

FlushInv ==
    /\ pending \subseteq OwedJobs
    /\ wpc \notin FlushSteps => pending = {}

\* While a restart recovery is owed, no job of this process can be alive.
RecoveryInv ==
    /\ proc # "up" \/ recoveryPending =>
          /\ \A j \in Jobs : req[j] \in {"new", "unhealthy", "done"} /\ meant[j] = NoRow
                             /\ owed[j] = NoRow
          /\ queue = <<>> /\ ~HoldsJob
    /\ recoveryPending => degraded /\ wpc # "clear"

JobInv ==
    /\ RequestInv /\ QueueInv /\ CurrentInv /\ OwedInv /\ RejectedInv
    /\ RecoveryInv

WorkerInv == HandInv /\ FlushInv /\ JobInv
=============================================================================
