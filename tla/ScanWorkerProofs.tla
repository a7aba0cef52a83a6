-------------------------- MODULE ScanWorkerProofs --------------------------
(***************************************************************************)
(* What a restart finds: the job table of ScanWorker, for every set of     *)
(* jobs, every queue depth and every threshold, with no bound on failing   *)
(* writes and restarts; and the configuration file of ProfileFile, for     *)
(* every scanner and every file, with no bound on starts, runs and edits.  *)
(***************************************************************************)
EXTENDS ScanWorker, ProfileFile, FiniteSetTheorems, SequenceTheorems, TLAPS

-----------------------------------------------------------------------------
(* The operators of the job table. *)

(* The rows and sentences the program writes have the type of a row. *)
LEMMA RowShapes ==
    /\ NoRow \in RowType /\ PendingRow \in RowType
    /\ RejectedRow \in EndType /\ LoopFailureRow \in EndType
    /\ EndType \subseteq RowType /\ NoRow \notin EndType
    /\ \A state \in ActiveStates, note \in BOOLEAN :
          RestartRow(state, note) \in EndType
BY DEF NoRow, PendingRow, RejectedRow, LoopFailureRow, Row, RowType, EndType,
   RestartRow, RestartCategory, ActiveStates, TerminalStates, Whys

(* Deleting rows leaves every row as it was or absent. *)
LEMMA WithoutRows ==
    ASSUME NEW table \in [Jobs -> RowType], NEW doomed
    PROVE  /\ Without(table, doomed) \in [Jobs -> RowType]
           /\ \A j \in Jobs : Without(table, doomed)[j] \in {table[j], NoRow}
BY RowShapes DEF Without

(* update_state and the first half of finish_job touch one row, if it is there. *)
LEMMA WriteRows ==
    ASSUME NEW table \in [Jobs -> RowType], NEW job \in Jobs, NEW row \in RowType
    PROVE  /\ WriteRow(table, job, row) \in [Jobs -> RowType]
           /\ \A j \in Jobs \ {job} : WriteRow(table, job, row)[j] = table[j]
           /\ WriteRow(table, job, row)[job] =
                 IF table[job] = NoRow THEN NoRow ELSE row
<1>1. table[job].state = "ABSENT" <=> table[job] = NoRow
  BY DEF RowType, NoRow, Row, ActiveStates, TerminalStates
<1> QED
  BY <1>1 DEF WriteRow

(* finish_job records the row it is given, or deletes rows; nothing else. *)
LEMMA FinishRows ==
    ASSUME NEW table \in [Jobs -> RowType], NEW birth, NEW job \in Jobs,
           NEW end \in EndType
    PROVE  /\ FinishJob(table, birth, job, end) \in [Jobs -> RowType]
           /\ \A j \in Jobs \ {job} :
                 FinishJob(table, birth, job, end)[j] \in {table[j], NoRow}
           /\ FinishJob(table, birth, job, end)[job] \in
                 IF table[job] = NoRow THEN {NoRow} ELSE {end, NoRow}
<1> DEFINE written == WriteRow(table, job, end)
<1>1. /\ written \in [Jobs -> RowType]
      /\ \A j \in Jobs \ {job} : written[j] = table[j]
      /\ written[job] = IF table[job] = NoRow THEN NoRow ELSE end
  BY WriteRows, RowShapes
<1>2. /\ TrimRejected(written, birth) \in [Jobs -> RowType]
      /\ \A j \in Jobs : TrimRejected(written, birth)[j] \in {written[j], NoRow}
  BY <1>1, WithoutRows DEF TrimRejected
<1> HIDE DEF written
<1>3. FinishJob(table, birth, job, end) =
         IF end.why = "rejected" THEN TrimRejected(written, birth) ELSE written
  BY DEF FinishJob, written
<1> QED
  BY <1>1, <1>2, <1>3

(* The recovery writes end active rows and leave the others alone. *)
LEMMA RecoveryRows ==
    ASSUME NEW table \in [Jobs -> RowType], NEW found
    PROVE  /\ FailActiveJobs(table) \in [Jobs -> RowType]
           /\ FailRecoveredJobs(table, found) \in [Jobs -> RowType]
           /\ \A j \in Jobs : IF IsActive(table[j])
                              THEN /\ FailActiveJobs(table)[j] \in EndType
                                   /\ FailActiveJobs(table)[j].why # "rejected"
                              ELSE FailActiveJobs(table)[j] = table[j]
           /\ \A j \in Jobs : IF j \in found /\ IsActive(table[j])
                              THEN LET row == FailRecoveredJobs(table, found)[j]
                                   IN  row \in EndType /\ row.why # "rejected"
                              ELSE FailRecoveredJobs(table, found)[j] = table[j]
<1> DEFINE NotRejected == {row \in EndType : row.why # "rejected"}
<1>1. \A j \in Jobs : IsActive(table[j]) =>
         /\ RestartRow("UPLOADING", FALSE) \in EndType \cap NotRejected
         /\ RestartRow(table[j].state, TRUE) \in EndType \cap NotRejected
         /\ Row("ERROR", "restarted", FALSE) \in EndType \cap NotRejected
  <2>1. \A state \in ActiveStates, note \in BOOLEAN :
           RestartRow(state, note).why # "rejected"
    BY DEF RestartRow, RestartCategory, Row
  <2>2. /\ Row("ERROR", "restarted", FALSE) \in EndType
        /\ Row("ERROR", "restarted", FALSE).why # "rejected"
    BY DEF Row, EndType, TerminalStates, Whys
  <2> QED
    BY <2>1, <2>2, RowShapes DEF IsActive, ActiveStates, NotRejected
<1> HIDE DEF NotRejected
<1>2. FailUploading(table) \in [Jobs -> RowType]
  BY <1>1, RowShapes DEF FailUploading, IsActive, ActiveStates
<1>3. \A j \in Jobs : IF table[j].state = "UPLOADING"
                      THEN FailUploading(table)[j] \in EndType \cap NotRejected
                      ELSE FailUploading(table)[j] = table[j]
  BY <1>1, RowShapes DEF FailUploading, IsActive, ActiveStates
<1>4. \A row \in EndType : ~IsActive(row)
  BY DEF EndType, IsActive, ActiveStates, TerminalStates
<1>5. \A j \in Jobs : table[j].state = "UPLOADING" => IsActive(table[j])
  BY DEF IsActive, ActiveStates
<1>6. \A other \in [Jobs -> RowType], j \in Jobs :
         FailRemaining(other)[j] = IF IsActive(other[j])
                                   THEN Row("ERROR", "restarted", FALSE)
                                   ELSE other[j]
  BY DEF FailRemaining
<1>7. \A j \in Jobs : IF IsActive(table[j])
                      THEN FailActiveJobs(table)[j] \in EndType \cap NotRejected
                      ELSE FailActiveJobs(table)[j] = table[j]
  BY <1>1, <1>2, <1>3, <1>4, <1>5, <1>6 DEF FailActiveJobs
<1>8. FailActiveJobs(table) \in [Jobs -> RowType]
  <2>1. FailActiveJobs(table) = [j \in Jobs |-> FailActiveJobs(table)[j]]
    BY DEF FailActiveJobs, FailRemaining
  <2> QED
    BY <1>7, <2>1, RowShapes
<1>9. /\ FailRecoveredJobs(table, found) \in [Jobs -> RowType]
      /\ \A j \in Jobs : IF j \in found /\ IsActive(table[j])
                         THEN FailRecoveredJobs(table, found)[j]
                                 \in EndType \cap NotRejected
                         ELSE FailRecoveredJobs(table, found)[j] = table[j]
  BY <1>1, RowShapes DEF FailRecoveredJobs
<1> QED
  BY <1>7, <1>8, <1>9 DEF NotRejected

(* A prune leaves every row as it was or absent. *)
LEMMA PruneRows ==
    ASSUME NEW table \in [Jobs -> RowType], NEW birth, NEW cutoff
    PROVE  /\ Prune(table, birth, cutoff) \in [Jobs -> RowType]
           /\ \A j \in Jobs : Prune(table, birth, cutoff)[j] \in {table[j], NoRow}
BY WithoutRows DEF Prune

(* A refused insert touches one row, and the trim may delete others. *)
LEMMA RefusedRows ==
    ASSUME NEW table \in [Jobs -> RowType], NEW birth, NEW job \in Jobs
    PROVE  LET after == TrimRejected(InsertRow(table, job, RejectedRow), birth)
           IN  /\ after \in [Jobs -> RowType]
               /\ \A j \in Jobs \ {job} : after[j] \in {table[j], NoRow}
               /\ after[job] \in {RejectedRow, NoRow}
<1> DEFINE inserted == InsertRow(table, job, RejectedRow)
<1>1. /\ inserted \in [Jobs -> RowType]
      /\ \A j \in Jobs \ {job} : inserted[j] = table[j]
      /\ inserted[job] = RejectedRow
  BY RowShapes DEF InsertRow
<1> HIDE DEF inserted
<1>2. /\ TrimRejected(inserted, birth) \in [Jobs -> RowType]
      /\ \A j \in Jobs : TrimRejected(inserted, birth)[j] \in {inserted[j], NoRow}
  BY <1>1, WithoutRows DEF TrimRejected
<1> QED
  BY <1>1, <1>2 DEF inserted

(* Birth numbers are natural numbers. *)
LEMMA Births ==
    ASSUME NEW jobs, IsFiniteSet(jobs), NEW some \in SUBSET jobs
    PROVE  Cardinality(some) + 1 \in Nat
<1>1. IsFiniteSet(some)
  BY FS_Subset
<1>2. Cardinality(some) \in Nat
  BY <1>1, FS_CardinalityType
<1> QED
  BY <1>2

-----------------------------------------------------------------------------
(* Type correctness. *)
LEMMA TypeInit == Init => TypeOK
<1> SUFFICES ASSUME Init PROVE TypeOK
  OBVIOUS
<1>1. loopFailures \in 0..DegradedAfter /\ owedRetries \in 0..OwedRetryDegradedAfter
  BY WorkerAssumption DEF Init
<1>2. rows \in [Jobs -> RowType] /\ owed \in [Jobs -> EndType \cup {NoRow}]
      /\ meant \in [Jobs -> EndType \cup {NoRow}]
  BY RowShapes DEF Init
<1>3. queue \in Seq(Jobs)
  BY DEF Init
<1> QED
  BY <1>1, <1>2, <1>3 DEF Init, TypeOK, ProcSteps, ReqSteps, WorkerSteps,
     ActiveStates

(* The failure counters stop at their thresholds. *)
LEMMA Thresholds ==
    ASSUME NEW limit \in Nat \ {0}, NEW count \in 0..limit
    PROVE  (IF count < limit THEN count + 1 ELSE count) \in 0..limit
OBVIOUS

(* The pipeline's outcomes are outcomes a finishing write may record. *)
LEMMA OutcomeTypes ==
    ASSUME announced \in ActiveStates
    PROVE  Outcomes \subseteq EndType
<1>1. \A note \in BOOLEAN : RestartRow(announced, note) \in EndType
  BY RowShapes
<1>2. /\ \A note \in BOOLEAN : /\ Row("ERROR", "failed", note) \in EndType
                              /\ Row("ERROR", "unconfirmed", note) \in EndType
      /\ Row("DONE", "none", FALSE) \in EndType
      /\ Row("CANCELLED", "cancelled", FALSE) \in EndType
  BY DEF Row, EndType, TerminalStates, Whys
<1> QED
  BY <1>1, <1>2 DEF Outcomes

(* A progress write keeps the table's type. *)
LEMMA UpdateRows ==
    ASSUME NEW table \in [Jobs -> RowType], NEW job \in Jobs,
           NEW state \in ActiveStates
    PROVE  /\ UpdateState(table, job, state) \in [Jobs -> RowType]
           /\ \A j \in Jobs \ {job} : UpdateState(table, job, state)[j] = table[j]
           /\ UpdateState(table, job, state)[job] =
                 IF table[job] = NoRow THEN NoRow ELSE Row(state, "none", FALSE)
<1>1. Row(state, "none", FALSE) \in RowType
  BY DEF Row, RowType, Whys
<1> DEFINE moved == Row(state, "none", FALSE)
<1>2. /\ WriteRow(table, job, moved) \in [Jobs -> RowType]
      /\ \A j \in Jobs \ {job} : WriteRow(table, job, moved)[j] = table[j]
      /\ WriteRow(table, job, moved)[job] = IF table[job] = NoRow THEN NoRow ELSE moved
  BY <1>1, WriteRows
<1> QED
  BY <1>2 DEF UpdateState

(* Every step of the program keeps the types. *)
LEMMA TypeStep == TypeOK /\ HandInv /\ FlushInv /\ [Next]_vars => TypeOK'
<1> SUFFICES ASSUME TypeOK, HandInv, FlushInv, [Next]_vars PROVE TypeOK'
  OBVIOUS
<1> USE DEF TypeOK, disk, bounds, shared, run, counters, flush, recovery,
            history, WorkerStep, ReqStep, Works, Fails
<1>1. CASE UNCHANGED vars
  BY <1>1 DEF vars
<1>2. CASE Boot
  <2>1. orphans' \subseteq Jobs
    BY <1>2 DEF Boot
  <2>2. proc' \in ProcSteps
    BY <1>2 DEF Boot, ProcSteps
  <2>3. kept' \subseteq Jobs
    BY <1>2 DEF Boot
  <2> QED
    BY <1>2, <2>1, <2>2, <2>3 DEF Boot
<1>3. CASE StartupRecoverKept
  <2>1. FailRecoveredJobs(rows, kept) \in [Jobs -> RowType]
    BY RecoveryRows
  <2>2. rows' \in [Jobs -> RowType]
    BY <1>3, <2>1 DEF StartupRecoverKept, MarkRecoveryPending
  <2>3. faults' \in Nat
    BY <1>3 DEF StartupRecoverKept, MarkRecoveryPending
  <2>4. proc' \in ProcSteps
    BY <1>3 DEF StartupRecoverKept, MarkRecoveryPending, ProcSteps
  <2>5. degraded' \in BOOLEAN /\ recoveryPending' \in BOOLEAN
    BY <1>3 DEF StartupRecoverKept, MarkRecoveryPending
  <2> QED
    BY <1>3, <2>2, <2>3, <2>4, <2>5 DEF StartupRecoverKept, MarkRecoveryPending
<1>4. CASE StartupRecoverActive
  <2>1. rows' \in [Jobs -> RowType]
    BY <1>4, RecoveryRows DEF StartupRecoverActive, MarkRecoveryPending
  <2>2. faults' \in Nat
    BY <1>4 DEF StartupRecoverActive, MarkRecoveryPending
  <2>3. proc' \in ProcSteps
    BY <1>4 DEF StartupRecoverActive, MarkRecoveryPending, ProcSteps
  <2>4. degraded' \in BOOLEAN /\ recoveryPending' \in BOOLEAN
    BY <1>4 DEF StartupRecoverActive, MarkRecoveryPending
  <2>5. kept' \subseteq Jobs
    BY <1>4 DEF StartupRecoverActive, MarkRecoveryPending
  <2> QED
    BY <1>4, <2>1, <2>2, <2>3, <2>4, <2>5 DEF StartupRecoverActive,
       MarkRecoveryPending
<1>5. CASE StartWorker
  <2>1. rows' \in [Jobs -> RowType]
    BY SMTT(30), <1>5, PruneRows DEF StartWorker
  <2>2. faults' \in Nat
    BY <1>5 DEF StartWorker
  <2>3. proc' \in ProcSteps
    BY <1>5 DEF StartWorker, ProcSteps
  <2>4. wpc' \in WorkerSteps
    BY <1>5 DEF StartWorker, WorkerSteps
  <2> QED
    BY <1>5, <2>1, <2>2, <2>3, <2>4 DEF StartWorker
<1>6. CASE StopSignal
  BY <1>6 DEF StopSignal
<1>7. CASE StopQueue
  BY <1>7 DEF StopQueue
<1>8. CASE ProcessEnds
  <2>1. orphans' \subseteq Jobs
    BY <1>8, WorkerAssumption DEF ProcessEnds, HandInv, HoldsJob
  <2>2. proc' \in ProcSteps
    BY <1>8 DEF ProcessEnds, ProcSteps
  <2>3. ends' \in Nat
    BY <1>8 DEF ProcessEnds
  <2>4. req' \in [Jobs -> ReqSteps]
    BY <1>8 DEF ProcessEnds, ReqSteps
  <2>5. queue' \in Seq(Jobs)
    BY <1>8 DEF ProcessEnds
  <2>6. owed' \in [Jobs -> EndType \cup {NoRow}]
    BY <1>8, RowShapes DEF ProcessEnds
  <2>7. wpc' \in WorkerSteps
    BY <1>8 DEF ProcessEnds, WorkerSteps
  <2>8. announced' \in ActiveStates /\ persisted' \in ActiveStates
    BY <1>8 DEF ProcessEnds, ActiveStates
  <2>9. meant' \in [Jobs -> EndType \cup {NoRow}]
    BY <1>8, RowShapes DEF ProcessEnds
  <2>10. loopFailures' \in 0..DegradedAfter
    BY <1>8, WorkerAssumption DEF ProcessEnds
  <2>11. owedRetries' \in 0..OwedRetryDegradedAfter
    BY <1>8, WorkerAssumption DEF ProcessEnds
  <2> QED
    BY <1>8, <2>1, <2>2, <2>3, <2>4, <2>5, <2>6, <2>7, <2>8, <2>9, <2>10, <2>11
       DEF ProcessEnds
<1>9. ASSUME NEW j \in Jobs, Request(j) PROVE TypeOK'
  <2>1. CASE CheckHealth(j)
    <3>1. req' \in [Jobs -> ReqSteps]
      BY <2>1 DEF CheckHealth, ReqSteps
    <3> QED
      BY <2>1, <3>1 DEF CheckHealth
  <2>2. CASE RecordRefusedSubmit(j)
    <3>1. NextBirth \in Nat
      BY StoreAssumption, Births DEF NextBirth
    <3>2. req' \in [Jobs -> ReqSteps]
      BY <2>2 DEF RecordRefusedSubmit, ReqSteps
    <3>3. TrimRejected(InsertRow(rows, j, RejectedRow), born') \in [Jobs -> RowType]
      BY RefusedRows
    <3>4. rows' \in [Jobs -> RowType]
      BY <2>2, <3>3 DEF RecordRefusedSubmit
    <3>5. born' \in [Jobs -> Nat]
      BY <2>2, <3>1 DEF RecordRefusedSubmit
    <3>6. faults' \in Nat
      BY <2>2 DEF RecordRefusedSubmit
    <3> QED
      BY <2>2, <3>2, <3>4, <3>5, <3>6 DEF RecordRefusedSubmit
  <2>3. CASE CreateJob(j)
    <3>1. NextBirth \in Nat
      BY StoreAssumption, Births DEF NextBirth
    <3>2. req' \in [Jobs -> ReqSteps]
      BY <2>3 DEF CreateJob, ReqSteps
    <3>3. rows' \in [Jobs -> RowType]
      BY <2>3, RowShapes DEF CreateJob, InsertRow
    <3>4. born' \in [Jobs -> Nat]
      BY SMTT(30), <2>3, <3>1 DEF CreateJob
    <3>5. faults' \in Nat
      BY <2>3 DEF CreateJob
    <3> QED
      BY <2>3, <3>2, <3>3, <3>4, <3>5 DEF CreateJob
  <2>4. CASE CheckSubmit(j)
    <3>1. req' \in [Jobs -> ReqSteps]
      BY <2>4 DEF CheckSubmit, ReqSteps
    <3> QED
      BY <2>4, <3>1 DEF CheckSubmit
  <2>5. CASE PutJob(j)
    <3>1. req' \in [Jobs -> ReqSteps]
      BY <2>5 DEF PutJob, ReqSteps
    <3>2. Append(queue, j) \in Seq(Jobs)
      BY AppendProperties
    <3>3. queue' \in Seq(Jobs)
      BY <2>5, <3>2 DEF PutJob
    <3> QED
      BY <2>5, <3>1, <3>3 DEF PutJob
  <2>6. CASE RejectCreatedJob(j)
    <3>1. req' \in [Jobs -> ReqSteps]
      BY <2>6 DEF RejectCreatedJob, AfterFailedRejection, ReqSteps
    <3>2. FinishJob(rows, born, j, RejectedRow) \in [Jobs -> RowType]
      BY FinishRows, RowShapes
    <3>3. rows' \in [Jobs -> RowType]
      BY <2>6, <3>2 DEF RejectCreatedJob
    <3>4. faults' \in Nat
      BY <2>6 DEF RejectCreatedJob
    <3> QED
      BY <2>6, <3>1, <3>3, <3>4 DEF RejectCreatedJob
  <2>7. CASE OweRejection(j)
    <3>1. req' \in [Jobs -> ReqSteps]
      BY <2>7 DEF OweRejection, ReqSteps
    <3>2. owed' \in [Jobs -> EndType \cup {NoRow}]
      BY <2>7, RowShapes DEF OweRejection
    <3> QED
      BY <2>7, <3>1, <3>2 DEF OweRejection
  <2> QED
    BY <1>9, <2>1, <2>2, <2>3, <2>4, <2>5, <2>6, <2>7 DEF Request
<1>10. CASE LoopTop
  <2>1. wpc' \in WorkerSteps
    BY <1>10 DEF LoopTop, WorkerSteps
  <2> QED
    BY <1>10, <2>1 DEF LoopTop
<1>11. CASE Dequeue
  <2>1. wpc' \in WorkerSteps
    BY <1>11 DEF Dequeue, WorkerSteps
  <2>2. queue' \in Seq(Jobs)
    BY <1>11, HeadTailProperties DEF Dequeue
  <2>3. current' \in Jobs \cup {NoJob}
    BY <1>11, HeadTailProperties DEF Dequeue
  <2> QED
    BY <1>11, <2>1, <2>2, <2>3 DEF Dequeue
<1>12. CASE IdleTick
  <2>1. wpc' \in WorkerSteps
    BY <1>12 DEF IdleTick, WorkerSteps
  <2> QED
    BY <1>12, <2>1 DEF IdleTick
<1>13. CASE GetShutDown
  <2>1. wpc' \in WorkerSteps
    BY <1>13 DEF GetShutDown, WorkerSteps
  <2> QED
    BY <1>13, <2>1 DEF GetShutDown
<1>14. CASE TakeJob
  <2>1. wpc' \in WorkerSteps
    BY <1>14 DEF TakeJob, WorkerSteps
  <2>2. current' \in Jobs \cup {NoJob}
    BY <1>14 DEF TakeJob
  <2>3. announced' \in ActiveStates /\ persisted' \in ActiveStates
    BY <1>14 DEF TakeJob, ActiveStates
  <2> QED
    BY <1>14, <2>1, <2>2, <2>3 DEF TakeJob
<1>15. CASE EnterGate
  <2>1. wpc' \in WorkerSteps
    BY <1>15 DEF EnterGate, WorkerSteps
  <2>2. meant' \in [Jobs -> EndType \cup {NoRow}]
    BY <1>15, RowShapes DEF EnterGate
  <2>3. ran' \subseteq Jobs
    BY <1>15 DEF EnterGate, HandInv, HoldsJob
  <2> QED
    BY <1>15, <2>1, <2>2, <2>3 DEF EnterGate
<1>16. CASE JobBreaks
  <2>1. wpc' \in WorkerSteps
    BY <1>16 DEF JobBreaks, CountLoopFailure, WorkerSteps
  <2>2. faults' \in Nat
    BY <1>16 DEF JobBreaks, CountLoopFailure
  <2>3. loopFailures' \in 0..DegradedAfter
    BY <1>16, Thresholds, WorkerAssumption DEF JobBreaks, CountLoopFailure
  <2> QED
    BY <1>16, <2>1, <2>2, <2>3 DEF JobBreaks, CountLoopFailure
<1>17. CASE Announce
  <2>1. current \in Jobs
    BY <1>17 DEF Announce, HandInv, HoldsJob
  <2>2. PICK state \in NextStates(announced) :
           /\ announced' = state
           /\ sent' = IF state = "UPLOADING" THEN sent \cup {current} ELSE sent
           /\ IF state = persisted
              THEN UNCHANGED <<rows, faults, persisted, landed>>
              ELSE \E failed \in 0..Attempts(state) :
                     /\ faults + failed <= MaxFaults
                     /\ faults' = faults + failed
                     /\ IF failed < Attempts(state)
                        THEN /\ rows' = UpdateState(rows, current, state)
                             /\ persisted' = state
                             /\ landed' = IF state = "UPLOADING"
                                          THEN landed \cup {current} ELSE landed
                        ELSE UNCHANGED <<rows, persisted, landed>>
    BY <1>17 DEF Announce
  <2>3. state \in ActiveStates /\ Attempts(state) \in Nat
    BY DEF NextStates, Attempts, ActiveStates
  <2>4. UpdateState(rows, current, state) \in [Jobs -> RowType]
    BY <2>1, <2>3, UpdateRows
  <2>5. rows' \in [Jobs -> RowType]
    BY <2>2, <2>4
  <2>6. faults' \in Nat
    BY <2>2, <2>3
  <2>7. /\ announced' \in ActiveStates /\ persisted' \in ActiveStates
        /\ sent' \subseteq Jobs /\ landed' \subseteq Jobs
    BY <2>1, <2>2, <2>3
  <2> QED
    BY <1>17, <2>5, <2>6, <2>7 DEF Announce
<1>18. CASE PipelineEnds
  <2>1. current \in Jobs
    BY <1>18 DEF PipelineEnds, HandInv, HoldsJob
  <2>2. Outcomes \subseteq EndType
    BY OutcomeTypes
  <2>3. meant' \in [Jobs -> EndType \cup {NoRow}]
    BY <1>18, <2>1, <2>2 DEF PipelineEnds
  <2>4. wpc' \in WorkerSteps
    BY <1>18 DEF PipelineEnds, WorkerSteps
  <2> QED
    BY <1>18, <2>3, <2>4 DEF PipelineEnds
<1>19. CASE RecordEnd
  <2>1. current \in Jobs /\ meant[current] \in EndType
    BY <1>19 DEF RecordEnd, HandInv, HoldsJob
  <2>2. FinishJob(rows, born, current, meant[current]) \in [Jobs -> RowType]
    BY <2>1, FinishRows
  <2>3. rows' \in [Jobs -> RowType]
    BY <1>19, <2>2 DEF RecordEnd
  <2>4. wpc' \in WorkerSteps
    BY <1>19 DEF RecordEnd, WorkerSteps
  <2>5. faults' \in Nat
    BY <1>19 DEF RecordEnd
  <2>6. owed' \in [Jobs -> EndType \cup {NoRow}]
    BY <1>19 DEF RecordEnd
  <2>7. current' \in Jobs \cup {NoJob}
    BY <1>19 DEF RecordEnd
  <2>8. loopFailures' \in 0..DegradedAfter
    BY <1>19, Thresholds, WorkerAssumption DEF RecordEnd, CountLoopFailure
  <2>9. owedRetries' \in 0..OwedRetryDegradedAfter
    BY <1>19, WorkerAssumption DEF RecordEnd
  <2>10. pending' \subseteq Jobs
    BY <1>19 DEF RecordEnd, OwedJobs
  <2> QED
    BY <1>19, <2>3, <2>4, <2>5, <2>6, <2>7, <2>8, <2>9, <2>10
       DEF RecordEnd, CountLoopFailure
<1>20. CASE GuardWrite
  <2> DEFINE end == IF owed[current] = NoRow THEN LoopFailureRow ELSE owed[current]
  <2>1. current \in Jobs /\ end \in EndType
    BY <1>20, RowShapes DEF GuardWrite, GuardWriteOf, HandInv, HoldsJob
  <2>2. FinishJob(rows, born, current, end) \in [Jobs -> RowType]
    BY <2>1, FinishRows
  <2>3. GuardWriteOf(end)
    BY <1>20 DEF GuardWrite
  <2> HIDE DEF end
  <2>4. rows' \in [Jobs -> RowType]
    BY <2>2, <2>3 DEF GuardWriteOf
  <2>5. wpc' \in WorkerSteps
    BY <2>3 DEF GuardWriteOf, WorkerSteps
  <2>6. faults' \in Nat
    BY <2>3 DEF GuardWriteOf
  <2>7. owed' \in [Jobs -> EndType \cup {NoRow}]
    BY <2>1, <2>3 DEF GuardWriteOf
  <2>8. current' \in Jobs \cup {NoJob}
    BY <2>3 DEF GuardWriteOf
  <2> QED
    BY <2>3, <2>4, <2>5, <2>6, <2>7, <2>8 DEF GuardWriteOf
<1>21. ASSUME NEW j \in Jobs, FlushWrite(j) PROVE TypeOK'
  <2>1. owed[j] \in EndType
    BY <1>21 DEF FlushWrite, FlushInv, OwedJobs
  <2>2. FinishJob(rows, born, j, owed[j]) \in [Jobs -> RowType]
    BY <2>1, FinishRows
  <2>3. rows' \in [Jobs -> RowType]
    BY <1>21, <2>2 DEF FlushWrite
  <2>4. owed' \in [Jobs -> EndType \cup {NoRow}]
    BY <1>21 DEF FlushWrite
  <2>5. pending' \subseteq Jobs
    BY <1>21 DEF FlushWrite
  <2> QED
    BY <1>21, <2>3, <2>4, <2>5 DEF FlushWrite
<1>22. CASE FlushFails
  <2>1. wpc' \in WorkerSteps
    BY <1>22 DEF FlushFails, FlushSteps, AfterFailedFlush, WorkerSteps
  <2>2. faults' \in Nat
    BY <1>22 DEF FlushFails
  <2>3. owedRetries' \in 0..OwedRetryDegradedAfter
    BY <1>22, Thresholds, WorkerAssumption DEF FlushFails
  <2> QED
    BY <1>22, <2>1, <2>2, <2>3 DEF FlushFails
<1>23. CASE FlushDone
  <2>1. wpc' \in WorkerSteps
    BY <1>23 DEF FlushDone, FlushSteps, AfterFlush, WorkerSteps
  <2>2. loopFailures' \in 0..DegradedAfter
    BY <1>23, WorkerAssumption DEF FlushDone
  <2>3. owedRetries' \in 0..OwedRetryDegradedAfter
    BY <1>23, WorkerAssumption DEF FlushDone
  <2> QED
    BY <1>23, <2>1, <2>2, <2>3 DEF FlushDone
<1>24. CASE Housekeep
  <2>1. wpc' \in WorkerSteps
    BY <1>24 DEF Housekeep, WorkerSteps
  <2>2. faults' \in Nat
    BY <1>24 DEF Housekeep
  <2>3. pending' \subseteq Jobs
    BY <1>24 DEF Housekeep, OwedJobs
  <2> QED
    BY <1>24, <2>1, <2>2, <2>3 DEF Housekeep
<1>25. CASE RecoverKept
  <2>1. FailRecoveredJobs(rows, kept) \in [Jobs -> RowType]
    BY RecoveryRows
  <2>2. rows' \in [Jobs -> RowType]
    BY <1>25, <2>1 DEF RecoverKept
  <2>3. wpc' \in WorkerSteps
    BY <1>25 DEF RecoverKept, AfterFailedSentences, WorkerSteps
  <2>4. faults' \in Nat
    BY <1>25 DEF RecoverKept
  <2>5. kept' \subseteq Jobs
    BY <1>25 DEF RecoverKept
  <2> QED
    BY <1>25, <2>2, <2>3, <2>4, <2>5 DEF RecoverKept
<1>26. CASE RecoverActive
  <2>1. rows' \in [Jobs -> RowType]
    BY <1>26, RecoveryRows DEF RecoverActive
  <2>2. wpc' \in WorkerSteps
    BY <1>26 DEF RecoverActive, WorkerSteps
  <2>3. faults' \in Nat
    BY <1>26 DEF RecoverActive
  <2>4. degraded' \in BOOLEAN /\ recoveryPending' \in BOOLEAN
    BY <1>26 DEF RecoverActive
  <2> QED
    BY <1>26, <2>1, <2>2, <2>3, <2>4 DEF RecoverActive
<1>27. CASE ClearDegraded
  <2>1. wpc' \in WorkerSteps
    BY <1>27 DEF ClearDegraded, WorkerSteps
  <2>2. loopFailures' \in 0..DegradedAfter
    BY <1>27, WorkerAssumption DEF ClearDegraded
  <2>3. owedRetries' \in 0..OwedRetryDegradedAfter
    BY <1>27, WorkerAssumption DEF ClearDegraded
  <2> QED
    BY <1>27, <2>1, <2>2, <2>3 DEF ClearDegraded
<1>28. CASE IdlePrune
  <2> DEFINE pruned(cutoff) == Prune(rows, born, cutoff)
  <2>0. \A cutoff : pruned(cutoff) \in [Jobs -> RowType]
    BY PruneRows
  <2>1. rows' \in [Jobs -> RowType]
    BY <1>28, <2>0 DEF IdlePrune, CountLoopFailure
  <2>2. wpc' \in WorkerSteps
    BY <1>28 DEF IdlePrune, CountLoopFailure, WorkerSteps
  <2>3. faults' \in Nat
    BY <1>28 DEF IdlePrune, CountLoopFailure
  <2>4. loopFailures' \in 0..DegradedAfter
    BY <1>28, Thresholds, WorkerAssumption DEF IdlePrune, CountLoopFailure
  <2> QED
    BY <1>28, <2>1, <2>2, <2>3, <2>4 DEF IdlePrune, CountLoopFailure
<1>29. CASE FlushBeforeExit
  <2>1. wpc' \in WorkerSteps
    BY <1>29 DEF FlushBeforeExit, WorkerSteps
  <2>2. pending' \subseteq Jobs
    BY <1>29 DEF FlushBeforeExit, OwedJobs
  <2> QED
    BY <1>29, <2>1, <2>2 DEF FlushBeforeExit
<1> QED
  BY <1>1, <1>2, <1>3, <1>4, <1>5, <1>6, <1>7, <1>8, <1>9, <1>10, <1>11, <1>12,
     <1>13, <1>14, <1>15, <1>16, <1>17, <1>18, <1>19, <1>20, <1>21, <1>22,
     <1>23, <1>24, <1>25, <1>26, <1>27, <1>28, <1>29
     DEF Next, Worker, Process

(* The worker's job in hand, and what a flush has still to write. *)
LEMMA HandStep ==
    TypeOK /\ HandInv /\ FlushInv /\ [Next]_vars => HandInv' /\ FlushInv'
<1> SUFFICES ASSUME TypeOK, HandInv, FlushInv, [Next]_vars
             PROVE  HandInv' /\ FlushInv'
  OBVIOUS
<1> USE DEF HandInv, FlushInv, HoldsJob, FlushSteps, OwedJobs, disk, bounds,
            shared, run, counters, flush, recovery, history, WorkerStep
<1>1. CASE UNCHANGED vars
  BY <1>1 DEF vars
<1>2. CASE Boot
  BY <1>2 DEF Boot
<1>3. CASE StartupRecoverKept
  BY <1>3 DEF StartupRecoverKept, MarkRecoveryPending
<1>4. CASE StartupRecoverActive
  BY <1>4 DEF StartupRecoverActive, MarkRecoveryPending
<1>5. CASE StartWorker
  BY <1>5 DEF StartWorker
<1>6. CASE StopSignal
  BY <1>6 DEF StopSignal
<1>7. CASE StopQueue
  BY <1>7 DEF StopQueue
<1>8. CASE ProcessEnds
  BY <1>8 DEF ProcessEnds
<1>9. ASSUME NEW j \in Jobs, Request(j) PROVE HandInv' /\ FlushInv'
  <2>1. CASE OweRejection(j)
    BY <2>1, RowShapes DEF OweRejection, TypeOK
  <2>2. CASE ~OweRejection(j)
    BY <1>9, <2>2 DEF Request, CheckHealth, RecordRefusedSubmit, CreateJob,
       CheckSubmit, PutJob, RejectCreatedJob
  <2> QED
    BY <2>1, <2>2
<1>10. CASE LoopTop
  BY <1>10 DEF LoopTop
<1>11. CASE Dequeue
  BY <1>11, HeadTailProperties, WorkerAssumption DEF Dequeue, TypeOK
<1>12. CASE IdleTick
  BY <1>12 DEF IdleTick
<1>13. CASE GetShutDown
  BY <1>13 DEF GetShutDown
<1>14. CASE TakeJob
  BY <1>14 DEF TakeJob
<1>15. CASE EnterGate
  <2>1. current \in Jobs /\ RestartRow(announced, FALSE) # NoRow
    BY <1>15, RowShapes DEF EnterGate, TypeOK
  <2> QED
    BY <1>15, <2>1 DEF EnterGate, TypeOK
<1>16. CASE JobBreaks
  BY <1>16 DEF JobBreaks
<1>17. CASE Announce
  BY <1>17 DEF Announce
<1>18. CASE PipelineEnds
  BY <1>18, OutcomeTypes, RowShapes DEF PipelineEnds, TypeOK
<1>19. CASE RecordEnd
  BY <1>19 DEF RecordEnd
<1>20. CASE GuardWrite
  BY <1>20 DEF GuardWrite, GuardWriteOf
<1>21. ASSUME NEW j \in Jobs, FlushWrite(j) PROVE HandInv' /\ FlushInv'
  BY <1>21 DEF FlushWrite, TypeOK
<1>22. CASE FlushFails
  BY <1>22 DEF FlushFails, AfterFailedFlush
<1>23. CASE FlushDone
  BY <1>23 DEF FlushDone, AfterFlush
<1>24. CASE Housekeep
  BY <1>24 DEF Housekeep
<1>25. CASE RecoverKept
  BY <1>25 DEF RecoverKept, AfterFailedSentences
<1>26. CASE RecoverActive
  BY <1>26 DEF RecoverActive
<1>27. CASE ClearDegraded
  BY <1>27 DEF ClearDegraded
<1>28. CASE IdlePrune
  BY <1>28 DEF IdlePrune
<1>29. CASE FlushBeforeExit
  BY <1>29 DEF FlushBeforeExit
<1> QED
  BY <1>1, <1>2, <1>3, <1>4, <1>5, <1>6, <1>7, <1>8, <1>9, <1>10, <1>11,
     <1>12, <1>13, <1>14, <1>15, <1>16, <1>17, <1>18, <1>19, <1>20, <1>21,
     <1>22, <1>23, <1>24, <1>25, <1>26, <1>27, <1>28, <1>29
     DEF Next, Worker, Process

(* The program starts with no job in anybody's hand and no flush under way. *)
LEMMA HandInit == Init => HandInv /\ FlushInv
BY DEF Init, HandInv, FlushInv, HoldsJob, OwedJobs, FlushSteps

(* The state of the program always has its type, with however many jobs,
   faults and restarts. *)
THEOREM TypeCorrect == Spec => []TypeOK
<1>1. Init => TypeOK /\ HandInv /\ FlushInv
  BY TypeInit, HandInit
<1>2. /\ TypeOK /\ HandInv /\ FlushInv
      /\ [Next]_vars
      => (TypeOK /\ HandInv /\ FlushInv)'
  BY TypeStep, HandStep
<1> QED
  BY <1>1, <1>2, PTL DEF Spec

-----------------------------------------------------------------------------
(* The inductive invariant. *)

(* A row is absent, or active, or over, and never two of them. *)
LEMMA RowKinds ==
    /\ \A row \in RowType : /\ row = NoRow => ~IsActive(row) /\ ~IsOver(row)
                            /\ row # NoRow => (IsActive(row) <=> ~IsOver(row))
    /\ \A row \in EndType : IsOver(row) /\ row # NoRow
    /\ \A state \in ActiveStates : /\ IsActive(Row(state, "none", FALSE))
                                   /\ Row(state, "none", FALSE).why = "none"
    /\ IsActive(PendingRow) /\ PendingRow.why = "none" /\ PendingRow # NoRow
    /\ NoRow.why = "none" /\ RejectedRow.why = "rejected"
    /\ LoopFailureRow.why = "failed" /\ LoopFailureRow # NoRow /\ RejectedRow # NoRow
BY DEF NoRow, PendingRow, RejectedRow, LoopFailureRow, Row, RowType, EndType,
   IsActive, IsOver, ActiveStates, TerminalStates, Whys

(* No recovery write says rejected. *)
LEMMA RestartWhys ==
    ASSUME NEW state \in ActiveStates, NEW note \in BOOLEAN
    PROVE  RestartRow(state, note).why \notin {"none", "rejected"}
BY DEF RestartRow, RestartCategory, Row

(* Neither does an outcome of the pipeline, which always has a reason unless
   the document was delivered. *)
LEMMA OutcomeWhys ==
    ASSUME announced \in ActiveStates, NEW end \in Outcomes
    PROVE  end.why # "rejected"
           /\ (end.why \notin {"none", "rejected"} \/ end.state = "DONE")
<1>1. \A note \in BOOLEAN : RestartRow(announced, note).why \notin {"none", "rejected"}
  BY RestartWhys
<1>2. \A note \in BOOLEAN :
         /\ Row("ERROR", "failed", note).why = "failed"
         /\ Row("ERROR", "unconfirmed", note).why = "unconfirmed"
  BY DEF Row
<1>3. /\ Row("DONE", "none", FALSE).why = "none"
      /\ Row("DONE", "none", FALSE).state = "DONE"
      /\ Row("CANCELLED", "cancelled", FALSE).why = "cancelled"
  BY DEF Row
<1> QED
  BY <1>1, <1>2, <1>3 DEF Outcomes

(* What a put and a get do to the jobs that wait. *)
LEMMA AppendQueue ==
    ASSUME NEW line \in Seq(Jobs), NEW job \in Jobs,
           \A i \in 1..Len(line) : line[i] # job,
           \A i, k \in 1..Len(line) : line[i] = line[k] => i = k
    PROVE  LET longer == Append(line, job)
           IN  /\ \A i \in 1..Len(longer) :
                     longer[i] = job \/ \E k \in 1..Len(line) : longer[i] = line[k]
               /\ \A i, k \in 1..Len(longer) : longer[i] = longer[k] => i = k
BY AppendProperties

(* The job taken from a queue without repetitions is not in the rest of it. *)
LEMMA TailQueue ==
    ASSUME NEW line \in Seq(Jobs), line # <<>>,
           \A i, k \in 1..Len(line) : line[i] = line[k] => i = k
    PROVE  LET shorter == Tail(line)
           IN  /\ \E k \in 1..Len(line) : Head(line) = line[k]
               /\ Head(line) \in Jobs
               /\ \A i \in 1..Len(shorter) :
                     /\ shorter[i] # Head(line)
                     /\ \E k \in 1..Len(line) : shorter[i] = line[k]
               /\ \A i, k \in 1..Len(shorter) : shorter[i] = shorter[k] => i = k
<1>1. /\ Len(line) \in Nat /\ Len(line) > 0
      /\ Len(Tail(line)) = Len(line) - 1
      /\ Head(line) = line[1]
      /\ \A i \in 1..Len(Tail(line)) : Tail(line)[i] = line[i + 1]
  BY HeadTailProperties, EmptySeq, LenProperties
<1> QED
  BY <1>1, ElementOfSeq

(* A recovery write may end the rows of jobs this process does not have. *)
LEMMA RecoveryWrites ==
    ASSUME TypeOK, NEW found, NEW k \in Jobs,
           \/ rows' = rows
           \/ rows' = FailRecoveredJobs(rows, found)
           \/ rows' = FailActiveJobs(rows)
    PROVE  \/ rows'[k] = rows[k]
           \/ /\ IsActive(rows[k]) /\ rows'[k] \in EndType
              /\ rows'[k].why # "rejected"
<1>1. rows \in [Jobs -> RowType]
  BY DEF TypeOK
<1>2. CASE rows' = FailRecoveredJobs(rows, found)
  BY <1>1, <1>2, RecoveryRows
<1>3. CASE rows' = FailActiveJobs(rows)
  BY <1>1, <1>3, RecoveryRows
<1> QED
  BY <1>2, <1>3

(* What a state change leaves in the table. *)
LEMMA AnnouncedRows ==
    ASSUME NEW table \in [Jobs -> RowType], NEW job \in Jobs, NEW after,
           \/ after = table
           \/ \E state \in ActiveStates : after = UpdateState(table, job, state)
    PROVE  /\ \A k \in Jobs \ {job} : after[k] = table[k]
           /\ \/ after[job] = table[job]
              \/ IsActive(after[job]) /\ after[job].why = "none"
           /\ table[job] = NoRow => after[job] = NoRow
<1>1. CASE after = table
  BY <1>1
<1>2. ASSUME NEW state \in ActiveStates, after = UpdateState(table, job, state)
      PROVE  /\ \A k \in Jobs \ {job} : after[k] = table[k]
             /\ after[job] = IF table[job] = NoRow THEN NoRow
                                                   ELSE Row(state, "none", FALSE)
  <2>1. \A k \in Jobs \ {job} : UpdateState(table, job, state)[k] = table[k]
    BY UpdateRows
  <2>2. UpdateState(table, job, state)[job] =
           IF table[job] = NoRow THEN NoRow ELSE Row(state, "none", FALSE)
    BY UpdateRows
  <2> QED
    BY <1>2, <2>1, <2>2
<1>3. \A state \in ActiveStates : /\ IsActive(Row(state, "none", FALSE))
                                  /\ Row(state, "none", FALSE).why = "none"
  BY RowKinds
<1> QED
  BY <1>1, <1>2, <1>3

(* Steps that leave every job where it is. *)
LEMMA QuietSteps ==
    ASSUME TypeOK, WorkerInv, HandInv', FlushInv',
           \/ UNCHANGED vars
           \/ Boot \/ StopSignal \/ StopQueue
           \/ \E j \in Jobs : CheckHealth(j) \/ CheckSubmit(j)
           \/ LoopTop \/ IdleTick \/ GetShutDown
           \/ FlushFails \/ FlushDone \/ Housekeep \/ ClearDegraded \/ FlushBeforeExit
    PROVE  JobInv'
<1> USE DEF disk, bounds, shared, run, counters, flush, recovery, history,
            WorkerInv, JobInv, WorkerStep, ReqStep, HoldsJob, HandInv, RequestInv,
            QueueInv, CurrentInv, OwedInv, RejectedInv, RecoveryInv, Untouched,
            NotBegun, NotOver, InQueue
<1>1. CASE UNCHANGED vars
  BY <1>1 DEF vars
<1>2. CASE Boot
  BY <1>2 DEF Boot
<1>3. CASE StopSignal
  BY <1>3 DEF StopSignal
<1>4. CASE StopQueue
  BY <1>4 DEF StopQueue
<1>5. ASSUME NEW j \in Jobs, CheckHealth(j) \/ CheckSubmit(j) PROVE JobInv'
  <2>1. req \in [Jobs -> ReqSteps]
    BY DEF TypeOK
  <2>2. CASE CheckHealth(j)
    BY <2>1, <2>2 DEF CheckHealth, Health
  <2>3. CASE CheckSubmit(j)
    BY <2>1, <2>3 DEF CheckSubmit
  <2> QED
    BY <1>5, <2>2, <2>3
<1>6. CASE LoopTop
  BY <1>6 DEF LoopTop
<1>7. CASE IdleTick
  BY <1>7 DEF IdleTick
<1>8. CASE GetShutDown
  BY <1>8 DEF GetShutDown
<1>9. CASE FlushFails
  <2>1. RequestInv'
    BY <1>9 DEF FlushFails, AfterFailedFlush, FlushSteps
  <2>2. QueueInv'
    BY <1>9 DEF FlushFails, AfterFailedFlush, FlushSteps
  <2>3. CurrentInv'
    BY <1>9 DEF FlushFails, AfterFailedFlush, FlushSteps
  <2>4. OwedInv'
    BY <1>9 DEF FlushFails, AfterFailedFlush, FlushSteps
  <2>5. RejectedInv'
    BY <1>9 DEF FlushFails, AfterFailedFlush, FlushSteps
  <2>6. RecoveryInv'
    BY <1>9 DEF FlushFails, AfterFailedFlush, FlushSteps
  <2> QED
    BY <2>1, <2>2, <2>3, <2>4, <2>5, <2>6
<1>10. CASE FlushDone
  BY <1>10 DEF FlushDone, AfterFlush, FlushSteps
<1>11. CASE Housekeep
  BY <1>11 DEF Housekeep
<1>12. CASE ClearDegraded
  BY <1>12 DEF ClearDegraded
<1>13. CASE FlushBeforeExit
  BY <1>13 DEF FlushBeforeExit
<1> QED
  BY <1>1, <1>2, <1>3, <1>4, <1>5, <1>6, <1>7, <1>8, <1>9, <1>10, <1>11,
     <1>12, <1>13

(* Startup ends rows of an earlier process only: this one has no job yet. *)
LEMMA StartupRecoverKeptStep ==
    ASSUME TypeOK, TypeOK', WorkerInv, HandInv', StartupRecoverKept
    PROVE  JobInv'
<1> USE RowKinds DEF disk, bounds, shared, run, counters, flush, recovery, history,
            WorkerInv, JobInv, WorkerStep, ReqStep, HoldsJob, HandInv, Untouched,
            NotBegun, NotOver, InQueue
<1>1. rows \in [Jobs -> RowType] /\ rows' \in [Jobs -> RowType]
      /\ req \in [Jobs -> ReqSteps]
      /\ owed \in [Jobs -> EndType \cup {NoRow}]
      /\ meant \in [Jobs -> EndType \cup {NoRow}]
      /\ current \in Jobs \cup {NoJob} /\ NoJob \notin Jobs
      /\ announced \in ActiveStates
  BY WorkerAssumption DEF TypeOK
<1>2. rows' = rows \/ rows' = FailRecoveredJobs(rows, kept)
  BY DEF StartupRecoverKept, MarkRecoveryPending
<1>3. \A k \in Jobs : \/ rows'[k] = rows[k]
                       \/ /\ IsActive(rows[k]) /\ rows'[k] \in EndType
                          /\ rows'[k].why # "rejected"
  BY <1>2, RecoveryWrites
<1>4. RequestInv'
  BY <1>1, <1>2, <1>3 DEF RequestInv, RecoveryInv, StartupRecoverKept,
     MarkRecoveryPending
<1>5. QueueInv'
  BY <1>1, <1>2, <1>3 DEF QueueInv, RecoveryInv, StartupRecoverKept,
     MarkRecoveryPending
<1>6. CurrentInv'
  BY <1>1, <1>2, <1>3 DEF CurrentInv, StartupRecoverKept, MarkRecoveryPending
<1>7. OwedInv'
  BY <1>1, <1>2, <1>3 DEF OwedInv, RecoveryInv, StartupRecoverKept,
     MarkRecoveryPending
<1>8. RejectedInv'
  BY <1>1, <1>2, <1>3 DEF RejectedInv, StartupRecoverKept, MarkRecoveryPending
<1>9. RecoveryInv'
  BY <1>1, <1>2, <1>3 DEF RecoveryInv, StartupRecoverKept, MarkRecoveryPending
<1> QED
  BY <1>4, <1>5, <1>6, <1>7, <1>8, <1>9

(* Likewise for the rows without a kept sentence. *)
LEMMA StartupRecoverActiveStep ==
    ASSUME TypeOK, TypeOK', WorkerInv, HandInv', StartupRecoverActive
    PROVE  JobInv'
<1> USE RowKinds DEF disk, bounds, shared, run, counters, flush, recovery, history,
            WorkerInv, JobInv, WorkerStep, ReqStep, HoldsJob, HandInv, Untouched,
            NotBegun, NotOver, InQueue
<1>1. rows \in [Jobs -> RowType] /\ rows' \in [Jobs -> RowType]
      /\ req \in [Jobs -> ReqSteps]
      /\ owed \in [Jobs -> EndType \cup {NoRow}]
      /\ meant \in [Jobs -> EndType \cup {NoRow}]
      /\ current \in Jobs \cup {NoJob} /\ NoJob \notin Jobs
      /\ announced \in ActiveStates
  BY WorkerAssumption DEF TypeOK
<1>2. rows' = rows \/ rows' = FailActiveJobs(rows)
  BY DEF StartupRecoverActive, MarkRecoveryPending
<1>3. \A k \in Jobs : \/ rows'[k] = rows[k]
                       \/ /\ IsActive(rows[k]) /\ rows'[k] \in EndType
                          /\ rows'[k].why # "rejected"
  BY <1>2, RecoveryWrites
<1>4. RequestInv'
  BY <1>1, <1>2, <1>3 DEF RequestInv, RecoveryInv, StartupRecoverActive,
     MarkRecoveryPending
<1>5. QueueInv'
  BY <1>1, <1>2, <1>3 DEF QueueInv, RecoveryInv, StartupRecoverActive,
     MarkRecoveryPending
<1>6. CurrentInv'
  BY <1>1, <1>2, <1>3 DEF CurrentInv, StartupRecoverActive, MarkRecoveryPending
<1>7. OwedInv'
  BY <1>1, <1>2, <1>3 DEF OwedInv, RecoveryInv, StartupRecoverActive,
     MarkRecoveryPending
<1>8. RejectedInv'
  BY <1>1, <1>2, <1>3 DEF RejectedInv, StartupRecoverActive,
     MarkRecoveryPending
<1>9. RecoveryInv'
  BY <1>1, <1>2, <1>3 DEF RecoveryInv, StartupRecoverActive,
     MarkRecoveryPending
<1> QED
  BY <1>4, <1>5, <1>6, <1>7, <1>8, <1>9

(* The deferred recovery runs while no job of this process is alive. *)
LEMMA RecoverKeptStep ==
    ASSUME TypeOK, TypeOK', WorkerInv, HandInv', RecoverKept
    PROVE  JobInv'
<1> USE RowKinds DEF disk, bounds, shared, run, counters, flush, recovery, history,
            WorkerInv, JobInv, WorkerStep, ReqStep, HoldsJob, HandInv, Untouched,
            NotBegun, NotOver, InQueue
<1>1. rows \in [Jobs -> RowType] /\ rows' \in [Jobs -> RowType]
      /\ req \in [Jobs -> ReqSteps]
      /\ owed \in [Jobs -> EndType \cup {NoRow}]
      /\ meant \in [Jobs -> EndType \cup {NoRow}]
      /\ current \in Jobs \cup {NoJob} /\ NoJob \notin Jobs
      /\ announced \in ActiveStates
  BY WorkerAssumption DEF TypeOK
<1>2. rows' = rows \/ rows' = FailRecoveredJobs(rows, kept)
  BY DEF RecoverKept, AfterFailedSentences
<1>3. \A k \in Jobs : \/ rows'[k] = rows[k]
                       \/ /\ IsActive(rows[k]) /\ rows'[k] \in EndType
                          /\ rows'[k].why # "rejected"
  BY <1>2, RecoveryWrites
<1>4. RequestInv'
  BY <1>1, <1>2, <1>3 DEF RequestInv, RecoveryInv, RecoverKept,
     AfterFailedSentences
<1>5. QueueInv'
  BY <1>1, <1>2, <1>3 DEF QueueInv, RecoveryInv, RecoverKept,
     AfterFailedSentences
<1>6. CurrentInv'
  BY <1>1, <1>2, <1>3 DEF CurrentInv, RecoverKept, AfterFailedSentences
<1>7. OwedInv'
  BY <1>1, <1>2, <1>3 DEF OwedInv, RecoveryInv, RecoverKept,
     AfterFailedSentences
<1>8. RejectedInv'
  BY <1>1, <1>2, <1>3 DEF RejectedInv, RecoverKept, AfterFailedSentences
<1>9. RecoveryInv'
  BY <1>1, <1>2, <1>3 DEF RecoveryInv, RecoverKept, AfterFailedSentences
<1> QED
  BY <1>4, <1>5, <1>6, <1>7, <1>8, <1>9

(* Likewise for its second write. *)
LEMMA RecoverActiveStep ==
    ASSUME TypeOK, TypeOK', WorkerInv, HandInv', RecoverActive
    PROVE  JobInv'
<1> USE RowKinds DEF disk, bounds, shared, run, counters, flush, recovery, history,
            WorkerInv, JobInv, WorkerStep, ReqStep, HoldsJob, HandInv, Untouched,
            NotBegun, NotOver, InQueue
<1>1. rows \in [Jobs -> RowType] /\ rows' \in [Jobs -> RowType]
      /\ req \in [Jobs -> ReqSteps]
      /\ owed \in [Jobs -> EndType \cup {NoRow}]
      /\ meant \in [Jobs -> EndType \cup {NoRow}]
      /\ current \in Jobs \cup {NoJob} /\ NoJob \notin Jobs
      /\ announced \in ActiveStates
  BY WorkerAssumption DEF TypeOK
<1>2. rows' = rows \/ rows' = FailActiveJobs(rows)
  BY DEF RecoverActive
<1>3. \A k \in Jobs : \/ rows'[k] = rows[k]
                       \/ /\ IsActive(rows[k]) /\ rows'[k] \in EndType
                          /\ rows'[k].why # "rejected"
  BY <1>2, RecoveryWrites
<1>4. RequestInv'
  BY <1>1, <1>2, <1>3 DEF RequestInv, RecoveryInv, RecoverActive
<1>5. QueueInv'
  BY <1>1, <1>2, <1>3 DEF QueueInv, RecoveryInv, RecoverActive
<1>6. CurrentInv'
  BY <1>1, <1>2, <1>3 DEF CurrentInv, RecoverActive
<1>7. OwedInv'
  BY <1>1, <1>2, <1>3 DEF OwedInv, RecoveryInv, RecoverActive
<1>8. RejectedInv'
  BY <1>1, <1>2, <1>3 DEF RejectedInv, RecoverActive
<1>9. RecoveryInv'
  BY <1>1, <1>2, <1>3 DEF RecoveryInv, RecoverActive
<1> QED
  BY <1>4, <1>5, <1>6, <1>7, <1>8, <1>9

(* A prune only deletes rows. *)
LEMMA StartWorkerStep ==
    ASSUME TypeOK, TypeOK', WorkerInv, HandInv', StartWorker
    PROVE  JobInv'
<1> USE RowKinds DEF disk, bounds, shared, run, counters, flush, recovery, history,
            WorkerInv, JobInv, WorkerStep, ReqStep, HoldsJob, HandInv, Untouched,
            NotBegun, NotOver, InQueue
<1>1. rows \in [Jobs -> RowType] /\ rows' \in [Jobs -> RowType]
      /\ req \in [Jobs -> ReqSteps]
      /\ owed \in [Jobs -> EndType \cup {NoRow}]
      /\ meant \in [Jobs -> EndType \cup {NoRow}]
      /\ current \in Jobs \cup {NoJob} /\ NoJob \notin Jobs
      /\ announced \in ActiveStates
  BY WorkerAssumption DEF TypeOK
<1>2. rows' = rows \/ \E cutoff : rows' = Prune(rows, born, cutoff)
  BY DEF StartWorker
<1>3. \A k \in Jobs : rows'[k] \in {rows[k], NoRow}
  BY <1>1, <1>2, PruneRows
<1>4. RequestInv'
  BY <1>1, <1>2, <1>3 DEF RequestInv, StartWorker
<1>5. QueueInv'
  BY <1>1, <1>2, <1>3 DEF QueueInv, StartWorker
<1>6. CurrentInv'
  BY <1>1, <1>2, <1>3 DEF CurrentInv, StartWorker
<1>7. OwedInv'
  BY <1>1, <1>2, <1>3 DEF OwedInv, StartWorker
<1>8. RejectedInv'
  BY <1>1, <1>2, <1>3 DEF RejectedInv, StartWorker
<1>9. RecoveryInv'
  BY <1>1, <1>2, <1>3 DEF RecoveryInv, StartWorker
<1> QED
  BY <1>4, <1>5, <1>6, <1>7, <1>8, <1>9

(* Likewise for the idle prune. *)
LEMMA IdlePruneStep ==
    ASSUME TypeOK, TypeOK', WorkerInv, HandInv', IdlePrune
    PROVE  JobInv'
<1> USE RowKinds DEF disk, bounds, shared, run, counters, flush, recovery, history,
            WorkerInv, JobInv, WorkerStep, ReqStep, HoldsJob, HandInv, Untouched,
            NotBegun, NotOver, InQueue
<1>1. rows \in [Jobs -> RowType] /\ rows' \in [Jobs -> RowType]
      /\ req \in [Jobs -> ReqSteps]
      /\ owed \in [Jobs -> EndType \cup {NoRow}]
      /\ meant \in [Jobs -> EndType \cup {NoRow}]
      /\ current \in Jobs \cup {NoJob} /\ NoJob \notin Jobs
      /\ announced \in ActiveStates
  BY WorkerAssumption DEF TypeOK
<1>2. rows' = rows \/ \E cutoff : rows' = Prune(rows, born, cutoff)
  BY DEF IdlePrune, CountLoopFailure
<1>3. \A k \in Jobs : rows'[k] \in {rows[k], NoRow}
  BY <1>1, <1>2, PruneRows
<1>4. RequestInv'
  BY <1>1, <1>2, <1>3 DEF RequestInv, IdlePrune, CountLoopFailure
<1>5. QueueInv'
  BY <1>1, <1>2, <1>3 DEF QueueInv, IdlePrune, CountLoopFailure
<1>6. CurrentInv'
  BY <1>1, <1>2, <1>3 DEF CurrentInv, IdlePrune, CountLoopFailure
<1>7. OwedInv'
  BY <1>1, <1>2, <1>3 DEF OwedInv, IdlePrune, CountLoopFailure
<1>8. RejectedInv'
  BY <1>1, <1>2, <1>3 DEF RejectedInv, IdlePrune, CountLoopFailure
<1>9. RecoveryInv'
  BY <1>1, <1>2, <1>3 DEF RecoveryInv, IdlePrune, CountLoopFailure
<1> QED
  BY <1>4, <1>5, <1>6, <1>7, <1>8, <1>9

(* The end of the process forgets every job. *)
LEMMA ProcessEndsStep ==
    ASSUME TypeOK, TypeOK', WorkerInv, HandInv', ProcessEnds
    PROVE  JobInv'
<1> USE RowKinds DEF disk, bounds, shared, run, counters, flush, recovery, history,
            WorkerInv, JobInv, WorkerStep, ReqStep, HoldsJob, HandInv, Untouched,
            NotBegun, NotOver, InQueue
<1>1. rows \in [Jobs -> RowType] /\ rows' \in [Jobs -> RowType]
      /\ req \in [Jobs -> ReqSteps]
      /\ owed \in [Jobs -> EndType \cup {NoRow}]
      /\ meant \in [Jobs -> EndType \cup {NoRow}]
      /\ current \in Jobs \cup {NoJob} /\ NoJob \notin Jobs
      /\ announced \in ActiveStates
  BY WorkerAssumption DEF TypeOK
<1>2. Len(queue') = 0
  BY DEF ProcessEnds
<1>3. RequestInv'
  BY <1>1, <1>2 DEF RequestInv, ProcessEnds
<1>4. QueueInv'
  BY <1>1, <1>2 DEF QueueInv, ProcessEnds
<1>5. CurrentInv'
  BY <1>1, <1>2 DEF CurrentInv, ProcessEnds
<1>6. OwedInv'
  BY <1>1, <1>2 DEF OwedInv, ProcessEnds
<1>7. RejectedInv'
  BY <1>1, <1>2 DEF RejectedInv, ProcessEnds
<1>8. RecoveryInv'
  BY <1>1, <1>2 DEF RecoveryInv, ProcessEnds
<1> QED
  BY <1>3, <1>4, <1>5, <1>6, <1>7, <1>8

(* A refused submit inserts a row nobody else knows. *)
LEMMA RefusedSubmitStep ==
    ASSUME NEW j \in Jobs, TypeOK, TypeOK', WorkerInv, HandInv',
           RecordRefusedSubmit(j)
    PROVE  JobInv'
<1> USE RowKinds DEF disk, bounds, shared, run, counters, flush, recovery, history,
            WorkerInv, JobInv, WorkerStep, ReqStep, HoldsJob, HandInv, Untouched,
            NotBegun, NotOver, InQueue
<1>1. rows \in [Jobs -> RowType] /\ rows' \in [Jobs -> RowType]
      /\ req \in [Jobs -> ReqSteps]
      /\ owed \in [Jobs -> EndType \cup {NoRow}]
      /\ meant \in [Jobs -> EndType \cup {NoRow}]
      /\ current \in Jobs \cup {NoJob} /\ NoJob \notin Jobs
      /\ announced \in ActiveStates
  BY WorkerAssumption DEF TypeOK
<1>2. rows' = rows \/ rows' = TrimRejected(InsertRow(rows, j, RejectedRow), born')
  BY DEF RecordRefusedSubmit
<1>3. /\ \A k \in Jobs \ {j} : rows'[k] \in {rows[k], NoRow}
      /\ rows'[j] \in {rows[j], RejectedRow, NoRow}
  BY <1>1, <1>2, RefusedRows
<1>4. RejectedRow \in EndType
  BY RowShapes
<1>5. RequestInv'
  BY <1>1, <1>2, <1>3, <1>4 DEF RequestInv, RecordRefusedSubmit
<1>6. QueueInv'
  BY <1>1, <1>2, <1>3, <1>4 DEF QueueInv, RecordRefusedSubmit
<1>7. CurrentInv'
  BY <1>1, <1>2, <1>3, <1>4 DEF CurrentInv, RecordRefusedSubmit
<1>8. OwedInv'
  BY <1>1, <1>2, <1>3, <1>4 DEF OwedInv, RecordRefusedSubmit
<1>9. RejectedInv'
  BY <1>1, <1>2, <1>3, <1>4 DEF RequestInv, RejectedInv, RecordRefusedSubmit
<1>10. RecoveryInv'
  BY <1>1, <1>2, <1>3, <1>4 DEF RecoveryInv, RecordRefusedSubmit
<1> QED
  BY <1>5, <1>6, <1>7, <1>8, <1>9, <1>10

(* A created job is known to its request thread alone. *)
LEMMA CreateStep ==
    ASSUME NEW j \in Jobs, TypeOK, TypeOK', WorkerInv, HandInv', CreateJob(j)
    PROVE  JobInv'
<1> USE RowKinds DEF disk, bounds, shared, run, counters, flush, recovery, history,
            WorkerInv, JobInv, WorkerStep, ReqStep, HoldsJob, HandInv, Untouched,
            NotBegun, NotOver, InQueue
<1>1. rows \in [Jobs -> RowType] /\ rows' \in [Jobs -> RowType]
      /\ req \in [Jobs -> ReqSteps]
      /\ owed \in [Jobs -> EndType \cup {NoRow}]
      /\ meant \in [Jobs -> EndType \cup {NoRow}]
      /\ current \in Jobs \cup {NoJob} /\ NoJob \notin Jobs
      /\ announced \in ActiveStates
  BY WorkerAssumption DEF TypeOK
<1>2. \A k \in Jobs \ {j} : rows'[k] = rows[k]
  BY <1>1 DEF CreateJob, InsertRow
<1>3. rows'[j] \in {rows[j], PendingRow}
  BY <1>1 DEF CreateJob, InsertRow
<1>4. RequestInv'
  BY <1>1, <1>2, <1>3 DEF RequestInv, CreateJob
<1>5. QueueInv'
  BY <1>1, <1>2, <1>3 DEF QueueInv, CreateJob
<1>6. CurrentInv'
  BY <1>1, <1>2, <1>3 DEF CurrentInv, CreateJob
<1>7. OwedInv'
  BY <1>1, <1>2, <1>3 DEF OwedInv, CreateJob
<1>8. RejectedInv'
  BY <1>1, <1>2, <1>3 DEF RejectedInv, CreateJob
<1>9. RecoveryInv'
  BY <1>1, <1>2, <1>3 DEF RecoveryInv, CreateJob
<1> QED
  BY <1>4, <1>5, <1>6, <1>7, <1>8, <1>9

(* A request thread ends its own row, which nobody runs. *)
LEMMA RejectStep ==
    ASSUME NEW j \in Jobs, TypeOK, TypeOK', WorkerInv, HandInv',
           RejectCreatedJob(j)
    PROVE  JobInv'
<1> USE RowKinds DEF disk, bounds, shared, run, counters, flush, recovery, history,
            WorkerInv, JobInv, WorkerStep, ReqStep, HoldsJob, HandInv, Untouched,
            NotBegun, NotOver, InQueue
<1>1. rows \in [Jobs -> RowType] /\ rows' \in [Jobs -> RowType]
      /\ req \in [Jobs -> ReqSteps]
      /\ owed \in [Jobs -> EndType \cup {NoRow}]
      /\ meant \in [Jobs -> EndType \cup {NoRow}]
      /\ current \in Jobs \cup {NoJob} /\ NoJob \notin Jobs
      /\ announced \in ActiveStates
  BY WorkerAssumption DEF TypeOK
<1>2. RejectedRow \in EndType
  BY RowShapes
<1>3. rows' = rows \/ rows' = FinishJob(rows, born, j, RejectedRow)
  BY DEF RejectCreatedJob
<1>4. /\ \A k \in Jobs \ {j} :
            FinishJob(rows, born, j, RejectedRow)[k] \in {rows[k], NoRow}
      /\ FinishJob(rows, born, j, RejectedRow)[j] \in
            IF rows[j] = NoRow THEN {NoRow} ELSE {RejectedRow, NoRow}
  BY <1>1, <1>2, FinishRows
<1>5. /\ \A k \in Jobs \ {j} : rows'[k] \in {rows[k], NoRow}
      /\ rows'[j] \in {rows[j], RejectedRow, NoRow}
      /\ rows[j] = NoRow => rows'[j] = NoRow
  BY <1>1, <1>3, <1>4
<1>6. RequestInv'
  BY <1>1, <1>2, <1>3, <1>4, <1>5 DEF RequestInv, RejectCreatedJob,
     AfterFailedRejection
<1>7. QueueInv'
  BY <1>1, <1>2, <1>3, <1>4, <1>5 DEF QueueInv, RejectCreatedJob,
     AfterFailedRejection
<1>8. CurrentInv'
  BY <1>1, <1>2, <1>3, <1>4, <1>5 DEF CurrentInv, RejectCreatedJob,
     AfterFailedRejection
<1>9. OwedInv'
  BY <1>1, <1>2, <1>3, <1>4, <1>5 DEF OwedInv, RejectCreatedJob,
     AfterFailedRejection
<1>10. RejectedInv'
  BY <1>1, <1>2, <1>3, <1>4, <1>5 DEF RequestInv, RejectedInv,
     RejectCreatedJob, AfterFailedRejection
<1>11. RecoveryInv'
  BY <1>1, <1>2, <1>3, <1>4, <1>5 DEF RecoveryInv, RejectCreatedJob,
     AfterFailedRejection
<1> QED
  BY <1>6, <1>7, <1>8, <1>9, <1>10, <1>11

(* A rejection is owed for a job that is in nobody else's hands. *)
LEMMA OweStep ==
    ASSUME NEW j \in Jobs, TypeOK, TypeOK', WorkerInv, HandInv', OweRejection(j)
    PROVE  JobInv'
<1> USE RowKinds DEF disk, bounds, shared, run, counters, flush, recovery, history,
            WorkerInv, JobInv, WorkerStep, ReqStep, HoldsJob, HandInv, Untouched,
            NotBegun, NotOver, InQueue
<1>1. rows \in [Jobs -> RowType] /\ rows' \in [Jobs -> RowType]
      /\ req \in [Jobs -> ReqSteps]
      /\ owed \in [Jobs -> EndType \cup {NoRow}]
      /\ meant \in [Jobs -> EndType \cup {NoRow}]
      /\ current \in Jobs \cup {NoJob} /\ NoJob \notin Jobs
      /\ announced \in ActiveStates
  BY WorkerAssumption DEF TypeOK
<1>2. RejectedRow \in EndType
  BY RowShapes
<1>3. RequestInv'
  BY <1>1, <1>2 DEF RequestInv, OweRejection
<1>4. QueueInv'
  BY <1>1, <1>2 DEF QueueInv, OweRejection
<1>5. CurrentInv'
  BY <1>1, <1>2 DEF CurrentInv, OweRejection
<1>6. OwedInv'
  BY <1>1, <1>2 DEF RequestInv, OwedInv, OweRejection
<1>7. RejectedInv'
  BY <1>1, <1>2 DEF RejectedInv, OweRejection
<1>8. RecoveryInv'
  BY <1>1, <1>2 DEF RecoveryInv, OweRejection
<1> QED
  BY <1>3, <1>4, <1>5, <1>6, <1>7, <1>8

(* A job enters the queue once, and leaves its request thread. *)
LEMMA PutStep ==
    ASSUME NEW j \in Jobs, TypeOK, TypeOK', WorkerInv, HandInv', PutJob(j)
    PROVE  JobInv'
<1> USE RowKinds DEF disk, bounds, shared, run, counters, flush, recovery, history,
            WorkerInv, JobInv, WorkerStep, ReqStep, HoldsJob, HandInv, Untouched,
            NotBegun, NotOver, InQueue
<1>1. rows \in [Jobs -> RowType] /\ rows' \in [Jobs -> RowType]
      /\ req \in [Jobs -> ReqSteps]
      /\ owed \in [Jobs -> EndType \cup {NoRow}]
      /\ meant \in [Jobs -> EndType \cup {NoRow}]
      /\ current \in Jobs \cup {NoJob} /\ NoJob \notin Jobs
      /\ announced \in ActiveStates
  BY WorkerAssumption DEF TypeOK
<1>2. /\ \A i \in 1..Len(queue) : queue[i] # j
      /\ \A i, k \in 1..Len(queue) : queue[i] = queue[k] => i = k
      /\ queue \in Seq(Jobs)
  BY DEF PutJob, RequestInv, QueueInv, TypeOK
<1>3. queue' = queue \/ queue' = Append(queue, j)
  BY DEF PutJob
<1>4. /\ \A i \in 1..Len(queue') :
            queue'[i] = j \/ \E k \in 1..Len(queue) : queue'[i] = queue[k]
      /\ \A i, k \in 1..Len(queue') : queue'[i] = queue'[k] => i = k
  BY <1>2, <1>3, AppendQueue
<1>5. \A k \in Jobs : InQueue(k)' => InQueue(k) \/ (k = j /\ queue' # queue)
  BY <1>3, <1>4
<1>6. queue' # queue => req'[j] = "done"
  BY <1>1 DEF PutJob
<1>7. RequestInv'
  BY <1>1, <1>2, <1>3, <1>4, <1>5, <1>6 DEF RequestInv, PutJob
<1>8. QueueInv'
  <2>1. SUFFICES ASSUME NEW k \in Jobs, InQueue(k)'
                 PROVE  /\ req'[k] = "done" /\ NotBegun(k)'
                        /\ owed'[k] = NoRow /\ meant'[k] = NoRow
                        /\ current' # k /\ k \notin ran'
    BY <1>4 DEF QueueInv
  <2>2. UNCHANGED <<rows, owed, meant, current, ran>>
    BY DEF PutJob
  <2>3. CASE InQueue(k)
    <3>1. req'[k] = req[k] \/ k = j
      BY <1>1 DEF PutJob
    <3>2. k # j
      BY <1>2, <2>3
    <3> QED
      BY <2>2, <2>3, <3>1, <3>2 DEF QueueInv
  <2>4. CASE k = j /\ queue' # queue
    <3>1. Untouched(j) /\ NotBegun(j)
      BY DEF RequestInv, PutJob
    <3> QED
      BY <1>6, <2>2, <2>4, <3>1
  <2> QED
    BY <1>5, <2>1, <2>3, <2>4
<1>9. CurrentInv'
  BY <1>1, <1>2, <1>3, <1>4, <1>5, <1>6 DEF CurrentInv, PutJob
<1>10. OwedInv'
  BY <1>1, <1>2, <1>3, <1>4, <1>5, <1>6 DEF OwedInv, PutJob
<1>11. RejectedInv'
  BY <1>1, <1>2, <1>3, <1>4, <1>5, <1>6 DEF RejectedInv, PutJob
<1>12. RecoveryInv'
  BY <1>1, <1>2, <1>3, <1>4, <1>5, <1>6 DEF RecoveryInv, PutJob
<1> QED
  BY <1>7, <1>8, <1>9, <1>10, <1>11, <1>12

(* The worker takes over the job at the head of the queue. *)
LEMMA DequeueStep ==
    ASSUME TypeOK, TypeOK', WorkerInv, HandInv', Dequeue
    PROVE  JobInv'
<1> USE RowKinds DEF disk, bounds, shared, run, counters, flush, recovery, history,
            WorkerInv, JobInv, WorkerStep, ReqStep, HoldsJob, HandInv, Untouched,
            NotBegun, NotOver, InQueue
<1>1. rows \in [Jobs -> RowType] /\ rows' \in [Jobs -> RowType]
      /\ req \in [Jobs -> ReqSteps]
      /\ owed \in [Jobs -> EndType \cup {NoRow}]
      /\ meant \in [Jobs -> EndType \cup {NoRow}]
      /\ current \in Jobs \cup {NoJob} /\ NoJob \notin Jobs
      /\ announced \in ActiveStates
  BY WorkerAssumption DEF TypeOK
<1>2. /\ \A i, k \in 1..Len(queue) : queue[i] = queue[k] => i = k
      /\ queue \in Seq(Jobs) /\ queue # <<>>
  BY DEF Dequeue, QueueInv, TypeOK
<1>3. /\ \E k \in 1..Len(queue) : current' = queue[k]
      /\ current' \in Jobs
      /\ \A i \in 1..Len(queue') :
            /\ queue'[i] # current'
            /\ \E k \in 1..Len(queue) : queue'[i] = queue[k]
      /\ \A i, k \in 1..Len(queue') : queue'[i] = queue'[k] => i = k
  BY <1>2, TailQueue DEF Dequeue
<1>4. RequestInv'
  BY <1>1, <1>2, <1>3 DEF RequestInv, Dequeue
<1>5. QueueInv'
  BY <1>1, <1>2, <1>3 DEF QueueInv, Dequeue
<1>6. CurrentInv'
  BY <1>1, <1>2, <1>3 DEF QueueInv, CurrentInv, Dequeue
<1>7. OwedInv'
  BY <1>1, <1>2, <1>3 DEF QueueInv, OwedInv, Dequeue
<1>8. RejectedInv'
  BY <1>1, <1>2, <1>3 DEF RejectedInv, Dequeue
<1>9. RecoveryInv'
  BY <1>1, <1>2, <1>3 DEF RecoveryInv, Dequeue
<1> QED
  BY <1>4, <1>5, <1>6, <1>7, <1>8, <1>9

(* The worker keeps the job, or drops it at a stop. *)
LEMMA TakeStep ==
    ASSUME TypeOK, TypeOK', WorkerInv, HandInv', TakeJob
    PROVE  JobInv'
<1> USE RowKinds DEF disk, bounds, shared, run, counters, flush, recovery, history,
            WorkerInv, JobInv, WorkerStep, ReqStep, HoldsJob, HandInv, Untouched,
            NotBegun, NotOver, InQueue
<1>1. rows \in [Jobs -> RowType] /\ rows' \in [Jobs -> RowType]
      /\ req \in [Jobs -> ReqSteps]
      /\ owed \in [Jobs -> EndType \cup {NoRow}]
      /\ meant \in [Jobs -> EndType \cup {NoRow}]
      /\ current \in Jobs \cup {NoJob} /\ NoJob \notin Jobs
      /\ announced \in ActiveStates
  BY WorkerAssumption DEF TypeOK
<1>2. RequestInv'
  BY <1>1 DEF RequestInv, TakeJob
<1>3. QueueInv'
  BY <1>1 DEF QueueInv, TakeJob
<1>4. CurrentInv'
  BY <1>1 DEF CurrentInv, TakeJob
<1>5. OwedInv'
  BY <1>1 DEF OwedInv, TakeJob
<1>6. RejectedInv'
  BY <1>1 DEF RejectedInv, TakeJob
<1>7. RecoveryInv'
  BY <1>1 DEF RecoveryInv, TakeJob
<1> QED
  BY <1>2, <1>3, <1>4, <1>5, <1>6, <1>7

(* The job starts, or is ended by the stop before it started. *)
LEMMA GateStep ==
    ASSUME TypeOK, TypeOK', WorkerInv, HandInv', EnterGate
    PROVE  JobInv'
<1> USE RowKinds DEF disk, bounds, shared, run, counters, flush, recovery, history,
            WorkerInv, JobInv, WorkerStep, ReqStep, HoldsJob, HandInv, Untouched,
            NotBegun, NotOver, InQueue
<1>1. rows \in [Jobs -> RowType] /\ rows' \in [Jobs -> RowType]
      /\ req \in [Jobs -> ReqSteps]
      /\ owed \in [Jobs -> EndType \cup {NoRow}]
      /\ meant \in [Jobs -> EndType \cup {NoRow}]
      /\ current \in Jobs \cup {NoJob} /\ NoJob \notin Jobs
      /\ announced \in ActiveStates
  BY WorkerAssumption DEF TypeOK
<1>2. /\ RestartRow(announced, FALSE) \in EndType
      /\ RestartRow(announced, FALSE).why \notin {"none", "rejected"}
  BY <1>1, RowShapes, RestartWhys
<1>3. /\ current \in Jobs /\ wpc = "gate" /\ ~InQueue(current)
      /\ owed[current] = NoRow /\ NotBegun(current) /\ req[current] = "done"
  BY <1>1 DEF EnterGate, CurrentInv, QueueInv
<1>4. rows[current].why # "rejected"
  BY <1>3
<1>5. /\ \A k \in Jobs \ {current} : meant'[k] = meant[k] /\ (k \in ran' <=> k \in ran)
      /\ meant'[current] \in {meant[current], RestartRow(announced, FALSE)}
  BY <1>1, <1>3 DEF EnterGate
<1>6. RequestInv'
  BY <1>1, <1>2, <1>3, <1>4, <1>5 DEF RequestInv, EnterGate, RefuseToStart
<1>7. QueueInv'
  BY <1>1, <1>2, <1>3, <1>4, <1>5 DEF QueueInv, EnterGate, RefuseToStart
<1>8. CurrentInv'
  BY <1>1, <1>2, <1>3, <1>4, <1>5 DEF CurrentInv, EnterGate, RefuseToStart
<1>9. OwedInv'
  BY <1>1, <1>2, <1>3, <1>4, <1>5 DEF OwedInv, EnterGate, RefuseToStart
<1>10. RejectedInv'
  <2> SUFFICES ASSUME NEW k \in Jobs
               PROVE  /\ rows[k].why = "rejected" =>
                            /\ req[k] = "done" /\ IsOver(rows[k])
                            /\ k \notin ran' /\ ~InQueue(k) /\ current # k
                      /\ meant'[k].why # "rejected"
    BY DEF RejectedInv, EnterGate
  <2>1. /\ rows[k].why = "rejected" =>
              /\ req[k] = "done" /\ IsOver(rows[k])
              /\ k \notin ran /\ ~InQueue(k) /\ current # k
        /\ meant[k].why # "rejected"
    BY DEF RejectedInv
  <2> QED
    BY <1>2, <1>3, <1>4, <1>5, <2>1
<1>11. RecoveryInv'
  BY <1>1, <1>2, <1>3, <1>4, <1>5 DEF RecoveryInv, EnterGate, RefuseToStart
<1> QED
  BY <1>6, <1>7, <1>8, <1>9, <1>10, <1>11

(* A job that broke is left for the guard, with nothing owed. *)
LEMMA BreaksStep ==
    ASSUME TypeOK, TypeOK', WorkerInv, HandInv', JobBreaks
    PROVE  JobInv'
<1> USE RowKinds DEF disk, bounds, shared, run, counters, flush, recovery, history,
            WorkerInv, JobInv, WorkerStep, ReqStep, HoldsJob, HandInv, Untouched,
            NotBegun, NotOver, InQueue
<1>1. rows \in [Jobs -> RowType] /\ rows' \in [Jobs -> RowType]
      /\ req \in [Jobs -> ReqSteps]
      /\ owed \in [Jobs -> EndType \cup {NoRow}]
      /\ meant \in [Jobs -> EndType \cup {NoRow}]
      /\ current \in Jobs \cup {NoJob} /\ NoJob \notin Jobs
      /\ announced \in ActiveStates
  BY WorkerAssumption DEF TypeOK
<1>2. RequestInv'
  BY <1>1 DEF RequestInv, JobBreaks, CountLoopFailure
<1>3. QueueInv'
  BY <1>1 DEF QueueInv, JobBreaks, CountLoopFailure
<1>4. CurrentInv'
  BY <1>1 DEF CurrentInv, JobBreaks, CountLoopFailure
<1>5. OwedInv'
  BY <1>1 DEF OwedInv, JobBreaks, CountLoopFailure
<1>6. RejectedInv'
  BY <1>1 DEF RejectedInv, JobBreaks, CountLoopFailure
<1>7. RecoveryInv'
  BY <1>1 DEF RecoveryInv, JobBreaks, CountLoopFailure
<1> QED
  BY <1>2, <1>3, <1>4, <1>5, <1>6, <1>7

(* A state change writes the row of the job in hand, which is not over. *)
LEMMA AnnounceStep ==
    ASSUME TypeOK, TypeOK', WorkerInv, HandInv', Announce
    PROVE  JobInv'
<1> USE RowKinds DEF disk, bounds, shared, run, counters, flush, recovery, history,
            WorkerInv, JobInv, WorkerStep, ReqStep, HoldsJob, HandInv, Untouched,
            NotBegun, NotOver, InQueue
<1>1. rows \in [Jobs -> RowType] /\ rows' \in [Jobs -> RowType]
      /\ req \in [Jobs -> ReqSteps]
      /\ owed \in [Jobs -> EndType \cup {NoRow}]
      /\ meant \in [Jobs -> EndType \cup {NoRow}]
      /\ current \in Jobs \cup {NoJob} /\ NoJob \notin Jobs
      /\ announced \in ActiveStates
  BY WorkerAssumption DEF TypeOK
<1>2. current \in Jobs /\ wpc = "scan"
  BY <1>1 DEF Announce
<1>3. \A state \in NextStates(announced) : state \in ActiveStates
  BY <1>1 DEF NextStates, ActiveStates
<1>4. \/ rows' = rows
      \/ \E state \in ActiveStates : rows' = UpdateState(rows, current, state)
  BY <1>3 DEF Announce
<1>5. /\ \A k \in Jobs \ {current} : rows'[k] = rows[k]
      /\ \/ rows'[current] = rows[current]
         \/ IsActive(rows'[current]) /\ rows'[current].why = "none"
      /\ rows[current] = NoRow => rows'[current] = NoRow
  BY <1>1, <1>2, <1>4, AnnouncedRows
<1>6. RequestInv'
  BY <1>1, <1>2, <1>3, <1>4, <1>5 DEF RequestInv, Announce
<1>7. QueueInv'
  BY <1>1, <1>2, <1>3, <1>4, <1>5 DEF QueueInv, Announce
<1>8. CurrentInv'
  BY <1>1, <1>2, <1>3, <1>4, <1>5 DEF CurrentInv, Announce
<1>9. OwedInv'
  BY <1>1, <1>2, <1>3, <1>4, <1>5 DEF OwedInv, Announce
<1>10. RejectedInv'
  BY <1>1, <1>2, <1>3, <1>4, <1>5 DEF RejectedInv, Announce
<1>11. RecoveryInv'
  BY <1>1, <1>2, <1>3, <1>4, <1>5 DEF RecoveryInv, Announce
<1> QED
  BY <1>6, <1>7, <1>8, <1>9, <1>10, <1>11

(* How the pipeline ended is what the worker means to record. *)
LEMMA EndsStep ==
    ASSUME TypeOK, TypeOK', WorkerInv, HandInv', PipelineEnds
    PROVE  JobInv'
<1> USE RowKinds DEF disk, bounds, shared, run, counters, flush, recovery, history,
            WorkerInv, JobInv, WorkerStep, ReqStep, HoldsJob, HandInv, Untouched,
            NotBegun, NotOver, InQueue
<1>1. rows \in [Jobs -> RowType] /\ rows' \in [Jobs -> RowType]
      /\ req \in [Jobs -> ReqSteps]
      /\ owed \in [Jobs -> EndType \cup {NoRow}]
      /\ meant \in [Jobs -> EndType \cup {NoRow}]
      /\ current \in Jobs \cup {NoJob} /\ NoJob \notin Jobs
      /\ announced \in ActiveStates
  BY WorkerAssumption DEF TypeOK
<1>2. current \in Jobs
  BY <1>1 DEF PipelineEnds
<1>3. PICK end \in Outcomes : meant' = [meant EXCEPT ![current] = end]
  BY DEF PipelineEnds
<1>4. /\ end \in EndType /\ end.why # "rejected"
      /\ end.why \notin {"none", "rejected"} \/ end.state = "DONE"
  BY <1>1, OutcomeWhys, OutcomeTypes
<1>5. RequestInv'
  BY <1>1, <1>2, <1>3, <1>4 DEF RequestInv, PipelineEnds
<1>6. QueueInv'
  BY <1>1, <1>2, <1>3, <1>4 DEF QueueInv, PipelineEnds
<1>7. CurrentInv'
  BY <1>1, <1>2, <1>3, <1>4 DEF CurrentInv, PipelineEnds
<1>8. OwedInv'
  BY <1>1, <1>2, <1>3, <1>4 DEF OwedInv, PipelineEnds
<1>9. RejectedInv'
  BY <1>1, <1>2, <1>3, <1>4 DEF RejectedInv, PipelineEnds
<1>10. RecoveryInv'
  BY <1>1, <1>2, <1>3, <1>4 DEF RecoveryInv, PipelineEnds
<1> QED
  BY <1>5, <1>6, <1>7, <1>8, <1>9, <1>10

(* The terminal write ends the row, or is owed. *)
LEMMA RecordStep ==
    ASSUME TypeOK, TypeOK', WorkerInv, HandInv', RecordEnd
    PROVE  JobInv'
<1> USE RowKinds DEF disk, bounds, shared, run, counters, flush, recovery, history,
            WorkerInv, JobInv, WorkerStep, ReqStep, HoldsJob, HandInv, Untouched,
            NotBegun, NotOver, InQueue
<1>1. rows \in [Jobs -> RowType] /\ rows' \in [Jobs -> RowType]
      /\ req \in [Jobs -> ReqSteps]
      /\ owed \in [Jobs -> EndType \cup {NoRow}]
      /\ meant \in [Jobs -> EndType \cup {NoRow}]
      /\ current \in Jobs \cup {NoJob} /\ NoJob \notin Jobs
      /\ announced \in ActiveStates
  BY WorkerAssumption DEF TypeOK
<1>2. current \in Jobs /\ meant[current] \in EndType
  BY <1>1 DEF RecordEnd
<1>3. rows' = rows \/ rows' = FinishJob(rows, born, current, meant[current])
  BY DEF RecordEnd
<1>4. /\ \A k \in Jobs \ {current} :
            FinishJob(rows, born, current, meant[current])[k] \in {rows[k], NoRow}
      /\ FinishJob(rows, born, current, meant[current])[current] \in
            IF rows[current] = NoRow THEN {NoRow} ELSE {meant[current], NoRow}
  BY <1>1, <1>2, FinishRows
<1>5. /\ \A k \in Jobs \ {current} : rows'[k] \in {rows[k], NoRow}
      /\ rows'[current] \in {rows[current], meant[current], NoRow}
      /\ rows[current] = NoRow => rows'[current] = NoRow
  BY <1>1, <1>3, <1>4
<1>6. RequestInv'
  BY <1>1, <1>2, <1>3, <1>4, <1>5 DEF RequestInv, RecordEnd, CountLoopFailure
<1>7. QueueInv'
  BY <1>1, <1>2, <1>3, <1>4, <1>5 DEF QueueInv, RecordEnd, CountLoopFailure
<1>8. CurrentInv'
  BY <1>1, <1>2, <1>3, <1>4, <1>5 DEF CurrentInv, RecordEnd, CountLoopFailure
<1>9. OwedInv'
  BY <1>1, <1>2, <1>3, <1>4, <1>5 DEF RequestInv, QueueInv, CurrentInv,
     OwedInv, RejectedInv, RecoveryInv, RecordEnd, CountLoopFailure
<1>10. RejectedInv'
  BY <1>1, <1>2, <1>3, <1>4, <1>5 DEF RejectedInv, RecordEnd, CountLoopFailure
<1>11. RecoveryInv'
  BY <1>1, <1>2, <1>3, <1>4, <1>5 DEF RecoveryInv, RecordEnd, CountLoopFailure
<1> QED
  BY <1>6, <1>7, <1>8, <1>9, <1>10, <1>11

(* The guard replays what is owed, or records a failure of its own. *)
LEMMA GuardStep ==
    ASSUME TypeOK, TypeOK', WorkerInv, HandInv', GuardWrite
    PROVE  JobInv'
<1> USE RowKinds DEF disk, bounds, shared, run, counters, flush, recovery, history,
            WorkerInv, JobInv, WorkerStep, ReqStep, HoldsJob, HandInv, Untouched,
            NotBegun, NotOver, InQueue
<1> DEFINE end == IF owed[current] = NoRow THEN LoopFailureRow ELSE owed[current]
<1>1. rows \in [Jobs -> RowType] /\ rows' \in [Jobs -> RowType]
      /\ req \in [Jobs -> ReqSteps]
      /\ owed \in [Jobs -> EndType \cup {NoRow}]
      /\ meant \in [Jobs -> EndType \cup {NoRow}]
      /\ current \in Jobs \cup {NoJob} /\ NoJob \notin Jobs
      /\ announced \in ActiveStates
  BY WorkerAssumption DEF TypeOK
<1>2. current \in Jobs /\ end \in EndType
  BY <1>1, RowShapes DEF GuardWrite, GuardWriteOf
<1>3. GuardWriteOf(end)
  BY DEF GuardWrite
<1>4. rows' = rows \/ rows' = FinishJob(rows, born, current, end)
  BY <1>3 DEF GuardWriteOf
<1>5. end.why # "rejected"
  BY <1>1 DEF GuardWrite, GuardWriteOf, CurrentInv, RejectedInv
<1>6. owed[current] # NoRow => end = owed[current]
  OBVIOUS
<1> HIDE DEF end
<1>7. /\ \A k \in Jobs \ {current} :
            FinishJob(rows, born, current, end)[k] \in {rows[k], NoRow}
      /\ FinishJob(rows, born, current, end)[current] \in
            IF rows[current] = NoRow THEN {NoRow} ELSE {end, NoRow}
  BY <1>1, <1>2, FinishRows
<1>8. /\ \A k \in Jobs \ {current} : rows'[k] \in {rows[k], NoRow}
      /\ rows'[current] \in {rows[current], end, NoRow}
      /\ rows[current] = NoRow => rows'[current] = NoRow
  BY <1>1, <1>4, <1>7
<1>9. RequestInv'
  BY <1>1, <1>2, <1>3, <1>4, <1>5, <1>6, <1>7, <1>8 DEF RequestInv,
     GuardWriteOf
<1>10. QueueInv'
  BY <1>1, <1>2, <1>3, <1>4, <1>5, <1>6, <1>7, <1>8 DEF QueueInv, GuardWriteOf
<1>11. CurrentInv'
  BY <1>1, <1>2, <1>3, <1>4, <1>5, <1>6, <1>7, <1>8 DEF CurrentInv,
     GuardWriteOf
<1>12. OwedInv'
  BY <1>1, <1>2, <1>3, <1>4, <1>5, <1>6, <1>7, <1>8 DEF CurrentInv, OwedInv,
     GuardWriteOf
<1>13. RejectedInv'
  BY <1>1, <1>2, <1>3, <1>4, <1>5, <1>6, <1>7, <1>8 DEF RejectedInv,
     GuardWriteOf
<1>14. RecoveryInv'
  BY <1>1, <1>2, <1>3, <1>4, <1>5, <1>6, <1>7, <1>8 DEF RecoveryInv,
     GuardWriteOf
<1> QED
  BY <1>9, <1>10, <1>11, <1>12, <1>13, <1>14

(* A flush writes what is owed and drops the entry. *)
LEMMA FlushStep ==
    ASSUME NEW j \in Jobs, TypeOK, TypeOK', WorkerInv, HandInv', FlushWrite(j)
    PROVE  JobInv'
<1> USE RowKinds DEF disk, bounds, shared, run, counters, flush, recovery, history,
            WorkerInv, JobInv, WorkerStep, ReqStep, HoldsJob, HandInv, Untouched,
            NotBegun, NotOver, InQueue
<1>1. rows \in [Jobs -> RowType] /\ rows' \in [Jobs -> RowType]
      /\ req \in [Jobs -> ReqSteps]
      /\ owed \in [Jobs -> EndType \cup {NoRow}]
      /\ meant \in [Jobs -> EndType \cup {NoRow}]
      /\ current \in Jobs \cup {NoJob} /\ NoJob \notin Jobs
      /\ announced \in ActiveStates
  BY WorkerAssumption DEF TypeOK
<1>2. owed[j] \in EndType
  BY <1>1 DEF FlushWrite, FlushInv, OwedJobs
<1>3. rows' = FinishJob(rows, born, j, owed[j])
  BY DEF FlushWrite
<1>4. /\ \A k \in Jobs \ {j} :
            FinishJob(rows, born, j, owed[j])[k] \in {rows[k], NoRow}
      /\ FinishJob(rows, born, j, owed[j])[j] \in
            IF rows[j] = NoRow THEN {NoRow} ELSE {owed[j], NoRow}
  BY <1>1, <1>2, FinishRows
<1>5. /\ \A k \in Jobs \ {j} : rows'[k] \in {rows[k], NoRow}
      /\ rows'[j] \in {rows[j], owed[j], NoRow}
      /\ rows[j] = NoRow => rows'[j] = NoRow
  BY <1>1, <1>3, <1>4
<1>6. RequestInv'
  BY <1>1, <1>2, <1>3, <1>4, <1>5 DEF RequestInv, FlushWrite, FlushSteps
<1>7. QueueInv'
  BY <1>1, <1>2, <1>3, <1>4, <1>5 DEF QueueInv, FlushWrite, FlushSteps
<1>8. CurrentInv'
  BY <1>1, <1>2, <1>3, <1>4, <1>5 DEF CurrentInv, FlushWrite, FlushSteps
<1>9. OwedInv'
  BY <1>1, <1>2, <1>3, <1>4, <1>5 DEF OwedInv, FlushWrite, FlushSteps
<1>10. RejectedInv'
  BY <1>1, <1>2, <1>3, <1>4, <1>5 DEF QueueInv, OwedInv, RejectedInv,
     FlushWrite, FlushSteps
<1>11. RecoveryInv'
  BY <1>1, <1>2, <1>3, <1>4, <1>5 DEF RecoveryInv, FlushWrite, FlushSteps
<1> QED
  BY <1>6, <1>7, <1>8, <1>9, <1>10, <1>11

(* No job is anywhere at first. *)
LEMMA JobInit == Init => JobInv
BY RowKinds, WorkerAssumption DEF Init, JobInv, RequestInv, QueueInv,
   CurrentInv, OwedInv, RejectedInv, RecoveryInv, Untouched, NotBegun, NotOver,
   InQueue, HoldsJob

(* Every step of the program keeps the invariant. *)
LEMMA JobStep ==
    ASSUME TypeOK, TypeOK', WorkerInv, HandInv', FlushInv', [Next]_vars
    PROVE  JobInv'
BY QuietSteps, StartupRecoverKeptStep, StartupRecoverActiveStep,
   StartWorkerStep, ProcessEndsStep, RefusedSubmitStep, CreateStep, PutStep,
   RejectStep, OweStep, DequeueStep, TakeStep, GateStep, BreaksStep,
   AnnounceStep, EndsStep, RecordStep, GuardStep, FlushStep, RecoverKeptStep,
   RecoverActiveStep, IdlePruneStep
   DEF Next, Worker, Process, Request

(* The inductive invariant of the worker holds in every state: where each job
   is, and what its row can be meanwhile. *)
THEOREM WorkerInvariant == Spec => [](TypeOK /\ WorkerInv)
<1>1. Init => TypeOK /\ WorkerInv
  BY TypeInit, HandInit, JobInit DEF WorkerInv
<1>2. TypeOK /\ WorkerInv /\ [Next]_vars => (TypeOK /\ WorkerInv)'
  BY TypeStep, HandStep, JobStep DEF WorkerInv
<1> QED
  BY <1>1, <1>2, PTL DEF Spec

-----------------------------------------------------------------------------
(* A submit the worker refused is never scanned (_reject_created_job,
   owe_rejection, put_nowait). *)
THEOREM RejectedSafe == Spec => []RejectedNeverRan
<1>1. TypeOK /\ WorkerInv => RejectedNeverRan
  BY RowKinds DEF TypeOK, WorkerInv, JobInv, RejectedInv, QueueInv, OwedInv,
     RejectedNeverRan
<1> QED
  BY <1>1, WorkerInvariant, PTL

(* The pipeline is called only for a job whose row is pending or pruned, and
   never once the stop flag is set (_refuse_to_start_while_stopping). *)
THEOREM StartSafe == Spec => StartsOnlyPending
<1> DEFINE Starts == \A j \in ran' \ ran :
                        rows[j].state \in {"PENDING", "ABSENT"} /\ ~stopping
<1>1. PendingRow.state = "PENDING" /\ NoRow.state = "ABSENT"
  BY DEF PendingRow, NoRow, Row
<1>2. TypeOK /\ WorkerInv /\ [Next]_vars => Starts
  <2> SUFFICES ASSUME TypeOK, WorkerInv, [Next]_vars PROVE Starts
    OBVIOUS
  <2>1. CASE EnterGate
    BY <1>1, <2>1 DEF EnterGate, RefuseToStart, WorkerStep, WorkerInv, JobInv,
       CurrentInv, HoldsJob, NotBegun
  <2>2. CASE ~EnterGate
    <3>1. ran' = ran
      BY <2>2 DEF Next, Worker, Process, Request, vars, history, Boot,
         StartupRecoverKept, StartupRecoverActive, StartWorker, StopSignal,
         StopQueue, ProcessEnds, CheckHealth, RecordRefusedSubmit, CreateJob,
         CheckSubmit, PutJob, RejectCreatedJob, OweRejection, LoopTop, Dequeue,
         IdleTick, GetShutDown, TakeJob, JobBreaks, Announce, PipelineEnds,
         RecordEnd, GuardWrite, GuardWriteOf, FlushWrite, FlushFails,
         FlushDone, Housekeep, RecoverKept, RecoverActive, ClearDegraded,
         IdlePrune, FlushBeforeExit
    <3> QED
      BY <3>1
  <2> QED
    BY <2>1, <2>2
<1> QED
  BY <1>2, WorkerInvariant, PTL DEF Spec, StartsOnlyPending

-----------------------------------------------------------------------------
(* What a step may do to the row of job k: leave it, delete it, or write one
   that is not over, and then end it only as the worker meant to. *)
MayWrite(k) ==
    \/ rows'[k] \in {rows[k], NoRow}
    \/ NotOver(k) /\ (NotOver(k)' \/ meant[k] \in {NoRow, rows'[k]})

(* Every step of the program writes the row of a job in one of these ways. *)
LEMMA RowWrites ==
    ASSUME TypeOK, TypeOK', WorkerInv, [Next]_vars, NEW k \in Jobs
    PROVE  MayWrite(k)
<1> USE DEF MayWrite, NotOver, WorkerStep, ReqStep
<1>1. /\ rows \in [Jobs -> RowType] /\ rows' \in [Jobs -> RowType]
      /\ req \in [Jobs -> ReqSteps]
      /\ owed \in [Jobs -> EndType \cup {NoRow}]
      /\ meant \in [Jobs -> EndType \cup {NoRow}]
      /\ current \in Jobs \cup {NoJob} /\ NoJob \notin Jobs
      /\ announced \in ActiveStates
  BY WorkerAssumption DEF TypeOK
<1>2. ASSUME proc # "up" \/ recoveryPending,
             \/ rows' = rows
             \/ rows' = FailRecoveredJobs(rows, kept)
             \/ rows' = FailActiveJobs(rows)
      PROVE  MayWrite(k)
  <2>1. meant[k] = NoRow
    BY <1>2 DEF WorkerInv, JobInv, RecoveryInv
  <2> QED
    BY <1>2, <2>1, RecoveryWrites
<1>3. ASSUME NEW end \in EndType, NEW j \in Jobs, NotOver(j), meant[j] \in {NoRow, end},
             rows' = rows \/ rows' = FinishJob(rows, born, j, end)
      PROVE  MayWrite(k)
  <2>1. \A i \in Jobs \ {j} : FinishJob(rows, born, j, end)[i] \in {rows[i], NoRow}
    BY <1>1, FinishRows
  <2>2. FinishJob(rows, born, j, end)[j] \in
           IF rows[j] = NoRow THEN {NoRow} ELSE {end, NoRow}
    BY <1>1, FinishRows
  <2> QED
    BY <1>3, <2>1, <2>2
<1>4. CASE StartupRecoverKept \/ StartupRecoverActive
  BY <1>2, <1>4 DEF StartupRecoverKept, StartupRecoverActive,
     MarkRecoveryPending
<1>5. CASE RecoverKept \/ RecoverActive
  BY <1>2, <1>5 DEF RecoverKept, RecoverActive
<1>6. CASE StartWorker \/ IdlePrune
  <2>1. rows' = rows \/ \E cutoff : rows' = Prune(rows, born, cutoff)
    BY <1>6 DEF StartWorker, IdlePrune
  <2> QED
    BY <1>1, <2>1, PruneRows
<1>7. ASSUME NEW j \in Jobs, Request(j) PROVE MayWrite(k)
  <2> USE DEF WorkerInv, JobInv, RequestInv, Untouched, NotBegun
  <2>1. CASE RecordRefusedSubmit(j)
    <3>1. rows' = rows \/ rows' = TrimRejected(InsertRow(rows, j, RejectedRow), born')
      BY <2>1 DEF RecordRefusedSubmit
    <3>2. \A i \in Jobs \ {j} : rows'[i] \in {rows[i], NoRow}
      BY <1>1, <3>1, RefusedRows
    <3>3. rows[j] = NoRow /\ meant[j] = NoRow
      BY <2>1 DEF RecordRefusedSubmit
    <3> QED
      BY <3>2, <3>3
  <2>2. CASE CreateJob(j)
    <3>1. \A i \in Jobs \ {j} : rows'[i] = rows[i]
      BY <1>1, <2>2 DEF CreateJob, InsertRow
    <3>2. rows[j] = NoRow /\ meant[j] = NoRow
      BY <2>2 DEF CreateJob
    <3> QED
      BY <3>1, <3>2
  <2>3. CASE RejectCreatedJob(j)
    <3>1. rows' = rows \/ rows' = FinishJob(rows, born, j, RejectedRow)
      BY <2>3 DEF RejectCreatedJob
    <3>2. NotOver(j) /\ meant[j] = NoRow
      BY <2>3, RowKinds DEF RejectCreatedJob
    <3> QED
      BY <1>3, <3>1, <3>2, RowShapes
  <2>4. CASE CheckHealth(j) \/ CheckSubmit(j) \/ PutJob(j) \/ OweRejection(j)
    BY <2>4 DEF CheckHealth, CheckSubmit, PutJob, OweRejection, disk
  <2> QED
    BY <1>7, <2>1, <2>2, <2>3, <2>4 DEF Request
<1>8. CASE Announce
  <2>1. current \in Jobs /\ NotOver(current)
    BY <1>1, <1>8 DEF Announce, WorkerInv, HandInv, HoldsJob, JobInv,
       CurrentInv
  <2>2. \A state \in NextStates(announced) : state \in ActiveStates
    BY <1>1 DEF NextStates, ActiveStates
  <2>3. rows' = rows \/ \E state \in ActiveStates :
                           rows' = UpdateState(rows, current, state)
    BY <1>8, <2>2 DEF Announce
  <2> QED
    BY <1>1, <2>1, <2>3, AnnouncedRows
<1>9. CASE RecordEnd
  <2>1. current \in Jobs /\ NotOver(current) /\ meant[current] \in EndType
    BY <1>1, <1>9 DEF RecordEnd, WorkerInv, HandInv, HoldsJob, JobInv,
       CurrentInv
  <2>2. rows' = rows \/ rows' = FinishJob(rows, born, current, meant[current])
    BY <1>9 DEF RecordEnd
  <2> QED
    BY <1>3, <2>1, <2>2
<1>10. CASE GuardWrite
  <2> DEFINE end == IF owed[current] = NoRow THEN LoopFailureRow ELSE owed[current]
  <2>1. /\ current \in Jobs /\ NotOver(current) /\ end \in EndType
        /\ meant[current] \in {NoRow, end}
    BY <1>1, <1>10, RowShapes DEF GuardWrite, GuardWriteOf, WorkerInv, HandInv,
       HoldsJob, JobInv, CurrentInv
  <2>2. rows' = rows \/ rows' = FinishJob(rows, born, current, end)
    BY <1>10 DEF GuardWrite, GuardWriteOf
  <2> QED
    BY <1>3, <2>1, <2>2
<1>11. ASSUME NEW j \in Jobs, FlushWrite(j) PROVE MayWrite(k)
  <2>1. owed[j] \in EndType /\ NotOver(j) /\ meant[j] \in {NoRow, owed[j]}
    BY <1>1, <1>11 DEF FlushWrite, WorkerInv, FlushInv, OwedJobs, JobInv,
       OwedInv
  <2>2. rows' = FinishJob(rows, born, j, owed[j])
    BY <1>11 DEF FlushWrite
  <2> QED
    BY <1>3, <2>1, <2>2
<1>12. CASE \/ UNCHANGED vars
            \/ Boot \/ StopSignal \/ StopQueue \/ ProcessEnds
            \/ LoopTop \/ Dequeue \/ IdleTick \/ GetShutDown \/ TakeJob \/ EnterGate
            \/ JobBreaks \/ PipelineEnds \/ FlushFails \/ FlushDone \/ Housekeep
            \/ ClearDegraded \/ FlushBeforeExit
  <2>1. rows' = rows
    BY <1>12 DEF vars, disk, Boot, StopSignal, StopQueue, ProcessEnds, LoopTop,
       Dequeue, IdleTick, GetShutDown, TakeJob, EnterGate, JobBreaks,
       PipelineEnds, FlushFails, FlushDone, Housekeep, ClearDegraded,
       FlushBeforeExit
  <2> QED
    BY <2>1
<1> QED
  BY <1>4, <1>5, <1>6, <1>7, <1>8, <1>9, <1>10, <1>11, <1>12 DEF Next, Worker,
     Process

(* A finished row is final: only retention may delete it (finish_job,
   fail_active_jobs, fail_recovered_jobs, prune). *)
THEOREM FinalSafe == Spec => FinishedRowsFinal
<1>1. ASSUME TypeOK, TypeOK', WorkerInv, [Next]_vars
      PROVE  \A j \in Jobs : IsOver(rows[j]) => rows'[j] \in {rows[j], NoRow}
  BY <1>1, RowWrites, RowKinds DEF MayWrite, NotOver, TypeOK
<1>2. TypeOK /\ WorkerInv /\ (TypeOK /\ WorkerInv)' /\ [Next]_vars
      => [\A j \in Jobs : IsOver(rows[j]) => rows'[j] \in {rows[j], NoRow}]_vars
  BY <1>1
<1> QED
  BY <1>2, WorkerInvariant, PTL DEF Spec, FinishedRowsFinal

(* What the worker means to record, once it means something, is all the row may
   say of the end (_finish_or_owe, _best_effort_fail and the flushes). *)
THEOREM RecordedSafe == Spec => []RecordedAsMeant
<1>1. Init => RecordedAsMeant
  BY DEF Init, RecordedAsMeant
<1>2. ASSUME TypeOK, TypeOK', WorkerInv, RecordedAsMeant, [Next]_vars
      PROVE  RecordedAsMeant'
  <2> SUFFICES ASSUME NEW j \in Jobs, meant'[j] # NoRow
               PROVE  NotOver(j)' \/ rows'[j] = meant'[j]
    BY DEF RecordedAsMeant, NotOver
  <2>1. MayWrite(j)
    BY <1>2, RowWrites
  <2>2. CASE meant'[j] = meant[j]
    BY <1>2, <2>1, <2>2 DEF MayWrite, NotOver, RecordedAsMeant
  <2>3. CASE meant'[j] # meant[j]
    <3>1. (EnterGate \/ PipelineEnds) /\ current = j
      <4>1. meant \in [Jobs -> EndType \cup {NoRow}]
        BY <1>2 DEF TypeOK
      <4> QED
      BY <1>2, <2>3, <4>1 DEF Next, Worker, Process, Request, vars, run, Boot,
         StartupRecoverKept, StartupRecoverActive, StartWorker, StopSignal,
         StopQueue, ProcessEnds, CheckHealth, RecordRefusedSubmit, CreateJob,
         CheckSubmit, PutJob, RejectCreatedJob, OweRejection, LoopTop, Dequeue,
         IdleTick, GetShutDown, TakeJob, JobBreaks, Announce, PipelineEnds,
         RecordEnd, GuardWrite, GuardWriteOf, FlushWrite, FlushFails,
         FlushDone, Housekeep, RecoverKept, RecoverActive, ClearDegraded,
         IdlePrune, FlushBeforeExit, EnterGate
    <3>2. rows'[j] = rows[j] /\ (NotBegun(j) \/ NotOver(j))
      BY <1>2, <3>1 DEF EnterGate, PipelineEnds, disk, WorkerStep, WorkerInv,
         JobInv, CurrentInv, HoldsJob
    <3> QED
      BY <3>2, RowKinds DEF NotBegun, NotOver
  <2> QED
    BY <2>2, <2>3
<1> QED
  BY <1>1, <1>2, WorkerInvariant, PTL DEF Spec

\* Rows only move on, whatever the store, the stop and a restart do.
THEOREM RowsMoveOn == Spec => RowsOnlyMoveOn
  BY FinalSafe, StartSafe DEF RowsOnlyMoveOn

-----------------------------------------------------------------------------
(* What no failed write and no kill takes from a row: the invariant behind    *)
(* RowsSurvive and RecoveryKeepsItsWord, above WorkerInv.                     *)

\* A startup that recovered leaves no active row to the process it starts.
StartsSettled == proc = "prune" /\ ~recoveryPending => \A j \in Jobs : ~IsActive(rows[j])

\* A job whose row said UPLOADING has run, and whatever may end its row knows.
Landed(j) ==
    /\ j \in ran /\ rows[j].why # "restarted"
    /\ IsActive(rows[j]) => rows[j].state = "UPLOADING"
    /\ meant[j].why # "restarted" /\ owed[j].why # "restarted"
    /\ current = j /\ wpc = "scan" => announced = "UPLOADING"
LandedIsKnown ==
    /\ wpc = "scan" => current \in ran
    /\ \A j \in landed : Landed(j)

\* Kept sentences wait for a recovery, and are written before it ends the rest.
KeptWaits ==
    /\ proc = "recoverActive" => \A j \in kept : ~IsActive(rows[j])
    /\ proc \in {"prune", "up"} /\ kept # {} => recoveryPending
    /\ wpc = "recoverActive" => kept = {}

\* Past its flush a recovery owes nothing but refusals that came meanwhile.
FlushSettles ==
    \A j \in Jobs :
        /\ wpc = "flushRecover" => owed[j] = NoRow \/ owed[j].why = "rejected" \/ j \in pending
        /\ wpc \in {"recoverKept", "recoverActive", "clear"} =>
              owed[j] = NoRow \/ owed[j].why = "rejected"

RowsRest == StartsSettled /\ NoOrphanedRow /\ LandedIsKnown /\ KeptWaits /\ FlushSettles

(* A recovery write says of a row whether its upload had begun. *)
LEMMA RestartedRows ==
    ASSUME NEW table \in [Jobs -> RowType], NEW found, NEW k \in Jobs
    PROVE  /\ FailActiveJobs(table)[k] = IF IsActive(table[k])
                                         THEN RestartRow(table[k].state, FALSE)
                                         ELSE table[k]
           /\ FailRecoveredJobs(table, found)[k] = IF k \in found /\ IsActive(table[k])
                                                   THEN RestartRow(table[k].state, TRUE)
                                                   ELSE table[k]
<1>1. FailUploading(table)[k] = IF table[k].state = "UPLOADING"
                                THEN RestartRow("UPLOADING", FALSE) ELSE table[k]
  BY DEF FailUploading
<1>2. FailActiveJobs(table)[k] = IF IsActive(FailUploading(table)[k])
                                 THEN Row("ERROR", "restarted", FALSE)
                                 ELSE FailUploading(table)[k]
  BY DEF FailActiveJobs, FailRemaining
<1>3. ~IsActive(RestartRow("UPLOADING", FALSE))
  BY DEF RestartRow, Row, IsActive, ActiveStates
<1>4. IsActive(table[k]) /\ table[k].state # "UPLOADING" =>
         RestartRow(table[k].state, FALSE) = Row("ERROR", "restarted", FALSE)
  BY DEF RestartRow, RestartCategory
<1>5. table[k].state = "UPLOADING" => IsActive(table[k])
  BY DEF IsActive, ActiveStates
<1> QED
  BY <1>1, <1>2, <1>3, <1>4, <1>5 DEF FailRecoveredJobs

(* How a step may change the row of job k: who wrote it, and what. *)
RowGoes(k) ==
    \/ rows'[k] \in {rows[k], NoRow}
    \/ CreateJob(k) /\ rows[k] = NoRow
    \/ (RecordRefusedSubmit(k) \/ RejectCreatedJob(k)) /\ rows'[k] = RejectedRow
    \/ Announce /\ current = k /\ rows'[k] = Row(announced', "none", FALSE)
    \/ RecordEnd /\ current = k /\ rows'[k] = meant[k] /\ meant[k] \in EndType
    \/ GuardWrite /\ current = k /\ rows'[k] \in {LoopFailureRow, owed[k]} \cap EndType
    \/ FlushWrite(k) /\ rows'[k] = owed[k] /\ owed[k] \in EndType
    \/ /\ StartupRecoverKept \/ RecoverKept
       /\ k \in kept /\ IsActive(rows[k]) /\ rows'[k] = RestartRow(rows[k].state, TRUE)
    \/ /\ StartupRecoverActive \/ (RecoverActive /\ recoveryPending)
       /\ IsActive(rows[k]) /\ rows'[k] = RestartRow(rows[k].state, FALSE)

(* Every change of a row is one of the writes that RowGoes lists. *)
LEMMA RowSources ==
    ASSUME TypeOK, WorkerInv, [Next]_vars, NEW k \in Jobs
    PROVE  RowGoes(k)
<1> USE DEF RowGoes, WorkerStep, ReqStep
<1>1. /\ rows \in [Jobs -> RowType]
      /\ owed \in [Jobs -> EndType \cup {NoRow}]
      /\ meant \in [Jobs -> EndType \cup {NoRow}]
      /\ current \in Jobs \cup {NoJob} /\ NoJob \notin Jobs
      /\ announced \in ActiveStates
  BY WorkerAssumption DEF TypeOK
<1>2. ASSUME NEW end \in EndType, NEW j \in Jobs, rows' = FinishJob(rows, born, j, end)
      PROVE  \/ rows'[k] \in {rows[k], NoRow}
             \/ k = j /\ rows'[k] = end
  <2>1. \A i \in Jobs \ {j} : FinishJob(rows, born, j, end)[i] \in {rows[i], NoRow}
    BY <1>1, FinishRows
  <2>2. FinishJob(rows, born, j, end)[j] \in
           IF rows[j] = NoRow THEN {NoRow} ELSE {end, NoRow}
    BY <1>1, FinishRows
  <2> QED
    BY <1>2, <2>1, <2>2
<1>3. CASE StartupRecoverKept \/ RecoverKept
  <2>1. rows' = rows \/ rows' = FailRecoveredJobs(rows, kept)
    BY <1>3 DEF StartupRecoverKept, RecoverKept, MarkRecoveryPending
  <2>2. FailRecoveredJobs(rows, kept)[k] = IF k \in kept /\ IsActive(rows[k])
                                           THEN RestartRow(rows[k].state, TRUE)
                                           ELSE rows[k]
    BY <1>1, RestartedRows
  <2> QED
    BY <1>3, <2>1, <2>2
<1>4. CASE StartupRecoverActive \/ RecoverActive
  <2>1. CASE rows' = rows
    BY <2>1
  <2>2. CASE rows' # rows
    <3>1. rows' = FailActiveJobs(rows) /\ (StartupRecoverActive \/ recoveryPending)
      BY <1>4, <2>2 DEF StartupRecoverActive, RecoverActive, MarkRecoveryPending
    <3>2. FailActiveJobs(rows)[k] = IF IsActive(rows[k])
                                    THEN RestartRow(rows[k].state, FALSE) ELSE rows[k]
      BY <1>1, RestartedRows
    <3> QED
      BY <1>4, <3>1, <3>2
  <2> QED
    BY <2>1, <2>2
<1>5. CASE StartWorker \/ IdlePrune
  <2>1. rows' = rows \/ \E cutoff : rows' = Prune(rows, born, cutoff)
    BY <1>5 DEF StartWorker, IdlePrune
  <2> QED
    BY <1>1, <2>1, PruneRows
<1>6. ASSUME NEW j \in Jobs, Request(j) PROVE RowGoes(k)
  <2>1. CASE RecordRefusedSubmit(j)
    <3>1. rows' = rows \/ rows' = TrimRejected(InsertRow(rows, j, RejectedRow), born')
      BY <2>1 DEF RecordRefusedSubmit
    <3>2. \/ rows'[k] \in {rows[k], NoRow}
          \/ k = j /\ rows'[k] = RejectedRow
      BY <1>1, <3>1, RefusedRows
    <3> QED
      BY <2>1, <3>2
  <2>2. CASE CreateJob(j)
    <3>1. \A i \in Jobs \ {j} : rows'[i] = rows[i]
      BY <1>1, <2>2 DEF CreateJob, InsertRow
    <3>2. rows[j] = NoRow
      BY <2>2 DEF CreateJob, WorkerInv, JobInv, RequestInv
    <3> QED
      BY <2>2, <3>1, <3>2
  <2>3. CASE RejectCreatedJob(j)
    <3>1. rows' = rows \/ rows' = FinishJob(rows, born, j, RejectedRow)
      BY <2>3 DEF RejectCreatedJob
    <3> QED
      BY <1>2, <2>3, <3>1, RowShapes
  <2>4. CASE CheckHealth(j) \/ CheckSubmit(j) \/ PutJob(j) \/ OweRejection(j)
    BY <2>4 DEF CheckHealth, CheckSubmit, PutJob, OweRejection, disk
  <2> QED
    BY <1>6, <2>1, <2>2, <2>3, <2>4 DEF Request
<1>7. CASE Announce
  <2>1. current \in Jobs
    BY <1>1, <1>7 DEF Announce, WorkerInv, HandInv, HoldsJob
  <2>2. \A state \in NextStates(announced) : state \in ActiveStates
    BY <1>1 DEF NextStates, ActiveStates
  <2>3. PICK state \in NextStates(announced) :
           announced' = state /\ (rows' = rows \/ rows' = UpdateState(rows, current, state))
    BY <1>7 DEF Announce
  <2>4. \A i \in Jobs \ {current} : UpdateState(rows, current, state)[i] = rows[i]
    BY <1>1, <2>1, <2>2, UpdateRows
  <2>5. UpdateState(rows, current, state)[current] =
           IF rows[current] = NoRow THEN NoRow ELSE Row(state, "none", FALSE)
    BY <1>1, <2>1, <2>2, UpdateRows
  <2> QED
    BY <1>7, <2>1, <2>3, <2>4, <2>5
<1>8. CASE RecordEnd
  <2>1. current \in Jobs /\ meant[current] \in EndType
    BY <1>1, <1>8 DEF RecordEnd, WorkerInv, HandInv, HoldsJob
  <2>2. rows' = rows \/ rows' = FinishJob(rows, born, current, meant[current])
    BY <1>8 DEF RecordEnd
  <2> QED
    BY <1>2, <1>8, <2>1, <2>2
<1>9. CASE GuardWrite
  <2> DEFINE end == IF owed[current] = NoRow THEN LoopFailureRow ELSE owed[current]
  <2>1. current \in Jobs /\ end \in EndType
    BY <1>1, <1>9, RowShapes DEF GuardWrite, GuardWriteOf, WorkerInv, HandInv, HoldsJob
  <2>2. rows' = rows \/ rows' = FinishJob(rows, born, current, end)
    BY <1>9 DEF GuardWrite, GuardWriteOf
  <2>3. end \in {LoopFailureRow, owed[current]} \cap EndType
    BY <2>1
  <2> HIDE DEF end
  <2> QED
    BY <1>2, <1>9, <2>1, <2>2, <2>3
<1>10. ASSUME NEW j \in Jobs, FlushWrite(j) PROVE RowGoes(k)
  <2>1. owed[j] \in EndType
    BY <1>1, <1>10 DEF FlushWrite, WorkerInv, FlushInv, OwedJobs
  <2>2. rows' = FinishJob(rows, born, j, owed[j])
    BY <1>10 DEF FlushWrite
  <2> QED
    BY <1>2, <1>10, <2>1, <2>2
<1>11. CASE \/ UNCHANGED vars
            \/ Boot \/ StopSignal \/ StopQueue \/ ProcessEnds
            \/ LoopTop \/ Dequeue \/ IdleTick \/ GetShutDown \/ TakeJob \/ EnterGate
            \/ JobBreaks \/ PipelineEnds \/ FlushFails \/ FlushDone \/ Housekeep
            \/ ClearDegraded \/ FlushBeforeExit
  <2>1. rows' = rows
    BY <1>11 DEF vars, disk, Boot, StopSignal, StopQueue, ProcessEnds, LoopTop,
       Dequeue, IdleTick, GetShutDown, TakeJob, EnterGate, JobBreaks,
       PipelineEnds, FlushFails, FlushDone, Housekeep, ClearDegraded,
       FlushBeforeExit
  <2> QED
    BY <2>1
<1> QED
  BY <1>3, <1>4, <1>5, <1>6, <1>7, <1>8, <1>9, <1>10, <1>11 DEF Next, Worker, Process

(* The worker thread and the request threads run in a process that is up. *)
LEMMA ServesWhileUp ==
    ASSUME TypeOK, WorkerInv, Worker \/ \E j \in Jobs : Request(j)
    PROVE  proc = "up" /\ proc' = "up"
<1>1. ASSUME NEW j \in Jobs, Request(j) PROVE proc = "up" /\ proc' = "up"
  BY <1>1 DEF Request, CheckHealth, RecordRefusedSubmit, CreateJob, CheckSubmit, PutJob,
     RejectCreatedJob, OweRejection, ReqStep
<1>2. CASE Worker
  <2>1. wpc # "off"
    BY <1>2 DEF Worker, LoopTop, Dequeue, IdleTick, GetShutDown, TakeJob, EnterGate,
       JobBreaks, Announce, PipelineEnds, RecordEnd, GuardWrite, GuardWriteOf, FlushWrite,
       FlushFails, FlushDone, Housekeep, RecoverKept, RecoverActive, ClearDegraded,
       IdlePrune, FlushBeforeExit, WorkerStep, FlushSteps
  <2>2. proc' = proc
    BY <1>2 DEF Worker, LoopTop, Dequeue, IdleTick, GetShutDown, TakeJob, EnterGate,
       JobBreaks, Announce, PipelineEnds, RecordEnd, GuardWrite, GuardWriteOf, FlushWrite,
       FlushFails, FlushDone, Housekeep, RecoverKept, RecoverActive, ClearDegraded,
       IdlePrune, FlushBeforeExit
  <2> QED
    BY <2>1, <2>2 DEF WorkerInv, HandInv
<1> QED
  BY <1>1, <1>2

(* A startup hands the worker a table without active rows, or the recovery. *)
LEMMA StartsSettledStep ==
    ASSUME TypeOK, TypeOK', WorkerInv, StartsSettled, [Next]_vars
    PROVE  StartsSettled'
<1> USE DEF StartsSettled
<1>1. CASE Worker \/ \E j \in Jobs : Request(j)
  BY <1>1, ServesWhileUp
<1>2. CASE UNCHANGED vars
  BY <1>2 DEF vars, disk, recovery
<1>3. CASE StartupRecoverActive
  <2>1. rows \in [Jobs -> RowType] /\ rows' \in [Jobs -> RowType]
    BY DEF TypeOK
  <2>2. CASE recoveryPending'
    BY <2>2
  <2>3. CASE rows' = FailActiveJobs(rows)
    <3>1. ASSUME NEW j \in Jobs PROVE ~IsActive(rows'[j])
      <4>1. IF IsActive(rows[j]) THEN rows'[j] \in EndType ELSE rows'[j] = rows[j]
        BY <2>1, <2>3, RecoveryRows
      <4> QED
        BY <2>1, <4>1, RowKinds, RowShapes
    <3> QED
      BY <3>1
  <2> QED
    BY <1>3, <2>2, <2>3 DEF StartupRecoverActive, MarkRecoveryPending
<1>4. CASE Boot \/ StartupRecoverKept \/ StartWorker \/ StopSignal \/ StopQueue \/ ProcessEnds
  BY <1>4 DEF Boot, StartupRecoverKept, MarkRecoveryPending, StartWorker, StopSignal,
     StopQueue, ProcessEnds, disk, recovery
<1> QED
  BY <1>1, <1>2, <1>3, <1>4 DEF Next, Process

Owned(k) ==
    \/ req[k] \in {"created", "putting", "refused", "owing"}
    \/ InQueue(k)
    \/ current = k
    \/ owed[k] # NoRow

(* What a get takes from the queue is in the worker's hand, and nothing else is
   taken from it. *)
LEMMA OwnedWhileQueued ==
    ASSUME TypeOK, Dequeue, NEW k \in Jobs, InQueue(k)
    PROVE  InQueue(k)' \/ current' = k
<1>1. queue \in Seq(Jobs) /\ queue # <<>> /\ queue' = Tail(queue) /\ current' = Head(queue)
  BY DEF TypeOK, Dequeue
<1>2. /\ Len(queue) \in Nat /\ Len(Tail(queue)) = Len(queue) - 1
      /\ Head(queue) = queue[1]
      /\ \A i \in 1..Len(Tail(queue)) : Tail(queue)[i] = queue[i + 1]
  BY <1>1, HeadTailProperties, EmptySeq, LenProperties
<1>3. PICK i \in 1..Len(queue) : queue[i] = k
  BY DEF InQueue
<1>4. CASE i = 1
  BY <1>1, <1>2, <1>3, <1>4
<1>5. CASE i # 1
  <2>1. i - 1 \in 1..Len(Tail(queue)) /\ (i - 1) + 1 = i
    BY <1>2, <1>3, <1>5
  <2>2. Tail(queue)[i - 1] = k
    BY <1>2, <1>3, <2>1
  <2> QED
    BY <1>1, <2>1, <2>2 DEF InQueue
<1> QED
  BY <1>4, <1>5

(* A put leaves the jobs that wait where they are, and its own behind them. *)
LEMMA OwnedWhilePut ==
    ASSUME TypeOK, NEW j \in Jobs, queue' = Append(queue, j), NEW k \in Jobs,
           InQueue(k) \/ k = j
    PROVE  InQueue(k)'
<1>1. /\ queue \in Seq(Jobs) /\ Len(queue) \in Nat /\ Len(queue') = Len(queue) + 1
      /\ \A i \in 1..Len(queue) : queue'[i] = queue[i]
      /\ queue'[Len(queue) + 1] = j
  BY AppendProperties, LenProperties DEF TypeOK
<1>2. CASE k = j
  BY <1>1, <1>2 DEF InQueue
<1>3. CASE InQueue(k)
  BY <1>1, <1>3 DEF InQueue
<1> QED
  BY <1>2, <1>3

(* A finishing write leaves its row over, or deleted. *)
LEMMA FinishedRows ==
    ASSUME NEW table \in [Jobs -> RowType], NEW birth, NEW job \in Jobs, NEW end \in EndType
    PROVE  ~IsActive(FinishJob(table, birth, job, end)[job])
<1>1. FinishJob(table, birth, job, end)[job] \in
         IF table[job] = NoRow THEN {NoRow} ELSE {end, NoRow}
  BY FinishRows
<1>2. ~IsActive(end) /\ ~IsActive(NoRow)
  BY RowKinds, RowShapes
<1> QED
  BY <1>1, <1>2

(* An owned job whose row stays active stays owned: what lets go of it ends its
   row, or hands it on. *)
LEMMA OwnedStaysOwned ==
    ASSUME TypeOK, TypeOK', WorkerInv, [Next]_vars, proc' = "up", ~stopping,
           NEW k \in Jobs, Owned(k), IsActive(rows'[k]), rows'[k] = rows[k]
    PROVE  Owned(k)'
<1> USE DEF Owned, InQueue
<1>1. /\ req \in [Jobs -> ReqSteps]
      /\ owed \in [Jobs -> EndType \cup {NoRow}]
      /\ meant \in [Jobs -> EndType \cup {NoRow}]
      /\ current \in Jobs \cup {NoJob} /\ NoJob \notin Jobs
      /\ rows \in [Jobs -> RowType] /\ rows' \in [Jobs -> RowType]
      /\ IsActive(rows[k]) /\ rows[k] # NoRow
  BY WorkerAssumption, RowKinds DEF TypeOK
<1>2. CASE UNCHANGED <<req, queue, current, owed>>
  BY <1>2
<1>3. ASSUME NEW j \in Jobs, Request(j) PROVE Owned(k)'
  <2>1. CASE CheckHealth(j) \/ RecordRefusedSubmit(j) \/ CreateJob(j)
    BY <1>1, <2>1 DEF CheckHealth, RecordRefusedSubmit, CreateJob, ReqStep, shared, run
  <2>2. CASE CheckSubmit(j)
    BY <1>1, <2>2 DEF CheckSubmit, ReqStep, shared, run
  <2>3. CASE PutJob(j)
    <3>1. CASE queue' = queue
      BY <1>1, <2>3, <3>1, AppendProperties DEF PutJob, ReqStep, run, TypeOK
    <3>2. CASE queue' = Append(queue, j)
      <4>1. InQueue(k) \/ k = j => InQueue(k)'
        BY <3>2, OwnedWhilePut
      <4> QED
        BY <1>1, <2>3, <4>1 DEF PutJob, ReqStep, run
    <3> QED
      BY <2>3, <3>1, <3>2 DEF PutJob
  <2>4. CASE RejectCreatedJob(j)
    <3>1. CASE k # j
      BY <1>1, <2>4, <3>1 DEF RejectCreatedJob, ReqStep, shared, run
    <3>2. CASE k = j
      <4>1. ~IsActive(FinishJob(rows, born, j, RejectedRow)[j])
        BY <1>1, FinishedRows, RowShapes
      <4> QED
        BY <1>1, <2>4, <3>2, <4>1 DEF RejectCreatedJob, AfterFailedRejection, ReqStep
    <3> QED
      BY <3>1, <3>2
  <2>5. CASE OweRejection(j)
    BY <1>1, <2>5, RowKinds DEF OweRejection, ReqStep, run
  <2> QED
    BY <1>3, <2>1, <2>2, <2>3, <2>4, <2>5 DEF Request
<1>4. CASE Dequeue
  <2>1. InQueue(k) => InQueue(k)' \/ current' = k
    BY <1>4, OwnedWhileQueued
  <2>2. current = NoJob
    BY <1>1, <1>4 DEF Dequeue, WorkerStep, WorkerInv, HandInv, HoldsJob
  <2> QED
    BY <1>1, <1>4, <2>1, <2>2 DEF Dequeue
<1>5. CASE TakeJob
  BY <1>5 DEF TakeJob, shared
<1>6. CASE RecordEnd
  <2>1. current \in Jobs /\ meant[current] \in EndType
    BY <1>1, <1>6 DEF RecordEnd, WorkerStep, WorkerInv, HandInv, HoldsJob
  <2>2. CASE k # current
    BY <1>1, <1>6, <2>1, <2>2 DEF RecordEnd
  <2>3. CASE k = current /\ owed' = owed
    <3>1. rows' = FinishJob(rows, born, current, meant[current]) \/ current' = current
      BY <1>6 DEF RecordEnd
    <3>2. ~IsActive(FinishJob(rows, born, current, meant[current])[current])
      BY <1>1, <2>1, FinishedRows
    <3> QED
      BY <2>3, <3>1, <3>2
  <2>4. CASE k = current /\ owed' # owed
    BY <1>1, <1>6, <2>1, <2>4 DEF RecordEnd
  <2> QED
    BY <2>2, <2>3, <2>4
<1>7. CASE GuardWrite
  <2> DEFINE end == IF owed[current] = NoRow THEN LoopFailureRow ELSE owed[current]
  <2>1. current \in Jobs /\ end \in EndType
    BY <1>1, <1>7, RowShapes DEF GuardWrite, GuardWriteOf, WorkerStep, WorkerInv, HandInv, HoldsJob
  <2>2. \/ rows' = FinishJob(rows, born, current, end) /\ owed' = [owed EXCEPT ![current] = NoRow]
        \/ owed' = [owed EXCEPT ![current] = end]
    BY <1>7 DEF GuardWrite, GuardWriteOf
  <2>3. UNCHANGED <<req, queue>>
    BY <1>7 DEF GuardWrite, GuardWriteOf
  <2> HIDE DEF end
  <2>4. ~IsActive(FinishJob(rows, born, current, end)[current])
    BY <1>1, <2>1, FinishedRows
  <2> QED
    BY <1>1, <2>1, <2>2, <2>3, <2>4, RowShapes
<1>8. ASSUME NEW j \in Jobs, FlushWrite(j) PROVE Owned(k)'
  <2>1. owed[j] \in EndType
    BY <1>1, <1>8 DEF FlushWrite, WorkerInv, FlushInv, OwedJobs
  <2>2. rows' = FinishJob(rows, born, j, owed[j]) /\ owed' = [owed EXCEPT ![j] = NoRow]
        /\ UNCHANGED <<req, queue, current>>
    BY <1>8 DEF FlushWrite, run
  <2>3. ~IsActive(FinishJob(rows, born, j, owed[j])[j])
    BY <1>1, <2>1, FinishedRows
  <2> QED
    BY <1>1, <2>2, <2>3
<1>9. CASE ProcessEnds \/ StopQueue
  BY <1>9 DEF ProcessEnds, StopQueue
<1> QED
  BY <1>2, <1>3, <1>4, <1>5, <1>6, <1>7, <1>8, <1>9
  DEF Next, Worker, Process, vars, shared, run, Boot, StartupRecoverKept,
      StartupRecoverActive, StartWorker, StopSignal, LoopTop, IdleTick, GetShutDown,
      EnterGate, JobBreaks, Announce, PipelineEnds, FlushFails, FlushDone, Housekeep,
      RecoverKept, RecoverActive, ClearDegraded, IdlePrune, FlushBeforeExit

(* No row is orphaned: a new one has its request, an active one keeps its owner,
   and a startup or a recovery that ends leaves no other. *)
LEMMA NoOrphanStep ==
    ASSUME TypeOK, TypeOK', WorkerInv, StartsSettled, NoOrphanedRow, [Next]_vars
    PROVE  NoOrphanedRow'
<1> SUFFICES ASSUME proc' = "up", ~stopping', ~recoveryPending',
                    NEW k \in Jobs, IsActive(rows'[k])
             PROVE  Owned(k)'
  BY DEF NoOrphanedRow, Owned, InQueue
<1>1. /\ rows \in [Jobs -> RowType] /\ rows' \in [Jobs -> RowType]
      /\ req \in [Jobs -> ReqSteps] /\ current \in Jobs \cup {NoJob} /\ NoJob \notin Jobs
  BY WorkerAssumption DEF TypeOK
<1>2. ~IsActive(NoRow) /\ ~IsActive(RejectedRow) /\ \A end \in EndType : ~IsActive(end)
  BY RowKinds, RowShapes
<1>3. CASE CreateJob(k)
  BY <1>1, <1>2, <1>3 DEF CreateJob, ReqStep, Owned, WorkerInv, JobInv, RequestInv
<1>4. CASE Announce /\ current = k
  BY <1>4 DEF Announce, Owned
<1>5. CASE rows'[k] = rows[k]
  <2>1. ~stopping
    BY DEF Next, Worker, Process, Request, vars, shared, Boot, StartupRecoverKept,
       StartupRecoverActive, StartWorker, StopSignal, StopQueue, ProcessEnds, CheckHealth,
       RecordRefusedSubmit, CreateJob, CheckSubmit, PutJob, RejectCreatedJob,
       OweRejection, LoopTop, Dequeue, IdleTick, GetShutDown, TakeJob, EnterGate,
       JobBreaks, Announce, PipelineEnds, RecordEnd, GuardWrite, GuardWriteOf, FlushWrite,
       FlushFails, FlushDone, Housekeep, RecoverKept, RecoverActive, ClearDegraded,
       IdlePrune, FlushBeforeExit
  <2>2. ~recoveryPending
    <3>1. CASE RecoverActive /\ rows' = FailActiveJobs(rows)
      <4>1. FailActiveJobs(rows)[k] = IF IsActive(rows[k])
                                      THEN RestartRow(rows[k].state, FALSE) ELSE rows[k]
        BY <1>1, RestartedRows
      <4>2. IsActive(rows[k]) => RestartRow(rows[k].state, FALSE) \in EndType
        BY RowShapes DEF IsActive
      <4> QED
        BY <1>2, <1>5, <3>1, <4>1, <4>2
    <3>2. CASE RecoverActive /\ recoveryPending' = recoveryPending
      BY <3>2
    <3>3. CASE ~RecoverActive
      BY <3>3 DEF Next, Worker, Process, Request, vars, recovery, Boot, StartupRecoverKept,
         StartupRecoverActive, MarkRecoveryPending, StartWorker, StopSignal, StopQueue,
         ProcessEnds, CheckHealth, RecordRefusedSubmit, CreateJob, CheckSubmit, PutJob,
         RejectCreatedJob, OweRejection, LoopTop, Dequeue, IdleTick, GetShutDown, TakeJob,
         EnterGate, JobBreaks, Announce, PipelineEnds, RecordEnd, GuardWrite,
         GuardWriteOf, FlushWrite, FlushFails, FlushDone, Housekeep, RecoverKept,
         ClearDegraded, IdlePrune, FlushBeforeExit
    <3> QED
      BY <3>1, <3>2, <3>3 DEF RecoverActive
  <2>3. proc = "up"
    <3>1. CASE Worker \/ \E j \in Jobs : Request(j)
      BY <3>1, ServesWhileUp
    <3>2. CASE StartWorker
      BY <1>5, <2>2, <3>2 DEF StartWorker, StartsSettled
    <3>3. CASE UNCHANGED vars
      BY <3>3 DEF vars
    <3>4. CASE Boot \/ StartupRecoverKept \/ StartupRecoverActive \/ StopSignal
               \/ StopQueue \/ ProcessEnds
      BY <3>4 DEF Boot, StartupRecoverKept, StartupRecoverActive, MarkRecoveryPending,
         StopSignal, StopQueue, ProcessEnds
    <3> QED
      BY <3>1, <3>2, <3>3, <3>4 DEF Next, Process
  <2>4. Owned(k)
    BY <1>5, <2>1, <2>2, <2>3 DEF NoOrphanedRow, Owned
  <2> QED
    BY <1>5, <2>1, <2>4, OwnedStaysOwned
<1>6. RowGoes(k)
  BY RowSources
<1>7. \A state \in ActiveStates, note \in BOOLEAN : RestartRow(state, note) \in EndType
  BY RowShapes
<1>8. IsActive(rows[k]) => rows[k].state \in ActiveStates
  BY DEF IsActive
<1> QED
  BY <1>2, <1>3, <1>4, <1>5, <1>6, <1>7, <1>8 DEF RowGoes

(* A recovery write says of an uploading row that its document may have arrived. *)
LEMMA UploadingWhys ==
    /\ \A note \in BOOLEAN : RestartRow("UPLOADING", note).why = "unconfirmed"
    /\ RejectedRow.why # "restarted" /\ NoRow.why # "restarted"
    /\ LoopFailureRow.why # "restarted" /\ ~IsActive(NoRow)
    /\ \A state : Row(state, "none", FALSE).why # "restarted"
                  /\ Row(state, "none", FALSE).state = state
BY DEF RestartRow, RestartCategory, RejectedRow, NoRow, LoopFailureRow, Row, IsActive,
   ActiveStates

(* Once the upload was announced, an outcome of the pipeline is worded by it. *)
LEMMA UploadingOutcomes ==
    ASSUME announced = "UPLOADING", NEW end \in Outcomes
    PROVE  end.why # "restarted"
<1>1. \A note \in BOOLEAN :
         /\ Row("ERROR", "failed", note).why = "failed"
         /\ Row("ERROR", "unconfirmed", note).why = "unconfirmed"
         /\ RestartRow(announced, note).why = "unconfirmed"
  BY UploadingWhys DEF Row
<1>2. /\ Row("DONE", "none", FALSE).why = "none"
      /\ Row("CANCELLED", "cancelled", FALSE).why = "cancelled"
  BY DEF Row
<1> QED
  BY <1>1, <1>2 DEF Outcomes

(* The write that says UPLOADING: the run it belongs to has said so too. *)
LEMMA LandingStep ==
    ASSUME TypeOK, TypeOK', WorkerInv, LandedIsKnown, Announce, NEW k \in landed' \ landed
    PROVE  Landed(k)'
<1>1. /\ rows \in [Jobs -> RowType] /\ current \in Jobs \cup {NoJob} /\ NoJob \notin Jobs
      /\ wpc = "scan" /\ current \in ran
  BY WorkerAssumption DEF TypeOK, Announce, LandedIsKnown
<1>2. /\ k = current /\ announced' = "UPLOADING"
      /\ rows' = UpdateState(rows, current, "UPLOADING")
      /\ UNCHANGED <<meant, owed, ran, current>>
  BY DEF Announce, shared
<1>3. current \in Jobs /\ meant[k] = NoRow /\ owed[k] = NoRow
  BY <1>1, <1>2 DEF WorkerInv, HandInv, HoldsJob, JobInv, CurrentInv
<1>4. rows'[k] \in {NoRow, Row("UPLOADING", "none", FALSE)}
  <2>1. "UPLOADING" \in ActiveStates
    BY DEF ActiveStates
  <2>2. UpdateState(rows, current, "UPLOADING")[current] =
           IF rows[current] = NoRow THEN NoRow ELSE Row("UPLOADING", "none", FALSE)
    BY <1>1, <1>3, <2>1, UpdateRows
  <2> QED
    BY <1>2, <2>2
<1> QED
  BY <1>1, <1>2, <1>3, <1>4, UploadingWhys DEF Landed

(* Who writes what a job is meant to end as: the gate, for one that has not run,
   the end of its pipeline, and a kill, which forgets it. *)
LEMMA MeantStaysKnown ==
    ASSUME TypeOK, WorkerInv, LandedIsKnown, [Next]_vars, NEW k \in landed
    PROVE  meant'[k].why # "restarted"
<1>1. /\ meant \in [Jobs -> EndType \cup {NoRow}] /\ landed \subseteq Jobs
      /\ meant[k].why # "restarted" /\ k \in ran
      /\ current = k /\ wpc = "scan" => announced = "UPLOADING"
  BY DEF TypeOK, LandedIsKnown, Landed
<1>2. CASE meant'[k] = meant[k]
  BY <1>1, <1>2
<1>3. CASE EnterGate
  BY <1>1, <1>3 DEF EnterGate, WorkerStep, WorkerInv, JobInv, CurrentInv, HoldsJob
<1>4. CASE PipelineEnds
  <2>1. CASE current # k
    BY <1>1, <1>4, <2>1 DEF PipelineEnds
  <2>2. CASE current = k
    <3>1. PICK end \in Outcomes : meant' = [meant EXCEPT ![current] = end]
      BY <1>4 DEF PipelineEnds
    <3>2. end.why # "restarted"
      BY <1>1, <1>4, <2>2, UploadingOutcomes DEF PipelineEnds, WorkerStep
    <3> QED
      BY <1>1, <2>2, <3>1, <3>2
  <2> QED
    BY <2>1, <2>2
<1>5. CASE ProcessEnds
  BY <1>1, <1>5, UploadingWhys DEF ProcessEnds
<1> QED
  BY <1>2, <1>3, <1>4, <1>5
  DEF Next, Worker, Process, Request, vars, run, Boot, StartupRecoverKept,
      StartupRecoverActive, StartWorker, StopSignal, StopQueue, CheckHealth,
      RecordRefusedSubmit, CreateJob, CheckSubmit, PutJob, RejectCreatedJob,
      OweRejection, LoopTop, Dequeue, IdleTick, GetShutDown, TakeJob, JobBreaks,
      Announce, RecordEnd, GuardWrite, GuardWriteOf, FlushWrite, FlushFails, FlushDone,
      Housekeep, RecoverKept, RecoverActive, ClearDegraded, IdlePrune, FlushBeforeExit

(* Who owes what: a refused request, a terminal write that failed and the guard
   write, with the end that was meant or an error of their own. *)
LEMMA OwedStaysKnown ==
    ASSUME TypeOK, WorkerInv, LandedIsKnown, [Next]_vars, NEW k \in landed
    PROVE  owed'[k].why # "restarted"
<1>1. /\ owed \in [Jobs -> EndType \cup {NoRow}] /\ landed \subseteq Jobs
      /\ meant[k].why # "restarted" /\ owed[k].why # "restarted"
  BY DEF TypeOK, LandedIsKnown, Landed
<1>2. CASE owed'[k] = owed[k]
  BY <1>1, <1>2
<1>3. ASSUME NEW j \in Jobs, OweRejection(j) PROVE owed'[k].why # "restarted"
  BY <1>1, <1>3, UploadingWhys DEF OweRejection
<1>4. CASE RecordEnd
  BY <1>1, <1>4 DEF RecordEnd
<1>5. CASE GuardWrite
  <2>1. \/ owed' = [owed EXCEPT ![current] = NoRow]
        \/ owed' = [owed EXCEPT ![current] = IF owed[current] = NoRow THEN LoopFailureRow
                                                                      ELSE owed[current]]
    BY <1>5 DEF GuardWrite, GuardWriteOf
  <2> QED
    BY <1>1, <2>1, UploadingWhys
<1>6. ASSUME NEW j \in Jobs, FlushWrite(j) PROVE owed'[k].why # "restarted"
  BY <1>1, <1>6, UploadingWhys DEF FlushWrite
<1>7. CASE ProcessEnds
  BY <1>1, <1>7, UploadingWhys DEF ProcessEnds
<1> QED
  BY <1>2, <1>3, <1>4, <1>5, <1>6, <1>7
  DEF Next, Worker, Process, Request, vars, shared, Boot, StartupRecoverKept,
      StartupRecoverActive, MarkRecoveryPending, StartWorker, StopSignal, StopQueue,
      CheckHealth, RecordRefusedSubmit, CreateJob, CheckSubmit, PutJob,
      RejectCreatedJob, LoopTop, Dequeue, IdleTick, GetShutDown, TakeJob, EnterGate,
      JobBreaks, Announce, PipelineEnds, FlushFails, FlushDone, Housekeep, RecoverKept,
      RecoverActive, ClearDegraded, IdlePrune, FlushBeforeExit

(* Every writer of the row of such a job knows that its upload had begun. *)
LEMMA RowStaysKnown ==
    ASSUME TypeOK, TypeOK', WorkerInv, LandedIsKnown, [Next]_vars, NEW k \in landed
    PROVE  /\ rows'[k].why # "restarted"
           /\ IsActive(rows'[k]) => rows'[k].state = "UPLOADING"
<1>1. /\ k \in Jobs /\ Landed(k) /\ rows \in [Jobs -> RowType]
      /\ announced \in ActiveStates
  BY DEF TypeOK, LandedIsKnown
<1>2. RowGoes(k)
  BY <1>1, RowSources
<1>3. CASE rows'[k] \in {rows[k], NoRow}
  BY <1>1, <1>3, UploadingWhys DEF Landed
<1>4. CASE CreateJob(k)
  BY <1>1, <1>4 DEF CreateJob, ReqStep, Landed, WorkerInv, JobInv, RequestInv, Untouched
<1>5. CASE Announce /\ current = k
  BY <1>1, <1>5 DEF Announce, Landed, NextStates
<1>6. CASE rows'[k] \in EndType /\ rows'[k] \in {RejectedRow, LoopFailureRow, meant[k], owed[k]}
  BY <1>1, <1>6, RowKinds, RowShapes, UploadingWhys DEF Landed
<1>7. CASE \E note \in BOOLEAN : IsActive(rows[k]) /\ rows'[k] = RestartRow(rows[k].state, note)
  <2>1. PICK note \in BOOLEAN : rows'[k] = RestartRow("UPLOADING", note)
    BY <1>1, <1>7 DEF Landed
  <2>2. rows'[k] \in EndType /\ rows'[k].why = "unconfirmed"
    BY <2>1, RowShapes, UploadingWhys DEF ActiveStates
  <2>3. ~IsActive(rows'[k])
    BY <2>2, RowKinds, RowShapes
  <2> QED
    BY <2>2, <2>3
<1> QED
  BY <1>2, <1>3, <1>4, <1>5, <1>6, <1>7, RowShapes DEF RowGoes

(* The announced state of a run whose row says UPLOADING does not change. *)
LEMMA RunStaysKnown ==
    ASSUME TypeOK, TypeOK', WorkerInv, LandedIsKnown, [Next]_vars
    PROVE  /\ wpc' = "scan" => current' \in ran'
           /\ \A k \in landed : current' = k /\ wpc' = "scan" => announced' = "UPLOADING"
           /\ ran \subseteq ran'
<1>1. wpc = "scan" => current \in ran
  BY DEF LandedIsKnown
<1>2. \A k \in landed : k \in ran /\ (current = k /\ wpc = "scan" => announced = "UPLOADING")
  BY DEF LandedIsKnown, Landed
<1>3. CASE UNCHANGED <<wpc, current, announced, ran>>
  BY <1>1, <1>2, <1>3
<1>4. CASE wpc' # "scan" /\ UNCHANGED ran
  BY <1>4
<1>5. CASE EnterGate
  <2>1. current \notin ran \/ ~HoldsJob
    BY <1>5 DEF EnterGate, WorkerStep, WorkerInv, JobInv, CurrentInv
  <2> QED
    BY <1>2, <1>5, <2>1 DEF EnterGate, WorkerStep, HoldsJob
<1>6. CASE Announce
  BY <1>1, <1>2, <1>6 DEF Announce, NextStates
<1> QED
  BY <1>3, <1>4, <1>5, <1>6
  DEF Next, Worker, Process, Request, vars, shared, run, history, Boot,
      StartupRecoverKept, StartupRecoverActive, StartWorker, StopSignal, StopQueue,
      ProcessEnds, CheckHealth, RecordRefusedSubmit, CreateJob, CheckSubmit, PutJob,
      RejectCreatedJob, OweRejection, LoopTop, Dequeue, IdleTick, GetShutDown, TakeJob,
      JobBreaks, PipelineEnds, RecordEnd, GuardWrite, GuardWriteOf, FlushWrite,
      FlushFails, FlushDone, Housekeep, RecoverKept, RecoverActive, ClearDegraded,
      IdlePrune, FlushBeforeExit, WorkerStep, AfterFailedFlush, AfterFlush, FlushSteps,
      AfterFailedSentences

(* A job whose row has said UPLOADING stays known to all that may end it. *)
LEMMA LandedStep ==
    ASSUME TypeOK, TypeOK', WorkerInv, LandedIsKnown, [Next]_vars
    PROVE  LandedIsKnown'
<1>1. ASSUME NEW k \in landed PROVE Landed(k)'
  BY <1>1, MeantStaysKnown, OwedStaysKnown, RowStaysKnown, RunStaysKnown
  DEF LandedIsKnown, Landed
<1>2. ASSUME NEW k \in landed' \ landed PROVE Landed(k)'
  <2>1. Announce
    BY <1>2 DEF Next, Worker, Process, Request, vars, history, Boot,
       StartupRecoverKept, StartupRecoverActive, StartWorker, StopSignal, StopQueue,
       ProcessEnds, CheckHealth, RecordRefusedSubmit, CreateJob, CheckSubmit, PutJob,
       RejectCreatedJob, OweRejection, LoopTop, Dequeue, IdleTick, GetShutDown, TakeJob,
       EnterGate, JobBreaks, PipelineEnds, RecordEnd, GuardWrite, GuardWriteOf,
       FlushWrite, FlushFails, FlushDone, Housekeep, RecoverKept, RecoverActive,
       ClearDegraded, IdlePrune, FlushBeforeExit
  <2> QED
    BY <1>2, <2>1, LandingStep
<1> QED
  BY <1>1, <1>2, RunStaysKnown DEF LandedIsKnown

(* Kept sentences wait for the recovery that writes them, which comes first. *)
LEMMA KeptStep ==
    ASSUME TypeOK, TypeOK', WorkerInv, WorkerInv', KeptWaits, [Next]_vars
    PROVE  KeptWaits'
<1>1. rows \in [Jobs -> RowType] /\ rows' \in [Jobs -> RowType] /\ kept \subseteq Jobs
  BY DEF TypeOK
<1>2. proc' = "recoverActive" => \A j \in kept' : ~IsActive(rows'[j])
  <2>1. CASE Worker \/ \E j \in Jobs : Request(j)
    BY <2>1, ServesWhileUp
  <2>2. CASE StartupRecoverKept
    <3>1. ASSUME proc' = "recoverActive", NEW j \in kept PROVE ~IsActive(rows'[j])
      <4>1. rows' = FailRecoveredJobs(rows, kept)
        BY <2>2, <3>1 DEF StartupRecoverKept, MarkRecoveryPending
      <4>2. IF IsActive(rows[j]) THEN rows'[j] \in EndType ELSE rows'[j] = rows[j]
        BY <1>1, <3>1, <4>1, RecoveryRows
      <4> QED
        BY <4>2, RowKinds, RowShapes
    <3> QED
      BY <2>2, <3>1 DEF StartupRecoverKept, MarkRecoveryPending, recovery
  <2>3. CASE UNCHANGED vars
    BY <2>3 DEF vars, disk, recovery, KeptWaits
  <2>4. CASE Boot \/ StartupRecoverActive \/ StartWorker \/ StopSignal \/ StopQueue \/ ProcessEnds
    BY <2>4 DEF Boot, StartupRecoverActive, MarkRecoveryPending, StartWorker, StopSignal,
       StopQueue, ProcessEnds, disk, recovery, KeptWaits
  <2> QED
    BY <2>1, <2>2, <2>3, <2>4 DEF Next, Process
<1>3. proc' \in {"prune", "up"} /\ kept' # {} => recoveryPending'
  <2>1. CASE RecoverActive
    BY <2>1, ServesWhileUp DEF RecoverActive, WorkerStep, KeptWaits, Worker
  <2>2. CASE RecoverKept
    BY <2>2, ServesWhileUp DEF RecoverKept, KeptWaits, Worker
  <2>3. CASE UNCHANGED recovery /\ (Worker \/ \E j \in Jobs : Request(j))
    BY <2>3, ServesWhileUp DEF recovery, KeptWaits
  <2>4. CASE Process \/ UNCHANGED vars
    BY <2>4 DEF Process, vars, Boot, StartupRecoverKept, StartupRecoverActive,
       MarkRecoveryPending, StartWorker, StopSignal, StopQueue, ProcessEnds, recovery,
       KeptWaits
  <2> QED
    BY <2>1, <2>2, <2>3, <2>4
    DEF Next, Worker, Request, recovery, CheckHealth, RecordRefusedSubmit, CreateJob,
        CheckSubmit, PutJob, RejectCreatedJob, OweRejection, LoopTop, Dequeue, IdleTick,
        GetShutDown, TakeJob, EnterGate, JobBreaks, Announce, PipelineEnds, RecordEnd,
        GuardWrite, GuardWriteOf, FlushWrite, FlushFails, FlushDone, Housekeep,
        ClearDegraded, IdlePrune, FlushBeforeExit
<1>4. wpc' = "recoverActive" => kept' = {}
  <2>1. CASE RecoverKept
    BY <2>1, ServesWhileUp DEF RecoverKept, AfterFailedSentences, WorkerStep, KeptWaits, Worker
  <2>2. CASE UNCHANGED <<wpc, kept>>
    BY <2>2 DEF KeptWaits
  <2>3. CASE wpc' # "recoverActive"
    BY <2>3
  <2>4. CASE Boot
    BY <2>4 DEF Boot, WorkerInv, HandInv
  <2>5. CASE StartupRecoverActive
    BY <2>5 DEF StartupRecoverActive, WorkerInv, HandInv
  <2> QED
    BY <2>1, <2>2, <2>3, <2>4, <2>5
    DEF Next, Worker, Process, Request, vars, recovery, StartupRecoverKept,
        MarkRecoveryPending, StartWorker, StopSignal, StopQueue, ProcessEnds, CheckHealth,
        RecordRefusedSubmit, CreateJob, CheckSubmit, PutJob, RejectCreatedJob,
        OweRejection, LoopTop, Dequeue, IdleTick, GetShutDown, TakeJob, EnterGate,
        JobBreaks, Announce, PipelineEnds, RecordEnd, GuardWrite, GuardWriteOf,
        FlushWrite, FlushFails, FlushDone, Housekeep, RecoverActive, ClearDegraded,
        IdlePrune, FlushBeforeExit, WorkerStep, AfterFailedFlush, AfterFlush, FlushSteps
<1> QED
  BY <1>2, <1>3, <1>4 DEF KeptWaits

(* The flush of a recovery writes all the worker owes; only a refusal may join. *)
LEMMA SettlesStep ==
    ASSUME TypeOK, TypeOK', WorkerInv, FlushSettles, [Next]_vars
    PROVE  FlushSettles'
<1>1. /\ owed \in [Jobs -> EndType \cup {NoRow}] /\ RejectedRow.why = "rejected"
  BY RowKinds DEF TypeOK
<1>2. CASE Housekeep
  BY <1>2 DEF Housekeep, WorkerStep, flush, shared, OwedJobs, FlushSettles
<1>3. CASE FlushDone
  BY <1>3 DEF FlushDone, AfterFlush, FlushSteps, shared, FlushSettles
<1>4. ASSUME NEW j \in Jobs, FlushWrite(j) PROVE FlushSettles'
  BY <1>1, <1>4 DEF FlushWrite, FlushSettles
<1>5. ASSUME NEW j \in Jobs, OweRejection(j) PROVE FlushSettles'
  BY <1>1, <1>5 DEF OweRejection, flush, FlushSettles
<1>6. CASE wpc' \notin {"flushRecover", "recoverKept", "recoverActive", "clear"}
  BY <1>6 DEF FlushSettles
<1>7. CASE UNCHANGED <<wpc, owed, pending>>
  BY <1>7 DEF FlushSettles
<1>8. CASE RecoverKept \/ RecoverActive
  BY <1>8 DEF RecoverKept, RecoverActive, AfterFailedSentences, WorkerStep, shared, FlushSettles
<1> QED
  BY <1>2, <1>3, <1>4, <1>5, <1>6, <1>7, <1>8
  DEF Next, Worker, Process, Request, vars, shared, flush, Boot, StartupRecoverKept,
      StartupRecoverActive, MarkRecoveryPending, StartWorker, StopSignal, StopQueue,
      ProcessEnds, CheckHealth, RecordRefusedSubmit, CreateJob, CheckSubmit, PutJob,
      RejectCreatedJob, LoopTop, Dequeue, IdleTick, GetShutDown, TakeJob, EnterGate,
      JobBreaks, Announce, PipelineEnds, RecordEnd, GuardWrite, GuardWriteOf, FlushFails,
      ClearDegraded, IdlePrune, FlushBeforeExit, WorkerStep, AfterFailedFlush, FlushSteps

(* A startup that recovered leaves no active row behind, every active row has
   somebody to end it, a landed upload is known to whatever may end its row, kept
   sentences wait for a recovery, and a recovery's flush settles what is owed
   (web/app.py:338, worker.py:1709). *)
THEOREM RowsInvariant == Spec => [](TypeOK /\ WorkerInv /\ RowsRest)
<1>1. Init => RowsRest
  BY DEF Init, RowsRest, StartsSettled, NoOrphanedRow, LandedIsKnown, KeptWaits,
     FlushSettles
<1>2. TypeOK /\ WorkerInv /\ RowsRest /\ (TypeOK /\ WorkerInv)' /\ [Next]_vars => RowsRest'
  BY StartsSettledStep, NoOrphanStep, LandedStep, KeptStep, SettlesStep DEF RowsRest
<1> QED
  BY <1>1, <1>2, WorkerInvariant, PTL DEF Spec

(* No created row is left active with nobody to end it, and none whose upload had
   begun ends as if it could be scanned again (worker.py:1751, routes.py:474). *)
THEOREM RowsAreKept == Spec => []RowsSurvive
<1>1. RowsRest => RowsSurvive
  BY DEF RowsRest, RowsSurvive, UploadingIsRemembered, LandedIsKnown, Landed
<1> QED
  BY <1>1, RowsInvariant, PTL

(* No other write ends a row before the sentence that says where its pages are. *)
LEMMA SentencesWin ==
    ASSUME TypeOK, TypeOK', WorkerInv, RowsRest, [Next]_vars,
           NEW j \in kept, IsActive(rows[j]), IsOver(rows'[j])
    PROVE  rows'[j].kept
<1>1. /\ j \in Jobs /\ rows \in [Jobs -> RowType] /\ rows' \in [Jobs -> RowType]
      /\ owed \in [Jobs -> EndType \cup {NoRow}] /\ KeptWaits
      /\ current \in Jobs \cup {NoJob} /\ NoJob \notin Jobs
  BY WorkerAssumption DEF TypeOK, RowsRest
<1>2. RowGoes(j)
  BY <1>1, RowSources
<1>3. /\ rows'[j] # rows[j] /\ rows'[j] # NoRow
  BY <1>1, RowKinds
<1>4. CASE \/ RecordRefusedSubmit(j) \/ CreateJob(j) \/ RejectCreatedJob(j)
           \/ (Announce \/ RecordEnd \/ GuardWrite) /\ current = j
           \/ FlushWrite(j) /\ owed[j] \in EndType
  <2>1. Worker \/ \E k \in Jobs : Request(k)
    BY <1>1, <1>4 DEF Worker, Request
  <2>2. proc = "up" /\ recoveryPending
    BY <2>1, ServesWhileUp, <1>1 DEF KeptWaits
  <2>3. owed[j] = NoRow /\ req[j] \in {"new", "unhealthy", "done"} /\ ~HoldsJob
    BY <1>1, <2>2 DEF WorkerInv, JobInv, RecoveryInv
  <2>4. current # j
    BY <1>1, <2>3 DEF WorkerInv, HandInv
  <2>5. RecordRefusedSubmit(j)
    BY <1>4, <2>3, <2>4, RowShapes DEF CreateJob, RejectCreatedJob, ReqStep
  <2>6. rows[j] = NoRow
    BY <1>1, <2>5 DEF RecordRefusedSubmit, ReqStep, WorkerInv, JobInv, RequestInv
  <2> QED
    BY <1>1, <2>6, RowKinds
<1>5. CASE rows'[j] = RestartRow(rows[j].state, TRUE)
  BY <1>5 DEF RestartRow, Row
<1>6. CASE StartupRecoverActive
  BY <1>1, <1>6 DEF StartupRecoverActive, KeptWaits
<1>7. CASE RecoverActive
  BY <1>1, <1>7 DEF RecoverActive, WorkerStep, KeptWaits
<1> QED
  BY <1>2, <1>3, <1>4, <1>5, <1>6, <1>7 DEF RowGoes

(* Degraded ends only when nothing is left to recover or to flush. *)
LEMMA DegradedEndsSettled ==
    ASSUME TypeOK, WorkerInv, RowsRest, [Next]_vars,
           degraded, ~degraded', proc' = "up", ~stopping
    PROVE  /\ ~recoveryPending
           /\ \A j \in Jobs : IsActive(rows[j]) =>
                 \/ req[j] \in {"created", "putting", "refused", "owing"}
                 \/ InQueue(j)
                 \/ owed[j].why = "rejected"
<1>1. ClearDegraded
  BY DEF Next, Worker, Process, Request, vars, shared, counters, Boot, StartupRecoverKept,
     StartupRecoverActive, MarkRecoveryPending, StartWorker, StopSignal, StopQueue,
     ProcessEnds, CheckHealth, RecordRefusedSubmit, CreateJob, CheckSubmit, PutJob,
     RejectCreatedJob, OweRejection, LoopTop, Dequeue, IdleTick, GetShutDown, TakeJob,
     EnterGate, JobBreaks, CountLoopFailure, Announce, PipelineEnds, RecordEnd,
     GuardWrite, GuardWriteOf, FlushWrite, FlushFails, FlushDone, Housekeep,
     RecoverKept, RecoverActive, IdlePrune, FlushBeforeExit
<1>2. wpc = "clear" /\ proc = "up"
  BY <1>1 DEF ClearDegraded, WorkerStep, WorkerInv, HandInv
<1>3. ~recoveryPending
  BY <1>2 DEF WorkerInv, JobInv, RecoveryInv
<1>4. current = NoJob /\ NoJob \notin Jobs
  BY <1>2, WorkerAssumption DEF WorkerInv, HandInv, HoldsJob
<1>5. \A j \in Jobs : owed[j] = NoRow \/ owed[j].why = "rejected"
  BY <1>2 DEF RowsRest, FlushSettles
<1> QED
  BY <1>2, <1>3, <1>4, <1>5 DEF RowsRest, NoOrphanedRow

(* A recovery that failed half way keeps its word: the kept sentences win, and
   degraded mode lasts until all is settled (worker.py, _try_recover). *)
THEOREM RecoveryIsKept == Spec => RecoveryKeepsItsWord
<1>1. TypeOK /\ WorkerInv /\ RowsRest /\ TypeOK' /\ [Next]_vars
      => [\A j \in kept : IsActive(rows[j]) /\ IsOver(rows'[j]) => rows'[j].kept]_vars
  BY SentencesWin
<1>2. TypeOK /\ WorkerInv /\ RowsRest /\ TypeOK' /\ [Next]_vars
      => [degraded /\ ~degraded' /\ proc' = "up" /\ ~stopping =>
             /\ ~recoveryPending
             /\ \A j \in Jobs : IsActive(rows[j]) =>
                   \/ req[j] \in {"created", "putting", "refused", "owing"}
                   \/ InQueue(j)
                   \/ owed[j].why = "rejected"]_vars
  BY DegradedEndsSettled
<1> QED
  BY <1>1, <1>2, RowsInvariant, PTL
  DEF Spec, RecoveryKeepsItsWord, KeptSentenceWins, RecoverySettlesFirst

-----------------------------------------------------------------------------
(* The configuration file (ProfileFile): what a merge keeps, what a restart
   loads, and that a kill or a power cut leaves a whole file. *)

\* No other table has the name of one the operator wrote.
HandWrittenAlone(tables) == \A t, u \in tables : ~t.auto /\ u.name = t.name => u = t

(* A merge leaves the operator's tables alone, each of its name the only one. *)
LEMMA MergeKeepsHands ==
    ASSUME NEW tables, HandWrittenAlone(tables), NEW profiles, NEW forced
    PROVE  /\ \A t \in tables : ~t.auto => t \in Merged(tables, profiles, forced)
           /\ HandWrittenAlone(Merged(tables, profiles, forced))
<1> DEFINE written == {p \in profiles : MergeOutcome(tables, p, forced) \in {"added", "refreshed"}}
           remaining == {t \in tables \ Orphans(tables, profiles) : t.name \notin NamesOf(written)}
           fresh == {Table(p.name, p.profile, TRUE) : p \in written}
<1>1. Merged(tables, profiles, forced) = remaining \cup fresh
  BY DEF Merged
<1>2. \A p \in written, t \in tables : p.name = t.name => t.auto
  <2> SUFFICES ASSUME NEW p \in written, NEW t \in tables, p.name = t.name, ~t.auto PROVE FALSE
    OBVIOUS
  <2>1. p.name \in NamesOf(tables)
    BY DEF NamesOf
  <2>2. EntryOf(tables, p.name) \in tables /\ EntryOf(tables, p.name).name = p.name
    BY DEF EntryOf
  <2>3. ~EntryOf(tables, p.name).auto
    BY <2>2 DEF HandWrittenAlone
  <2>4. MergeOutcome(tables, p, forced) = "not generated"
    BY <2>1, <2>3 DEF MergeOutcome
  <2> QED
    BY <2>4
<1>3. \A t \in tables : ~t.auto => t \in remaining
  BY <1>2 DEF Orphans, NamesOf
<1>4. \A t \in fresh : t.auto /\ t.name \in NamesOf(written)
  BY DEF Table, NamesOf
<1>5. HandWrittenAlone(remaining \cup fresh)
  <2> SUFFICES ASSUME NEW t \in remaining \cup fresh, NEW u \in remaining \cup fresh, ~t.auto, u.name = t.name
               PROVE  u = t
    BY DEF HandWrittenAlone
  <2>1. t \in remaining
    BY <1>4
  <2>2. u \in remaining
    BY <2>1, <1>4
  <2> QED
    BY <2>1, <2>2 DEF HandWrittenAlone
<1> QED
  BY <1>1, <1>3, <1>5

\* What GenerateProfiles returns: named profiles, the default among them.
Generated(profiles) ==
    /\ \E p \in profiles : p.name = Default
    /\ \A p \in profiles : p = Named(p.name, p.profile)

(* The generator always names the default. *)
LEMMA GeneratorNames == ASSUME NEW c PROVE Generated(GenerateProfiles(c))
<1>1. \A set : (\E p \in set : p.name = Default) /\ (\A p \in set : \E name, profile : p = Named(name, profile))
                => Generated(set)
  BY DEF Generated, Named
<1>2. \E p \in GenerateProfiles(c) : p.name = Default
  <2>1. \E profile : Named(Default, profile) \in GenerateProfiles(c)
    BY DEF GenerateProfiles
  <2>2. \A profile : Named(Default, profile).name = Default
    BY DEF Named
  <2> QED
    BY <2>1, <2>2
<1>3. \A p \in GenerateProfiles(c) : \E name, profile : p = Named(name, profile)
  BY DEF GenerateProfiles
<1> QED
  BY <1>1, <1>2, <1>3

(* Over a file of no profile but the bare default, what a run uses after its
   merge is what that merge's file loads. *)
LEMMA MergeLoads ==
    ASSUME NEW tables, NEW profiles, Generated(profiles), Loaded(tables) = Bare
    PROVE  ProfilesAfterPersist(Bare, profiles, Persisted(tables, profiles, FALSE))
              = Loaded(Merged(tables, profiles, FALSE))
<1> DEFINE written == {p \in profiles : MergeOutcome(tables, p, FALSE) \in {"added", "refreshed"}}
           fresh == {Table(p.name, p.profile, TRUE) : p \in written}
           remaining == {t \in tables \ Orphans(tables, profiles) : t.name \notin NamesOf(written)}
<1>1. Merged(tables, profiles, FALSE) = remaining \cup fresh
  BY DEF Merged
<1>2. ProfilesOf(fresh) = written
  <2>1. \A p \in written :
           LET t == Table(p.name, p.profile, TRUE) IN Named(t.name, t.profile) = p
    BY DEF Generated, Table
  <2> HIDE DEF written
  <2> QED
    BY <2>1 DEF ProfilesOf
<1>3. ProfilesOf(remaining \cup fresh) = ProfilesOf(remaining) \cup written
  BY <1>2 DEF ProfilesOf
<1>4. CASE tables = {}
  <2>1. \A p \in profiles : MergeOutcome(tables, p, FALSE) = "added"
    BY <1>4 DEF MergeOutcome, NamesOf
  <2>2. written = profiles /\ remaining = {} /\ Persisted(tables, profiles, FALSE) = profiles
    BY <2>1, <1>4 DEF Persisted
  <2>3. Loaded(remaining \cup fresh) = profiles
    <3>1. remaining \cup fresh # {}
      BY ZenonT(40), <2>2 DEF Generated
    <3>2. ProfilesOf(remaining) = {}
      BY <2>2 DEF ProfilesOf
    <3> QED
      BY <3>1, <3>2, <1>3, <2>2 DEF Loaded
  <2>4. {p \in Bare : p.name \notin NamesOf(profiles)} = {}
    BY DEF Bare, Named, NamesOf, Generated
  <2> QED
    BY <1>1, <2>2, <2>3, <2>4 DEF ProfilesAfterPersist
<1>5. CASE tables # {}
  <2>1. ProfilesOf(tables) = Bare
    BY <1>5 DEF Loaded
  <2>2. \A t \in tables : t.name = Default
    <3>1. \A t \in tables : Named(t.name, t.profile) = Named(Default, BareProfile)
      BY <2>1 DEF ProfilesOf, Bare
    <3> QED
      BY <3>1 DEF Named
  <2>3. NamesOf(tables) = {Default}
    BY <2>2, <1>5 DEF NamesOf
  <2>4. \A p \in profiles :
           MergeOutcome(tables, p, FALSE) \in {"added", "refreshed", "unchanged"}
              => p.name # Default /\ MergeOutcome(tables, p, FALSE) = "added"
    BY <2>3 DEF MergeOutcome
  <2>5. \A p \in profiles : p.name # Default => MergeOutcome(tables, p, FALSE) = "added"
    BY <2>3 DEF MergeOutcome
  <2>6. Persisted(tables, profiles, FALSE) = written
    BY <2>4 DEF Persisted
  <2>7. Default \notin NamesOf(written)
    BY <2>4 DEF NamesOf
  <2>8. remaining = tables
    BY <2>2, <2>7 DEF Orphans
  <2>9. Loaded(remaining \cup fresh) = Bare \cup written
    BY <2>8, <2>1, <1>3, <1>5 DEF Loaded
  <2>10. {p \in Bare : p.name \notin NamesOf(written)} = Bare
    <3>1. Bare = {Named(Default, BareProfile)} /\ Named(Default, BareProfile).name = Default
      BY DEF Bare, Named
    <3> HIDE DEF written
    <3> QED
      BY <2>7, <3>1
  <2> QED
    BY <1>1, <2>6, <2>9, <2>10 DEF ProfilesAfterPersist
<1> QED
  BY <1>4, <1>5

Replacing == {"prepare", "temp", "sync", "replace"}
WriterSteps == Replacing \cup {"off", "bare", "generated", "syncDirectory", "written", "refused", "running"}
TempStates == {"none", "empty", "whole", "synced", "lost"}

WriterTypes ==
    /\ step \in [Writers -> WriterSteps] /\ temp \in [Writers -> TempStates]
    /\ read = [w \in Writers |-> read[w]] /\ gen = [w \in Writers |-> gen[w]]
    /\ new = [w \in Writers |-> new[w]]

\* A rename is of synced bytes, so those the file reads are on the disk.
BytesAreDown ==
    /\ ~torn /\ synced
    /\ \A w \in Writers : step[w] = "replace" => temp[w] \in {"synced", "lost"}

\* What a writer is to write is the merge of what it read.
MergeIsOfRead ==
    /\ HandWrittenAlone(file) /\ HandWrittenAlone(lasting)
    /\ \A w \in Writers :
        /\ HandWrittenAlone(read[w])
        /\ step[w] \in Replacing \cup {"syncDirectory", "written"} =>
              new[w] = Merged(read[w], gen[w], Forced(w))

\* What the server loaded, read and used, as long as nobody else writes.
BareWas ==
    /\ step["server"] \in WriterSteps \ {"off", "running"} => loaded = Bare
    /\ step["server"] \in Replacing \cup {"generated", "syncDirectory", "written"} =>
          Generated(gen["server"])
    /\ ~disturbed =>
        /\ step["server"] = "bare" => memory = Bare
        /\ step["server"] \in {"bare", "generated"} => Loaded(file) = Bare
        /\ step["server"] \in Replacing => file = read["server"]
        /\ step["server"] \in {"syncDirectory", "written"} => file = new["server"]
        /\ step["server"] \in Replacing \cup {"syncDirectory", "written"} =>
              Loaded(read["server"]) = Bare

FileInv == WriterTypes /\ BytesAreDown /\ MergeIsOfRead /\ BareWas /\ RestartLoadsWhatRuns

(* The invariant at the start. *)
LEMMA FileStarts == ProfileInit => FileInv
<1> SUFFICES ASSUME ProfileInit PROVE FileInv
  OBVIOUS
<1>1. HandWrittenAlone(file) /\ HandWrittenAlone({})
  BY ProfileFileAssumption DEF ProfileInit, HandWrittenAlone
<1>2. step = [w \in Writers |-> "off"] /\ temp = [w \in Writers |-> "none"]
  BY DEF ProfileInit
<1>3. WriterTypes /\ BytesAreDown
  BY <1>2 DEF ProfileInit, WriterTypes, BytesAreDown, WriterSteps, TempStates
<1>4. MergeIsOfRead
  BY <1>1, <1>2 DEF ProfileInit, MergeIsOfRead, Replacing, Nothing
<1>5. BareWas /\ RestartLoadsWhatRuns
  BY <1>2 DEF BareWas, RestartLoadsWhatRuns, Replacing, Writers
<1> QED
  BY <1>3, <1>4, <1>5 DEF FileInv

(* The steps that write nothing: a writer moves on, the file stays. *)
LEMMA GenerateKeeps == ASSUME FileInv, NEW w \in Writers, Generate(w) PROVE FileInv'
<1> USE DEF Writer, Set
<1>1. Generated(GenerateProfiles(caps))
  BY GeneratorNames
<1>2. WriterTypes'
  BY DEF FileInv, WriterTypes, Generate, writing, WriterSteps, Replacing
<1>3. BytesAreDown'
  BY DEF FileInv, WriterTypes, BytesAreDown, Generate, content, WriterSteps
<1>4. MergeIsOfRead'
  BY DEF FileInv, WriterTypes, MergeIsOfRead, Generate, content, Forced, Replacing, WriterSteps
<1>5. BareWas'
  BY <1>1 DEF FileInv, WriterTypes, BareWas, Generate, content, serving, Replacing, WriterSteps, Loaded, ProfilesOf
<1>6. RestartLoadsWhatRuns'
  BY DEF FileInv, WriterTypes, RestartLoadsWhatRuns, Generate, content, serving, Loaded, ProfilesOf
<1> QED
  BY <1>2, <1>3, <1>4, <1>5, <1>6 DEF FileInv

(* A writer goes on with its rewrite or gives it up; of its bytes only the
   temporary file changes. *)
LEMMA WriterMoves ==
    ASSUME FileInv, NEW w \in Writers, NEW to \in Replacing \cup {"refused", "written"},
           step' = [step EXCEPT ![w] = to],
           \/ step[w] \in Replacing /\ to \in Replacing \cup {"refused"}
           \/ step[w] = "generated" /\ to = "refused"
           \/ step[w] = "syncDirectory" /\ to = "written",
           UNCHANGED <<file, synced, torn, force, read, gen, new, serving, disturbed>>,
           lasting' \in {lasting, file}, temp' \in [Writers -> TempStates],
           \A v \in Writers : step'[v] = "replace" => temp'[v] \in {"synced", "lost"}
    PROVE  FileInv'
<1>1. WriterTypes'
  BY DEF FileInv, WriterTypes, WriterSteps, Replacing
<1>2. BytesAreDown'
  BY DEF FileInv, BytesAreDown
<1>3. MergeIsOfRead'
  BY DEF FileInv, WriterTypes, MergeIsOfRead, Forced, Replacing, WriterSteps
<1>4. BareWas'
  BY DEF FileInv, WriterTypes, BareWas, serving, Replacing, WriterSteps, Loaded, ProfilesOf
<1>5. RestartLoadsWhatRuns'
  BY DEF FileInv, WriterTypes, RestartLoadsWhatRuns, serving, Replacing, WriterSteps, Loaded, ProfilesOf
<1> QED
  BY <1>1, <1>2, <1>3, <1>4, <1>5 DEF FileInv

(* The rewrite up to the rename, what gives it up, and the directory's sync. *)
LEMMA RewriteKeeps ==
    ASSUME FileInv, NEW w \in Writers,
           \/ ReadRefused(w) \/ Prepare(w) \/ PrepareRefused(w) \/ WriteTemp(w)
           \/ SyncTemp(w) \/ WriteFails(w) \/ SyncDirectory(w)
    PROVE  FileInv'
<1> USE DEF Writer, Set
<1>t. /\ step \in [Writers -> WriterSteps] /\ temp \in [Writers -> TempStates]
      /\ \A v \in Writers : step[v] = "replace" => temp[v] \in {"synced", "lost"}
  BY DEF FileInv, WriterTypes, BytesAreDown
<1>1. CASE ReadRefused(w) \/ PrepareRefused(w) \/ WriteFails(w)
  <2>1. temp' \in [Writers -> TempStates]
    BY <1>1, <1>t DEF ReadRefused, PrepareRefused, WriteFails, Refuse, TempStates
  <2>2. \A v \in Writers : step'[v] = "replace" => temp'[v] \in {"synced", "lost"}
    BY <1>1, <1>t DEF ReadRefused, PrepareRefused, WriteFails, Refuse
  <2>3. step[w] \in Replacing \cup {"generated"} /\ step' = [step EXCEPT ![w] = "refused"]
        /\ UNCHANGED <<content, force, read, gen, new, serving, disturbed>>
    BY <1>1 DEF ReadRefused, PrepareRefused, WriteFails, Refuse, Replacing
  <2> QED
    BY <2>1, <2>2, <2>3, WriterMoves DEF content
<1>2. CASE Prepare(w)
  <2>1. temp' \in [Writers -> TempStates]
    BY <1>2, <1>t DEF Prepare, TempStates
  <2>2. \A v \in Writers : step'[v] = "replace" => temp'[v] \in {"synced", "lost"}
    BY <1>2, <1>t DEF Prepare
  <2> QED
    BY <1>2, <2>1, <2>2, WriterMoves DEF Prepare, content, Replacing
<1>3. CASE WriteTemp(w) \/ SyncTemp(w)
  <2>1. temp' \in [Writers -> TempStates]
    BY <1>3, <1>t DEF WriteTemp, SyncTemp, TempStates
  <2>2. \A v \in Writers : step'[v] = "replace" => temp'[v] \in {"synced", "lost"}
    BY <1>3, <1>t DEF WriteTemp, SyncTemp
  <2> QED
    BY <1>3, <2>1, <2>2, WriterMoves DEF WriteTemp, SyncTemp, content, Replacing
<1>4. CASE SyncDirectory(w)
  <2>1. \A v \in Writers : step'[v] = "replace" => temp'[v] \in {"synced", "lost"}
    BY <1>4, <1>t DEF SyncDirectory, writing
  <2> QED
    BY <1>4, <1>t, <2>1, WriterMoves DEF SyncDirectory, writing
<1> QED
  BY <1>1, <1>2, <1>3, <1>4

(* Reading the file and merging into it; a merge that changes nothing is done. *)
LEMMA MergeKeeps == ASSUME FileInv, NEW w \in Writers, ReadAndMerge(w) PROVE FileInv'
<1> USE DEF Set
<1> DEFINE merged == Merged(file, gen[w], Forced(w))
<1>1. /\ step[w] = "generated" /\ step' = [step EXCEPT ![w] = IF merged = file THEN "written" ELSE "prepare"]
      /\ read' = [read EXCEPT ![w] = file] /\ new' = [new EXCEPT ![w] = merged]
      /\ UNCHANGED <<content, force, gen, temp, serving, disturbed>>
  BY DEF ReadAndMerge
<1> HIDE DEF merged
<1>2. WriterTypes'
  BY <1>1 DEF FileInv, WriterTypes, WriterSteps, Replacing
<1>3. BytesAreDown'
  BY <1>1 DEF FileInv, WriterTypes, BytesAreDown, content
<1>4. MergeIsOfRead'
  BY <1>1 DEF FileInv, WriterTypes, MergeIsOfRead, Forced, Replacing, content, merged
<1>5. BareWas'
  <2>1. w = "server" => /\ read'["server"] = file /\ new'["server"] = merged
                        /\ step'["server"] = "written" => merged = file
    BY <1>1 DEF FileInv, WriterTypes
  <2>2. w # "server" => /\ read'["server"] = read["server"] /\ new'["server"] = new["server"]
                        /\ step'["server"] = step["server"]
    BY <1>1 DEF FileInv, WriterTypes
  <2>3. w = "server" => step["server"] = "generated" /\ step'["server"] \in {"written", "prepare"}
    BY <1>1 DEF FileInv, WriterTypes
  <2>4. Loaded(file)' = Loaded(file) /\ UNCHANGED <<loaded, memory, gen, file, disturbed>>
    BY <1>1 DEF Loaded, ProfilesOf, content, serving
  <2>5. Loaded(read["server"])' = IF w = "server" THEN Loaded(file) ELSE Loaded(read["server"])
    BY <2>1, <2>2 DEF Loaded, ProfilesOf
  <2> QED
    BY <2>1, <2>2, <2>3, <2>4, <2>5 DEF FileInv, BareWas, Replacing, WriterSteps
<1>6. RestartLoadsWhatRuns'
  BY <1>1 DEF FileInv, WriterTypes, RestartLoadsWhatRuns, serving, content, Loaded, ProfilesOf
<1> QED
  BY <1>2, <1>3, <1>4, <1>5, <1>6 DEF FileInv

(* The rename: the file is the merge, on the disk, and the server's own is not
   somebody else's. *)
LEMMA ReplaceKeeps == ASSUME FileInv, NEW w \in Writers, Replace(w) PROVE FileInv'
<1> USE DEF Writer, Set
<1>1. /\ step[w] = "replace" /\ step' = [step EXCEPT ![w] = "syncDirectory"]
      /\ file' = new[w] /\ temp' = [temp EXCEPT ![w] = "none"]
      /\ disturbed' = (disturbed \/ w # "server") /\ synced' = (temp[w] = "synced")
      /\ UNCHANGED <<lasting, torn, force, read, gen, new, serving>>
  BY DEF Replace
<1>2. temp[w] = "synced"
  BY <1>1 DEF Replace, FileInv, BytesAreDown
<1>3. WriterTypes'
  BY <1>1 DEF FileInv, WriterTypes, WriterSteps, TempStates
<1>4. BytesAreDown'
  BY <1>1, <1>2 DEF FileInv, WriterTypes, BytesAreDown
<1>5. HandWrittenAlone(file')
  <2>1. HandWrittenAlone(read[w]) /\ file' = Merged(read[w], gen[w], Forced(w))
    BY <1>1 DEF FileInv, MergeIsOfRead, Replacing
  <2> QED
    BY <2>1, MergeKeepsHands
<1>6. MergeIsOfRead'
  <2>1. HandWrittenAlone(file)'
    BY <1>5 DEF HandWrittenAlone
  <2>2. HandWrittenAlone(lasting)' /\ \A v \in Writers : HandWrittenAlone(read[v])'
    BY <1>1 DEF FileInv, MergeIsOfRead, HandWrittenAlone
  <2>3. \A v \in Writers : step'[v] \in Replacing \cup {"syncDirectory", "written"} =>
              step[v] \in Replacing \cup {"syncDirectory", "written"}
    BY <1>1 DEF FileInv, WriterTypes, Replacing
  <2> QED
    BY <1>1, <2>1, <2>2, <2>3 DEF FileInv, MergeIsOfRead, Forced
<1>7. BareWas'
  <2>1. disturbed' \/ w = "server"
    BY <1>1
  <2>2. w = "server" => step'["server"] = "syncDirectory"
    BY <1>1 DEF FileInv, WriterTypes
  <2>3. w # "server" => step'["server"] = step["server"]
    BY <1>1 DEF FileInv, WriterTypes
  <2>4. Loaded(read["server"])' = Loaded(read["server"])
    BY <1>1 DEF Loaded, ProfilesOf
  <2> QED
    BY <1>1, <2>1, <2>2, <2>3, <2>4 DEF FileInv, BareWas, Replacing, WriterSteps, serving
<1>8. RestartLoadsWhatRuns'
  BY <1>1 DEF FileInv, WriterTypes, RestartLoadsWhatRuns
<1> QED
  BY <1>3, <1>4, <1>6, <1>7, <1>8 DEF FileInv

(* A server starts on the file as it is. *)
LEMMA StartKeeps == ASSUME FileInv, StartServer PROVE FileInv'
<1>1. /\ step["server"] = "off"
      /\ step' = [step EXCEPT !["server"] = IF Loaded(file) = Bare THEN "bare" ELSE "running"]
      /\ loaded' = Loaded(file) /\ memory' = Loaded(file)
      /\ UNCHANGED <<content, force, writing>>
  BY DEF StartServer, Writer, IsBareDefault
<1>2. "server" \in Writers
  BY DEF Writers
<1>3. WriterTypes'
  BY <1>1 DEF FileInv, WriterTypes, WriterSteps, writing
<1>4. BytesAreDown'
  BY <1>1, <1>2 DEF FileInv, WriterTypes, BytesAreDown, content, writing
<1>5. MergeIsOfRead'
  BY <1>1, <1>2 DEF FileInv, WriterTypes, MergeIsOfRead, content, writing, Forced, Replacing
<1>6. Loaded(file)' = Loaded(file)
  BY <1>1 DEF Loaded, ProfilesOf, content
<1>7. step'["server"] = IF Loaded(file) = Bare THEN "bare" ELSE "running"
  BY <1>1, <1>2 DEF FileInv, WriterTypes
<1>8. BareWas' /\ RestartLoadsWhatRuns'
  BY <1>1, <1>6, <1>7 DEF BareWas, RestartLoadsWhatRuns, Replacing, WriterSteps
<1> QED
  BY <1>3, <1>4, <1>5, <1>8 DEF FileInv

(* The scanner could not be read: what was loaded stays. *)
LEMMA ReadFailsKeeps == ASSUME FileInv, ReadFails PROVE FileInv'
<1>1. /\ step["server"] = "bare" /\ step' = [step EXCEPT !["server"] = "running"]
      /\ UNCHANGED <<content, force, writing, serving, disturbed>> /\ "server" \in Writers
  BY DEF ReadFails, Writer, Writers
<1>2. step'["server"] = "running"
  BY <1>1 DEF FileInv, WriterTypes
<1>3. WriterTypes' /\ BytesAreDown'
  BY <1>1 DEF FileInv, WriterTypes, BytesAreDown, WriterSteps, writing, content
<1>4. MergeIsOfRead'
  BY <1>1 DEF FileInv, WriterTypes, MergeIsOfRead, content, writing, Forced, Replacing
<1>5. Loaded(file)' = Loaded(file)
  BY <1>1 DEF Loaded, ProfilesOf, content
<1>6. BareWas' /\ RestartLoadsWhatRuns'
  BY <1>1, <1>2, <1>5 DEF FileInv, BareWas, RestartLoadsWhatRuns, Replacing, WriterSteps, serving
<1> QED
  BY <1>3, <1>4, <1>6 DEF FileInv

(* What comes of the server's merge: it uses what its file loads, or says that
   it did not save. *)
LEMMA UseKeeps == ASSUME FileInv, UseProfiles PROVE FileInv'
<1>1. /\ step' = [step EXCEPT !["server"] = "running"] /\ "server" \in Writers
      /\ read' = [read EXCEPT !["server"] = {}] /\ new' = [new EXCEPT !["server"] = {}]
      /\ gen' = [gen EXCEPT !["server"] = {}]
      /\ UNCHANGED <<content, force, temp, loaded, disturbed>>
  BY DEF UseProfiles, Writer, Forget, Set, Writers, Nothing
<1>2. step'["server"] = "running"
  BY <1>1 DEF FileInv, WriterTypes
<1>3. WriterTypes' /\ BytesAreDown'
  BY <1>1 DEF FileInv, WriterTypes, BytesAreDown, WriterSteps, content
<1>4. MergeIsOfRead'
  <2>1. HandWrittenAlone({})
    BY DEF HandWrittenAlone
  <2>2. HandWrittenAlone(file)' /\ HandWrittenAlone(lasting)'
    BY <1>1 DEF FileInv, MergeIsOfRead, HandWrittenAlone, content
  <2>3. \A v \in Writers : read'[v] \in {{}, read[v]}
    BY <1>1 DEF FileInv, WriterTypes
  <2>4. \A v \in Writers : HandWrittenAlone(read[v])'
    BY <2>1, <2>3 DEF FileInv, MergeIsOfRead, HandWrittenAlone
  <2> QED
    BY <1>1, <1>2, <2>2, <2>4 DEF FileInv, WriterTypes, MergeIsOfRead, Forced, Replacing
<1>5. Loaded(file)' = Loaded(file)
  BY <1>1 DEF Loaded, ProfilesOf, content
<1>6. BareWas'
  BY <1>2 DEF BareWas, Replacing, WriterSteps
<1>7. storage' = "PERSISTED" /\ ~disturbed => memory' = Loaded(file)
  <2> SUFFICES ASSUME storage' = "PERSISTED", ~disturbed PROVE memory' = Loaded(file)
    OBVIOUS
  <2>1. /\ step["server"] = "written"
        /\ memory' = ProfilesAfterPersist(loaded, gen["server"],
                        Persisted(read["server"], gen["server"], FALSE))
    BY DEF UseProfiles, Writer
  <2>2. /\ loaded = Bare /\ Generated(gen["server"]) /\ Loaded(read["server"]) = Bare
        /\ file = new["server"]
    BY <2>1 DEF FileInv, BareWas, Replacing, WriterSteps
  <2>3. new["server"] = Merged(read["server"], gen["server"], FALSE)
    BY <2>1, <1>1 DEF FileInv, MergeIsOfRead, Forced
  <2> QED
    BY <2>1, <2>2, <2>3, MergeLoads
<1>8. RestartLoadsWhatRuns'
  BY <1>1, <1>5, <1>7 DEF RestartLoadsWhatRuns
<1> QED
  BY <1>3, <1>4, <1>6, <1>8 DEF FileInv

(* The command starts, or ends: the server sees nothing of it. *)
LEMMA CommandKeeps == ASSUME FileInv, Run \/ RunEnds PROVE FileInv'
<1>1. /\ \E to \in {"bare", "off"} : step' = [step EXCEPT !["cli"] = to]
      /\ "cli" \in Writers /\ "server" \in Writers
      /\ read' = [read EXCEPT !["cli"] = read'["cli"]] /\ new' = [new EXCEPT !["cli"] = new'["cli"]]
      /\ gen' = [gen EXCEPT !["cli"] = gen'["cli"]] /\ read'["cli"] \in {{}, read["cli"]}
      /\ UNCHANGED <<content, temp, serving, disturbed>>
  BY DEF Run, RunEnds, Writer, Forget, Set, Writers, Nothing, writing, FileInv, WriterTypes
<1>2. UNCHANGED <<step["server"], read["server"], gen["server"], new["server"]>>
      /\ step'["cli"] \in {"bare", "off"}
  BY <1>1 DEF FileInv, WriterTypes
<1>3. WriterTypes' /\ BytesAreDown'
  BY ZenonT(40), <1>1 DEF FileInv, WriterTypes, BytesAreDown, WriterSteps, content
<1>4. MergeIsOfRead'
  <2>1. HandWrittenAlone({})
    BY DEF HandWrittenAlone
  <2>2. HandWrittenAlone(file)' /\ HandWrittenAlone(lasting)'
    BY <1>1 DEF FileInv, MergeIsOfRead, HandWrittenAlone, content
  <2>3. \A v \in Writers : HandWrittenAlone(read[v])'
    BY <1>1, <1>2, <2>1 DEF FileInv, MergeIsOfRead, HandWrittenAlone, Writers
  <2> QED
    BY <1>1, <1>2, <2>2, <2>3 DEF FileInv, MergeIsOfRead, Forced, Replacing, Writers
<1>5. Loaded(file)' = Loaded(file) /\ Loaded(read["server"])' = Loaded(read["server"])
  BY <1>1, <1>2 DEF Loaded, ProfilesOf, content
<1>6. BareWas' /\ RestartLoadsWhatRuns'
  BY <1>1, <1>2, <1>5 DEF FileInv, BareWas, RestartLoadsWhatRuns, serving, content
<1> QED
  BY <1>3, <1>4, <1>6 DEF FileInv

(* A writer is killed between any two steps. *)
LEMMA KillKeeps == ASSUME FileInv, NEW w \in Writers, Kill(w) PROVE FileInv'
<1> USE DEF Set
<1>1. /\ step' = [step EXCEPT ![w] = "off"] /\ temp' = [temp EXCEPT ![w] = "none"]
      /\ read' = [read EXCEPT ![w] = {}] /\ new' = [new EXCEPT ![w] = {}]
      /\ gen' = [gen EXCEPT ![w] = {}] /\ UNCHANGED <<content, disturbed>>
      /\ w = "cli" => UNCHANGED serving
      /\ w = "server" => UNCHANGED force
  BY DEF Kill, Forget, Nothing
<1>2. \A v \in Writers : v # w => UNCHANGED <<step[v], read[v], gen[v], new[v], temp[v]>>
  BY <1>1 DEF FileInv, WriterTypes
<1>3. step'[w] = "off" /\ read'[w] = {}
  BY <1>1 DEF FileInv, WriterTypes
<1>4. WriterTypes'
  BY <1>1 DEF FileInv, WriterTypes, WriterSteps, TempStates
<1>5. BytesAreDown'
  BY <1>1, <1>2, <1>3 DEF FileInv, BytesAreDown, content
<1>6. MergeIsOfRead'
  <2>1. HandWrittenAlone({})
    BY DEF HandWrittenAlone
  <2>2. HandWrittenAlone(file)' /\ HandWrittenAlone(lasting)'
    BY <1>1 DEF FileInv, MergeIsOfRead, HandWrittenAlone, content
  <2>3. \A v \in Writers : HandWrittenAlone(read[v])'
    BY <1>2, <1>3, <2>1 DEF FileInv, MergeIsOfRead, HandWrittenAlone
  <2>4. \A v \in Writers \ {w} : Forced(v)' = Forced(v)
    BY <1>1 DEF Forced, Writers
  <2> QED
    BY <1>2, <1>3, <2>2, <2>3, <2>4 DEF FileInv, MergeIsOfRead, Replacing
<1>7. CASE w = "server"
  BY <1>3, <1>4, <1>5, <1>6, <1>7 DEF FileInv, BareWas, RestartLoadsWhatRuns, Replacing, WriterSteps,
     WriterTypes
<1>8. CASE w = "cli"
  <2>1. "server" \in Writers /\ UNCHANGED serving
    BY <1>1, <1>8 DEF Writers
  <2>2. Loaded(file)' = Loaded(file) /\ Loaded(read["server"])' = Loaded(read["server"])
    BY <1>1, <1>2, <1>8, <2>1 DEF Loaded, ProfilesOf, content
  <2>3. BareWas' /\ RestartLoadsWhatRuns'
    BY <1>1, <1>2, <1>8, <2>1, <2>2 DEF FileInv, BareWas, RestartLoadsWhatRuns, serving, content
  <2> QED
    BY <1>4, <1>5, <1>6, <2>3 DEF FileInv
<1> QED
  BY <1>7, <1>8 DEF Writers

(* A power cut: the rename may be undone, and no byte is missing, for every
   byte renamed was synced. *)
LEMMA PowerKeeps == ASSUME FileInv, PowerFails PROVE FileInv'
<1>1. /\ step' = [w \in Writers |-> "off"] /\ temp' = [w \in Writers |-> "none"]
      /\ file' \in {file, lasting} /\ lasting' = file' /\ synced' = TRUE
  BY DEF PowerFails
<1>a. read' = [w \in Writers |-> {}] /\ gen' = read' /\ new' = read'
  BY DEF PowerFails, Nothing
<1>b. ~torn'
  <2>1. ~torn /\ synced
    BY DEF FileInv, BytesAreDown
  <2>2. torn' = torn \/ torn' = ~synced
    BY DEF PowerFails
  <2> QED
    BY <2>1, <2>2
<1>2. WriterTypes' /\ BytesAreDown'
  BY <1>1, <1>a, <1>b DEF WriterTypes, BytesAreDown, WriterSteps, TempStates
<1>3. MergeIsOfRead'
  BY <1>1, <1>a DEF FileInv, MergeIsOfRead, HandWrittenAlone, Replacing
<1>4. step'["server"] = "off"
  BY <1>1 DEF Writers
<1>5. BareWas' /\ RestartLoadsWhatRuns'
  BY <1>4 DEF BareWas, RestartLoadsWhatRuns, Replacing, WriterSteps
<1> QED
  BY <1>2, <1>3, <1>5 DEF FileInv

(* The operator edits: one table of a name, where every other of it was. *)
LEMMA EditKeeps == ASSUME FileInv, Edit PROVE FileInv'
<1>1. /\ ~torn' /\ synced' /\ lasting' = file' /\ disturbed' = TRUE
      /\ UNCHANGED <<step, force, writing, serving>>
  BY DEF Edit
<1>2. HandWrittenAlone(file')
  <2>1. PICK name \in {Default} \cup NamesOf(file), added \in BOOLEAN :
           file' = {t \in file : t.name # name}
                   \cup (IF added THEN {Table(name, OwnProfile, FALSE)} ELSE {})
    BY DEF Edit
  <2>2. Table(name, OwnProfile, FALSE).name = name
    BY DEF Table
  <2> QED
    BY <2>1, <2>2 DEF FileInv, MergeIsOfRead, HandWrittenAlone
<1>3. WriterTypes' /\ BytesAreDown'
  BY <1>1 DEF FileInv, WriterTypes, BytesAreDown, writing
<1>4. MergeIsOfRead'
  BY <1>1, <1>2 DEF FileInv, MergeIsOfRead, HandWrittenAlone, writing, Forced
<1>5. BareWas' /\ RestartLoadsWhatRuns'
  BY <1>1 DEF FileInv, BareWas, RestartLoadsWhatRuns, writing, serving
<1> QED
  BY <1>3, <1>4, <1>5 DEF FileInv

(* Steps of the world that touch neither the file nor its writers. *)
LEMMA WorldKeeps ==
    ASSUME FileInv, UNCHANGED <<content, step, force, writing, serving, disturbed>>
    PROVE  FileInv'
<1>1. WriterTypes' /\ BytesAreDown'
  BY DEF FileInv, WriterTypes, BytesAreDown, writing, content
<1>2. MergeIsOfRead'
  BY DEF FileInv, MergeIsOfRead, HandWrittenAlone, writing, content, Forced
<1>3. Loaded(file)' = Loaded(file) /\ Loaded(read["server"])' = Loaded(read["server"])
  BY DEF Loaded, ProfilesOf, content, writing
<1>4. BareWas' /\ RestartLoadsWhatRuns'
  BY <1>3 DEF FileInv, BareWas, RestartLoadsWhatRuns, serving, content, writing
<1> QED
  BY <1>1, <1>2, <1>4 DEF FileInv

\* The inductive invariant of the configuration file and its two writers, for
\* every scanner and every file, with no bound on starts, runs and edits.
THEOREM FileInvariant == ProfileSpec => []FileInv
<1>1. ProfileInit => FileInv
  BY FileStarts
<1>2. FileInv /\ [ProfileNext]_profileVars => FileInv'
  <2> SUFFICES ASSUME FileInv, [ProfileNext]_profileVars PROVE FileInv'
    OBVIOUS
  <2>1. CASE StartServer \/ ReadFails \/ UseProfiles
    BY <2>1, StartKeeps, ReadFailsKeeps, UseKeeps
  <2>2. CASE Run \/ RunEnds
    BY <2>2, CommandKeeps
  <2>3. CASE \E w \in Writers : Write(w)
    <3>1. PICK w \in Writers : Write(w)
      BY <2>3
    <3> QED
      BY <3>1, GenerateKeeps, MergeKeeps, ReplaceKeeps, RewriteKeeps DEF Write
  <2>4. CASE \E w \in Writers : Kill(w)
    BY <2>4, KillKeeps
  <2>5. CASE PowerFails \/ Edit
    BY <2>5, PowerKeeps, EditKeeps
  <2>6. CASE TempAges \/ ExchangeScanner \/ UNCHANGED profileVars
    BY <2>6, WorldKeeps DEF TempAges, ExchangeScanner, profileVars
  <2> QED
    BY <2>1, <2>2, <2>3, <2>4, <2>5, <2>6 DEF ProfileNext
<1> QED
  BY <1>1, <1>2, PTL DEF ProfileSpec

\* The file is whole after any kill and any power cut: every byte of a rename is
\* on the disk before it.
THEOREM FileStaysWhole == ProfileSpec => []FileIsWhole
<1>1. FileInv => FileIsWhole
  BY DEF FileInv, BytesAreDown, FileIsWhole
<1> QED
  BY <1>1, FileInvariant, PTL

\* Profiles said to be saved are those a restart loads, as long as nobody else
\* writes the file.
THEOREM RestartsLoadTheSame == ProfileSpec => []RestartLoadsWhatRuns
<1>1. FileInv => RestartLoadsWhatRuns
  BY DEF FileInv
<1> QED
  BY <1>1, FileInvariant, PTL

\* No rewrite takes an operator's table, forced or not, whatever scanner is there
\* and whoever wrote the file meanwhile.
THEOREM OperatorsKeepTheirTables == ProfileSpec => OperatorsTablesKept
<1>1. FileInv /\ [ProfileNext]_profileVars =>
        [\A w \in Writers :
            step[w] = "replace" /\ step'[w] = "syncDirectory" =>
                \A t \in read[w] \cap file : ~t.auto => t \in file']_profileVars
  <2> SUFFICES ASSUME FileInv, ProfileNext, NEW w \in Writers,
                      step[w] = "replace", step'[w] = "syncDirectory",
                      NEW t \in read[w] \cap file, ~t.auto
               PROVE  t \in file'
    OBVIOUS
  <2>t. step \in [Writers -> WriterSteps] /\ "server" \in Writers /\ "cli" \in Writers
    BY DEF FileInv, WriterTypes, Writers
  <2>1. Replace(w)
    <3>1. ~StartServer /\ ~ReadFails /\ ~UseProfiles /\ ~Run /\ ~RunEnds
      BY <2>t DEF StartServer, ReadFails, UseProfiles, Run, RunEnds, Writer
    <3>2. ~TempAges /\ ~ExchangeScanner /\ ~Edit /\ ~PowerFails
      BY <2>t DEF TempAges, ExchangeScanner, Edit, PowerFails
    <3>3. \A v \in Writers : ~Kill(v)
      BY <2>t DEF Kill, Set
    <3>4. \A v \in Writers : v # w => ~Write(v)
      BY <2>t DEF Write, Generate, ReadAndMerge, ReadRefused, Prepare, PrepareRefused, WriteTemp,
         SyncTemp, WriteFails, Replace, SyncDirectory, Refuse, Writer, Set
    <3>5. Write(w)
      BY <3>1, <3>2, <3>3, <3>4 DEF ProfileNext
    <3> QED
      BY <3>5, <2>t DEF Write, Generate, ReadAndMerge, ReadRefused, Prepare, PrepareRefused,
         WriteTemp, SyncTemp, WriteFails, SyncDirectory, Refuse, Writer, Set
  <2>2. file' = Merged(read[w], gen[w], Forced(w)) /\ HandWrittenAlone(read[w])
    BY <2>1 DEF Replace, FileInv, MergeIsOfRead, Replacing
  <2> QED
    BY <2>2, MergeKeepsHands
<1> QED
  BY <1>1, FileInvariant, PTL DEF ProfileSpec, OperatorsTablesKept

=============================================================================
