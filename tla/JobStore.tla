------------------------------ MODULE JobStore ------------------------------
(***************************************************************************)
(* The job table (job.py) as a function from job ids to rows, and its      *)
(* write operations as functions from tables to tables.  Every public      *)
(* method of JobStore holds one lock and runs one transaction, so each is  *)
(* one step of the program and one operator here.                          *)
(*                                                                         *)
(* A row keeps what the rest of the system tells apart: its state, why it  *)
(* ended (the error text and category together) and whether that text      *)
(* names kept pages.  Four states stand for a class each:                  *)
(*   "SCANNING"  SCANNING, SCANNING_REVERSE and ASSEMBLING: working, with  *)
(*               the upload not begun;                                     *)
(*   "AWAITING"  the four states that wait for a person;                   *)
(*   "UPLOADING" UPLOADING;                                                *)
(*   "DONE"      DONE and FALLBACK: the document was delivered.            *)
(* "ABSENT" is the state of an id that has no row.                         *)
(***************************************************************************)
EXTENDS Naturals, FiniteSets

CONSTANTS
    Jobs,          \* job ids, one per submitted scan
    MaxRows,       \* output.history_max_rows: run rows kept by a prune
    RejectedCap    \* REJECTED_HISTORY_ROWS: refused rows kept at any time

ASSUME StoreAssumption ==
    /\ IsFiniteSet(Jobs)
    /\ MaxRows \in Nat \ {0}
    /\ RejectedCap \in Nat \ {0}

ActiveStates == {"PENDING", "SCANNING", "AWAITING", "UPLOADING"}
TerminalStates == {"DONE", "CANCELLED", "ERROR"}

\* "restarted" is RESTART_REASON with no category, "unconfirmed" any text of
\* the UNCONFIRMED_SEND category, "failed" any other failure of the run.
Whys == {"none", "cancelled", "failed", "unconfirmed", "restarted", "rejected"}

Row(state, why, kept) == [state |-> state, why |-> why, kept |-> kept]
NoRow == Row("ABSENT", "none", FALSE)
PendingRow == Row("PENDING", "none", FALSE)
RejectedRow == Row("ERROR", "rejected", FALSE)

RowType == {NoRow} \cup
           [state : ActiveStates \cup TerminalStates, why : Whys, kept : BOOLEAN]

\* What a finishing write may record.
EndType == [state : TerminalStates, why : Whys, kept : BOOLEAN]

IsActive(row) == row.state \in ActiveStates
IsOver(row) == row.state \in TerminalStates

(* restart_error and restart_category: the row of a job that a restart or a
   stop ended, worded by the last state it was seen in. *)
RestartCategory(state) == IF state = "UPLOADING" THEN "unconfirmed" ELSE "restarted"
RestartRow(state, kept) == Row("ERROR", RestartCategory(state), kept)

-----------------------------------------------------------------------------
(* born[j] is the insertion number of j's row, 0 before it is inserted.  It
   stands for rowid and, every writer stamping UTC, for created_at. *)

Newest(ids, born, cap) ==
    {j \in ids : Cardinality({k \in ids : born[k] > born[j]}) < cap}

Refused(rows) == {j \in Jobs : rows[j].why = "rejected"}
Runs(rows) == {j \in Jobs : rows[j].state # "ABSENT"} \ Refused(rows)

Without(rows, doomed) == [j \in Jobs |-> IF j \in doomed THEN NoRow ELSE rows[j]]

TrimRejected(rows, born) ==
    Without(rows, Refused(rows) \ Newest(Refused(rows), born, RejectedCap))

InsertRow(rows, j, row) == [rows EXCEPT ![j] = row]

\* An UPDATE ... WHERE id = ? that matches no row changes nothing.
WriteRow(rows, j, row) ==
    IF rows[j].state = "ABSENT" THEN rows ELSE [rows EXCEPT ![j] = row]

UpdateState(rows, j, state) == WriteRow(rows, j, Row(state, "none", FALSE))

FinishJob(rows, born, j, end) ==
    LET written == WriteRow(rows, j, end)
    IN  IF end.why = "rejected" THEN TrimRejected(written, born) ELSE written

(* Two UPDATEs in one transaction: the uploading rows with their own text and
   category, then every row still active. *)
FailUploading(rows) ==
    [j \in Jobs |-> IF rows[j].state = "UPLOADING"
                    THEN RestartRow("UPLOADING", FALSE) ELSE rows[j]]
FailRemaining(rows) ==
    [j \in Jobs |-> IF IsActive(rows[j])
                    THEN Row("ERROR", "restarted", FALSE) ELSE rows[j]]
FailActiveSwapped(rows) == FailUploading(FailRemaining(rows))
FailActiveJobs(rows) == FailRemaining(FailUploading(rows))

FailRecoveredJobs(rows, kept) ==
    [j \in Jobs |-> IF j \in kept /\ IsActive(rows[j])
                    THEN RestartRow(rows[j].state, TRUE) ELSE rows[j]]

(* One DELETE: rows born at or before the age cutoff, run rows outside the
   newest MaxRows, refused rows outside the newest RejectedCap.  It does not
   look at the state: retention takes active rows on the same terms. *)
Prune(rows, born, cutoff) ==
    Without(rows, {j \in Jobs : born[j] <= cutoff}
                  \cup (Runs(rows) \ Newest(Runs(rows), born, MaxRows))
                  \cup (Refused(rows) \ Newest(Refused(rows), born, RejectedCap)))
=============================================================================
