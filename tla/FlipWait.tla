------------------------------ MODULE FlipWait ------------------------------
(***************************************************************************)
(* The flip prompt of a manual-duplex job: the worker thread that scans    *)
(* the fronts, waits for the stack to be turned and scans the backs; the   *)
(* request threads that deliver Continue and Abort clicks; the clock; and  *)
(* the thread that stops the server.  They meet in the job's               *)
(* WorkerFlipCoordinator (worker.py): an arming latch and an answer slot.  *)
(***************************************************************************)
EXTENDS AnswerSlot, Naturals

CONSTANTS
    Jobs,      \* manual-duplex jobs, numbered as the worker takes them
    NoJob,     \* the value of coordinator when none is installed
    Clicks     \* request threads, each delivering one click

ASSUME FlipAssumption == Jobs \subseteq Nat /\ NoJob \notin Jobs

VARIABLES
    \* The worker thread: where it is and the job it holds.
    pc, job,
    \* _flip_coordinator, by the id of its job; each coordinator's armed
    \* latch, answer slot and event.
    coordinator, armed, answer, woken,
    \* What the job's row says of the wait, and how its run resolved.
    rowAwaits, outcome,
    \* Each click: where it is, the job and answer it names, and whether its
    \* sender's page showed the prompt.
    cpc, cjob, cact, csaw,
    \* The stop flag and the stopping thread, with the coordinator it read.
    stopping, spc, scoord,
    \* History: jobs whose run has announced its flip prompt.
    asked

worker == <<pc, job>>
slots == <<armed, answer, woken>>
row == <<rowAwaits, outcome>>
clicks == <<cpc, cjob, cact, csaw>>
stop == <<stopping, spc, scoord>>
vars == <<worker, coordinator, slots, row, clicks, stop, asked>>

WorkerSteps == {"idle", "taken", "gate", "passA", "announce", "recheck",
                "interruptOffer", "interruptSet", "persist", "enterWait",
                "wait", "settle", "settled", "passB", "clear"}
ClickSteps == {"ready", "read", "signal", "offer", "set", "claimed", "dropped"}
StopSteps == {"off", "read", "arm", "offer", "set", "done"}
Answers == {"CONTINUED", "ABORTED", "TIMED_OUT", "INTERRUPTED"}
\* "done" is a document of any kind, "failed" any failure, "refused" a job the
\* gate did not let start.
Outcomes == {"none", "done", "cancelled", "failed", "interrupted", "refused"}

Init ==
    /\ pc = "idle" /\ job = NoJob
    /\ coordinator = NoJob
    /\ armed = [j \in Jobs |-> FALSE]
    /\ answer = [j \in Jobs |-> Open]
    /\ woken = [j \in Jobs |-> FALSE]
    /\ rowAwaits = [j \in Jobs |-> FALSE]
    /\ outcome = [j \in Jobs |-> "none"]
    /\ cpc = [c \in Clicks |-> "ready"]
    /\ cjob = [c \in Clicks |-> NoJob]
    /\ cact = [c \in Clicks |-> Open]
    /\ csaw = [c \in Clicks |-> FALSE]
    /\ stopping = FALSE /\ spc = "off" /\ scoord = NoJob
    /\ asked = {}

-----------------------------------------------------------------------------
(* The worker thread: _run's dequeue, _process_job and _scan_job. *)

WorkerStep(from, to) == pc = from /\ pc' = to

TakeJob ==
    /\ WorkerStep("idle", "taken")
    /\ ~stopping
    /\ \E j \in Jobs : /\ outcome[j] = "none" /\ job' = j
                      /\ \A k \in Jobs : k < j => outcome[k] # "none"
    /\ UNCHANGED <<coordinator, slots, row, clicks, stop, asked>>

InstallCoordinator ==
    /\ WorkerStep("taken", "gate")
    /\ coordinator' = job
    /\ UNCHANGED <<job, slots, row, clicks, stop, asked>>

Resolve(how) == outcome' = [outcome EXCEPT ![job] = how]

\* _refuse_to_start_while_stopping, then the start of the pipeline.
EnterGate ==
    /\ IF stopping
       THEN WorkerStep("gate", "clear") /\ Resolve("refused")
       ELSE WorkerStep("gate", "passA") /\ UNCHANGED outcome
    /\ UNCHANGED <<job, coordinator, slots, rowAwaits, clicks, stop, asked>>

(* Pass A: the fronts are in, or it stopped at its cap and is delivered as it
   is, or it failed, or the stop flag, which is the pass's abort, ended it. *)
PassA ==
    /\ \/ WorkerStep("passA", "announce") /\ UNCHANGED outcome
       \/ /\ WorkerStep("passA", "clear")
          /\ \E how \in {"done", "failed"}
                        \cup (IF stopping THEN {"interrupted"} ELSE {}) :
                Resolve(how)
    /\ UNCHANGED <<job, coordinator, slots, rowAwaits, clicks, stop, asked>>

(* _status_cb(AWAITING_FLIP): arm, look at the stop flag again, then write the
   row; a write that fails is only logged. *)
AnnounceUnarmed ==
    /\ WorkerStep("announce", "recheck")
    /\ asked' = asked \cup {job}
    /\ UNCHANGED <<job, coordinator, slots, row, clicks, stop>>
Announce ==
    /\ WorkerStep("announce", "recheck")
    /\ armed' = [armed EXCEPT ![job] = TRUE]
    /\ asked' = asked \cup {job}
    /\ UNCHANGED <<job, coordinator, answer, woken, row, clicks, stop>>

Recheck ==
    /\ WorkerStep("recheck", IF stopping THEN "interruptOffer" ELSE "persist")
    /\ UNCHANGED <<job, coordinator, slots, row, clicks, stop, asked>>

InterruptOffer ==
    /\ pc = "interruptOffer"
    /\ pc' = IF Unanswered(answer[job]) THEN "interruptSet" ELSE "persist"
    /\ answer' = [answer EXCEPT ![job] = AfterOffer(@, "INTERRUPTED")]
    /\ UNCHANGED <<job, coordinator, armed, woken, row, clicks, stop, asked>>

InterruptSet ==
    /\ WorkerStep("interruptSet", "persist")
    /\ woken' = [woken EXCEPT ![job] = TRUE]
    /\ UNCHANGED <<job, coordinator, armed, answer, row, clicks, stop, asked>>

PersistWait ==
    /\ WorkerStep("persist", "enterWait")
    /\ \E landed \in BOOLEAN : rowAwaits' = [rowAwaits EXCEPT ![job] = landed]
    /\ UNCHANGED <<job, coordinator, slots, outcome, clicks, stop, asked>>

(* wait_for_flip: the backstop arm, the wait, and the claim of TIMED_OUT. *)
EnterWait ==
    /\ WorkerStep("enterWait", "wait")
    /\ armed' = [armed EXCEPT ![job] = TRUE]
    /\ UNCHANGED <<job, coordinator, answer, woken, row, clicks, stop, asked>>

WakeUp ==
    /\ WorkerStep("wait", "settle")
    /\ woken[job]
    /\ UNCHANGED <<job, coordinator, slots, row, clicks, stop, asked>>

TimeOut ==
    /\ WorkerStep("wait", "settle")
    /\ UNCHANGED <<job, coordinator, slots, row, clicks, stop, asked>>

SettleWait ==
    /\ WorkerStep("settle", "settled")
    /\ answer' = [answer EXCEPT ![job] = Settle(@, "TIMED_OUT")]
    /\ woken' = [woken EXCEPT ![job] = TRUE]
    /\ UNCHANGED <<job, coordinator, armed, row, clicks, stop, asked>>

(* A flip that was not turned: the exception _scan_manual_duplex raises. *)
HowItEndsByStop(resolved) ==
    CASE resolved \in {"ABORTED", "INTERRUPTED"} -> "cancelled"
      [] resolved = "TIMED_OUT" -> "failed"
HowItEnds(resolved) ==
    CASE resolved = "ABORTED" -> "cancelled"
      [] resolved = "TIMED_OUT" -> "failed"
      [] resolved = "INTERRUPTED" -> "interrupted"

(* The match on the answer in _scan_manual_duplex.  Pass B announces
   SCANNING_REVERSE, whose write may fail and leave the row awaiting. *)
ActOnAnswer ==
    /\ pc = "settled"
    /\ IF answer[job] = "CONTINUED"
       THEN /\ pc' = "passB"
            /\ \E landed \in BOOLEAN :
                  rowAwaits' = [rowAwaits EXCEPT ![job] = @ /\ ~landed]
            /\ UNCHANGED outcome
       ELSE /\ pc' = "clear"
            /\ Resolve(HowItEnds(answer[job]))
            /\ UNCHANGED rowAwaits
    /\ UNCHANGED <<job, coordinator, slots, clicks, stop, asked>>

PassB ==
    /\ WorkerStep("passB", "clear")
    /\ \E how \in {"done", "failed"}
                  \cup (IF stopping THEN {"interrupted"} ELSE {}) :
          Resolve(how)
    /\ UNCHANGED <<job, coordinator, slots, rowAwaits, clicks, stop, asked>>

(* The terminal write, if it lands, and the finally arm of _process_job. *)
ClearCoordinator ==
    /\ WorkerStep("clear", "idle")
    /\ \E landed \in BOOLEAN :
          rowAwaits' = [rowAwaits EXCEPT ![job] = @ /\ ~landed]
    /\ coordinator' = NoJob
    /\ job' = NoJob
    /\ UNCHANGED <<slots, outcome, clicks, stop, asked>>

Worker ==
    \/ TakeJob \/ InstallCoordinator \/ EnterGate \/ PassA \/ Announce
    \/ Recheck \/ InterruptOffer \/ InterruptSet \/ PersistWait \/ EnterWait
    \/ WakeUp \/ TimeOut \/ SettleWait \/ ActOnAnswer \/ PassB
    \/ ClearCoordinator

-----------------------------------------------------------------------------
(* A click: continue_flip or abort_flip, to _signal_flip.  It may be sent at
   any moment, by a page that shows the prompt or by one that does not. *)

ClickStep(c, from, to) == cpc[c] = from /\ cpc' = [cpc EXCEPT ![c] = to]

SendClick(c) ==
    /\ ClickStep(c, "ready", "read")
    /\ \E j \in Jobs, act \in {"CONTINUED", "ABORTED"} :
          /\ cjob' = [cjob EXCEPT ![c] = j] /\ cact' = [cact EXCEPT ![c] = act]
          /\ csaw' = [csaw EXCEPT ![c] = rowAwaits[j]]
    /\ UNCHANGED <<worker, coordinator, slots, row, stop, asked>>

\* A click that is dropped forgets what it was going to say.
Proceed(c, from, to) ==
    /\ ClickStep(c, from, to)
    /\ cact' = IF to = "dropped" THEN [cact EXCEPT ![c] = Open] ELSE cact

\* The coordinator is read once and its own job id compared.
ReadCoordinator(c) ==
    /\ Proceed(c, "read", IF coordinator = cjob[c] THEN "signal" ELSE "dropped")
    /\ UNCHANGED <<worker, coordinator, slots, row, cjob, csaw, stop, asked>>

\* _signal: dropped until the prompt is armed.
SignalUnguarded(c) ==
    /\ Proceed(c, "signal", "offer")
    /\ UNCHANGED <<worker, coordinator, slots, row, cjob, csaw, stop, asked>>
Signal(c) ==
    /\ Proceed(c, "signal", IF armed[cjob[c]] THEN "offer" ELSE "dropped")
    /\ UNCHANGED <<worker, coordinator, slots, row, cjob, csaw, stop, asked>>

OfferAnswer(c) ==
    /\ Proceed(c, "offer", IF Unanswered(answer[cjob[c]]) THEN "set" ELSE "dropped")
    /\ answer' = [answer EXCEPT ![cjob[c]] = AfterOffer(@, cact[c])]
    /\ UNCHANGED <<worker, coordinator, armed, woken, row, cjob, csaw,
                   stop, asked>>

SetEvent(c) ==
    /\ Proceed(c, "set", "claimed")
    /\ woken' = [woken EXCEPT ![cjob[c]] = TRUE]
    /\ UNCHANGED <<worker, coordinator, armed, answer, row, cjob, csaw,
                   stop, asked>>

Click(c) ==
    \/ SendClick(c) \/ ReadCoordinator(c) \/ Signal(c) \/ OfferAnswer(c)
    \/ SetEvent(c)

-----------------------------------------------------------------------------
(* stop(): the flag, then the coordinator of the moment, then its
   interrupt_for_shutdown, which arms before it offers. *)

StopStep(from, to) == spc = from /\ spc' = to

StopSets ==
    /\ StopStep("off", "read")
    /\ stopping' = TRUE
    /\ UNCHANGED <<worker, coordinator, slots, row, clicks, scoord, asked>>

ShownCoordinator ==
    IF coordinator # NoJob /\ rowAwaits[coordinator] THEN coordinator ELSE NoJob
WaitingCoordinator == coordinator

StopReads ==
    /\ scoord' = WaitingCoordinator
    /\ StopStep("read", IF scoord' = NoJob THEN "done" ELSE "arm")
    /\ UNCHANGED <<worker, coordinator, slots, row, clicks, stopping, asked>>

StopArms ==
    /\ StopStep("arm", "offer")
    /\ armed' = [armed EXCEPT ![scoord] = TRUE]
    /\ UNCHANGED <<worker, coordinator, answer, woken, row, clicks, stopping,
                   scoord, asked>>

StopOffers ==
    /\ spc = "offer"
    /\ spc' = IF Unanswered(answer[scoord]) THEN "set" ELSE "done"
    /\ answer' = [answer EXCEPT ![scoord] = AfterOffer(@, "INTERRUPTED")]
    /\ scoord' = IF spc' = "set" THEN scoord ELSE NoJob
    /\ UNCHANGED <<worker, coordinator, armed, woken, row, clicks, stopping, asked>>

StopWakes ==
    /\ StopStep("set", "done")
    /\ woken' = [woken EXCEPT ![scoord] = TRUE]
    /\ scoord' = NoJob
    /\ UNCHANGED <<worker, coordinator, armed, answer, row, clicks, stopping, asked>>

Stop == StopSets \/ StopReads \/ StopArms \/ StopOffers \/ StopWakes

Next == Worker \/ Stop \/ \E c \in Clicks : Click(c)

Spec == Init /\ [][Next]_vars

(* Fairness: every thread under way goes on (each of its steps changes its own
   program counter, hence the subscripts), and a pass ends, because its scan
   child has deadlines.  The clock gets none: what must end without it is the
   question.  Nobody owes a click or a stop. *)
WorkerGoesOn ==
    \/ TakeJob \/ InstallCoordinator \/ EnterGate \/ PassA \/ Announce
    \/ Recheck \/ InterruptOffer \/ InterruptSet \/ PersistWait \/ EnterWait
    \/ WakeUp \/ SettleWait \/ ActOnAnswer \/ PassB \/ ClearCoordinator

ClickGoesOn(c) ==
    ReadCoordinator(c) \/ Signal(c) \/ OfferAnswer(c) \/ SetEvent(c)

Fairness ==
    /\ WF_pc(WorkerGoesOn)
    /\ WF_spc(StopReads \/ StopArms \/ StopOffers \/ StopWakes)
    /\ \A c \in Clicks : WF_cpc(ClickGoesOn(c))

FairSpec == Spec /\ Fairness

-----------------------------------------------------------------------------
TypeOK ==
    /\ pc \in WorkerSteps /\ job \in Jobs \cup {NoJob}
    /\ coordinator \in Jobs \cup {NoJob}
    /\ armed \in [Jobs -> BOOLEAN] /\ woken \in [Jobs -> BOOLEAN]
    /\ answer \in [Jobs -> Answers \cup {Open}]
    /\ rowAwaits \in [Jobs -> BOOLEAN]
    /\ outcome \in [Jobs -> Outcomes]
    /\ cpc \in [Clicks -> ClickSteps]
    /\ cjob \in [Clicks -> Jobs \cup {NoJob}]
    /\ cact \in [Clicks -> {"CONTINUED", "ABORTED", Open}]
    /\ csaw \in [Clicks -> BOOLEAN]
    /\ stopping \in BOOLEAN /\ spc \in StopSteps
    /\ scoord \in Jobs \cup {NoJob}
    /\ asked \subseteq Jobs

(* A click that was told it counted is the answer of the job it names, and at
   most one click counts per job: neither the clock, a stop nor another click
   overrules an answer the operator was told of. *)
ClaimIsTheAnswer ==
    \A c \in Clicks : cpc[c] \in {"set", "claimed"} =>
        /\ answer[cjob[c]] = cact[c]
        /\ \A d \in Clicks \ {c} :
              cpc[d] \in {"set", "claimed"} => cjob[d] # cjob[c]

(* A scan is thrown away only by an Abort, and the backs are scanned only on a
   Continue, that was claimed for that very job. *)
OutcomeWasChosen ==
    \A j \in Jobs :
        /\ outcome[j] = "cancelled" => answer[j] = "ABORTED"
        /\ answer[j] \in {"CONTINUED", "ABORTED"} =>
              \E c \in Clicks : /\ cjob[c] = j /\ cact[c] = answer[j]
                                /\ cpc[c] \in {"set", "claimed"}

(* Who answers a flip prompt decides it: a claimed click is the answer, and no
   run ends, or goes on, against it (flip.py:154, worker.py:1009). *)
ClaimsDecide == TypeOK /\ ClaimIsTheAnswer /\ OutcomeWasChosen

(* A click sent from a page that shows the prompt is dropped only if the wait
   has already been answered: never because the coordinator was not yet
   armed, or was taken away without an answer. *)
ShownPromptAccepts ==
    \A c \in Clicks : csaw[c] /\ cpc[c] = "dropped" => ~Unanswered(answer[cjob[c]])

(* Unless the server is stopping, no click answers a prompt that the run has
   not announced: the stack has not been fed yet. *)
NoEarlyAnswer ==
    [][\A j \in Jobs :
          answer'[j] # answer[j] /\ answer'[j] \in {"CONTINUED", "ABORTED"} =>
              j \in asked \/ stopping]_vars

(* The documented promise without that proviso. *)
ClicksAnswerAskedPrompts ==
    [][\A j \in Jobs :
          answer'[j] # answer[j] /\ answer'[j] \in {"CONTINUED", "ABORTED"} =>
              j \in asked]_vars

(* A stop frees the worker thread without the clock: whenever it comes, a
   flip wait that is open, about to open or still ahead is answered. *)
StopFreesWorker == stopping ~> pc = "idle"
=============================================================================
