----------------------------- MODULE MultiPage -----------------------------
(***************************************************************************)
(* A multi-page document (pipeline.py): pass after pass, with a question   *)
(* to the operator after each, until the document is delivered, thrown     *)
(* away or kept.  The run asks through one of two coordinators:            *)
(*                                                                         *)
(* - "web": WorkerPassCoordinator (worker.py), answered by request threads *)
(*   and by the clock, and interrupted by the thread that stops the server;*)
(* - "terminal": ClickPassCoordinator (cli.py), which reads the answer on  *)
(*   the run's own thread, where a signal or Ctrl-C can land at any step.  *)
(*                                                                         *)
(* A page is the pass that scanned it, its place in the pass and whether   *)
(* it looks blank.  Unreadable sheets, substituted sources and previews    *)
(* only change texts and are left out; a page looks blank only when the    *)
(* profile has empty-page detection on.                                    *)
(***************************************************************************)
EXTENDS AnswerSlot, SequencesExt

CONSTANTS
    Shapes,         \* what a pass may scan: sequences of "looks blank"
    DocumentCap,    \* MAX_DOCUMENT_PAGES
    Clicks,         \* request threads, each delivering one answer
    TerminalPasses  \* bound: passes a terminal operator starts

ASSUME MultiPageAssumption ==
    /\ Shapes \subseteq Seq(BOOLEAN) \ {<<>>}
    /\ DocumentCap \in Nat \ {0} /\ TerminalPasses \in Nat

VARIABLES
    front,          \* which coordinator the run has
    pc,             \* where the run is
    doc,            \* _MultiPageDocument: records, removed, passes, started, warned
    flight,         \* the ledger's pass in flight, <<>> when there is none
    skip, capped,   \* of the pass being settled: pages to leave out, its cap
    doomed,         \* files of a pass thrown away, still to be unlinked
    artefact,       \* artefacts.document
    stage,          \* artefacts.stage
    files,          \* the page files in the spool
    question,       \* the prompt the run is about to ask
    slots,          \* every published prompt, with its answer slot
    superseded,     \* _superseded
    reply, broken,  \* what the last ask returned, and its abort_cause
    row,            \* the number of the question the job's row names, 0 if none
    uploaded, kept, spared,   \* delivered; moved to failed/; workspace left
    outcome,        \* how the run ended, or is going to end
    decided,        \* history: per accepted pass, the pages it is to deliver
    cpc, cnum, cans, cslot,   \* clicks: step, prompt and answer named, slot read
    stopping, spc, sslot      \* the stop flag, the stopping thread, its slot

document == <<doc, flight, skip, capped, doomed, artefact, stage, files, decided>>
coordinator == <<slots, superseded>>
asking == <<question, reply, broken, row>>
ending == <<uploaded, kept, spared, outcome>>
clicks == <<cpc, cnum, cans, cslot>>
stop == <<stopping, spc, sslot>>
vars == <<front, pc, document, coordinator, asking, ending, clicks, stop>>

Operator == {"NEXT", "RESCAN", "FINISH", "ABORT", "SKIP_BLANKS", "KEEP_BLANKS"}
RetryAnswers == {"NEXT", "FINISH", "ABORT"}
BlankAnswers == {"RESCAN", "SKIP_BLANKS", "KEEP_BLANKS"}
EndingsNobodyOffers == {"TIMED_OUT", "INTERRUPTED"}
NoQuestion == [wait |-> "none", offered |-> {}]

Init ==
    /\ front \in {"web", "terminal"} /\ pc = "ready"
    /\ doc = [records |-> <<>>, removed |-> {}, passes |-> <<>>,
              started |-> 0, warned |-> FALSE]
    /\ flight = <<>> /\ skip = {} /\ capped = FALSE /\ doomed = {}
    /\ artefact = <<>> /\ stage = "ACQUIRING" /\ files = {} /\ decided = <<>>
    /\ slots = <<>> /\ superseded = FALSE
    /\ question = NoQuestion /\ reply = "none" /\ broken = FALSE /\ row = 0
    /\ uploaded = <<>> /\ kept = {} /\ spared = FALSE /\ outcome = "none"
    /\ cpc = [c \in Clicks |-> "ready"]
    /\ cnum = [c \in Clicks |-> 0] /\ cans = [c \in Clicks |-> "NEXT"]
    /\ cslot = [c \in Clicks |-> 0]
    /\ stopping = FALSE /\ spc = "off" /\ sslot = 0

Step(from, to) == pc = from /\ pc' = to

\* The run leaves execute's try with a failure the guard keeps pages for.
FailAs(how) == pc' = "preserve" /\ outcome' = how /\ UNCHANGED <<uploaded, kept, spared>>

-----------------------------------------------------------------------------
(* The document: positions are 1-based places in records. *)

KeptCount(d) == Len(d.records) - Cardinality(d.removed)

KeptPages(d) ==
    LET left == DOMAIN d.records \ d.removed
        rank(i) == Cardinality({j \in left : j <= i})
    IN  [k \in 1..Cardinality(left) |-> d.records[CHOOSE i \in left : rank(i) = k]]

WithPassUnshifted(d, pages, skipped, cap) ==
    [d EXCEPT !.removed = @ \cup skipped,
              !.records = @ \o pages,
              !.passes = Append(@, [pages |-> Len(pages), cap |-> cap])]
\* _accept_pass: every page joins the records, the skipped ones by position.
WithPass(d, pages, skipped, cap) ==
    [d EXCEPT !.removed = @ \cup {Len(d.records) + k : k \in skipped},
              !.records = @ \o pages,
              !.passes = Append(@, [pages |-> Len(pages), cap |-> cap])]

\* _discard_last_pass: the last pass's pages are the last records.
WithoutLastPass(d) ==
    LET first == Len(d.records) - Last(d.passes).pages
    IN  [d EXCEPT !.passes = Front(@), !.records = SubSeq(@, 1, first),
                  !.removed = {k \in @ : k <= first}]

LooksBlank(pages) == {k \in DOMAIN pages : pages[k].blank}

-----------------------------------------------------------------------------
(* One pass: _after_pass, _scan_pass. *)

\* No later pass starts once the server is stopping.
BeginPass ==
    /\ pc = "ready"
    /\ IF doc.started > 0 /\ stopping
       THEN FailAs("interrupted") /\ UNCHANGED <<doc, row>>
       ELSE /\ pc' = "scan"
            /\ doc' = [doc EXCEPT !.started = @ + 1]
            /\ \E landed \in BOOLEAN :
                  row' = IF doc.started > 0 /\ landed THEN 0 ELSE row
            /\ UNCHANGED ending
    /\ UNCHANGED <<front, flight, skip, capped, doomed, artefact, stage, files,
                   decided, coordinator, question, reply, broken, clicks, stop>>

(* The pages that reached the spool, in the sink the ledger tracks. *)
ScanPages ==
    /\ Step("scan", "scanned")
    /\ \E shape \in Shapes \cup {<<>>} :
          flight' = [k \in DOMAIN shape |->
                        [pass |-> doc.started, at |-> k, blank |-> shape[k]]]
    /\ files' = files \cup Range(flight')
    /\ UNCHANGED <<front, doc, skip, capped, doomed, artefact, stage, decided,
                   coordinator, asking, ending, clicks, stop>>

Asks(wait, offered) ==
    /\ pc' = "announce"
    /\ question' = [wait |-> wait, offered |-> offered]

\* The pass is whole.  Its blank pages are asked about, once.
PassEnds ==
    /\ pc = "scanned" /\ flight # <<>>
    /\ capped' \in BOOLEAN
    /\ IF LooksBlank(flight) # {}
       THEN Asks("BLANK_DECISION", BlankAnswers) /\ UNCHANGED reply
       ELSE pc' = "accept" /\ reply' = "none" /\ UNCHANGED question
    /\ skip' = {}
    /\ UNCHANGED <<front, doc, flight, doomed, artefact, stage, files, decided,
                   coordinator, broken, row, ending, clicks, stop>>

(* The pass failed, or returned no page: a fault the operator can put right
   goes back to them once a page is kept, any other fails the run. *)
PassFaults ==
    /\ pc = "scanned"
    /\ \/ /\ KeptCount(doc) > 0
          /\ pc' = "forget" /\ reply' = "FAULT" /\ UNCHANGED ending
       \/ FailAs("failed") /\ UNCHANGED reply
    /\ UNCHANGED <<front, document, coordinator, question, broken, row, clicks, stop>>

\* The stop flag is the pass's abort.
PassAborted ==
    /\ pc = "scanned" /\ stopping
    /\ FailAs("interrupted")
    /\ UNCHANGED <<front, document, coordinator, asking, clicks, stop>>

-----------------------------------------------------------------------------
(* Accepting and throwing away, statement by statement: a signal may land
   between any two. *)

AcceptForgets ==
    /\ Step("accept", "acceptArtefact")
    /\ doc' = WithPass(doc, flight, skip, capped)
    /\ decided' = Append(decided, [p \in Range(flight) |-> p.at \notin skip])
    /\ flight' = <<>>
    /\ UNCHANGED <<front, skip, capped, doomed, artefact, stage, files,
                   coordinator, asking, ending, clicks, stop>>
AcceptPass ==
    /\ Step("accept", "acceptArtefact")
    /\ doc' = WithPass(doc, flight, skip, capped)
    /\ decided' = Append(decided, [p \in Range(flight) |-> p.at \notin skip])
    /\ UNCHANGED <<front, flight, skip, capped, doomed, artefact, stage, files,
                   coordinator, asking, ending, clicks, stop>>

AcceptArtefact ==
    /\ Step("acceptArtefact", "acceptForget")
    /\ artefact' = doc.records
    /\ UNCHANGED <<front, doc, flight, skip, capped, doomed, stage, files,
                   decided, coordinator, asking, ending, clicks, stop>>

AcceptForget ==
    /\ Step("acceptForget", "accepted")
    /\ flight' = <<>>
    /\ UNCHANGED <<front, doc, skip, capped, doomed, artefact, stage, files,
                   decided, coordinator, asking, ending, clicks, stop>>

NextPassAlwaysFinishes == {"NEXT", "RESCAN", "ABORT", "FINISH"}
NextPassAnswers ==
    {"NEXT", "RESCAN", "ABORT"} \cup (IF KeptCount(doc) > 0 THEN {"FINISH"} ELSE {})

(* What follows an accepted pass: the document ends at a blank-page prompt
   nobody answered, at a pass that stopped at its cap, or at the document's
   own cap; otherwise the operator is asked for the next. *)
AfterPassSilently ==
    /\ pc = "accepted"
    /\ IF reply = "TIMED_OUT" \/ capped \/ KeptCount(doc) >= DocumentCap
       THEN pc' = "finish" /\ UNCHANGED <<doc, question>>
       ELSE Asks("NEXT_PASS", NextPassAnswers) /\ UNCHANGED doc
    /\ UNCHANGED <<front, flight, skip, capped, doomed, artefact, stage, files,
                   decided, coordinator, reply, broken, row, ending, clicks, stop>>
AfterPass ==
    /\ pc = "accepted"
    /\ IF reply = "TIMED_OUT" \/ capped \/ KeptCount(doc) >= DocumentCap
       THEN pc' = "finish" /\ doc' = [doc EXCEPT !.warned = TRUE] /\ UNCHANGED question
       ELSE Asks("NEXT_PASS", NextPassAnswers) /\ UNCHANGED doc
    /\ UNCHANGED <<front, flight, skip, capped, doomed, artefact, stage, files,
                   decided, coordinator, reply, broken, row, ending, clicks, stop>>

\* _SpoolLedger.discard: forget the pass, then unlink its files.
ForgetPass ==
    /\ Step("forget", "unlink")
    /\ flight' = <<>> /\ doomed' = Range(flight)
    /\ UNCHANGED <<front, doc, skip, capped, artefact, stage, files, decided,
                   coordinator, asking, ending, clicks, stop>>

\* _discard_last_pass: the document first, then the guard's, then the files.
PopPassUnlinksFirst ==
    /\ Step("pop", "popArtefact")
    /\ doc' = WithoutLastPass(doc)
    /\ decided' = Front(decided)
    /\ doomed' = Range(doc.records) \ Range(doc'.records)
    /\ files' = files \ doomed'
    /\ UNCHANGED <<front, flight, skip, capped, artefact, stage,
                   coordinator, asking, ending, clicks, stop>>
PopPass ==
    /\ Step("pop", "popArtefact")
    /\ doc' = WithoutLastPass(doc)
    /\ decided' = Front(decided)
    /\ doomed' = Range(doc.records) \ Range(doc'.records)
    /\ UNCHANGED <<front, flight, skip, capped, artefact, stage, files,
                   coordinator, asking, ending, clicks, stop>>

PopArtefact ==
    /\ Step("popArtefact", "unlink")
    /\ artefact' = doc.records
    /\ UNCHANGED <<front, doc, flight, skip, capped, doomed, stage, files,
                   decided, coordinator, asking, ending, clicks, stop>>

(* _unlink_pages: a file that cannot be removed is logged and left.  Then the
   operator is asked about a fault, or the pass they wanted again starts. *)
Unlink ==
    /\ pc = "unlink"
    /\ \E refused \in BOOLEAN : files' = IF refused THEN files ELSE files \ doomed
    /\ doomed' = {}
    /\ IF reply = "FAULT"
       THEN Asks("RETRY", RetryAnswers)
       ELSE pc' = "ready" /\ UNCHANGED question
    /\ UNCHANGED <<front, doc, flight, skip, capped, artefact, stage, decided,
                   coordinator, reply, broken, row, ending, clicks, stop>>

-----------------------------------------------------------------------------
(* Asking on the web: _status_cb announces the wait and writes the row, then
   WorkerPassCoordinator.ask. *)

AnnounceNothing ==
    /\ Step("announce", "persist") /\ front = "web"
    /\ UNCHANGED <<front, document, coordinator, asking, ending, clicks, stop>>
Announce ==
    /\ Step("announce", "persist") /\ front = "web"
    /\ superseded' = TRUE
    /\ UNCHANGED <<front, document, slots, asking, ending, clicks, stop>>

PersistWait ==
    /\ Step("persist", "ask")
    /\ \E landed \in BOOLEAN : row' = IF landed THEN Len(slots) + 1 ELSE row
    /\ UNCHANGED <<front, document, coordinator, question, reply, broken, ending,
                   clicks, stop>>

AskWhileStopping ==
    /\ Step("ask", "act") /\ stopping
    /\ reply' = "INTERRUPTED"
    /\ UNCHANGED <<front, document, coordinator, question, broken, row, ending,
                   clicks, stop>>

AskChecks ==
    /\ Step("ask", "publish") /\ ~stopping
    /\ UNCHANGED <<front, document, coordinator, asking, ending, clicks, stop>>

Publish ==
    /\ Step("publish", "recheck")
    /\ slots' = Append(slots, [offered |-> question.offered, answer |-> Open,
                               woken |-> FALSE])
    /\ superseded' = FALSE
    /\ UNCHANGED <<front, document, asking, ending, clicks, stop>>

\* Offered on the thread that is about to wait, so the wake-up is no step.
RecheckNothing ==
    /\ Step("recheck", "wait")
    /\ UNCHANGED <<front, document, coordinator, asking, ending, clicks, stop>>
Recheck ==
    /\ Step("recheck", "wait")
    /\ slots' = IF stopping
                THEN [slots EXCEPT ![Len(slots)].answer = AfterOffer(@, "INTERRUPTED"),
                                   ![Len(slots)].woken = TRUE]
                ELSE slots
    /\ UNCHANGED <<front, document, superseded, asking, ending, clicks, stop>>

WaitEnds ==
    /\ Step("wait", "settle")
    /\ UNCHANGED <<front, document, coordinator, asking, ending, clicks, stop>>
WakeUp == slots # <<>> /\ Last(slots).woken /\ WaitEnds
TimeOut == WaitEnds

SettleWait ==
    /\ Step("settle", "act")
    /\ slots' = [slots EXCEPT ![Len(slots)].answer = Settle(@, "TIMED_OUT"),
                              ![Len(slots)].woken = TRUE]
    /\ reply' = Last(slots').answer
    /\ UNCHANGED <<front, document, superseded, question, broken, row, ending,
                   clicks, stop>>

(* Asking at the terminal: an offered letter; Ctrl-C or end of input, which is
   an ABORT whatever is offered; the clock; or a read that broke. *)
TerminalAsk ==
    /\ Step("announce", "act") /\ front = "terminal"
    /\ \E answer \in question.offered \cup {"ABORT", "TIMED_OUT"} :
          /\ answer \in {"NEXT", "RESCAN"} => doc.started < TerminalPasses
          /\ reply' = answer
          /\ broken' \in IF answer = "ABORT" THEN BOOLEAN ELSE {FALSE}
          /\ slots' = Append(slots, [offered |-> question.offered,
                                     answer |-> answer, woken |-> TRUE])
    /\ UNCHANGED <<front, document, superseded, question, row, ending, clicks, stop>>

-----------------------------------------------------------------------------
(* Acting on the answer: _ask's endings, then the match of _scan_multi_page or
   of _settle_blanks. *)

OffMenu(answer) == answer \notin question.offered \cup EndingsNobodyOffers

Cancel == /\ pc' = "done" /\ outcome' = "cancelled" /\ files' = {}
          /\ UNCHANGED <<uploaded, kept, spared>>

ActEnds ==
    /\ pc = "act"
    /\ \/ OffMenu(reply) /\ FailAs("failed") /\ UNCHANGED files
       \/ /\ ~OffMenu(reply) /\ reply = "ABORT"
          /\ IF broken THEN FailAs("failed") /\ UNCHANGED files ELSE Cancel
       \/ reply = "INTERRUPTED" /\ FailAs("interrupted") /\ UNCHANGED files
    /\ UNCHANGED <<front, doc, flight, skip, capped, doomed, artefact, stage,
                   decided, coordinator, asking, clicks, stop>>

ActOnNext ==
    /\ pc = "act" /\ question.wait # "BLANK_DECISION"
    /\ ~OffMenu(reply) /\ reply \in {"NEXT", "RESCAN", "FINISH", "TIMED_OUT"}
    /\ pc' = CASE reply = "NEXT" -> "ready"
               [] reply = "RESCAN" -> "pop"
               [] OTHER -> "finish"
    /\ doc' = [doc EXCEPT !.warned = (reply = "TIMED_OUT")]
    /\ UNCHANGED <<front, flight, skip, capped, doomed, artefact, stage, files,
                   decided, coordinator, asking, ending, clicks, stop>>

ActOnBlanks ==
    /\ pc = "act" /\ question.wait = "BLANK_DECISION"
    /\ ~OffMenu(reply) /\ reply # "INTERRUPTED"
    /\ pc' = IF reply = "RESCAN" THEN "forget" ELSE "accept"
    /\ skip' = IF reply \in {"SKIP_BLANKS", "TIMED_OUT"} THEN LooksBlank(flight) ELSE {}
    /\ UNCHANGED <<front, doc, flight, capped, doomed, artefact, stage, files,
                   decided, coordinator, asking, ending, clicks, stop>>

-----------------------------------------------------------------------------
(* The end: _finish_multi_page, and execute's guard. *)

Finish ==
    /\ pc = "finish"
    /\ stage' = "FILTERING" /\ artefact' = doc.records
    /\ IF KeptCount(doc) = 0
       THEN FailAs("allBlank")
       ELSE pc' = "assemble" /\ UNCHANGED ending
    /\ UNCHANGED <<front, doc, flight, skip, capped, doomed, files, decided,
                   coordinator, asking, clicks, stop>>

Assemble ==
    /\ pc = "assemble"
    /\ \/ pc' = "deliver" /\ stage' = "DELIVERING" /\ UNCHANGED ending
       \/ FailAs("failed") /\ stage' = "ASSEMBLING"
    /\ UNCHANGED <<front, doc, flight, skip, capped, doomed, artefact, files,
                   decided, coordinator, asking, clicks, stop>>

Deliver ==
    /\ pc = "deliver"
    /\ \/ /\ pc' = "done" /\ outcome' = "delivered" /\ stage' = "DELIVERED"
          /\ uploaded' = KeptPages(doc) /\ files' = {}
          /\ UNCHANGED <<kept, spared>>
       \/ FailAs("failed") /\ UNCHANGED <<stage, files>>
    /\ UNCHANGED <<front, doc, flight, skip, capped, doomed, artefact, decided,
                   coordinator, asking, clicks, stop>>

\* What preserve_most_finished tries to keep as PDFs, by how far the run got.
AsPDFs ==
    CASE stage = "DELIVERING" -> {Range(KeptPages(doc))}
      [] stage = "ASSEMBLING" -> {}
      [] stage = "ACQUIRING" /\ artefact # <<>> -> {Range(artefact), Range(flight)}
      [] stage = "FILTERING" -> {Range(artefact)}
      [] OTHER -> {Range(flight)}

(* Each PDF is kept or not, and cannot be built from a page that is gone.  If
   one is not, or there is none, the page files are moved as far as that goes,
   and the workspace stays when some could not be. *)
Preserve ==
    /\ Step("preserve", "done")
    /\ \E built \in SUBSET (AsPDFs \ {{}}), moved \in {{}, files} :
          /\ stage # "DELIVERING" => \A pdf \in built : pdf \subseteq files
          /\ IF built = AsPDFs \ {{}} /\ built # {}
             THEN kept' = UNION built /\ spared' = FALSE
             ELSE /\ kept' = (UNION built) \cup moved
                  /\ spared' = (moved # files)
    /\ files' = IF spared' THEN files ELSE {}
    /\ UNCHANGED <<front, doc, flight, skip, capped, doomed, artefact, stage,
                   decided, coordinator, asking, uploaded, outcome, clicks, stop>>

(* At the terminal: SIGTERM or SIGHUP, once, at any step before the outcome is
   settled; and Ctrl-C outside a question. *)
Signal ==
    /\ front = "terminal" /\ pc \notin {"preserve", "done"}
    /\ FailAs("interrupted")
    /\ UNCHANGED <<front, document, coordinator, asking, clicks, stop>>

CtrlC ==
    /\ front = "terminal" /\ pc \notin {"preserve", "done"}
    /\ Cancel
    /\ UNCHANGED <<front, doc, flight, skip, capped, doomed, artefact, stage,
                   decided, coordinator, asking, clicks, stop>>

Run ==
    \/ BeginPass \/ ScanPages \/ PassEnds \/ PassFaults \/ PassAborted
    \/ AcceptPass \/ AcceptArtefact \/ AcceptForget \/ AfterPass
    \/ ForgetPass \/ PopPass \/ PopArtefact \/ Unlink
    \/ Announce \/ PersistWait \/ AskWhileStopping \/ AskChecks \/ Publish
    \/ Recheck \/ WakeUp \/ SettleWait \/ TerminalAsk
    \/ ActEnds \/ ActOnNext \/ ActOnBlanks
    \/ Finish \/ Assemble \/ Deliver \/ Preserve

-----------------------------------------------------------------------------
(* A click: answer_multi_page, answer_pass, WorkerPassCoordinator.answer.  The
   page it comes from may show any prompt published so far.  Clicks and stops
   begun after the run find no coordinator and are left out. *)

SendClick(c) ==
    /\ front = "web" /\ pc # "done" /\ cpc[c] = "ready"
    /\ cpc' = [cpc EXCEPT ![c] = "read"]
    /\ \E n \in DOMAIN slots : cnum' = [cnum EXCEPT ![c] = n]
    /\ \E answer \in Operator : cans' = [cans EXCEPT ![c] = answer]
    /\ UNCHANGED <<front, pc, document, coordinator, asking, ending, cslot, stop>>

\* The snapshot: the latest prompt with its slot, checked by number and offer.
ReadPromptIf(c, right) ==
    /\ cpc[c] = "read"
    /\ cpc' = [cpc EXCEPT ![c] =
                  IF pc # "done" /\ right /\ cans[c] \in Last(slots).offered
                  THEN "offer" ELSE "dropped"]
    /\ cslot' = [cslot EXCEPT ![c] = Len(slots)]
    /\ UNCHANGED <<front, pc, document, coordinator, asking, ending, cnum, cans, stop>>
ReadPromptUnnumbered(c) == ReadPromptIf(c, TRUE)
ReadPrompt(c) == ReadPromptIf(c, cnum[c] = Len(slots))

OfferAnswer(c) ==
    /\ cpc[c] = "offer"
    /\ cpc' = [cpc EXCEPT ![c] =
                  IF Unanswered(slots[cslot[c]].answer) THEN "set" ELSE "dropped"]
    /\ slots' = [slots EXCEPT ![cslot[c]].answer = AfterOffer(@, cans[c])]
    /\ UNCHANGED <<front, pc, document, superseded, asking, ending, cnum, cans,
                   cslot, stop>>

SetEvent(c) ==
    /\ cpc[c] = "set"
    /\ cpc' = [cpc EXCEPT ![c] = "claimed"]
    /\ slots' = [slots EXCEPT ![cslot[c]].woken = TRUE]
    /\ UNCHANGED <<front, pc, document, superseded, asking, ending, cnum, cans,
                   cslot, stop>>

ClickGoesOn(c) == ReadPrompt(c) \/ OfferAnswer(c) \/ SetEvent(c)

(* stop(): the flag, then interrupt_for_shutdown on the slot of the moment. *)
StopSets ==
    /\ front = "web" /\ pc # "done" /\ spc = "off" /\ spc' = "read"
    /\ stopping' = TRUE
    /\ UNCHANGED <<front, pc, document, coordinator, asking, ending, clicks, sslot>>

StopReads ==
    /\ spc = "read"
    /\ sslot' = IF pc = "done" THEN 0 ELSE Len(slots)
    /\ spc' = IF sslot' = 0 THEN "done" ELSE "offer"
    /\ UNCHANGED <<front, pc, document, coordinator, asking, ending, clicks, stopping>>

StopOffers ==
    /\ spc = "offer"
    /\ spc' = IF Unanswered(slots[sslot].answer) THEN "set" ELSE "done"
    /\ slots' = [slots EXCEPT ![sslot].answer = AfterOffer(@, "INTERRUPTED")]
    /\ UNCHANGED <<front, pc, document, superseded, asking, ending, clicks,
                   stopping, sslot>>

StopWakes ==
    /\ spc = "set" /\ spc' = "done"
    /\ slots' = [slots EXCEPT ![sslot].woken = TRUE]
    /\ UNCHANGED <<front, pc, document, superseded, asking, ending, clicks,
                   stopping, sslot>>

StopGoesOn == StopReads \/ StopOffers \/ StopWakes

Next ==
    \/ Run \/ TimeOut \/ Signal \/ CtrlC
    \/ \E c \in Clicks : SendClick(c) \/ ClickGoesOn(c)
    \/ StopSets \/ StopGoesOn

Spec == Init /\ [][Next]_vars

(* Fairness: the run goes on wherever it does not wait for an answer, and so
   do threads under way.  Nobody owes a click, a stop, a signal or a timeout. *)
Fairness ==
    /\ WF_vars(Run) /\ WF_vars(StopGoesOn)
    /\ \A c \in Clicks : WF_vars(ClickGoesOn(c))

FairSpec == Spec /\ Fairness

-----------------------------------------------------------------------------
RunSteps == {"ready", "scan", "scanned", "accept", "acceptArtefact",
             "acceptForget", "accepted", "forget", "pop", "popArtefact", "unlink",
             "announce", "persist", "ask", "publish", "recheck", "wait", "settle",
             "act", "finish", "assemble", "deliver", "preserve", "done"}
Replies == Operator \cup EndingsNobodyOffers \cup {"none", "FAULT"}
IsPage(p) == p.pass \in 1..doc.started /\ p.at \in Nat /\ p.blank \in BOOLEAN

TypeOK ==
    /\ front \in {"web", "terminal"} /\ pc \in RunSteps
    /\ \A p \in Range(doc.records) \cup Range(flight) \cup files \cup kept : IsPage(p)
    /\ doc.removed \subseteq DOMAIN doc.records
    /\ doc.started \in Nat /\ doc.warned \in BOOLEAN
    /\ skip \subseteq Nat /\ capped \in BOOLEAN
    /\ stage \in {"ACQUIRING", "FILTERING", "ASSEMBLING", "DELIVERING", "DELIVERED"}
    /\ question.offered \subseteq Operator
    /\ \A n \in DOMAIN slots :
          slots[n].answer \in Operator \cup EndingsNobodyOffers \cup {Open}
    /\ reply \in Replies /\ broken \in BOOLEAN /\ row \in 0..(Len(slots) + 1)
    /\ superseded \in BOOLEAN /\ spared \in BOOLEAN /\ stopping \in BOOLEAN
    /\ outcome \in {"none", "delivered", "cancelled", "failed", "allBlank", "interrupted"}
    /\ \A c \in Clicks : {cnum[c], cslot[c]} \subseteq 0..Len(slots) /\ cans[c] \in Operator
    /\ sslot \in 0..Len(slots)

(* What is delivered is what was decided pass by pass: every page of every
   accepted pass but those skipped as blank, in scan order, and no page of a
   pass that was thrown away, however passes were accepted and popped. *)
Before(p, q) == p.pass < q.pass \/ (p.pass = q.pass /\ p.at < q.at)
ToDeliver == UNION {{p \in DOMAIN d : d[p]} : d \in Range(decided)}

UploadIsWhatWasDecided ==
    outcome = "delivered" =>
        /\ Range(uploaded) = ToDeliver
        /\ \A j, k \in DOMAIN uploaded : j < k => Before(uploaded[j], uploaded[k])

(* At every instant the document the guard would keep has all its files: no
   interruption between two statements finds it naming a page that is gone. *)
DocumentOnDisk == pc # "done" => Range(artefact) \subseteq files

(* A run that fails or is interrupted, at any statement, loses no page of an
   accepted pass that was to be delivered and no page of the pass in flight:
   each is in failed/ or in the workspace left for the sweep. *)
EndKeepsEveryPage ==
    pc = "done" /\ outcome \in {"failed", "allBlank", "interrupted"} =>
        ToDeliver \cup Range(flight) \subseteq kept \cup (IF spared THEN files ELSE {})

(* No page is lost at any instant, while the run goes on or when it ends. *)
PagesSurvive == TypeOK /\ DocumentOnDisk /\ EndKeepsEveryPage

(* On the web every operator's answer the run acts on was claimed by a click
   that named that very prompt, and each prompt has one: a repeated or late
   click never answers the next question. *)
AnswersAreTheirOwn ==
    front = "web" =>
        \A n \in DOMAIN slots : slots[n].answer \in Operator =>
            \E c \in Clicks : /\ cnum[c] = n /\ cans[c] = slots[n].answer
                              /\ cpc[c] \in {"set", "claimed"}
                              /\ \A d \in Clicks \ {c} :
                                    cpc[d] \in {"set", "claimed"} => cnum[d] # n

(* Finish is never pressed for a document of no pages: a run that ends as all
   blank was ended by the clock or by a cap. *)
PressedFinishHasPages ==
    outcome = "allBlank" => \A n \in DOMAIN slots : slots[n].answer # "FINISH"

(* A delivered document that nobody finished says so: without the warning, the
   last prompt was answered Finish. *)
UnfinishedIsWarned ==
    outcome = "delivered" /\ ~doc.warned =>
        slots # <<>> /\ Last(slots).answer = "FINISH"

(* What ends a document is what somebody answered, or it says that nobody did:
   answers are claimed for their own prompt, a pressed Finish has pages to
   finish, and without a Finish the document is warned about. *)
AnswersMeanIt == AnswersAreTheirOwn /\ PressedFinishHasPages /\ UnfinishedIsWarned

(* acknowledged, the claim a poll of the status page shows, never answers a
   question older than the one the job's row names. *)
Acknowledged == IF superseded \/ slots = <<>> THEN Open ELSE Last(slots).answer
AckIsNotStale == front = "web" /\ ~Unanswered(Acknowledged) => row <= Len(slots)

(* A cancel at a question keeps nothing and fails nothing: the documented
   promise for Ctrl-C and Ctrl-D "at any of these questions". *)
CancelKeepsNothing ==
    pc = "done" /\ reply = "ABORT" /\ ~broken => outcome \in {"cancelled", "interrupted"}

(* A stop ends the run without the clock and without a click, whether a
   question is open, about to be asked or still ahead. *)
StopEndsRun == stopping ~> pc = "done"
=============================================================================
