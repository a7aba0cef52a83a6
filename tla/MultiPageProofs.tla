-------------------------- MODULE MultiPageProofs --------------------------
(***************************************************************************)
(* What holds of MultiPage for every shape of a pass, every cap and any    *)
(* number of clicks, on the web and at the terminal.                       *)
(***************************************************************************)
EXTENDS MultiPage, FiniteSetTheorems, SequenceTheorems, TLAPS

-----------------------------------------------------------------------------
(* The inductive invariant, by the part of the state each conjunct reads. *)

Asking == {"announce", "persist", "ask", "publish", "recheck", "wait", "settle", "act"}
Waiting == {"recheck", "wait", "settle"}
OnTheWeb == {"persist", "ask", "publish"} \cup Waiting
Over == {"preserve", "done"}

Answers == Operator \cup EndingsNobodyOffers \cup {Open}
Waits == {"none", "BLANK_DECISION", "NEXT_PASS", "RETRY"}
Stages == {"ACQUIRING", "FILTERING", "ASSEMBLING", "DELIVERING", "DELIVERED"}
Outcomes == {"none", "delivered", "cancelled", "failed", "allBlank", "interrupted"}
Page == [pass : Nat, at : Nat, blank : BOOLEAN]
Pass == [pages : Nat, cap : BOOLEAN]
Document == [records : Seq(Page), removed : SUBSET Nat, passes : Seq(Pass),
             started : Nat, warned : BOOLEAN]
Slot == [offered : SUBSET Operator, answer : Answers, woken : BOOLEAN]
Decision == UNION {[pages -> BOOLEAN] : pages \in SUBSET Page}

AskTypes ==
    /\ front \in {"web", "terminal"}
    /\ question \in [wait : Waits, offered : SUBSET Operator]
    /\ slots \in Seq(Slot) /\ superseded \in BOOLEAN /\ reply \in Replies
    /\ broken \in BOOLEAN /\ row \in 0..(Len(slots) + 1)
    /\ cpc \in [Clicks -> {"ready", "read", "offer", "set", "claimed", "dropped"}]
    /\ cnum \in [Clicks -> Nat] /\ cans \in [Clicks -> Operator] /\ cslot \in [Clicks -> Nat]
    /\ \A c \in Clicks : cnum[c] <= Len(slots) /\ cslot[c] <= Len(slots)
    /\ stopping \in BOOLEAN /\ spc \in {"off", "read", "offer", "set", "done"}
    /\ sslot \in 0..Len(slots)
PageTypes ==
    /\ doc \in Document /\ flight \in Seq(Page) /\ skip \in SUBSET Nat /\ capped \in BOOLEAN
    /\ doomed \subseteq Page /\ artefact \in Seq(Page) /\ stage \in Stages
    /\ files \subseteq Page /\ decided \in Seq(Decision)
    /\ kept \subseteq Page /\ spared \in BOOLEAN /\ outcome \in Outcomes
Types == pc \in RunSteps /\ AskTypes /\ PageTypes

\* Nobody but the run itself asks, answers and stops at the terminal.
TerminalIsAlone ==
    front = "terminal" =>
        /\ pc \notin OnTheWeb /\ ~stopping /\ spc = "off"
        /\ \A c \in Clicks : cpc[c] = "ready"

\* From the announcement of a question to its prompt, no claim is shown.
AckInv ==
    /\ superseded \/ row <= Len(slots)
    /\ pc \in {"persist", "ask", "publish"} => superseded

\* A click that was let through holds the prompt it names, and a claimed one has
\* answered it; a stop holds a prompt there is.
ClickInv ==
    /\ \A c \in Clicks :
        /\ cpc[c] # "ready" => cnum[c] >= 1
        /\ cpc[c] \in {"offer", "set", "claimed"} =>
              cslot[c] = cnum[c] /\ cans[c] \in slots[cnum[c]].offered
        /\ cpc[c] \in {"set", "claimed"} => slots[cnum[c]].answer = cans[c]
    /\ spc \in {"offer", "set"} => sslot >= 1

\* Only the last prompt can be open, and only while the run waits for it; what an
\* operator answered was offered, and Ctrl-C needs no offer.
SlotInv ==
    /\ \A n \in DOMAIN slots :
        /\ slots[n].answer \in Operator =>
              slots[n].answer \in slots[n].offered \cup {"ABORT"}
        /\ slots[n].answer = Open => n = Len(slots) /\ pc \in Waiting
        /\ slots[n].answer = "FINISH" => n = Len(slots)
    /\ pc \in Waiting => slots # <<>> /\ slots[Len(slots)].offered = question.offered

\* Finish is offered only where a page is kept.
FinishInv ==
    /\ pc \in Asking /\ "FINISH" \in question.offered =>
          KeptCount(doc) > 0 /\ question.wait # "BLANK_DECISION"
    /\ pc \in {"forget", "unlink"} /\ reply = "FAULT" => KeptCount(doc) > 0
    /\ pc \in {"pop", "popArtefact"} => reply = "RESCAN"

\* The answer the run acts on is its prompt's, and a pressed Finish finishes.
Finished == slots # <<>> /\ slots[Len(slots)].answer = "FINISH"
ActInv ==
    /\ pc = "act" => reply = "INTERRUPTED" \/ (slots # <<>> /\ reply = slots[Len(slots)].answer)
    /\ Finished =>
        /\ pc \in Waiting \cup {"act", "finish", "assemble", "deliver"} \cup Over
        /\ pc = "act" => reply = "FINISH"
        /\ pc = "finish" => KeptCount(doc) > 0
        /\ outcome # "allBlank"
    /\ pc \in {"finish", "assemble", "deliver"} /\ ~doc.warned => Finished
    /\ outcome = "delivered" /\ ~doc.warned => Finished
    /\ outcome = "delivered" => pc = "done"
    /\ outcome = "none" <=> pc \notin Over

AskInv == AckInv /\ ClickInv /\ SlotInv /\ TerminalIsAlone
AnswerInv == FinishInv /\ ActInv /\ AnswersAreTheirOwn

\* Every page is of a pass that has started; the pass in flight is the last one,
\* its pages in their places, and new to the document until it is accepted.
Known == Range(doc.records) \cup Range(flight) \cup Range(artefact) \cup files \cup kept \cup doomed
Unsettled ==
    \/ pc \in {"scan", "scanned", "accept", "forget"}
    \/ pc \in Asking /\ question.wait = "BLANK_DECISION"
FlightInv ==
    /\ \A p \in Known : p.pass \in 1..doc.started
    /\ \A k \in DOMAIN flight : flight[k].pass = doc.started /\ flight[k].at = k
    /\ Unsettled => doc.started # 0 /\ \A p \in Range(doc.records) : p.pass < doc.started
    /\ flight # <<>> => Unsettled \/ pc \in {"acceptArtefact", "acceptForget"} \cup Over
    /\ pc = "accept" => skip \subseteq DOMAIN flight

\* The guard's document is the run's, but in the middle of accepting or throwing
\* away a pass, and both are on the disk.
GuardInv ==
    /\ pc \notin {"acceptArtefact", "popArtefact"} \cup Over => artefact = doc.records
    /\ Range(doc.records) \subseteq Range(artefact) \cup Range(flight)
    /\ pc # "done" => Range(artefact) \cup Range(flight) \subseteq files
    /\ pc \in {"popArtefact", "unlink"} => doomed \cap Range(doc.records) = {}
    /\ stage # "ACQUIRING" =>
          pc \in {"assemble", "deliver"} \cup Over /\ flight = <<>> /\ artefact = doc.records
    /\ stage = "DELIVERED" => outcome = "delivered"

\* A pass to throw away is there.
PassInv ==
    /\ pc \in {"acceptArtefact", "acceptForget", "accepted", "pop"} => doc.passes # <<>>
    /\ pc \in Asking /\ question.wait # "BLANK_DECISION" /\ "RESCAN" \in question.offered =>
          doc.passes # <<>>

\* The records are the accepted passes one after the other: bounds[i] is where
\* the i-th ends, its pages are those it was decided on, and a record is removed
\* when that was the decision.
PassesEnd(d, decisions, bounds) ==
    LET n == Len(decisions) IN
    /\ Len(d.passes) = n
    /\ bounds[0] = 0 /\ bounds[n] = Len(d.records)
    /\ \A i \in 0..n, j \in 0..n : i <= j => bounds[i] <= bounds[j]
    /\ \A i \in 1..n :
        /\ bounds[i] = bounds[i - 1] + d.passes[i].pages
        /\ DOMAIN decisions[i] = {d.records[k] : k \in (bounds[i - 1] + 1)..bounds[i]}
        /\ \A k \in (bounds[i - 1] + 1)..bounds[i] :
              decisions[i][d.records[k]] <=> k \notin d.removed
    /\ \A k \in DOMAIN d.records : \E i \in 1..n : k \in (bounds[i - 1] + 1)..bounds[i]
Ledger(d, decisions) ==
    /\ d.removed \subseteq DOMAIN d.records
    /\ \A j, k \in DOMAIN d.records : j < k => Before(d.records[j], d.records[k])
    /\ \E bounds \in [0..Len(decisions) -> Nat] : PassesEnd(d, decisions, bounds)
LedgerInv == Ledger(doc, decided)

\* A run that ended has kept every page, or delivered the document.
EndInv ==
    /\ EndKeepsEveryPage
    /\ outcome = "delivered" => uploaded = KeptPages(doc)

DocumentInv == FlightInv /\ GuardInv /\ PassInv /\ LedgerInv /\ EndInv
MultiPageInv == Types /\ AskInv /\ AnswerInv /\ DocumentInv

-----------------------------------------------------------------------------
(* Steps that leave the records of the document alone. *)

(* Only the warning, or the number of passes, of the document changes. *)
LEMMA WarnedIs ==
    ASSUME NEW d \in Document, NEW warned \in BOOLEAN
    PROVE  LET after == [d EXCEPT !.warned = warned] IN
           /\ after \in Document /\ after.records = d.records /\ after.removed = d.removed
           /\ after.passes = d.passes /\ after.started = d.started /\ after.warned = warned
BY DEF Document
(* A pass is counted when it starts. *)
LEMMA StartedIs ==
    ASSUME NEW d \in Document
    PROVE  LET after == [d EXCEPT !.started = @ + 1] IN
           /\ after \in Document /\ after.records = d.records /\ after.removed = d.removed
           /\ after.passes = d.passes /\ after.started = d.started + 1 /\ after.warned = d.warned
           /\ d.started \in Nat
BY DEF Document

\* What the meaning of an answer reads of the document and of the last prompt.
SameCount == doc'.records = doc.records /\ doc'.removed = doc.removed

(* What is kept is counted from those alone. *)
LEMMA CountStays == ASSUME SameCount PROVE KeptCount(doc') = KeptCount(doc)
BY DEF SameCount, KeptCount

-----------------------------------------------------------------------------
(* The prompts and their answers. *)

\* Claiming or waking one slot leaves what the others hold.
Answered(list, n, answer, after) ==
    /\ after \in Seq(Slot) /\ Len(after) = Len(list)
    /\ \A k \in 1..Len(list) :
        /\ after[k].offered = list[k].offered
        /\ after[k].answer = IF k = n THEN answer ELSE list[k].answer

(* A claim on one slot. *)
LEMMA ClaimIs ==
    ASSUME NEW list \in Seq(Slot), NEW n \in 1..Len(list), NEW answer \in Answers
    PROVE  Answered(list, n, answer, [list EXCEPT ![n].answer = answer])
<1> DEFINE slot == [list[n] EXCEPT !.answer = answer]
           after == [list EXCEPT ![n] = slot]
<1>1. list[n] \in Slot /\ Len(list) \in Nat
  OBVIOUS
<1>2. slot \in Slot /\ slot.offered = list[n].offered /\ slot.answer = answer
  BY <1>1 DEF Slot
<1>3. after \in Seq(Slot) /\ Len(after) = Len(list)
      /\ \A k \in 1..Len(list) : after[k] = IF k = n THEN slot ELSE list[k]
  <2> HIDE DEF slot
  <2> QED
    BY <1>2, ExceptSeq
<1>4. Answered(list, n, answer, after)
  <2> HIDE DEF slot, after
  <2> QED
    BY <1>2, <1>3 DEF Answered
<1> QED
  BY <1>4

(* Waking the waiter of one slot. *)
LEMMA WakeIs ==
    ASSUME NEW list \in Seq(Slot), NEW n \in 1..Len(list)
    PROVE  Answered(list, n, list[n].answer, [list EXCEPT ![n].woken = TRUE])
<1> DEFINE slot == [list[n] EXCEPT !.woken = TRUE]
           after == [list EXCEPT ![n] = slot]
<1>1. list[n] \in Slot /\ Len(list) \in Nat
  OBVIOUS
<1>2. slot \in Slot /\ slot.offered = list[n].offered /\ slot.answer = list[n].answer
  BY <1>1 DEF Slot
<1>3. after \in Seq(Slot) /\ Len(after) = Len(list)
      /\ \A k \in 1..Len(list) : after[k] = IF k = n THEN slot ELSE list[k]
  <2> HIDE DEF slot
  <2> QED
    BY <1>2, ExceptSeq
<1>4. Answered(list, n, list[n].answer, after)
  <2> HIDE DEF slot, after
  <2> QED
    BY <1>2, <1>3 DEF Answered
<1> QED
  BY <1>4

(* A claim that wakes its own waiter. *)
LEMMA ClaimAndWakeIs ==
    ASSUME NEW list \in Seq(Slot), NEW n \in 1..Len(list), NEW answer \in Answers
    PROVE  Answered(list, n, answer, [list EXCEPT ![n].answer = answer, ![n].woken = TRUE])
<1> DEFINE once == [list EXCEPT ![n].answer = answer]
           twice == [once EXCEPT ![n].woken = TRUE]
<1>1. Answered(list, n, answer, once)
  BY ClaimIs
<1>2. once \in Seq(Slot) /\ n \in 1..Len(once) /\ Len(once) = Len(list) /\ Len(list) \in Nat
  BY <1>1 DEF Answered
<1>3. Answered(once, n, once[n].answer, twice)
  BY <1>2, WakeIs
<1>4. Answered(list, n, answer, twice)
  <2> HIDE DEF once, twice
  <2> QED
    BY <1>1, <1>2, <1>3 DEF Answered
<1> QED
  BY <1>4

(* A new prompt is the last one. *)
LEMMA PromptIs ==
    ASSUME NEW list \in Seq(Slot), NEW slot \in Slot
    PROVE  LET after == Append(list, slot) IN
           /\ after \in Seq(Slot) /\ Len(after) = Len(list) + 1
           /\ \A k \in 1..Len(list) : after[k] = list[k]
           /\ after[Len(after)] = slot
OBVIOUS

\* What a slot may hold.
LEMMA AnswersAre ==
    /\ Operator \subseteq Answers /\ Open \in Answers /\ Open \notin Operator
    /\ "TIMED_OUT" \in Answers /\ "INTERRUPTED" \in Answers
    /\ "TIMED_OUT" \notin Operator /\ "INTERRUPTED" \notin Operator
    /\ "TIMED_OUT" # Open /\ "INTERRUPTED" # Open
    /\ \A answer \in Answers \ {Open} : answer \in Replies
BY DEF Operator, Answers, EndingsNobodyOffers, Open, Replies

-----------------------------------------------------------------------------
(* Steps that ask nobody: no prompt, no click and no stop takes part. *)

Unasked ==
    /\ UNCHANGED <<front, slots, superseded, clicks, stop>> /\ row' \in {0, row}
    /\ pc \notin Waiting /\ pc' \in RunSteps \ OnTheWeb
    /\ question' \in [wait : Waits, offered : SUBSET Operator]
    /\ reply' \in Replies /\ broken' \in BOOLEAN

(* They keep what holds of prompts. *)
LEMMA UnaskedKeeps ==
    ASSUME AskTypes, AskInv, AnswersAreTheirOwn, Unasked
    PROVE  AskTypes' /\ AskInv' /\ AnswersAreTheirOwn'
<1>1. Len(slots) \in Nat
  BY DEF AskTypes
<1>2. AskTypes'
  BY <1>1 DEF AskTypes, Unasked, clicks, stop
<1>3. AckInv'
  BY <1>1 DEF AskTypes, AskInv, AckInv, Unasked, OnTheWeb, Waiting
<1>4. ClickInv'
  BY DEF AskInv, ClickInv, Unasked, clicks, stop
<1>5. SlotInv'
  BY DEF AskInv, SlotInv, Unasked, OnTheWeb
<1>6. TerminalIsAlone'
  BY DEF AskInv, TerminalIsAlone, Unasked, clicks, stop
<1>7. AnswersAreTheirOwn'
  BY DEF AnswersAreTheirOwn, Unasked, clicks
<1> QED
  BY <1>2, <1>3, <1>4, <1>5, <1>6, <1>7 DEF AskInv

(* Which steps those are. *)
LEMMA WhichUnasked ==
    ASSUME Types, AskInv,
           \/ BeginPass \/ ScanPages \/ PassEnds \/ PassFaults \/ PassAborted
           \/ AcceptPass \/ AcceptArtefact \/ AcceptForget \/ AfterPass
           \/ ForgetPass \/ PopPass \/ PopArtefact \/ Unlink \/ AskWhileStopping
           \/ ActEnds \/ ActOnNext \/ ActOnBlanks
           \/ Finish \/ Assemble \/ Deliver \/ Preserve \/ Signal \/ CtrlC
    PROVE  Unasked
<1> USE DEF Types, AskTypes, coordinator, asking, clicks, stop, Step, FailAs, RunSteps, OnTheWeb,
            Waiting, Unasked, Replies
<1>1. NextPassAnswers \subseteq Operator /\ BlankAnswers \subseteq Operator
      /\ RetryAnswers \subseteq Operator
  BY DEF NextPassAnswers, BlankAnswers, RetryAnswers, Operator
<1>2. CASE BeginPass \/ ScanPages \/ PassEnds \/ PassFaults \/ PassAborted
  BY <1>1, <1>2 DEF BeginPass, ScanPages, PassEnds, PassFaults, PassAborted, Asks, Waits
<1>3. CASE AcceptPass \/ AcceptArtefact \/ AcceptForget \/ AfterPass
  BY <1>1, <1>3 DEF AcceptPass, AcceptArtefact, AcceptForget, AfterPass, Asks, Waits
<1>4. CASE ForgetPass \/ PopPass \/ PopArtefact \/ Unlink
  BY <1>1, <1>4 DEF ForgetPass, PopPass, PopArtefact, Unlink, Asks, Waits
<1>5. CASE AskWhileStopping \/ ActEnds \/ ActOnNext \/ ActOnBlanks
  BY <1>5 DEF AskWhileStopping, ActEnds, ActOnNext, ActOnBlanks, Cancel, EndingsNobodyOffers
<1>6. CASE Finish \/ Assemble \/ Deliver \/ Preserve
  BY <1>6 DEF Finish, Assemble, Deliver, Preserve
<1>7. CASE Signal \/ CtrlC
  BY <1>7 DEF Signal, CtrlC, Cancel, AskInv, TerminalIsAlone
<1> QED
  BY <1>2, <1>3, <1>4, <1>5, <1>6, <1>7

-----------------------------------------------------------------------------
(* Asking on the web, and at the terminal. *)

(* Up to the prompt nothing is claimed, and the earlier one is superseded. *)
LEMMA AnnounceKeeps ==
    ASSUME AskTypes, AskInv, AnswersAreTheirOwn, Announce \/ PersistWait \/ AskChecks
    PROVE  AskTypes' /\ AskInv' /\ AnswersAreTheirOwn'
<1>1. /\ UNCHANGED <<front, slots, clicks, stop, question, reply, broken>>
      /\ row' \in {row, Len(slots) + 1} /\ superseded' /\ superseded' \in BOOLEAN
      /\ pc \notin Waiting /\ pc' \in {"persist", "ask", "publish"}
      /\ front = "terminal" => pc = "announce" /\ front = "web"
  BY DEF Announce, PersistWait, AskChecks, Step, coordinator, asking, AskTypes, AskInv, AckInv,
     TerminalIsAlone, OnTheWeb, Waiting
<1>2. Len(slots) \in Nat
  BY DEF AskTypes
<1>3. AskTypes'
  BY <1>1, <1>2 DEF AskTypes, clicks, stop
<1>4. AckInv' /\ TerminalIsAlone'
  BY <1>1, <1>2 DEF AskInv, AckInv, TerminalIsAlone, clicks, stop
<1>5. ClickInv'
  BY <1>1 DEF AskInv, ClickInv, clicks, stop
<1>6. SlotInv'
  BY <1>1 DEF AskInv, SlotInv, Waiting
<1>7. AnswersAreTheirOwn'
  BY <1>1 DEF AnswersAreTheirOwn, clicks
<1> QED
  BY <1>3, <1>4, <1>5, <1>6, <1>7 DEF AskInv

(* A prompt is published, or asked and answered at the terminal: it is the last,
   and every earlier one has its answer, which was no Finish. *)
LEMMA PromptKeeps ==
    ASSUME AskTypes, AskInv, AnswersAreTheirOwn, NEW slot \in Slot,
           slots' = Append(slots, slot), slot.offered = question.offered,
           UNCHANGED <<front, clicks, stop, question, row>>, superseded' \in BOOLEAN,
           reply' \in Replies, broken' \in BOOLEAN, pc \notin Waiting,
           slots = <<>> \/ slots[Len(slots)].answer # "FINISH",
           \/ pc' = "recheck" /\ front = "web" /\ slot.answer = Open /\ superseded' = FALSE
           \/ /\ pc' = "act" /\ front = "terminal" /\ UNCHANGED superseded
              /\ slot.answer \in question.offered \cup {"ABORT", "TIMED_OUT"}
    PROVE  AskTypes' /\ AskInv' /\ AnswersAreTheirOwn'
<1>1. /\ slots' \in Seq(Slot) /\ Len(slots') = Len(slots) + 1 /\ Len(slots) \in Nat
      /\ \A k \in 1..Len(slots) : slots'[k] = slots[k]
      /\ slots'[Len(slots')] = slot
      /\ DOMAIN slots = 1..Len(slots) /\ DOMAIN slots' = 1..Len(slots')
  BY PromptIs DEF AskTypes
<1>2. question.offered \subseteq Operator
  BY DEF AskTypes
<1>3. AskTypes'
  BY <1>1 DEF AskTypes, clicks, stop
<1>4. AckInv' /\ TerminalIsAlone'
  BY <1>1 DEF AskTypes, AskInv, AckInv, TerminalIsAlone, clicks, stop, OnTheWeb, Waiting
<1>5. ClickInv'
  <2>1. \A c \in Clicks : cnum[c] \in 0..Len(slots)
    BY DEF AskTypes
  <2>2. \A c \in Clicks : cpc[c] # "ready" => slots'[cnum[c]] = slots[cnum[c]]
    BY <2>1, <1>1 DEF AskInv, ClickInv
  <2> QED
    BY <2>2 DEF AskInv, ClickInv, clicks, stop, AskTypes
<1>6. SlotInv'
  <2>1. ASSUME NEW n \in 1..Len(slots)
        PROVE  /\ slots'[n].answer \in Operator =>
                     slots'[n].answer \in slots'[n].offered \cup {"ABORT"}
               /\ slots'[n].answer # Open /\ slots'[n].answer # "FINISH"
    <3>1. n = Len(slots) \/ slots[n].answer # "FINISH"
      BY <1>1 DEF AskInv, SlotInv
    <3>2. slots # <<>>
      OBVIOUS
    <3>3. slots'[n].answer # "FINISH"
      BY <3>1, <3>2, <1>1
    <3>4. slots'[n] = slots[n] /\ slots[n].answer # Open
      BY <1>1 DEF AskInv, SlotInv
    <3>5. slots[n].answer \in Operator => slots[n].answer \in slots[n].offered \cup {"ABORT"}
      BY <1>1 DEF AskInv, SlotInv
    <3> QED
      BY <3>3, <3>4, <3>5
  <2>2. slot.answer \in Operator => slot.answer \in slot.offered \cup {"ABORT"}
    BY AnswersAre
  <2>3. slot.answer = Open => pc' \in Waiting
    BY <1>2, AnswersAre DEF Waiting, Open, Operator
  <2>4. pc' \in Waiting => slots' # <<>> /\ slots'[Len(slots')].offered = question'.offered
    BY <1>1
  <2>5. DOMAIN slots' = 1..Len(slots) \cup {Len(slots')}
    BY <1>1
  <2> QED
    BY <1>1, <2>1, <2>2, <2>3, <2>4, <2>5 DEF SlotInv
<1>7. AnswersAreTheirOwn'
  <2>1. front = "web" => slot.answer = Open
    OBVIOUS
  <2>2. \A n \in DOMAIN slots' : n \in DOMAIN slots \/ n = Len(slots')
    BY <1>1
  <2> QED
    BY <1>1, <2>1, <2>2, AnswersAre DEF AnswersAreTheirOwn, clicks
<1> QED
  BY <1>3, <1>4, <1>5, <1>6, <1>7 DEF AskInv

(* The two ways a question gets its prompt. *)
LEMMA AskKeeps ==
    ASSUME AskTypes, AskInv, AnswersAreTheirOwn, ActInv, Publish \/ TerminalAsk
    PROVE  AskTypes' /\ AskInv' /\ AnswersAreTheirOwn'
<1>1. pc \notin Waiting /\ (slots = <<>> \/ slots[Len(slots)].answer # "FINISH")
  BY DEF Publish, TerminalAsk, Step, ActInv, Finished, Waiting, Over
<1>2. question.offered \subseteq Operator
  BY DEF AskTypes
<1>3. CASE Publish
  <2> DEFINE slot == [offered |-> question.offered, answer |-> Open, woken |-> FALSE]
  <2>1. slot \in Slot
    BY <1>2, AnswersAre DEF Slot
  <2>2. front = "web"
    BY <1>3 DEF Publish, Step, AskInv, TerminalIsAlone, OnTheWeb, AskTypes
  <2> QED
    BY <1>1, <1>3, <2>1, <2>2, PromptKeeps DEF Publish, Step, asking, AskTypes
<1>4. CASE TerminalAsk
  <2>1. PICK answer \in question.offered \cup {"ABORT", "TIMED_OUT"} :
           /\ reply' = answer /\ broken' \in BOOLEAN
           /\ slots' = Append(slots, [offered |-> question.offered,
                                      answer |-> answer, woken |-> TRUE])
    BY <1>4 DEF TerminalAsk
  <2> DEFINE slot == [offered |-> question.offered, answer |-> answer, woken |-> TRUE]
  <2>2. answer \in Answers /\ answer \in Replies
    BY <1>2, AnswersAre DEF Operator, Replies
  <2>3. slot \in Slot
    BY <1>2, <2>2 DEF Slot
  <2> QED
    BY <1>1, <1>4, <2>1, <2>2, <2>3, PromptKeeps DEF TerminalAsk, Step, AskTypes
<1> QED
  BY <1>3, <1>4

\* A claim on a slot, or a wake-up of its waiter: an answer is final, a click
\* claims for itself alone and what its prompt offers.
Claimed(n, answer) ==
    /\ n \in 1..Len(slots) /\ answer \in Answers /\ Answered(slots, n, answer, slots')
    /\ answer # slots[n].answer => slots[n].answer = Open
    /\ front = "web" /\ UNCHANGED <<front, superseded, row, question, cnum, cans, cslot>>
    /\ cpc' \in [Clicks -> {"ready", "read", "offer", "set", "claimed", "dropped"}]
    /\ \A c \in Clicks :
        \/ cpc'[c] = cpc[c]
        \/ cpc[c] = "set" /\ cpc'[c] = "claimed"
        \/ cpc[c] = "offer" /\ cpc'[c] = "dropped"
        \/ /\ cpc[c] = "offer" /\ cpc'[c] = "set" /\ n = cslot[c]
           /\ slots[n].answer = Open /\ answer = cans[c]
           /\ \A d \in Clicks \ {c} : cpc'[d] = cpc[d]
    /\ answer \in Operator /\ answer # slots[n].answer =>
          \E c \in Clicks : cpc[c] = "offer" /\ cpc'[c] = "set"
    /\ reply' \in Replies /\ broken' \in BOOLEAN /\ stopping' \in BOOLEAN
    /\ spc' \in {"off", "read", "offer", "set", "done"}
    /\ spc' \in {"offer", "set"} => spc \in {"offer", "set"}
    /\ sslot' = sslot
    /\ pc' \in Waiting => pc \in Waiting
    /\ \/ pc' = pc
       \/ pc' \in Waiting
       \/ pc \in Waiting /\ pc' = "act" /\ slots'[Len(slots)].answer # Open

(* It keeps what holds of prompts and clicks. *)
LEMMA ClaimKeeps ==
    ASSUME AskTypes, AskInv, AnswersAreTheirOwn, NEW n, NEW answer, Claimed(n, answer)
    PROVE  AskTypes' /\ AskInv' /\ AnswersAreTheirOwn'
<1>1. /\ slots \in Seq(Slot) /\ slots' \in Seq(Slot) /\ Len(slots') = Len(slots)
      /\ Len(slots) \in Nat /\ DOMAIN slots = 1..Len(slots) /\ DOMAIN slots' = DOMAIN slots
      /\ n \in DOMAIN slots /\ slots'[n].answer = answer
      /\ \A k \in DOMAIN slots : slots'[k].offered = slots[k].offered
      /\ \A k \in DOMAIN slots : k # n => slots'[k].answer = slots[k].answer
  BY DEF AskTypes, Claimed, Answered
<1>2. \A k \in DOMAIN slots : slots[k].answer # Open => slots'[k].answer = slots[k].answer
  BY <1>1 DEF Claimed
<1>3. \A c \in Clicks : cans[c] \in Operator /\ cans[c] # Open
  BY AnswersAre DEF AskTypes
<1>4. \A c \in Clicks : cpc[c] \in {"offer", "set", "claimed"} => cnum[c] \in DOMAIN slots
  BY <1>1 DEF AskTypes, AskInv, ClickInv
<1>5. \A c \in Clicks : cpc'[c] \in {"set", "claimed"} =>
         \/ cpc[c] \in {"set", "claimed"}
         \/ cpc[c] = "offer" /\ n = cnum[c] /\ slots[n].answer = Open /\ answer = cans[c]
  BY DEF Claimed, AskInv, ClickInv
<1>6. AskTypes'
  BY <1>1 DEF AskTypes, Claimed
<1>7. AckInv' /\ TerminalIsAlone'
  BY <1>1 DEF AskTypes, AskInv, AckInv, TerminalIsAlone, Claimed, Waiting
<1>8. ClickInv'
  <2>1. \A c \in Clicks : cpc'[c] \in {"set", "claimed"} => slots'[cnum[c]].answer = cans[c]
    BY <1>1, <1>2, <1>3, <1>4, <1>5 DEF AskInv, ClickInv
  <2>2. \A c \in Clicks : cpc'[c] # "ready" => cpc[c] # "ready"
    BY DEF Claimed
  <2>3. \A c \in Clicks : cpc'[c] \in {"offer", "set", "claimed"} => cpc[c] \in {"offer", "set", "claimed"}
    BY DEF Claimed
  <2> QED
    BY <1>1, <1>4, <2>1, <2>2, <2>3 DEF AskInv, ClickInv, Claimed
<1>9. SlotInv'
  <2>1. slots[n].answer = Open => n = Len(slots) /\ pc \in Waiting
    BY <1>1 DEF AskInv, SlotInv
  <2>2. answer \in Operator /\ answer # slots[n].answer => answer \in slots[n].offered
    BY <1>1 DEF Claimed, AskInv, ClickInv
  <2>3. slots'[n].answer \in Operator => slots'[n].answer \in slots'[n].offered \cup {"ABORT"}
    BY <1>1, <2>2 DEF AskInv, SlotInv
  <2>4. slots'[n].answer = Open => n = Len(slots') /\ pc' \in Waiting
    BY <1>1, <2>1 DEF Claimed
  <2>5. slots'[n].answer = "FINISH" => n = Len(slots')
    BY <1>1, <2>1 DEF AskInv, SlotInv, Claimed
  <2>6. ASSUME NEW k \in DOMAIN slots, k # n
        PROVE  /\ slots'[k].answer \in Operator =>
                     slots'[k].answer \in slots'[k].offered \cup {"ABORT"}
               /\ slots'[k].answer = Open => k = Len(slots') /\ pc' \in Waiting
               /\ slots'[k].answer = "FINISH" => k = Len(slots')
    BY <1>1, <2>6 DEF AskInv, SlotInv, Claimed
  <2>7. pc' \in Waiting => slots' # <<>> /\ slots'[Len(slots')].offered = question'.offered
    <3>1. Len(slots) \in DOMAIN slots
      BY <1>1
    <3> QED
      BY <1>1, <3>1 DEF AskInv, SlotInv, Claimed
  <2> QED
    BY <1>1, <2>3, <2>4, <2>5, <2>6, <2>7 DEF SlotInv
<1>10. AnswersAreTheirOwn'
  <2> SUFFICES ASSUME NEW m \in DOMAIN slots, slots'[m].answer \in Operator
               PROVE  \E c \in Clicks : /\ cnum[c] = m /\ cans[c] = slots'[m].answer
                                        /\ cpc'[c] \in {"set", "claimed"}
                                        /\ \A d \in Clicks \ {c} :
                                              cpc'[d] \in {"set", "claimed"} => cnum[d] # m
    BY <1>1 DEF AnswersAreTheirOwn, Claimed
  <2>1. CASE slots[m].answer # Open
    <3>1. slots'[m].answer = slots[m].answer
      BY <1>2, <2>1
    <3>2. PICK c \in Clicks : /\ cnum[c] = m /\ cans[c] = slots[m].answer
                              /\ cpc[c] \in {"set", "claimed"}
                              /\ \A d \in Clicks \ {c} : cpc[d] \in {"set", "claimed"} => cnum[d] # m
      BY <3>1 DEF AnswersAreTheirOwn, Claimed
    <3>3. cpc'[c] \in {"set", "claimed"}
      BY <3>2 DEF Claimed
    <3>4. \A d \in Clicks \ {c} : cpc'[d] \in {"set", "claimed"} => cnum[d] # m
      BY <1>5, <2>1, <3>2
    <3> QED
      BY <3>1, <3>2, <3>3, <3>4
  <2>2. CASE slots[m].answer = Open
    <3>1. m = n /\ answer \in Operator /\ answer # slots[n].answer
      BY <1>1, <2>2, AnswersAre
    <3>2. PICK c \in Clicks : cpc[c] = "offer" /\ cpc'[c] = "set"
      BY <3>1 DEF Claimed
    <3>3. cnum[c] = n /\ answer = cans[c]
      BY <3>2, <1>5
    <3>4. \A d \in Clicks \ {c} : cpc'[d] = cpc[d]
      BY <3>2 DEF Claimed
    <3>5. \A d \in Clicks : cpc[d] \in {"set", "claimed"} => cnum[d] # m
      BY <2>2, <1>3 DEF AskInv, ClickInv
    <3> QED
      BY <1>1, <3>1, <3>2, <3>3, <3>4, <3>5
  <2> QED
    BY <2>1, <2>2
<1> QED
  BY <1>6, <1>7, <1>8, <1>9, <1>10 DEF AskInv

(* The run's own thread at its prompt claims no operator's answer. *)
LEMMA WaitKeeps ==
    ASSUME AskTypes, AskInv, AnswersAreTheirOwn, Recheck \/ WaitEnds \/ SettleWait
    PROVE  AskTypes' /\ AskInv' /\ AnswersAreTheirOwn'
<1> DEFINE last == Len(slots)
           old == slots[last].answer
<1>1. /\ pc \in Waiting /\ front = "web" /\ slots \in Seq(Slot)
      /\ last \in 1..Len(slots) /\ slots[last] \in Slot /\ old \in Answers
      /\ UNCHANGED <<front, superseded, row, question, clicks, stop>>
  <2>1. pc \in Waiting /\ front = "web" /\ slots # <<>>
    BY DEF Recheck, WaitEnds, SettleWait, Step, Waiting, AskInv, SlotInv, TerminalIsAlone, OnTheWeb,
       AskTypes
  <2>2. slots \in Seq(Slot)
    BY DEF AskTypes
  <2>3. last \in 1..Len(slots) /\ slots[last] \in Slot
    BY <2>1, <2>2
  <2> QED
    BY <2>1, <2>2, <2>3 DEF Slot, Recheck, WaitEnds, SettleWait, coordinator, asking
<1>2. CASE Recheck /\ stopping
  <2> DEFINE answer == IF old = Open THEN "INTERRUPTED" ELSE old
  <2>1. answer \in Answers /\ (answer \in Operator => answer = old)
    BY <1>1, AnswersAre
  <2>2. Answered(slots, last, answer, slots')
    BY <1>1, <1>2, <2>1, ClaimAndWakeIs DEF Recheck, AfterOffer, Unanswered
  <2>3. Claimed(last, answer)
    BY <1>1, <1>2, <2>1, <2>2 DEF Claimed, Recheck, Step, asking, clicks, stop, AskTypes, Waiting
  <2> QED
    BY <2>3, ClaimKeeps
<1>3. CASE (Recheck /\ ~stopping) \/ WaitEnds
  <2>1. UNCHANGED slots /\ UNCHANGED <<reply, broken>> /\ pc' \in Waiting
    BY <1>3 DEF Recheck, WaitEnds, Step, coordinator, asking, Waiting
  <2>2. Answered(slots, last, old, slots')
    BY <1>1, <2>1 DEF Answered
  <2>3. Claimed(last, old)
    BY <1>1, <2>1, <2>2 DEF Claimed, clicks, stop, AskTypes
  <2> QED
    BY <2>3, ClaimKeeps
<1>4. CASE SettleWait
  <2> DEFINE answer == IF old = Open THEN "TIMED_OUT" ELSE old
  <2>1. answer \in Answers /\ (answer \in Operator => answer = old) /\ answer # Open
    BY <1>1, AnswersAre
  <2>2. Answered(slots, last, answer, slots')
    BY <1>1, <1>4, <2>1, ClaimAndWakeIs DEF SettleWait, Settle, Unanswered
  <2>3. Len(slots') = Len(slots) /\ slots'[last].answer = answer /\ Last(slots') = slots'[last]
    BY <1>1, <2>2 DEF Answered, Last
  <2>4. reply' \in Replies
    BY <1>4, <2>1, <2>3, AnswersAre DEF SettleWait
  <2>5. Claimed(last, answer)
    BY <1>1, <1>4, <2>1, <2>2, <2>3, <2>4 DEF Claimed, SettleWait, Step, clicks, stop, AskTypes, Waiting
  <2> QED
    BY <2>5, ClaimKeeps
<1> QED
  BY <1>2, <1>3, <1>4

\* An answer, once given, stays.
FinalAnswers ==
    /\ DOMAIN slots' = DOMAIN slots /\ Len(slots') = Len(slots)
    /\ \A n \in DOMAIN slots : slots[n].answer # Open => slots'[n].answer = slots[n].answer

(* A claim changes no answer that was given. *)
LEMMA ClaimIsFinal ==
    ASSUME slots \in Seq(Slot), NEW n, NEW answer, Claimed(n, answer)
    PROVE  FinalAnswers
<1>1. slots' \in Seq(Slot) /\ Len(slots') = Len(slots)
      /\ \A k \in 1..Len(slots) : slots'[k].answer = IF k = n THEN answer ELSE slots[k].answer
  BY DEF Claimed, Answered
<1>2. DOMAIN slots = 1..Len(slots) /\ DOMAIN slots' = 1..Len(slots)
  BY <1>1
<1>3. answer # slots[n].answer => slots[n].answer = Open
  BY DEF Claimed
<1> QED
  BY <1>1, <1>2, <1>3 DEF FinalAnswers

(* A click that claims, or wakes whom it claimed for. *)
LEMMA ClickKeeps ==
    ASSUME AskTypes, AskInv, AnswersAreTheirOwn, NEW c \in Clicks, OfferAnswer(c) \/ SetEvent(c)
    PROVE  AskTypes' /\ AskInv' /\ AnswersAreTheirOwn' /\ FinalAnswers
<1> DEFINE n == cslot[c]
           old == slots[n].answer
<1>1. /\ cpc[c] \in {"offer", "set"} /\ front = "web" /\ slots \in Seq(Slot) /\ n = cnum[c]
      /\ n \in 1..Len(slots) /\ slots[n] \in Slot /\ old \in Answers /\ cans[c] \in Answers
      /\ UNCHANGED <<front, pc, superseded, asking, cnum, cans, cslot, stop>>
  <2>1. cpc[c] \in {"offer", "set"} /\ front = "web"
    BY DEF OfferAnswer, SetEvent, AskInv, TerminalIsAlone, AskTypes
  <2>2. slots \in Seq(Slot) /\ n = cnum[c] /\ n \in 1..Len(slots)
    BY <2>1 DEF AskTypes, AskInv, ClickInv
  <2>3. slots[n] \in Slot
    BY <2>2
  <2> QED
    BY <2>1, <2>2, <2>3, AnswersAre DEF Slot, AskTypes, OfferAnswer, SetEvent
<1>2. CASE OfferAnswer(c)
  <2> DEFINE answer == IF old = Open THEN cans[c] ELSE old
  <2>1. Answered(slots, n, answer, slots')
    BY <1>1, <1>2, ClaimIs DEF OfferAnswer, AfterOffer, Unanswered
  <2>2. cpc' = [cpc EXCEPT ![c] = IF old = Open THEN "set" ELSE "dropped"] /\ cpc[c] = "offer"
    BY <1>2 DEF OfferAnswer, Unanswered
  <2>3. \A d \in Clicks \ {c} : cpc'[d] = cpc[d]
    BY <2>2 DEF AskTypes
  <2>4. cpc'[c] = IF old = Open THEN "set" ELSE "dropped"
    BY <2>2 DEF AskTypes
  <2>5. Claimed(n, answer)
    BY <1>1, <2>1, <2>2, <2>3, <2>4 DEF Claimed, asking, stop, AskTypes
  <2> QED
    BY <1>1, <2>5, ClaimKeeps, ClaimIsFinal
<1>3. CASE SetEvent(c)
  <2>1. Answered(slots, n, old, slots')
    BY <1>1, <1>3, WakeIs DEF SetEvent
  <2>2. cpc' = [cpc EXCEPT ![c] = "claimed"] /\ cpc[c] = "set"
    BY <1>3 DEF SetEvent
  <2>3. Claimed(n, old)
    BY <1>1, <2>1, <2>2 DEF Claimed, asking, stop, AskTypes
  <2> QED
    BY <1>1, <2>3, ClaimKeeps, ClaimIsFinal
<1> QED
  BY <1>2, <1>3

(* A click arrives, and reads the prompt of the moment. *)
LEMMA ReadKeeps ==
    ASSUME AskTypes, AskInv, AnswersAreTheirOwn, NEW c \in Clicks, SendClick(c) \/ ReadPrompt(c)
    PROVE  AskTypes' /\ AskInv' /\ AnswersAreTheirOwn' /\ FinalAnswers
<1>1. /\ UNCHANGED <<front, pc, slots, superseded, asking, stop>> /\ front = "web"
      /\ slots \in Seq(Slot) /\ Len(slots) \in Nat /\ DOMAIN slots = 1..Len(slots)
  BY DEF SendClick, ReadPrompt, ReadPromptIf, coordinator, AskInv, TerminalIsAlone, AskTypes
<1>2. cpc \in [Clicks -> {"ready", "read", "offer", "set", "claimed", "dropped"}]
      /\ cnum \in [Clicks -> Nat] /\ cans \in [Clicks -> Operator] /\ cslot \in [Clicks -> Nat]
  BY DEF AskTypes
<1>3. \A d \in Clicks \ {c} : UNCHANGED <<cpc[d], cnum[d], cans[d], cslot[d]>>
  BY <1>2 DEF SendClick, ReadPrompt, ReadPromptIf
<1>4. /\ cpc[c] \notin {"set", "claimed"} /\ cpc'[c] \in {"read", "offer", "dropped"}
      /\ cnum'[c] \in 1..Len(slots) /\ cslot'[c] \in 0..Len(slots)
      /\ cpc'[c] = "offer" => cslot'[c] = cnum'[c] /\ cans'[c] \in slots[cnum'[c]].offered
      /\ cnum' \in [Clicks -> Nat] /\ cans' \in [Clicks -> Operator] /\ cslot' \in [Clicks -> Nat]
      /\ cpc' \in [Clicks -> {"ready", "read", "offer", "set", "claimed", "dropped"}]
  <2>1. CASE SendClick(c)
    <3>1. PICK n \in 1..Len(slots), answer \in Operator :
             /\ cnum' = [cnum EXCEPT ![c] = n] /\ cans' = [cans EXCEPT ![c] = answer]
             /\ cpc' = [cpc EXCEPT ![c] = "read"] /\ cslot' = cslot /\ cpc[c] = "ready"
      BY <2>1, <1>1 DEF SendClick
    <3> QED
      BY <1>1, <1>2, <3>1 DEF AskTypes
  <2>2. CASE ReadPrompt(c)
    <3>1. cpc[c] = "read" /\ cnum' = cnum /\ cans' = cans /\ cnum[c] \in 1..Len(slots)
      BY <2>2, <1>1, <1>2 DEF ReadPrompt, ReadPromptIf, AskInv, ClickInv, AskTypes
    <3>2. cslot' = [cslot EXCEPT ![c] = Len(slots)]
      BY <2>2 DEF ReadPrompt, ReadPromptIf
    <3>3. PICK to \in {"offer", "dropped"} :
             /\ cpc' = [cpc EXCEPT ![c] = to]
             /\ to = "offer" => cnum[c] = Len(slots) /\ cans[c] \in slots[Len(slots)].offered
      BY <2>2 DEF ReadPrompt, ReadPromptIf, Last
    <3>4. cslot' \in [Clicks -> Nat] /\ cslot'[c] = Len(slots)
      BY <1>1, <1>2, <3>2
    <3>5. cpc' \in [Clicks -> {"ready", "read", "offer", "set", "claimed", "dropped"}]
          /\ cpc'[c] = to
      BY <1>2, <3>3
    <3> QED
      BY <1>1, <1>2, <3>1, <3>3, <3>4, <3>5
  <2> QED
    BY <2>1, <2>2
<1>5. AskTypes'
  <2>1. ASSUME NEW d \in Clicks PROVE cnum'[d] <= Len(slots) /\ cslot'[d] <= Len(slots)
    <3>1. CASE d = c
      BY <1>1, <1>4, <3>1
    <3>2. CASE d # c
      BY <1>3, <3>2 DEF AskTypes
    <3> QED
      BY <3>1, <3>2
  <2> QED
    BY <1>1, <1>4, <2>1 DEF AskTypes, asking, stop
<1>6. AckInv' /\ TerminalIsAlone'
  BY <1>1 DEF AskInv, AckInv, TerminalIsAlone, asking
<1>7. ClickInv'
  BY SMTT(30), <1>1, <1>3, <1>4 DEF AskInv, ClickInv, stop
<1>8. SlotInv'
  BY <1>1 DEF AskInv, SlotInv, asking
<1>9. AnswersAreTheirOwn'
  <2> SUFFICES ASSUME NEW n \in DOMAIN slots, slots[n].answer \in Operator
               PROVE  \E e \in Clicks : /\ cnum'[e] = n /\ cans'[e] = slots[n].answer
                                        /\ cpc'[e] \in {"set", "claimed"}
                                        /\ \A d \in Clicks \ {e} :
                                              cpc'[d] \in {"set", "claimed"} => cnum'[d] # n
    BY <1>1 DEF AnswersAreTheirOwn
  <2>1. PICK e \in Clicks : /\ cnum[e] = n /\ cans[e] = slots[n].answer
                            /\ cpc[e] \in {"set", "claimed"}
                            /\ \A d \in Clicks \ {e} : cpc[d] \in {"set", "claimed"} => cnum[d] # n
    BY <1>1 DEF AnswersAreTheirOwn
  <2>2. e # c
    BY <1>4, <2>1
  <2>3. cnum'[e] = n /\ cans'[e] = slots[n].answer /\ cpc'[e] \in {"set", "claimed"}
    BY <1>3, <2>1, <2>2
  <2>4. ASSUME NEW d \in Clicks \ {e}, cpc'[d] \in {"set", "claimed"} PROVE cnum'[d] # n
    <3>1. d # c
      BY <1>4, <2>4
    <3> QED
      BY <1>3, <2>1, <2>4, <3>1
  <2> QED
    BY <2>3, <2>4
<1> QED
  BY <1>1, <1>5, <1>6, <1>7, <1>8, <1>9 DEF AskInv, FinalAnswers

(* The thread that stops the server interrupts the prompt of the moment. *)
LEMMA StopKeeps ==
    ASSUME AskTypes, AskInv, AnswersAreTheirOwn, StopSets \/ StopGoesOn
    PROVE  AskTypes' /\ AskInv' /\ AnswersAreTheirOwn' /\ FinalAnswers
<1>1. UNCHANGED <<front, pc, superseded, asking, clicks>> /\ front = "web" /\ slots \in Seq(Slot)
      /\ Len(slots) \in Nat /\ DOMAIN slots = 1..Len(slots)
  BY DEF StopSets, StopGoesOn, StopReads, StopOffers, StopWakes, coordinator, AskInv, TerminalIsAlone,
     AskTypes
<1>2. CASE StopSets \/ StopReads
  <2>1. /\ UNCHANGED slots /\ stopping' \in BOOLEAN /\ spc' \in {"read", "offer", "done"}
        /\ sslot' \in 0..Len(slots) /\ (spc' = "offer" => sslot' >= 1)
    <3>1. CASE StopSets
      BY <1>1, <3>1 DEF StopSets, coordinator, AskTypes
    <3>2. CASE StopReads
      <4>1. sslot' = (IF pc = "done" THEN 0 ELSE Len(slots)) /\ UNCHANGED <<slots, stopping>>
            /\ spc' = (IF sslot' = 0 THEN "done" ELSE "offer")
        BY <3>2 DEF StopReads, coordinator
      <4> QED
        BY <1>1, <4>1 DEF AskTypes
    <3> QED
      BY <1>2, <3>1, <3>2
  <2>2. AskTypes'
    BY <1>1, <2>1 DEF AskTypes, asking, clicks
  <2>3. AckInv' /\ TerminalIsAlone' /\ ClickInv'
    BY <1>1, <2>1 DEF AskInv, AckInv, TerminalIsAlone, ClickInv, asking, clicks
  <2>4. SlotInv' /\ AnswersAreTheirOwn'
    BY <1>1, <2>1 DEF AskInv, SlotInv, AnswersAreTheirOwn, asking, clicks
  <2> QED
    BY <1>1, <2>1, <2>2, <2>3, <2>4 DEF AskInv, FinalAnswers
<1>3. CASE StopOffers \/ StopWakes
  <2> DEFINE old == slots[sslot].answer
  <2>1. sslot \in 1..Len(slots) /\ spc \in {"offer", "set"}
    BY <1>3, <1>1 DEF StopOffers, StopWakes, AskInv, ClickInv, AskTypes
  <2>2. slots[sslot] \in Slot /\ old \in Answers
    <3>1. slots[sslot] \in Slot
      BY <1>1, <2>1
    <3> QED
      BY <3>1 DEF Slot
  <2>3. CASE StopOffers
    <3> DEFINE answer == IF old = Open THEN "INTERRUPTED" ELSE old
    <3>1. answer \in Answers /\ (answer \in Operator => answer = old)
      BY <2>2, AnswersAre
    <3>2. Answered(slots, sslot, answer, slots')
      BY <1>1, <2>1, <2>3, <3>1, ClaimIs DEF StopOffers, AfterOffer, Unanswered
    <3>3. Claimed(sslot, answer)
      BY <1>1, <2>1, <2>3, <3>1, <3>2 DEF Claimed, StopOffers, asking, clicks, AskTypes
    <3> QED
      BY <1>1, <3>3, ClaimKeeps, ClaimIsFinal
  <2>4. CASE StopWakes
    <3>1. Answered(slots, sslot, old, slots')
      BY <1>1, <2>1, <2>4, WakeIs DEF StopWakes
    <3>2. Claimed(sslot, old)
      BY <1>1, <2>1, <2>2, <2>4, <3>1 DEF Claimed, StopWakes, asking, clicks, AskTypes
    <3> QED
      BY <1>1, <3>2, ClaimKeeps, ClaimIsFinal
  <2> QED
    BY <1>3, <2>3, <2>4
<1> QED
  BY <1>2, <1>3 DEF StopGoesOn

-----------------------------------------------------------------------------
(* What an answer means. *)

(* Scanning and settling a pass: nobody has pressed Finish, nothing is finished. *)
LEMMA SettlingMeans ==
    ASSUME Types, FinishInv, ActInv,
           \/ BeginPass \/ ScanPages \/ PassEnds \/ PassFaults \/ PassAborted
           \/ AcceptPass \/ AcceptArtefact \/ AcceptForget
           \/ ForgetPass \/ PopPass \/ PopArtefact \/ Unlink
    PROVE  FinishInv' /\ ActInv'
<1>1. /\ ~Finished /\ outcome = "none" /\ UNCHANGED <<slots, broken>>
      /\ pc \in {"ready", "scan", "scanned", "accept", "acceptArtefact", "acceptForget", "forget",
                 "pop", "popArtefact", "unlink"}
  BY DEF ActInv, Waiting, Over, Step, BeginPass, ScanPages, PassEnds, PassFaults, PassAborted,
     AcceptPass, AcceptArtefact, AcceptForget, ForgetPass, PopPass, PopArtefact, Unlink, Asks,
     coordinator, asking
<1>2. ~Finished'
  BY <1>1 DEF Finished
<1>3. ActInv'
  <2>1. /\ pc' \notin {"act", "finish", "assemble", "deliver"}
        /\ outcome' \in {"none", "failed", "interrupted"}
        /\ outcome' = "none" <=> pc' \notin Over
    BY <1>1 DEF Over, Step, FailAs, ending, BeginPass, ScanPages, PassEnds, PassFaults, PassAborted,
       AcceptPass, AcceptArtefact, AcceptForget, ForgetPass, PopPass, PopArtefact, Unlink, Asks
  <2> QED
    BY <1>2, <2>1 DEF ActInv
<1>4. FinishInv'
  <2>1. CASE BeginPass \/ ScanPages \/ PassAborted \/ AcceptPass \/ AcceptArtefact \/ AcceptForget
             \/ PopArtefact
    BY <2>1 DEF FinishInv, Asking, Step, FailAs, BeginPass, ScanPages, PassAborted, AcceptPass,
       AcceptArtefact, AcceptForget, PopArtefact, asking
  <2>2. CASE PassEnds
    BY <2>2 DEF FinishInv, Asking, PassEnds, Asks, BlankAnswers
  <2>3. CASE PassFaults
    BY <2>3 DEF FinishInv, Asking, PassFaults, FailAs, document, KeptCount
  <2>4. CASE ForgetPass
    BY <2>4 DEF FinishInv, Asking, ForgetPass, Step, KeptCount, asking
  <2>5. CASE Unlink
    BY <2>5 DEF FinishInv, Asking, Unlink, Asks, KeptCount
  <2>6. CASE PopPass
    BY <2>6 DEF FinishInv, Asking, PopPass, Step, asking
  <2> QED
    BY <2>1, <2>2, <2>3, <2>4, <2>5, <2>6
<1> QED
  BY <1>3, <1>4

(* What follows an accepted pass: its question, or an end that is warned about. *)
LEMMA AfterMeans ==
    ASSUME Types, FinishInv, ActInv, AfterPass
    PROVE  FinishInv' /\ ActInv'
<1>1. /\ ~Finished /\ outcome = "none" /\ pc = "accepted"
      /\ UNCHANGED <<slots, reply, broken, outcome>> /\ doc \in Document
  BY DEF ActInv, Waiting, Over, AfterPass, coordinator, ending, Types, PageTypes
<1>2. CASE pc' = "finish"
  <2>1. doc' = [doc EXCEPT !.warned = TRUE]
    BY <1>2 DEF AfterPass, Asks
  <2>2. doc'.warned
    BY <1>1, <2>1, WarnedIs
  <2> QED
    BY <1>1, <1>2, <2>2 DEF FinishInv, ActInv, Finished, Asking, Over
<1>3. CASE pc' = "announce"
  <2>1. question' = [wait |-> "NEXT_PASS", offered |-> NextPassAnswers] /\ doc' = doc
    BY <1>3 DEF AfterPass, Asks
  <2>2. "FINISH" \in NextPassAnswers => KeptCount(doc) > 0
    BY DEF NextPassAnswers
  <2> QED
    BY <1>1, <1>3, <2>1, <2>2 DEF FinishInv, ActInv, Finished, Asking, Over
<1> QED
  BY <1>2, <1>3 DEF AfterPass, Asks

(* Asking: the answer the run takes away is its prompt's. *)
LEMMA AskingMeans ==
    ASSUME Types, AskInv, FinishInv, ActInv,
           \/ Announce \/ PersistWait \/ AskWhileStopping \/ AskChecks \/ Publish
           \/ Recheck \/ WaitEnds \/ SettleWait \/ TerminalAsk
    PROVE  FinishInv' /\ ActInv'
<1>1. /\ pc \in Asking \ {"act"} /\ pc' \in Asking /\ UNCHANGED <<doc, question, outcome>>
      /\ outcome = "none"
  BY DEF Announce, PersistWait, AskWhileStopping, AskChecks, Publish, Recheck, WaitEnds, SettleWait,
     TerminalAsk, Step, document, asking, ending, Asking, ActInv, Over
<1>2. FinishInv'
  BY <1>1 DEF FinishInv, Asking
<1>t. slots \in Seq(Slot) /\ Len(slots) \in Nat /\ DOMAIN slots = 1..Len(slots)
  BY DEF Types, AskTypes
<1>3. CASE pc \notin Waiting /\ pc' # "act"
  <2>1. ~Finished
    BY <1>1, <1>3 DEF ActInv, Waiting, Asking, Over
  <2>2. ~Finished'
    <3>1. CASE Publish
      <4> DEFINE slot == [offered |-> question.offered, answer |-> Open, woken |-> FALSE]
      <4>1. slot \in Slot
        BY AnswersAre DEF Slot, Types, AskTypes
      <4>2. slots' = Append(slots, slot) /\ slot.answer = Open
        BY <3>1 DEF Publish
      <4>3. slots'[Len(slots')] = slot
        BY <1>t, <4>1, <4>2, PromptIs
      <4> QED
        BY <4>2, <4>3 DEF Finished, Open
    <3>2. CASE ~Publish
      <4>1. UNCHANGED slots
        BY <1>1, <1>3, <3>2 DEF Announce, PersistWait, AskWhileStopping, AskChecks, Recheck, WaitEnds,
           SettleWait, TerminalAsk, Step, coordinator, Waiting
      <4> QED
        BY <2>1, <4>1 DEF Finished
    <3> QED
      BY <3>1, <3>2
  <2> QED
    BY <1>1, <1>2, <1>3, <2>2 DEF ActInv, Asking, Over
<1>4. CASE AskWhileStopping
  <2>1. ~Finished /\ UNCHANGED slots /\ reply' = "INTERRUPTED" /\ pc' = "act"
    BY <1>4 DEF ActInv, Waiting, Over, AskWhileStopping, Step, coordinator
  <2> QED
    BY <1>1, <1>2, <2>1 DEF ActInv, Finished, Over
<1>5. CASE TerminalAsk
  <2>1. PICK answer \in question.offered \cup {"ABORT", "TIMED_OUT"} :
           /\ reply' = answer
           /\ slots' = Append(slots, [offered |-> question.offered,
                                      answer |-> answer, woken |-> TRUE])
    BY <1>5 DEF TerminalAsk
  <2> DEFINE slot == [offered |-> question.offered, answer |-> answer, woken |-> TRUE]
  <2>2. slot \in Slot /\ slot.answer = answer
    BY AnswersAre DEF Slot, Types, AskTypes, Operator
  <2>3. slots'[Len(slots')] = slot /\ Len(slots') = Len(slots) + 1 /\ slots' \in Seq(Slot)
    BY <1>t, <2>1, <2>2, PromptIs
  <2>4. slots' # <<>>
    BY <1>t, <2>3
  <2>5. pc' = "act" /\ slots'[Len(slots')].answer = reply'
    BY <1>5, <2>1, <2>2, <2>3 DEF TerminalAsk, Step
  <2> QED
    BY <1>1, <1>2, <2>4, <2>5 DEF ActInv, Finished, Over
<1>6. CASE Recheck \/ WaitEnds \/ SettleWait
  <2>1. pc \in Waiting /\ slots # <<>> /\ Len(slots) \in 1..Len(slots)
    BY <1>6, <1>t DEF Recheck, WaitEnds, SettleWait, Step, Waiting, AskInv, SlotInv
  <2>2. slots' \in Seq(Slot) /\ Len(slots') = Len(slots)
    <3>1. slots[Len(slots)] \in Slot
      BY <1>t, <2>1
    <3>2. slots[Len(slots)].answer \in Answers
      BY <3>1 DEF Slot
    <3>3. CASE SettleWait
      <4> DEFINE old == slots[Len(slots)].answer
                 answer == IF old = Open THEN "TIMED_OUT" ELSE old
      <4>1. answer \in Answers
        BY <3>2, AnswersAre
      <4>2. Answered(slots, Len(slots), answer, slots')
        BY <1>t, <2>1, <3>3, <4>1, ClaimAndWakeIs DEF SettleWait, Settle, Unanswered
      <4> QED
        BY <4>2 DEF Answered
    <3>4. CASE Recheck
      <4> DEFINE old == slots[Len(slots)].answer
                 answer == IF old = Open THEN "INTERRUPTED" ELSE old
      <4>1. answer \in Answers
        BY <3>2, AnswersAre
      <4>2. slots' = slots \/ Answered(slots, Len(slots), answer, slots')
        BY <1>t, <2>1, <3>4, <4>1, ClaimAndWakeIs DEF Recheck, AfterOffer, Unanswered
      <4> QED
        BY <1>t, <4>2 DEF Answered
    <3>5. CASE WaitEnds
      BY <1>t, <3>5 DEF WaitEnds, coordinator
    <3> QED
      BY <1>6, <3>3, <3>4, <3>5
  <2>3. CASE pc' # "act"
    BY <1>1, <1>2, <1>6, <2>3 DEF ActInv, Asking, Over, Recheck, WaitEnds, SettleWait, Step, Waiting
  <2>4. CASE pc' = "act"
    <3>1. SettleWait
      BY <1>6, <2>4 DEF Recheck, WaitEnds, Step
    <3>2. reply' = slots'[Len(slots')].answer
      BY <3>1 DEF SettleWait, Last
    <3>3. slots' # <<>>
      BY <2>1, <2>2
    <3> QED
      BY <1>1, <1>2, <2>4, <3>2, <3>3 DEF ActInv, Finished, Over
  <2> QED
    BY <2>3, <2>4
<1> QED
  BY <1>1, <1>3, <1>4, <1>5, <1>6 DEF Announce, PersistWait, AskChecks, Publish, Step, Waiting

(* Acting on the answer. *)
LEMMA ActingMeans ==
    ASSUME Types, FinishInv, ActInv, ActEnds \/ ActOnNext \/ ActOnBlanks
    PROVE  FinishInv' /\ ActInv'
<1>1. pc = "act" /\ outcome = "none" /\ UNCHANGED <<slots, reply, question>> /\ doc \in Document
  BY DEF ActInv, Over, ActEnds, ActOnNext, ActOnBlanks, coordinator, asking, Types, PageTypes
<1>2. Finished' = Finished
  BY <1>1 DEF Finished
<1>3. CASE ActEnds
  <2>1. pc' \in Over /\ outcome' \in {"failed", "cancelled", "interrupted"}
    BY <1>3 DEF ActEnds, FailAs, Cancel, Over
  <2> QED
    BY <1>1, <1>2, <2>1 DEF FinishInv, ActInv, Asking, Over
<1>4. CASE ActOnNext
  <2>1. /\ doc' = [doc EXCEPT !.warned = (reply = "TIMED_OUT")] /\ UNCHANGED outcome
        /\ pc' \in {"ready", "pop", "finish"} /\ (pc' = "pop" => reply = "RESCAN")
        /\ pc' = "finish" => reply \in {"FINISH", "TIMED_OUT"}
        /\ reply = "FINISH" => pc' = "finish" /\ "FINISH" \in question.offered
    BY <1>4 DEF ActOnNext, ending, OffMenu, EndingsNobodyOffers
  <2>2. doc'.warned = (reply = "TIMED_OUT") /\ SameCount
    BY <1>1, <2>1, WarnedIs DEF SameCount
  <2>3. KeptCount(doc') = KeptCount(doc)
    BY <2>2, CountStays
  <2>4. FinishInv'
    BY <1>1, <2>1 DEF FinishInv, Asking
  <2>5. Finished => reply = "FINISH" /\ KeptCount(doc) > 0
    BY <1>1, <2>1 DEF ActInv, FinishInv, Asking
  <2>6. reply = "FINISH" => Finished
    BY <1>1 DEF ActInv, Finished
  <2> QED
    BY <1>1, <1>2, <2>1, <2>2, <2>3, <2>4, <2>5, <2>6 DEF ActInv, Over
<1>5. CASE ActOnBlanks
  <2>1. pc' \in {"forget", "accept"} /\ UNCHANGED <<doc, outcome>> /\ reply # "FINISH"
    BY <1>1, <1>5 DEF ActOnBlanks, ending, OffMenu, FinishInv, Asking, EndingsNobodyOffers
  <2>2. reply # "FAULT"
    BY <1>1, <1>5 DEF ActOnBlanks, OffMenu, Types, AskTypes, Operator, EndingsNobodyOffers
  <2> QED
    BY <1>1, <1>2, <2>1, <2>2 DEF FinishInv, ActInv, Asking, Over
<1> QED
  BY <1>3, <1>4, <1>5

(* The end of a document: finishing, delivering, keeping, and being cut short. *)
LEMMA EndingMeans ==
    ASSUME Types, FinishInv, ActInv,
           \/ Finish \/ Assemble \/ Deliver \/ Preserve \/ Signal \/ CtrlC
    PROVE  FinishInv' /\ ActInv'
<1>1. UNCHANGED <<slots, reply, question, doc>> /\ (Finished' <=> Finished)
  BY DEF Finish, Assemble, Deliver, Preserve, Signal, CtrlC, document, coordinator, asking, Finished
<1>2. pc' \in {"assemble", "deliver"} \cup Over
  BY DEF Finish, Assemble, Deliver, Preserve, Signal, CtrlC, FailAs, Cancel, Step, Over
<1>3. FinishInv'
  BY <1>1, <1>2 DEF FinishInv, Asking, Over
<1>4. CASE Finish
  BY <1>1, <1>2, <1>3, <1>4 DEF ActInv, Finish, FailAs, ending, Over
<1>5. CASE Assemble \/ Deliver
  BY <1>1, <1>2, <1>3, <1>5 DEF ActInv, Assemble, Deliver, FailAs, ending, Over
<1>6. CASE Preserve
  BY <1>1, <1>2, <1>3, <1>6 DEF ActInv, Preserve, Step, Over
<1>7. CASE Signal \/ CtrlC
  BY <1>1, <1>2, <1>3, <1>7 DEF ActInv, Signal, CtrlC, FailAs, Cancel, Over
<1> QED
  BY <1>3, <1>4, <1>5, <1>6, <1>7

(* Clicks and stops change no answer that was given. *)
LEMMA OthersMean ==
    ASSUME Types, AskInv, FinishInv, ActInv, FinalAnswers,
           UNCHANGED <<pc, document, asking, ending>>
    PROVE  FinishInv' /\ ActInv'
<1>1. FinishInv'
  BY DEF FinishInv, document, asking
<1>2. slots \in Seq(Slot) /\ Len(slots) \in Nat /\ DOMAIN slots = 1..Len(slots)
      /\ DOMAIN slots' = 1..Len(slots)
  BY DEF Types, AskTypes, FinalAnswers
<1>3. CASE slots = <<>>
  <2>1. slots' = <<>>
    BY <1>2, <1>3
  <2> QED
    BY <1>1, <1>3, <2>1 DEF ActInv, Finished, document, asking, ending
<1>4. CASE slots # <<>>
  <2>1. Len(slots) \in DOMAIN slots /\ slots' # <<>>
    BY <1>2, <1>4
  <2>2. CASE pc \in Waiting
    BY <1>1, <2>1, <2>2 DEF FinalAnswers, ActInv, Finished, Waiting, Over, document, asking, ending
  <2>3. CASE pc \notin Waiting
    <3>1. slots'[Len(slots')].answer = slots[Len(slots)].answer
      BY <2>1, <2>3 DEF FinalAnswers, AskInv, SlotInv
    <3> QED
      BY <1>1, <1>4, <2>1, <3>1 DEF FinalAnswers, ActInv, Finished, document, asking, ending
  <2> QED
    BY <2>2, <2>3
<1> QED
  BY <1>3, <1>4

-----------------------------------------------------------------------------
(* The operators of the document. *)

\* The places of a pass's pages behind the records there are.
Shifted(by, places) == {by + k : k \in places}

\* What accepting a pass makes of a document.
Accepted(after, d, pages, skipped, cap) ==
    /\ after \in Document
    /\ after.records = d.records \o pages
    /\ after.removed = d.removed \cup Shifted(Len(d.records), skipped)
    /\ after.passes = Append(d.passes, [pages |-> Len(pages), cap |-> cap])
    /\ after.started = d.started /\ after.warned = d.warned

(* Accepting a pass. *)
LEMMA AcceptIs ==
    ASSUME NEW d \in Document, NEW pages \in Seq(Page), NEW skipped \in SUBSET Nat, NEW cap \in BOOLEAN
    PROVE  Accepted(WithPass(d, pages, skipped, cap), d, pages, skipped, cap)
<1>1. /\ d.records \in Seq(Page) /\ d.removed \in SUBSET Nat /\ d.passes \in Seq(Pass)
      /\ d.started \in Nat /\ d.warned \in BOOLEAN /\ Len(pages) \in Nat /\ Len(d.records) \in Nat
  BY DEF Document
<1> DEFINE records == d.records \o pages
           removed == d.removed \cup Shifted(Len(d.records), skipped)
           passes == Append(d.passes, [pages |-> Len(pages), cap |-> cap])
<1>2. records \in Seq(Page)
  BY <1>1, ConcatProperties
<1>3. removed \in SUBSET Nat
  BY <1>1 DEF Shifted
<1>4. passes \in Seq(Pass)
  BY <1>1 DEF Pass
<1>5. WithPass(d, pages, skipped, cap)
         = [d EXCEPT !.removed = removed, !.records = records, !.passes = passes]
  BY DEF WithPass, Shifted
<1> HIDE DEF records, removed, passes
<1>6. WithPass(d, pages, skipped, cap) \in Document
      /\ WithPass(d, pages, skipped, cap).records = records
      /\ WithPass(d, pages, skipped, cap).removed = removed
      /\ WithPass(d, pages, skipped, cap).passes = passes
      /\ WithPass(d, pages, skipped, cap).started = d.started
      /\ WithPass(d, pages, skipped, cap).warned = d.warned
  BY <1>2, <1>3, <1>4, <1>5 DEF Document
<1> QED
  BY <1>6 DEF records, removed, passes, Accepted

(* Throwing the last pass away. *)
LEMMA PopIs ==
    ASSUME NEW d \in Document, d.passes # <<>>,
           NEW first \in Nat, first = Len(d.records) - d.passes[Len(d.passes)].pages
    PROVE  LET after == WithoutLastPass(d) IN
           /\ after \in Document
           /\ after.records = SubSeq(d.records, 1, first)
           /\ after.removed = {k \in d.removed : k <= first}
           /\ after.passes = SubSeq(d.passes, 1, Len(d.passes) - 1)
           /\ after.started = d.started /\ after.warned = d.warned
<1>1. /\ d.records \in Seq(Page) /\ d.removed \in SUBSET Nat /\ d.passes \in Seq(Pass)
      /\ d.started \in Nat /\ d.warned \in BOOLEAN /\ Len(d.records) \in Nat
      /\ Len(d.passes) \in Nat \ {0}
  BY EmptySeq DEF Document
<1>2. d.passes[Len(d.passes)].pages \in Nat
  <2>1. d.passes[Len(d.passes)] \in Pass
    BY <1>1
  <2> QED
    BY <2>1 DEF Pass
<1> DEFINE records == SubSeq(d.records, 1, first)
           removed == {k \in d.removed : k <= first}
           passes == SubSeq(d.passes, 1, Len(d.passes) - 1)
<1>3. records \in Seq(Page)
  <2>1. \A i \in 1..first : d.records[i] \in Page
    BY <1>1, <1>2
  <2> QED
    BY <2>1, SubSeqProperties
<1>4. passes \in Seq(Pass)
  <2>1. \A i \in 1..(Len(d.passes) - 1) : d.passes[i] \in Pass
    BY <1>1
  <2> QED
    BY <1>1, <2>1, SubSeqProperties
<1>5. removed \in SUBSET Nat
  BY <1>1
<1>6. WithoutLastPass(d)
         = [d EXCEPT !.passes = passes, !.records = records, !.removed = removed]
  BY DEF WithoutLastPass, Last, Front
<1> HIDE DEF records, removed, passes
<1>7. WithoutLastPass(d) \in Document
      /\ WithoutLastPass(d).records = records /\ WithoutLastPass(d).removed = removed
      /\ WithoutLastPass(d).passes = passes /\ WithoutLastPass(d).started = d.started
      /\ WithoutLastPass(d).warned = d.warned
  BY <1>3, <1>4, <1>5, <1>6 DEF Document
<1> QED
  BY <1>7 DEF records, removed, passes

\* How many of a set of places come no later than one of them.
Rank(left, i) == Cardinality({j \in left : j <= i})

(* Ranks number the places of a finite set in their order. *)
LEMMA RanksNumber ==
    ASSUME NEW left \in SUBSET Nat, IsFiniteSet(left)
    PROVE  /\ Cardinality(left) \in Nat
           /\ \A i \in left : Rank(left, i) \in 1..Cardinality(left)
           /\ \A i, j \in left : i < j => Rank(left, i) < Rank(left, j)
           /\ \A k \in 1..Cardinality(left) : \E i \in left : Rank(left, i) = k
<1> DEFINE upTo(i) == {j \in left : j <= i}
           n == Cardinality(left)
<1>1. n \in Nat
  BY FS_CardinalityType
<1>2. ASSUME NEW i \in left
      PROVE  /\ IsFiniteSet(upTo(i)) /\ Cardinality(upTo(i)) <= n
             /\ Cardinality(upTo(i)) \in Nat \ {0}
  <2>1. upTo(i) \in SUBSET left /\ i \in upTo(i)
    OBVIOUS
  <2>2. IsFiniteSet(upTo(i)) /\ Cardinality(upTo(i)) <= n
    <3> HIDE DEF upTo
    <3> QED
      BY <2>1, FS_Subset
  <2>3. Cardinality(upTo(i)) \in Nat /\ Cardinality(upTo(i)) # 0
    <3> HIDE DEF upTo
    <3> QED
      BY <2>1, <2>2, FS_CardinalityType, FS_EmptySet
  <2> QED
    BY <2>2, <2>3
<1>3. \A i \in left : Rank(left, i) \in 1..n
  BY <1>1, <1>2 DEF Rank
<1>4. ASSUME NEW i \in left, NEW j \in left, i < j PROVE Rank(left, i) < Rank(left, j)
  <2>0. i \in Nat /\ j \in Nat /\ \A k \in left : k \in Nat
    OBVIOUS
  <2>1. upTo(i) \in SUBSET upTo(j)
    <3>1. \A k \in left : k <= i => k <= j
      BY <1>4, <2>0
    <3> QED
      BY <3>1
  <2>3. j \in upTo(j) /\ j \notin upTo(i)
    BY <1>4, <2>0
  <2>2. Cardinality(upTo(i)) <= Cardinality(upTo(j)) /\ Cardinality(upTo(i)) # Cardinality(upTo(j))
    <3>1. IsFiniteSet(upTo(j))
      BY <1>2
    <3> HIDE DEF upTo
    <3> QED
      BY <2>1, <2>3, <3>1, FS_Subset
  <2>4. Cardinality(upTo(i)) \in Nat /\ Cardinality(upTo(j)) \in Nat
    BY <1>2
  <2>5. Rank(left, i) = Cardinality(upTo(i)) /\ Rank(left, j) = Cardinality(upTo(j))
    BY DEF Rank
  <2> HIDE DEF upTo
  <2> QED
    BY <2>2, <2>4, <2>5
<1>5. ASSUME NEW k \in 1..n PROVE \E i \in left : Rank(left, i) = k
  <2> DEFINE rank == [i \in left |-> Rank(left, i)]
  <2>1. rank \in [left -> 1..n]
    BY <1>3
  <2>2. \A i, j \in left : rank[i] = rank[j] => i = j
    <3> SUFFICES ASSUME NEW i \in left, NEW j \in left, rank[i] = rank[j] PROVE i = j
      OBVIOUS
    <3>1. i < j \/ j < i \/ i = j
      OBVIOUS
    <3>2. Rank(left, i) = Rank(left, j) /\ Rank(left, i) \in Nat
      BY <1>3
    <3> QED
      BY <3>1, <3>2, <1>4
  <2>3. rank \in Injection(left, 1..n)
    BY <2>1, <2>2 DEF Injection, IsInjective
  <2>4. IsFiniteSet(1..n) /\ Cardinality(1..n) = n
    <3>1. IsFiniteSet(1..n) /\ Cardinality(1..n) = IF 1 > n THEN 0 ELSE n - 1 + 1
      BY SMTT(30), <1>1, FS_Interval
    <3> QED
      BY <1>1, <3>1
  <2>5. rank \in Surjection(left, 1..n)
    <3> HIDE DEF rank
    <3> QED
      BY <1>1, <2>3, <2>4, FS_Injection
  <2> QED
    BY <2>5 DEF Surjection
<1> QED
  BY <1>1, <1>3, <1>4, <1>5

(* What is kept of a document: the pages not removed, each once, in their order. *)
LEMMA KeptPagesAre ==
    ASSUME NEW d \in Document
    PROVE  LET left == DOMAIN d.records \ d.removed IN
           /\ DOMAIN KeptPages(d) = 1..Cardinality(left) /\ Cardinality(left) \in Nat
           /\ Range(KeptPages(d)) = {d.records[i] : i \in left}
           /\ \A j, k \in DOMAIN KeptPages(d) : j < k =>
                 \E a, b \in left : a < b /\ KeptPages(d)[j] = d.records[a]
                                          /\ KeptPages(d)[k] = d.records[b]
<1> DEFINE left == DOMAIN d.records \ d.removed
           at(k) == CHOOSE i \in left : Rank(left, i) = k
<1>1. left \in SUBSET Nat /\ IsFiniteSet(left)
  <2>1. DOMAIN d.records = 1..Len(d.records) /\ Len(d.records) \in Nat
    BY DEF Document
  <2>2. IsFiniteSet(DOMAIN d.records)
    BY <2>1, FS_Interval
  <2> QED
    BY <2>1, <2>2, FS_Subset
<1>2. KeptPages(d) = [k \in 1..Cardinality(left) |-> d.records[at(k)]]
  BY DEF KeptPages, Rank
<1> HIDE DEF left
<1>3. /\ Cardinality(left) \in Nat
      /\ \A i \in left : Rank(left, i) \in 1..Cardinality(left)
      /\ \A i, j \in left : i < j => Rank(left, i) < Rank(left, j)
      /\ \A k \in 1..Cardinality(left) : \E i \in left : Rank(left, i) = k
  BY <1>1, RanksNumber
<1>4. \A k \in 1..Cardinality(left) : at(k) \in left /\ Rank(left, at(k)) = k
  BY <1>3
<1>5. \A i \in left : at(Rank(left, i)) = i
  <2> SUFFICES ASSUME NEW i \in left PROVE at(Rank(left, i)) = i
    OBVIOUS
  <2> DEFINE j == at(Rank(left, i))
  <2>1. j \in left /\ Rank(left, j) = Rank(left, i)
    BY <1>3, <1>4
  <2> HIDE DEF j, at
  <2>2. i \in Nat /\ j \in Nat
    BY <1>1, <2>1
  <2>4. Rank(left, i) \in Nat
    BY <1>3
  <2>3. j = i
    BY <1>3, <2>1, <2>2, <2>4
  <2> QED
    BY <2>3 DEF j
<1> HIDE DEF at
<1>6. Range(KeptPages(d)) = {d.records[i] : i \in left}
  <2>1. ASSUME NEW i \in left PROVE d.records[i] \in Range(KeptPages(d))
    <3>1. Rank(left, i) \in DOMAIN KeptPages(d) /\ KeptPages(d)[Rank(left, i)] = d.records[i]
      BY <1>2, <1>3, <1>5
    <3> QED
      BY <3>1 DEF Range
  <2> QED
    BY <1>2, <1>4, <2>1 DEF Range
<1>7. ASSUME NEW j \in 1..Cardinality(left), NEW k \in 1..Cardinality(left), j < k
      PROVE  at(j) < at(k)
  <2>1. at(j) \in left /\ at(k) \in left /\ at(j) \in Nat /\ at(k) \in Nat
        /\ Rank(left, at(j)) = j /\ Rank(left, at(k)) = k
    BY <1>1, <1>4
  <2>2. ~(at(k) < at(j)) /\ at(j) # at(k)
    BY <1>3, <1>7, <2>1
  <2> QED
    BY <2>1, <2>2
<1> QED
  BY ZenonT(40), <1>2, <1>3, <1>4, <1>6, <1>7 DEF left

-----------------------------------------------------------------------------
(* The ledger of accepted passes. *)

(* The bounds number places of the records, and rise. *)
LEMMA BoundsAre ==
    ASSUME NEW d \in Document, NEW decisions \in Seq(Decision),
           NEW bounds \in [0..Len(decisions) -> Nat], PassesEnd(d, decisions, bounds)
    PROVE  /\ Len(decisions) \in Nat /\ Len(d.records) \in Nat /\ bounds[0] = 0
           /\ DOMAIN d.records = 1..Len(d.records)
           /\ Len(d.passes) = Len(decisions) /\ bounds[Len(decisions)] = Len(d.records)
           /\ \A i \in 1..Len(decisions) :
                 /\ i - 1 \in 0..Len(decisions) /\ i \in 0..Len(decisions)
                 /\ bounds[i - 1] \in Nat /\ bounds[i] \in Nat /\ bounds[i] <= Len(d.records)
                 /\ \A k \in (bounds[i - 1] + 1)..bounds[i] : k \in DOMAIN d.records
<1>1. /\ Len(decisions) \in Nat /\ Len(d.records) \in Nat /\ DOMAIN d.records = 1..Len(d.records)
  BY DEF Document
<1>2. /\ bounds[0] = 0 /\ bounds[Len(decisions)] = Len(d.records)
      /\ Len(d.passes) = Len(decisions)
      /\ \A i \in 0..Len(decisions), j \in 0..Len(decisions) : i <= j => bounds[i] <= bounds[j]
  BY DEF PassesEnd
<1>3. ASSUME NEW i \in 1..Len(decisions)
      PROVE  /\ i - 1 \in 0..Len(decisions) /\ i \in 0..Len(decisions)
             /\ bounds[i - 1] \in Nat /\ bounds[i] \in Nat /\ bounds[i] <= Len(d.records)
             /\ \A k \in (bounds[i - 1] + 1)..bounds[i] : k \in DOMAIN d.records
  <2>1. i - 1 \in 0..Len(decisions) /\ i \in 0..Len(decisions)
        /\ Len(decisions) \in 0..Len(decisions) /\ i <= Len(decisions)
    BY <1>1, <1>3
  <2>2. bounds[i - 1] \in Nat /\ bounds[i] \in Nat /\ bounds[i] <= Len(d.records)
    BY <1>2, <2>1
  <2>3. \A k \in (bounds[i - 1] + 1)..bounds[i] : k \in DOMAIN d.records
    BY <1>1, <2>2
  <2> QED
    BY <2>1, <2>2, <2>3
<1> QED
  BY <1>1, <1>2, <1>3

(* What is to be delivered is what the document has not removed. *)
LEMMA LedgerDelivers ==
    ASSUME NEW d \in Document, NEW decisions \in Seq(Decision), Ledger(d, decisions)
    PROVE  UNION {{p \in DOMAIN e : e[p]} : e \in Range(decisions)}
              = {d.records[k] : k \in DOMAIN d.records \ d.removed}
<1>1. PICK bounds \in [0..Len(decisions) -> Nat] : PassesEnd(d, decisions, bounds)
  BY DEF Ledger
<1> DEFINE n == Len(decisions)
           places(i) == (bounds[i - 1] + 1)..bounds[i]
<1>2. /\ n \in Nat /\ \A i \in 1..n : \A k \in places(i) : k \in DOMAIN d.records
  BY <1>1, BoundsAre
<1>3. /\ \A i \in 1..n :
            /\ DOMAIN decisions[i] = {d.records[k] : k \in places(i)}
            /\ \A k \in places(i) : decisions[i][d.records[k]] <=> k \notin d.removed
      /\ \A k \in DOMAIN d.records : \E i \in 1..n : k \in places(i)
  BY <1>1 DEF PassesEnd
<1>4. Range(decisions) = {decisions[i] : i \in 1..n}
  BY <1>2 DEF Range
<1> HIDE DEF places
<1>5. ASSUME NEW i \in 1..n, NEW p \in DOMAIN decisions[i], decisions[i][p]
      PROVE  \E k \in DOMAIN d.records \ d.removed : p = d.records[k]
  <2>1. PICK k \in places(i) : p = d.records[k]
    BY <1>3
  <2> QED
    BY <1>2, <1>3, <1>5, <2>1
<1>6. ASSUME NEW k \in DOMAIN d.records \ d.removed
      PROVE  \E i \in 1..n : d.records[k] \in DOMAIN decisions[i] /\ decisions[i][d.records[k]]
  <2>1. PICK i \in 1..n : k \in places(i)
    BY <1>3
  <2> QED
    BY <1>3, <2>1
<1> QED
  BY <1>4, <1>5, <1>6

(* An accepted pass joins the ledger with the decision about its blank pages. *)
LEMMA AcceptLedger ==
    ASSUME NEW d \in Document, NEW decisions \in Seq(Decision), Ledger(d, decisions),
           NEW pages \in Seq(Page), NEW skipped \in SUBSET (DOMAIN pages), NEW cap \in BOOLEAN,
           NEW s \in Nat, \A p \in Range(d.records) : p.pass < s,
           \A k \in DOMAIN pages : pages[k].pass = s /\ pages[k].at = k
    PROVE  Ledger(WithPass(d, pages, skipped, cap),
                  Append(decisions, [p \in Range(pages) |-> p.at \notin skipped]))
<1>1. PICK bounds \in [0..Len(decisions) -> Nat] : PassesEnd(d, decisions, bounds)
  BY DEF Ledger
<1> DEFINE after == WithPass(d, pages, skipped, cap)
           decision == [p \in Range(pages) |-> p.at \notin skipped]
           n == Len(decisions)
           L == Len(d.records)
           M == Len(pages)
           ends == [i \in 0..(n + 1) |-> IF i = n + 1 THEN L + M ELSE bounds[i]]
<1>2. /\ d.records \in Seq(Page) /\ d.passes \in Seq(Pass) /\ n \in Nat /\ L \in Nat /\ M \in Nat
      /\ DOMAIN d.records = 1..L /\ DOMAIN pages = 1..M /\ skipped \in SUBSET Nat
  BY DEF Document
<1>3. /\ after.records = d.records \o pages
      /\ after.removed = d.removed \cup Shifted(L, skipped)
      /\ after.passes = Append(d.passes, [pages |-> M, cap |-> cap])
  <2>1. skipped \in SUBSET Nat
    BY <1>2
  <2>2. Accepted(WithPass(d, pages, skipped, cap), d, pages, skipped, cap)
    BY <2>1, AcceptIs
  <2> QED
    BY <2>2 DEF Accepted
<1> HIDE DEF after
<1>4. /\ Len(after.records) = L + M /\ DOMAIN after.records = 1..(L + M)
      /\ \A k \in 1..L : after.records[k] = d.records[k]
      /\ \A k \in 1..M : after.records[L + k] = pages[k]
  <2>1. /\ Len(d.records \o pages) = L + M
        /\ \A i \in 1..(L + M) : (d.records \o pages)[i]
              = IF i <= L THEN d.records[i] ELSE pages[i - L]
    BY <1>2, ConcatProperties
  <2>2. DOMAIN (d.records \o pages) = 1..(L + M)
    BY <1>2, <2>1, ConcatProperties
  <2>3. \A k \in 1..L : k \in 1..(L + M) /\ k <= L
    BY <1>2
  <2>4. \A k \in 1..M : L + k \in 1..(L + M) /\ ~(L + k <= L) /\ (L + k) - L = k
    BY <1>2
  <2> HIDE DEF L, M
  <2> QED
    BY SMTT(30), <1>3, <2>1, <2>2, <2>3, <2>4
<1>5. /\ d.removed \subseteq 1..L
      /\ \A j, k \in 1..L : j < k => Before(d.records[j], d.records[k])
  BY <1>2 DEF Ledger
<1>6. after.removed \subseteq DOMAIN after.records
  <2>1. \A k \in skipped : L + k \in 1..(L + M)
    BY <1>2
  <2>2. 1..L \subseteq 1..(L + M)
    BY <1>2
  <2> HIDE DEF L, M
  <2> QED
    BY <1>3, <1>4, <1>5, <2>1, <2>2 DEF Shifted
<1>7. \A k \in 1..L : k \in after.removed <=> k \in d.removed
  <2>1. \A j \in skipped : L + j \notin 1..L
    BY <1>2
  <2> HIDE DEF L
  <2> QED
    BY <1>3, <2>1 DEF Shifted
<1>8. \A k \in 1..M : L + k \in after.removed <=> k \in skipped
  <2>1. ASSUME NEW k \in 1..M PROVE L + k \notin d.removed
    <3>1. L + k \notin 1..L
      BY <1>2
    <3> QED
      BY <1>5, <3>1
  <2>2. \A k \in 1..M, j \in skipped : L + k = L + j => k = j
    BY <1>2
  <2> HIDE DEF L, M
  <2> QED
    BY <1>3, <2>1, <2>2 DEF Shifted
<1>9. ASSUME NEW j \in DOMAIN after.records, NEW k \in DOMAIN after.records, j < k
      PROVE  Before(after.records[j], after.records[k])
  <2>1. j \in Nat /\ k \in Nat /\ j >= 1 /\ k <= L + M
    BY <1>4
  <2>2. CASE k <= L
    <3>1. j \in 1..L /\ k \in 1..L
      BY <1>2, <1>9, <2>1, <2>2
    <3> QED
      BY <1>4, <1>5, <1>9, <3>1
  <2>3. CASE j > L
    <3>1. j - L \in 1..M /\ k - L \in 1..M /\ j = L + (j - L) /\ k = L + (k - L) /\ j - L < k - L
      BY SMTT(30), <1>2, <1>9, <2>1, <2>3
    <3>2. after.records[j] = pages[j - L] /\ after.records[k] = pages[k - L]
      BY <1>4, <3>1
    <3> QED
      BY <1>2, <3>1, <3>2 DEF Before
  <2>4. CASE j <= L /\ L < k
    <3>1. j \in 1..L /\ k - L \in 1..M /\ k = L + (k - L)
      BY <1>2, <1>9, <2>1, <2>4
    <3>2. after.records[j] = d.records[j] /\ after.records[k] = pages[k - L]
      BY <1>4, <3>1
    <3>3. d.records[j].pass < s /\ pages[k - L].pass = s
      BY <1>2, <3>1 DEF Range
    <3> QED
      BY <3>2, <3>3 DEF Before
  <2> QED
    BY <1>2, <2>1, <2>2, <2>3, <2>4
<1>10. Append(decisions, decision) \in Seq(Decision) /\ Len(Append(decisions, decision)) = n + 1
       /\ Append(decisions, decision)[n + 1] = decision
       /\ \A i \in 1..n : Append(decisions, decision)[i] = decisions[i]
  <2>1. decision \in Decision
    <3>1. Range(pages) \in SUBSET Page
      BY DEF Range
    <3>2. decision \in [Range(pages) -> BOOLEAN]
      OBVIOUS
    <3> HIDE DEF decision
    <3> QED
      BY <3>1, <3>2 DEF Decision
  <2> HIDE DEF decision
  <2> QED
    BY <1>2, <2>1, AppendProperties
<1>11. /\ Len(after.passes) = n + 1 /\ after.passes[n + 1].pages = M
       /\ \A i \in 1..n : after.passes[i] = d.passes[i]
  <2>1. Len(d.passes) = n /\ [pages |-> M, cap |-> cap] \in Pass
    BY <1>1, <1>2 DEF PassesEnd, Pass
  <2> QED
    BY <1>2, <1>3, <2>1, AppendProperties
<1>12. PassesEnd(after, Append(decisions, decision), ends)
  <2>1. /\ bounds[0] = 0 /\ bounds[n] = L
        /\ \A i \in 1..n : /\ i - 1 \in 0..n /\ i \in 0..n
                           /\ bounds[i - 1] \in Nat /\ bounds[i] \in Nat /\ bounds[i] <= L
                           /\ \A k \in (bounds[i - 1] + 1)..bounds[i] : k \in 1..L
    BY <1>1, <1>2, BoundsAre
  <2>2. /\ \A i \in 0..n : ends[i] = bounds[i]
        /\ ends[n + 1] = L + M /\ ends[0] = 0 /\ ends[n] = L
    BY <1>2, <2>1
  <2>4. ASSUME NEW i \in 0..(n + 1), NEW j \in 0..(n + 1), i <= j PROVE ends[i] <= ends[j]
    <3>0. n \in 0..n
      BY <1>2
    <3>1. \A a, b \in 0..n : a <= b => bounds[a] <= bounds[b]
      BY <1>1 DEF PassesEnd
    <3>2. CASE j = n + 1 /\ i # n + 1
      <4>1. i \in 0..n /\ i <= n
        BY <1>2, <3>2
      <4>2. ends[i] \in Nat /\ ends[i] <= L
        BY <2>1, <2>2, <3>0, <3>1, <4>1
      <4> QED
        BY <1>2, <2>2, <3>2, <4>2
    <3>3. CASE j # n + 1
      <4>1. i \in 0..n /\ j \in 0..n
        BY <1>2, <2>4, <3>3
      <4> QED
        BY <2>2, <2>4, <3>1, <4>1
    <3>4. CASE i = n + 1 /\ j = n + 1
      BY <1>2, <2>2, <3>4
    <3> QED
      BY <3>2, <3>3, <3>4, <1>2, <2>4
  <2> HIDE DEF ends, decision
  <2>5. ASSUME NEW i \in 1..(n + 1)
        PROVE  /\ ends[i] = ends[i - 1] + after.passes[i].pages
               /\ DOMAIN Append(decisions, decision)[i]
                     = {after.records[k] : k \in (ends[i - 1] + 1)..ends[i]}
               /\ \A k \in (ends[i - 1] + 1)..ends[i] :
                     Append(decisions, decision)[i][after.records[k]] <=> k \notin after.removed
    <3>1. CASE i \in 1..n
      <4>1. ends[i] = bounds[i] /\ ends[i - 1] = bounds[i - 1]
        BY <2>1, <2>2, <3>1
      <4>2. /\ bounds[i] = bounds[i - 1] + d.passes[i].pages
            /\ DOMAIN decisions[i] = {d.records[k] : k \in (bounds[i - 1] + 1)..bounds[i]}
            /\ \A k \in (bounds[i - 1] + 1)..bounds[i] :
                  decisions[i][d.records[k]] <=> k \notin d.removed
        BY <1>1, <3>1 DEF PassesEnd
      <4>3. \A k \in (bounds[i - 1] + 1)..bounds[i] : k \in 1..L
        BY <2>1, <3>1
      <4>4. Append(decisions, decision)[i] = decisions[i] /\ after.passes[i] = d.passes[i]
        BY <1>10, <1>11, <3>1
      <4>5. \A k \in (bounds[i - 1] + 1)..bounds[i] :
               after.records[k] = d.records[k] /\ (k \in after.removed <=> k \in d.removed)
        BY <1>4, <1>7, <4>3
      <4>6. {after.records[k] : k \in (bounds[i - 1] + 1)..bounds[i]}
               = {d.records[k] : k \in (bounds[i - 1] + 1)..bounds[i]}
        <5> DEFINE here == (bounds[i - 1] + 1)..bounds[i]
        <5>1. \A k \in here : after.records[k] = d.records[k]
          BY <4>5
        <5> HIDE DEF here
        <5>2. {after.records[k] : k \in here} = {d.records[k] : k \in here}
          BY <5>1
        <5> QED
          BY <5>2 DEF here
      <4>7. \A k \in (bounds[i - 1] + 1)..bounds[i] :
               decisions[i][after.records[k]] <=> k \notin after.removed
        BY <4>2, <4>5
      <4> QED
        BY <4>1, <4>2, <4>4, <4>6, <4>7
    <3>2. CASE i = n + 1
      <4>1. ends[i] = L + M /\ ends[i - 1] = L /\ i - 1 = n
        BY <1>2, <2>2, <3>2
      <4>2. Append(decisions, decision)[i] = decision /\ after.passes[i].pages = M
        BY <1>10, <1>11, <3>2
      <4>3. \A k \in (L + 1)..(L + M) : k - L \in 1..M /\ L + (k - L) = k
        BY <1>2
      <4>4. \A j \in 1..M : L + j \in (L + 1)..(L + M)
        BY <1>2
      <4>5. \A k \in (L + 1)..(L + M) :
               after.records[k] = pages[k - L] /\ (k \in after.removed <=> k - L \in skipped)
        BY <1>4, <1>8, <4>3
      <4>6. DOMAIN decision = Range(pages)
            /\ \A j \in 1..M : decision[pages[j]] <=> j \notin skipped
        BY <1>2 DEF decision, Range
      <4>7. Range(pages) = {after.records[k] : k \in (L + 1)..(L + M)}
        <5>1. Range(pages) = {pages[j] : j \in 1..M}
          BY <1>2 DEF Range
        <5>2. \A j \in 1..M : pages[j] = after.records[L + j]
          BY <1>4
        <5> HIDE DEF L, M
        <5> QED
          BY <4>3, <4>4, <4>5, <5>1, <5>2
      <4>8. \A k \in (L + 1)..(L + M) : decision[after.records[k]] <=> k \notin after.removed
        BY <4>3, <4>5, <4>6
      <4> HIDE DEF L, M
      <4> QED
        BY <4>1, <4>2, <4>6, <4>7, <4>8
    <3> QED
      BY <1>2, <3>1, <3>2
  <2>6. ASSUME NEW k \in DOMAIN after.records
        PROVE  \E i \in 1..(n + 1) : k \in (ends[i - 1] + 1)..ends[i]
    <3>1. CASE k \in 1..L
      <4>1. PICK i \in 1..n : k \in (bounds[i - 1] + 1)..bounds[i]
        BY <1>1, <1>2, <3>1 DEF PassesEnd
      <4>2. i \in 1..(n + 1) /\ ends[i] = bounds[i] /\ ends[i - 1] = bounds[i - 1]
        BY <1>2, <2>1, <2>2
      <4> QED
        BY <4>1, <4>2
    <3>2. CASE k \notin 1..L
      <4>1. k \in (L + 1)..(L + M) /\ n + 1 \in 1..(n + 1) /\ (n + 1) - 1 = n
        BY <1>2, <1>4, <3>2
      <4> QED
        BY <2>2, <4>1
    <3> QED
      BY <3>1, <3>2
  <2>7. ends[n + 1] = Len(after.records)
    BY <1>4, <2>2
  <2> HIDE DEF L, M
  <2> QED
    BY <1>10, <1>11, <2>2, <2>4, <2>5, <2>6, <2>7 DEF PassesEnd
<1>13. ends \in [0..Len(Append(decisions, decision)) -> Nat]
  <2>1. \A i \in 0..(n + 1) : i # n + 1 => i \in 0..n
    BY <1>2
  <2>2. \A i \in 0..n : bounds[i] \in Nat
    OBVIOUS
  <2>3. L + M \in Nat
    BY <1>2
  <2>4. ends \in [0..(n + 1) -> Nat]
    <3> HIDE DEF L, M
    <3> QED
      BY <2>1, <2>2, <2>3
  <2> QED
    BY <1>10, <2>4
<1> HIDE DEF ends, decision
<1>14. Ledger(after, Append(decisions, decision))
  BY <1>6, <1>9, <1>12, <1>13 DEF Ledger
<1> QED
  BY <1>14 DEF after, decision

(* Throwing the last pass away leaves the ledger of the passes before it. *)
LEMMA PopLedger ==
    ASSUME NEW d \in Document, NEW decisions \in Seq(Decision), Ledger(d, decisions),
           d.passes # <<>>
    PROVE  LET after == WithoutLastPass(d) IN
           /\ after \in Document /\ after.started = d.started /\ after.warned = d.warned
           /\ Front(decisions) \in Seq(Decision) /\ Ledger(after, Front(decisions))
           /\ Range(after.records) \subseteq Range(d.records)
<1>1. PICK bounds \in [0..Len(decisions) -> Nat] : PassesEnd(d, decisions, bounds)
  BY DEF Ledger
<1> DEFINE after == WithoutLastPass(d)
           n == Len(decisions)
           m == n - 1
           first == bounds[m]
           ends == [i \in 0..m |-> bounds[i]]
<1>2. /\ d.records \in Seq(Page) /\ d.passes \in Seq(Pass) /\ Len(d.passes) = n
      /\ n \in Nat /\ m \in Nat /\ n = m + 1 /\ n \in 1..n /\ n - 1 = m /\ m \in 0..n
      /\ Len(d.records) \in Nat /\ DOMAIN d.records = 1..Len(d.records)
  <2>1. d.records \in Seq(Page) /\ d.passes \in Seq(Pass) /\ Len(d.passes) = n
    BY <1>1 DEF Document, PassesEnd
  <2>2. n \in Nat /\ n # 0
    BY <2>1, EmptySeq
  <2> QED
    BY <2>1, <2>2
<1>3. /\ bounds[0] = 0 /\ bounds[n] = Len(d.records)
      /\ \A i \in 1..n : /\ i - 1 \in 0..n /\ i \in 0..n
                         /\ bounds[i - 1] \in Nat /\ bounds[i] \in Nat
      /\ bounds[n] = first + d.passes[n].pages
      /\ \A i \in 0..n, j \in 0..n : i <= j => bounds[i] <= bounds[j]
  <2>1. /\ bounds[0] = 0 /\ bounds[n] = Len(d.records)
        /\ \A i \in 1..n : /\ i - 1 \in 0..n /\ i \in 0..n
                           /\ bounds[i - 1] \in Nat /\ bounds[i] \in Nat
    BY <1>1, BoundsAre
  <2>2. /\ \A i \in 1..n : bounds[i] = bounds[i - 1] + d.passes[i].pages
        /\ \A i \in 0..n, j \in 0..n : i <= j => bounds[i] <= bounds[j]
    BY <1>1 DEF PassesEnd
  <2>3. bounds[n] = bounds[m] + d.passes[n].pages
    <3>1. bounds[n] = bounds[n - 1] + d.passes[n].pages
      BY <1>2, <2>2
    <3> QED
      BY <3>1
  <2> QED
    BY <2>1, <2>2, <2>3
<1>4. first \in Nat /\ first <= Len(d.records)
      /\ first = Len(d.records) - d.passes[Len(d.passes)].pages
  <2>1. first \in Nat /\ first <= Len(d.records)
    <3>1. n \in 0..n /\ m <= n
      BY <1>2
    <3> QED
      BY <1>2, <1>3, <3>1
  <2>2. d.passes[n].pages \in Nat
    <3>1. d.passes[n] \in Pass
      BY <1>2
    <3> QED
      BY <3>1 DEF Pass
  <2> QED
    BY <1>2, <1>3, <2>1, <2>2
<1> HIDE DEF first
<1>5. /\ after \in Document
      /\ after.records = SubSeq(d.records, 1, first)
      /\ after.removed = {k \in d.removed : k <= first}
      /\ after.passes = SubSeq(d.passes, 1, Len(d.passes) - 1)
      /\ after.started = d.started /\ after.warned = d.warned
  BY <1>4, PopIs
<1> HIDE DEF after
<1>6. /\ Len(after.records) = first /\ DOMAIN after.records = 1..first
      /\ \A k \in 1..first : after.records[k] = d.records[k] /\ k \in DOMAIN d.records
  <2>1. \A i \in 1..first : i \in 1..Len(d.records) /\ d.records[i] \in Page
    BY <1>2, <1>4
  <2>2. /\ Len(SubSeq(d.records, 1, first)) = first
        /\ \A i \in 1..first : SubSeq(d.records, 1, first)[i] = d.records[i]
    <3>1. /\ SubSeq(d.records, 1, first) \in Seq(Page)
          /\ Len(SubSeq(d.records, 1, first)) = IF 1 <= first THEN first - 1 + 1 ELSE 0
          /\ \A i \in 1..(first - 1 + 1) : SubSeq(d.records, 1, first)[i] = d.records[1 + i - 1]
      BY <1>2, <1>4, <2>1, SubSeqProperties
    <3>2. first - 1 + 1 = first /\ (1 <= first \/ first = 0) /\ \A i \in 1..first : 1 + i - 1 = i
      BY <1>4
    <3> QED
      BY <3>1, <3>2
  <2>3. DOMAIN after.records = 1..Len(after.records)
    <3>1. after.records \in Seq(Page)
      BY <1>5 DEF Document
    <3> QED
      BY <3>1
  <2> QED
    BY <1>5, <2>1, <2>2, <2>3, <1>2
<1>7. /\ Len(after.passes) = m /\ \A i \in 1..m : after.passes[i] = d.passes[i]
  <2>1. \A i \in 1..m : d.passes[i] \in Pass /\ i \in 1..n
    BY <1>2
  <2>2. /\ Len(SubSeq(d.passes, 1, m)) = IF 1 <= m THEN m - 1 + 1 ELSE 0
        /\ \A i \in 1..(m - 1 + 1) : SubSeq(d.passes, 1, m)[i] = d.passes[1 + i - 1]
    BY <1>2, <2>1, SubSeqProperties
  <2>3. m - 1 + 1 = m /\ (1 <= m \/ m = 0) /\ \A i \in 1..m : 1 + i - 1 = i
    BY <1>2
  <2> QED
    BY <1>2, <1>5, <2>2, <2>3
<1>8. /\ Front(decisions) \in Seq(Decision) /\ Len(Front(decisions)) = m
      /\ \A i \in 1..m : Front(decisions)[i] = decisions[i]
  <2>1. \A i \in 1..m : decisions[i] \in Decision /\ i \in 1..n
    BY <1>2
  <2>2. /\ SubSeq(decisions, 1, m) \in Seq(Decision)
        /\ Len(SubSeq(decisions, 1, m)) = IF 1 <= m THEN m - 1 + 1 ELSE 0
        /\ \A i \in 1..(m - 1 + 1) : SubSeq(decisions, 1, m)[i] = decisions[1 + i - 1]
    BY <1>2, <2>1, SubSeqProperties
  <2>3. m - 1 + 1 = m /\ (1 <= m \/ m = 0) /\ \A i \in 1..m : 1 + i - 1 = i
    BY <1>2
  <2>4. Front(decisions) = SubSeq(decisions, 1, m)
    BY DEF Front
  <2> QED
    BY <2>2, <2>3, <2>4
<1>9. after.removed \subseteq DOMAIN after.records
  <2>1. d.removed \subseteq DOMAIN d.records
    BY DEF Ledger
  <2>2. \A k \in 1..Len(d.records) : k <= first => k \in 1..first
    BY <1>2, <1>4
  <2> QED
    BY <1>2, <1>5, <1>6, <2>1, <2>2
<1>10. \A k \in 1..first : k \in after.removed <=> k \in d.removed
  <2>1. \A k \in 1..first : k <= first
    BY <1>4
  <2> QED
    BY <1>5, <2>1
<1>11. \A j, k \in DOMAIN after.records : j < k => Before(after.records[j], after.records[k])
  <2>1. \A j, k \in DOMAIN d.records : j < k => Before(d.records[j], d.records[k])
    BY DEF Ledger
  <2> QED
    BY <1>6, <2>1
<1>12. \A i \in 1..m : /\ i \in 1..n /\ i \in 0..m /\ i - 1 \in 0..m /\ i \in 0..n /\ m \in 0..n
                       /\ i - 1 \in 0..n
                       /\ ends[i] = bounds[i] /\ ends[i - 1] = bounds[i - 1]
                       /\ bounds[i] \in Nat /\ bounds[i - 1] \in Nat /\ bounds[i] <= first
                       /\ \A k \in (bounds[i - 1] + 1)..bounds[i] : k \in 1..first
  <2> TAKE i \in 1..m
  <2>1. i \in 1..n /\ i \in 0..m /\ i - 1 \in 0..m /\ i \in 0..n /\ m \in 0..n /\ i - 1 \in 0..n
        /\ i <= m
    BY <1>2
  <2>2. ends[i] = bounds[i] /\ ends[i - 1] = bounds[i - 1]
    BY <2>1
  <2>3. bounds[i] \in Nat /\ bounds[i - 1] \in Nat
    BY <1>3, <2>1
  <2>4. bounds[i] <= first
    BY <1>3, <2>1 DEF first
  <2>5. \A k \in (bounds[i - 1] + 1)..bounds[i] : k \in 1..first
    BY <1>4, <2>3, <2>4
  <2> QED
    BY <2>1, <2>2, <2>3, <2>4, <2>5
<1>13. ends \in [0..m -> Nat] /\ ends[0] = 0 /\ ends[m] = first
  <2>1. 0 \in 0..m /\ m \in 0..m /\ \A i \in 0..m : i \in 0..n
    BY <1>2
  <2> QED
    BY <1>3, <2>1 DEF first
<1>14. \A i \in 0..m, j \in 0..m : i <= j => ends[i] <= ends[j]
  <2>1. \A i \in 0..m : i \in 0..n /\ ends[i] = bounds[i]
    BY <1>2
  <2> QED
    BY <1>3, <2>1
<1> HIDE DEF ends, m
<1>15. PassesEnd(after, Front(decisions), ends)
  <2>1. ASSUME NEW i \in 1..m
        PROVE  /\ ends[i] = ends[i - 1] + after.passes[i].pages
               /\ DOMAIN Front(decisions)[i]
                     = {after.records[k] : k \in (ends[i - 1] + 1)..ends[i]}
               /\ \A k \in (ends[i - 1] + 1)..ends[i] :
                     Front(decisions)[i][after.records[k]] <=> k \notin after.removed
    <3> DEFINE here == (bounds[i - 1] + 1)..bounds[i]
    <3>1. /\ i \in 1..n /\ ends[i] = bounds[i] /\ ends[i - 1] = bounds[i - 1]
          /\ \A k \in here : k \in 1..first
      BY <1>12
    <3>2. /\ bounds[i] = bounds[i - 1] + d.passes[i].pages
          /\ DOMAIN decisions[i] = {d.records[k] : k \in here}
          /\ \A k \in here : decisions[i][d.records[k]] <=> k \notin d.removed
      BY <1>1, <3>1 DEF PassesEnd
    <3>3. here = (ends[i - 1] + 1)..ends[i]
      BY <3>1
    <3> HIDE DEF here
    <3>4. \A k \in here : after.records[k] = d.records[k]
                          /\ (k \in after.removed <=> k \in d.removed)
      BY <1>6, <1>10, <3>1
    <3>5. {after.records[k] : k \in here} = {d.records[k] : k \in here}
      BY <3>4
    <3>6. \A k \in here : decisions[i][after.records[k]] <=> k \notin after.removed
      BY <3>2, <3>4
    <3>7. Front(decisions)[i] = decisions[i] /\ after.passes[i] = d.passes[i]
      BY <1>7, <1>8
    <3> QED
      BY <3>1, <3>2, <3>3, <3>5, <3>6, <3>7
  <2>2. ASSUME NEW k \in DOMAIN after.records
        PROVE  \E i \in 1..m : k \in (ends[i - 1] + 1)..ends[i]
    <3>1. PICK i \in 1..n : k \in (bounds[i - 1] + 1)..bounds[i]
      BY <1>1, <1>6 DEF PassesEnd
    <3>2. i # n
      <4>1. k <= first /\ first \in Nat /\ k \in Nat
        BY <1>4, <1>6
      <4> QED
        BY <1>2, <3>1, <4>1 DEF first
    <3>3. i \in 1..m
      BY <1>2, <3>1, <3>2
    <3> QED
      BY <1>12, <3>1, <3>3
  <2> QED
    BY <1>6, <1>7, <1>8, <1>13, <1>14, <2>1, <2>2 DEF PassesEnd
<1>16. Ledger(after, Front(decisions))
  BY <1>8, <1>9, <1>11, <1>13, <1>15 DEF Ledger
<1>17. Range(after.records) \subseteq Range(d.records)
  BY <1>6 DEF Range
<1> QED
  BY <1>5, <1>8, <1>16, <1>17 DEF after

-----------------------------------------------------------------------------
(* The document, step by step. *)

(* The ledger reads the records, what is removed of them, the passes and the
   decisions. *)
LEMMA LedgerStays ==
    ASSUME LedgerInv, SameCount, doc'.passes = doc.passes, UNCHANGED decided
    PROVE  LedgerInv'
<1>1. PICK bounds \in [0..Len(decided) -> Nat] : PassesEnd(doc, decided, bounds)
  BY DEF LedgerInv, Ledger
<1>2. PassesEnd(doc', decided, bounds)
  BY <1>1 DEF PassesEnd, SameCount
<1>3. Ledger(doc', decided)
  BY <1>2 DEF LedgerInv, Ledger, SameCount
<1>4. UNCHANGED decided
  OBVIOUS
<1> QED
  BY <1>3, <1>4 DEF LedgerInv

(* A document that is the same has the same ledger. *)
LEMMA SameLedger ==
    ASSUME LedgerInv, UNCHANGED <<doc, decided>>
    PROVE  LedgerInv'
BY LedgerStays DEF SameCount

(* Only a run that is over promises anything about what it kept. *)
LEMMA EndLater == ASSUME ActInv', pc' # "done" PROVE EndInv'
BY DEF EndInv, EndKeepsEveryPage, ActInv

(* Without a pass in flight nothing is in it. *)
LEMMA NothingInFlight == Range(<<>>) = {}
BY DEF Range

(* A step that touches no page: it goes on asking, hands a fault to the forgetting
   of the pass, leaves for the guard, or is another thread's. *)
LEMMA IdleKeeps ==
    ASSUME PageTypes, DocumentInv, ActInv, ActInv', UNCHANGED <<document, uploaded, kept, spared>>,
           outcome' \in Outcomes,
           \/ UNCHANGED <<pc, question, outcome>>
           \/ pc \in Asking /\ pc' \in Asking /\ UNCHANGED question
           \/ pc = "scanned" /\ pc' = "forget"
           \/ pc \notin Over /\ pc' = "preserve"
    PROVE  PageTypes' /\ DocumentInv'
<1>1. PageTypes'
  BY DEF PageTypes, document
<1>2. LedgerInv'
  BY SameLedger DEF document, DocumentInv
<1>3. FlightInv'
  <2>1. Known' = Known
    BY DEF Known, document
  <2>2. UNCHANGED <<doc, flight, skip>> /\ FlightInv
    BY DEF document, DocumentInv
  <2>3. Unsettled' => Unsettled
    BY DEF Unsettled, Asking
  <2>4. Unsettled => Unsettled' \/ pc' \in Over
    BY DEF Unsettled, Asking, Over
  <2>5. pc' = "accept" => pc = "accept"
    BY DEF Asking
  <2>6. pc \in {"acceptArtefact", "acceptForget"} \cup Over =>
           pc' \in {"acceptArtefact", "acceptForget"} \cup Over
    BY DEF Asking, Over
  <2> QED
    BY <2>1, <2>2, <2>3, <2>4, <2>5, <2>6 DEF FlightInv
<1>4. GuardInv'
  <2>1. UNCHANGED <<doc, flight, doomed, artefact, stage, files>> /\ GuardInv
    BY DEF document, DocumentInv
  <2>2. stage = "DELIVERED" => UNCHANGED <<pc, question, outcome>>
    BY <2>1 DEF GuardInv, ActInv, Over, Asking
  <2> QED
    BY <2>1, <2>2 DEF GuardInv, Asking, Over
<1>5. PassInv'
  BY DEF PassInv, DocumentInv, document, Asking
<1>6. EndInv'
  <2>1. CASE pc' # "done"
    BY <2>1, EndLater
  <2>2. CASE pc' = "done"
    <3>1. UNCHANGED <<pc, outcome>>
      BY <2>2 DEF Asking
    <3>2. KeptPages(doc') = KeptPages(doc) /\ ToDeliver' = ToDeliver /\ Range(flight') = Range(flight)
      BY DEF document, ToDeliver
    <3> QED
      BY <3>1, <3>2 DEF EndInv, EndKeepsEveryPage, DocumentInv, document
  <2> QED
    BY <2>1, <2>2
<1> QED
  BY <1>1, <1>2, <1>3, <1>4, <1>5, <1>6 DEF DocumentInv

(* A pass starts: every page there is is of an earlier one. *)
LEMMA BeginKeeps ==
    ASSUME PageTypes, DocumentInv, ActInv, ActInv', BeginPass
    PROVE  PageTypes' /\ DocumentInv'
<1>1. CASE doc.started > 0 /\ stopping
  <2>1. /\ UNCHANGED <<document, uploaded, kept, spared>> /\ outcome' \in Outcomes
        /\ pc \notin Over /\ pc' = "preserve"
    BY <1>1 DEF BeginPass, FailAs, document, Outcomes, Over
  <2> QED
    BY <2>1, IdleKeeps
<1>2. CASE ~(doc.started > 0 /\ stopping)
  <2>1. /\ pc = "ready" /\ pc' = "scan" /\ doc' = [doc EXCEPT !.started = @ + 1]
        /\ UNCHANGED <<uploaded, kept, spared, outcome, flight, skip, capped, doomed, artefact,
                       stage, files, decided>>
    BY <1>2 DEF BeginPass, ending
  <2>2. doc \in Document
    BY DEF PageTypes
  <2>3. /\ doc' \in Document /\ SameCount /\ doc'.passes = doc.passes
        /\ doc'.started = doc.started + 1 /\ doc.started \in Nat
    BY <2>1, <2>2, StartedIs DEF SameCount
  <2>4. PageTypes'
    BY <2>1, <2>3 DEF PageTypes
  <2>5. LedgerInv'
    BY <2>1, <2>3, LedgerStays DEF DocumentInv
  <2>6. FlightInv /\ flight = <<>> /\ Known' = Known
    BY <2>1, <2>3 DEF FlightInv, Unsettled, Asking, Over, DocumentInv, Known, SameCount
  <2>7. ASSUME NEW p \in Known PROVE p.pass \in 1..doc'.started /\ p.pass < doc'.started
    <3>1. p.pass \in 1..doc.started
      BY <2>6, <2>7 DEF FlightInv
    <3> QED
      BY <2>3, <3>1
  <2>8. Range(doc'.records) \subseteq Known /\ doc'.started # 0
    BY <2>3 DEF SameCount, Known
  <2>9. FlightInv'
    BY <2>1, <2>6, <2>7, <2>8 DEF FlightInv, Unsettled
  <2>10. GuardInv'
    BY <2>1, <2>3 DEF GuardInv, DocumentInv, SameCount, Over
  <2>11. PassInv' /\ EndInv'
    BY <2>1, EndLater DEF PassInv, Asking
  <2> QED
    BY <2>4, <2>5, <2>9, <2>10, <2>11 DEF DocumentInv
<1> QED
  BY <1>1, <1>2

(* The pages of a pass reach the spool. *)
LEMMA ScanKeeps ==
    ASSUME PageTypes, DocumentInv, ActInv, ActInv', ScanPages
    PROVE  PageTypes' /\ DocumentInv'
<1>1. PICK shape \in Shapes \cup {<<>>} :
          flight' = [k \in DOMAIN shape |->
                        [pass |-> doc.started, at |-> k, blank |-> shape[k]]]
  BY DEF ScanPages
<1>2. /\ pc = "scan" /\ pc' = "scanned" /\ files' = files \cup Range(flight')
      /\ UNCHANGED <<uploaded, kept, spared, outcome, doc, skip, capped, doomed, artefact,
                     stage, decided>>
  BY DEF ScanPages, Step, ending
<1>3. shape \in Seq(BOOLEAN)
  <2>1. shape \in Shapes => shape \in Seq(BOOLEAN)
    BY MultiPageAssumption
  <2>2. <<>> \in Seq(BOOLEAN)
    OBVIOUS
  <2> QED
    BY <2>1, <2>2
<1>4. doc.started \in Nat /\ doc.started # 0 /\ artefact = doc.records
      /\ \A p \in Range(doc.records) : p.pass < doc.started
  BY <1>2 DEF DocumentInv, FlightInv, Unsettled, GuardInv, PageTypes, Document, Over
<1>5. flight' \in Seq(Page)
  <2>1. DOMAIN shape = 1..Len(shape) /\ Len(shape) \in Nat /\ \A k \in 1..Len(shape) : shape[k] \in BOOLEAN
    BY <1>3
  <2>2. \A k \in 1..Len(shape) : [pass |-> doc.started, at |-> k, blank |-> shape[k]] \in Page
    BY <1>4, <2>1 DEF Page
  <2>3. flight' \in [1..Len(shape) -> Page]
    BY <1>1, <2>1, <2>2
  <2> QED
    BY <2>1, <2>3
<1>6. /\ \A k \in DOMAIN flight' : flight'[k].pass = doc.started /\ flight'[k].at = k
      /\ \A p \in Range(flight') : p \in Page /\ p.pass = doc.started
  <2>1. \A k \in DOMAIN flight' : flight'[k].pass = doc.started /\ flight'[k].at = k
    BY <1>1
  <2> QED
    BY <1>5, <2>1 DEF Range
<1>7. PageTypes'
  BY <1>2, <1>5, <1>6 DEF PageTypes
<1>8. LedgerInv'
  BY <1>2, SameLedger DEF DocumentInv
<1>9. FlightInv'
  <2>1. Known' \subseteq Known \cup Range(flight')
    BY <1>2 DEF Known
  <2>2. doc.started \in 1..doc.started
    BY <1>4
  <2>3. \A p \in Known' : p.pass \in 1..doc.started
    BY <1>6, <2>1, <2>2 DEF FlightInv, DocumentInv
  <2> QED
    BY <1>2, <1>4, <1>6, <2>3 DEF FlightInv, Unsettled
<1>10. GuardInv'
  BY <1>2, <1>4 DEF GuardInv, DocumentInv, Over
<1>11. PassInv' /\ EndInv'
  BY <1>2, EndLater DEF PassInv, Asking
<1> QED
  BY <1>7, <1>8, <1>9, <1>10, <1>11 DEF DocumentInv

(* Settling: the blank pages are asked about or the pass goes to be accepted, with
   what to leave out; the pages themselves stay. *)
LEMMA SettleKeeps ==
    ASSUME PageTypes, DocumentInv, ActInv, ActInv', PassEnds \/ ActOnBlanks
    PROVE  PageTypes' /\ DocumentInv'
<1>1. /\ UNCHANGED <<uploaded, kept, spared, outcome, doc, flight, doomed, artefact,
                     stage, files, decided>>
      /\ capped' \in BOOLEAN
  BY DEF PassEnds, ActOnBlanks, ending, PageTypes
<1>2. /\ Unsettled /\ Unsettled' /\ pc \notin Over /\ pc' \notin Over
      /\ pc' \notin {"acceptArtefact", "popArtefact", "unlink", "acceptForget", "accepted", "pop"}
      /\ pc \notin {"acceptArtefact", "popArtefact", "assemble", "deliver"}
      /\ pc' \in Asking => question'.wait = "BLANK_DECISION"
  BY DEF PassEnds, ActOnBlanks, Asks, Unsettled, Asking, Over
<1>3. skip' \subseteq DOMAIN flight /\ skip' \in SUBSET Nat
  <2>1. skip' \subseteq DOMAIN flight
    BY DEF PassEnds, ActOnBlanks, LooksBlank
  <2>2. DOMAIN flight \subseteq Nat
    BY DEF PageTypes
  <2> QED
    BY <2>1, <2>2
<1>4. PageTypes'
  BY <1>1, <1>3 DEF PageTypes
<1>5. LedgerInv'
  BY <1>1, SameLedger DEF DocumentInv
<1>6. FlightInv'
  <2>1. Known' = Known
    BY <1>1 DEF Known
  <2> QED
    BY <1>1, <1>2, <1>3, <2>1 DEF FlightInv, DocumentInv
<1>7. GuardInv'
  BY <1>1, <1>2 DEF GuardInv, DocumentInv, Over
<1>8. PassInv' /\ EndInv'
  BY <1>2, EndLater DEF PassInv, Asking, Over
<1> QED
  BY <1>4, <1>5, <1>6, <1>7, <1>8 DEF DocumentInv

(* Accepting a pass: its pages follow every other, with the decision about them. *)
LEMMA AcceptKeeps ==
    ASSUME PageTypes, DocumentInv, ActInv, ActInv', AcceptPass
    PROVE  PageTypes' /\ DocumentInv'
<1>1. /\ pc = "accept" /\ pc' = "acceptArtefact"
      /\ doc' = WithPass(doc, flight, skip, capped)
      /\ decided' = Append(decided, [p \in Range(flight) |-> p.at \notin skip])
      /\ UNCHANGED <<uploaded, kept, spared, outcome, flight, skip, capped, doomed, artefact,
                     stage, files>>
  BY DEF AcceptPass, Step, ending
<1>2. /\ doc \in Document /\ flight \in Seq(Page) /\ skip \in SUBSET Nat /\ capped \in BOOLEAN
      /\ decided \in Seq(Decision)
  BY DEF PageTypes
<1>3. /\ doc.started \in Nat /\ artefact = doc.records /\ skip \in SUBSET (DOMAIN flight)
      /\ \A p \in Range(doc.records) : p.pass < doc.started
      /\ \A k \in DOMAIN flight : flight[k].pass = doc.started /\ flight[k].at = k
  BY <1>1, <1>2 DEF DocumentInv, FlightInv, Unsettled, GuardInv, Document, Over
<1>4. /\ doc' \in Document /\ doc'.records = doc.records \o flight
      /\ doc'.passes = Append(doc.passes, [pages |-> Len(flight), cap |-> capped])
      /\ doc'.started = doc.started
  <2>1. Accepted(WithPass(doc, flight, skip, capped), doc, flight, skip, capped)
    BY <1>2, AcceptIs
  <2> QED
    BY <1>1, <2>1 DEF Accepted
<1>5. Range(doc'.records) = Range(doc.records) \cup Range(flight)
  <2>1. doc.records \in Seq(Page)
    BY <1>2 DEF Document
  <2> QED
    BY <1>2, <1>4, <2>1, RangeConcatenation
<1>6. doc'.passes # <<>>
  <2>1. doc.passes \in Seq(Pass) /\ Len(flight) \in Nat
    BY <1>2 DEF Document
  <2>2. [pages |-> Len(flight), cap |-> capped] \in Pass
    BY <1>2, <2>1 DEF Pass
  <2>3. Append(doc.passes, [pages |-> Len(flight), cap |-> capped]) # <<>>
    BY <2>1, <2>2, AppendProperties
  <2> QED
    BY <1>4, <2>3
<1>7. decided' \in Seq(Decision)
  <2> DEFINE decision == [p \in Range(flight) |-> p.at \notin skip]
  <2>1. Range(flight) \in SUBSET Page
    BY <1>2 DEF Range
  <2>2. decision \in [Range(flight) -> BOOLEAN]
    OBVIOUS
  <2> HIDE DEF decision
  <2>3. decision \in Decision
    BY <2>1, <2>2 DEF Decision
  <2>4. decided' = Append(decided, decision)
    BY <1>1 DEF decision
  <2> QED
    BY <1>2, <2>3, <2>4
<1>8. PageTypes'
  BY <1>1, <1>4, <1>7 DEF PageTypes
<1>9. LedgerInv'
  BY ZenonT(40), <1>1, <1>2, <1>3, AcceptLedger DEF LedgerInv, DocumentInv
<1>10. FlightInv'
  <2>1. Known' = Known
    BY <1>1, <1>5 DEF Known
  <2> QED
    BY <1>1, <1>3, <1>4, <2>1 DEF FlightInv, DocumentInv, Unsettled, Asking
<1>11. GuardInv'
  BY <1>1, <1>3, <1>5 DEF GuardInv, DocumentInv, Over
<1>12. PassInv' /\ EndInv'
  BY <1>1, <1>6, EndLater DEF PassInv, Asking
<1> QED
  BY <1>8, <1>9, <1>10, <1>11, <1>12 DEF DocumentInv

(* Accepting and throwing away go on: the guard is handed the document, and the
   ledger forgets the pass in flight. *)
LEMMA HandKeeps ==
    ASSUME PageTypes, DocumentInv, ActInv, ActInv',
           AcceptArtefact \/ PopArtefact \/ AcceptForget
    PROVE  PageTypes' /\ DocumentInv'
<1>1. /\ UNCHANGED <<uploaded, kept, spared, outcome, doc, skip, capped, doomed, stage, files,
                     decided>>
  BY DEF AcceptArtefact, PopArtefact, AcceptForget, ending
<1>2. doc \in Document /\ doc.records \in Seq(Page) /\ Range(<<>>) = {}
  BY NothingInFlight DEF PageTypes, Document
<1>3. LedgerInv'
  BY <1>1, SameLedger DEF DocumentInv
<1>4. CASE AcceptArtefact \/ PopArtefact
  <2>1. /\ artefact' = doc.records /\ UNCHANGED flight
        /\ \/ pc = "acceptArtefact" /\ pc' = "acceptForget"
           \/ pc = "popArtefact" /\ pc' = "unlink"
    BY <1>4 DEF AcceptArtefact, PopArtefact, Step
  <2>2. PageTypes'
    BY <1>1, <1>2, <2>1 DEF PageTypes
  <2>3. FlightInv'
    <3>1. Known' \subseteq Known
      BY <1>1, <2>1 DEF Known
    <3> QED
      BY <1>1, <2>1, <3>1 DEF FlightInv, DocumentInv, Unsettled, Asking, Over
  <2>4. GuardInv'
    BY <1>1, <2>1 DEF GuardInv, DocumentInv, Over
  <2>5. PassInv' /\ EndInv'
    BY <1>1, <2>1, EndLater DEF PassInv, DocumentInv, Asking
  <2> QED
    BY <1>3, <2>2, <2>3, <2>4, <2>5 DEF DocumentInv
<1>5. CASE AcceptForget
  <2>1. pc = "acceptForget" /\ pc' = "accepted" /\ flight' = <<>> /\ UNCHANGED artefact
    BY <1>5 DEF AcceptForget, Step
  <2>2. PageTypes'
    BY <1>1, <2>1 DEF PageTypes
  <2>3. FlightInv'
    <3>1. Known' \subseteq Known
      BY <1>1, <1>2, <2>1 DEF Known
    <3> QED
      BY <1>1, <2>1, <3>1 DEF FlightInv, DocumentInv, Unsettled, Asking
  <2>4. GuardInv'
    BY <1>1, <1>2, <2>1 DEF GuardInv, DocumentInv, Over
  <2>5. PassInv' /\ EndInv'
    BY <1>1, <2>1, EndLater DEF PassInv, DocumentInv, Asking
  <2> QED
    BY <1>3, <2>2, <2>3, <2>4, <2>5 DEF DocumentInv
<1> QED
  BY <1>4, <1>5

(* Forgetting the pass in flight: none of its pages is the document's. *)
LEMMA ForgetKeeps ==
    ASSUME PageTypes, DocumentInv, ActInv, ActInv', ForgetPass
    PROVE  PageTypes' /\ DocumentInv'
<1>1. /\ UNCHANGED <<uploaded, kept, spared, outcome, doc, skip, capped, artefact, stage, files,
                     decided>>
      /\ pc = "forget" /\ pc' = "unlink" /\ flight' = <<>> /\ doomed' = Range(flight)
  BY DEF ForgetPass, Step, ending
<1>2. Range(<<>>) = {} /\ doc \in Document /\ doc.started \in Nat
  BY NothingInFlight DEF PageTypes, Document
<1>3. PageTypes'
  <2>1. Range(flight) \subseteq Page
    BY DEF PageTypes, Range
  <2> QED
    BY <1>1, <2>1 DEF PageTypes
<1>4. LedgerInv'
  BY <1>1, SameLedger DEF DocumentInv
<1>5. FlightInv'
  <2>1. Known' \subseteq Known
    BY <1>1, <1>2 DEF Known
  <2> QED
    BY <1>1, <2>1 DEF FlightInv, DocumentInv, Unsettled, Asking
<1>6. Range(flight) \cap Range(doc.records) = {}
  <2>1. /\ \A p \in Range(doc.records) : p.pass < doc.started
        /\ \A p \in Range(flight) : p.pass = doc.started
    BY <1>1 DEF DocumentInv, FlightInv, Unsettled, Range
  <2> QED
    BY <1>2, <2>1
<1>7. GuardInv'
  BY <1>1, <1>2, <1>6 DEF GuardInv, DocumentInv, Over
<1>8. PassInv' /\ EndInv'
  BY <1>1, EndLater DEF PassInv, Asking
<1> QED
  BY <1>3, <1>4, <1>5, <1>7, <1>8 DEF DocumentInv

(* After an accepted pass, and on an answer about the next: at most the warning
   of the document changes, and a pass to throw away is there. *)
LEMMA AfterKeeps ==
    ASSUME PageTypes, DocumentInv, ActInv, ActInv', AfterPass \/ ActOnNext
    PROVE  PageTypes' /\ DocumentInv'
<1>1. /\ UNCHANGED <<uploaded, kept, spared, outcome, flight, skip, capped, doomed, artefact, stage,
                     files, decided>>
      /\ doc \in Document
  BY DEF AfterPass, ActOnNext, ending, PageTypes
<1>2. \/ UNCHANGED doc
      \/ \E warned \in BOOLEAN : doc' = [doc EXCEPT !.warned = warned]
  BY DEF AfterPass, ActOnNext, Asks
<1>3. /\ doc' \in Document /\ SameCount /\ doc'.passes = doc.passes /\ doc'.started = doc.started
  <2>1. CASE UNCHANGED doc
    BY <1>1, <2>1 DEF SameCount
  <2>2. CASE \E warned \in BOOLEAN : doc' = [doc EXCEPT !.warned = warned]
    <3>1. PICK warned \in BOOLEAN : doc' = [doc EXCEPT !.warned = warned]
      BY <2>2
    <3> QED
      BY <1>1, <3>1, WarnedIs DEF SameCount
  <2> QED
    BY <1>2, <2>1, <2>2
<1>4. PageTypes'
  BY <1>1, <1>3 DEF PageTypes
<1>5. LedgerInv'
  BY <1>1, <1>3, LedgerStays DEF DocumentInv
<1>6. /\ ~Unsettled /\ ~Unsettled' /\ pc \notin Over \cup {"acceptArtefact", "acceptForget"}
      /\ pc' \in {"ready", "pop", "finish", "announce"}
      /\ pc \notin {"assemble", "deliver", "popArtefact"}
  BY DEF AfterPass, ActOnNext, Asks, Unsettled, Asking, Over
<1>7. flight = <<>>
  BY <1>6 DEF DocumentInv, FlightInv
<1>8. FlightInv'
  <2>1. Known' = Known
    BY <1>1, <1>3 DEF Known, SameCount
  <2> QED
    BY <1>1, <1>3, <1>6, <1>7, <2>1 DEF FlightInv, DocumentInv
<1>9. GuardInv'
  BY <1>1, <1>3, <1>6 DEF GuardInv, DocumentInv, SameCount, Over
<1>10. PassInv'
  <2>1. CASE AfterPass
    BY <1>3, <2>1 DEF AfterPass, Asks, PassInv, DocumentInv, Asking
  <2>2. CASE ActOnNext
    <3>1. /\ pc = "act" /\ question.wait # "BLANK_DECISION" /\ pc' \in {"ready", "pop", "finish"}
          /\ pc' = "pop" => "RESCAN" \in question.offered
      BY <2>2 DEF ActOnNext, OffMenu, EndingsNobodyOffers
    <3> QED
      BY <1>3, <3>1 DEF PassInv, DocumentInv, Asking
  <2> QED
    BY <2>1, <2>2
<1>11. EndInv'
  BY <1>6, EndLater
<1> QED
  BY <1>4, <1>5, <1>8, <1>9, <1>10, <1>11 DEF DocumentInv

(* Throwing the last pass away: its pages leave the document before the disk. *)
LEMMA PopKeeps ==
    ASSUME PageTypes, DocumentInv, ActInv, ActInv', PopPass
    PROVE  PageTypes' /\ DocumentInv'
<1>1. /\ pc = "pop" /\ pc' = "popArtefact"
      /\ doc' = WithoutLastPass(doc) /\ decided' = Front(decided)
      /\ doomed' = Range(doc.records) \ Range(doc'.records)
      /\ UNCHANGED <<uploaded, kept, spared, outcome, flight, skip, capped, artefact, stage, files>>
  BY DEF PopPass, Step, ending
<1>2. doc \in Document /\ decided \in Seq(Decision) /\ doc.passes # <<>> /\ Ledger(doc, decided)
  BY <1>1 DEF PageTypes, DocumentInv, PassInv, LedgerInv
<1>3. /\ doc' \in Document /\ doc'.started = doc.started
      /\ decided' \in Seq(Decision) /\ Ledger(doc', decided')
      /\ Range(doc'.records) \subseteq Range(doc.records)
  BY <1>1, <1>2, PopLedger
<1>4. PageTypes'
  <2>1. doc.records \in Seq(Page)
    BY <1>2 DEF Document
  <2>2. Range(doc.records) \subseteq Page
    BY <2>1 DEF Range
  <2> QED
    BY <1>1, <1>3, <2>2 DEF PageTypes
<1>5. LedgerInv'
  BY <1>3 DEF LedgerInv
<1>6. flight = <<>> /\ artefact = doc.records
  BY <1>1 DEF DocumentInv, FlightInv, GuardInv, Unsettled, Asking, Over
<1>7. FlightInv'
  <2>1. Known' \subseteq Known
    BY <1>1, <1>3 DEF Known
  <2> QED
    BY <1>1, <1>3, <1>6, <2>1 DEF FlightInv, DocumentInv, Unsettled, Asking
<1>8. GuardInv'
  BY <1>1, <1>3, <1>6 DEF GuardInv, DocumentInv, Over
<1>9. PassInv' /\ EndInv'
  BY <1>1, EndLater DEF PassInv, Asking
<1> QED
  BY <1>4, <1>5, <1>7, <1>8, <1>9 DEF DocumentInv

(* Unlinking: the files that go are nobody's, and only the fault is asked about. *)
LEMMA UnlinkKeeps ==
    ASSUME PageTypes, DocumentInv, ActInv, ActInv', Unlink
    PROVE  PageTypes' /\ DocumentInv'
<1>1. /\ pc = "unlink" /\ files' \in {files, files \ doomed} /\ doomed' = {}
      /\ UNCHANGED <<uploaded, kept, spared, outcome, doc, flight, skip, capped, artefact, stage,
                     decided>>
  BY DEF Unlink, ending
<1>2. \/ pc' = "ready"
      \/ pc' = "announce" /\ question' = [wait |-> "RETRY", offered |-> RetryAnswers]
  BY DEF Unlink, Asks
<1>3. PageTypes'
  BY <1>1 DEF PageTypes
<1>4. LedgerInv'
  BY <1>1, SameLedger DEF DocumentInv
<1>5. /\ flight = <<>> /\ Range(flight) = {} /\ artefact = doc.records
      /\ doomed \cap Range(doc.records) = {}
  BY <1>1, NothingInFlight DEF DocumentInv, FlightInv, GuardInv, Unsettled, Asking, Over
<1>6. FlightInv'
  <2>1. Known' \subseteq Known
    BY <1>1 DEF Known
  <2> QED
    BY <1>1, <1>2, <1>5, <2>1 DEF FlightInv, DocumentInv, Unsettled, Asking
<1>7. GuardInv'
  BY <1>1, <1>2, <1>5 DEF GuardInv, DocumentInv, Over
<1>8. PassInv' /\ EndInv'
  BY <1>2, EndLater DEF PassInv, Asking, RetryAnswers
<1> QED
  BY <1>3, <1>4, <1>6, <1>7, <1>8 DEF DocumentInv

(* Cancelling keeps nothing, and says so. *)
LEMMA CancelKeeps ==
    ASSUME PageTypes, DocumentInv, ActInv, ActInv', Cancel,
           UNCHANGED <<doc, flight, skip, capped, doomed, artefact, stage, decided>>,
           pc \notin Over
    PROVE  PageTypes' /\ DocumentInv'
<1>1. pc' = "done" /\ outcome' = "cancelled" /\ files' = {} /\ UNCHANGED <<uploaded, kept, spared>>
  BY DEF Cancel
<1>2. PageTypes'
  BY <1>1 DEF PageTypes, Outcomes
<1>3. LedgerInv'
  BY SameLedger DEF DocumentInv
<1>4. FlightInv'
  <2>1. Known' \subseteq Known
    BY <1>1 DEF Known
  <2> QED
    BY <1>1, <2>1 DEF FlightInv, DocumentInv, Unsettled, Asking, Over
<1>5. GuardInv'
  <2>1. stage # "DELIVERED"
    BY DEF DocumentInv, GuardInv, ActInv, Over
  <2> QED
    BY <1>1, <2>1 DEF GuardInv, DocumentInv, Over
<1>6. PassInv' /\ EndInv'
  BY <1>1 DEF PassInv, Asking, EndInv, EndKeepsEveryPage
<1> QED
  BY <1>2, <1>3, <1>4, <1>5, <1>6 DEF DocumentInv

(* The end of the scanning: the document is handed on whole, or fails whole. *)
LEMMA FinishKeeps ==
    ASSUME PageTypes, DocumentInv, ActInv, ActInv', Finish \/ Assemble
    PROVE  PageTypes' /\ DocumentInv'
<1>1. /\ pc \in {"finish", "assemble"} /\ pc' \in {"assemble", "deliver", "preserve"}
      /\ outcome' \in {outcome, "failed", "allBlank"}
      /\ UNCHANGED <<uploaded, kept, spared, doc, flight, skip, capped, doomed, files, decided>>
      /\ stage' \in {"FILTERING", "ASSEMBLING", "DELIVERING"}
      /\ artefact' \in {artefact, doc.records}
  BY DEF Finish, Assemble, FailAs, ending
<1>2. doc.records \in Seq(Page) /\ flight = <<>> /\ artefact = doc.records
  BY <1>1 DEF PageTypes, Document, DocumentInv, FlightInv, GuardInv, Unsettled, Asking, Over
<1>3. UNCHANGED artefact
  BY <1>1, <1>2
<1>4. PageTypes'
  BY <1>1, <1>3 DEF PageTypes, Outcomes, Stages
<1>5. LedgerInv'
  BY <1>1, SameLedger DEF DocumentInv
<1>6. FlightInv'
  <2>1. Known' = Known
    BY <1>1, <1>3 DEF Known
  <2> QED
    BY <1>1, <1>2, <2>1 DEF FlightInv, DocumentInv, Unsettled, Asking, Over
<1>7. GuardInv'
  BY <1>1, <1>2, <1>3 DEF GuardInv, DocumentInv, Over
<1>8. PassInv' /\ EndInv'
  BY <1>1, EndLater DEF PassInv, Asking
<1> QED
  BY <1>4, <1>5, <1>6, <1>7, <1>8 DEF DocumentInv

(* Delivering: what is uploaded is what the document keeps. *)
LEMMA DeliverKeeps ==
    ASSUME PageTypes, DocumentInv, ActInv, ActInv', Deliver
    PROVE  PageTypes' /\ DocumentInv'
<1>1. CASE FailAs("failed") /\ UNCHANGED <<stage, files>>
  <2>1. /\ UNCHANGED <<document, uploaded, kept, spared>> /\ outcome' \in Outcomes
        /\ pc \notin Over /\ pc' = "preserve"
    BY <1>1 DEF Deliver, FailAs, document, Outcomes, Over
  <2> QED
    BY <2>1, IdleKeeps
<1>2. CASE ~(FailAs("failed") /\ UNCHANGED <<stage, files>>)
  <2>1. /\ pc = "deliver" /\ pc' = "done" /\ outcome' = "delivered" /\ stage' = "DELIVERED"
        /\ uploaded' = KeptPages(doc) /\ files' = {}
        /\ UNCHANGED <<kept, spared, doc, flight, skip, capped, doomed, artefact, decided>>
    BY <1>2 DEF Deliver
  <2>2. flight = <<>> /\ artefact = doc.records
    BY <2>1 DEF DocumentInv, FlightInv, GuardInv, Unsettled, Asking, Over
  <2>3. PageTypes'
    BY <2>1 DEF PageTypes, Outcomes, Stages
  <2>4. LedgerInv'
    BY <2>1, SameLedger DEF DocumentInv
  <2>5. FlightInv'
    <3>1. Known' \subseteq Known
      BY <2>1 DEF Known
    <3> QED
      BY <2>1, <2>2, <3>1 DEF FlightInv, DocumentInv, Unsettled, Asking, Over
  <2>6. GuardInv'
    BY <2>1, <2>2 DEF GuardInv, DocumentInv, Over
  <2>7. PassInv'
    BY <2>1 DEF PassInv, Asking
  <2>8. EndInv'
    BY <2>1 DEF EndInv, EndKeepsEveryPage
  <2> QED
    BY <2>3, <2>4, <2>5, <2>6, <2>7, <2>8 DEF DocumentInv
<1> QED
  BY <1>1, <1>2

(* The guard: whether PDFs are built or pages moved, and whichever fails, each page
   of the document and of the pass in flight is kept or stays in the workspace. *)
LEMMA PreserveKeeps ==
    ASSUME PageTypes, DocumentInv, ActInv, ActInv', Preserve
    PROVE  PageTypes' /\ DocumentInv'
<1>1. /\ pc = "preserve" /\ pc' = "done" /\ files' = (IF spared' THEN files ELSE {})
      /\ UNCHANGED <<uploaded, outcome, doc, flight, skip, capped, doomed, artefact, stage, decided>>
  BY DEF Preserve, Step
<1>2. PICK built \in SUBSET (AsPDFs \ {{}}), moved \in {{}, files} :
          \/ /\ built = AsPDFs \ {{}} /\ built # {}
             /\ kept' = UNION built /\ spared' = FALSE
          \/ /\ kept' = (UNION built) \cup moved /\ spared' = (moved # files)
  BY DEF Preserve
<1>3. /\ doc \in Document /\ doc.records \in Seq(Page) /\ decided \in Seq(Decision)
      /\ Ledger(doc, decided)
  BY DEF PageTypes, Document, DocumentInv, LedgerInv
<1> DEFINE toKeep == Range(KeptPages(doc))
           all == Range(doc.records) \cup Range(artefact) \cup Range(flight)
<1>4. toKeep = {doc.records[i] : i \in DOMAIN doc.records \ doc.removed} /\ ToDeliver = toKeep
  BY <1>3, KeptPagesAre, LedgerDelivers DEF ToDeliver
<1>5. toKeep \subseteq Range(doc.records)
  BY <1>4 DEF Range
<1>6. all \subseteq files /\ Range(doc.records) \subseteq Range(artefact) \cup Range(flight)
  BY <1>1 DEF DocumentInv, GuardInv
<1> HIDE DEF toKeep
<1>7. UNION AsPDFs \subseteq all
  BY <1>5 DEF AsPDFs, toKeep
<1>8. UNION built \subseteq files /\ kept' \subseteq files /\ spared' \in BOOLEAN
  <2>1. UNION built \subseteq all
    BY <1>7
  <2> HIDE DEF all
  <2> QED
    BY <1>2, <1>6, <2>1
<1>9. PageTypes'
  BY <1>1, <1>8 DEF PageTypes
<1>10. LedgerInv'
  BY <1>1, SameLedger DEF DocumentInv
<1>11. FlightInv'
  <2>1. Known' \subseteq Known
    BY <1>1, <1>8 DEF Known
  <2> QED
    BY <1>1, <2>1 DEF FlightInv, DocumentInv, Unsettled, Asking, Over
<1>12. GuardInv'
  BY <1>1 DEF GuardInv, DocumentInv, Over
<1>13. PassInv'
  BY <1>1 DEF PassInv, Asking
<1>14. outcome # "delivered" /\ stage # "DELIVERED"
  BY <1>1 DEF ActInv, DocumentInv, GuardInv
<1>15. AsPDFs \ {{}} # {} => toKeep \cup Range(flight) \subseteq UNION AsPDFs
  <2>1. stage \in Stages /\ (stage # "ACQUIRING" => flight = <<>> /\ artefact = doc.records)
    BY DEF PageTypes, DocumentInv, GuardInv
  <2>2. CASE stage = "DELIVERING"
    BY <2>1, <2>2, NothingInFlight DEF AsPDFs, toKeep
  <2>3. CASE stage = "ASSEMBLING"
    BY <2>3 DEF AsPDFs
  <2>4. CASE stage = "FILTERING"
    BY <1>5, <2>1, <2>4, NothingInFlight DEF AsPDFs
  <2>5. CASE stage = "ACQUIRING" /\ artefact # <<>>
    BY <1>5, <1>6, <2>5 DEF AsPDFs
  <2>6. CASE stage = "ACQUIRING" /\ artefact = <<>>
    BY <1>5, <1>6, <2>6, NothingInFlight DEF AsPDFs
  <2> QED
    BY <1>14, <2>1, <2>2, <2>3, <2>4, <2>5, <2>6 DEF Stages
<1>16. toKeep \cup Range(flight) \subseteq kept' \cup (IF spared' THEN files' ELSE {})
  <2>1. toKeep \cup Range(flight) \subseteq files
    BY <1>5, <1>6
  <2>2. CASE built = AsPDFs \ {{}} /\ built # {} /\ kept' = UNION built /\ spared' = FALSE
    <3>1. UNION built = UNION AsPDFs
      BY <2>2
    <3> QED
      BY <1>15, <2>2, <3>1
  <2>3. CASE kept' = (UNION built) \cup moved /\ spared' = (moved # files)
    BY <1>1, <2>1, <2>3
  <2> QED
    BY <1>2, <2>2, <2>3
<1>17. EndInv'
  <2>1. ToDeliver' = ToDeliver /\ Range(flight') = Range(flight)
    BY <1>1 DEF ToDeliver
  <2> QED
    BY <1>1, <1>4, <1>14, <1>16, <2>1 DEF EndInv, EndKeepsEveryPage
<1> QED
  BY <1>9, <1>10, <1>11, <1>12, <1>13, <1>17 DEF DocumentInv

-----------------------------------------------------------------------------
(* The invariant. *)

(* Every step of the run is one of its statements. *)
LEMMA PcIs == ASSUME Types, Next PROVE pc' \in RunSteps
<1>1. CASE Run \/ TimeOut \/ Signal \/ CtrlC
  BY <1>1 DEF Run, TimeOut, WakeUp, WaitEnds, Signal, CtrlC, BeginPass, ScanPages, PassEnds,
     PassFaults, PassAborted, AcceptPass, AcceptArtefact, AcceptForget, AfterPass, ForgetPass,
     PopPass, PopArtefact, Unlink, Announce, PersistWait, AskWhileStopping, AskChecks, Publish,
     Recheck, SettleWait, TerminalAsk, ActEnds, ActOnNext, ActOnBlanks, Finish, Assemble, Deliver,
     Preserve, Step, FailAs, Cancel, Asks, RunSteps
<1>2. CASE (\E c \in Clicks : SendClick(c) \/ ClickGoesOn(c)) \/ StopSets \/ StopGoesOn
  BY <1>2 DEF SendClick, ClickGoesOn, ReadPrompt, ReadPromptIf, OfferAnswer, SetEvent, StopSets,
     StopGoesOn, StopReads, StopOffers, StopWakes, Types
<1> QED
  BY <1>1, <1>2 DEF Next

(* It holds when the run begins. *)
LEMMA InitHolds == ASSUME Init PROVE MultiPageInv
<1>1. AskTypes
  <2>1. <<>> \in Seq(Slot) /\ Len(<<>>) = 0
    OBVIOUS
  <2>2. NoQuestion \in [wait : Waits, offered : SUBSET Operator]
    BY DEF NoQuestion, Waits
  <2>3. cpc \in [Clicks -> {"ready", "read", "offer", "set", "claimed", "dropped"}]
        /\ cnum \in [Clicks -> Nat] /\ cans \in [Clicks -> Operator] /\ cslot \in [Clicks -> Nat]
        /\ \A c \in Clicks : cnum[c] = 0 /\ cslot[c] = 0
    BY DEF Init, Operator
  <2>4. /\ front \in {"web", "terminal"} /\ question = NoQuestion /\ slots = <<>>
        /\ superseded = FALSE /\ reply = "none" /\ broken = FALSE /\ row = 0
        /\ stopping = FALSE /\ spc = "off" /\ sslot = 0
    BY DEF Init
  <2>5. row \in 0..(Len(slots) + 1) /\ sslot \in 0..Len(slots) /\ reply \in Replies
        /\ \A c \in Clicks : cnum[c] <= Len(slots) /\ cslot[c] <= Len(slots)
    BY <2>1, <2>3, <2>4 DEF Replies
  <2>6. slots \in Seq(Slot) /\ question \in [wait : Waits, offered : SUBSET Operator]
    BY <2>1, <2>2, <2>4
  <2> QED
    BY <2>3, <2>4, <2>5, <2>6 DEF AskTypes
<1>2. doc \in Document
  <2>1. <<>> \in Seq(Page) /\ <<>> \in Seq(Pass)
    OBVIOUS
  <2> QED
    BY <2>1 DEF Init, Document
<1>3. PageTypes
  <2>1. <<>> \in Seq(Page) /\ <<>> \in Seq(Decision)
    OBVIOUS
  <2> QED
    BY <1>2, <2>1 DEF Init, PageTypes, Stages, Outcomes
<1>4. AskInv /\ AnswersAreTheirOwn
  BY DEF Init, AskInv, AckInv, ClickInv, SlotInv, TerminalIsAlone, AnswersAreTheirOwn, OnTheWeb, Waiting
<1>5. FinishInv /\ ActInv
  BY DEF Init, FinishInv, ActInv, Finished, Asking, Over
<1>6. FlightInv /\ GuardInv /\ PassInv
  BY NothingInFlight DEF Init, FlightInv, GuardInv, PassInv, Known, Unsettled, Asking, Over
<1>7. LedgerInv
  <2> DEFINE bounds == [i \in 0..0 |-> 0]
  <2>1. doc.records = <<>> /\ doc.removed = {} /\ doc.passes = <<>> /\ decided = <<>>
    BY DEF Init
  <2>2. bounds \in [0..Len(<<>>) -> Nat]
    OBVIOUS
  <2>3. PassesEnd(doc, decided, bounds)
    BY <2>1 DEF PassesEnd
  <2> QED
    BY <2>1, <2>2, <2>3 DEF LedgerInv, Ledger
<1>8. EndInv
  BY DEF Init, EndInv, EndKeepsEveryPage
<1>9. pc \in RunSteps
  BY DEF Init, RunSteps
<1> QED
  BY <1>1, <1>3, <1>4, <1>5, <1>6, <1>7, <1>8, <1>9
     DEF MultiPageInv, Types, AnswerInv, DocumentInv

(* Every step keeps it. *)
LEMMA StepKeeps == ASSUME MultiPageInv, [Next]_vars PROVE MultiPageInv'
<1>1. Types /\ AskTypes /\ PageTypes /\ AskInv /\ AnswersAreTheirOwn /\ FinishInv /\ ActInv
      /\ DocumentInv /\ pc \in RunSteps
  BY DEF MultiPageInv, Types, AnswerInv
<1>2. SUFFICES /\ pc' \in RunSteps /\ AskTypes' /\ AskInv' /\ AnswersAreTheirOwn'
               /\ FinishInv' /\ ActInv' /\ PageTypes' /\ DocumentInv'
  BY DEF MultiPageInv, Types, AnswerInv
<1>3. CASE UNCHANGED vars
  <2>1. UNCHANGED <<front, pc, document, slots, superseded, asking, ending, clicks, stop>>
    BY <1>3 DEF vars, coordinator
  <2>2. pc' \in RunSteps /\ AskTypes' /\ AskInv' /\ AnswersAreTheirOwn' /\ FinalAnswers
    BY <1>1, <2>1 DEF AskTypes, AskInv, AckInv, ClickInv, SlotInv, TerminalIsAlone,
       AnswersAreTheirOwn, FinalAnswers, asking, clicks, stop
  <2>3. FinishInv' /\ ActInv'
    BY <1>1, <2>1, <2>2, OthersMean
  <2>4. PageTypes' /\ DocumentInv'
    BY <1>1, <2>1, <2>3, IdleKeeps DEF asking, ending, PageTypes
  <2> QED
    BY <2>2, <2>3, <2>4
<1>4. CASE Next
  <2>1. pc' \in RunSteps
    BY <1>1, <1>4, PcIs
  <2>2. CASE \/ BeginPass \/ ScanPages \/ PassEnds \/ PassFaults \/ PassAborted
             \/ AcceptPass \/ AcceptArtefact \/ AcceptForget
             \/ ForgetPass \/ PopPass \/ PopArtefact \/ Unlink
    <3>1. AskTypes' /\ AskInv' /\ AnswersAreTheirOwn'
      BY <1>1, <2>2, WhichUnasked, UnaskedKeeps
    <3>2. FinishInv' /\ ActInv'
      BY <1>1, <2>2, SettlingMeans
    <3>3. CASE PassFaults \/ PassAborted
      <4>1. /\ UNCHANGED <<document, uploaded, kept, spared>> /\ outcome' \in Outcomes
            /\ \/ pc = "scanned" /\ pc' = "forget"
               \/ pc \notin Over /\ pc' = "preserve"
        BY <1>1, <3>3 DEF PassFaults, PassAborted, FailAs, ending, Outcomes, Over, PageTypes
      <4>2. PageTypes' /\ DocumentInv'
        BY <1>1, <3>2, <4>1, IdleKeeps
      <4> QED
        BY <2>1, <3>1, <3>2, <4>2
    <3>4. CASE ~(PassFaults \/ PassAborted)
      <4>1. PageTypes' /\ DocumentInv'
        BY <1>1, <2>2, <3>2, <3>4, BeginKeeps, ScanKeeps, SettleKeeps, AcceptKeeps, HandKeeps,
           ForgetKeeps, PopKeeps, UnlinkKeeps
      <4> QED
        BY <2>1, <3>1, <3>2, <4>1
    <3> QED
      BY <3>3, <3>4
  <2>3. CASE AfterPass
    <3>1. AskTypes' /\ AskInv' /\ AnswersAreTheirOwn'
      BY <1>1, <2>3, WhichUnasked, UnaskedKeeps
    <3>2. FinishInv' /\ ActInv'
      BY <1>1, <2>3, AfterMeans
    <3> QED
      BY <1>1, <2>1, <2>3, <3>1, <3>2, AfterKeeps
  <2>4. CASE \/ Announce \/ PersistWait \/ AskWhileStopping \/ AskChecks \/ Publish
             \/ Recheck \/ WaitEnds \/ SettleWait \/ TerminalAsk
    <3>1. AskTypes' /\ AskInv' /\ AnswersAreTheirOwn'
      BY <1>1, <2>4, WhichUnasked, UnaskedKeeps, AnnounceKeeps, AskKeeps, WaitKeeps
    <3>2. FinishInv' /\ ActInv'
      BY <1>1, <2>4, AskingMeans
    <3>3. /\ UNCHANGED <<document, uploaded, kept, spared, question, outcome>>
          /\ pc \in Asking /\ pc' \in Asking
      BY <2>4 DEF Announce, PersistWait, AskWhileStopping, AskChecks, Publish, Recheck, WaitEnds,
         SettleWait, TerminalAsk, Step, asking, ending, Asking
    <3>4. outcome' \in Outcomes
      BY <1>1, <3>3 DEF PageTypes
    <3>5. PageTypes' /\ DocumentInv'
      BY <1>1, <3>2, <3>3, <3>4, IdleKeeps
    <3> QED
      BY <2>1, <3>1, <3>2, <3>5
  <2>5. CASE ActEnds \/ ActOnNext \/ ActOnBlanks
    <3>1. AskTypes' /\ AskInv' /\ AnswersAreTheirOwn'
      BY <1>1, <2>5, WhichUnasked, UnaskedKeeps
    <3>2. FinishInv' /\ ActInv'
      BY <1>1, <2>5, ActingMeans
    <3>3. PageTypes' /\ DocumentInv'
      <4>1. CASE ActOnNext \/ ActOnBlanks
        BY <1>1, <3>2, <4>1, AfterKeeps, SettleKeeps
      <4>2. CASE ActEnds
        <5>1. pc \notin Over
              /\ UNCHANGED <<doc, flight, skip, capped, doomed, artefact, stage, decided>>
          BY <4>2 DEF ActEnds, Over
        <5>2. CASE Cancel
          BY <1>1, <3>2, <5>1, <5>2, CancelKeeps
        <5>3. CASE ~Cancel
          <6>1. /\ UNCHANGED <<document, uploaded, kept, spared>> /\ outcome' \in Outcomes
                /\ pc' = "preserve"
            BY <4>2, <5>1, <5>3 DEF ActEnds, FailAs, document, Outcomes
          <6> QED
            BY <1>1, <3>2, <5>1, <6>1, IdleKeeps
        <5> QED
          BY <5>2, <5>3
      <4> QED
        BY <2>5, <4>1, <4>2
    <3> QED
      BY <2>1, <3>1, <3>2, <3>3
  <2>6. CASE Finish \/ Assemble \/ Deliver \/ Preserve \/ Signal \/ CtrlC
    <3>1. AskTypes' /\ AskInv' /\ AnswersAreTheirOwn'
      BY <1>1, <2>6, WhichUnasked, UnaskedKeeps
    <3>2. FinishInv' /\ ActInv'
      BY <1>1, <2>6, EndingMeans
    <3>3. PageTypes' /\ DocumentInv'
      <4>1. CASE Signal
        <5>1. /\ UNCHANGED <<document, uploaded, kept, spared>> /\ outcome' \in Outcomes
              /\ pc \notin Over /\ pc' = "preserve"
          BY <4>1 DEF Signal, FailAs, Outcomes, Over
        <5> QED
          BY <1>1, <3>2, <5>1, IdleKeeps
      <4>2. CASE CtrlC
        <5>1. pc \notin Over /\ Cancel
              /\ UNCHANGED <<doc, flight, skip, capped, doomed, artefact, stage, decided>>
          BY <4>2 DEF CtrlC, Over
        <5> QED
          BY <1>1, <3>2, <5>1, CancelKeeps
      <4> QED
        BY <1>1, <2>6, <3>2, <4>1, <4>2, FinishKeeps, DeliverKeeps, PreserveKeeps
    <3> QED
      BY <2>1, <3>1, <3>2, <3>3
  <2>7. CASE (\E c \in Clicks : SendClick(c) \/ ClickGoesOn(c)) \/ StopSets \/ StopGoesOn
    <3>1. AskTypes' /\ AskInv' /\ AnswersAreTheirOwn' /\ FinalAnswers
      BY <1>1, <2>7, ReadKeeps, ClickKeeps, StopKeeps DEF ClickGoesOn
    <3>2. UNCHANGED <<pc, document, asking, ending>>
      BY <2>7 DEF SendClick, ClickGoesOn, ReadPrompt, ReadPromptIf, OfferAnswer, SetEvent, StopSets,
         StopGoesOn, StopReads, StopOffers, StopWakes
    <3>3. FinishInv' /\ ActInv'
      BY <1>1, <3>1, <3>2, OthersMean
    <3>4. PageTypes' /\ DocumentInv'
      BY <1>1, <3>2, <3>3, IdleKeeps DEF asking, ending, PageTypes
    <3> QED
      BY <2>1, <3>1, <3>3, <3>4
  <2> QED
    BY <1>4, <2>2, <2>3, <2>4, <2>5, <2>6, <2>7 DEF Next, Run, TimeOut, WakeUp
<1> QED
  BY <1>3, <1>4

(* Of every document, whatever is scanned, answered, clicked, stopped or cut
   short, and at whichever statement. *)
THEOREM MultiPageInvariant == Spec => []MultiPageInv
<1>1. Init => MultiPageInv
  BY InitHolds
<1>2. MultiPageInv /\ [Next]_vars => MultiPageInv'
  BY StepKeeps
<1> QED
  BY <1>1, <1>2, PTL DEF Spec

(* acknowledged: the claim the status page is shown is never of a question older
   than the row's (WorkerPassCoordinator.acknowledged). *)
THEOREM AcksAreFresh == Spec => []AckIsNotStale
<1>1. MultiPageInv => AckIsNotStale
  <2> SUFFICES ASSUME MultiPageInv, ~Unanswered(Acknowledged) PROVE row <= Len(slots)
    BY DEF AckIsNotStale
  <2>1. ~superseded
    BY DEF Acknowledged, Unanswered
  <2> QED
    BY <2>1 DEF MultiPageInv, AskInv, AckInv
<1> QED
  BY <1>1, MultiPageInvariant, PTL

(* An answer is claimed for the prompt it names, Finish has pages to finish, and a
   document nobody finished says so (answer_multi_page, _settle, _ask). *)
THEOREM AnswersAreMeant == Spec => []AnswersMeanIt
<1>1. MultiPageInv => AnswersMeanIt
  <2> SUFFICES ASSUME MultiPageInv PROVE AnswersMeanIt
    OBVIOUS
  <2>1. AnswersAreTheirOwn /\ SlotInv /\ ActInv /\ slots \in Seq(Slot)
    BY DEF MultiPageInv, AnswerInv, AskInv, Types, AskTypes
  <2>2. PressedFinishHasPages
    <3> SUFFICES ASSUME outcome = "allBlank", NEW n \in DOMAIN slots, slots[n].answer = "FINISH"
                 PROVE  FALSE
      BY DEF PressedFinishHasPages
    <3>1. n = Len(slots) /\ slots # <<>>
      BY <2>1 DEF SlotInv
    <3> QED
      BY <2>1, <3>1 DEF ActInv, Finished
  <2>3. UnfinishedIsWarned
    BY <2>1 DEF UnfinishedIsWarned, ActInv, Finished, Last
  <2> QED
    BY <2>1, <2>2, <2>3 DEF AnswersMeanIt
<1> QED
  BY <1>1, MultiPageInvariant, PTL

(* No statement of accepting, throwing away or finishing, and no end but a cancel,
   loses a page of the document or of the pass in flight (_accept_pass,
   _discard_last_pass, _SpoolLedger, execute's guard). *)
THEOREM PagesAreKept == Spec => []PagesSurvive
<1>1. MultiPageInv => PagesSurvive
  <2> SUFFICES ASSUME MultiPageInv PROVE PagesSurvive
    OBVIOUS
  <2>1. Types /\ FlightInv /\ GuardInv /\ LedgerInv /\ EndInv
    BY DEF MultiPageInv, DocumentInv
  <2>2. ASSUME NEW p \in Range(doc.records) \cup Range(flight) \cup files \cup kept
        PROVE  IsPage(p)
    <3>1. p \in Page
      <4>1. Range(doc.records) \subseteq Page /\ Range(flight) \subseteq Page
            /\ files \subseteq Page /\ kept \subseteq Page
        BY <2>1 DEF Types, PageTypes, Document, Range
      <4> QED
        BY <4>1
    <3>2. p.pass \in 1..doc.started
      BY <2>1, <2>2 DEF FlightInv, Known
    <3> QED
      BY <3>1, <3>2 DEF IsPage, Page
  <2>3. doc.removed \subseteq DOMAIN doc.records
    BY <2>1 DEF LedgerInv, Ledger
  <2>4. /\ doc.started \in Nat /\ doc.warned \in BOOLEAN /\ skip \subseteq Nat
        /\ capped \in BOOLEAN /\ spared \in BOOLEAN
        /\ stage \in Stages /\ outcome \in Outcomes
    BY <2>1 DEF Types, PageTypes, Document
  <2>5. /\ front \in {"web", "terminal"} /\ pc \in RunSteps
        /\ question.offered \subseteq Operator
        /\ reply \in Replies /\ broken \in BOOLEAN /\ row \in 0..(Len(slots) + 1)
        /\ superseded \in BOOLEAN /\ stopping \in BOOLEAN /\ sslot \in 0..Len(slots)
    BY <2>1 DEF Types, AskTypes
  <2>6. \A n \in DOMAIN slots : slots[n].answer \in Answers
    <3>1. \A n \in DOMAIN slots : slots[n] \in Slot
      BY <2>1 DEF Types, AskTypes
    <3> QED
      BY <3>1 DEF Slot
  <2>7. \A c \in Clicks : {cnum[c], cslot[c]} \subseteq 0..Len(slots) /\ cans[c] \in Operator
    <3> TAKE c \in Clicks
    <3>1. /\ cnum[c] \in Nat /\ cslot[c] \in Nat /\ cans[c] \in Operator /\ Len(slots) \in Nat
          /\ cnum[c] <= Len(slots) /\ cslot[c] <= Len(slots)
      BY <2>1 DEF Types, AskTypes
    <3> QED
      BY <3>1
  <2>8. TypeOK
    BY <2>2, <2>3, <2>4, <2>5, <2>6, <2>7 DEF TypeOK, Stages, Outcomes, Answers
  <2>9. DocumentOnDisk /\ EndKeepsEveryPage
    BY <2>1 DEF DocumentOnDisk, GuardInv, EndInv
  <2> QED
    BY <2>8, <2>9 DEF PagesSurvive
<1> QED
  BY <1>1, MultiPageInvariant, PTL

(* What is delivered is every accepted pass but its pages skipped as blank, and no
   page of a pass thrown away, in scan order (_accept_pass, _discard_last_pass,
   kept_pages). *)
THEOREM UploadsAreDecided == Spec => []UploadIsWhatWasDecided
<1>1. MultiPageInv => UploadIsWhatWasDecided
  <2> SUFFICES ASSUME MultiPageInv, outcome = "delivered"
               PROVE  /\ Range(uploaded) = ToDeliver
                      /\ \A j, k \in DOMAIN uploaded : j < k => Before(uploaded[j], uploaded[k])
    BY DEF UploadIsWhatWasDecided
  <2>1. /\ doc \in Document /\ decided \in Seq(Decision) /\ Ledger(doc, decided)
        /\ uploaded = KeptPages(doc)
    BY DEF MultiPageInv, Types, PageTypes, DocumentInv, LedgerInv, EndInv
  <2> DEFINE left == DOMAIN doc.records \ doc.removed
  <2>2. /\ Range(uploaded) = {doc.records[i] : i \in left}
        /\ \A j, k \in DOMAIN uploaded : j < k =>
              \E a, b \in left : a < b /\ uploaded[j] = doc.records[a]
                                       /\ uploaded[k] = doc.records[b]
    <3>1. /\ Range(KeptPages(doc)) = {doc.records[i] : i \in left}
          /\ \A j, k \in DOMAIN KeptPages(doc) : j < k =>
                \E a, b \in left : a < b /\ KeptPages(doc)[j] = doc.records[a]
                                         /\ KeptPages(doc)[k] = doc.records[b]
      BY <2>1, KeptPagesAre
    <3> HIDE DEF left
    <3> QED
      BY <2>1, <3>1
  <2>3. ToDeliver = {doc.records[i] : i \in left}
    BY <2>1, LedgerDelivers DEF ToDeliver
  <2>4. \A a, b \in left : a < b => Before(doc.records[a], doc.records[b])
    BY <2>1 DEF Ledger
  <2> HIDE DEF left
  <2> QED
    BY <2>2, <2>3, <2>4
<1> QED
  BY <1>1, MultiPageInvariant, PTL
=============================================================================
