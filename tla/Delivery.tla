------------------------------ MODULE Delivery ------------------------------
(***************************************************************************)
(* One run of the pipeline from the first sheet to the end of its          *)
(* workspace (pipeline.py, spool.py, duplex.py), over the client of        *)
(* PaperlessClient and the operators of Preservation, and what the sweep   *)
(* of a later process does with a workspace left behind (workspace.py).    *)
(*                                                                         *)
(* Any step of the run may fail, a SIGTERM or SIGHUP or a Ctrl-C of the    *)
(* command line may land between any two, and the process may be killed.   *)
(* The operator's answers in a multi-page document are in MultiPage; here  *)
(* its passes are accepted or thrown away at will.                         *)
(*                                                                         *)
(* A page is the pass that scanned it, its place in the pass and the sheet *)
(* it was on; a sheet may be unreadable, which the scanner reports, or be  *)
(* missed, two sheets having gone through as one, which nothing reports.   *)
(***************************************************************************)
EXTENDS PaperlessClient, Preservation, FiniteSets

CONSTANTS
    Sheets,        \* how many sheets the stack holds, by kind of request
    Kinds,         \* the requests made: "simplex", "duplex", "multi"
    MaxMisfeeds,   \* bound: sheets missed
    MaxPasses      \* bound: passes of a multi-page document

ASSUME DeliveryAssumption ==
    /\ Sheets \in [Kinds -> Nat \ {0}] /\ MaxMisfeeds \in Nat /\ MaxPasses \in Nat \ {0}
    /\ Kinds \subseteq {"simplex", "duplex", "multi"}
    /\ {"document", "fronts", "backs"} \subseteq Names

VARIABLES
    kind,       \* what was asked for
    pc,         \* where the run, or the sweep after it, is
    next,       \* the sheets the feeder still holds, in feeding order
    ledger,     \* the passes registered and not accepted yet, and their sheets lost
    art,        \* RunArtefacts
    legs,       \* the uploads and polls still to make
    settled,    \* request.settled
    outcome,    \* how the run ended, or is going to end
    halves,     \* (delivered, failed) of the error of a split run
    keep,       \* a preservation under way
    spool,      \* the page files in the workspace
    failed,     \* what failed/ holds
    warned,     \* PDFs the failure's notes caution about, beside what was kept
    advice,     \* how the failure's notes say the backs pair with the fronts
    spare,      \* keep_workspace was called
    ws,         \* the workspace: "none", "held", "left" in place, or "gone"
    round,      \* the number of the pass
    misfeeds,   \* history: sheets missed
    owed        \* history: pages spooled, not thrown away and not left out as blank

acquisition == <<next, ledger, round, misfeeds>>
keeping == <<keep, failed, warned, advice>>
workspace == <<spare, ws>>
ending == <<settled, outcome, halves>>
vars == <<kind, pc, acquisition, art, legs, ending, keeping, spool, workspace,
          owed, clientVars>>

Fronts == "(fronts)"
Backs == "(backs)"
Scanning == {"scan", "decide", "flip"}
Running == Scanning \cup {"between", "filter", "pair", "deliver"}
Failing == {"failed", "blank", "uncertain", "unconfirmed", "interrupted"}
Delivering == {"success", "fallback"}
Split == Len(art.pdfs) = 2

Pass(suffix) == [suffix |-> suffix, pages |-> <<>>, lost |-> 0]
Stack == [i \in 1..Sheets[kind] |-> i]

Init ==
    /\ ClientInit
    /\ kind \in Kinds /\ pc = "open"
    /\ next = <<>> /\ ledger = <<>> /\ misfeeds = 0
    /\ art = NoArtefacts(Names) /\ legs = <<>>
    /\ settled = FALSE /\ outcome = "none" /\ halves = <<>>
    /\ keep = Idle /\ failed = {} /\ warned = {} /\ advice = "none"
    /\ spool = {} /\ spare = FALSE /\ ws = "none"
    /\ round = 0 /\ owed = {}

Goto(from, to) == pc = from /\ pc' = to
KeepEnding == UNCHANGED ending
EndsAs(how) ==
    outcome' = how /\ pc' = "handle" /\ UNCHANGED <<settled, halves>>

-----------------------------------------------------------------------------
(* Acquisition: passes over the stack, page by page. *)

\* The checks before the workspace refuse a run that has nothing yet.
OpenWorkspace ==
    /\ Goto("open", "scan")
    /\ ws' = "held"
    /\ round' = 1
    /\ next' = Stack
    /\ ledger' = <<Pass(IF kind = "duplex" THEN Fronts ELSE "(partial)")>>
    /\ UNCHANGED <<kind, art, legs, ending, keeping, spool, spare, misfeeds,
                   owed, clientVars>>

Current == Len(ledger)
NewPage == [pass |-> round, at |-> Len(ledger[Current].pages) + 1,
            sheet |-> Head(next)]

(* SpooledPageSink.add: written whole and recorded in one step, also when a
   signal lands in it. *)
Feed(page, rest) ==
    /\ ledger' = [ledger EXCEPT ![Current].pages = Append(@, page)]
    /\ spool' = spool \cup {page}
    /\ owed' = owed \cup {page}
    /\ next' = rest
    /\ UNCHANGED <<kind, pc, art, legs, ending, keeping, workspace, round,
                   clientVars>>

\* What the feeder misses matters to pairing alone.
MisfeedBound == IF kind = "duplex" THEN MaxMisfeeds ELSE 0

SpoolPage ==
    /\ pc = "scan" /\ next # <<>>
    /\ Feed(NewPage, Tail(next))
    /\ UNCHANGED misfeeds

SheetMissed ==
    /\ pc = "scan" /\ next # <<>> /\ misfeeds < MisfeedBound
    /\ misfeeds' = misfeeds + 1
    /\ next' = Tail(next)
    /\ UNCHANGED <<kind, round, pc, ledger, art, legs, ending, keeping, spool,
                   workspace, owed, clientVars>>

SheetUnreadable ==
    /\ pc = "scan" /\ next # <<>>
    /\ ledger' = [ledger EXCEPT ![Current].lost = @ + 1]
    /\ next' = Tail(next)
    /\ UNCHANGED <<kind, round, pc, misfeeds, art, legs, ending, keeping,
                   spool, workspace, owed, clientVars>>

(* The document as it goes to the filter: the stage and the document are set
   before anything can be left out of it. *)
ToFilter(pages) ==
    /\ art' = [art EXCEPT !.stage = "FILTERING", !.document = pages]
    /\ pc' = "filter"
\* ledger.unreadable_sheets, counted as a pass of a duplex run returns.
Counting(a, i) == [a EXCEPT !.unreadable = @ + ledger[i].lost]

(* _scan_simplex, and _scan_manual_duplex up to the flip: an empty pass is a
   failure, a capped fronts pass ends the job with the fronts. *)
FirstPassEnds ==
    /\ pc = "scan" /\ kind # "multi" /\ Current = 1
    /\ \E capped \in BOOLEAN :
          LET pages == ledger[1].pages
              counted == IF kind = "duplex" THEN Counting(art, 1) ELSE art
          IN  /\ IF capped THEN next # <<>> ELSE next = <<>>
              /\ next' = <<>>
              /\ \/ /\ pages = <<>>
                    /\ EndsAs("failed")
                    /\ art' = counted
                 \/ /\ pages # <<>> /\ kind = "duplex" /\ ~capped
                    /\ pc' = "flip"
                    /\ art' = counted
                    /\ KeepEnding
                 \/ /\ pages # <<>> /\ (kind = "simplex" \/ capped)
                    /\ art' = [counted EXCEPT !.stage = "FILTERING", !.document = pages]
                    /\ pc' = "filter"
                    /\ KeepEnding
    /\ UNCHANGED <<kind, round, ledger, misfeeds, legs, keeping, spool,
                   workspace, owed, clientVars>>

(* The flip wait; INTERRUPTED is an interruption of the run. *)
FlipAnswered ==
    /\ pc = "flip"
    /\ \/ /\ pc' = "scan"
          /\ ledger' = Append(ledger, Pass(Backs))
          /\ next' = Reverse(Stack)
          /\ round' = 2
          /\ KeepEnding
       \/ EndsAs("cancelled") /\ UNCHANGED <<ledger, next, round>>
       \/ EndsAs("failed") /\ UNCHANGED <<ledger, next, round>>
    /\ UNCHANGED <<kind, misfeeds, art, legs, keeping, spool, workspace, owed,
                   clientVars>>

(* interleave_duplex, for as many backs as fronts: the flipped stack is fed
   from its last sheet. *)
InterleaveDuplex(fronts, backs) ==
    [k \in 1..(2 * Len(fronts)) |->
        IF k % 2 = 1 THEN fronts[(k + 1) \div 2] ELSE Reverse(backs)[k \div 2]]

CanPairByCount(capped) == ~capped /\ Len(ledger[1].pages) = Len(ledger[2].pages)
\* Position proves pairing only when every sheet was read on both passes.
CanPair(capped) ==
    /\ ~capped
    /\ ledger[1].lost = 0 /\ ledger[2].lost = 0
    /\ Len(ledger[1].pages) = Len(ledger[2].pages)

(* The end of pass B: one interleaved document, or two halves. *)
BacksPassEnds ==
    /\ pc = "scan" /\ kind = "duplex" /\ Current = 2
    /\ \E capped \in BOOLEAN :
          LET counted == Counting(art, 2)
          IN  /\ IF capped THEN next # <<>> ELSE next = <<>>
              /\ next' = <<>>
              /\ \/ /\ ledger[2].pages = <<>>
                    /\ EndsAs("failed")
                    /\ art' = counted
                 \/ /\ ledger[2].pages # <<>> /\ CanPair(capped)
                    /\ ToFilter(InterleaveDuplex(ledger[1].pages, ledger[2].pages))
                    /\ KeepEnding
                 \/ /\ ledger[2].pages # <<>> /\ ~CanPair(capped)
                    /\ art' = [counted EXCEPT !.stage = "ASSEMBLING"]
                    /\ pc' = "pair"
                    /\ KeepEnding
    /\ UNCHANGED <<kind, round, ledger, misfeeds, legs, keeping, spool,
                   workspace, owed, clientVars>>

\* A pass of a multi-page document: over for whatever reason, then decided on.
MultiPassEnds ==
    /\ Goto("scan", "decide") /\ kind = "multi"
    /\ ledger[1].pages # <<>>
    /\ UNCHANGED <<kind, acquisition, art, legs, ending, keeping, spool,
                   workspace, owed, clientVars>>

\* _accept_pass, then another pass or the end of the document.
AcceptPass ==
    /\ pc = "decide"
    /\ art' = [art EXCEPT !.document = @ \o ledger[1].pages,
                          !.unreadable = @ + ledger[1].lost]
    /\ ledger' = <<>>
    /\ pc' = "between"
    /\ UNCHANGED <<kind, round, next, misfeeds, legs, ending, keeping, spool,
                   workspace, owed, clientVars>>

\* _SpoolLedger.discard: forgotten before its files are deleted.
DiscardPass ==
    /\ pc = "decide"
    /\ owed' = owed \ Range(ledger[1].pages)
    /\ spool' = spool \ Range(ledger[1].pages)
    /\ ledger' = <<>>
    /\ pc' = "between"
    /\ UNCHANGED <<kind, round, next, misfeeds, art, legs, ending, keeping,
                   workspace, clientVars>>

NextPass ==
    /\ pc = "between"
    /\ round < MaxPasses
    /\ round' = round + 1
    /\ pc' = "scan"
    /\ ledger' = <<Pass("(partial)")>>
    /\ next' = Stack
    /\ UNCHANGED <<kind, misfeeds, art, legs, ending, keeping, spool,
                   workspace, owed, clientVars>>

FinishPasses ==
    /\ pc = "between"
    /\ \/ EndsAs("cancelled") /\ UNCHANGED art
       \/ art.document # <<>> /\ ToFilter(art.document) /\ KeepEnding
    /\ UNCHANGED <<kind, acquisition, legs, keeping, spool, workspace, owed,
                   clientVars>>

-----------------------------------------------------------------------------
(* From the pages to the delivery. *)

Assembled(name, pages) == Item("assembled", name, pages)
Leg(op, name) == [op |-> op, pdf |-> name]

\* _assemble and the start of _deliver_document, once it has worked.
Deliver(pdfs, steps) ==
    /\ art' = [art EXCEPT !.stage = "DELIVERING", !.pdfs = pdfs]
    /\ legs' = steps
    /\ pc' = "deliver"
    /\ KeepEnding

(* filter_blank_pages: any page may look blank; the others keep their order.
   A selection is the places of the pages that stay, in rising order.          *)
Selections(n) ==
    {places \in UNION {[1..k -> 1..n] : k \in 0..n} :
        \A i, j \in DOMAIN places : i < j => places[i] < places[j]}
Leaving(pages) ==
    {[i \in DOMAIN places |-> pages[places[i]]] : places \in Selections(Len(pages))}

(* _drop_blank_pages or a multi-page document's own skips, then _assemble,
   which the disk rule or the writer may refuse at stage ASSEMBLING. *)
FinishDocument ==
    /\ pc = "filter"
    /\ \E left \in Leaving(art.document) :
          \/ /\ left = <<>>
             /\ EndsAs("blank")
             /\ UNCHANGED <<art, legs, owed>>
          \/ /\ left # <<>>
             /\ owed' = owed \ (Range(art.document) \ Range(left))
             /\ Deliver(<<Assembled("document", left)>>,
                        <<Leg("upload", "document"), Leg("poll", "document")>>)
          \/ /\ left # <<>>
             /\ EndsAs("failed")
             /\ art' = [art EXCEPT !.stage = "ASSEMBLING"]
             /\ UNCHANGED <<legs, owed>>
    /\ UNCHANGED <<kind, acquisition, keeping, spool, workspace, clientVars>>

\* _finish_mismatch: both halves whole, the backs in sheet order.
FinishMismatch ==
    /\ pc = "pair"
    /\ \/ Deliver(<<Assembled("fronts", ledger[1].pages),
                    Assembled("backs", Reverse(ledger[2].pages))>>,
                  <<Leg("upload", "fronts"), Leg("upload", "backs"),
                    Leg("poll", "fronts"), Leg("poll", "backs")>>)
       \/ EndsAs("failed") /\ UNCHANGED <<art, legs>>
    /\ UNCHANGED <<kind, acquisition, keeping, spool, workspace, owed,
                   clientVars>>

\* _deliver_document: the next upload or poll of the list.
StartLeg ==
    /\ pc = "deliver" /\ call = NoCall /\ legs # <<>>
    /\ LET leg == Head(legs)
       IN  CASE leg.op = "upload" -> StartUpload(leg.pdf) /\ UNCHANGED legs
             [] leg.op = "poll" /\ art.accepted[leg.pdf] = "task" ->
                    StartPoll(leg.pdf) /\ UNCHANGED legs
             [] OTHER -> legs' = Tail(legs) /\ UNCHANGED clientVars
    /\ UNCHANGED <<kind, pc, acquisition, art, ending, keeping, spool,
                   workspace, owed>>

\* Whatever the client does meanwhile, the run waits for it.
InCall ==
    /\ pc = "deliver"
    /\ CallStep
    /\ UNCHANGED <<kind, pc, acquisition, art, legs, ending, keeping, spool,
                   workspace, owed>>

(* _upload and _poll return: how the PDF was taken is recorded as the upload
   returns, for the caution of a failure that comes later. *)
LegReturns ==
    /\ pc = "deliver" /\ call.result \in Deliveries
    /\ legs' = Tail(legs)
    /\ art' = IF call.op = "poll" THEN art
              ELSE [art EXCEPT !.accepted[call.pdf] =
                        IF call.result = "api" THEN "task" ELSE "folder"]
    /\ CallBroken
    /\ UNCHANGED <<kind, pc, acquisition, ending, keeping, spool, workspace,
                   owed>>

\* The error of a leg by itself.
ErrorOf(result) ==
    CASE result = "uncertain" -> "uncertain"
      [] result \in {"unconfirmed", "timeout"} -> "unconfirmed"
      [] OTHER -> "failed"
\* The half the next step would fail, once one half has been taken.
HalvesAt(leg) ==
    IF leg = Leg("poll", "fronts") THEN <<"backs", "fronts">> ELSE <<"fronts", "backs">>

LegRaisesPlainly ==
    /\ pc = "deliver" /\ call.result \in Failures
    /\ pc' = "handle"
    /\ outcome' = ErrorOf(call.result)
    /\ art' = IF call.result = "uncertain" /\ art.accepted[call.pdf] = "no"
              THEN [art EXCEPT !.accepted[call.pdf] = "unanswered"] ELSE art
    /\ CallBroken
    /\ UNCHANGED <<kind, acquisition, legs, settled, halves, keeping, spool,
                   workspace, owed>>
(* Once the fronts are taken, any failure of the rest is an unconfirmed filing
   that names both halves; before, it is itself. *)
LegRaises ==
    /\ pc = "deliver" /\ call.result \in Failures
    /\ pc' = "handle"
    /\ IF Split /\ Head(legs) # Leg("upload", "fronts")
       THEN outcome' = "unconfirmed" /\ halves' = HalvesAt(Head(legs))
       ELSE outcome' = ErrorOf(call.result) /\ UNCHANGED halves
    /\ art' = IF call.result = "uncertain" /\ art.accepted[call.pdf] = "no"
              THEN [art EXCEPT !.accepted[call.pdf] = "unanswered"] ELSE art
    /\ CallBroken
    /\ UNCHANGED <<kind, acquisition, legs, settled, keeping, spool, workspace,
                   owed>>

(* _delivered: settled first, and only then DELIVERED, the stage at which a
   failure keeps nothing. *)
SettleDelivered ==
    /\ Goto("deliver", "delivered") /\ legs = <<>> /\ call = NoCall
    /\ settled' = TRUE
    /\ UNCHANGED <<kind, acquisition, art, legs, outcome, halves, keeping,
                   spool, workspace, owed, clientVars>>

StageDelivered ==
    /\ Goto("delivered", "leave")
    /\ settled' = TRUE
    /\ art' = [art EXCEPT !.stage = "DELIVERED"]
    /\ outcome' = IF \E n \in Names : art.accepted[n] = "folder"
                  THEN "fallback" ELSE "success"
    /\ UNCHANGED <<kind, acquisition, legs, halves, keeping, spool, workspace,
                   owed, clientVars>>

-----------------------------------------------------------------------------
(* What can break into a run: a failing step, a signal, Ctrl-C, the end of
   the process.  The sheets left in the feeder are of no interest then. *)

\* A scanner or spool error, the fault of a step, a broken prompt.
StepFails ==
    /\ pc \in Scanning
    /\ EndsAs("failed")
    /\ next' = <<>>
    /\ UNCHANGED <<kind, ledger, round, misfeeds, art, legs, keeping, spool,
                   workspace, owed, clientVars>>

(* SIGTERM or SIGHUP, or a server that is stopping: raised once, and only
   until the outcome is settled.  An upload under way may have arrived. *)
Interrupt ==
    /\ pc \in Running \cup {"delivered"} /\ ~settled
    /\ EndsAs("interrupted")
    /\ next' = <<>>
    /\ art' = IF call.op = "upload" /\ art.accepted[call.pdf] = "no"
              THEN [art EXCEPT !.accepted[call.pdf] = "interrupted"] ELSE art
    /\ CallBroken
    /\ UNCHANGED <<kind, ledger, round, misfeeds, legs, keeping, spool,
                   workspace, owed>>

\* Ctrl-C cancels at any step, the keeping of a failure's pages included.
CtrlC ==
    /\ pc \in Running \cup {"delivered", "handle", "preserve"}
    /\ EndsAs("cancelled")
    /\ next' = <<>>
    /\ keep' = Idle
    /\ CallBroken
    /\ UNCHANGED <<kind, ledger, round, misfeeds, art, legs, failed, warned,
                   advice, spool, workspace, owed>>

Forgotten == /\ next' = <<>> /\ ledger' = <<>> /\ legs' = <<>> /\ halves' = <<>>
             /\ keep' = Idle /\ call' = NoCall /\ round' = 0 /\ misfeeds' = 0
             /\ advice' = "none"

(* The process is killed, or the machine goes down, and the disk stays: what
   was being removed may be gone or not. *)
Killed ==
    /\ pc \in Running \cup {"delivered", "handle", "preserve", "leave", "sweep"}
    /\ pc' = "over"
    /\ IF pc = "sweep" \/ (pc = "leave" /\ outcome \in Delivering \cup {"cancelled"})
       THEN UNCHANGED <<outcome, art>>
       ELSE outcome' = "killed" /\ art' = NoArtefacts(Names)
    /\ ws' = "left"
    /\ spool' \in IF pc = "leave" /\ ~spare THEN {spool, {}} ELSE {spool}
    /\ Forgotten
    /\ UNCHANGED <<kind, settled, failed, warned, spare, owed, server,
                   dropped>>

-----------------------------------------------------------------------------
(* execute's handlers, and keeping the pages. *)

Passes == [i \in DOMAIN ledger |-> [suffix |-> ledger[i].suffix,
                                    pages |-> ledger[i].pages]]

HandleCancel ==
    /\ pc = "handle" /\ outcome = "cancelled"
    /\ settled' = TRUE
    /\ pc' = "leave"
    /\ UNCHANGED <<kind, acquisition, art, legs, outcome, halves, keeping,
                   spool, workspace, owed, clientVars>>

HandleFailure ==
    /\ pc = "handle" /\ outcome # "cancelled"
    /\ settled' = TRUE
    /\ art' = [art EXCEPT !.passes = Passes]
    /\ keep' = Begin(art')
    /\ pc' = "preserve"
    /\ UNCHANGED <<kind, acquisition, legs, outcome, halves, failed, warned,
                   advice, spool, workspace, owed, clientVars>>

\* Each step of a preservation, of a failed run or of the sweep.
KeepItem ==
    /\ pc \in {"preserve", "sweep"} /\ keep.todo # <<>>
    /\ \/ /\ failed' = failed \cup {Head(keep.todo)}
          /\ keep' = Kept(keep)
       \/ /\ keep' = NotKept(keep)
          /\ UNCHANGED failed
    /\ UNCHANGED <<kind, pc, acquisition, art, legs, ending, warned, advice,
                   spool, workspace, owed, clientVars>>

\* Page files sort by pass and by place in it.
NotAfter(p, q) == p.pass < q.pass \/ (p.pass = q.pass /\ p.at <= q.at)
FirstFile == CHOOSE p \in spool : \A q \in spool : NotAfter(p, q)

KeepPageFile ==
    /\ pc \in {"preserve", "sweep"} /\ keep.todo = <<>> /\ keep.files
    /\ \/ spool = {} /\ keep' = FilesDone(keep) /\ UNCHANGED <<failed, spool>>
       \/ /\ spool # {}
          /\ failed' = failed \cup {PageFile(FirstFile)}
          /\ spool' = spool \ {FirstFile}
          /\ UNCHANGED <<keep>>
       \/ /\ spool # {}
          /\ keep' = FilesStop(keep)
          /\ UNCHANGED <<failed, spool>>
    /\ UNCHANGED <<kind, pc, acquisition, art, legs, ending, warned, advice,
                   workspace, owed, clientVars>>

PagesIn(suffix) ==
    LET its == {i \in DOMAIN art.passes : art.passes[i].suffix = suffix}
    IN  IF its = {} THEN 0 ELSE Len(art.passes[CHOOSE i \in its : TRUE].pages)

(* The notes of the failure, and whether the workspace has to stay: removing
   it would delete the only copy of pages that could not be kept. *)
ReportFailure ==
    /\ Goto("preserve", "leave") /\ ~IsKeeping(keep)
    /\ warned' = Cautions(art, failed)
    /\ advice' = IF keep.whole /\ art.document = <<>> /\ art.stage = "ACQUIRING"
                 THEN PairingCaution(PagesIn(Fronts), PagesIn(Backs), art.unreadable)
                 ELSE "none"
    /\ spare' = (keep.problem /\ spool # {})
    /\ keep' = Idle
    /\ UNCHANGED <<kind, acquisition, art, legs, ending, failed, spool, ws,
                   owed, clientVars>>

\* JobWorkspace.__exit__, with everything in the workspace gone or left.
LeaveWorkspace ==
    /\ Goto("leave", "over")
    /\ IF spare THEN ws' = "left" /\ UNCHANGED spool
                ELSE ws' = "gone" /\ spool' = {}
    /\ Forgotten
    /\ UNCHANGED <<kind, art, settled, outcome, failed, warned, spare, owed,
                   server, dropped>>

-----------------------------------------------------------------------------
(* The sweep of a later process: _recover_orphan. *)

\* Their number k is the k-th in that order.
PlaceAmong(files, p) == Cardinality({q \in files : NotAfter(q, p)})
FilesOf(side) ==
    LET files == {p \in spool : (kind = "duplex" /\ p.pass = 2) = (side = Backs)}
    IN  [k \in 1..Cardinality(files) |-> CHOOSE p \in files : PlaceAmong(files, p) = k]

\* The passes read back from the page files, none if one cannot be read.
Rebuilt ==
    <<[suffix |-> IF FilesOf(Backs) = <<>> THEN "(partial)" ELSE Fronts,
       pages |-> FilesOf(Fronts)],
      [suffix |-> Backs, pages |-> FilesOf(Backs)]>>

\* Only a workspace that was locked has a name the sweep looks at.
SweepFinds ==
    /\ pc = "over" /\ ws = "left"
    /\ pc' = "sweep"
    /\ \E passes \in {Rebuilt, <<>>} :
          keep' = IF spool = {} THEN Idle
                  ELSE Begin([NoArtefacts(Names) EXCEPT !.passes = passes])
    /\ UNCHANGED <<kind, acquisition, art, legs, ending, failed, warned,
                   advice, spool, workspace, owed, clientVars>>

SweepRemovesAnyway ==
    /\ Goto("sweep", "over") /\ ~IsKeeping(keep)
    /\ ws' = "gone" /\ spool' = {}
    /\ keep' = Idle
    /\ UNCHANGED <<kind, acquisition, art, legs, ending, failed, warned,
                   advice, spare, owed, clientVars>>
\* What could not be kept is left for the sweep after this one.
SweepLeaves ==
    /\ Goto("sweep", "over") /\ ~IsKeeping(keep)
    /\ IF keep.problem /\ spool # {} THEN UNCHANGED <<ws, spool>>
       ELSE ws' = "gone" /\ spool' = {}
    /\ keep' = Idle
    /\ UNCHANGED <<kind, acquisition, art, legs, ending, failed, warned,
                   advice, spare, owed, clientVars>>

RunStep ==
    \/ OpenWorkspace \/ SpoolPage \/ SheetMissed
    \/ SheetUnreadable \/ FirstPassEnds \/ FlipAnswered \/ BacksPassEnds
    \/ MultiPassEnds \/ AcceptPass \/ DiscardPass \/ NextPass \/ FinishPasses
    \/ FinishDocument \/ FinishMismatch \/ StartLeg \/ InCall \/ LegReturns
    \/ LegRaises \/ SettleDelivered \/ StageDelivered
    \/ HandleCancel \/ HandleFailure \/ KeepItem \/ KeepPageFile
    \/ ReportFailure \/ LeaveWorkspace

Next == RunStep \/ StepFails \/ Interrupt \/ CtrlC \/ Killed
            \/ SweepFinds \/ SweepLeaves

Spec == Init /\ [][Next]_vars

-----------------------------------------------------------------------------
(* A page that reached the spool is delivered, in failed/, or still in a
   workspace left on the disk, unless somebody cancelled the run or threw its
   pass away: whatever failed, whatever could not be kept, and whenever the
   process was killed.  A page left out as blank goes with the document that
   was assembled without it.  A run that reports a failure has kept its pages
   whether or not paperless-ngx has them. *)
Reached == PagesOf({art.pdfs[i] : i \in {k \in DOMAIN art.pdfs : Holds(art.pdfs[k].name)}})
NothingLost ==
    pc = "over" /\ outcome # "cancelled" =>
        \A p \in owed :
            \/ p \in PagesOf(failed)
            \/ ws = "left" /\ p \in spool
            \/ outcome \in Delivering \cup {"killed"} /\ p \in Reached

(* A PDF is handed to paperless-ngx at most once, over the API and the consume
   directory together, and a file the consume directory offers is whole. *)
HandedOnce ==
    \A n \in Names : Handed(n) <= 1 /\ dropped[n] # "cut"

(* A run that failed and kept something says, in the notes that say where, which
   of its PDFs may be in paperless-ngx already.  The notes of a run that could
   keep nothing have no place for it, and nothing is said of what a later sweep
   keeps of that run: then the error is all there is, see ErrorIsTrue. *)
DuplicatesAreCautioned ==
    pc = "leave" /\ outcome \in Failing /\ failed # {} =>
        \A n \in Names : Handed(n) > 0 => n \in warned

(* The error says what happened: a plain failure, or a blank document, handed
   nothing over, so that what may have arrived ends as uncertain, unconfirmed or
   interrupted; a half called delivered was handed over; and a document that was
   settled as delivered is never reported as failed. *)
ErrorIsTrue ==
    /\ outcome \in {"failed", "blank"} => \A n \in Names : Handed(n) = 0
    /\ halves # <<>> => Handed(halves[1]) > 0
    /\ outcome \in Failing => art.stage # "DELIVERED"

(* A failure says what it leaves behind: what was handed over, and what may be
   there twice if a copy the run kept is uploaded by hand. *)
FailureIsHonest == ErrorIsTrue /\ DuplicatesAreCautioned

(* Fronts meet their own backs: in an interleaved document, and in the advice
   on a stopped run's halves, as long as no sheet was silently missed. *)
SameSheet(front, back) == front.sheet = back.sheet
InterleavedPairs ==
    kind = "duplex" /\ art.document # <<>> /\ Current = 2 /\ misfeeds <= 1 =>
        \A k \in 1..(Len(art.document) \div 2) :
            SameSheet(art.document[2 * k - 1], art.document[2 * k])
KeptPass(suffix) == CHOOSE i \in failed : i.kind = "pass" /\ i.name = suffix
AdvisedPairs ==
    pc = "leave" /\ advice = "last" /\ misfeeds = 0 =>
        LET fronts == KeptPass(Fronts).pages
            backs == KeptPass(Backs).pages
        IN  \A k \in DOMAIN backs :
                SameSheet(fronts[FirstPairedFront(Len(fronts), Len(backs)) + k - 1],
                          backs[k])
\* The pass that stopped had read every sheet it fed.
StoppedPassReadAll == Current = 2 => ledger[2].lost = 0
BacksMatchFronts == InterleavedPairs /\ (StoppedPassReadAll => AdvisedPairs)
=============================================================================
