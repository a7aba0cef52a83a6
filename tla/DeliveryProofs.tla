--------------------------- MODULE DeliveryProofs ---------------------------
(***************************************************************************)
(* For any stack, any number of attempts, misfeeds and passes, and any     *)
(* names of PDFs: what one run hands to paperless-ngx, and what becomes of *)
(* the pages it scanned.                                                   *)
(***************************************************************************)
EXTENDS Delivery, FiniteSetTheorems, SequenceTheorems, TLAPS

(* The types. *)

Acquiring == Scanning \cup {"between"}
Before == Acquiring \cup {"open", "filter", "pair"}
Places == Before \cup {"deliver", "delivered", "handle", "preserve", "leave", "over", "sweep"}
Stages == {"ACQUIRING", "FILTERING", "ASSEMBLING", "DELIVERING", "DELIVERED"}
Takings == {"no", "task", "folder", "unanswered", "interrupted"}
Outcomes == {"none", "cancelled", "killed"} \cup Failing \cup Delivering

Page == [pass : Nat, at : Nat, sheet : Nat]
PassNames == {Fronts, Backs, "(partial)"}
RunPass == [suffix : PassNames, pages : Seq(Page)]
OpenPass == [suffix : PassNames, pages : Seq(Page), lost : Nat]
KeptItem ==
    [kind : {"assembled", "document", "pass", "page"},
     name : Names \cup PassNames \cup {"document", "page"}, pages : Seq(Page)]
Pdf == [kind : {"assembled"}, name : Names, pages : Seq(Page)]
Artefacts ==
    [stage : Stages, document : Seq(Page), passes : Seq(RunPass), pdfs : Seq(Pdf),
     accepted : [Names -> Takings], unreadable : Nat]

Call ==
    [op : {"none", "upload", "poll"}, pdf : Names \cup {"none"},
     at : {"idle", "send", "sent", "fall back", "copying", "copied", "ask", "done"},
     asks : {"oldest", "newest"}, sends : Nat,
     result : {"none"} \cup Failures \cup Deliveries]

\* The legs of a delivery still ahead, of one document or of two halves.
DocumentLegs == {<<Leg("upload", "document"), Leg("poll", "document")>>,
                 <<Leg("poll", "document")>>, <<>>}
HalvesLegs ==
    {<<Leg("upload", "fronts"), Leg("upload", "backs"), Leg("poll", "fronts"), Leg("poll", "backs")>>,
     <<Leg("upload", "backs"), Leg("poll", "fronts"), Leg("poll", "backs")>>,
     <<Leg("poll", "fronts"), Leg("poll", "backs")>>, <<Leg("poll", "backs")>>, <<>>}

AcquisitionTypeOK ==
    /\ kind \in Kinds /\ pc \in Places
    /\ next \in Seq(Nat) /\ ledger \in Seq(OpenPass) /\ round \in Nat /\ misfeeds \in Nat
ArtTypeOK == art \in Artefacts /\ legs \in DocumentLegs \cup HalvesLegs
EndingTypeOK ==
    /\ settled \in BOOLEAN /\ outcome \in Outcomes
    /\ halves \in {<<>>, <<"fronts", "backs">>, <<"backs", "fronts">>}
KeepTypeOK ==
    /\ keep \in [todo : Seq(KeptItem), whole : BOOLEAN, problem : BOOLEAN, files : BOOLEAN]
    /\ failed \in SUBSET KeptItem /\ warned \in SUBSET Names
    /\ advice \in {"none", "last", "unpairable"}
WorkspaceTypeOK ==
    /\ spool \in SUBSET Page /\ IsFiniteSet(spool) /\ owed \in SUBSET Page
    /\ spare \in BOOLEAN /\ ws \in {"none", "held", "left", "gone"}
ClientTypeOK ==
    /\ call \in Call
    /\ tasks \in [Names -> {"none", "queued", "filed", "duplicate", "failed"}]
    /\ taken \in [Names -> Nat] /\ dropped \in [Names -> {"no", "whole"}]
\* The passes registered and not accepted yet, at each step of an acquisition.
PassesInFlight ==
    /\ Len(ledger) <= 2
    /\ pc = "scan" => ledger # <<>> /\ (kind # "duplex" => Len(ledger) = 1)
    /\ pc = "decide" => Len(ledger) = 1 /\ kind = "multi"
    /\ pc = "between" => ledger = <<>> /\ kind = "multi"
    /\ pc = "flip" => Len(ledger) = 1 /\ kind = "duplex"
    /\ pc = "pair" => Len(ledger) = 2 /\ kind = "duplex"
\* The page files have a number of their own, and the next one's is higher.
Numbered ==
    /\ \A p, q \in spool : p.pass = q.pass /\ p.at = q.at => p = q
    /\ pc = "open" => spool = {}
    /\ pc \in Acquiring => \A p \in spool : p.pass <= round
    /\ pc = "scan" => \A p \in spool : p.pass = round => p.at <= Len(ledger[Current].pages)
    /\ pc \in {"scan", "flip"} /\ kind = "duplex" => round = Current
TypeOK ==
    /\ AcquisitionTypeOK /\ ArtTypeOK /\ EndingTypeOK /\ KeepTypeOK /\ WorkspaceTypeOK
    /\ ClientTypeOK /\ PassesInFlight
-----------------------------------------------------------------------------
(* What was handed over. *)

Fresh(n) == taken[n] = 0 /\ dropped[n] = "no"
Taken(n) ==
    \/ taken[n] = 1 /\ dropped[n] = "no" /\ art.accepted[n] = "task"
    \/ taken[n] = 0 /\ dropped[n] = "whole" /\ art.accepted[n] = "folder"

\* How far a call is, and what that says of the PDF it is about.
UploadAt(n) ==
    \/ call.at \in {"send", "fall back", "copying"} /\ call.result = "none" /\ Fresh(n)
    \/ call.at = "sent" /\ call.result = "none" /\ taken[n] <= 1 /\ dropped[n] = "no"
    \/ call.at = "copied" /\ call.result = "none" /\ taken[n] = 0 /\ dropped[n] = "whole"
    \/ call.at = "done" /\ call.result = "api" /\ taken[n] = 1 /\ dropped[n] = "no"
    \/ call.at = "done" /\ call.result = "folder" /\ taken[n] = 0 /\ dropped[n] = "whole"
    \/ call.at = "done" /\ call.result = "uncertain" /\ taken[n] <= 1 /\ dropped[n] = "no"
    \/ call.at = "done" /\ call.result \in {"unsent", "incompatible", "refused"} /\ Fresh(n)
PollAt(n) ==
    \/ call.at = "ask" /\ call.result = "none"
    \/ call.at = "done" /\ call.result \in {"filed", "duplicate", "unconfirmed", "timeout"}
CallIsOfLeg ==
    \/ call = NoCall
    \/ /\ pc = "deliver" /\ legs # <<>> /\ call.op \in {"upload", "poll"}
       /\ Head(legs) = Leg(call.op, call.pdf)
       /\ call.op = "upload" => UploadAt(call.pdf)
       /\ call.op = "poll" => PollAt(call.pdf)

PdfNames == {art.pdfs[i].name : i \in DOMAIN art.pdfs}
UploadsOf(list) == {n \in Names : \E i \in DOMAIN list : list[i] = Leg("upload", n)}
ToUpload == UploadsOf(legs)
Uploading(n) == call.op = "upload" /\ call.pdf = n

\* Up to the delivery nothing was handed over.
NothingHanded ==
    pc \in Before =>
        /\ \A n \in Names : Fresh(n) /\ art.accepted[n] = "no"
        /\ art.pdfs = <<>> /\ outcome = "none" /\ halves = <<>>
        /\ art.stage \in {"ACQUIRING", "FILTERING", "ASSEMBLING"}

\* What is still to upload was not handed over, and what is not was, once.
LegsAreAhead ==
    pc \in {"deliver", "delivered"} =>
        /\ \/ legs \in DocumentLegs /\ PdfNames = {"document"} /\ Len(art.pdfs) = 1
           \/ legs \in HalvesLegs /\ PdfNames = {"fronts", "backs"} /\ Len(art.pdfs) = 2
        /\ outcome = "none" /\ halves = <<>> /\ art.stage = "DELIVERING"
        /\ \A n \in Names \ PdfNames : Fresh(n) /\ art.accepted[n] = "no"
        /\ \A n \in ToUpload : (Uploading(n) \/ Fresh(n)) /\ art.accepted[n] = "no"
        /\ \A n \in PdfNames \ ToUpload : Taken(n)

Once == \A n \in Names : Handed(n) <= 1
\* A failure is of what was handed over, and knows how each PDF was taken.
FailureIsKnown ==
    pc \in {"handle", "preserve"} /\ outcome # "cancelled" =>
        /\ outcome \in Failing /\ art.stage # "DELIVERED"
        /\ \A n \in Names : Handed(n) > 0 =>
              art.accepted[n] # "no" /\ n \in PdfNames /\ art.stage = "DELIVERING"
FailureIsTold ==
    pc = "leave" /\ outcome \in Failing /\ failed # {} =>
        \A n \in Names : Handed(n) > 0 => n \in warned
HandInv ==
    /\ TypeOK /\ Numbered /\ CallIsOfLeg /\ NothingHanded /\ LegsAreAhead /\ Once
    /\ FailureIsKnown /\ FailureIsTold /\ ErrorIsTrue
(* Types. *)

\* The sequences of the model, by what they hold.
LEMMA InitTypes == Init => TypeOK
<1> SUFFICES ASSUME Init PROVE TypeOK
  OBVIOUS
<1> USE DeliveryAssumption DEF Init, ClientInit
<1>1. AcquisitionTypeOK
  BY DEF AcquisitionTypeOK, Places, Before, Acquiring
<1>2. ArtTypeOK
  BY DEF ArtTypeOK, Artefacts, NoArtefacts, Stages, Takings, DocumentLegs
<1>3. EndingTypeOK
  BY DEF EndingTypeOK, Outcomes
<1>4. KeepTypeOK
  BY DEF KeepTypeOK, Idle
<1>5. WorkspaceTypeOK
  BY FS_EmptySet DEF WorkspaceTypeOK
<1>6. ClientTypeOK
  BY DEF ClientTypeOK, Call, NoCall
<1>7. PassesInFlight
  BY DEF PassesInFlight
<1> QED
  BY <1>1, <1>2, <1>3, <1>4, <1>5, <1>6, <1>7 DEF TypeOK

\* A part whose variables a step leaves alone keeps its type.
LEMMA TypesStay ==
    ASSUME TypeOK
    PROVE  /\ UNCHANGED <<kind, pc, acquisition>> => AcquisitionTypeOK' /\ PassesInFlight'
           /\ UNCHANGED <<art, legs>> => ArtTypeOK'
           /\ UNCHANGED ending => EndingTypeOK'
           /\ UNCHANGED keeping => KeepTypeOK'
           /\ UNCHANGED <<spool, workspace, owed>> => WorkspaceTypeOK'
           /\ UNCHANGED clientVars => ClientTypeOK'
  BY DEF TypeOK, AcquisitionTypeOK, PassesInFlight, ArtTypeOK, EndingTypeOK, KeepTypeOK, WorkspaceTypeOK,
         ClientTypeOK, acquisition, ending, keeping, workspace, clientVars, server

\* The fields of art one by one.
LEMMA ArtFields ==
    ASSUME NEW a \in Artefacts, NEW stage \in Stages, NEW document \in Seq(Page),
           NEW passes \in Seq(RunPass), NEW pdfs \in Seq(Pdf), NEW n \in Nat
    PROVE  /\ [a EXCEPT !.stage = stage] \in Artefacts
           /\ [a EXCEPT !.unreadable = n] \in Artefacts
           /\ [a EXCEPT !.passes = passes] \in Artefacts
           /\ [a EXCEPT !.stage = stage, !.document = document] \in Artefacts
           /\ [a EXCEPT !.stage = stage, !.pdfs = pdfs] \in Artefacts
           /\ [a EXCEPT !.document = document, !.unreadable = n] \in Artefacts
  BY DEF Artefacts

\* How a PDF was taken.
LEMMA ArtAccepted ==
    ASSUME art \in Artefacts, NEW n \in Names, NEW how \in Takings
    PROVE  [art EXCEPT !.accepted[n] = how] \in Artefacts
  BY DEF Artefacts

\* A call that was broken off.
LEMMA BrokenTypes == TypeOK /\ CallBroken => ClientTypeOK'
<1>1. NoCall \in Call
  BY DEF NoCall, Call
<1> QED
  BY <1>1 DEF TypeOK, ClientTypeOK, CallBroken, server

-----------------------------------------------------------------------------
(* The sequences of pages. *)

\* Reverse, of SequencesExt, as its readers take it.
LEMMA ReversedSeq ==
    ASSUME NEW S, NEW pages \in Seq(S)
    PROVE  /\ Reverse(pages) \in Seq(S) /\ Len(Reverse(pages)) = Len(pages)
           /\ \A i \in 1..Len(pages) : Reverse(pages)[i] = pages[Len(pages) + 1 - i]
           /\ Range(Reverse(pages)) = Range(pages)
<1>1. Len(pages) \in Nat /\ DOMAIN pages = 1..Len(pages)
  BY LenProperties
<1>2. Reverse(pages) \in [1..Len(pages) -> S]
  BY <1>1 DEF Reverse
<1>3. Reverse(pages) \in Seq(S) /\ Len(Reverse(pages)) = Len(pages)
  BY <1>1, <1>2
<1>4. \A i \in 1..Len(pages) : Reverse(pages)[i] = pages[Len(pages) + 1 - i]
  BY <1>1 DEF Reverse
<1>5. Range(Reverse(pages)) \subseteq Range(pages)
  BY <1>1, <1>2, <1>4 DEF Range
<1>6. ASSUME NEW x \in Range(pages) PROVE x \in Range(Reverse(pages))
  <2>1. PICK i \in 1..Len(pages) : pages[i] = x
    BY <1>1 DEF Range
  <2>2. Len(pages) + 1 - i \in 1..Len(pages)
    BY <1>1
  <2>3. Reverse(pages)[Len(pages) + 1 - i] = x
    BY <1>1, <1>4, <2>1, <2>2
  <2> QED
    BY <1>2, <2>2, <2>3 DEF Range
<1> QED
  BY <1>3, <1>4, <1>5, <1>6

\* Fronts in the odd places, the backs from the last in the even ones.
LEMMA InterleavedPages ==
    ASSUME NEW fronts \in Seq(Page), NEW backs \in Seq(Page), Len(fronts) = Len(backs)
    PROVE  LET all == InterleaveDuplex(fronts, backs)
           IN  /\ all \in Seq(Page) /\ Len(all) = 2 * Len(fronts)
               /\ \A k \in 1..Len(fronts) :
                     all[2 * k - 1] = fronts[k] /\ all[2 * k] = backs[Len(backs) + 1 - k]
               /\ Range(all) = Range(fronts) \cup Range(backs)
<1> DEFINE all == InterleaveDuplex(fronts, backs)
           n == Len(fronts)
<1>1. n \in Nat /\ DOMAIN fronts = 1..n /\ DOMAIN backs = 1..n
  BY LenProperties
<1>2. Reverse(backs) \in Seq(Page) /\ Len(Reverse(backs)) = n
  BY ReversedSeq
<1>3. ASSUME NEW k \in 1..(2 * n)
      PROVE  (IF k % 2 = 1 THEN fronts[(k + 1) \div 2] ELSE Reverse(backs)[k \div 2]) \in Page
  <2>1. CASE k % 2 = 1
    <3>1. (k + 1) \div 2 \in 1..n
      BY <1>1, <2>1
    <3> QED
      BY <1>1, <2>1, <3>1
  <2>2. CASE k % 2 # 1
    <3>1. k \div 2 \in 1..n
      BY <1>1, <2>2
    <3> QED
      BY <1>1, <1>2, <2>2, <3>1
  <2> QED
    BY <2>1, <2>2
<1>4. all \in [1..(2 * n) -> Page]
  BY <1>1, <1>3 DEF InterleaveDuplex
<1>5. all \in Seq(Page) /\ Len(all) = 2 * n
  <2> HIDE DEF all
  <2>1. 2 * n \in Nat
    BY <1>1
  <2> QED
    BY <1>4, <2>1
<1>6. ASSUME NEW k \in 1..n
      PROVE  all[2 * k - 1] = fronts[k] /\ all[2 * k] = backs[Len(backs) + 1 - k]
  <2>1. /\ 2 * k - 1 \in 1..(2 * n) /\ 2 * k \in 1..(2 * n)
        /\ (2 * k - 1) % 2 = 1 /\ (2 * k) % 2 = 0
        /\ (2 * k - 1 + 1) \div 2 = k /\ (2 * k) \div 2 = k
    BY <1>1
  <2>2. all[2 * k - 1] = fronts[k] /\ all[2 * k] = Reverse(backs)[k]
    BY <2>1 DEF InterleaveDuplex
  <2> QED
    BY <1>1, <2>2, ReversedSeq
<1>7. ASSUME NEW x \in Range(all) PROVE x \in Range(fronts) \cup Range(backs)
  <2>1. PICK k \in 1..(2 * n) : all[k] = x
    BY <1>4 DEF Range
  <2>2. CASE k % 2 = 1
    <3>1. (k + 1) \div 2 \in 1..n
      BY <1>1, <2>2
    <3>2. x = fronts[(k + 1) \div 2]
      BY <2>1, <2>2 DEF InterleaveDuplex
    <3> QED
      BY <1>1, <3>1, <3>2 DEF Range
  <2>3. CASE k % 2 # 1
    <3>1. k \div 2 \in 1..n
      BY <1>1, <2>3
    <3>2. x = Reverse(backs)[k \div 2]
      BY <2>1, <2>3 DEF InterleaveDuplex
    <3>3. x \in Range(Reverse(backs))
      BY <1>2, <3>1, <3>2 DEF Range
    <3> QED
      BY <3>3, ReversedSeq
  <2> QED
    BY <2>2, <2>3
<1>8. ASSUME NEW x \in Range(fronts) PROVE x \in Range(all)
  <2>1. PICK k \in 1..n : fronts[k] = x
    BY <1>1 DEF Range
  <2>2. 2 * k - 1 \in 1..(2 * n)
    BY <1>1
  <2> QED
    BY <1>4, <1>6, <2>1, <2>2 DEF Range
<1>9. ASSUME NEW x \in Range(backs) PROVE x \in Range(all)
  <2>1. PICK k \in 1..n : backs[k] = x
    BY <1>1 DEF Range
  <2>2. n + 1 - k \in 1..n /\ 2 * (n + 1 - k) \in 1..(2 * n) /\ n + 1 - (n + 1 - k) = k
    BY <1>1
  <2>3. all[2 * (n + 1 - k)] = x
    BY <1>6, <2>1, <2>2
  <2> QED
    BY <1>4, <2>2, <2>3 DEF Range
<1> QED
  BY <1>5, <1>6, <1>7, <1>8, <1>9

\* The stack, as it is fed and as it is fed flipped.
LEMMA StackIs ==
    ASSUME kind \in Kinds
    PROVE  /\ Sheets[kind] \in Nat /\ Stack \in Seq(Nat) /\ Len(Stack) = Sheets[kind]
           /\ \A i \in 1..Sheets[kind] : Stack[i] = i
           /\ Reverse(Stack) \in Seq(Nat) /\ Len(Reverse(Stack)) = Sheets[kind]
           /\ \A i \in 1..Sheets[kind] : Reverse(Stack)[i] = Sheets[kind] + 1 - i
<1>1. Sheets[kind] \in Nat
  BY DeliveryAssumption
<1>2. Stack \in [1..Sheets[kind] -> Nat] /\ \A i \in 1..Sheets[kind] : Stack[i] = i
  BY <1>1 DEF Stack
<1>3. Stack \in Seq(Nat) /\ Len(Stack) = Sheets[kind]
  BY <1>1, <1>2
<1>4. /\ Reverse(Stack) \in Seq(Nat) /\ Len(Reverse(Stack)) = Sheets[kind]
      /\ \A i \in 1..Sheets[kind] : Reverse(Stack)[i] = Stack[Sheets[kind] + 1 - i]
  BY <1>3, ReversedSeq
<1>5. \A i \in 1..Sheets[kind] : Stack[Sheets[kind] + 1 - i] = Sheets[kind] + 1 - i
  BY <1>1, <1>2
<1> QED
  BY <1>1, <1>2, <1>3, <1>4, <1>5

\* A pass over the stack begins.
LEMMA OpenTypes == TypeOK /\ OpenWorkspace => TypeOK'
<1> SUFFICES ASSUME TypeOK, OpenWorkspace PROVE TypeOK'
  OBVIOUS
<1> USE DEF OpenWorkspace, Goto
<1>1. ArtTypeOK' /\ EndingTypeOK' /\ KeepTypeOK' /\ ClientTypeOK'
  BY TypesStay
<1>2. AcquisitionTypeOK' /\ PassesInFlight'
  <2>1. Stack \in Seq(Nat)
    BY StackIs DEF TypeOK, AcquisitionTypeOK
  <2>2. \A s \in PassNames : <<Pass(s)>> \in Seq(OpenPass) /\ Len(<<Pass(s)>>) = 1
    BY DEF Pass, OpenPass
  <2>3. ledger' \in Seq(OpenPass) /\ Len(ledger') = 1 /\ round' = 1 /\ pc' = "scan"
    BY <2>2 DEF PassNames
  <2>4. AcquisitionTypeOK'
    BY <2>1, <2>3 DEF TypeOK, AcquisitionTypeOK, Places, Before, Acquiring, Scanning
  <2> QED
    BY <2>3, <2>4 DEF PassesInFlight
<1>3. WorkspaceTypeOK'
  BY DEF TypeOK, WorkspaceTypeOK, workspace
<1> QED
  BY <1>1, <1>2, <1>3 DEF TypeOK

\* The pass being scanned, and what a change of it makes of the ledger.
LEMMA CurrentPass ==
    ASSUME TypeOK, pc = "scan"
    PROVE  /\ Current \in 1..Len(ledger) /\ ledger[Current] \in OpenPass
           /\ \A pass \in OpenPass :
                 /\ [ledger EXCEPT ![Current] = pass] \in Seq(OpenPass)
                 /\ Len([ledger EXCEPT ![Current] = pass]) = Len(ledger)
<1>1. ledger \in Seq(OpenPass) /\ ledger # <<>>
  BY DEF TypeOK, AcquisitionTypeOK, PassesInFlight
<1>2. Current \in 1..Len(ledger)
  BY <1>1, EmptySeq DEF Current
<1> QED
  BY <1>1, <1>2, ExceptSeq

\* A step of a pass: a page, or a sheet missed or unreadable.
LEMMA FeedTypes ==
    ASSUME TypeOK, pc = "scan", UNCHANGED <<kind, pc, round>>, next' \in Seq(Nat),
           misfeeds' \in Nat,
           \/ ledger' = ledger
           \/ \E pass \in OpenPass : ledger' = [ledger EXCEPT ![Current] = pass]
    PROVE  AcquisitionTypeOK' /\ PassesInFlight'
<1>1. ledger' \in Seq(OpenPass) /\ Len(ledger') = Len(ledger)
  <2>1. CASE ledger' = ledger
    BY <2>1 DEF TypeOK, AcquisitionTypeOK
  <2>2. ASSUME NEW pass \in OpenPass, ledger' = [ledger EXCEPT ![Current] = pass]
        PROVE  ledger' \in Seq(OpenPass) /\ Len(ledger') = Len(ledger)
    BY <2>2, CurrentPass, Zenon
  <2> QED
    BY <2>1, <2>2
<1>2. AcquisitionTypeOK'
  BY <1>1 DEF TypeOK, AcquisitionTypeOK
<1> QED
  BY <1>1, <1>2, EmptySeq DEF TypeOK, PassesInFlight

\* A page is fed.
LEMMA SpoolTypes == TypeOK /\ SpoolPage => TypeOK'
<1> SUFFICES ASSUME TypeOK, SpoolPage PROVE TypeOK'
  OBVIOUS
<1> USE DEF SpoolPage, Feed
<1>1. ArtTypeOK' /\ EndingTypeOK' /\ KeepTypeOK' /\ ClientTypeOK'
  BY TypesStay DEF keeping
<1>2. next \in Seq(Nat) /\ next # <<>> /\ round \in Nat /\ misfeeds' \in Nat
  BY DEF TypeOK, AcquisitionTypeOK
<1>3. Current \in 1..Len(ledger) /\ ledger[Current] \in OpenPass
  BY CurrentPass
<1>n. Head(next) \in Nat /\ Tail(next) \in Seq(Nat)
  BY <1>2
<1>p. ledger[Current].pages \in Seq(Page)
  BY <1>3 DEF OpenPass
<1>4. NewPage \in Page
  BY <1>2, <1>n, <1>p DEF NewPage, Page
<1> DEFINE pass == [ledger[Current] EXCEPT !.pages = Append(@, NewPage)]
<1>a. Append(ledger[Current].pages, NewPage) \in Seq(Page)
  BY <1>p, <1>4, AppendProperties
<1>5. pass \in OpenPass
  BY <1>3, <1>a DEF OpenPass
<1>6. ledger' = [ledger EXCEPT ![Current] = pass]
  OBVIOUS
<1>7. AcquisitionTypeOK' /\ PassesInFlight'
  BY <1>2, <1>n, <1>5, <1>6, FeedTypes
<1>8. WorkspaceTypeOK'
  <2>1. IsFiniteSet(spool \cup {NewPage})
    BY FS_AddElement DEF TypeOK, WorkspaceTypeOK
  <2> QED
    BY <1>4, <2>1 DEF TypeOK, WorkspaceTypeOK, workspace
<1> QED
  BY <1>1, <1>7, <1>8 DEF TypeOK

\* A sheet is missed, or cannot be read.
LEMMA MissTypes == TypeOK /\ (SheetMissed \/ SheetUnreadable) => TypeOK'
<1> SUFFICES ASSUME TypeOK, SheetMissed \/ SheetUnreadable PROVE TypeOK'
  OBVIOUS
<1> USE DEF SheetMissed, SheetUnreadable
<1>1. ArtTypeOK' /\ EndingTypeOK' /\ KeepTypeOK' /\ ClientTypeOK' /\ WorkspaceTypeOK'
  BY TypesStay DEF keeping
<1>2. next \in Seq(Nat) /\ next # <<>> /\ misfeeds \in Nat
  BY DEF TypeOK, AcquisitionTypeOK
<1>3. Tail(next) \in Seq(Nat) /\ misfeeds' \in Nat
  BY <1>2
<1>4. ledger[Current] \in OpenPass
  BY CurrentPass
<1> DEFINE pass == [ledger[Current] EXCEPT !.lost = @ + 1]
<1>5. pass \in OpenPass
  BY <1>4 DEF OpenPass
<1>6. ledger' = ledger \/ ledger' = [ledger EXCEPT ![Current] = pass]
  OBVIOUS
<1>7. AcquisitionTypeOK' /\ PassesInFlight'
  BY <1>3, <1>5, <1>6, FeedTypes
<1> QED
  BY <1>1, <1>7 DEF TypeOK
-----------------------------------------------------------------------------
(* The end of a pass, and what is decided on it. *)

\* The ways an acquisition comes to its end, or goes on.
LEMMA EndsTypes ==
    ASSUME TypeOK, NEW how \in Outcomes, EndsAs(how), UNCHANGED <<kind, round, misfeeds, ledger>>,
           next' \in Seq(Nat)
    PROVE  AcquisitionTypeOK' /\ EndingTypeOK' /\ PassesInFlight'
<1>1. pc' = "handle" /\ outcome' \in Outcomes /\ UNCHANGED <<settled, halves>>
  BY DEF EndsAs
<1>2. AcquisitionTypeOK'
  BY <1>1 DEF TypeOK, AcquisitionTypeOK, Places
<1>3. EndingTypeOK'
  BY <1>1 DEF TypeOK, EndingTypeOK
<1> QED
  BY <1>1, <1>2, <1>3 DEF TypeOK, PassesInFlight

\* The count of unreadable sheets, once a pass returned.
LEMMA CountingTypes ==
    ASSUME TypeOK, NEW i \in 1..Len(ledger)
    PROVE  /\ ledger[i] \in OpenPass /\ ledger[i].pages \in Seq(Page) /\ ledger[i].lost \in Nat
           /\ Counting(art, i) \in Artefacts
<1>1. ledger[i] \in OpenPass
  BY DEF TypeOK, AcquisitionTypeOK
<1>2. ledger[i].pages \in Seq(Page) /\ ledger[i].lost \in Nat
  BY <1>1 DEF OpenPass
<1>3. art \in Artefacts /\ art.unreadable \in Nat
  BY DEF TypeOK, ArtTypeOK, Artefacts
<1>4. art.unreadable + ledger[i].lost \in Nat
  BY <1>2, <1>3
<1>5. [art EXCEPT !.unreadable = art.unreadable + ledger[i].lost] \in Artefacts
  BY <1>3, <1>4 DEF Artefacts
<1> QED
  BY <1>1, <1>2, <1>5 DEF Counting

\* Artefacts at the stages of a run.
LEMMA StageTypes ==
    ASSUME NEW a \in Artefacts, NEW document \in Seq(Page)
    PROVE  /\ [a EXCEPT !.stage = "FILTERING", !.document = document] \in Artefacts
           /\ [a EXCEPT !.stage = "ASSEMBLING"] \in Artefacts
           /\ [a EXCEPT !.stage = "DELIVERED"] \in Artefacts
  BY DEF Artefacts, Stages

\* The end of the first pass, and of the backs.
LEMMA PassEndTypes == TypeOK /\ (FirstPassEnds \/ BacksPassEnds) => TypeOK'
<1> SUFFICES ASSUME TypeOK, FirstPassEnds \/ BacksPassEnds PROVE TypeOK'
  OBVIOUS
<1>1. KeepTypeOK' /\ WorkspaceTypeOK' /\ ClientTypeOK'
  BY TypesStay DEF FirstPassEnds, BacksPassEnds
<1>2. /\ pc = "scan" /\ next' = <<>> /\ next' \in Seq(Nat) /\ legs' = legs
      /\ UNCHANGED <<kind, round, misfeeds, ledger>>
  <2>1. CASE FirstPassEnds
    BY <2>1, EmptySeq DEF FirstPassEnds
  <2>2. CASE BacksPassEnds
    BY <2>2, EmptySeq DEF BacksPassEnds
  <2> QED
    BY <2>1, <2>2
<1>3. ledger \in Seq(OpenPass) /\ Current \in 1..Len(ledger) /\ art \in Artefacts
  BY <1>2, CurrentPass DEF TypeOK, AcquisitionTypeOK, ArtTypeOK
<1>4. CASE FirstPassEnds
  <2>1. Current = 1 /\ ledger[1].pages \in Seq(Page) /\ Counting(art, 1) \in Artefacts
    BY <1>3, <1>4, CountingTypes DEF FirstPassEnds
  <2>2. PICK counted \in {art, Counting(art, 1)} :
          \/ EndsAs("failed") /\ art' = counted
          \/ pc' = "flip" /\ kind = "duplex" /\ art' = counted /\ KeepEnding
          \/ /\ art' = [counted EXCEPT !.stage = "FILTERING", !.document = ledger[1].pages]
             /\ pc' = "filter" /\ KeepEnding
    BY <1>4 DEF FirstPassEnds
  <2>3. art' \in Artefacts
    <3>1. counted \in Artefacts
      BY <1>3, <2>1
    <3>2. [counted EXCEPT !.stage = "FILTERING", !.document = ledger[1].pages] \in Artefacts
      BY <2>1, <3>1, StageTypes
    <3> QED
      BY <2>2, <3>1, <3>2
  <2>4. ArtTypeOK'
    BY <1>2, <2>3 DEF TypeOK, ArtTypeOK
  <2>5. AcquisitionTypeOK' /\ EndingTypeOK' /\ PassesInFlight'
    <3>1. CASE EndsAs("failed")
      BY <1>2, <3>1, EndsTypes DEF Outcomes, Failing
    <3>2. CASE pc' \in {"flip", "filter"} /\ KeepEnding /\ (pc' = "flip" => kind = "duplex")
      <4>1. AcquisitionTypeOK' /\ EndingTypeOK'
        BY <1>2, <3>2, TypesStay DEF TypeOK, AcquisitionTypeOK, KeepEnding, Places, Before,
           Acquiring, Scanning
      <4> QED
        BY <1>2, <2>1, <3>2, <4>1 DEF TypeOK, PassesInFlight, Current
    <3> QED
      BY <2>2, <3>1, <3>2
  <2> QED
    BY <1>1, <2>4, <2>5 DEF TypeOK
<1>5. CASE BacksPassEnds
  <2>1. /\ Current = 2 /\ Len(ledger) = 2 /\ kind = "duplex"
        /\ ledger[1].pages \in Seq(Page) /\ ledger[2].pages \in Seq(Page)
        /\ Counting(art, 2) \in Artefacts
    BY <1>3, <1>5, CountingTypes DEF BacksPassEnds, Current
  <2>2. \/ EndsAs("failed") /\ art' = Counting(art, 2)
        \/ /\ \E capped \in BOOLEAN : CanPair(capped)
           /\ art' = [art EXCEPT !.stage = "FILTERING",
                                 !.document = InterleaveDuplex(ledger[1].pages, ledger[2].pages)]
           /\ pc' = "filter" /\ KeepEnding
        \/ /\ art' = [Counting(art, 2) EXCEPT !.stage = "ASSEMBLING"]
           /\ pc' = "pair" /\ KeepEnding
    BY <1>5 DEF BacksPassEnds, ToFilter
  <2>3. art' \in Artefacts
    <3>1. CASE \E capped \in BOOLEAN : CanPair(capped)
      <4>1. InterleaveDuplex(ledger[1].pages, ledger[2].pages) \in Seq(Page)
        BY <2>1, <3>1, InterleavedPages DEF CanPair
      <4> QED
        BY <1>3, <2>1, <2>2, <4>1, StageTypes
    <3> QED
      BY <1>3, <2>1, <2>2, <3>1, StageTypes, EmptySeq
  <2>4. ArtTypeOK'
    BY <1>2, <2>3 DEF TypeOK, ArtTypeOK
  <2>5. AcquisitionTypeOK' /\ EndingTypeOK' /\ PassesInFlight'
    <3>1. CASE EndsAs("failed")
      BY <1>2, <3>1, EndsTypes DEF Outcomes, Failing
    <3>2. CASE pc' \in {"pair", "filter"} /\ KeepEnding
      <4>1. AcquisitionTypeOK' /\ EndingTypeOK'
        BY <1>2, <3>2, TypesStay DEF TypeOK, AcquisitionTypeOK, KeepEnding, Places, Before,
           Acquiring, Scanning
      <4> QED
        BY <1>2, <2>1, <3>2, <4>1 DEF TypeOK, PassesInFlight
    <3> QED
      BY <2>2, <3>1, <3>2
  <2> QED
    BY <1>1, <2>4, <2>5 DEF TypeOK
<1> QED
  BY <1>4, <1>5

\* The flip, and the passes of a multi-page document.
LEMMA DecideTypes ==
    TypeOK /\ (FlipAnswered \/ MultiPassEnds \/ AcceptPass \/ DiscardPass \/ NextPass
               \/ FinishPasses) => TypeOK'
<1> SUFFICES ASSUME TypeOK,
                    \/ FlipAnswered \/ MultiPassEnds \/ AcceptPass \/ DiscardPass \/ NextPass
                    \/ FinishPasses
             PROVE  TypeOK'
  OBVIOUS
<1> USE DEF Goto
<1>1. KeepTypeOK' /\ ClientTypeOK'
  BY TypesStay DEF FlipAnswered, MultiPassEnds, AcceptPass, DiscardPass, NextPass,
     FinishPasses, keeping
<1>2. /\ kind \in Kinds /\ next \in Seq(Nat) /\ ledger \in Seq(OpenPass) /\ round \in Nat
      /\ misfeeds \in Nat /\ art \in Artefacts
  BY DEF TypeOK, AcquisitionTypeOK, ArtTypeOK
<1>3. Stack \in Seq(Nat) /\ Reverse(Stack) \in Seq(Nat)
  BY <1>2, StackIs
<1>4. \A s \in PassNames : Pass(s) \in OpenPass
  BY DEF Pass, OpenPass
<1>5. CASE FlipAnswered
  <2>1. ArtTypeOK' /\ WorkspaceTypeOK'
    BY <1>5, TypesStay DEF FlipAnswered
  <2>2. CASE EndsAs("cancelled") \/ EndsAs("failed")
    <3>1. UNCHANGED <<kind, round, misfeeds, ledger, next>>
      BY <1>5, <2>2 DEF FlipAnswered, EndsAs
    <3>2. AcquisitionTypeOK' /\ EndingTypeOK' /\ PassesInFlight'
      BY <1>2, <2>2, <3>1, EndsTypes DEF Outcomes, Failing
    <3> QED
      BY <1>1, <2>1, <3>2 DEF TypeOK
  <2>3. CASE /\ pc' = "scan" /\ ledger' = Append(ledger, Pass(Backs)) /\ next' = Reverse(Stack)
             /\ round' = 2 /\ KeepEnding
    <3>1. Len(ledger) = 1 /\ kind = "duplex" /\ kind' = kind /\ misfeeds' = misfeeds
      BY <1>5 DEF TypeOK, PassesInFlight, FlipAnswered
    <3>2. ledger' \in Seq(OpenPass) /\ Len(ledger') = 2
      <4>1. Pass(Backs) \in OpenPass
        BY <1>4 DEF PassNames
      <4>2. /\ Append(ledger, Pass(Backs)) \in Seq(OpenPass)
            /\ Len(Append(ledger, Pass(Backs))) = Len(ledger) + 1
        BY <1>2, <4>1, AppendProperties
      <4> QED
        BY <2>3, <3>1, <4>2
    <3>3. AcquisitionTypeOK'
      BY <1>2, <1>3, <2>3, <3>1, <3>2 DEF AcquisitionTypeOK, Places, Before, Acquiring, Scanning
    <3>4. PassesInFlight' /\ EndingTypeOK'
      BY <2>3, <3>1, <3>2, TypesStay DEF PassesInFlight, KeepEnding
    <3> QED
      BY <1>1, <2>1, <3>3, <3>4 DEF TypeOK
  <2> QED
    BY <1>5, <2>2, <2>3 DEF FlipAnswered
<1>6. CASE MultiPassEnds
  <2>1. ArtTypeOK' /\ WorkspaceTypeOK' /\ EndingTypeOK'
    BY <1>6, TypesStay DEF MultiPassEnds
  <2>2. AcquisitionTypeOK' /\ PassesInFlight'
    BY <1>6 DEF MultiPassEnds, TypeOK, AcquisitionTypeOK, PassesInFlight, acquisition, Places,
       Before, Acquiring, Scanning
  <2> QED
    BY <1>1, <2>1, <2>2 DEF TypeOK
<1>7. CASE AcceptPass
  <2>1. WorkspaceTypeOK' /\ EndingTypeOK'
    BY <1>7, TypesStay DEF AcceptPass
  <2>2. Len(ledger) = 1 /\ kind = "multi"
    BY <1>7 DEF AcceptPass, TypeOK, PassesInFlight
  <2>3. ledger[1].pages \in Seq(Page) /\ ledger[1].lost \in Nat
    BY <2>2, CountingTypes
  <2>4. art.document \in Seq(Page) /\ art.unreadable \in Nat
    BY <1>2 DEF Artefacts
  <2>5. art.document \o ledger[1].pages \in Seq(Page) /\ art.unreadable + ledger[1].lost \in Nat
    BY <2>3, <2>4, ConcatProperties
  <2>6. art' \in Artefacts
    <3> DEFINE d == art.document \o ledger[1].pages
               u == art.unreadable + ledger[1].lost
    <3>1. art' = [art EXCEPT !.document = d, !.unreadable = u]
      BY <1>7 DEF AcceptPass
    <3> HIDE DEF d, u
    <3> QED
      BY <1>2, <2>5, <3>1 DEF Artefacts, d, u
  <2>7. ArtTypeOK'
    BY <1>7, <2>6 DEF AcceptPass, TypeOK, ArtTypeOK
  <2>8. AcquisitionTypeOK' /\ PassesInFlight'
    BY <1>7, <2>2, EmptySeq DEF AcceptPass, TypeOK, AcquisitionTypeOK, PassesInFlight, Places,
       Before, Acquiring
  <2> QED
    BY <1>1, <2>1, <2>7, <2>8 DEF TypeOK
<1>8. CASE DiscardPass
  <2>1. ArtTypeOK' /\ EndingTypeOK'
    BY <1>8, TypesStay DEF DiscardPass
  <2>2. AcquisitionTypeOK' /\ PassesInFlight'
    BY <1>8, EmptySeq DEF DiscardPass, TypeOK, AcquisitionTypeOK, PassesInFlight, Places,
       Before, Acquiring
  <2>3. WorkspaceTypeOK'
    <3>1. IsFiniteSet(spool') /\ spool' \in SUBSET Page /\ owed' \in SUBSET Page
      BY <1>8, FS_Subset DEF DiscardPass, TypeOK, WorkspaceTypeOK
    <3> QED
      BY <1>8, <3>1 DEF DiscardPass, TypeOK, WorkspaceTypeOK, workspace
  <2> QED
    BY <1>1, <2>1, <2>2, <2>3 DEF TypeOK
<1>9. CASE NextPass
  <2>1. ArtTypeOK' /\ WorkspaceTypeOK' /\ EndingTypeOK'
    BY <1>9, TypesStay DEF NextPass
  <2>2. ledger' \in Seq(OpenPass) /\ Len(ledger') = 1
    BY <1>4, <1>9 DEF NextPass, PassNames
  <2>3. AcquisitionTypeOK'
    BY <1>2, <1>3, <1>9, <2>2 DEF NextPass, AcquisitionTypeOK, Places, Before, Acquiring, Scanning
  <2>4. PassesInFlight'
    BY <1>9, <2>2 DEF NextPass, PassesInFlight
  <2> QED
    BY <1>1, <2>1, <2>3, <2>4 DEF TypeOK
<1>10. CASE FinishPasses
  <2>1. WorkspaceTypeOK'
    BY <1>10, TypesStay DEF FinishPasses
  <2>2. CASE EndsAs("cancelled") /\ UNCHANGED art
    <3>1. UNCHANGED <<kind, round, misfeeds, ledger, next, legs>>
      BY <1>10 DEF FinishPasses, acquisition
    <3>2. AcquisitionTypeOK' /\ EndingTypeOK' /\ PassesInFlight'
      BY <1>2, <2>2, <3>1, EndsTypes DEF Outcomes
    <3>3. ArtTypeOK'
      BY <2>2, <3>1, TypesStay
    <3> QED
      BY <1>1, <2>1, <3>2, <3>3 DEF TypeOK
  <2>3. CASE ToFilter(art.document) /\ KeepEnding
    <3>1. UNCHANGED <<kind, round, misfeeds, ledger, next, legs>> /\ pc' = "filter"
      BY <1>10, <2>3 DEF FinishPasses, acquisition, ToFilter
    <3>2. art.document \in Seq(Page)
      BY <1>2 DEF Artefacts
    <3>3. art' \in Artefacts
      BY <1>2, <2>3, <3>2, StageTypes DEF ToFilter
    <3>4. ArtTypeOK' /\ EndingTypeOK'
      BY <2>3, <3>1, <3>3, TypesStay DEF TypeOK, ArtTypeOK, KeepEnding
    <3>5. AcquisitionTypeOK' /\ PassesInFlight'
      BY <3>1 DEF TypeOK, AcquisitionTypeOK, PassesInFlight, Places, Before
    <3> QED
      BY <1>1, <2>1, <3>4, <3>5 DEF TypeOK
  <2> QED
    BY <1>10, <2>2, <2>3 DEF FinishPasses
<1> QED
  BY <1>5, <1>6, <1>7, <1>8, <1>9, <1>10
-----------------------------------------------------------------------------
(* The delivery. *)

\* Everything but the stage and the PDFs of a delivery that begins.
LEMMA DeliverTypes ==
    ASSUME TypeOK, UNCHANGED <<kind, acquisition>>, NEW pdfs \in Seq(Pdf),
           NEW steps \in DocumentLegs \cup HalvesLegs, Deliver(pdfs, steps)
    PROVE  AcquisitionTypeOK' /\ ArtTypeOK' /\ EndingTypeOK' /\ PassesInFlight'
<1>1. /\ art' = [art EXCEPT !.stage = "DELIVERING", !.pdfs = pdfs]
      /\ legs' = steps /\ pc' = "deliver" /\ UNCHANGED ending
  BY DEF Deliver, KeepEnding
<1>2. art' \in Artefacts
  BY <1>1 DEF TypeOK, ArtTypeOK, Artefacts, Stages
<1>3. ArtTypeOK' /\ EndingTypeOK'
  BY <1>1, <1>2, TypesStay DEF ArtTypeOK
<1>4. AcquisitionTypeOK' /\ PassesInFlight'
  BY <1>1 DEF TypeOK, AcquisitionTypeOK, PassesInFlight, Places, acquisition
<1> QED
  BY <1>3, <1>4

\* A PDF that was assembled.
LEMMA AssembledType ==
    ASSUME NEW n \in {"document", "fronts", "backs"}, NEW pages \in Seq(Page)
    PROVE  Assembled(n, pages) \in Pdf
  BY DeliveryAssumption DEF Assembled, Item, Pdf

\* From the document, or the two halves, to what is uploaded.
LEMMA FinishTypes == TypeOK /\ (FinishDocument \/ FinishMismatch) => TypeOK'
<1> SUFFICES ASSUME TypeOK, FinishDocument \/ FinishMismatch PROVE TypeOK'
  OBVIOUS
<1>1. KeepTypeOK' /\ ClientTypeOK' /\ UNCHANGED <<kind, acquisition>>
  BY TypesStay DEF FinishDocument, FinishMismatch
<1>2. art \in Artefacts /\ ledger \in Seq(OpenPass) /\ next \in Seq(Nat)
  BY DEF TypeOK, ArtTypeOK, AcquisitionTypeOK
<1>3. ASSUME NEW how \in Outcomes, EndsAs(how), legs' = legs, owed' = owed,
             UNCHANGED <<spool, workspace>>,
             art' = art \/ art' = [art EXCEPT !.stage = "ASSEMBLING"]
      PROVE  TypeOK'
  <2>1. AcquisitionTypeOK' /\ EndingTypeOK' /\ PassesInFlight'
    BY <1>1, <1>2, <1>3, EndsTypes DEF acquisition
  <2>2. ArtTypeOK'
    BY <1>2, <1>3, StageTypes, EmptySeq DEF TypeOK, ArtTypeOK
  <2>3. WorkspaceTypeOK'
    BY <1>3, TypesStay
  <2> QED
    BY <1>1, <2>1, <2>2, <2>3 DEF TypeOK
<1>4. CASE FinishDocument
  <2>1. UNCHANGED <<spool, workspace>>
    BY <1>4 DEF FinishDocument
  <2>2. PICK left \in Leaving(art.document) :
          \/ EndsAs("blank") /\ UNCHANGED <<art, legs, owed>>
          \/ /\ left # <<>> /\ owed' = owed \ (Range(art.document) \ Range(left))
             /\ Deliver(<<Assembled("document", left)>>,
                        <<Leg("upload", "document"), Leg("poll", "document")>>)
          \/ /\ EndsAs("failed") /\ art' = [art EXCEPT !.stage = "ASSEMBLING"]
             /\ UNCHANGED <<legs, owed>>
    BY <1>4 DEF FinishDocument
  <2>3. CASE EndsAs("blank") /\ UNCHANGED <<art, legs, owed>>
    BY <1>3, <2>1, <2>3 DEF Outcomes, Failing
  <2>4. CASE /\ EndsAs("failed") /\ art' = [art EXCEPT !.stage = "ASSEMBLING"]
             /\ UNCHANGED <<legs, owed>>
    BY <1>3, <2>1, <2>4 DEF Outcomes, Failing
  <2>5. CASE /\ left # <<>> /\ owed' = owed \ (Range(art.document) \ Range(left))
             /\ Deliver(<<Assembled("document", left)>>,
                        <<Leg("upload", "document"), Leg("poll", "document")>>)
    <3>1. left \in Seq(Page)
      <4>1. art.document \in Seq(Page)
        BY <1>2 DEF Artefacts
      <4>2. PICK places \in Selections(Len(art.document)) :
               left = [i \in DOMAIN places |-> art.document[places[i]]]
        BY <2>2 DEF Leaving
      <4>3. Len(art.document) \in Nat /\ DOMAIN art.document = 1..Len(art.document)
        BY <4>1
      <4>4. PICK n \in 0..Len(art.document) : places \in [1..n -> 1..Len(art.document)]
        BY <4>2 DEF Selections
      <4>5. n \in Nat /\ DOMAIN places = 1..n
        BY <4>3, <4>4
      <4>6. \A i \in 1..n : art.document[places[i]] \in Page
        BY <4>1, <4>3, <4>4
      <4>7. left = [i \in 1..n |-> art.document[places[i]]]
        BY <4>2, <4>5
      <4> QED
        BY <4>5, <4>6, <4>7
    <3>2. <<Assembled("document", left)>> \in Seq(Pdf)
      BY <3>1, AssembledType
    <3>3. AcquisitionTypeOK' /\ ArtTypeOK' /\ EndingTypeOK' /\ PassesInFlight'
      BY <1>1, <2>5, <3>2, DeliverTypes DEF DocumentLegs
    <3>4. WorkspaceTypeOK'
      BY <2>1, <2>5 DEF TypeOK, WorkspaceTypeOK, workspace
    <3> QED
      BY <1>1, <3>3, <3>4 DEF TypeOK
  <2> QED
    BY <2>2, <2>3, <2>4, <2>5
<1>5. CASE FinishMismatch
  <2>1. UNCHANGED <<spool, workspace, owed>> /\ Len(ledger) = 2
    BY <1>5 DEF FinishMismatch, TypeOK, PassesInFlight
  <2>2. CASE EndsAs("failed") /\ UNCHANGED <<art, legs>>
    BY <1>3, <2>1, <2>2 DEF Outcomes, Failing
  <2>3. CASE Deliver(<<Assembled("fronts", ledger[1].pages),
                       Assembled("backs", Reverse(ledger[2].pages))>>,
                     <<Leg("upload", "fronts"), Leg("upload", "backs"),
                       Leg("poll", "fronts"), Leg("poll", "backs")>>)
    <3>1. ledger[1].pages \in Seq(Page) /\ ledger[2].pages \in Seq(Page)
      BY <2>1, CountingTypes
    <3>2. Assembled("fronts", ledger[1].pages) \in Pdf /\ Assembled("backs", Reverse(ledger[2].pages)) \in Pdf
      BY <3>1, AssembledType, ReversedSeq
    <3>3. <<Assembled("fronts", ledger[1].pages), Assembled("backs", Reverse(ledger[2].pages))>> \in Seq(Pdf)
      BY <3>2
    <3>4. AcquisitionTypeOK' /\ ArtTypeOK' /\ EndingTypeOK' /\ PassesInFlight'
      BY <1>1, <2>3, <3>3, DeliverTypes DEF HalvesLegs
    <3>5. WorkspaceTypeOK'
      BY <2>1, TypesStay
    <3> QED
      BY <1>1, <3>4, <3>5 DEF TypeOK
  <2> QED
    BY <1>5, <2>2, <2>3 DEF FinishMismatch
<1> QED
  BY <1>4, <1>5
-----------------------------------------------------------------------------
(* The legs of a delivery. *)

\* A PDF's name, and whether a leg uploads it.
LEMMA LegNames ==
    /\ \A o, n, p, m : Leg(o, n) = Leg(p, m) <=> o = p /\ n = m
    /\ \A o, n : Leg(o, n).op = o /\ Leg(o, n).pdf = n
  BY DEF Leg

\* The uploads of a list of legs, from its members.
LEMMA UploadsAmong ==
    /\ UploadsOf(<<>>) = {}
    /\ \A a : UploadsOf(<<a>>) = {n \in Names : Leg("upload", n) = a}
    /\ \A a, b : UploadsOf(<<a, b>>) = {n \in Names : Leg("upload", n) \in {a, b}}
    /\ \A a, b, c : UploadsOf(<<a, b, c>>) = {n \in Names : Leg("upload", n) \in {a, b, c}}
    /\ \A a, b, c, d :
          UploadsOf(<<a, b, c, d>>) = {n \in Names : Leg("upload", n) \in {a, b, c, d}}
<1>1. UploadsOf(<<>>) = {}
  BY DEF UploadsOf
<1>2. \A a : UploadsOf(<<a>>) = {n \in Names : Leg("upload", n) = a}
  BY DEF UploadsOf
<1>3. \A a, b : UploadsOf(<<a, b>>) = {n \in Names : Leg("upload", n) \in {a, b}}
  BY DEF UploadsOf
<1>4. \A a, b, c : UploadsOf(<<a, b, c>>) = {n \in Names : Leg("upload", n) \in {a, b, c}}
  BY DEF UploadsOf
<1>5. \A a, b, c, d :
        UploadsOf(<<a, b, c, d>>) = {n \in Names : Leg("upload", n) \in {a, b, c, d}}
  BY DEF UploadsOf
<1> QED
  BY <1>1, <1>2, <1>3, <1>4, <1>5

\* What the legs of one document come to, one by one.
LEMMA DocumentLegsGo ==
    ASSUME NEW l \in DocumentLegs, l # <<>>
    PROVE  /\ Tail(l) \in DocumentLegs
           /\ \/ /\ Head(l) = Leg("upload", "document") /\ UploadsOf(l) = {"document"}
                 /\ UploadsOf(Tail(l)) = {}
              \/ Head(l) = Leg("poll", "document") /\ UploadsOf(l) = {} /\ UploadsOf(Tail(l)) = {}
<1>0. "document" \in Names
  BY DeliveryAssumption
<1>1. CASE l = <<Leg("upload", "document"), Leg("poll", "document")>>
  <2>1. Tail(l) = <<Leg("poll", "document")>> /\ Head(l) = Leg("upload", "document")
    BY <1>1
  <2>2. UploadsOf(l) = {"document"}
    BY <1>0, <1>1, UploadsAmong, LegNames
  <2>3. UploadsOf(<<Leg("poll", "document")>>) = {}
    BY UploadsAmong, LegNames
  <2> QED
    BY <2>1, <2>2, <2>3 DEF DocumentLegs
<1>2. CASE l = <<Leg("poll", "document")>>
  <2>1. Tail(l) = <<>> /\ Head(l) = Leg("poll", "document")
    BY <1>2
  <2>2. UploadsOf(l) = {} /\ UploadsOf(Tail(l)) = {}
    BY <1>2, <2>1, UploadsAmong, LegNames
  <2> QED
    BY <2>1, <2>2 DEF DocumentLegs
<1> QED
  BY <1>1, <1>2 DEF DocumentLegs

\* And those of two halves: both uploads come before both polls.
LEMMA HalvesLegsGo ==
    ASSUME NEW l \in HalvesLegs, l # <<>>
    PROVE  /\ Tail(l) \in HalvesLegs
           /\ \/ /\ Head(l) = Leg("upload", "fronts") /\ UploadsOf(l) = {"fronts", "backs"}
                 /\ UploadsOf(Tail(l)) = {"backs"}
              \/ /\ Head(l) = Leg("upload", "backs") /\ UploadsOf(l) = {"backs"}
                 /\ UploadsOf(Tail(l)) = {}
              \/ /\ Head(l) \in {Leg("poll", "fronts"), Leg("poll", "backs")}
                 /\ UploadsOf(l) = {} /\ UploadsOf(Tail(l)) = {}
<1>0. "fronts" \in Names /\ "backs" \in Names
  BY DeliveryAssumption
<1>1. CASE l = <<Leg("upload", "fronts"), Leg("upload", "backs"), Leg("poll", "fronts"), Leg("poll", "backs")>>
  <2>1. /\ Tail(l) = <<Leg("upload", "backs"), Leg("poll", "fronts"), Leg("poll", "backs")>>
        /\ Head(l) = Leg("upload", "fronts")
    BY <1>1
  <2>2. UploadsOf(l) = {"fronts", "backs"}
    BY <1>0, <1>1, UploadsAmong, LegNames
  <2>3. UploadsOf(<<Leg("upload", "backs"), Leg("poll", "fronts"), Leg("poll", "backs")>>) = {"backs"}
    BY <1>0, UploadsAmong, LegNames
  <2> QED
    BY <2>1, <2>2, <2>3 DEF HalvesLegs
<1>2. CASE l = <<Leg("upload", "backs"), Leg("poll", "fronts"), Leg("poll", "backs")>>
  <2>1. /\ Tail(l) = <<Leg("poll", "fronts"), Leg("poll", "backs")>>
        /\ Head(l) = Leg("upload", "backs")
    BY <1>2
  <2>2. UploadsOf(l) = {"backs"}
    BY <1>0, <1>2, UploadsAmong, LegNames
  <2>3. UploadsOf(<<Leg("poll", "fronts"), Leg("poll", "backs")>>) = {}
    BY UploadsAmong, LegNames
  <2> QED
    BY <2>1, <2>2, <2>3 DEF HalvesLegs
<1>3. CASE l = <<Leg("poll", "fronts"), Leg("poll", "backs")>>
  <2>1. Tail(l) = <<Leg("poll", "backs")>> /\ Head(l) = Leg("poll", "fronts")
    BY <1>3
  <2>2. UploadsOf(l) = {} /\ UploadsOf(Tail(l)) = {}
    BY <1>3, <2>1, UploadsAmong, LegNames
  <2> QED
    BY <2>1, <2>2 DEF HalvesLegs
<1>4. CASE l = <<Leg("poll", "backs")>>
  <2>1. Tail(l) = <<>> /\ Head(l) = Leg("poll", "backs")
    BY <1>4
  <2>2. UploadsOf(l) = {} /\ UploadsOf(Tail(l)) = {}
    BY <1>4, <2>1, UploadsAmong, LegNames
  <2> QED
    BY <2>1, <2>2 DEF HalvesLegs
<1> QED
  BY <1>1, <1>2, <1>3, <1>4 DEF HalvesLegs

\* What a leg is about is a PDF of the run.
LEMMA LegIs ==
    ASSUME ArtTypeOK, legs # <<>>
    PROVE  Head(legs).pdf \in Names /\ Head(legs).op \in {"upload", "poll"}
           /\ Tail(legs) \in DocumentLegs \cup HalvesLegs
<1>1. {"document", "fronts", "backs"} \subseteq Names
  BY DeliveryAssumption
<1>2. CASE legs \in DocumentLegs
  <2>1. Tail(legs) \in DocumentLegs /\ \E o \in {"upload", "poll"} : Head(legs) = Leg(o, "document")
    BY <1>2, DocumentLegsGo
  <2> QED
    BY <1>1, <2>1, LegNames
<1>3. CASE legs \in HalvesLegs
  <2>1. /\ Tail(legs) \in HalvesLegs
        /\ \E o \in {"upload", "poll"}, n \in {"fronts", "backs"} : Head(legs) = Leg(o, n)
    BY <1>3, HalvesLegsGo
  <2> QED
    BY <1>1, <2>1, LegNames
<1> QED
  BY <1>2, <1>3 DEF ArtTypeOK

\* A step of the client.
LEMMA CallTypes == TypeOK /\ CallStep => ClientTypeOK'
<1> SUFFICES ASSUME TypeOK, CallStep PROVE ClientTypeOK'
  OBVIOUS
<1> DEFINE Ats == {"idle", "send", "sent", "fall back", "copying", "copied", "ask", "done"}
           Results == {"none"} \cup Failures \cup Deliveries
<1>1. ClientTypeOK /\ call \in Call
  BY DEF TypeOK, ClientTypeOK
<1>2. \A at \in Ats : [call EXCEPT !.at = at] \in Call
  BY <1>1 DEF Call
<1>3. \A result \in Results : [call EXCEPT !.at = "done", !.result = result] \in Call
  BY <1>1 DEF Call
<1>4. /\ [call EXCEPT !.sends = @ + 1] \in Call /\ [call EXCEPT !.asks = "oldest"] \in Call
      /\ [call EXCEPT !.sends = @ + 1, !.at = "send"] \in Call
  <2>0. call.sends \in Nat
    BY <1>1 DEF Call
  <2>1. call.sends + 1 \in Nat
    BY <2>0
  <2>2. \A m \in Nat : /\ [call EXCEPT !.sends = m] \in Call
                      /\ [call EXCEPT !.sends = m, !.at = "send"] \in Call
    BY <1>1 DEF Call
  <2>3. [call EXCEPT !.asks = "oldest"] \in Call
    BY <1>1 DEF Call
  <2> QED
    BY <2>1, <2>2, <2>3
<1>5. /\ \A at \in Ats : Goes(at) => call' \in Call
      /\ \A result \in Results : Returns(result) => call' \in Call
  BY <1>2, <1>3 DEF Goes, Returns
<1>6. CASE UNCHANGED <<server, dropped>>
  <2>1. call' \in Call
    <3>1. CASE NothingArrives
      BY <1>4, <1>5, <3>1 DEF NothingArrives, Failures
    <3>2. CASE VersionRefused
      BY <1>4, <1>5, <3>2 DEF VersionRefused, Failures
    <3>3. CASE AnswerLost
      BY <1>5, <3>3 DEF AnswerLost, Failures
    <3>4. CASE CannotSend \/ Refused \/ TaskIdReturned
      BY <1>5, <3>4 DEF CannotSend, Refused, TaskIdReturned, Failures, Deliveries
    <3>5. CASE Arrives \/ Vanishes
      BY <1>5, <3>5 DEF Arrives, Vanishes
    <3>6. CASE FallBack \/ CopyToConsumeDir \/ CopyReturns
      BY <1>5, <3>6 DEF FallBack, CopyToConsumeDir, CopyReturns, Failures, Deliveries
    <3>7. CASE TaskSeen \/ PollRefused \/ DeadlinePasses
      BY <1>5, <3>7 DEF TaskSeen, PollRefused, DeadlinePasses, Failures, Deliveries
    <3> QED
      BY <3>1, <3>2, <3>3, <3>4, <3>5, <3>6, <3>7 DEF CallStep
  <2> QED
    BY <1>1, <1>6, <2>1 DEF ClientTypeOK, server
<1>7. CASE Arrives
  <2>1. call' \in Call
    BY <1>5, <1>7 DEF Arrives
  <2>2. tasks' \in [Names -> {"none", "queued", "filed", "duplicate", "failed"}]
    BY <1>1, <1>7 DEF Arrives, ClientTypeOK
  <2>3. taken' \in [Names -> Nat]
    <3>1. taken \in [Names -> Nat] /\ taken' = [taken EXCEPT ![call.pdf] = taken[call.pdf] + 1]
      BY <1>1, <1>7 DEF Arrives, ClientTypeOK
    <3>2. ASSUME NEW n \in Names PROVE taken'[n] \in Nat
      BY <3>1
    <3> QED
      BY <3>1, <3>2
  <2> QED
    BY <1>1, <1>7, <2>1, <2>2, <2>3 DEF Arrives, ClientTypeOK
<1>8. CASE CopyToConsumeDir
  <2>1. call' \in Call
    BY <1>5, <1>8 DEF CopyToConsumeDir, Failures
  <2>2. dropped' \in [Names -> {"no", "whole"}]
    BY <1>1, <1>8 DEF CopyToConsumeDir, ClientTypeOK
  <2> QED
    BY <1>1, <1>8, <2>1, <2>2 DEF CopyToConsumeDir, ClientTypeOK, server
<1>9. CASE TaskSeen
  <2>1. call' \in Call
    BY <1>5, <1>9 DEF TaskSeen, Failures, Deliveries
  <2>2. tasks' \in [Names -> {"none", "queued", "filed", "duplicate", "failed"}]
    BY <1>1, <1>9 DEF TaskSeen, ClientTypeOK
  <2> QED
    BY <1>1, <1>9, <2>1, <2>2 DEF TaskSeen, ClientTypeOK
<1> QED
  BY <1>6, <1>7, <1>8, <1>9 DEF CallStep, NothingArrives, CannotSend, VersionRefused, Refused,
     Vanishes, AnswerLost, TaskIdReturned, FallBack, CopyReturns, PollRefused, DeadlinePasses

\* The steps of the delivery itself.
LEMMA LegTypes ==
    TypeOK /\ CallIsOfLeg /\ (StartLeg \/ InCall \/ LegReturns \/ SettleDelivered \/ StageDelivered) => TypeOK'
<1> SUFFICES ASSUME TypeOK, CallIsOfLeg,
                    StartLeg \/ InCall \/ LegReturns \/ SettleDelivered \/ StageDelivered
             PROVE  TypeOK'
  OBVIOUS
<1> USE DEF Goto
<1>0. ArtTypeOK /\ art \in Artefacts
  BY DEF TypeOK, ArtTypeOK
<1>1. KeepTypeOK' /\ WorkspaceTypeOK'
  BY TypesStay DEF StartLeg, InCall, LegReturns, SettleDelivered, StageDelivered
<1>2. CASE StartLeg
  <2>1. AcquisitionTypeOK' /\ PassesInFlight' /\ EndingTypeOK'
    BY <1>2, TypesStay DEF StartLeg
  <2>2. art' = art /\ (legs' = legs \/ legs' = Tail(legs)) /\ legs # <<>>
    BY <1>2 DEF StartLeg
  <2>3. ArtTypeOK'
    BY <1>0, <2>2, LegIs DEF ArtTypeOK
  <2>4. \/ UNCHANGED clientVars
        \/ UNCHANGED <<server, dropped>> /\ call' \in Call
    <3>1. CASE StartUpload(Head(legs).pdf)
      <4>1. PICK asks \in {"oldest", "newest"} :
              call' = [NoCall EXCEPT !.op = "upload", !.pdf = Head(legs).pdf, !.at = "send",
                                     !.asks = asks]
        BY <3>1 DEF StartUpload
      <4>2. call' \in Call
        BY <1>0, <2>2, <4>1, LegIs DEF NoCall, Call
      <4> QED
        BY <3>1, <4>2 DEF StartUpload
    <3>2. CASE StartPoll(Head(legs).pdf)
      BY <1>0, <2>2, <3>2, LegIs DEF StartPoll, NoCall, Call
    <3> QED
      BY <1>2, <3>1, <3>2 DEF StartLeg
  <2>5. ClientTypeOK'
    BY <2>4, TypesStay DEF TypeOK, ClientTypeOK, server
  <2> QED
    BY <1>1, <2>1, <2>3, <2>5 DEF TypeOK
<1>3. CASE InCall
  <2>1. AcquisitionTypeOK' /\ PassesInFlight' /\ EndingTypeOK' /\ ArtTypeOK'
    BY <1>3, TypesStay DEF InCall
  <2>2. ClientTypeOK'
    BY <1>3, CallTypes DEF InCall
  <2> QED
    BY <1>1, <2>1, <2>2 DEF TypeOK
<1>4. CASE LegReturns
  <2>1. AcquisitionTypeOK' /\ PassesInFlight' /\ EndingTypeOK' /\ ClientTypeOK'
    BY <1>4, TypesStay, BrokenTypes DEF LegReturns
  <2>2. art' \in Artefacts
    BY <1>0, <1>4 DEF LegReturns, Artefacts, Takings
  <2>3. legs # <<>>
    BY <1>4 DEF LegReturns, CallIsOfLeg, NoCall, Deliveries
  <2>4. legs' \in DocumentLegs \cup HalvesLegs
    BY <1>0, <1>4, <2>3, LegIs DEF LegReturns
  <2> QED
    BY <1>1, <2>1, <2>2, <2>4 DEF TypeOK, ArtTypeOK
<1>5. CASE SettleDelivered
  <2>1. ArtTypeOK' /\ ClientTypeOK'
    BY <1>5, TypesStay DEF SettleDelivered
  <2>2. EndingTypeOK'
    BY <1>5 DEF SettleDelivered, TypeOK, EndingTypeOK
  <2>3. AcquisitionTypeOK' /\ PassesInFlight'
    BY <1>5 DEF SettleDelivered, TypeOK, AcquisitionTypeOK, PassesInFlight, acquisition, Places
  <2> QED
    BY <1>1, <2>1, <2>2, <2>3 DEF TypeOK
<1>6. CASE StageDelivered
  <2>1. ClientTypeOK'
    BY <1>6, TypesStay DEF StageDelivered
  <2>2. EndingTypeOK'
    BY <1>6 DEF StageDelivered, TypeOK, EndingTypeOK, Outcomes, Delivering
  <2>3. AcquisitionTypeOK' /\ PassesInFlight'
    BY <1>6 DEF StageDelivered, TypeOK, AcquisitionTypeOK, PassesInFlight, acquisition, Places
  <2>4. ArtTypeOK'
    BY <1>0, <1>6, StageTypes, EmptySeq DEF StageDelivered, ArtTypeOK
  <2> QED
    BY <1>1, <2>1, <2>2, <2>3, <2>4 DEF TypeOK
<1> QED
  BY <1>2, <1>3, <1>4, <1>5, <1>6
-----------------------------------------------------------------------------
(* The page files in order. *)

\* What numbers page files: no two have the same place.
Placed(files) ==
    /\ files \subseteq Page /\ IsFiniteSet(files)
    /\ \A p, q \in files : p.pass = q.pass /\ p.at = q.at => p = q

\* The order of the page files is a total one.
LEMMA OrderOfFiles ==
    ASSUME NEW files, Placed(files)
    PROVE  /\ \A p \in files : NotAfter(p, p)
           /\ \A p, q \in files : NotAfter(p, q) \/ NotAfter(q, p)
           /\ \A p, q \in files : NotAfter(p, q) /\ NotAfter(q, p) => p = q
           /\ \A p, q, r \in files : NotAfter(p, q) /\ NotAfter(q, r) => NotAfter(p, r)
<1>1. \A p \in files : p.pass \in Nat /\ p.at \in Nat
  BY DEF Placed, Page
<1> QED
  BY <1>1 DEF NotAfter, Placed

\* A file's number says how many files are not after it, from 1 to their count.
LEMMA PlaceIsNumber ==
    ASSUME NEW files, Placed(files), NEW p \in files
    PROVE  PlaceAmong(files, p) \in 1..Cardinality(files)
<1> DEFINE upTo == {q \in files : NotAfter(q, p)}
<1>1. IsFiniteSet(files) /\ upTo \in SUBSET files /\ p \in upTo
  BY OrderOfFiles DEF Placed
<1>2. IsFiniteSet(upTo) /\ Cardinality(upTo) <= Cardinality(files)
  BY <1>1, FS_Subset
<1>3. Cardinality(upTo) \in Nat /\ Cardinality(files) \in Nat
  BY <1>1, <1>2, FS_CardinalityType
<1>4. Cardinality(upTo) # 0
  BY <1>1, <1>2, FS_EmptySet
<1> QED
  BY <1>2, <1>3, <1>4 DEF PlaceAmong

\* Two files have two numbers.
LEMMA PlacesDiffer ==
    ASSUME NEW files, Placed(files), NEW p \in files, NEW q \in files,
           PlaceAmong(files, p) = PlaceAmong(files, q)
    PROVE  p = q
<1> DEFINE upTo(x) == {y \in files : NotAfter(y, x)}
<1>1. ASSUME NEW x \in files, NEW y \in files, NotAfter(x, y),
             PlaceAmong(files, x) = PlaceAmong(files, y)
      PROVE  x = y
  <2>1. upTo(x) \subseteq upTo(y)
    BY <1>1, OrderOfFiles
  <2>2. IsFiniteSet(upTo(y))
    BY FS_Subset DEF Placed
  <2>3. Cardinality(upTo(x)) = Cardinality(upTo(y))
    BY <1>1 DEF PlaceAmong
  <2>4. upTo(y) = upTo(x)
    <3> HIDE DEF upTo
    <3> QED
      BY <2>1, <2>2, <2>3, FS_Subset
  <2>5. y \in upTo(x)
    BY <2>4, OrderOfFiles
  <2> QED
    BY <1>1, <2>5, OrderOfFiles
<1>2. NotAfter(p, q) \/ NotAfter(q, p)
  BY OrderOfFiles
<1> QED
  BY <1>1, <1>2

\* Every number up to the count is some file's.
LEMMA NumbersArePlaces ==
    ASSUME NEW files, Placed(files), NEW k \in 1..Cardinality(files)
    PROVE  \E p \in files : PlaceAmong(files, p) = k
<1> DEFINE n == Cardinality(files)
           rank == [p \in files |-> PlaceAmong(files, p)]
<1>1. IsFiniteSet(files) /\ n \in Nat
  BY FS_CardinalityType DEF Placed
<1>2. rank \in [files -> 1..n]
  BY PlaceIsNumber
<1>3. rank \in Injection(files, 1..n)
  BY <1>2, PlacesDiffer DEF Injection, IsInjective
<1>4. IsFiniteSet(1..n) /\ Cardinality(1..n) = n
  <2>1. IsFiniteSet(1..n) /\ Cardinality(1..n) = IF 1 > n THEN 0 ELSE n - 1 + 1
    BY <1>1, FS_Interval
  <2> QED
    BY <1>1, <2>1
<1>5. rank \in Surjection(files, 1..n)
  <2> HIDE DEF rank
  <2> QED
    BY <1>1, <1>3, <1>4, FS_Injection
<1> QED
  BY <1>5 DEF Surjection

\* A listing by number holds every file once, and nothing else.
LEMMA ListingIs ==
    ASSUME NEW files, Placed(files)
    PROVE  LET list == [k \in 1..Cardinality(files) |->
                            CHOOSE p \in files : PlaceAmong(files, p) = k]
           IN  /\ list \in Seq(Page) /\ Len(list) = Cardinality(files)
               /\ \A k \in 1..Cardinality(files) :
                     list[k] \in files /\ PlaceAmong(files, list[k]) = k
               /\ Range(list) = files
<1> DEFINE n == Cardinality(files)
           list == [k \in 1..n |-> CHOOSE p \in files : PlaceAmong(files, p) = k]
<1>1. n \in Nat /\ files \subseteq Page
  BY FS_CardinalityType DEF Placed
<1>2. ASSUME NEW k \in 1..n PROVE list[k] \in files /\ PlaceAmong(files, list[k]) = k
  <2>1. \E p \in files : PlaceAmong(files, p) = k
    BY NumbersArePlaces
  <2> QED
    BY <2>1
<1>3. list \in [1..n -> files]
  BY <1>2
<1>4. list \in Seq(Page) /\ Len(list) = n
  <2> HIDE DEF list, n
  <2> QED
    BY <1>1, <1>3
<1>5. ASSUME NEW p \in files PROVE p \in Range(list)
  <2> DEFINE k == PlaceAmong(files, p)
  <2>1. k \in 1..n
    BY PlaceIsNumber
  <2>2. list[k] \in files /\ PlaceAmong(files, list[k]) = k
    BY <1>2, <2>1
  <2>3. list[k] = p
    BY <2>2, PlacesDiffer
  <2> QED
    BY <1>3, <2>1, <2>3 DEF Range
<1>6. Range(list) \subseteq files
  BY <1>3 DEF Range
<1> QED
  BY <1>2, <1>4, <1>5, <1>6

\* There is a first file, and what is left keeps its order.
LEMMA FirstFileIs ==
    ASSUME Placed(spool), spool # {}
    PROVE  FirstFile \in spool /\ \A q \in spool : NotAfter(FirstFile, q)
<1>1. Cardinality(spool) \in Nat /\ Cardinality(spool) # 0 /\ IsFiniteSet(spool)
  BY FS_CardinalityType, FS_EmptySet DEF Placed
<1>2. PICK p \in spool : PlaceAmong(spool, p) = 1
  BY <1>1, NumbersArePlaces
<1>3. ASSUME NEW q \in spool PROVE NotAfter(p, q)
  <2> DEFINE upTo == {r \in spool : NotAfter(r, p)}
  <2>1. IsFiniteSet(upTo) /\ Cardinality(upTo) = 1
    BY <1>1, <1>2, FS_Subset DEF PlaceAmong
  <2>2. PICK x : upTo = {x}
    <3> HIDE DEF upTo
    <3> QED
      BY <2>1, FS_Singleton
  <2>3. p \in upTo
    BY OrderOfFiles
  <2>4. CASE NotAfter(q, p)
    <3>1. q \in upTo
      BY <2>4
    <3>2. q = p
      BY <2>2, <2>3, <3>1
    <3> QED
      BY <3>2, OrderOfFiles
  <2> QED
    BY <2>4, OrderOfFiles
<1>4. \E x \in spool : \A q \in spool : NotAfter(x, q)
  BY <1>3
<1> QED
  BY <1>4 DEF FirstFile

\* What the sweep reads back is the whole spool, in two sides.
LEMMA FilesOfIs ==
    ASSUME WorkspaceTypeOK, Numbered
    PROVE  /\ Placed(spool)
           /\ \A side : FilesOf(side) \in Seq(Page) /\ Range(FilesOf(side)) \subseteq spool
           /\ Range(FilesOf(Fronts)) \cup Range(FilesOf(Backs)) = spool
<1>1. Placed(spool)
  BY DEF Placed, WorkspaceTypeOK, Numbered
<1> DEFINE Files(side) == {p \in spool : (kind = "duplex" /\ p.pass = 2) = (side = Backs)}
<1>2. ASSUME NEW side
      PROVE  FilesOf(side) \in Seq(Page) /\ Range(FilesOf(side)) = Files(side)
  <2>1. Files(side) \in SUBSET spool
    OBVIOUS
  <2>2. Placed(Files(side))
    <3> HIDE DEF Files
    <3> QED
      BY <1>1, <2>1, FS_Subset DEF Placed
  <2>3. FilesOf(side) = [k \in 1..Cardinality(Files(side)) |->
                            CHOOSE p \in Files(side) : PlaceAmong(Files(side), p) = k]
    BY DEF FilesOf
  <2> HIDE DEF Files
  <2> QED
    BY <2>2, <2>3, ListingIs
<1>3. Files(Fronts) \cup Files(Backs) = spool
  BY DEF Fronts, Backs
<1> QED
  BY <1>1, <1>2, <1>3
-----------------------------------------------------------------------------
(* The end of a run. *)

KeepRecord == [todo : Seq(KeptItem), whole : BOOLEAN, problem : BOOLEAN, files : BOOLEAN]

\* What there is to keep are items.
LEMMA PlanTypes ==
    ASSUME NEW a \in Artefacts
    PROVE  Plan(a) \in Seq(KeptItem) /\ Begin(a) \in KeepRecord
<1>1. /\ a.document \in Seq(Page) /\ a.passes \in Seq(RunPass) /\ a.pdfs \in Seq(Pdf)
  BY DEF Artefacts
<1>2. DocumentItems(a) \in Seq(KeptItem)
  <2>1. Item("document", "document", a.document) \in KeptItem
    BY <1>1 DEF Item, KeptItem
  <2> QED
    BY <2>1, EmptySeq DEF DocumentItems
<1>3. ASSUME NEW pass \in RunPass PROVE PassItem(pass) \in KeptItem
  <2>1. pass.suffix \in PassNames /\ pass.pages \in Seq(Page) /\ Reverse(pass.pages) \in Seq(Page)
    BY ReversedSeq DEF RunPass
  <2> QED
    BY <2>1 DEF PassItem, Item, KeptItem
<1>4. PassItems(a) \in Seq(KeptItem)
  <2> DEFINE Full(i) == IF i \in DOMAIN a.passes /\ a.passes[i].pages # <<>>
                        THEN <<PassItem(a.passes[i])>> ELSE <<>>
  <2>1. ASSUME NEW i \in 1..2 PROVE Full(i) \in Seq(KeptItem)
    <3>1. i \in DOMAIN a.passes => a.passes[i] \in RunPass
      BY <1>1
    <3>2. i \in DOMAIN a.passes => PassItem(a.passes[i]) \in KeptItem
      BY <1>3, <3>1
    <3> QED
      BY <3>2, EmptySeq
  <2>2. Full(1) \in Seq(KeptItem) /\ Full(2) \in Seq(KeptItem)
    BY <2>1
  <2>3. PassItems(a) = Full(1) \o Full(2)
    BY DEF PassItems
  <2> HIDE DEF Full
  <2> QED
    BY <2>2, <2>3, ConcatProperties
<1>5. a.pdfs \in Seq(KeptItem)
  <2>1. Pdf \subseteq KeptItem
    BY DEF Pdf, KeptItem
  <2> QED
    BY <1>1, <2>1
<1>6. DocumentItems(a) \o PassItems(a) \in Seq(KeptItem)
  BY <1>2, <1>4, ConcatProperties
<1>7. Plan(a) \in Seq(KeptItem)
  BY <1>2, <1>4, <1>5, <1>6, EmptySeq DEF Plan
<1>8. Begin(a) \in KeepRecord
  BY <1>7 DEF Begin, Idle, KeepRecord
<1> QED
  BY <1>7, <1>8

\* The pieces of a preservation.
LEMMA KeepSteps ==
    ASSUME NEW k \in KeepRecord
    PROVE  /\ Idle \in KeepRecord /\ FilesStop(k) \in KeepRecord /\ FilesDone(k) \in KeepRecord
           /\ k.todo # <<>> =>
                /\ Head(k.todo) \in KeptItem /\ Tail(k.todo) \in Seq(KeptItem)
                /\ Kept(k) \in KeepRecord /\ NotKept(k) \in KeepRecord
<1>1. k.todo \in Seq(KeptItem)
  BY DEF KeepRecord
<1>2. Idle \in KeepRecord
  BY EmptySeq DEF Idle, KeepRecord
<1>3. FilesStop(k) \in KeepRecord /\ FilesDone(k) \in KeepRecord
  BY DEF FilesStop, FilesDone, KeepRecord
<1>4. ASSUME k.todo # <<>>
      PROVE  /\ Head(k.todo) \in KeptItem /\ Tail(k.todo) \in Seq(KeptItem)
             /\ Kept(k) \in KeepRecord /\ NotKept(k) \in KeepRecord
  <2>1. Head(k.todo) \in KeptItem /\ Tail(k.todo) \in Seq(KeptItem)
    BY <1>1, <1>4, HeadTailProperties
  <2>2. \A t \in Seq(KeptItem), f \in BOOLEAN :
          /\ [k EXCEPT !.todo = t, !.files = f] \in KeepRecord
          /\ [k EXCEPT !.todo = t, !.whole = FALSE, !.problem = TRUE, !.files = f] \in KeepRecord
    BY DEF KeepRecord
  <2>3. Kept(k) \in KeepRecord
    BY <2>1, <2>2 DEF Kept
  <2>4. NotKept(k) \in KeepRecord
    BY <2>1, <2>2, EmptySeq DEF NotKept
  <2> QED
    BY <2>1, <2>3, <2>4
<1> QED
  BY <1>2, <1>3, <1>4

\* A run that breaks off, or is over.
LEMMA BreakTypes ==
    TypeOK /\ (LegRaises \/ StepFails \/ Interrupt \/ CtrlC \/ HandleCancel) => TypeOK'
<1> SUFFICES ASSUME TypeOK, LegRaises \/ StepFails \/ Interrupt \/ CtrlC \/ HandleCancel
             PROVE  TypeOK'
  OBVIOUS
<1>0. art \in Artefacts /\ <<>> \in Seq(Nat) /\ next \in Seq(Nat)
  BY EmptySeq DEF TypeOK, ArtTypeOK, AcquisitionTypeOK
<1>1. CASE LegRaises
  <2>1. KeepTypeOK' /\ WorkspaceTypeOK' /\ ClientTypeOK'
    BY <1>1, TypesStay, BrokenTypes DEF LegRaises
  <2>2. art' \in Artefacts /\ legs' = legs
    <3>1. [art EXCEPT !.accepted[call.pdf] = "unanswered"] \in Artefacts
      BY <1>0 DEF Artefacts, Takings
    <3> QED
      BY <1>0, <1>1, <3>1 DEF LegRaises
  <2>3. EndingTypeOK'
    <3>1. outcome' \in Outcomes
      BY <1>1 DEF LegRaises, ErrorOf, Outcomes, Failing
    <3>2. halves' = halves \/ halves' \in {<<"fronts", "backs">>, <<"backs", "fronts">>}
      BY <1>1 DEF LegRaises, HalvesAt
    <3> QED
      BY <1>1, <3>1, <3>2 DEF LegRaises, TypeOK, EndingTypeOK
  <2>4. AcquisitionTypeOK' /\ PassesInFlight'
    BY <1>1 DEF LegRaises, acquisition, TypeOK, AcquisitionTypeOK, PassesInFlight, Places
  <2> QED
    BY <2>1, <2>2, <2>3, <2>4 DEF TypeOK, ArtTypeOK
<1>2. CASE StepFails
  <2>1. KeepTypeOK' /\ WorkspaceTypeOK' /\ ClientTypeOK' /\ ArtTypeOK'
    BY <1>2, TypesStay DEF StepFails
  <2>2. AcquisitionTypeOK' /\ EndingTypeOK' /\ PassesInFlight'
    BY <1>0, <1>2, EndsTypes DEF StepFails, Outcomes, Failing
  <2> QED
    BY <2>1, <2>2 DEF TypeOK
<1>3. CASE Interrupt
  <2>1. KeepTypeOK' /\ WorkspaceTypeOK' /\ ClientTypeOK'
    BY <1>3, TypesStay, BrokenTypes DEF Interrupt
  <2>2. AcquisitionTypeOK' /\ EndingTypeOK' /\ PassesInFlight'
    BY <1>0, <1>3, EndsTypes DEF Interrupt, Outcomes, Failing
  <2>3. ArtTypeOK'
    <3>1. [art EXCEPT !.accepted[call.pdf] = "interrupted"] \in Artefacts
      BY <1>0 DEF Artefacts, Takings
    <3> QED
      BY <1>0, <1>3, <3>1 DEF Interrupt, TypeOK, ArtTypeOK
  <2> QED
    BY <2>1, <2>2, <2>3 DEF TypeOK
<1>4. CASE CtrlC
  <2>1. WorkspaceTypeOK' /\ ClientTypeOK' /\ ArtTypeOK'
    BY <1>4, TypesStay, BrokenTypes DEF CtrlC
  <2>2. AcquisitionTypeOK' /\ EndingTypeOK' /\ PassesInFlight'
    BY <1>0, <1>4, EndsTypes DEF CtrlC, Outcomes
  <2>3. KeepTypeOK'
    <3>1. keep \in KeepRecord
      BY DEF TypeOK, KeepTypeOK, KeepRecord
    <3>2. Idle \in KeepRecord
      BY <3>1, KeepSteps
    <3> QED
      BY <1>4, <3>2 DEF CtrlC, TypeOK, KeepTypeOK, KeepRecord
  <2> QED
    BY <2>1, <2>2, <2>3 DEF TypeOK
<1>5. CASE HandleCancel
  <2>1. KeepTypeOK' /\ WorkspaceTypeOK' /\ ClientTypeOK' /\ ArtTypeOK'
    BY <1>5, TypesStay DEF HandleCancel
  <2>2. AcquisitionTypeOK' /\ PassesInFlight' /\ EndingTypeOK'
    BY <1>5 DEF HandleCancel, acquisition, TypeOK, AcquisitionTypeOK, PassesInFlight, Places,
       EndingTypeOK
  <2> QED
    BY <2>1, <2>2 DEF TypeOK
<1> QED
  BY <1>1, <1>2, <1>3, <1>4, <1>5

\* Keeping what a failed run has.
LEMMA KeepTypes ==
    TypeOK /\ Numbered /\ (HandleFailure \/ KeepItem \/ KeepPageFile \/ ReportFailure) => TypeOK'
<1> SUFFICES ASSUME TypeOK, Numbered, HandleFailure \/ KeepItem \/ KeepPageFile \/ ReportFailure
             PROVE  TypeOK'
  OBVIOUS
<1>0. art \in Artefacts /\ keep \in KeepRecord
  BY DEF TypeOK, ArtTypeOK, KeepTypeOK, KeepRecord
<1>1. CASE HandleFailure
  <2>1. WorkspaceTypeOK' /\ ClientTypeOK'
    BY <1>1, TypesStay DEF HandleFailure
  <2>2. AcquisitionTypeOK' /\ PassesInFlight' /\ EndingTypeOK'
    BY <1>1 DEF HandleFailure, acquisition, TypeOK, AcquisitionTypeOK, PassesInFlight, Places,
       EndingTypeOK
  <2>3. Passes \in Seq(RunPass)
    <3>1. ledger \in Seq(OpenPass)
      BY DEF TypeOK, AcquisitionTypeOK
    <3>2. Len(ledger) \in Nat /\ DOMAIN ledger = 1..Len(ledger)
      BY <3>1, LenProperties
    <3>3. \A i \in 1..Len(ledger) : ledger[i].suffix \in PassNames /\ ledger[i].pages \in Seq(Page)
      <4>1. ASSUME NEW i \in 1..Len(ledger) PROVE ledger[i] \in OpenPass
        BY <3>1
      <4> QED
        BY <4>1 DEF OpenPass
    <3>4. Passes \in [1..Len(ledger) -> RunPass]
      BY <3>2, <3>3 DEF Passes, RunPass
    <3> QED
      BY <3>2, <3>4
  <2>4. art' \in Artefacts
    BY <1>0, <1>1, <2>3 DEF HandleFailure, Artefacts
  <2>5. Begin(art') \in KeepRecord
    BY <2>4, PlanTypes
  <2>6. ArtTypeOK' /\ KeepTypeOK'
    BY <1>1, <2>4, <2>5 DEF HandleFailure, TypeOK, ArtTypeOK, KeepTypeOK, KeepRecord
  <2> QED
    BY <2>1, <2>2, <2>6 DEF TypeOK
<1>2. CASE KeepItem
  <2>1. AcquisitionTypeOK' /\ PassesInFlight' /\ EndingTypeOK' /\ ArtTypeOK' /\ WorkspaceTypeOK'
        /\ ClientTypeOK'
    BY <1>2, TypesStay DEF KeepItem
  <2>2. /\ keep' \in KeepRecord /\ (failed' = failed \/ failed' = failed \cup {Head(keep.todo)})
        /\ warned' = warned /\ advice' = advice
    BY <1>0, <1>2, KeepSteps DEF KeepItem
  <2>3. Head(keep.todo) \in KeptItem
    BY <1>0, <1>2, KeepSteps DEF KeepItem
  <2>4. KeepTypeOK'
    BY <2>2, <2>3 DEF TypeOK, KeepTypeOK, KeepRecord
  <2> QED
    BY <2>1, <2>4 DEF TypeOK
<1>3. CASE KeepPageFile
  <2>1. AcquisitionTypeOK' /\ PassesInFlight' /\ EndingTypeOK' /\ ArtTypeOK' /\ ClientTypeOK'
    BY <1>3, TypesStay DEF KeepPageFile
  <2>2. keep' \in KeepRecord /\ warned' = warned /\ advice' = advice
    BY <1>0, <1>3, KeepSteps DEF KeepPageFile
  <2>3. spool # {} => FirstFile \in Page
    BY FilesOfIs, FirstFileIs DEF TypeOK, WorkspaceTypeOK
  <2>4. spool # {} => PageFile(FirstFile) \in KeptItem
    BY <2>3 DEF PageFile, Item, KeptItem
  <2>5. /\ failed' = failed \/ (spool # {} /\ failed' = failed \cup {PageFile(FirstFile)})
        /\ spool' = spool \/ spool' = spool \ {FirstFile}
    BY <1>3 DEF KeepPageFile
  <2>6. KeepTypeOK'
    BY <2>2, <2>4, <2>5 DEF TypeOK, KeepTypeOK, KeepRecord
  <2>7. WorkspaceTypeOK'
    <3>1. IsFiniteSet(spool') /\ spool' \in SUBSET Page
      BY <2>5, FS_Subset DEF TypeOK, WorkspaceTypeOK
    <3> QED
      BY <1>3, <3>1 DEF KeepPageFile, workspace, TypeOK, WorkspaceTypeOK
  <2> QED
    BY <2>1, <2>6, <2>7 DEF TypeOK
<1>4. CASE ReportFailure
  <2>1. EndingTypeOK' /\ ArtTypeOK' /\ ClientTypeOK'
    BY <1>4, TypesStay DEF ReportFailure
  <2>2. AcquisitionTypeOK' /\ PassesInFlight'
    BY <1>4 DEF ReportFailure, Goto, acquisition, TypeOK, AcquisitionTypeOK, PassesInFlight, Places
  <2>3. warned' \subseteq Names
    <3>1. DOMAIN art.accepted = Names
      BY <1>0 DEF Artefacts
    <3> QED
      BY <1>4, <3>1 DEF ReportFailure, Cautions, Noted
  <2>4. advice' \in {"none", "last", "unpairable"}
    BY <1>4 DEF ReportFailure, PairingCaution
  <2>5. keep' \in KeepRecord /\ failed' = failed
    BY <1>0, <1>4, KeepSteps DEF ReportFailure
  <2>6. KeepTypeOK'
    BY <2>3, <2>4, <2>5 DEF TypeOK, KeepTypeOK, KeepRecord
  <2>7. WorkspaceTypeOK'
    BY <1>0, <1>4 DEF ReportFailure, TypeOK, WorkspaceTypeOK, KeepRecord
  <2> QED
    BY <2>1, <2>2, <2>6, <2>7 DEF TypeOK
<1> QED
  BY <1>1, <1>2, <1>3, <1>4

\* A run or a process that is over, and the sweep.
LEMMA OverTypes ==
    TypeOK /\ Numbered /\ (Killed \/ LeaveWorkspace \/ SweepFinds \/ SweepLeaves) => TypeOK'
<1> SUFFICES ASSUME TypeOK, Numbered, Killed \/ LeaveWorkspace \/ SweepFinds \/ SweepLeaves
             PROVE  TypeOK'
  OBVIOUS
<1>0. art \in Artefacts /\ keep \in KeepRecord /\ <<>> \in Seq(Nat) /\ <<>> \in Seq(OpenPass)
  BY EmptySeq DEF TypeOK, ArtTypeOK, KeepTypeOK, KeepRecord
<1>1. Idle \in KeepRecord /\ IsFiniteSet({}) /\ NoArtefacts(Names) \in Artefacts
  <2>1. Idle \in KeepRecord
    BY <1>0, KeepSteps
  <2>2. NoArtefacts(Names) \in Artefacts
    BY EmptySeq DEF NoArtefacts, Artefacts, Stages, Takings
  <2> QED
    BY <2>1, <2>2, FS_EmptySet
<1>2. CASE Killed \/ LeaveWorkspace
  <2>1. /\ Forgotten /\ pc' = "over" /\ kind' = kind /\ settled' = settled /\ failed' = failed
        /\ warned' = warned /\ spare' = spare /\ owed' = owed /\ UNCHANGED <<server, dropped>>
    BY <1>2 DEF Killed, LeaveWorkspace, Goto
  <2>2. AcquisitionTypeOK' /\ PassesInFlight'
    BY <1>0, <2>1, EmptySeq DEF Forgotten, TypeOK, AcquisitionTypeOK, PassesInFlight, Places
  <2>3. KeepTypeOK' /\ ClientTypeOK'
    <3>1. NoCall \in Call
      BY DEF NoCall, Call
    <3> QED
      BY <1>1, <2>1, <3>1 DEF Forgotten, TypeOK, KeepTypeOK, KeepRecord, ClientTypeOK, server
  <2>4. ArtTypeOK' /\ EndingTypeOK'
    <3>1. art' \in Artefacts /\ outcome' \in Outcomes
      <4>1. outcome \in Outcomes
        BY DEF TypeOK, EndingTypeOK
      <4>2. CASE Killed
        BY <1>0, <1>1, <4>1, <4>2 DEF Killed, Outcomes
      <4>3. CASE LeaveWorkspace
        BY <1>0, <4>1, <4>3 DEF LeaveWorkspace
      <4> QED
        BY <1>2, <4>2, <4>3
    <3> QED
      BY <2>1, <3>1 DEF Forgotten, TypeOK, ArtTypeOK, EndingTypeOK, DocumentLegs
  <2>5. WorkspaceTypeOK'
    <3>1. spool' \in {spool, {}} /\ ws' \in {"left", "gone"}
      BY <1>2 DEF Killed, LeaveWorkspace
    <3> QED
      BY <1>1, <2>1, <3>1 DEF TypeOK, WorkspaceTypeOK
  <2> QED
    BY <2>2, <2>3, <2>4, <2>5 DEF TypeOK
<1>3. CASE SweepFinds
  <2>1. ArtTypeOK' /\ EndingTypeOK' /\ ClientTypeOK' /\ WorkspaceTypeOK'
    BY <1>3, TypesStay DEF SweepFinds
  <2>2. AcquisitionTypeOK' /\ PassesInFlight'
    BY <1>3 DEF SweepFinds, acquisition, TypeOK, AcquisitionTypeOK, PassesInFlight, Places
  <2>3. Rebuilt \in Seq(RunPass)
    <3>1. FilesOf(Fronts) \in Seq(Page) /\ FilesOf(Backs) \in Seq(Page)
      BY FilesOfIs DEF TypeOK
    <3> DEFINE name == IF FilesOf(Backs) = <<>> THEN "(partial)" ELSE Fronts
    <3>2. name \in PassNames /\ Backs \in PassNames
      BY DEF PassNames
    <3>3. /\ [suffix |-> name, pages |-> FilesOf(Fronts)] \in RunPass
          /\ [suffix |-> Backs, pages |-> FilesOf(Backs)] \in RunPass
      <4> HIDE DEF name
      <4> QED
        BY <3>1, <3>2 DEF RunPass
    <3> QED
      BY <3>3 DEF Rebuilt
  <2>4. ASSUME NEW passes \in {Rebuilt, <<>>}
        PROVE  Begin([NoArtefacts(Names) EXCEPT !.passes = passes]) \in KeepRecord
    <3>1. passes \in Seq(RunPass)
      BY <2>3, EmptySeq
    <3>2. [NoArtefacts(Names) EXCEPT !.passes = passes] \in Artefacts
      BY <1>1, <3>1 DEF Artefacts
    <3> QED
      BY <3>2, PlanTypes
  <2>5. keep' \in KeepRecord
    <3>1. PICK passes \in {Rebuilt, <<>>} :
            keep' = IF spool = {} THEN Idle
                    ELSE Begin([NoArtefacts(Names) EXCEPT !.passes = passes])
      BY <1>3 DEF SweepFinds
    <3> QED
      BY <1>1, <2>4, <3>1
  <2>6. KeepTypeOK'
    BY <1>3, <2>5 DEF SweepFinds, TypeOK, KeepTypeOK, KeepRecord
  <2> QED
    BY <2>1, <2>2, <2>6 DEF TypeOK
<1>4. CASE SweepLeaves
  <2>1. ArtTypeOK' /\ EndingTypeOK' /\ ClientTypeOK'
    BY <1>4, TypesStay DEF SweepLeaves
  <2>2. AcquisitionTypeOK' /\ PassesInFlight'
    BY <1>4 DEF SweepLeaves, Goto, acquisition, TypeOK, AcquisitionTypeOK, PassesInFlight, Places
  <2>3. KeepTypeOK'
    BY <1>1, <1>4 DEF SweepLeaves, TypeOK, KeepTypeOK, KeepRecord
  <2>4. WorkspaceTypeOK'
    BY <1>1, <1>4 DEF SweepLeaves, TypeOK, WorkspaceTypeOK
  <2> QED
    BY <2>1, <2>2, <2>3, <2>4 DEF TypeOK
<1> QED
  BY <1>2, <1>3, <1>4

\* Every step keeps the types.
LEMMA StepTypes == TypeOK /\ Numbered /\ CallIsOfLeg /\ [Next]_vars => TypeOK'
<1> SUFFICES ASSUME TypeOK, Numbered, CallIsOfLeg, [Next]_vars PROVE TypeOK'
  OBVIOUS
<1>1. CASE UNCHANGED vars
  BY <1>1, TypesStay DEF vars, TypeOK
<1>2. CASE OpenWorkspace \/ SpoolPage \/ SheetMissed \/ SheetUnreadable \/ FirstPassEnds \/ BacksPassEnds
  BY <1>2, OpenTypes, SpoolTypes, MissTypes, PassEndTypes
<1>3. CASE FlipAnswered \/ MultiPassEnds \/ AcceptPass \/ DiscardPass \/ NextPass \/ FinishPasses
  BY <1>3, DecideTypes
<1>4. CASE FinishDocument \/ FinishMismatch
  BY <1>4, FinishTypes
<1>5. CASE StartLeg \/ InCall \/ LegReturns \/ SettleDelivered \/ StageDelivered
  BY <1>5, LegTypes
<1>6. CASE LegRaises \/ StepFails \/ Interrupt \/ CtrlC \/ HandleCancel
  BY <1>6, BreakTypes
<1>7. CASE HandleFailure \/ KeepItem \/ KeepPageFile \/ ReportFailure
  BY <1>7, KeepTypes
<1>8. CASE Killed \/ LeaveWorkspace \/ SweepFinds \/ SweepLeaves
  BY <1>8, OverTypes
<1> QED
  BY <1>1, <1>2, <1>3, <1>4, <1>5, <1>6, <1>7, <1>8 DEF Next, RunStep

\* Every step keeps the numbers of the page files apart.
LEMMA StepNumbers == TypeOK /\ Numbered /\ [Next]_vars => Numbered'
<1> SUFFICES ASSUME TypeOK, Numbered, [Next]_vars PROVE Numbered'
  OBVIOUS
<1> USE DEF Goto
<1>0. /\ round \in Nat /\ \A p \in spool : p \in Page /\ p.pass \in Nat /\ p.at \in Nat
      /\ pc \in Places
  BY DEF TypeOK, AcquisitionTypeOK, WorkspaceTypeOK, Page
<1>1. CASE UNCHANGED vars
  BY <1>1 DEF vars, acquisition, Numbered, Current
<1>2. CASE OpenWorkspace
  <2>1. spool' = {} /\ pc' = "scan" /\ kind' = kind /\ round' = 1 /\ Len(ledger') = 1
    BY <1>2 DEF OpenWorkspace, Numbered
  <2> QED
    BY <2>1 DEF Numbered, Current
<1>3. CASE SpoolPage
  <2>1. /\ pc' = "scan" /\ pc = "scan" /\ kind' = kind /\ round' = round
        /\ spool' = spool \cup {NewPage} /\ NewPage.pass = round
        /\ NewPage.at = Len(ledger[Current].pages) + 1
    BY <1>3 DEF SpoolPage, Feed, NewPage
  <2>2. Current \in 1..Len(ledger) /\ ledger \in Seq(OpenPass) /\ ledger[Current].pages \in Seq(Page)
    <3>1. ledger[Current] \in OpenPass
      BY <2>1, CurrentPass
    <3> QED
      BY <2>1, <3>1, CurrentPass DEF OpenPass, TypeOK, AcquisitionTypeOK
  <2>3. Len(ledger') = Len(ledger)
        /\ ledger'[Current].pages = Append(ledger[Current].pages, NewPage)
    <3> DEFINE pass == [ledger[Current] EXCEPT !.pages = Append(@, NewPage)]
    <3>1. ledger' = [ledger EXCEPT ![Current] = pass]
      BY <1>3 DEF SpoolPage, Feed
    <3>2. ledger[Current] \in OpenPass
      BY <2>1, CurrentPass
    <3>3. pass.pages = Append(ledger[Current].pages, NewPage)
      BY <3>2 DEF OpenPass
    <3> HIDE DEF pass
    <3>4. Len(ledger') = Len(ledger) /\ ledger'[Current] = pass
      BY <2>2, <3>1
    <3> QED
      BY <3>3, <3>4
  <2>4. Current' = Current
    BY <2>3 DEF Current
  <2>5. Len(ledger'[Current'].pages) = Len(ledger[Current].pages) + 1 /\ Len(ledger[Current].pages) \in Nat
    <3>1. Len(Append(ledger[Current].pages, NewPage)) = Len(ledger[Current].pages) + 1
      BY <2>2, AppendProperties, LenProperties
    <3> QED
      BY <2>2, <2>3, <2>4, <3>1, LenProperties
  <2>6. \A p \in spool : p.pass <= round /\ (p.pass = round => p.at <= Len(ledger[Current].pages))
    BY <2>1 DEF Numbered, Acquiring, Scanning
  <2>7. \A p, q \in spool' : p.pass = q.pass /\ p.at = q.at => p = q
    BY <1>0, <2>1, <2>5, <2>6 DEF Numbered
  <2>8. \A p \in spool' : p.pass <= round' /\ (p.pass = round' => p.at <= Len(ledger'[Current'].pages))
    BY <1>0, <2>1, <2>5, <2>6
  <2>9. kind' = "duplex" => round' = Current'
    BY <2>1, <2>4 DEF Numbered
  <2> QED
    BY <2>1, <2>7, <2>8, <2>9 DEF Numbered
<1>4. CASE SheetMissed
  BY <1>4 DEF SheetMissed, Numbered, Current
<1>5. CASE SheetUnreadable
  <2>1. pc = "scan" /\ UNCHANGED <<kind, round, pc, spool>>
        /\ ledger' = [ledger EXCEPT ![Current].lost = @ + 1]
    BY <1>5 DEF SheetUnreadable
  <2>2. ledger \in Seq(OpenPass) /\ Current \in 1..Len(ledger) /\ ledger[Current] \in OpenPass
    BY <2>1, CurrentPass DEF TypeOK, AcquisitionTypeOK
  <2> DEFINE pass == [ledger[Current] EXCEPT !.lost = @ + 1]
  <2>3. pass.pages = ledger[Current].pages
    BY <2>2 DEF OpenPass
  <2>4. ledger' = [ledger EXCEPT ![Current] = pass]
    BY <2>1
  <2> HIDE DEF pass
  <2>5. Len(ledger') = Len(ledger) /\ ledger'[Current].pages = ledger[Current].pages
    BY <2>2, <2>3, <2>4
  <2> QED
    BY <2>1, <2>5 DEF Numbered, Current
<1>6. CASE FlipAnswered
  <2>1. pc = "flip" /\ Len(ledger) = 1 /\ kind = "duplex" /\ kind' = kind /\ spool' = spool
    BY <1>6 DEF FlipAnswered, TypeOK, PassesInFlight
  <2>2. round = 1
    BY <2>1 DEF Numbered, Current
  <2>3. CASE EndsAs("cancelled") \/ EndsAs("failed")
    BY <2>1, <2>3 DEF EndsAs, Numbered, Acquiring, Scanning
  <2>4. CASE /\ pc' = "scan" /\ ledger' = Append(ledger, Pass(Backs)) /\ round' = 2
    <3>1. ledger \in Seq(OpenPass) /\ Pass(Backs) \in OpenPass
      BY DEF TypeOK, AcquisitionTypeOK, Pass, OpenPass, PassNames
    <3>2. Len(ledger') = 2
      <4>1. Len(Append(ledger, Pass(Backs))) = Len(ledger) + 1
        BY <3>1, AppendProperties
      <4> QED
        BY <2>1, <2>4, <4>1
    <3>3. \A p \in spool : p.pass <= 1
      BY <2>1, <2>2 DEF Numbered, Acquiring, Scanning
    <3>4. \A p \in spool : p.pass <= 2 /\ p.pass # 2
      BY <1>0, <3>3
    <3> QED
      BY <2>1, <2>4, <3>2, <3>4 DEF Numbered, Current
  <2> QED
    BY <1>6, <2>3, <2>4 DEF FlipAnswered
<1>7. CASE FirstPassEnds \/ BacksPassEnds \/ MultiPassEnds
  <2>1. /\ UNCHANGED <<kind, round, ledger, spool>> /\ pc = "scan"
        /\ pc' \in {"handle", "flip", "filter", "pair", "decide"}
        /\ pc' = "flip" => kind = "duplex"
    BY <1>7 DEF FirstPassEnds, BacksPassEnds, MultiPassEnds, EndsAs, ToFilter, acquisition
  <2> QED
    BY <2>1 DEF Numbered, Current, Acquiring, Scanning
<1>8. CASE AcceptPass \/ DiscardPass
  <2>1. pc = "decide" /\ pc' = "between" /\ round' = round /\ spool' \subseteq spool
    BY <1>8 DEF AcceptPass, DiscardPass
  <2> QED
    BY <2>1 DEF Numbered, Acquiring, Scanning
<1>9. CASE NextPass
  <2>1. /\ pc = "between" /\ pc' = "scan" /\ round' = round + 1 /\ spool' = spool
        /\ kind' = kind /\ kind = "multi"
    BY <1>9 DEF NextPass, TypeOK, PassesInFlight
  <2>2. \A p \in spool : p.pass <= round
    BY <2>1 DEF Numbered, Acquiring, Scanning
  <2>3. \A p \in spool : p.pass <= round + 1 /\ p.pass # round + 1
    BY <1>0, <2>2
  <2> QED
    BY <2>1, <2>3 DEF Numbered
<1>10. CASE /\ pc' \notin Acquiring \cup {"open"} /\ spool' \subseteq spool
  BY <1>10 DEF Numbered, Acquiring, Scanning
<1>11. CASE FinishPasses \/ FinishDocument \/ FinishMismatch
  BY <1>10, <1>11 DEF FinishPasses, FinishDocument, FinishMismatch, EndsAs, ToFilter, Deliver, Acquiring,
     Scanning
<1>12. CASE StartLeg \/ InCall \/ LegReturns \/ LegRaises \/ SettleDelivered \/ StageDelivered
  BY <1>10, <1>12 DEF StartLeg, InCall, LegReturns, LegRaises, SettleDelivered, StageDelivered, Acquiring,
     Scanning
<1>13. CASE StepFails \/ Interrupt \/ CtrlC \/ HandleCancel \/ HandleFailure \/ ReportFailure
  BY <1>10, <1>13 DEF StepFails, Interrupt, CtrlC, HandleCancel, HandleFailure, ReportFailure, EndsAs,
     workspace, Acquiring, Scanning
<1>14. CASE KeepItem \/ KeepPageFile
  BY <1>10, <1>14 DEF KeepItem, KeepPageFile, Acquiring, Scanning
<1>15. CASE Killed \/ LeaveWorkspace \/ SweepFinds \/ SweepLeaves
  BY <1>10, <1>15 DEF Killed, LeaveWorkspace, SweepFinds, SweepLeaves, Acquiring, Scanning
<1> QED
  BY <1>1, <1>2, <1>3, <1>4, <1>5, <1>6, <1>7, <1>8, <1>9, <1>11, <1>12, <1>13, <1>14, <1>15
     DEF Next, RunStep
-----------------------------------------------------------------------------
(* What is handed over. *)

\* What HandInv says beside the types.
HandRest ==
    /\ CallIsOfLeg /\ NothingHanded /\ LegsAreAhead /\ Once /\ FailureIsKnown /\ FailureIsTold
    /\ ErrorIsTrue

\* What was handed over of a PDF nobody has started to send.
LEMMA FreshIsNothing ==
    ASSUME ClientTypeOK, NEW n \in Names
    PROVE  /\ Handed(n) \in Nat /\ (Handed(n) = 0 <=> Fresh(n))
           /\ Taken(n) => Handed(n) = 1 /\ art.accepted[n] # "no"
           /\ taken[n] <= 1 /\ dropped[n] = "no" => Handed(n) <= 1
           /\ taken[n] = 0 => Handed(n) <= 1
<1>1. taken[n] \in Nat /\ dropped[n] \in {"no", "whole"}
  BY DEF ClientTypeOK
<1> QED
  BY <1>1 DEF Handed, Fresh, Taken

\* The start of a run, with nothing handed over.
LEMMA InitHands == Init => HandRest
<1> SUFFICES ASSUME Init PROVE HandRest
  OBVIOUS
<1>1. TypeOK
  BY InitTypes
<1>2. \A n \in Names : Fresh(n) /\ art.accepted[n] = "no"
  BY DEF Init, ClientInit, Fresh, NoArtefacts
<1>3. \A n \in Names : Handed(n) = 0
  BY <1>1, <1>2, FreshIsNothing DEF TypeOK
<1>4. pc = "open" /\ outcome = "none" /\ halves = <<>> /\ art.pdfs = <<>> /\ art.stage = "ACQUIRING" /\ call = NoCall
  BY DEF Init, ClientInit, NoArtefacts
<1> QED
  BY <1>2, <1>3, <1>4 DEF HandRest, CallIsOfLeg, NothingHanded, LegsAreAhead, Once, FailureIsKnown,
     FailureIsTold, ErrorIsTrue, Failing

\* Nothing handed over, and the stage of a run before its delivery.
LEMMA BeforeKeeps ==
    ASSUME TypeOK, HandRest, pc \in Before, pc' \in Before,
           UNCHANGED <<clientVars, outcome, halves>>,
           art'.accepted = art.accepted, art'.pdfs = art.pdfs,
           art'.stage \in {"ACQUIRING", "FILTERING", "ASSEMBLING"}
    PROVE  HandRest'
<1>0. UNCHANGED <<call, taken, dropped>>
  BY DEF clientVars, server
<1>1. /\ \A n \in Names : Fresh(n) /\ art.accepted[n] = "no"
      /\ art.pdfs = <<>> /\ outcome = "none" /\ halves = <<>>
  BY DEF HandRest, NothingHanded
<1>2. call = NoCall
  BY DEF HandRest, CallIsOfLeg, Before, Acquiring, Scanning
<1>3. \A n \in Names : Handed(n)' = Handed(n)
  BY <1>0 DEF Handed
<1>4. CallIsOfLeg' /\ NothingHanded'
  BY <1>0, <1>1, <1>2 DEF CallIsOfLeg, NothingHanded, Fresh
<1>5. LegsAreAhead' /\ FailureIsKnown' /\ FailureIsTold'
  BY DEF LegsAreAhead, FailureIsKnown, FailureIsTold, Before, Acquiring, Scanning
<1>6. Once' /\ ErrorIsTrue'
  BY <1>1, <1>3 DEF HandRest, Once, ErrorIsTrue, Failing
<1> QED
  BY <1>4, <1>5, <1>6 DEF HandRest

\* A run that ends before its delivery.
LEMMA BeforeEnds ==
    ASSUME TypeOK, HandRest, pc \in Before, pc' = "handle",
           UNCHANGED <<taken, dropped, halves>>, call' = NoCall,
           outcome' \in {"failed", "blank", "interrupted", "cancelled"},
           art'.stage \in {"ACQUIRING", "FILTERING", "ASSEMBLING"}
    PROVE  HandRest'
<1>1. (\A n \in Names : Fresh(n)) /\ halves = <<>>
  BY DEF HandRest, NothingHanded
<1>2. \A n \in Names : Handed(n) = 0
  BY <1>1, FreshIsNothing DEF TypeOK
<1>3. \A n \in Names : Handed(n)' = 0
  BY <1>2 DEF Handed
<1>4. CallIsOfLeg' /\ NothingHanded' /\ LegsAreAhead' /\ FailureIsTold'
  BY DEF CallIsOfLeg, NothingHanded, LegsAreAhead, FailureIsTold, Before, Acquiring, Scanning
<1>5. FailureIsKnown'
  BY <1>3 DEF FailureIsKnown, Failing
<1>6. Once' /\ ErrorIsTrue'
  BY <1>1, <1>3 DEF Once, ErrorIsTrue, Failing
<1> QED
  BY <1>4, <1>5, <1>6 DEF HandRest

\* The steps of an acquisition.
LEMMA AcquisitionHands ==
    ASSUME TypeOK, HandRest,
           \/ OpenWorkspace \/ SpoolPage \/ SheetMissed \/ SheetUnreadable \/ FirstPassEnds
           \/ FlipAnswered \/ BacksPassEnds \/ MultiPassEnds \/ AcceptPass \/ DiscardPass
           \/ NextPass \/ FinishPasses
    PROVE  HandRest'
<1> DEFINE Stays == /\ pc' \in Before /\ UNCHANGED <<outcome, halves>>
           Ends == pc' = "handle" /\ outcome' \in {"failed", "cancelled"} /\ halves' = halves
           SameArt == /\ art'.accepted = art.accepted /\ art'.pdfs = art.pdfs
                      /\ art'.stage \in {art.stage, "FILTERING", "ASSEMBLING"}
<1>0. pc \in Before /\ UNCHANGED clientVars
  BY DEF OpenWorkspace, SpoolPage, Feed, SheetMissed, SheetUnreadable, FirstPassEnds, FlipAnswered,
     BacksPassEnds, MultiPassEnds, AcceptPass, DiscardPass, NextPass, FinishPasses, Goto, Before,
     Acquiring, Scanning
<1>1. art \in Artefacts
  BY DEF TypeOK, ArtTypeOK
<1>2. \A how \in {"failed", "cancelled"} : EndsAs(how) => Ends
  BY DEF EndsAs
<1>3. KeepEnding => UNCHANGED <<outcome, halves>>
  BY DEF KeepEnding, ending
<1> DEFINE Same(a, stages) == a.accepted = art.accepted /\ a.pdfs = art.pdfs /\ a.stage \in stages
<1>4. ASSUME NEW a \in {art, Counting(art, 1), Counting(art, 2)}
      PROVE  /\ Same(a, {art.stage})
             /\ \A d : Same([a EXCEPT !.stage = "FILTERING", !.document = d], {"FILTERING"})
             /\ Same([a EXCEPT !.stage = "ASSEMBLING"], {"ASSEMBLING"})
  <2>1. CASE a = art
    BY <1>1, <2>1 DEF Artefacts
  <2>2. CASE \E i \in {1, 2} : a = Counting(art, i)
    <3>1. PICK u : a = [art EXCEPT !.unreadable = u]
      BY <2>2 DEF Counting
    <3> QED
      BY <1>1, <3>1 DEF Artefacts
  <2> QED
    BY <2>1, <2>2
<1>5. CASE FirstPassEnds
  <2>1. PICK counted \in {art, Counting(art, 1)} :
          \/ EndsAs("failed") /\ art' = counted
          \/ pc' = "flip" /\ art' = counted /\ KeepEnding
          \/ /\ art' = [counted EXCEPT !.stage = "FILTERING", !.document = ledger[1].pages]
             /\ pc' = "filter" /\ KeepEnding
    BY <1>5 DEF FirstPassEnds
  <2>2. SameArt
    <3> HIDE DEF Same
    <3>1. /\ Same(counted, {art.stage})
          /\ Same([counted EXCEPT !.stage = "FILTERING", !.document = ledger[1].pages], {"FILTERING"})
      BY <1>4
    <3>2. Same(art', {art.stage}) \/ Same(art', {"FILTERING"})
      BY <2>1, <3>1
    <3> QED
      BY <3>2 DEF Same
  <2>3. Stays \/ Ends
    BY <1>2, <1>3, <2>1 DEF Before, Acquiring, Scanning
  <2> QED
    BY <1>0, <2>2, <2>3, BeforeKeeps, BeforeEnds DEF HandRest, NothingHanded, CallIsOfLeg, clientVars,
       server, Before, Acquiring, Scanning
<1>6. CASE BacksPassEnds
  <2>1. \/ EndsAs("failed") /\ art' = Counting(art, 2)
        \/ \E d : art' = [art EXCEPT !.stage = "FILTERING", !.document = d]
                  /\ pc' = "filter" /\ KeepEnding
        \/ art' = [Counting(art, 2) EXCEPT !.stage = "ASSEMBLING"] /\ pc' = "pair" /\ KeepEnding
    BY <1>6 DEF BacksPassEnds, ToFilter
  <2>2. SameArt
    <3> HIDE DEF Same
    <3>1. \E stages \in {{art.stage}, {"FILTERING"}, {"ASSEMBLING"}} : Same(art', stages)
      BY <1>4, <2>1
    <3> QED
      BY <3>1 DEF Same
  <2>3. Stays \/ Ends
    BY <1>2, <1>3, <2>1 DEF Before, Acquiring, Scanning
  <2> QED
    BY <1>0, <2>2, <2>3, BeforeKeeps, BeforeEnds DEF HandRest, NothingHanded, CallIsOfLeg, clientVars,
       server, Before, Acquiring, Scanning
<1>7. CASE FinishPasses
  <2>1. \/ EndsAs("cancelled") /\ art' = art
        \/ /\ art' = [art EXCEPT !.stage = "FILTERING", !.document = art.document]
           /\ pc' = "filter" /\ KeepEnding
    BY <1>7 DEF FinishPasses, ToFilter
  <2>2. SameArt
    <3> HIDE DEF Same
    <3>1. \E stages \in {{art.stage}, {"FILTERING"}, {"ASSEMBLING"}} : Same(art', stages)
      BY <1>4, <2>1
    <3> QED
      BY <3>1 DEF Same
  <2>3. Stays \/ Ends
    BY <1>2, <1>3, <2>1 DEF Before
  <2> QED
    BY <1>0, <2>2, <2>3, BeforeKeeps, BeforeEnds DEF HandRest, NothingHanded, CallIsOfLeg, clientVars,
       server, Before, Acquiring, Scanning
<1>8. CASE AcceptPass
  <2>1. pc' \in Before /\ UNCHANGED <<outcome, halves>>
    BY <1>8 DEF AcceptPass, ending, Before, Acquiring
  <2>2. SameArt
    <3> DEFINE d == art.document \o ledger[1].pages
               u == art.unreadable + ledger[1].lost
    <3>1. art' = [art EXCEPT !.document = d, !.unreadable = u]
      BY <1>8 DEF AcceptPass
    <3> HIDE DEF d, u
    <3> QED
      BY <1>1, <3>1 DEF Artefacts
  <2> QED
    BY <1>0, <2>1, <2>2, BeforeKeeps DEF HandRest, NothingHanded
<1>9. CASE FlipAnswered
  <2>1. art' = art /\ (Stays \/ Ends)
    <3>1. \A how \in {"failed", "cancelled"} : EndsAs(how) => Ends
      BY <1>2
    <3>2. CASE pc' = "scan" /\ KeepEnding
      BY <1>3, <1>9, <3>2 DEF FlipAnswered, Before, Acquiring, Scanning
    <3> QED
      BY <1>9, <3>1, <3>2 DEF FlipAnswered
  <2> QED
    BY <1>0, <2>1, BeforeKeeps, BeforeEnds DEF HandRest, NothingHanded, CallIsOfLeg, clientVars,
       server, Before, Acquiring, Scanning
<1>10. CASE \/ OpenWorkspace \/ SpoolPage \/ SheetMissed \/ SheetUnreadable \/ MultiPassEnds
            \/ DiscardPass \/ NextPass
  <2>1. art' = art /\ pc' \in Before /\ UNCHANGED <<outcome, halves>>
    BY <1>10 DEF OpenWorkspace, SpoolPage, Feed, SheetMissed, SheetUnreadable, MultiPassEnds, DiscardPass,
       NextPass, Goto, ending, Before, Acquiring, Scanning
  <2> QED
    BY <1>0, <2>1, BeforeKeeps DEF HandRest, NothingHanded
<1> QED
  BY <1>5, <1>6, <1>7, <1>8, <1>9, <1>10

\* The document, or the two halves, go to the delivery.
LEMMA DeliverHands ==
    ASSUME TypeOK, HandRest, pc \in {"filter", "pair"}, UNCHANGED clientVars,
           NEW pdfs, NEW steps, Deliver(pdfs, steps),
           \/ steps \in DocumentLegs /\ UploadsOf(steps) = {"document"}
                 /\ Len(pdfs) = 1 /\ {pdfs[i].name : i \in DOMAIN pdfs} = {"document"}
           \/ steps \in HalvesLegs /\ UploadsOf(steps) = {"fronts", "backs"}
                 /\ Len(pdfs) = 2 /\ {pdfs[i].name : i \in DOMAIN pdfs} = {"fronts", "backs"}
    PROVE  HandRest'
<1>0. /\ UNCHANGED <<call, taken, dropped, outcome, halves>> /\ pc' = "deliver" /\ legs' = steps
      /\ art' = [art EXCEPT !.stage = "DELIVERING", !.pdfs = pdfs] /\ art \in Artefacts
  BY DEF clientVars, server, Deliver, KeepEnding, ending, TypeOK, ArtTypeOK
<1>1. /\ \A n \in Names : Fresh(n) /\ art.accepted[n] = "no"
      /\ outcome = "none" /\ halves = <<>>
  BY DEF HandRest, NothingHanded, Before
<1>2. call = NoCall
  BY DEF HandRest, CallIsOfLeg
<1>3. art'.stage = "DELIVERING" /\ art'.pdfs = pdfs /\ art'.accepted = art.accepted
  BY <1>0 DEF Artefacts
<1>4. \A n \in Names : Fresh(n)' /\ Handed(n)' = Handed(n)
  BY <1>0, <1>1 DEF Fresh, Handed
<1>5. ToUpload' = UploadsOf(steps) /\ PdfNames' = {pdfs[i].name : i \in DOMAIN pdfs}
  BY <1>0, <1>3 DEF ToUpload, UploadsOf, PdfNames
<1>6. LegsAreAhead'
  <2>1. PdfNames' \ ToUpload' = {}
    BY <1>5
  <2> QED
    BY ZenonT(40), <1>0, <1>1, <1>3, <1>4, <1>5, <2>1 DEF LegsAreAhead, ToUpload, UploadsOf
<1>7. CallIsOfLeg' /\ NothingHanded' /\ FailureIsKnown' /\ FailureIsTold'
  BY <1>0, <1>2 DEF CallIsOfLeg, NothingHanded, FailureIsKnown, FailureIsTold, Before, Acquiring, Scanning
<1>8. Once' /\ ErrorIsTrue'
  BY <1>0, <1>1, <1>4 DEF HandRest, Once, ErrorIsTrue, Failing
<1> QED
  BY <1>6, <1>7, <1>8 DEF HandRest

\* From the pages to the delivery.
LEMMA FinishHands == TypeOK /\ HandRest /\ (FinishDocument \/ FinishMismatch) => HandRest'
<1> SUFFICES ASSUME TypeOK, HandRest, FinishDocument \/ FinishMismatch PROVE HandRest'
  OBVIOUS
<1>0. pc \in {"filter", "pair"} /\ UNCHANGED clientVars /\ {"document", "fronts", "backs"} \subseteq Names
  BY DeliveryAssumption DEF FinishDocument, FinishMismatch
<1>1. art.stage \in {"ACQUIRING", "FILTERING", "ASSEMBLING"} /\ call = NoCall /\ art \in Artefacts
  BY <1>0 DEF HandRest, NothingHanded, CallIsOfLeg, Before, TypeOK, ArtTypeOK
<1>2. ASSUME NEW how \in {"failed", "blank"}, EndsAs(how),
             art' = art \/ art' = [art EXCEPT !.stage = "ASSEMBLING"]
      PROVE  HandRest'
  <2>1. art'.stage \in {"ACQUIRING", "FILTERING", "ASSEMBLING"}
    BY <1>1, <1>2 DEF Artefacts
  <2>2. pc' = "handle" /\ outcome' = how /\ halves' = halves
    BY <1>2 DEF EndsAs
  <2>3. call' = NoCall /\ UNCHANGED <<taken, dropped>> /\ pc \in Before
    BY <1>0, <1>1 DEF clientVars, server, Before
  <2> QED
    BY <1>2, <2>1, <2>2, <2>3, BeforeEnds
<1>3. CASE FinishDocument
  <2>1. CASE \E left : Deliver(<<Assembled("document", left)>>,
                               <<Leg("upload", "document"), Leg("poll", "document")>>)
    <3>1. PICK left : Deliver(<<Assembled("document", left)>>,
                              <<Leg("upload", "document"), Leg("poll", "document")>>)
      BY <2>1
    <3> DEFINE pdfs == <<Assembled("document", left)>>
               steps == <<Leg("upload", "document"), Leg("poll", "document")>>
    <3>2. steps \in DocumentLegs
      BY DEF DocumentLegs
    <3>3. UploadsOf(steps) = {"document"}
      BY <1>0, UploadsAmong, LegNames
    <3>4. Len(pdfs) = 1 /\ {pdfs[i].name : i \in DOMAIN pdfs} = {"document"}
      BY DEF Assembled, Item
    <3> HIDE DEF pdfs, steps
    <3>5. Deliver(pdfs, steps)
      BY <3>1 DEF pdfs, steps
    <3> QED
      BY <1>0, <3>2, <3>3, <3>4, <3>5, DeliverHands
  <2> QED
    BY <1>2, <1>3, <2>1 DEF FinishDocument
<1>4. CASE FinishMismatch
  <2>1. CASE \E f, b : Deliver(<<Assembled("fronts", f), Assembled("backs", b)>>,
                               <<Leg("upload", "fronts"), Leg("upload", "backs"),
                                 Leg("poll", "fronts"), Leg("poll", "backs")>>)
    <3>1. PICK f, b : Deliver(<<Assembled("fronts", f), Assembled("backs", b)>>,
                               <<Leg("upload", "fronts"), Leg("upload", "backs"),
                                 Leg("poll", "fronts"), Leg("poll", "backs")>>)
      BY <2>1
    <3> DEFINE pdfs == <<Assembled("fronts", f), Assembled("backs", b)>>
               steps == <<Leg("upload", "fronts"), Leg("upload", "backs"),
                          Leg("poll", "fronts"), Leg("poll", "backs")>>
    <3>2. steps \in HalvesLegs
      BY DEF HalvesLegs
    <3>3. UploadsOf(steps) = {"fronts", "backs"}
      BY <1>0, UploadsAmong, LegNames
    <3>4. Len(pdfs) = 2 /\ {pdfs[i].name : i \in DOMAIN pdfs} = {"fronts", "backs"}
      BY DEF Assembled, Item
    <3> HIDE DEF pdfs, steps
    <3>5. Deliver(pdfs, steps)
      BY <3>1 DEF pdfs, steps
    <3> QED
      BY <1>0, <3>2, <3>3, <3>4, <3>5, DeliverHands
  <2> QED
    BY <1>2, <1>4, <2>1 DEF FinishMismatch
<1> QED
  BY <1>3, <1>4

\* What one step of the client changes: the PDF it is about, and its place.
LEMMA CallEffects ==
    ASSUME TypeOK, CallStep, NEW n \in Names, call.pdf = n
    PROVE  /\ call'.op = call.op /\ call'.pdf = n
           /\ \A m \in Names \ {n} : taken'[m] = taken[m] /\ dropped'[m] = dropped[m]
           /\ call.op = "upload" /\ UploadAt(n) => UploadAt(n)'
           /\ call.op = "poll" /\ PollAt(n) => PollAt(n)' /\ taken' = taken /\ dropped' = dropped
<1>1. /\ call \in Call /\ taken \in [Names -> Nat] /\ dropped \in [Names -> {"no", "whole"}]
      /\ taken[n] \in Nat
  BY DEF TypeOK, ClientTypeOK
<1>2. ASSUME NEW place, Goes(place)
      PROVE  /\ call'.op = call.op /\ call'.pdf = n /\ call'.at = place /\ call'.result = call.result
  BY <1>1, <1>2 DEF Goes, Call
<1>3. ASSUME NEW result, Returns(result)
      PROVE  /\ call'.op = call.op /\ call'.pdf = n /\ call'.at = "done" /\ call'.result = result
  BY <1>1, <1>3 DEF Returns, Call
<1>4. CASE NothingArrives \/ VersionRefused \/ AnswerLost \/ Vanishes \/ FallBack
  <2>1. /\ UNCHANGED <<taken, dropped>> /\ call.op = "upload" /\ call.at \in {"send", "sent", "fall back"}
        /\ call.at = "sent" => AnswerLost
        /\ call.at = "fall back" => FallBack
    BY <1>4 DEF NothingArrives, VersionRefused, AnswerLost, Vanishes, FallBack, At, server
  <2>2. /\ call'.op = call.op /\ call'.pdf = n
        /\ \/ call.at = "send" /\ call'.at \in {"send", "sent", "fall back"} /\ call'.result = call.result
           \/ call'.at = "done" /\ call'.result \in {"unsent", "incompatible"} /\ call.at # "sent"
           \/ call.at = "sent" /\ call'.at = "done" /\ call'.result = "uncertain"
           \/ call.at = "fall back" /\ call'.at = "copying" /\ call'.result = call.result
    <3>1. CASE NothingArrives
      <4>1. CASE call' = [call EXCEPT !.sends = @ + 1]
        BY <1>1, <3>1, <4>1 DEF NothingArrives, At, Call
      <4> QED
        BY <1>2, <1>3, <3>1, <4>1 DEF NothingArrives, At
    <3>2. CASE VersionRefused
      <4>1. CASE call' = [call EXCEPT !.asks = "oldest"]
        BY <1>1, <3>2, <4>1 DEF VersionRefused, At, Call
      <4> QED
        BY <1>3, <3>2, <4>1 DEF VersionRefused, At
    <3>3. CASE AnswerLost
      BY <1>3, <3>3 DEF AnswerLost, At
    <3>4. CASE Vanishes
      BY <1>2, <3>4 DEF Vanishes, At
    <3>5. CASE FallBack
      BY <1>2, <1>3, <3>5 DEF FallBack, At
    <3> QED
      BY <1>4, <3>1, <3>2, <3>3, <3>4, <3>5
  <2>3. ASSUME UploadAt(n) PROVE UploadAt(n)'
    <3>1. /\ call.result = "none" /\ taken'[n] = taken[n] /\ dropped'[n] = dropped[n]
          /\ call.at # "sent" => taken[n] = 0
          /\ taken[n] <= 1 /\ dropped[n] = "no"
      <4>1. CASE call.at = "sent"
        BY <2>1, <2>3, <4>1 DEF UploadAt
      <4>2. CASE call.at \in {"send", "fall back"}
        <5>1. call.result = "none" /\ Fresh(n)
          BY <2>3, <4>2 DEF UploadAt
        <5>2. taken' = taken /\ dropped' = dropped
          BY <2>1
        <5>3. taken[n] = 0 /\ dropped[n] = "no"
          BY <5>1 DEF Fresh
        <5>4. taken[n] <= 1
          BY <5>3
        <5> QED
          BY <5>1, <5>2, <5>3, <5>4
      <4> QED
        BY <2>1, <4>1, <4>2
    <3>2. CASE call'.at = "sent"
      BY <2>2, <3>1, <3>2 DEF UploadAt
    <3>3. CASE call'.at # "sent" /\ call'.result # "uncertain"
      <4>1. taken'[n] = 0 /\ dropped'[n] = "no"
        BY <2>2, <3>1, <3>3
      <4>2. \/ call'.at \in {"send", "fall back", "copying"} /\ call'.result = "none"
            \/ call'.at = "done" /\ call'.result \in {"unsent", "incompatible"}
        BY <2>2, <3>1, <3>3
      <4> QED
        BY <4>1, <4>2 DEF UploadAt, Fresh
    <3>4. CASE call'.result = "uncertain"
      <4>1. call'.at = "done"
        BY <2>2, <3>1, <3>4
      <4> QED
        BY <3>1, <3>4, <4>1 DEF UploadAt
    <3> QED
      BY <3>2, <3>3, <3>4
  <2> QED
    BY <2>1, <2>2, <2>3
<1>5. CASE CannotSend \/ Refused \/ TaskIdReturned
  <2>1. /\ UNCHANGED <<taken, dropped>> /\ call.op = "upload"
        /\ \/ call.at = "send" /\ call'.result \in {"unsent", "refused"}
           \/ call.at = "sent" /\ taken[n] > 0 /\ call'.result = "api"
        /\ call'.op = call.op /\ call'.pdf = n /\ call'.at = "done"
    BY <1>3, <1>5 DEF CannotSend, Refused, TaskIdReturned, At, server
  <2>2. ASSUME UploadAt(n) PROVE UploadAt(n)'
    <3>1. CASE call.at = "send"
      <4>1. taken'[n] = 0 /\ dropped'[n] = "no" /\ call'.result \in {"unsent", "refused"}
        BY <2>1, <2>2, <3>1 DEF UploadAt, Fresh
      <4> QED
        BY <2>1, <4>1 DEF UploadAt, Fresh
    <3>2. CASE call.at = "sent"
      <4>1. taken[n] <= 1 /\ dropped[n] = "no" /\ taken[n] > 0 /\ call'.result = "api"
        BY <2>1, <2>2, <3>2 DEF UploadAt, Fresh
      <4>2. taken'[n] = 1 /\ dropped'[n] = "no"
        BY <1>1, <2>1, <4>1
      <4> QED
        BY <2>1, <4>1, <4>2 DEF UploadAt
    <3> QED
      BY <2>1, <3>1, <3>2
  <2> QED
    BY <2>1, <2>2
<1>6. CASE Arrives
  <2>1. /\ dropped' = dropped /\ taken' = [taken EXCEPT ![n] = taken[n] + 1]
        /\ call.op = "upload" /\ call.at = "send"
        /\ call'.op = call.op /\ call'.pdf = n /\ call'.at = "sent" /\ call'.result = call.result
    BY <1>2, <1>6 DEF Arrives, At
  <2>2. taken'[n] = taken[n] + 1 /\ \A m \in Names \ {n} : taken'[m] = taken[m]
    BY <1>1, <2>1
  <2>3. ASSUME UploadAt(n) PROVE UploadAt(n)'
    <3>1. call.result = "none" /\ taken[n] = 0 /\ dropped[n] = "no"
      BY <2>1, <2>3 DEF UploadAt, Fresh
    <3>2. call'.at = "sent" /\ call'.result = "none" /\ taken'[n] = 1 /\ dropped'[n] = "no"
      BY <2>1, <2>2, <3>1
    <3> QED
      BY <3>2 DEF UploadAt
  <2> QED
    BY <2>1, <2>2, <2>3
<1>7. CASE CopyToConsumeDir \/ CopyReturns
  <2>1. /\ taken' = taken /\ call.op = "upload" /\ call'.op = call.op /\ call'.pdf = n
        /\ \A m \in Names \ {n} : dropped'[m] = dropped[m]
        /\ \/ /\ call.at = "copying" /\ dropped'[n] = "whole" /\ call'.at = "copied"
              /\ call'.result = call.result
           \/ call.at = "copying" /\ dropped'[n] = dropped[n] /\ call'.at = "done" /\ call'.result = "unsent"
           \/ call.at = "copied" /\ dropped'[n] = dropped[n] /\ call'.at = "done" /\ call'.result = "folder"
    <3>1. CASE CopyReturns
      BY <1>3, <3>1 DEF CopyReturns, At, server
    <3>2. CASE CopyToConsumeDir
      <4>1. taken' = taken /\ call.op = "upload" /\ call.at = "copying"
        BY <3>2 DEF CopyToConsumeDir, At, server
      <4>2. CASE dropped' = [dropped EXCEPT ![call.pdf] = "whole"] /\ Goes("copied")
        BY <1>1, <1>2, <4>1, <4>2
      <4>3. CASE Returns("unsent") /\ UNCHANGED dropped
        BY <1>3, <4>1, <4>3
      <4> QED
        BY <3>2, <4>2, <4>3 DEF CopyToConsumeDir
    <3> QED
      BY <1>7, <3>1, <3>2
  <2>2. ASSUME UploadAt(n) PROVE UploadAt(n)'
    <3>1. CASE call.at = "copying"
      <4>1. call.result = "none" /\ taken[n] = 0 /\ dropped[n] = "no"
        BY <2>2, <3>1 DEF UploadAt, Fresh
      <4>2. taken'[n] = 0
            /\ \/ dropped'[n] = "whole" /\ call'.at = "copied" /\ call'.result = "none"
               \/ dropped'[n] = "no" /\ call'.at = "done" /\ call'.result = "unsent"
        BY <2>1, <3>1, <4>1
      <4> QED
        BY <4>2 DEF UploadAt, Fresh
    <3>2. CASE call.at = "copied"
      <4>1. taken[n] = 0 /\ dropped[n] = "whole"
        BY <2>2, <3>2 DEF UploadAt, Fresh
      <4>2. taken'[n] = 0 /\ dropped'[n] = "whole" /\ call'.at = "done" /\ call'.result = "folder"
        BY <2>1, <3>2, <4>1
      <4> QED
        BY <4>2 DEF UploadAt
    <3> QED
      BY <2>1, <3>1, <3>2
  <2> QED
    BY <2>1, <2>2
<1>8. CASE TaskSeen \/ PollRefused \/ DeadlinePasses
  <2>1. /\ UNCHANGED <<taken, dropped>> /\ call.op = "poll"
        /\ \E result \in {"filed", "duplicate", "unconfirmed", "timeout"} : Returns(result)
    BY <1>8 DEF TaskSeen, PollRefused, DeadlinePasses, At, server
  <2>2. PollAt(n)'
    BY <1>3, <2>1 DEF PollAt
  <2> QED
    BY <1>3, <2>1, <2>2
<1> QED
  BY <1>4, <1>5, <1>6, <1>7, <1>8 DEF CallStep

\* During a delivery: the PDF of the call, and what is known of the others.
LEMMA InDelivery ==
    ASSUME TypeOK, HandRest, pc \in {"deliver", "delivered"}
    PROVE  /\ outcome = "none" /\ halves = <<>> /\ art.stage = "DELIVERING" /\ art \in Artefacts
           /\ PdfNames \subseteq Names /\ ToUpload \subseteq PdfNames
           /\ legs # <<>> =>
                 /\ Head(legs).pdf \in PdfNames
                 /\ Head(legs).op = "upload" =>
                       Head(legs).pdf \in ToUpload /\ UploadsOf(Tail(legs)) = ToUpload \ {Head(legs).pdf}
                 /\ Head(legs).op = "poll" => ToUpload = {} /\ UploadsOf(Tail(legs)) = {}
           /\ legs = <<>> => ToUpload = {}
           /\ \/ legs \in DocumentLegs /\ PdfNames = {"document"} /\ ~Split
              \/ legs \in HalvesLegs /\ PdfNames = {"fronts", "backs"} /\ Split
<1>1. /\ outcome = "none" /\ halves = <<>> /\ art.stage = "DELIVERING" /\ art \in Artefacts
      /\ \/ legs \in DocumentLegs /\ PdfNames = {"document"} /\ ~Split
         \/ legs \in HalvesLegs /\ PdfNames = {"fronts", "backs"} /\ Split
  BY DEF HandRest, LegsAreAhead, TypeOK, ArtTypeOK, Split
<1>2. PdfNames \subseteq Names
  BY <1>1, DeliveryAssumption
<1>3. CASE legs = <<>>
  <2>1. ToUpload = {}
    BY <1>3, UploadsAmong DEF ToUpload
  <2> QED
    BY <1>1, <1>2, <1>3, <2>1
<1>4. CASE legs # <<>> /\ legs \in DocumentLegs /\ PdfNames = {"document"}
  <2>1. \/ /\ Head(legs) = Leg("upload", "document") /\ ToUpload = {"document"}
           /\ UploadsOf(Tail(legs)) = {}
        \/ Head(legs) = Leg("poll", "document") /\ ToUpload = {} /\ UploadsOf(Tail(legs)) = {}
    BY <1>4, DocumentLegsGo DEF ToUpload
  <2> QED
    BY <1>1, <1>2, <1>4, <2>1, LegNames
<1>5. CASE legs # <<>> /\ legs \in HalvesLegs /\ PdfNames = {"fronts", "backs"}
  <2>1. \/ /\ Head(legs) = Leg("upload", "fronts") /\ ToUpload = {"fronts", "backs"}
           /\ UploadsOf(Tail(legs)) = {"backs"}
        \/ /\ Head(legs) = Leg("upload", "backs") /\ ToUpload = {"backs"}
           /\ UploadsOf(Tail(legs)) = {}
        \/ /\ Head(legs) \in {Leg("poll", "fronts"), Leg("poll", "backs")}
           /\ ToUpload = {} /\ UploadsOf(Tail(legs)) = {}
    BY <1>5, HalvesLegsGo DEF ToUpload
  <2> QED
    BY <1>1, <1>2, <1>5, <2>1, LegNames
<1> QED
  BY <1>1, <1>3, <1>4, <1>5

\* The client makes a step of the call.
LEMMA InCallHands == TypeOK /\ HandRest /\ InCall => HandRest'
<1> SUFFICES ASSUME TypeOK, HandRest, InCall PROVE HandRest'
  OBVIOUS
<1>1. /\ pc = "deliver" /\ CallStep
      /\ UNCHANGED <<pc, art, legs, outcome, halves, warned>>
  BY DEF InCall, ending, keeping
<1>2. call.op # "none" /\ call # NoCall
  <2>1. call.op \in {"upload", "poll"}
    BY <1>1 DEF CallStep, NothingArrives, CannotSend, VersionRefused, Refused, Arrives, Vanishes,
       AnswerLost, TaskIdReturned, FallBack, CopyToConsumeDir, CopyReturns, TaskSeen, PollRefused,
       DeadlinePasses, At
  <2> QED
    BY <2>1 DEF NoCall
<1>3. PICK n : /\ n = call.pdf /\ legs # <<>>
               /\ call.op = "upload" \/ call.op = "poll"
               /\ Head(legs) = Leg(call.op, n)
               /\ call.op = "upload" => UploadAt(n)
               /\ call.op = "poll" => PollAt(n)
  BY <1>2 DEF HandRest, CallIsOfLeg
<1>4. Head(legs).op = call.op /\ Head(legs).pdf = n
  BY <1>3, LegNames
<1>5. /\ n \in PdfNames /\ n \in Names /\ PdfNames \subseteq Names /\ outcome = "none" /\ halves = <<>>
      /\ call.op = "upload" => n \in ToUpload
      /\ call.op = "poll" => ToUpload = {}
  BY <1>1, <1>3, <1>4, InDelivery
<1>6. /\ call'.op = call.op /\ call'.pdf = n
      /\ \A m \in Names \ {n} : taken'[m] = taken[m] /\ dropped'[m] = dropped[m]
      /\ call.op = "upload" => UploadAt(n)'
      /\ call.op = "poll" => PollAt(n)' /\ taken' = taken /\ dropped' = dropped
  BY <1>1, <1>3, <1>5, CallEffects
<1>7. CallIsOfLeg'
  BY <1>1, <1>3, <1>6 DEF CallIsOfLeg
<1>8. NothingHanded' /\ FailureIsKnown' /\ FailureIsTold'
  BY <1>1 DEF NothingHanded, FailureIsKnown, FailureIsTold, Before, Acquiring, Scanning
<1>9. PdfNames' = PdfNames /\ ToUpload' = ToUpload
  BY <1>1 DEF PdfNames, ToUpload, UploadsOf
<1>10. LegsAreAhead'
  <2>1. \A m \in Names \ {n} : (Fresh(m)' <=> Fresh(m)) /\ (Taken(m)' <=> Taken(m))
    BY <1>1, <1>6 DEF Fresh, Taken
  <2>2. \A m \in Names \ PdfNames : Fresh(m)' /\ art'.accepted[m] = "no"
    BY <1>1, <1>5, <2>1 DEF HandRest, LegsAreAhead
  <2>3. \A m \in ToUpload : (Uploading(m)' \/ Fresh(m)') /\ art'.accepted[m] = "no"
    <3>1. ASSUME NEW m \in ToUpload, m # n PROVE Fresh(m)' /\ art'.accepted[m] = "no"
      <4>1. m \in Names /\ ~Uploading(m)
        BY <1>3, <3>1 DEF ToUpload, UploadsOf, Uploading
      <4>2. Fresh(m) /\ art.accepted[m] = "no"
        BY <1>1, <3>1, <4>1 DEF HandRest, LegsAreAhead
      <4> QED
        BY <1>1, <2>1, <3>1, <4>1, <4>2
    <3>2. call.op = "upload" => Uploading(n)' /\ art'.accepted[n] = "no"
      BY <1>1, <1>5, <1>6 DEF HandRest, LegsAreAhead, Uploading
    <3> QED
      BY <1>3, <1>5, <3>1, <3>2
  <2>4. \A m \in PdfNames \ ToUpload : Taken(m)'
    <3>1. CASE call.op = "upload"
      BY <1>1, <1>5, <2>1, <3>1 DEF HandRest, LegsAreAhead
    <3>2. CASE call.op = "poll"
      BY <1>1, <1>6, <3>2 DEF HandRest, LegsAreAhead, Taken
    <3> QED
      BY <1>3, <3>1, <3>2
  <2> QED
    BY <1>1, <1>9, <2>2, <2>3, <2>4 DEF HandRest, LegsAreAhead
<1>11. Once'
  <2>1. ClientTypeOK'
    BY <1>1, CallTypes
  <2>2. ASSUME NEW m \in Names \ {n} PROVE Handed(m)' <= 1
    BY <1>6 DEF HandRest, Once, Handed
  <2>3. Handed(n)' <= 1
    <3>1. CASE call.op = "upload"
      <4>1. taken'[n] \in Nat /\ dropped'[n] \in {"no", "whole"}
        BY <1>5, <2>1 DEF ClientTypeOK
      <4>a. UploadAt(n)'
        BY <1>6, <3>1
      <4>2. (taken'[n] <= 1 /\ dropped'[n] = "no") \/ taken'[n] = 0
        <5>1. \/ (taken'[n] <= 1 \/ taken'[n] \in {0, 1}) /\ dropped'[n] = "no"
              \/ taken'[n] = 0
          BY <4>a, Zenon DEF UploadAt, Fresh
        <5> QED
          BY <4>1, <5>1
      <4> QED
        BY <4>1, <4>2 DEF Handed
    <3>2. CASE call.op = "poll"
      BY <1>5, <1>6, <3>2 DEF HandRest, Once, Handed
    <3> QED
      BY <1>3, <3>1, <3>2
  <2> QED
    BY <2>2, <2>3 DEF Once
<1>12. ErrorIsTrue'
  BY <1>1, <1>5 DEF ErrorIsTrue, Failing
<1> QED
  BY <1>7, <1>8, <1>10, <1>11, <1>12 DEF HandRest

\* A leg starts.
LEMMA StartLegHands == TypeOK /\ HandRest /\ StartLeg => HandRest'
<1> SUFFICES ASSUME TypeOK, HandRest, StartLeg PROVE HandRest'
  OBVIOUS
<1> DEFINE leg == Head(legs)
<1>1. /\ pc = "deliver" /\ pc' = pc /\ legs # <<>> /\ call = NoCall
      /\ UNCHANGED <<art, outcome, halves, warned, taken, dropped>>
      /\ \/ leg.op = "upload" /\ StartUpload(leg.pdf) /\ legs' = legs
         \/ leg.op = "poll" /\ StartPoll(leg.pdf) /\ legs' = legs
         \/ leg.op # "upload" /\ legs' = Tail(legs) /\ call' = call
  BY DEF StartLeg, StartUpload, StartPoll, clientVars, server, ending, keeping
<1>2. /\ PdfNames \subseteq Names /\ leg.pdf \in PdfNames
      /\ leg.op = "upload" => leg.pdf \in ToUpload
      /\ leg.op = "poll" => ToUpload = {} /\ UploadsOf(Tail(legs)) = {}
      /\ outcome = "none" /\ halves = <<>>
  BY <1>1, InDelivery
<1>3. leg.op \in {"upload", "poll"} /\ leg = Leg(leg.op, leg.pdf)
  <2>1. CASE legs \in DocumentLegs
    BY <1>1, <2>1, DocumentLegsGo, LegNames
  <2>2. CASE legs \in HalvesLegs
    BY <1>1, <2>2, HalvesLegsGo, LegNames
  <2> QED
    BY <1>1, <2>1, <2>2 DEF HandRest, LegsAreAhead
<1>4. \A n \in Names : Handed(n)' = Handed(n) /\ (Fresh(n)' <=> Fresh(n)) /\ (Taken(n)' <=> Taken(n))
  BY <1>1 DEF Handed, Fresh, Taken
<1>5. \A n \in ToUpload : n \in Names /\ Fresh(n) /\ art.accepted[n] = "no"
  BY <1>1 DEF HandRest, LegsAreAhead, Uploading, NoCall, ToUpload, UploadsOf
<1>6. /\ \A n \in Names \ PdfNames : Fresh(n) /\ art.accepted[n] = "no"
      /\ \A n \in PdfNames \ ToUpload : Taken(n)
  BY <1>1 DEF HandRest, LegsAreAhead
<1>7. ToUpload' = ToUpload /\ PdfNames' = PdfNames
  BY <1>1, <1>2, <1>3 DEF ToUpload, PdfNames, UploadsOf
<1>8. CallIsOfLeg'
  <2>1. CASE leg.op = "upload" /\ StartUpload(leg.pdf) /\ legs' = legs
    <3>1. call'.op = "upload" /\ call'.pdf = leg.pdf /\ call'.at = "send" /\ call'.result = "none"
      BY <2>1 DEF StartUpload, NoCall
    <3>2. taken[leg.pdf] = 0 /\ dropped[leg.pdf] = "no"
      BY <1>2, <1>5, <2>1 DEF Fresh
    <3>3. UploadAt(call.pdf)'
      BY <1>1, <3>1, <3>2 DEF UploadAt, Fresh
    <3>4. Head(legs') = Leg(call'.op, call'.pdf)
      BY <1>3, <2>1, <3>1
    <3> QED
      BY <1>1, <2>1, <3>1, <3>3, <3>4 DEF CallIsOfLeg
  <2>2. CASE leg.op = "poll" /\ StartPoll(leg.pdf) /\ legs' = legs
    <3>1. call'.op = "poll" /\ call'.pdf = leg.pdf /\ call'.at = "ask" /\ call'.result = "none"
      BY <2>2 DEF StartPoll, NoCall
    <3> QED
      BY <1>1, <1>3, <2>2, <3>1 DEF CallIsOfLeg, PollAt
  <2>3. CASE call' = call
    BY <1>1, <2>3 DEF CallIsOfLeg
  <2> QED
    BY <1>1, <2>1, <2>2, <2>3
<1>9. NothingHanded' /\ FailureIsKnown' /\ FailureIsTold'
  BY <1>1 DEF NothingHanded, FailureIsKnown, FailureIsTold, Before, Acquiring, Scanning
<1>10. LegsAreAhead'
  <2>1. \/ legs' \in DocumentLegs /\ PdfNames = {"document"} /\ Len(art.pdfs) = 1
        \/ legs' \in HalvesLegs /\ PdfNames = {"fronts", "backs"} /\ Len(art.pdfs) = 2
    BY <1>1, DocumentLegsGo, HalvesLegsGo DEF HandRest, LegsAreAhead
  <2>2. \A n \in ToUpload' : Fresh(n)' /\ art'.accepted[n] = "no"
    BY <1>1, <1>4, <1>5, <1>7
  <2>3. \A n \in Names \ PdfNames' : Fresh(n)' /\ art'.accepted[n] = "no"
    BY <1>1, <1>4, <1>6, <1>7
  <2>4. \A n \in PdfNames' \ ToUpload' : Taken(n)'
    BY <1>2, <1>4, <1>6, <1>7
  <2> QED
    BY <1>1, <1>2, <1>7, <2>1, <2>2, <2>3, <2>4 DEF HandRest, LegsAreAhead
<1>11. Once' /\ ErrorIsTrue'
  BY <1>1, <1>2, <1>4 DEF HandRest, Once, ErrorIsTrue, Failing
<1> QED
  BY <1>8, <1>9, <1>10, <1>11 DEF HandRest

\* A leg returns, and how its PDF was taken is recorded.
LEMMA LegReturnsHands == TypeOK /\ HandRest /\ LegReturns => HandRest'
<1> SUFFICES ASSUME TypeOK, HandRest, LegReturns PROVE HandRest'
  OBVIOUS
<1>1. /\ pc = "deliver" /\ pc' = pc /\ legs' = Tail(legs) /\ call' = NoCall
      /\ call.result \in Deliveries
      /\ UNCHANGED <<outcome, halves, warned, taken, dropped>>
      /\ art' = IF call.op = "poll" THEN art
                ELSE [art EXCEPT !.accepted[call.pdf] =
                          IF call.result = "api" THEN "task" ELSE "folder"]
  BY DEF LegReturns, CallBroken, server, ending, keeping
<1>2. call # NoCall
  BY <1>1 DEF NoCall, Deliveries
<1>3. PICK n : /\ n = call.pdf /\ legs # <<>>
               /\ call.op = "upload" \/ call.op = "poll"
               /\ Head(legs) = Leg(call.op, n)
               /\ call.op = "upload" => UploadAt(n)
  BY <1>2 DEF HandRest, CallIsOfLeg
<1>4. /\ n \in PdfNames /\ n \in Names /\ PdfNames \subseteq Names /\ outcome = "none" /\ halves = <<>>
      /\ art \in Artefacts /\ art.stage = "DELIVERING"
      /\ call.op = "upload" => n \in ToUpload /\ UploadsOf(Tail(legs)) = ToUpload \ {n}
      /\ call.op = "poll" => ToUpload = {} /\ UploadsOf(Tail(legs)) = {}
  BY <1>1, <1>3, InDelivery, LegNames
<1>5. /\ art'.stage = art.stage /\ art'.pdfs = art.pdfs
      /\ \A m \in Names \ {n} : art'.accepted[m] = art.accepted[m]
      /\ call.op = "poll" => art'.accepted[n] = art.accepted[n]
      /\ call.op = "upload" /\ call.result = "api" => art'.accepted[n] = "task"
      /\ call.op = "upload" /\ call.result # "api" => art'.accepted[n] = "folder"
  <2>1. CASE call.op = "poll"
    BY <1>1, <2>1
  <2>2. CASE call.op = "upload"
    <3> DEFINE how == IF call.result = "api" THEN "task" ELSE "folder"
    <3>1. art' = [art EXCEPT !.accepted[n] = how]
      BY <1>1, <1>3, <2>2
    <3>2. art.accepted \in [Names -> Takings]
      BY <1>4 DEF Artefacts
    <3> HIDE DEF how
    <3>3. /\ art'.stage = art.stage /\ art'.pdfs = art.pdfs /\ art'.accepted = [art.accepted EXCEPT ![n] = how]
      BY <1>4, <3>1 DEF Artefacts
    <3>4. art'.accepted[n] = how /\ \A m \in Names \ {n} : art'.accepted[m] = art.accepted[m]
      BY <1>4, <3>2, <3>3
    <3> QED
      BY <2>2, <3>3, <3>4 DEF how
  <2> QED
    BY <1>3, <2>1, <2>2
<1>6. PdfNames' = PdfNames /\ ToUpload' = UploadsOf(Tail(legs))
  BY <1>1, <1>5 DEF PdfNames, ToUpload, UploadsOf
<1>7. \A m \in Names : Handed(m)' = Handed(m) /\ (Fresh(m)' <=> Fresh(m))
  BY <1>1 DEF Handed, Fresh
<1>8. \A m \in Names \ {n} : Taken(m)' <=> Taken(m)
  BY <1>1, <1>5 DEF Taken
<1>9. Taken(n)'
  <2>1. CASE call.op = "upload"
    <3>1. \/ call.result = "api" /\ taken[n] = 1 /\ dropped[n] = "no"
          \/ call.result = "folder" /\ taken[n] = 0 /\ dropped[n] = "whole"
      BY <1>1, <1>3, <2>1 DEF UploadAt, Deliveries
    <3> QED
      BY <1>1, <1>5, <2>1, <3>1 DEF Taken
  <2>2. CASE call.op = "poll"
    <3>1. Taken(n)
      BY <1>1, <1>4, <2>2 DEF HandRest, LegsAreAhead
    <3> QED
      BY <1>1, <1>5, <2>2, <3>1 DEF Taken
  <2> QED
    BY <1>3, <2>1, <2>2
<1>10. LegsAreAhead'
  <2>1. \/ legs' \in DocumentLegs /\ PdfNames = {"document"} /\ Len(art'.pdfs) = 1
        \/ legs' \in HalvesLegs /\ PdfNames = {"fronts", "backs"} /\ Len(art'.pdfs) = 2
    BY <1>1, <1>3, <1>5, DocumentLegsGo, HalvesLegsGo DEF HandRest, LegsAreAhead
  <2>2. \A m \in ToUpload' : Fresh(m)' /\ art'.accepted[m] = "no"
    <3>1. ASSUME NEW m \in ToUpload' PROVE Fresh(m)' /\ art'.accepted[m] = "no"
      <4>1. m \in ToUpload /\ m # n /\ m \in Names
        BY <1>3, <1>4, <1>6, <3>1 DEF ToUpload, UploadsOf
      <4>2. ~Uploading(m)
        BY <1>3, <4>1 DEF Uploading
      <4>3. Fresh(m) /\ art.accepted[m] = "no"
        BY <1>1, <4>1, <4>2 DEF HandRest, LegsAreAhead
      <4> QED
        BY <1>5, <1>7, <4>1, <4>3
    <3> QED
      BY <3>1
  <2>3. \A m \in Names \ PdfNames' : Fresh(m)' /\ art'.accepted[m] = "no"
    BY <1>1, <1>4, <1>5, <1>6, <1>7 DEF HandRest, LegsAreAhead
  <2>4. \A m \in PdfNames' \ ToUpload' : Taken(m)'
    <3>1. ASSUME NEW m \in PdfNames, m \notin ToUpload', m # n PROVE Taken(m)'
      <4>1. m \notin ToUpload /\ m \in Names
        BY <1>3, <1>4, <1>6, <3>1
      <4>2. Taken(m)
        BY <1>1, <3>1, <4>1 DEF HandRest, LegsAreAhead
      <4> QED
        BY <1>8, <3>1, <4>1, <4>2
    <3> QED
      BY <1>6, <1>9, <3>1
  <2>5. outcome' = "none" /\ halves' = <<>> /\ art'.stage = "DELIVERING"
    BY <1>1, <1>4, <1>5
  <2> QED
    BY <1>6, <2>1, <2>2, <2>3, <2>4, <2>5 DEF LegsAreAhead
<1>11. CallIsOfLeg' /\ NothingHanded' /\ FailureIsKnown' /\ FailureIsTold'
  BY <1>1 DEF CallIsOfLeg, NothingHanded, FailureIsKnown, FailureIsTold, Before, Acquiring, Scanning
<1>12. Once' /\ ErrorIsTrue'
  BY <1>1, <1>4, <1>7 DEF HandRest, Once, ErrorIsTrue, Failing
<1> QED
  BY <1>10, <1>11, <1>12 DEF HandRest

\* What an upload or an interruption records of the PDF it is about.
LEMMA AcceptedIs ==
    ASSUME art \in Artefacts, NEW n \in Names, NEW how,
           art' = [art EXCEPT !.accepted[n] = how]
    PROVE  /\ art'.stage = art.stage /\ art'.pdfs = art.pdfs /\ art'.accepted[n] = how
           /\ \A m \in Names \ {n} : art'.accepted[m] = art.accepted[m]
<1>1. art.accepted \in [Names -> Takings]
  BY DEF Artefacts
<1>2. art'.stage = art.stage /\ art'.pdfs = art.pdfs /\ art'.accepted = [art.accepted EXCEPT ![n] = how]
  BY DEF Artefacts
<1> QED
  BY <1>1, <1>2

\* Before the call in the air, every PDF is taken, or still to be sent; the
\* one it sends is the only one in doubt.
LEMMA InDoubt ==
    ASSUME TypeOK, HandRest, pc \in {"deliver", "delivered"}
    PROVE  /\ \A n \in Names : Handed(n) > 0 =>
                 n \in PdfNames /\ (art.accepted[n] # "no" \/ Uploading(n))
           /\ \A n \in ToUpload : ~Uploading(n) => Handed(n) = 0
           /\ \A n \in PdfNames \ ToUpload : Handed(n) = 1
<1>1. \A n \in Names : Handed(n) \in Nat /\ (Fresh(n) => Handed(n) = 0)
  BY FreshIsNothing DEF TypeOK
<1>2. \A n \in PdfNames \ ToUpload : Handed(n) = 1 /\ art.accepted[n] # "no"
  BY InDelivery, FreshIsNothing DEF TypeOK, HandRest, LegsAreAhead
<1>3. \A n \in Names \ PdfNames : Handed(n) = 0
  BY <1>1 DEF HandRest, LegsAreAhead
<1>4. \A n \in ToUpload : n \in Names /\ (~Uploading(n) => Handed(n) = 0)
  BY <1>1 DEF HandRest, LegsAreAhead, ToUpload, UploadsOf
<1> QED
  BY <1>1, <1>2, <1>3, <1>4

\* A leg raises: the error tells what was handed over by then.
LEMMA LegRaisesHands == TypeOK /\ HandRest /\ LegRaises => HandRest'
<1> SUFFICES ASSUME TypeOK, HandRest, LegRaises PROVE HandRest'
  OBVIOUS
<1>1. /\ pc = "deliver" /\ pc' = "handle" /\ call' = NoCall /\ call.result \in Failures
      /\ UNCHANGED <<taken, dropped>>
      /\ art' = IF call.result = "uncertain" /\ art.accepted[call.pdf] = "no"
                THEN [art EXCEPT !.accepted[call.pdf] = "unanswered"] ELSE art
      /\ \/ Split /\ Head(legs) # Leg("upload", "fronts")
               /\ outcome' = "unconfirmed" /\ halves' = HalvesAt(Head(legs))
         \/ /\ ~Split \/ Head(legs) = Leg("upload", "fronts")
            /\ outcome' = ErrorOf(call.result) /\ halves' = halves
  BY DEF LegRaises, CallBroken, server
<1>2. call # NoCall
  BY <1>1 DEF NoCall, Failures
<1>3. PICK n : /\ n = call.pdf /\ legs # <<>>
               /\ call.op = "upload" \/ call.op = "poll"
               /\ Head(legs) = Leg(call.op, n)
               /\ call.op = "upload" => UploadAt(n)
               /\ call.op = "poll" => PollAt(n)
  BY <1>2 DEF HandRest, CallIsOfLeg
<1>4. /\ n \in PdfNames /\ n \in Names /\ PdfNames \subseteq Names /\ outcome = "none" /\ halves = <<>>
      /\ art \in Artefacts /\ art.stage = "DELIVERING"
      /\ call.op = "upload" => n \in ToUpload
      /\ call.op = "poll" => ToUpload = {}
      /\ \/ legs \in DocumentLegs /\ PdfNames = {"document"} /\ ~Split
         \/ legs \in HalvesLegs /\ PdfNames = {"fronts", "backs"} /\ Split
  BY <1>1, <1>3, InDelivery, LegNames
<1>5. /\ art'.stage = "DELIVERING" /\ art'.pdfs = art.pdfs
      /\ \A m \in Names : art.accepted[m] # "no" => art'.accepted[m] # "no"
      /\ call.result = "uncertain" => art'.accepted[n] # "no"
  <2>1. CASE call.result = "uncertain" /\ art.accepted[n] = "no"
    <3>1. art' = [art EXCEPT !.accepted[n] = "unanswered"]
      BY <1>1, <1>3, <2>1
    <3> QED
      BY <1>4, <3>1, AcceptedIs
  <2>2. CASE ~(call.result = "uncertain" /\ art.accepted[n] = "no")
    BY <1>1, <1>3, <1>4, <2>2
  <2> QED
    BY <2>1, <2>2
<1>6. \A m \in Names : Handed(m)' = Handed(m) /\ Handed(m) \in Nat
  BY <1>1, FreshIsNothing DEF Handed, TypeOK
<1>7. /\ \A m \in Names : Handed(m) > 0 => m \in PdfNames /\ (art.accepted[m] # "no" \/ m = n)
      /\ \A m \in ToUpload \ {n} : Handed(m) = 0
      /\ \A m \in PdfNames \ ToUpload : Handed(m) = 1
  BY <1>1, <1>3, InDoubt DEF Uploading
<1>8. /\ call.op = "upload" => \/ call.result = "uncertain"
                               \/ call.result \in {"unsent", "incompatible", "refused"} /\ Handed(n) = 0
      /\ call.op = "poll" => call.result \in {"unconfirmed", "timeout"}
  <2>1. Fresh(n) => Handed(n) = 0
    BY <1>4, FreshIsNothing DEF TypeOK
  <2>2. CASE call.op = "upload"
    BY <1>1, <1>3, <2>1, <2>2 DEF UploadAt, Failures
  <2>3. CASE call.op = "poll"
    BY <1>1, <1>3, <2>3 DEF PollAt, Failures
  <2> QED
    BY <1>3, <2>2, <2>3
<1>9. outcome' \in {"uncertain", "unconfirmed", "failed"}
  BY <1>1 DEF ErrorOf
<1>10. FailureIsKnown'
  <2>1. ASSUME NEW m \in Names, Handed(m) > 0
        PROVE  art'.accepted[m] # "no" /\ m \in PdfNames
    <3>1. m \in PdfNames /\ (art.accepted[m] # "no" \/ m = n)
      BY <1>7, <2>1
    <3>2. CASE m = n /\ call.op = "upload"
      BY <1>5, <1>8, <2>1, <3>1, <3>2
    <3>3. CASE m = n /\ call.op = "poll"
      <4>1. n \in PdfNames \ ToUpload
        BY <1>4, <3>3
      <4>2. art.accepted[n] # "no"
        BY <1>1, <1>4, <4>1 DEF HandRest, LegsAreAhead, Taken
      <4> QED
        BY <1>5, <3>1, <3>3, <4>2
    <3> QED
      BY <1>3, <1>5, <3>1, <3>2, <3>3
  <2>2. PdfNames' = PdfNames
    BY <1>5 DEF PdfNames
  <2> QED
    BY <1>5, <1>6, <1>9, <2>1, <2>2 DEF FailureIsKnown, Failing
<1>11. ErrorIsTrue'
  <2>1. ASSUME outcome' \in {"failed", "blank"}, NEW m \in Names PROVE Handed(m) = 0
    <3>1. ~Split \/ Head(legs) = Leg("upload", "fronts")
      BY <1>1, <2>1
    <3>2. call.op = "upload" /\ Handed(n) = 0
      BY <1>1, <1>3, <1>8, <2>1 DEF ErrorOf
    <3>3. PdfNames \ {n} \subseteq ToUpload
      <4>1. CASE PdfNames = {"document"}
        BY <1>4, <4>1
      <4>2. CASE PdfNames = {"fronts", "backs"} /\ Split /\ legs \in HalvesLegs
        <5>1. Head(legs) = Leg("upload", "fronts")
          BY <3>1, <4>2
        <5>2. ToUpload = {"fronts", "backs"}
          BY <1>3, <4>2, <5>1, HalvesLegsGo, LegNames DEF ToUpload
        <5> QED
          BY <4>2, <5>2
      <4> QED
        BY <1>4, <4>1, <4>2
    <3> QED
      BY <1>6, <1>7, <3>2, <3>3
  <2>2. ASSUME halves' # <<>> PROVE Handed(halves'[1]) > 0
    <3>1. Split /\ Head(legs) # Leg("upload", "fronts") /\ halves' = HalvesAt(Head(legs))
      BY <1>1, <1>4, <2>2
    <3>2. legs \in HalvesLegs /\ PdfNames = {"fronts", "backs"}
      BY <1>4, <3>1
    <3>3. \/ Head(legs) = Leg("upload", "backs") /\ ToUpload = {"backs"} /\ halves'[1] = "fronts"
          \/ Head(legs) = Leg("poll", "fronts") /\ ToUpload = {} /\ halves'[1] = "backs"
          \/ Head(legs) = Leg("poll", "backs") /\ ToUpload = {} /\ halves'[1] = "fronts"
      BY <1>3, <3>1, <3>2, HalvesLegsGo, LegNames DEF ToUpload, HalvesAt
    <3>4. halves'[1] \in PdfNames \ ToUpload
      BY <3>2, <3>3
    <3>5. Handed(halves'[1]) = 1
      BY <1>7, <3>4
    <3> QED
      BY <3>5
  <2>3. halves' # <<>> => halves'[1] \in Names
    <3>1. halves' \in {<<>>, <<"fronts", "backs">>, <<"backs", "fronts">>}
      BY <1>1, <1>4 DEF HalvesAt
    <3> QED
      BY <3>1, DeliveryAssumption
  <2>4. halves' # <<>> => Handed(halves[1])' > 0
    BY <1>6, <2>2, <2>3
  <2> QED
    BY <1>5, <1>6, <2>1, <2>4 DEF ErrorIsTrue
<1>12. CallIsOfLeg' /\ NothingHanded' /\ LegsAreAhead' /\ FailureIsTold'
  BY <1>1 DEF CallIsOfLeg, NothingHanded, LegsAreAhead, FailureIsTold, Before, Acquiring, Scanning
<1>13. Once'
  BY <1>6 DEF HandRest, Once
<1> QED
  BY <1>10, <1>11, <1>12, <1>13 DEF HandRest

\* A step or a signal breaks a run off.
LEMMA BreakHands == TypeOK /\ HandRest /\ (StepFails \/ Interrupt \/ CtrlC) => HandRest'
<1> SUFFICES ASSUME TypeOK, HandRest, StepFails \/ Interrupt \/ CtrlC PROVE HandRest'
  OBVIOUS
<1>1. /\ pc' = "handle" /\ UNCHANGED <<taken, dropped, halves, warned>>
      /\ outcome' \in {"failed", "interrupted", "cancelled"}
      /\ outcome' = "failed" => StepFails
      /\ outcome' = "interrupted" => Interrupt
      /\ pc \in Before \cup {"deliver", "delivered", "handle", "preserve"}
      /\ CtrlC \/ pc \in Running \cup {"delivered"}
      /\ CtrlC => outcome' = "cancelled"
  BY DEF StepFails, Interrupt, CtrlC, EndsAs, CallBroken, clientVars, server, keeping, Running, Before,
     Acquiring, Scanning
<1>2. \A m \in Names : Handed(m)' = Handed(m) /\ Handed(m) \in Nat
  BY <1>1, FreshIsNothing DEF Handed, TypeOK
<1>3. art \in Artefacts
  BY DEF TypeOK, ArtTypeOK
<1>4. CASE pc \in Before
  <2>1. call = NoCall /\ art.stage \in {"ACQUIRING", "FILTERING", "ASSEMBLING"}
    BY <1>4 DEF HandRest, CallIsOfLeg, NothingHanded, Before, Acquiring, Scanning
  <2>2. call' = NoCall /\ art' = art
    BY <2>1 DEF StepFails, Interrupt, CtrlC, CallBroken, clientVars, NoCall
  <2> QED
    BY <1>1, <1>4, <2>1, <2>2, BeforeEnds
<1>5. CASE pc \in {"deliver", "delivered", "handle", "preserve"}
  <2>1. call' = NoCall
    BY <1>5 DEF StepFails, Interrupt, CtrlC, CallBroken, Scanning
  <2>2. CallIsOfLeg' /\ NothingHanded' /\ LegsAreAhead' /\ FailureIsTold' /\ Once'
    BY <1>1, <1>2, <2>1 DEF HandRest, Once, CallIsOfLeg, NothingHanded, LegsAreAhead, FailureIsTold, Before,
       Acquiring, Scanning
  <2>3. halves' # <<>> => Handed(halves[1])' > 0
    <3>1. halves # <<>> => halves[1] \in Names
      BY DeliveryAssumption DEF TypeOK, EndingTypeOK
    <3> QED
      BY <1>1, <1>2, <3>1 DEF HandRest, ErrorIsTrue
  <2>4. CASE outcome' = "cancelled"
    BY <2>2, <2>3, <2>4 DEF HandRest, FailureIsKnown, ErrorIsTrue, Failing
  <2>5. CASE Interrupt
    <3>1. /\ pc \in {"deliver", "delivered"} /\ outcome' = "interrupted"
          /\ art' = IF call.op = "upload" /\ art.accepted[call.pdf] = "no"
                    THEN [art EXCEPT !.accepted[call.pdf] = "interrupted"] ELSE art
      BY <1>5, <2>5 DEF Interrupt, EndsAs, Running, Scanning
    <3>2. /\ art.stage = "DELIVERING"
          /\ \A m \in Names : Handed(m) > 0 => m \in PdfNames /\ (art.accepted[m] # "no" \/ Uploading(m))
      BY <3>1, InDelivery, InDoubt
    <3>3. call.op = "upload" => call.pdf \in Names
      <4>1. call.op = "upload" => call # NoCall
        BY DEF NoCall
      <4>2. call # NoCall => legs # <<>> /\ Head(legs).pdf = call.pdf
        BY LegNames DEF HandRest, CallIsOfLeg
      <4> QED
        BY <3>1, <4>1, <4>2, InDelivery
    <3>4. /\ art'.stage = "DELIVERING" /\ art'.pdfs = art.pdfs
          /\ \A m \in Names : art.accepted[m] # "no" \/ Uploading(m) => art'.accepted[m] # "no"
      <4>1. CASE call.op = "upload" /\ art.accepted[call.pdf] = "no"
        <5>1. art' = [art EXCEPT !.accepted[call.pdf] = "interrupted"] /\ call.pdf \in Names
          BY <3>1, <3>3, <4>1
        <5> QED
          BY <1>3, <3>2, <5>1, AcceptedIs DEF Uploading
      <4>2. CASE ~(call.op = "upload" /\ art.accepted[call.pdf] = "no")
        BY <3>1, <3>2, <4>2 DEF Uploading
      <4> QED
        BY <4>1, <4>2
    <3>5. FailureIsKnown'
      <4>1. PdfNames' = PdfNames
        BY <3>4 DEF PdfNames
      <4> QED
        BY <1>2, <3>1, <3>2, <3>4, <4>1 DEF FailureIsKnown, Failing
    <3>6. ErrorIsTrue'
      BY <2>3, <3>1, <3>4 DEF ErrorIsTrue, Failing
    <3> QED
      BY <2>2, <3>5, <3>6 DEF HandRest
  <2>6. ~StepFails
    BY <1>5 DEF StepFails, Scanning
  <2> QED
    BY <1>1, <2>4, <2>5, <2>6
<1> QED
  BY <1>1, <1>4, <1>5

\* A delivery that is through.
LEMMA DeliveredHands == TypeOK /\ HandRest /\ (SettleDelivered \/ StageDelivered) => HandRest'
<1> SUFFICES ASSUME TypeOK, HandRest, SettleDelivered \/ StageDelivered PROVE HandRest'
  OBVIOUS
<1>1. /\ UNCHANGED <<taken, dropped, halves, warned, legs, call>> /\ pc \in {"deliver", "delivered"}
  BY DEF SettleDelivered, StageDelivered, Goto, clientVars, server, keeping
<1>2. \A m \in Names : Handed(m)' = Handed(m) /\ (Fresh(m)' <=> Fresh(m))
  BY <1>1 DEF Handed, Fresh
<1>3. outcome = "none" /\ halves = <<>>
  BY <1>1 DEF HandRest, LegsAreAhead
<1>4. CASE SettleDelivered
  <2>1. UNCHANGED <<art, outcome>> /\ pc' = "delivered" /\ legs = <<>> /\ call = NoCall
    BY <1>4 DEF SettleDelivered, Goto
  <2>2. LegsAreAhead'
    <3>1. ToUpload' = ToUpload /\ PdfNames' = PdfNames
      BY <1>1, <2>1 DEF ToUpload, PdfNames, UploadsOf
    <3>2. \A m \in Names : (Taken(m)' <=> Taken(m)) /\ (Uploading(m)' <=> Uploading(m))
      BY <1>1, <2>1 DEF Taken, Uploading
    <3>3. PdfNames \subseteq Names /\ ToUpload = {}
      BY <1>1, <2>1, InDelivery
    <3> QED
      BY <1>1, <1>2, <2>1, <3>1, <3>2, <3>3 DEF HandRest, LegsAreAhead
  <2>3. CallIsOfLeg' /\ NothingHanded' /\ FailureIsKnown' /\ FailureIsTold'
    BY <1>1, <2>1 DEF CallIsOfLeg, NothingHanded, FailureIsKnown, FailureIsTold, Before, Acquiring, Scanning
  <2>4. Once' /\ ErrorIsTrue'
    BY <1>1, <1>2, <1>3, <2>1 DEF HandRest, Once, ErrorIsTrue, Failing
  <2> QED
    BY <2>2, <2>3, <2>4 DEF HandRest
<1>5. CASE StageDelivered
  <2>1. outcome' \in Delivering /\ pc = "delivered" /\ pc' = "leave"
    BY <1>5 DEF StageDelivered, Goto, Delivering
  <2>2. call = NoCall
    BY <2>1 DEF HandRest, CallIsOfLeg
  <2>3. CallIsOfLeg' /\ NothingHanded' /\ LegsAreAhead' /\ FailureIsKnown' /\ FailureIsTold'
    BY <1>1, <2>1, <2>2 DEF CallIsOfLeg, NothingHanded, LegsAreAhead, FailureIsKnown, FailureIsTold, Before,
       Acquiring, Scanning, Failing, Delivering
  <2>4. Once' /\ ErrorIsTrue'
    BY <1>1, <1>2, <1>3, <2>1 DEF HandRest, Once, ErrorIsTrue, Failing, Delivering
  <2> QED
    BY <2>3, <2>4 DEF HandRest
<1> QED
  BY <1>4, <1>5

\* After the delivery nothing more is handed over.
LEMMA AfterKeeps ==
    ASSUME TypeOK, HandRest, pc \notin Before \cup {"deliver", "delivered"},
           pc' \notin Before \cup {"deliver", "delivered"},
           UNCHANGED <<taken, dropped>>, call' = NoCall, halves' \in {halves, <<>>},
           FailureIsKnown', FailureIsTold',
           outcome' \in {"failed", "blank"} => outcome' = outcome,
           outcome' \in Failing => art'.stage # "DELIVERED"
    PROVE  HandRest'
<1>1. \A m \in Names : Handed(m)' = Handed(m)
  BY DEF Handed
<1>2. CallIsOfLeg' /\ NothingHanded' /\ LegsAreAhead'
  BY DEF CallIsOfLeg, NothingHanded, LegsAreAhead
<1>3. Once'
  BY <1>1 DEF HandRest, Once
<1>4. ErrorIsTrue'
  <2>1. halves # <<>> => halves[1] \in Names
    BY DeliveryAssumption DEF TypeOK, EndingTypeOK
  <2>2. halves' # <<>> => Handed(halves[1])' > 0
    BY <1>1, <2>1 DEF HandRest, ErrorIsTrue
  <2> QED
    BY <1>1, <2>2 DEF HandRest, ErrorIsTrue
<1> QED
  BY <1>2, <1>3, <1>4 DEF HandRest

\* The steps after a run broke off, and those of the sweep.
LEMMA AfterHands ==
    ASSUME TypeOK, HandRest,
           \/ HandleCancel \/ HandleFailure \/ KeepItem \/ KeepPageFile \/ ReportFailure
           \/ LeaveWorkspace \/ SweepFinds \/ SweepLeaves
    PROVE  HandRest'
<1>1. /\ pc \in {"handle", "preserve", "leave", "over", "sweep"}
      /\ pc' \in {"handle", "preserve", "leave", "over", "sweep"}
      /\ UNCHANGED <<taken, dropped, outcome>> /\ halves' \in {halves, <<>>}
      /\ call' \in {call, NoCall}
  BY DEF HandleCancel, HandleFailure, KeepItem, KeepPageFile, ReportFailure, LeaveWorkspace, SweepFinds,
     SweepLeaves, Goto, clientVars, server, ending, Forgotten
<1>2. call' = NoCall
  BY <1>1 DEF HandRest, CallIsOfLeg
<1>3. \A m \in Names : Handed(m)' = Handed(m)
  BY <1>1 DEF Handed
<1>4. /\ art \in Artefacts /\ DOMAIN art.accepted = Names
      /\ outcome \in Failing => art.stage # "DELIVERED"
  BY DEF TypeOK, ArtTypeOK, Artefacts, HandRest, ErrorIsTrue
<1>5. art'.stage = art.stage /\ art'.accepted = art.accepted /\ art'.pdfs = art.pdfs
  <2>1. CASE HandleFailure
    BY <1>4, <2>1 DEF HandleFailure, Artefacts
  <2> QED
    BY <2>1 DEF HandleCancel, KeepItem, KeepPageFile, ReportFailure, LeaveWorkspace, SweepFinds, SweepLeaves
<1>6. PdfNames' = PdfNames
  BY <1>5 DEF PdfNames
<1>7. FailureIsKnown'
  <2>1. CASE pc' \in {"handle", "preserve"} /\ outcome' # "cancelled"
    <3>1. pc \in {"handle", "preserve"}
      BY <2>1 DEF HandleCancel, HandleFailure, KeepItem, KeepPageFile, ReportFailure, LeaveWorkspace,
         SweepFinds, SweepLeaves, Goto
    <3>2. /\ outcome \in Failing /\ art.stage # "DELIVERED"
          /\ \A n \in Names : Handed(n) > 0 =>
                art.accepted[n] # "no" /\ n \in PdfNames /\ art.stage = "DELIVERING"
      BY <1>1, <2>1, <3>1 DEF HandRest, FailureIsKnown
    <3> QED
      BY <1>1, <1>3, <1>5, <1>6, <3>2 DEF FailureIsKnown
  <2> QED
    BY <2>1 DEF FailureIsKnown
<1>8. FailureIsTold'
  <2>1. CASE ReportFailure
    <3>1. CASE outcome \in Failing
      <4>1. pc = "preserve" /\ outcome # "cancelled"
        BY <2>1, <3>1 DEF ReportFailure, Goto, Failing
      <4>2. \A n \in Names : Handed(n) > 0 =>
              art.accepted[n] # "no" /\ n \in PdfNames /\ art.stage = "DELIVERING"
        BY <4>1 DEF HandRest, FailureIsKnown
      <4>3. failed # {} => \A n \in Names : Handed(n) > 0 => n \in Cautions(art, failed)
        BY <1>4, <4>2 DEF Cautions, Noted, PdfNames
      <4>4. warned' = Cautions(art, failed) /\ failed' = failed
        BY <2>1 DEF ReportFailure
      <4> QED
        BY <1>3, <4>3, <4>4 DEF FailureIsTold
    <3> QED
      BY <1>1, <3>1 DEF FailureIsTold
  <2>2. CASE HandleCancel
    BY <1>1, <2>2 DEF HandleCancel, FailureIsTold, Failing
  <2>3. CASE ~ReportFailure /\ ~HandleCancel
    <3>1. pc' # "leave"
      BY <2>3 DEF HandleFailure, KeepItem, KeepPageFile, LeaveWorkspace, SweepFinds, SweepLeaves, Goto
    <3> QED
      BY <3>1 DEF FailureIsTold
  <2> QED
    BY <2>1, <2>2, <2>3
<1> QED
  BY <1>1, <1>2, <1>4, <1>5, <1>7, <1>8, AfterKeeps DEF Before, Acquiring, Scanning

\* The end of the process says nothing any more.
LEMMA KilledHands == TypeOK /\ HandRest /\ Killed => HandRest'
<1> SUFFICES ASSUME TypeOK, HandRest, Killed PROVE HandRest'
  OBVIOUS
<1>1. /\ pc' = "over" /\ call' = NoCall /\ halves' = <<>> /\ UNCHANGED <<taken, dropped, warned>>
      /\ \/ outcome' = "killed"
         \/ pc = "sweep" /\ outcome' = outcome /\ art' = art
         \/ outcome \in Delivering \cup {"cancelled"} /\ outcome' = outcome /\ art' = art
  BY DEF Killed, Forgotten, server
<1>2. \A m \in Names : Handed(m)' = Handed(m)
  BY <1>1 DEF Handed
<1>3. CallIsOfLeg' /\ NothingHanded' /\ LegsAreAhead' /\ FailureIsKnown'
  BY <1>1 DEF CallIsOfLeg, NothingHanded, LegsAreAhead, FailureIsKnown, Before, Acquiring, Scanning
<1>4. FailureIsTold'
  BY <1>1 DEF FailureIsTold
<1>5. Once' /\ ErrorIsTrue'
  BY <1>1, <1>2 DEF HandRest, Once, ErrorIsTrue, Failing, Delivering
<1> QED
  BY <1>3, <1>4, <1>5 DEF HandRest

\* Every step keeps what is known of the hand-over.
LEMMA StepHands == TypeOK /\ HandRest /\ [Next]_vars => HandRest'
<1> SUFFICES ASSUME TypeOK, HandRest, [Next]_vars PROVE HandRest'
  OBVIOUS
<1>1. CASE UNCHANGED vars
  <2>1. UNCHANGED <<call, taken, dropped, art, legs, pc, outcome, halves, failed, warned>>
    BY <1>1 DEF vars, ending, keeping, clientVars, server
  <2>2. \A m \in Names : /\ Handed(m)' = Handed(m) /\ (Fresh(m)' <=> Fresh(m))
                        /\ (Taken(m)' <=> Taken(m)) /\ (Uploading(m)' <=> Uploading(m))
    BY <2>1 DEF Handed, Fresh, Taken, Uploading
  <2>3. PdfNames' = PdfNames /\ ToUpload' = ToUpload
    BY <2>1 DEF PdfNames, ToUpload, UploadsOf
  <2>4. CallIsOfLeg'
    BY <2>1 DEF HandRest, CallIsOfLeg, UploadAt, PollAt, Fresh
  <2>5. NothingHanded' /\ FailureIsKnown' /\ FailureIsTold'
    BY <2>1, <2>2, <2>3 DEF HandRest, NothingHanded, FailureIsKnown, FailureIsTold
  <2>6. LegsAreAhead'
    <3>1. ASSUME pc \in {"deliver", "delivered"} PROVE PdfNames \subseteq Names /\ ToUpload \subseteq Names
      BY <3>1, InDelivery
    <3> QED
      BY <2>1, <2>2, <2>3, <3>1 DEF HandRest, LegsAreAhead
  <2>7. Once'
    BY <2>2 DEF HandRest, Once
  <2>8. ErrorIsTrue'
    <3>1. halves # <<>> => halves[1] \in Names
      BY DeliveryAssumption DEF TypeOK, EndingTypeOK
    <3> QED
      BY <2>1, <2>2, <3>1 DEF HandRest, ErrorIsTrue
  <2> QED
    BY <2>4, <2>5, <2>6, <2>7, <2>8 DEF HandRest
<1>2. CASE \/ OpenWorkspace \/ SpoolPage \/ SheetMissed \/ SheetUnreadable \/ FirstPassEnds
           \/ FlipAnswered \/ BacksPassEnds \/ MultiPassEnds \/ AcceptPass \/ DiscardPass
           \/ NextPass \/ FinishPasses
  BY <1>2, AcquisitionHands
<1>3. CASE FinishDocument \/ FinishMismatch
  BY <1>3, FinishHands
<1>4. CASE StartLeg \/ InCall \/ LegReturns \/ LegRaises
  BY <1>4, StartLegHands, InCallHands, LegReturnsHands, LegRaisesHands
<1>5. CASE SettleDelivered \/ StageDelivered
  BY <1>5, DeliveredHands
<1>6. CASE StepFails \/ Interrupt \/ CtrlC \/ Killed
  BY <1>6, BreakHands, KilledHands
<1>7. CASE \/ HandleCancel \/ HandleFailure \/ KeepItem \/ KeepPageFile \/ ReportFailure
           \/ LeaveWorkspace \/ SweepFinds \/ SweepLeaves
  BY <1>7, AfterHands
<1> QED
  BY <1>1, <1>2, <1>3, <1>4, <1>5, <1>6, <1>7 DEF Next, RunStep

\* HandInv holds throughout a run, its end and the sweeps after it.
THEOREM HandInvariant == Spec => []HandInv
<1>1. Init => HandInv
  <2>1. Init => Numbered
    BY DEF Init, Numbered, Acquiring, Scanning
  <2> QED
    BY <2>1, InitTypes, InitHands DEF HandInv, HandRest
<1>2. HandInv /\ [Next]_vars => HandInv'
  BY StepTypes, StepNumbers, StepHands DEF HandInv, HandRest
<1> QED
  BY <1>1, <1>2, PTL DEF Spec

\* A PDF is handed over at most once, whole, however often the client tries,
\* whichever way it takes and whatever breaks into the run.
LEMMA HandInvOnce == HandInv => HandedOnce
<1> SUFFICES ASSUME HandInv PROVE HandedOnce
  OBVIOUS
<1>1. \A n \in Names : dropped[n] \in {"no", "whole"}
  BY DEF HandInv, TypeOK, ClientTypeOK
<1> QED
  BY <1>1 DEF HandInv, Once, HandedOnce

\* What a failure says of the hand-over is true, and leaves nothing out.
LEMMA HandInvHonest == HandInv => FailureIsHonest
  BY DEF HandInv, FailureIsHonest, DuplicatesAreCautioned, FailureIsTold

\* No PDF reaches paperless-ngx twice (HandedOnce of the runs).
THEOREM NothingTwice == Spec => []HandedOnce
  BY HandInvariant, HandInvOnce, PTL

\* A failure tells what was handed over (FailureIsHonest of the runs).
THEOREM FailuresAreHonest == Spec => []FailureIsHonest
  BY HandInvariant, HandInvHonest, PTL
-----------------------------------------------------------------------------
(* What becomes of the pages. *)

PagesAcross(list) == UNION {Range(list[i].pages) : i \in DOMAIN list}
InLedger == PagesAcross(ledger)
InPdfs == PagesAcross(art.pdfs)

\* Until the pages are kept or delivered they are in the spool.
SpoolHolds ==
    pc \in Before \cup {"deliver", "delivered", "handle", "preserve"} =>
        \A p \in owed : p \in spool \/ p \in PagesOf(failed)

\* At each stage the artefacts a failure would keep hold every page owed.
Covered ==
    /\ art.stage = "ACQUIRING" => owed \subseteq Range(art.document) \cup InLedger
    /\ art.stage = "FILTERING" => art.document # <<>> /\ owed \subseteq Range(art.document)
    /\ art.stage = "DELIVERING" => owed \subseteq InPdfs
    /\ kind # "multi" /\ art.stage = "ACQUIRING" => art.document = <<>>
StageIsOfPlace ==
    /\ pc \in Acquiring \cup {"open"} => art.stage = "ACQUIRING"
    /\ pc = "open" => owed = {}
    /\ pc = "filter" => art.stage = "FILTERING"
    /\ pc = "pair" => art.stage = "ASSEMBLING" /\ owed \subseteq InLedger
ArtefactsCover ==
    /\ pc \in Before \cup {"deliver", "delivered"} \/ (pc = "handle" /\ outcome # "cancelled") => Covered
    /\ StageIsOfPlace

\* What was handed over is there, unless a poll just said its task failed.
HeldSoFar ==
    pc \in {"deliver", "delivered"} =>
        \A n \in Names : Handed(n) > 0 =>
            Holds(n) \/ (call.op = "poll" /\ call.pdf = n /\ call.result \in Failures)
LegsAreMade == pc = "delivered" => legs = <<>>
DeliveredIsHeld ==
    pc \in {"leave", "over", "sweep"} /\ outcome \in Delivering => owed \subseteq Reached

\* A page is kept, will be tried, or keeps its workspace.
KeepCovers ==
    pc \in {"preserve", "sweep"} /\ outcome # "cancelled" =>
        /\ keep.todo # <<>> => ~keep.files
        /\ \A p \in owed :
              \/ p \in PagesOf(failed)
              \/ p \in spool /\ (keep.problem \/ keep.files \/ p \in PagesAcross(keep.todo))
              \/ pc = "sweep" /\ outcome \in Delivering \cup {"killed"} /\ p \in Reached
LeaveIsSafe ==
    pc = "leave" =>
        /\ outcome \in Failing \cup Delivering \cup {"cancelled"}
        /\ outcome \in Failing => \A p \in owed : p \in PagesOf(failed) \/ (spare /\ p \in spool)
SweepIsOfLeft == pc = "sweep" => ws = "left"
PagesRest ==
    /\ SpoolHolds /\ ArtefactsCover /\ HeldSoFar /\ DeliveredIsHeld /\ KeepCovers
    /\ LegsAreMade /\ LeaveIsSafe /\ SweepIsOfLeft /\ NothingLost
PagesInv == HandInv /\ PagesRest

\* The pages of items.
LEMMA PagesOfItems ==
    /\ \A items, p : p \in PagesOf(items) <=> \E i \in items : p \in Range(i.pages)
    /\ \A items, more : PagesOf(items \cup more) = PagesOf(items) \cup PagesOf(more)
    /\ \A items, i : PagesOf(items \cup {i}) = PagesOf(items) \cup Range(i.pages)
<1>1. \A items, p : p \in PagesOf(items) <=> \E i \in items : p \in Range(i.pages)
  BY DEF PagesOf
<1>2. \A items, more : PagesOf(items \cup more) = PagesOf(items) \cup PagesOf(more)
  BY <1>1
<1>3. \A items, i : PagesOf(items \cup {i}) = PagesOf(items) \cup Range(i.pages)
  BY <1>1
<1> QED
  BY <1>1, <1>2, <1>3

\* A step that changes one pass only by its pages.
LEMMA LedgerGrows ==
    ASSUME NEW old \in Seq(OpenPass), NEW c \in 1..Len(old), NEW pass, NEW more,
           Range(pass.pages) = Range(old[c].pages) \cup more
    PROVE  PagesAcross([old EXCEPT ![c] = pass]) = PagesAcross(old) \cup more
<1>0. PICK new : new = [old EXCEPT ![c] = pass]
  OBVIOUS
<1>1. DOMAIN new = DOMAIN old /\ c \in DOMAIN old
  BY <1>0, LenProperties
<1>2. /\ new[c] = pass
      /\ \A i \in DOMAIN old : i # c => new[i] = old[i]
  BY <1>0, <1>1
<1> DEFINE news == UNION {Range(new[i].pages) : i \in DOMAIN new}
           olds == UNION {Range(old[i].pages) : i \in DOMAIN old}
<1>3. ASSUME NEW p \in news PROVE p \in olds \cup more
  <2>1. PICK i \in DOMAIN new : p \in Range(new[i].pages)
    OBVIOUS
  <2>2. CASE i = c
    <3>1. p \in Range(old[c].pages) \cup more
      BY <1>2, <2>1, <2>2
    <3> QED
      BY <1>1, <3>1
  <2>3. CASE i # c
    BY <1>1, <1>2, <2>1, <2>3
  <2> QED
    BY <2>2, <2>3
<1>4. ASSUME NEW p \in olds PROVE p \in news
  <2>1. PICK i \in DOMAIN old : p \in Range(old[i].pages)
    OBVIOUS
  <2>2. p \in Range(new[i].pages)
    BY <1>2, <2>1
  <2> QED
    BY <1>1, <2>1, <2>2
<1>5. ASSUME NEW p \in more PROVE p \in news
  BY <1>1, <1>2, <1>5
<1>6. news = olds \cup more
  <2> HIDE DEF news, olds
  <2> QED
    BY <1>3, <1>4, <1>5
<1> QED
  BY <1>0, <1>6 DEF PagesAcross

\* The pages of a sequence with one more.
LEMMA RangeOfAppend ==
    ASSUME NEW S, NEW s \in Seq(S), NEW x \in S
    PROVE  Range(Append(s, x)) = Range(s) \cup {x}
<1>1. /\ Append(s, x) \in Seq(S) /\ Len(Append(s, x)) = Len(s) + 1 /\ Len(s) \in Nat
      /\ \A i \in 1..Len(s) : Append(s, x)[i] = s[i]
      /\ Append(s, x)[Len(s) + 1] = x
  BY AppendProperties, LenProperties
<1>2. DOMAIN s = 1..Len(s) /\ DOMAIN Append(s, x) = 1..(Len(s) + 1)
  BY <1>1, LenProperties
<1> DEFINE t == Append(s, x)
           n == Len(s)
<1> HIDE DEF t, n
<1>3. /\ DOMAIN t = 1..(n + 1) /\ DOMAIN s = 1..n /\ n \in Nat
      /\ \A i \in 1..n : t[i] = s[i]
      /\ t[n + 1] = x
  BY <1>1, <1>2 DEF t, n
<1>4. Range(t) = Range(s) \cup {x}
  <2>1. ASSUME NEW y \in Range(t) PROVE y \in Range(s) \cup {x}
    <3>1. PICK i \in 1..(n + 1) : t[i] = y
      BY <1>3 DEF Range
    <3>2. CASE i = n + 1
      BY <1>3, <3>1, <3>2
    <3>3. CASE i # n + 1
      <4>1. i \in 1..n
        BY <1>3, <3>3
      <4> QED
        BY <1>3, <3>1, <4>1 DEF Range
    <3> QED
      BY <3>2, <3>3
  <2>2. ASSUME NEW y \in Range(s) PROVE y \in Range(t)
    <3>1. PICK i \in 1..n : s[i] = y
      BY <1>3 DEF Range
    <3>2. i \in 1..(n + 1) /\ t[i] = y
      BY <1>3, <3>1
    <3> QED
      BY <1>3, <3>2 DEF Range
  <2>3. x \in Range(t)
    <3>1. n + 1 \in 1..(n + 1)
      BY <1>3
    <3> QED
      BY <1>3, <3>1 DEF Range
  <2> QED
    BY <2>1, <2>2, <2>3
<1> QED
  BY <1>4 DEF t

\* The pages of two sequences, one after the other.
LEMMA RangeOfConcat ==
    ASSUME NEW S, NEW s \in Seq(S), NEW t \in Seq(S)
    PROVE  Range(s \o t) = Range(s) \cup Range(t)
<1>1. /\ s \o t \in Seq(S) /\ Len(s \o t) = Len(s) + Len(t) /\ Len(s) \in Nat /\ Len(t) \in Nat
      /\ \A i \in 1..(Len(s) + Len(t)) : (s \o t)[i] = IF i <= Len(s) THEN s[i] ELSE t[i - Len(s)]
  BY ConcatProperties, LenProperties
<1>2. /\ DOMAIN s = 1..Len(s) /\ DOMAIN t = 1..Len(t)
      /\ DOMAIN (s \o t) = 1..(Len(s) + Len(t))
  BY <1>1, LenProperties
<1> DEFINE u == s \o t
           n == Len(s)
           m == Len(t)
<1> HIDE DEF u, n, m
<1>3. /\ n \in Nat /\ m \in Nat
      /\ DOMAIN s = 1..n /\ DOMAIN t = 1..m /\ DOMAIN u = 1..(n + m)
      /\ \A i \in 1..(n + m) : u[i] = IF i <= n THEN s[i] ELSE t[i - n]
  BY <1>1, <1>2 DEF u, n, m
<1>4. ASSUME NEW y \in Range(u) PROVE y \in Range(s) \cup Range(t)
  <2>1. PICK i \in 1..(n + m) : u[i] = y
    BY <1>3 DEF Range
  <2>2. CASE i <= n
    <3>1. i \in 1..n /\ s[i] = y
      BY <1>3, <2>1, <2>2
    <3> QED
      BY <1>3, <3>1 DEF Range
  <2>3. CASE ~(i <= n)
    <3>1. i - n \in 1..m /\ t[i - n] = y
      BY <1>3, <2>1, <2>3
    <3> QED
      BY <1>3, <3>1 DEF Range
  <2> QED
    BY <2>2, <2>3
<1>5. ASSUME NEW y \in Range(s) PROVE y \in Range(u)
  <2>1. PICK i \in 1..n : s[i] = y
    BY <1>3 DEF Range
  <2>2. i \in 1..(n + m) /\ u[i] = y
    BY <1>3, <2>1
  <2> QED
    BY <1>3, <2>2 DEF Range
<1>6. ASSUME NEW y \in Range(t) PROVE y \in Range(u)
  <2>1. PICK i \in 1..m : t[i] = y
    BY <1>3 DEF Range
  <2>2. i + n \in 1..(n + m) /\ ~(i + n <= n) /\ i + n - n = i
    BY <1>3
  <2>3. u[i + n] = y
    BY <1>3, <2>1, <2>2
  <2> QED
    BY <1>3, <2>2, <2>3 DEF Range
<1>7. Range(u) = Range(s) \cup Range(t)
  BY <1>4, <1>5, <1>6
<1> QED
  BY <1>7 DEF u

\* The first of a sequence and the rest of it.
LEMMA RangeOfTail ==
    ASSUME NEW S, NEW s \in Seq(S), s # <<>>
    PROVE  Range(s) = {Head(s)} \cup Range(Tail(s))
<1>1. /\ Head(s) = s[1] /\ Tail(s) \in Seq(S) /\ Len(Tail(s)) = Len(s) - 1
      /\ \A i \in 1..Len(Tail(s)) : Tail(s)[i] = s[i + 1]
  BY HeadTailProperties
<1>2. Len(s) \in Nat /\ Len(s) # 0 /\ DOMAIN s = 1..Len(s) /\ DOMAIN Tail(s) = 1..(Len(s) - 1)
  BY <1>1, EmptySeq, LenProperties
<1> DEFINE t == Tail(s)
           n == Len(s)
<1> HIDE DEF t, n
<1>3. /\ n \in Nat /\ n # 0 /\ DOMAIN s = 1..n /\ DOMAIN t = 1..(n - 1)
      /\ \A i \in 1..(n - 1) : t[i] = s[i + 1]
  BY <1>1, <1>2 DEF t, n
<1>4. ASSUME NEW y \in Range(s) PROVE y \in {s[1]} \cup Range(t)
  <2>1. PICK i \in 1..n : s[i] = y
    BY <1>3 DEF Range
  <2>2. CASE i # 1
    <3>1. i - 1 \in 1..(n - 1) /\ i - 1 + 1 = i
      BY <1>3, <2>2
    <3>2. t[i - 1] = y
      BY <1>3, <2>1, <3>1
    <3> QED
      BY <1>3, <3>1, <3>2 DEF Range
  <2> QED
    BY <2>1, <2>2
<1>5. ASSUME NEW y \in Range(t) PROVE y \in Range(s)
  <2>1. PICK i \in 1..(n - 1) : t[i] = y
    BY <1>3 DEF Range
  <2>2. i + 1 \in 1..n /\ s[i + 1] = y
    BY <1>3, <2>1
  <2> QED
    BY <1>3, <2>2 DEF Range
<1>6. s[1] \in Range(s)
  <2>1. 1 \in 1..n
    BY <1>3
  <2> QED
    BY <1>3, <2>1 DEF Range
<1>7. Range(s) = {s[1]} \cup Range(t)
  BY <1>4, <1>5, <1>6
<1> QED
  BY <1>1, <1>7 DEF t

\* The pages of the items of a list, of its parts, and of a list of one or two.
LEMMA AcrossIsOf == \A list : PagesAcross(list) = PagesOf(Range(list))
  BY DEF PagesAcross, PagesOf, Range

\* The pages across an empty list, across a concatenation, and from the head on.
LEMMA AcrossParts ==
    /\ PagesAcross(<<>>) = {}
    /\ \A S : \A s, t \in Seq(S) : PagesAcross(s \o t) = PagesAcross(s) \cup PagesAcross(t)
    /\ \A S : \A s \in Seq(S) : s # <<>> =>
          PagesAcross(s) = Range(Head(s).pages) \cup PagesAcross(Tail(s))
<1>1. PagesAcross(<<>>) = {}
  BY DEF PagesAcross
<1>2. ASSUME NEW S, NEW s \in Seq(S), NEW t \in Seq(S)
      PROVE  PagesAcross(s \o t) = PagesAcross(s) \cup PagesAcross(t)
  <2>1. PagesAcross(s \o t) = PagesOf(Range(s) \cup Range(t))
    BY ZenonT(40), AcrossIsOf, RangeOfConcat
  <2> QED
    BY <2>1, AcrossIsOf, PagesOfItems
<1>3. ASSUME NEW S, NEW s \in Seq(S), s # <<>>
      PROVE  PagesAcross(s) = Range(Head(s).pages) \cup PagesAcross(Tail(s))
  <2>1. PagesAcross(s) = PagesOf(Range(Tail(s)) \cup {Head(s)})
    <3>1. {Head(s)} \cup Range(Tail(s)) = Range(Tail(s)) \cup {Head(s)}
      OBVIOUS
    <3> QED
      BY <1>3, <3>1, AcrossIsOf, RangeOfTail
  <2>2. PagesOf(Range(Tail(s)) \cup {Head(s)}) = PagesOf(Range(Tail(s))) \cup Range(Head(s).pages)
    BY PagesOfItems
  <2> QED
    BY <2>1, <2>2, AcrossIsOf
<1> QED
  BY <1>1, <1>2, <1>3

\* The pages across a list of one or of two.
LEMMA AcrossFew ==
    ASSUME NEW S, NEW list \in Seq(S)
    PROVE  /\ Len(list) = 1 => PagesAcross(list) = Range(list[1].pages)
           /\ Len(list) = 2 => PagesAcross(list) = Range(list[1].pages) \cup Range(list[2].pages)
<1>1. DOMAIN list = 1..Len(list)
  BY LenProperties
<1>2. ASSUME Len(list) = 1 PROVE PagesAcross(list) = Range(list[1].pages)
  <2>1. DOMAIN list = {1}
    BY <1>1, <1>2
  <2> QED
    BY <2>1 DEF PagesAcross
<1>3. ASSUME Len(list) = 2 PROVE PagesAcross(list) = Range(list[1].pages) \cup Range(list[2].pages)
  <2>1. DOMAIN list = {1, 2}
    BY <1>1, <1>3
  <2> QED
    BY <2>1 DEF PagesAcross
<1> QED
  BY <1>2, <1>3

\* The same of a list that is written out.
LEMMA AcrossLiterals ==
    /\ \A a : PagesAcross(<<a>>) = Range(a.pages)
    /\ \A a, b : PagesAcross(<<a, b>>) = Range(a.pages) \cup Range(b.pages)
<1>1. ASSUME NEW a PROVE PagesAcross(<<a>>) = Range(a.pages)
  <2>1. <<a>> \in Seq({a}) /\ Len(<<a>>) = 1 /\ <<a>>[1] = a
    OBVIOUS
  <2> QED
    BY <2>1, AcrossFew
<1>2. ASSUME NEW a, NEW b PROVE PagesAcross(<<a, b>>) = Range(a.pages) \cup Range(b.pages)
  <2>1. <<a, b>> \in Seq({a, b}) /\ Len(<<a, b>>) = 2 /\ <<a, b>>[1] = a /\ <<a, b>>[2] = b
    OBVIOUS
  <2> QED
    BY <2>1, AcrossFew
<1> QED
  BY <1>1, <1>2

\* Before a run is handled, left or swept only its spool and artefacts matter.
LEMMA OnlyCovers ==
    ASSUME pc' \in Before \cup {"handle"}, SpoolHolds', ArtefactsCover'
    PROVE  PagesRest'
  BY DEF PagesRest, HeldSoFar, LegsAreMade, DeliveredIsHeld, KeepCovers, LeaveIsSafe, SweepIsOfLeft, NothingLost,
         Before, Acquiring, Scanning

\* A step that keeps the pages keeps them covered, where it ends the run too.
LEMMA CoverKeeps ==
    ASSUME UNCHANGED <<kind, owed, ledger>>, Covered,
           art'.stage = art.stage, art'.document = art.document, art'.pdfs = art.pdfs
    PROVE  Covered'
  BY DEF Covered, InLedger, InPdfs

\* A step that neither adds a page nor removes one.
LEMMA SpoolKeeps ==
    ASSUME SpoolHolds, pc \in Before \cup {"deliver", "delivered", "handle", "preserve"},
           UNCHANGED <<owed, spool, failed>>
    PROVE  SpoolHolds'
  BY DEF SpoolHolds

\* A run that breaks off with its artefacts as they were.
LEMMA RunBreaks ==
    ASSUME SpoolHolds, ArtefactsCover, pc \in Before \cup {"deliver", "delivered"}, pc' = "handle",
           UNCHANGED <<kind, owed, ledger, spool, failed>>,
           art'.stage = art.stage, art'.document = art.document, art'.pdfs = art.pdfs
    PROVE  PagesRest'
<1>1. SpoolHolds'
  BY SpoolKeeps
<1>2. Covered'
  BY CoverKeeps DEF ArtefactsCover
<1>3. StageIsOfPlace'
  BY DEF StageIsOfPlace, Acquiring, Scanning
<1> QED
  BY <1>1, <1>2, <1>3, OnlyCovers DEF ArtefactsCover

\* The passes of an acquisition, by how many there are.
LEMMA InLedgerIs ==
    ASSUME TypeOK
    PROVE  /\ ledger = <<>> => InLedger = {}
           /\ Len(ledger) = 1 => InLedger = Range(ledger[1].pages) /\ ledger[1] \in OpenPass
           /\ Len(ledger) = 2 =>
                 /\ InLedger = Range(ledger[1].pages) \cup Range(ledger[2].pages)
                 /\ ledger[1] \in OpenPass /\ ledger[2] \in OpenPass
<1>1. ledger \in Seq(OpenPass) /\ DOMAIN ledger = 1..Len(ledger)
  BY LenProperties DEF TypeOK, AcquisitionTypeOK
<1>2. ledger = <<>> => InLedger = {}
  BY AcrossParts DEF InLedger
<1>3. Len(ledger) = 1 => InLedger = Range(ledger[1].pages) /\ ledger[1] \in OpenPass
  <2>1. Len(ledger) = 1 => ledger[1] \in OpenPass
    BY <1>1
  <2> QED
    BY <1>1, <2>1, AcrossFew DEF InLedger
<1>4. Len(ledger) = 2 =>
         /\ InLedger = Range(ledger[1].pages) \cup Range(ledger[2].pages)
         /\ ledger[1] \in OpenPass /\ ledger[2] \in OpenPass
  <2>1. Len(ledger) = 2 => ledger[1] \in OpenPass /\ ledger[2] \in OpenPass
    BY <1>1
  <2> QED
    BY <1>1, <2>1, AcrossFew DEF InLedger
<1> QED
  BY <1>2, <1>3, <1>4

\* Opening: nothing is owed yet.
LEMMA OpenCovers == TypeOK /\ PagesRest /\ OpenWorkspace => PagesRest'
<1> SUFFICES ASSUME TypeOK, PagesRest, OpenWorkspace PROVE PagesRest'
  OBVIOUS
<1>1. /\ pc = "open" /\ pc' = "scan" /\ owed = {}
      /\ UNCHANGED <<kind, art, owed, spool, failed>> /\ Covered /\ art.stage = "ACQUIRING"
  BY DEF OpenWorkspace, Goto, PagesRest, ArtefactsCover, StageIsOfPlace, Before, keeping
<1>2. Covered'
  BY <1>1 DEF Covered
<1> QED
  BY <1>1, <1>2, OnlyCovers DEF SpoolHolds, ArtefactsCover, StageIsOfPlace, Before, Acquiring, Scanning

\* A sheet: its page is in the spool and in the pass at once, or is not.
LEMMA SheetCovers ==
    TypeOK /\ PagesRest /\ (SpoolPage \/ SheetMissed \/ SheetUnreadable) => PagesRest'
<1> SUFFICES ASSUME TypeOK, PagesRest, SpoolPage \/ SheetMissed \/ SheetUnreadable
             PROVE  PagesRest'
  OBVIOUS
<1>1. /\ pc = "scan" /\ pc' = "scan" /\ UNCHANGED <<kind, art, failed>>
      /\ Covered /\ art.stage = "ACQUIRING" /\ SpoolHolds
  BY DEF SpoolPage, SheetMissed, SheetUnreadable, Feed, PagesRest, ArtefactsCover, StageIsOfPlace,
         Before, Acquiring, Scanning, keeping
<1>2. /\ Current \in 1..Len(ledger) /\ ledger[Current] \in OpenPass /\ ledger \in Seq(OpenPass)
  BY <1>1, CurrentPass DEF TypeOK, AcquisitionTypeOK
<1>3. PICK c \in 1..Len(ledger) : c = Current
  BY <1>2
<1>4. ASSUME SpoolPage
      PROVE  InLedger' = InLedger \cup {NewPage} /\ owed' = owed \cup {NewPage} /\ spool' = spool \cup {NewPage}
  <2>1. PICK pass : pass = [ledger[c] EXCEPT !.pages = Append(ledger[c].pages, NewPage)]
    OBVIOUS
  <2>2. ledger' = [ledger EXCEPT ![c] = pass] /\ owed' = owed \cup {NewPage} /\ spool' = spool \cup {NewPage}
    BY <1>3, <1>4, <2>1 DEF SpoolPage, Feed
  <2>3. ledger[c].pages \in Seq(Page \cup {NewPage})
    BY <1>2, <1>3 DEF OpenPass
  <2>4. pass.pages = Append(ledger[c].pages, NewPage)
    BY <1>2, <1>3, <2>1 DEF OpenPass
  <2>5. Range(pass.pages) = Range(ledger[c].pages) \cup {NewPage}
    <3>1. NewPage \in Page \cup {NewPage}
      OBVIOUS
    <3> HIDE DEF NewPage
    <3> QED
      BY <2>3, <2>4, <3>1, RangeOfAppend
  <2>6. PagesAcross([ledger EXCEPT ![c] = pass]) = PagesAcross(ledger) \cup {NewPage}
    <3> HIDE DEF NewPage
    <3> QED
      BY <1>2, <2>5, LedgerGrows
  <2> QED
    BY <2>2, <2>6 DEF InLedger
<1>5. ASSUME SheetMissed \/ SheetUnreadable PROVE InLedger' = InLedger /\ owed' = owed /\ spool' = spool
  <2>1. CASE SheetMissed
    BY <2>1 DEF SheetMissed, InLedger
  <2>2. CASE SheetUnreadable
    <3>1. PICK pass : pass = [ledger[c] EXCEPT !.lost = ledger[c].lost + 1]
      OBVIOUS
    <3>2. ledger' = [ledger EXCEPT ![c] = pass] /\ owed' = owed /\ spool' = spool
      BY <1>3, <2>2, <3>1 DEF SheetUnreadable
    <3>3. PICK none : none = {}
      OBVIOUS
    <3>4. Range(pass.pages) = Range(ledger[c].pages) \cup none
      BY <1>2, <1>3, <3>1, <3>3 DEF OpenPass
    <3>5. PagesAcross([ledger EXCEPT ![c] = pass]) = PagesAcross(ledger) \cup none
      BY <1>2, <3>4, LedgerGrows
    <3> QED
      BY <3>2, <3>3, <3>5 DEF InLedger
  <2> QED
    BY <1>5, <2>1, <2>2
<1>6. Covered' /\ SpoolHolds'
  <2>1. CASE SpoolPage
    BY <1>1, <1>4, <2>1 DEF Covered, SpoolHolds, Before, Acquiring, Scanning
  <2>2. CASE SheetMissed \/ SheetUnreadable
    BY <1>1, <1>5, <2>2 DEF Covered, SpoolHolds, Before, Acquiring, Scanning
  <2> QED
    BY <2>1, <2>2
<1>7. StageIsOfPlace'
  BY <1>1 DEF StageIsOfPlace, Acquiring, Scanning
<1> QED
  BY <1>1, <1>6, <1>7, OnlyCovers DEF ArtefactsCover, Before, Acquiring, Scanning

\* The document as it goes to the filter holds every page owed.
LEMMA FilterCovers ==
    ASSUME SpoolHolds, pc \in Before, pc' = "filter", UNCHANGED <<owed, spool, failed>>,
           art'.stage = "FILTERING", art'.document # <<>>, owed \subseteq Range(art'.document)
    PROVE  PagesRest'
<1>1. SpoolHolds'
  BY SpoolKeeps
<1>2. Covered' /\ StageIsOfPlace'
  BY DEF Covered, StageIsOfPlace, Acquiring, Scanning
<1> QED
  BY <1>1, <1>2, OnlyCovers DEF ArtefactsCover, Before, Acquiring, Scanning

\* A step of the acquisition after which the same is covered.
LEMMA StillAcquiring ==
    ASSUME SpoolHolds, ArtefactsCover, pc \in Acquiring, pc' \in Acquiring,
           UNCHANGED <<kind, owed, spool, failed>>, InLedger \subseteq InLedger',
           art'.stage = art.stage, art'.document = art.document, art'.pdfs = art.pdfs
    PROVE  PagesRest'
<1>1. SpoolHolds'
  BY SpoolKeeps DEF Before
<1>2. art.stage = "ACQUIRING" /\ Covered
  BY DEF ArtefactsCover, StageIsOfPlace, Before
<1>3. Covered'
  BY <1>2 DEF Covered
<1>4. StageIsOfPlace'
  BY <1>2 DEF StageIsOfPlace, Acquiring, Scanning
<1> QED
  BY <1>1, <1>3, <1>4, OnlyCovers DEF ArtefactsCover, Before

\* The fields of art that a count of sheets leaves alone.
LEMMA CountingKeeps ==
    ASSUME art \in Artefacts, NEW i
    PROVE  LET a == Counting(art, i)
           IN  /\ a.stage = art.stage /\ a.document = art.document /\ a.pdfs = art.pdfs
               /\ \A s : LET b == [a EXCEPT !.stage = s]
                         IN  b.stage = s /\ b.document = art.document /\ b.pdfs = art.pdfs
               /\ \A s, d : LET b == [a EXCEPT !.stage = s, !.document = d]
                            IN  b.stage = s /\ b.document = d /\ b.pdfs = art.pdfs
  BY DEF Counting, Artefacts

\* What a document sent to the filter sets.
LEMMA ToFilterSets ==
    ASSUME art \in Artefacts, NEW pages, ToFilter(pages)
    PROVE  pc' = "filter" /\ art'.stage = "FILTERING" /\ art'.document = pages
  BY DEF ToFilter, Artefacts

\* The end of the only pass, or of the fronts.
LEMMA FirstPassCovers == TypeOK /\ PagesRest /\ FirstPassEnds => PagesRest'
<1> SUFFICES ASSUME TypeOK, PagesRest, FirstPassEnds PROVE PagesRest'
  OBVIOUS
<1>1. /\ pc = "scan" /\ kind # "multi" /\ Len(ledger) = 1 /\ art \in Artefacts
      /\ UNCHANGED <<kind, owed, spool, failed, ledger>> /\ SpoolHolds /\ ArtefactsCover
  BY DEF FirstPassEnds, Current, PagesRest, TypeOK, ArtTypeOK, keeping
<1>2. Covered /\ art.stage = "ACQUIRING" /\ art.document = <<>> /\ pc \in Before
  BY <1>1 DEF ArtefactsCover, Covered, StageIsOfPlace, Before, Acquiring, Scanning
<1>3. owed \subseteq Range(ledger[1].pages)
  <2>1. Range(<<>>) = {}
    BY DEF Range
  <2> QED
    BY <1>1, <1>2, <2>1, InLedgerIs DEF Covered
<1>4. PICK counted \in {art, Counting(art, 1)} :
         \/ pc' = "handle" /\ art' = counted
         \/ pc' = "flip" /\ art' = counted
         \/ /\ pc' = "filter" /\ ledger[1].pages # <<>>
            /\ art' = [counted EXCEPT !.stage = "FILTERING", !.document = ledger[1].pages]
  BY DEF FirstPassEnds, EndsAs
<1>5. /\ counted.stage = art.stage /\ counted.document = art.document /\ counted.pdfs = art.pdfs
      /\ LET b == [counted EXCEPT !.stage = "FILTERING", !.document = ledger[1].pages]
         IN  b.stage = "FILTERING" /\ b.document = ledger[1].pages
  <2>1. CASE counted = art
    BY <1>1, <2>1 DEF Artefacts
  <2>2. CASE counted = Counting(art, 1)
    BY <1>1, <2>2, CountingKeeps
  <2> QED
    BY <2>1, <2>2
<1>6. CASE pc' = "handle" /\ art' = counted
  BY <1>1, <1>2, <1>5, <1>6, RunBreaks
<1>7. CASE pc' = "flip" /\ art' = counted
  <2>1. pc \in Acquiring /\ pc' \in Acquiring /\ InLedger' = InLedger
    BY <1>1, <1>7 DEF Acquiring, Scanning, InLedger
  <2> QED
    BY <1>1, <1>5, <1>7, <2>1, StillAcquiring
<1>8. CASE /\ pc' = "filter" /\ ledger[1].pages # <<>>
           /\ art' = [counted EXCEPT !.stage = "FILTERING", !.document = ledger[1].pages]
  BY <1>1, <1>2, <1>3, <1>5, <1>8, FilterCovers
<1> QED
  BY <1>4, <1>6, <1>7, <1>8

\* The end of the backs: paired page by page, or left in their passes.
LEMMA BacksPassCovers == TypeOK /\ PagesRest /\ BacksPassEnds => PagesRest'
<1> SUFFICES ASSUME TypeOK, PagesRest, BacksPassEnds PROVE PagesRest'
  OBVIOUS
<1>1. /\ pc = "scan" /\ kind = "duplex" /\ Len(ledger) = 2 /\ art \in Artefacts
      /\ UNCHANGED <<kind, owed, spool, failed, ledger>> /\ SpoolHolds /\ ArtefactsCover
  BY DEF BacksPassEnds, Current, PagesRest, TypeOK, ArtTypeOK, keeping
<1>2. Covered /\ art.stage = "ACQUIRING" /\ art.document = <<>> /\ pc \in Before
  BY <1>1 DEF ArtefactsCover, Covered, StageIsOfPlace, Before, Acquiring, Scanning
<1>3. /\ owed \subseteq Range(ledger[1].pages) \cup Range(ledger[2].pages) /\ owed \subseteq InLedger
      /\ ledger[1].pages \in Seq(Page) /\ ledger[2].pages \in Seq(Page)
  <2>1. Range(<<>>) = {}
    BY DEF Range
  <2> QED
    BY <1>1, <1>2, <2>1, InLedgerIs DEF Covered, OpenPass
<1>4. \/ pc' = "handle" /\ art' = Counting(art, 2)
      \/ /\ ledger[2].pages # <<>> /\ Len(ledger[1].pages) = Len(ledger[2].pages)
         /\ ToFilter(InterleaveDuplex(ledger[1].pages, ledger[2].pages))
      \/ pc' = "pair" /\ art' = [Counting(art, 2) EXCEPT !.stage = "ASSEMBLING"]
  BY DEF BacksPassEnds, EndsAs, CanPair
<1>5. CASE pc' = "handle" /\ art' = Counting(art, 2)
  BY <1>1, <1>2, <1>5, CountingKeeps, RunBreaks
<1>6. CASE /\ ledger[2].pages # <<>> /\ Len(ledger[1].pages) = Len(ledger[2].pages)
           /\ ToFilter(InterleaveDuplex(ledger[1].pages, ledger[2].pages))
  <2>1. PICK all : all = InterleaveDuplex(ledger[1].pages, ledger[2].pages)
    OBVIOUS
  <2>2. pc' = "filter" /\ art'.stage = "FILTERING" /\ art'.document = all
    BY <1>1, <1>6, <2>1, ToFilterSets
  <2>3. /\ Len(all) = 2 * Len(ledger[1].pages) /\ all \in Seq(Page)
        /\ Range(all) = Range(ledger[1].pages) \cup Range(ledger[2].pages)
    BY <1>3, <1>6, <2>1, InterleavedPages
  <2>4. all # <<>>
    <3>1. Len(ledger[1].pages) \in Nat /\ Len(ledger[1].pages) # 0
      BY <1>3, <1>6, EmptySeq, LenProperties
    <3>2. Len(all) # 0
      BY <2>3, <3>1
    <3> QED
      BY <2>3, <3>2, EmptySeq
  <2> QED
    BY <1>1, <1>2, <1>3, <2>2, <2>3, <2>4, FilterCovers
<1>7. CASE pc' = "pair" /\ art' = [Counting(art, 2) EXCEPT !.stage = "ASSEMBLING"]
  <2>1. art'.stage = "ASSEMBLING" /\ InLedger' = InLedger
    BY <1>1, <1>7, CountingKeeps DEF InLedger
  <2>2. Covered' /\ StageIsOfPlace'
    BY <1>1, <1>3, <1>7, <2>1 DEF Covered, StageIsOfPlace, Acquiring, Scanning
  <2>3. SpoolHolds'
    BY <1>1, <1>2, SpoolKeeps
  <2> QED
    BY <1>7, <2>2, <2>3, OnlyCovers DEF ArtefactsCover, Before
<1> QED
  BY <1>4, <1>5, <1>6, <1>7

\* The flip: the backs' pass begins empty beside the fronts.
LEMMA FlipCovers == TypeOK /\ PagesRest /\ FlipAnswered => PagesRest'
<1> SUFFICES ASSUME TypeOK, PagesRest, FlipAnswered PROVE PagesRest'
  OBVIOUS
<1>1. /\ pc = "flip" /\ UNCHANGED <<kind, owed, spool, failed, art>> /\ SpoolHolds /\ ArtefactsCover
      /\ ledger \in Seq(OpenPass)
  BY DEF FlipAnswered, PagesRest, TypeOK, AcquisitionTypeOK, keeping
<1>2. CASE pc' = "handle" /\ ledger' = ledger
  BY <1>1, <1>2, RunBreaks DEF Before, Acquiring, Scanning
<1>3. CASE pc' = "scan" /\ ledger' = Append(ledger, Pass(Backs))
  <2>1. Pass(Backs) \in OpenPass
    BY EmptySeq DEF Pass, OpenPass, PassNames
  <2>2. Range(ledger') = Range(ledger) \cup {Pass(Backs)}
    <3> HIDE DEF Pass
    <3> QED
      BY <1>1, <1>3, <2>1, RangeOfAppend
  <2>3. InLedger \subseteq InLedger'
    BY <2>2, AcrossIsOf, PagesOfItems DEF InLedger
  <2> QED
    BY <1>1, <1>3, <2>3, StillAcquiring DEF Acquiring, Scanning
<1> QED
  BY <1>2, <1>3 DEF FlipAnswered, EndsAs

\* A pass of a multi-page document: decided on, accepted, or thrown away.
LEMMA AcceptCovers == TypeOK /\ PagesRest /\ AcceptPass => PagesRest'
<1> SUFFICES ASSUME TypeOK, PagesRest, AcceptPass PROVE PagesRest'
  OBVIOUS
<1>1. /\ pc = "decide" /\ pc' = "between" /\ kind = "multi" /\ Len(ledger) = 1 /\ art \in Artefacts
      /\ UNCHANGED <<kind, owed, spool, failed>> /\ SpoolHolds /\ ArtefactsCover
      /\ ledger' = <<>>
      /\ art' = [art EXCEPT !.document = @ \o ledger[1].pages, !.unreadable = @ + ledger[1].lost]
  BY DEF AcceptPass, PagesRest, TypeOK, PassesInFlight, ArtTypeOK, keeping
<1>2. Covered /\ art.stage = "ACQUIRING" /\ pc \in Before
  BY <1>1 DEF ArtefactsCover, StageIsOfPlace, Before, Acquiring, Scanning
<1>3. art'.stage = "ACQUIRING" /\ art'.document = art.document \o ledger[1].pages
  BY <1>1, <1>2 DEF Artefacts
<1>4. Range(art'.document) = Range(art.document) \cup Range(ledger[1].pages)
  <2>1. art.document \in Seq(Page) /\ ledger[1].pages \in Seq(Page)
    BY <1>1, InLedgerIs DEF Artefacts, OpenPass
  <2> QED
    BY <1>3, <2>1, RangeOfConcat
<1>5. Covered'
  BY <1>1, <1>2, <1>3, <1>4, InLedgerIs DEF Covered
<1>6. SpoolHolds'
  BY <1>1, <1>2, SpoolKeeps
<1>7. StageIsOfPlace'
  BY <1>1, <1>3 DEF StageIsOfPlace
<1> QED
  BY <1>1, <1>5, <1>6, <1>7, OnlyCovers DEF ArtefactsCover, Before, Acquiring, Scanning

\* A pass thrown away takes its pages out of what is owed.
LEMMA DiscardCovers == TypeOK /\ PagesRest /\ DiscardPass => PagesRest'
<1> SUFFICES ASSUME TypeOK, PagesRest, DiscardPass PROVE PagesRest'
  OBVIOUS
<1>1. /\ pc = "decide" /\ pc' = "between" /\ kind = "multi" /\ Len(ledger) = 1
      /\ UNCHANGED <<kind, art, failed>> /\ SpoolHolds /\ ArtefactsCover
      /\ owed' = owed \ Range(ledger[1].pages) /\ spool' = spool \ Range(ledger[1].pages)
  BY DEF DiscardPass, PagesRest, TypeOK, PassesInFlight, keeping
<1>2. Covered /\ art.stage = "ACQUIRING" /\ pc \in Before
  BY <1>1 DEF ArtefactsCover, StageIsOfPlace, Before, Acquiring, Scanning
<1>3. Covered'
  BY <1>1, <1>2, InLedgerIs DEF Covered
<1>4. SpoolHolds'
  BY <1>1, <1>2 DEF SpoolHolds
<1>5. StageIsOfPlace'
  BY <1>1, <1>2 DEF StageIsOfPlace
<1> QED
  BY <1>1, <1>3, <1>4, <1>5, OnlyCovers DEF ArtefactsCover, Before, Acquiring, Scanning

\* The end of a pass, the next one, and the end of the document.
LEMMA PassCovers ==
    TypeOK /\ PagesRest /\ (MultiPassEnds \/ NextPass \/ FinishPasses) => PagesRest'
<1> SUFFICES ASSUME TypeOK, PagesRest, MultiPassEnds \/ NextPass \/ FinishPasses PROVE PagesRest'
  OBVIOUS
<1>0. SpoolHolds /\ ArtefactsCover /\ art \in Artefacts
  BY DEF PagesRest, TypeOK, ArtTypeOK
<1>1. CASE MultiPassEnds
  BY <1>0, <1>1, StillAcquiring
     DEF MultiPassEnds, Goto, acquisition, keeping, Acquiring, Scanning, InLedger
<1>2. CASE NextPass
  <2>1. InLedger = {} /\ pc = "between" /\ pc' = "scan" /\ UNCHANGED <<kind, owed, spool, failed, art>>
    BY <1>2, InLedgerIs DEF NextPass, TypeOK, PassesInFlight, keeping
  <2> QED
    BY <1>0, <2>1, StillAcquiring DEF Acquiring, Scanning
<1>3. CASE FinishPasses
  <2>1. /\ InLedger = {} /\ pc = "between" /\ UNCHANGED <<kind, owed, spool, failed, ledger>>
        /\ pc \in Before
    BY <1>3, InLedgerIs
       DEF FinishPasses, TypeOK, PassesInFlight, acquisition, keeping, Before, Acquiring
  <2>2. CASE pc' = "handle" /\ art' = art
    BY <1>0, <2>1, <2>2, RunBreaks
  <2>3. CASE art.document # <<>> /\ ToFilter(art.document)
    <3>1. owed \subseteq Range(art.document)
      BY <1>0, <2>1 DEF ArtefactsCover, StageIsOfPlace, Covered, Acquiring
    <3>2. pc' = "filter" /\ art'.stage = "FILTERING" /\ art'.document = art.document
      BY <1>0, <2>3, ToFilterSets
    <3> QED
      BY <1>0, <2>1, <2>3, <3>1, <3>2, FilterCovers
  <2> QED
    BY <1>3, <2>2, <2>3 DEF FinishPasses, EndsAs
<1> QED
  BY <1>1, <1>2, <1>3

\* The delivery begins with PDFs that hold every page still owed.
LEMMA DeliveryCovers ==
    ASSUME TypeOK, HandRest, SpoolHolds, pc \in Before, UNCHANGED <<spool, failed, clientVars>>,
           owed' \subseteq owed, pc' = "deliver", art'.stage = "DELIVERING",
           owed' \subseteq InPdfs'
    PROVE  PagesRest'
<1>1. SpoolHolds'
  BY DEF SpoolHolds
<1>2. HeldSoFar'
  <2>1. \A n \in Names : taken'[n] = 0 /\ dropped'[n] = "no"
    BY DEF HandRest, NothingHanded, Fresh, clientVars, server
  <2>2. \A n \in Names : Handed(n)' = 0
    BY <2>1 DEF Handed
  <2> QED
    BY <2>2 DEF HeldSoFar
<1>3. ArtefactsCover'
  BY DEF ArtefactsCover, Covered, StageIsOfPlace, Acquiring, Scanning
<1> QED
  BY <1>1, <1>2, <1>3
     DEF PagesRest, LegsAreMade, DeliveredIsHeld, KeepCovers, LeaveIsSafe, SweepIsOfLeft, NothingLost

\* What is left out as blank is not owed any more, and the rest is in the PDF.
LEMMA DocumentCovers == TypeOK /\ HandRest /\ PagesRest /\ FinishDocument => PagesRest'
<1> SUFFICES ASSUME TypeOK, HandRest, PagesRest, FinishDocument PROVE PagesRest'
  OBVIOUS
<1>1. /\ pc = "filter" /\ UNCHANGED <<kind, spool, failed, clientVars, ledger>> /\ art \in Artefacts
      /\ SpoolHolds /\ ArtefactsCover /\ pc \in Before
  BY DEF FinishDocument, PagesRest, TypeOK, ArtTypeOK, keeping, acquisition, Before
<1>2. owed \subseteq Range(art.document) /\ art.stage = "FILTERING"
  BY <1>1 DEF ArtefactsCover, Covered, StageIsOfPlace
<1>3. CASE pc' = "handle" /\ art' = art /\ owed' = owed
  BY <1>1, <1>3, RunBreaks
<1>4. CASE /\ pc' = "handle" /\ art' = [art EXCEPT !.stage = "ASSEMBLING"] /\ owed' = owed
  <2>1. art'.stage = "ASSEMBLING"
    BY <1>1, <1>4 DEF Artefacts
  <2>2. Covered' /\ StageIsOfPlace'
    BY <1>4, <2>1 DEF Covered, StageIsOfPlace, Acquiring, Scanning
  <2>3. SpoolHolds'
    BY <1>1, <1>4, SpoolKeeps
  <2> QED
    BY <1>4, <2>2, <2>3, OnlyCovers DEF ArtefactsCover
<1>5. ASSUME NEW left \in Leaving(art.document),
             owed' = owed \ (Range(art.document) \ Range(left)),
             Deliver(<<Assembled("document", left)>>,
                     <<Leg("upload", "document"), Leg("poll", "document")>>)
      PROVE  PagesRest'
  <2>1. PICK pdf : pdf = Assembled("document", left)
    OBVIOUS
  <2>2. pdf.pages = left
    BY <2>1 DEF Assembled, Item
  <2>3. pc' = "deliver" /\ art'.stage = "DELIVERING" /\ art'.pdfs = <<pdf>>
    BY <1>1, <1>5, <2>1 DEF Deliver, Artefacts
  <2>4. InPdfs' = Range(left)
    BY <2>2, <2>3, AcrossLiterals DEF InPdfs
  <2>5. owed' \subseteq Range(left) /\ owed' \subseteq owed
    BY <1>2, <1>5
  <2> QED
    BY <1>1, <2>3, <2>4, <2>5, DeliveryCovers
<1> QED
  BY <1>3, <1>4, <1>5 DEF FinishDocument, EndsAs

\* Two halves assembled hold the pages of their two passes.
LEMMA HalvesCover == TypeOK /\ HandRest /\ PagesRest /\ FinishMismatch => PagesRest'
<1> SUFFICES ASSUME TypeOK, HandRest, PagesRest, FinishMismatch PROVE PagesRest'
  OBVIOUS
<1>1. /\ pc = "pair" /\ UNCHANGED <<kind, spool, owed, failed, clientVars, ledger>> /\ art \in Artefacts
      /\ SpoolHolds /\ ArtefactsCover /\ pc \in Before /\ Len(ledger) = 2
  BY DEF FinishMismatch, PagesRest, TypeOK, PassesInFlight, ArtTypeOK, keeping, acquisition, Before
<1>2. owed \subseteq InLedger
  BY <1>1 DEF ArtefactsCover, StageIsOfPlace
<1>3. CASE pc' = "handle" /\ art' = art
  BY <1>1, <1>3, RunBreaks
<1>4. CASE Deliver(<<Assembled("fronts", ledger[1].pages), Assembled("backs", Reverse(ledger[2].pages))>>,
                   <<Leg("upload", "fronts"), Leg("upload", "backs"),
                     Leg("poll", "fronts"), Leg("poll", "backs")>>)
  <2>1. PICK fronts, backs : /\ fronts = Assembled("fronts", ledger[1].pages)
                             /\ backs = Assembled("backs", Reverse(ledger[2].pages))
    OBVIOUS
  <2>2. fronts.pages = ledger[1].pages /\ backs.pages = Reverse(ledger[2].pages)
    BY <2>1 DEF Assembled, Item
  <2>3. pc' = "deliver" /\ art'.stage = "DELIVERING" /\ art'.pdfs = <<fronts, backs>>
    BY <1>1, <1>4, <2>1 DEF Deliver, Artefacts
  <2>4. InPdfs' = Range(ledger[1].pages) \cup Range(Reverse(ledger[2].pages))
    BY <2>2, <2>3, AcrossLiterals DEF InPdfs
  <2>5. Range(Reverse(ledger[2].pages)) = Range(ledger[2].pages)
    <3>1. ledger[2].pages \in Seq(Page)
      BY <1>1, InLedgerIs DEF OpenPass
    <3> QED
      BY <3>1, ReversedSeq
  <2>6. owed' \subseteq InPdfs'
    BY <1>1, <1>2, <2>4, <2>5, InLedgerIs
  <2> QED
    BY <1>1, <2>3, <2>6, DeliveryCovers
<1> QED
  BY <1>3, <1>4 DEF FinishMismatch, EndsAs

\* A step of the delivery that leaves the pages where they are.
LEMMA DeliverKeeps ==
    ASSUME SpoolHolds, ArtefactsCover, pc \in {"deliver", "delivered"}, pc' \in {"deliver", "delivered"},
           UNCHANGED <<kind, owed, ledger, spool, failed>>,
           art'.stage = art.stage, art'.document = art.document, art'.pdfs = art.pdfs, HeldSoFar',
           pc' = "delivered" => legs' = <<>>
    PROVE  PagesRest'
<1>1. SpoolHolds'
  BY SpoolKeeps
<1>2. Covered'
  BY CoverKeeps DEF ArtefactsCover
<1>3. StageIsOfPlace'
  BY DEF StageIsOfPlace, Acquiring, Scanning
<1> QED
  BY <1>1, <1>2, <1>3
     DEF PagesRest, ArtefactsCover, LegsAreMade, DeliveredIsHeld, KeepCovers, LeaveIsSafe, SweepIsOfLeft,
         NothingLost

\* Every step of a call is one of an upload or a poll that is not done.
LEMMA CallIsUnderWay == CallStep => call.op \in {"upload", "poll"} /\ call.at # "done"
<1>1. ASSUME CallStep
      PROVE  \E op \in {"upload", "poll"}, at \in {"send", "sent", "fall back", "copying", "copied", "ask"} :
                At(op, at)
  <2>1. CASE \/ NothingArrives \/ CannotSend \/ VersionRefused \/ Refused \/ Arrives \/ Vanishes
             \/ AnswerLost \/ TaskIdReturned
    BY <2>1 DEF NothingArrives, CannotSend, VersionRefused, Refused, Arrives, Vanishes, AnswerLost,
               TaskIdReturned
  <2>2. CASE FallBack \/ CopyToConsumeDir \/ CopyReturns \/ TaskSeen \/ PollRefused \/ DeadlinePasses
    BY <2>2 DEF FallBack, CopyToConsumeDir, CopyReturns, TaskSeen, PollRefused, DeadlinePasses
  <2> QED
    BY <1>1, <2>1, <2>2 DEF CallStep
<1> QED
  BY <1>1 DEF At

\* What a call hands over, it hands over whole, and a poll may find it failed.
LEMMA CallHolds ==
    ASSUME TypeOK, HandRest, pc = "deliver", CallStep, NEW n \in Names, Handed(n) > 0 => Holds(n)
    PROVE  Handed(n)' > 0 => Holds(n)' \/ (call'.op = "poll" /\ call'.pdf = n /\ call'.result \in Failures)
<1>1. /\ call \in Call /\ tasks \in [Names -> {"none", "queued", "filed", "duplicate", "failed"}]
      /\ taken \in [Names -> Nat] /\ dropped \in [Names -> {"no", "whole"}]
  BY DEF TypeOK, ClientTypeOK
<1>2. call.pdf \in Names
  <2>1. legs # <<>> /\ Head(legs) = Leg(call.op, call.pdf)
    BY CallIsUnderWay DEF HandRest, CallIsOfLeg, NoCall
  <2>2. Head(legs).pdf = call.pdf
    BY <2>1, LegNames
  <2> QED
    BY <2>1, <2>2, InDelivery
<1>3. CASE UNCHANGED <<tasks, taken, dropped>>
  BY <1>3 DEF Handed, Holds
<1>4. CASE Arrives
  <2>1. tasks' = [tasks EXCEPT ![call.pdf] = "queued"] /\ dropped' = dropped
        /\ taken' = [taken EXCEPT ![call.pdf] = @ + 1]
    BY <1>4 DEF Arrives
  <2>2. CASE n = call.pdf
    BY <1>1, <2>1, <2>2 DEF Holds
  <2>3. CASE n # call.pdf
    BY <1>1, <2>1, <2>3 DEF Holds, Handed
  <2> QED
    BY <2>2, <2>3
<1>5. CASE CopyToConsumeDir
  <2>1. UNCHANGED <<tasks, taken>>
        /\ (dropped' = [dropped EXCEPT ![call.pdf] = "whole"] \/ dropped' = dropped)
    BY <1>5 DEF CopyToConsumeDir, server
  <2>2. CASE n = call.pdf /\ dropped' # dropped
    BY <1>1, <2>1, <2>2 DEF Holds
  <2>3. CASE n # call.pdf \/ dropped' = dropped
    BY <1>1, <2>1, <2>3 DEF Holds, Handed
  <2> QED
    BY <2>2, <2>3
<1>6. CASE TaskSeen
  <2>1. PICK how \in {"filed", "duplicate", "failed"} :
           /\ tasks' = [tasks EXCEPT ![call.pdf] = how] /\ UNCHANGED <<taken, dropped>>
           /\ call.op = "poll" /\ Returns(IF how = "failed" THEN "unconfirmed" ELSE how)
    BY <1>6 DEF TaskSeen, At
  <2>2. CASE n # call.pdf
    BY <1>1, <2>1, <2>2 DEF Holds, Handed
  <2>3. CASE n = call.pdf /\ how = "failed"
    <3>1. call'.op = "poll" /\ call'.pdf = n /\ call'.result = "unconfirmed"
      BY <1>1, <2>1, <2>3 DEF Returns, Call
    <3> QED
      BY <3>1 DEF Failures
  <2>4. CASE n = call.pdf /\ how # "failed"
    BY <1>1, <2>1, <2>4 DEF Holds
  <2> QED
    BY <2>2, <2>3, <2>4
<1> QED
  BY <1>3, <1>4, <1>5, <1>6
     DEF CallStep, server, NothingArrives, CannotSend, VersionRefused, Refused, Vanishes, AnswerLost,
         TaskIdReturned, FallBack, CopyReturns, PollRefused, DeadlinePasses

\* While no poll has failed everything handed over is there.
LEMMA HeldBefore ==
    ASSUME HeldSoFar, pc \in {"deliver", "delivered"}, call.result \notin Failures, NEW n \in Names
    PROVE  Handed(n) > 0 => Holds(n)
  BY DEF HeldSoFar

\* Legs started, made and recorded.
LEMMA LegsCover ==
    TypeOK /\ HandRest /\ PagesRest /\ (StartLeg \/ InCall \/ LegReturns \/ SettleDelivered) => PagesRest'
<1> SUFFICES ASSUME TypeOK, HandRest, PagesRest, StartLeg \/ InCall \/ LegReturns \/ SettleDelivered
             PROVE  PagesRest'
  OBVIOUS
<1>1. /\ pc = "deliver" /\ pc' \in {"deliver", "delivered"}
      /\ UNCHANGED <<kind, owed, ledger, spool, failed>>
      /\ pc' = "delivered" => legs' = <<>>
  BY DEF StartLeg, InCall, LegReturns, SettleDelivered, Goto, acquisition, keeping
<1>2. /\ SpoolHolds /\ ArtefactsCover /\ HeldSoFar /\ CallIsOfLeg /\ art \in Artefacts /\ call \in Call
  BY DEF PagesRest, HandRest, TypeOK, ArtTypeOK, ClientTypeOK
<1>3. art'.stage = art.stage /\ art'.document = art.document /\ art'.pdfs = art.pdfs
  BY <1>2 DEF StartLeg, InCall, LegReturns, SettleDelivered, Artefacts
<1>4. CASE StartLeg
  <2>1. call = NoCall /\ UNCHANGED <<tasks, taken, dropped>>
    BY <1>4 DEF StartLeg, StartUpload, StartPoll, clientVars, server
  <2>2. \A n \in Names : Handed(n) > 0 => Holds(n)
    <3>1. call.result \notin Failures
      BY <2>1 DEF NoCall, Failures
    <3> QED
      BY <1>1, <1>2, <3>1, HeldBefore
  <2>3. HeldSoFar'
    BY <2>1, <2>2 DEF HeldSoFar, Handed, Holds
  <2> QED
    BY <1>1, <1>2, <1>3, <2>3, DeliverKeeps
<1>5. CASE InCall
  <2>1. CallStep
    BY <1>5 DEF InCall
  <2>2. call.result \notin Failures
    <3>1. call.at # "done" /\ call # NoCall
      BY <2>1, CallIsUnderWay DEF NoCall
    <3>2. call.result = "none"
      BY <1>2, <3>1 DEF CallIsOfLeg, UploadAt, PollAt
    <3> QED
      BY <3>2 DEF Failures
  <2>3. \A n \in Names : Handed(n) > 0 => Holds(n)
    BY <1>1, <1>2, <2>2, HeldBefore
  <2>4. HeldSoFar'
    BY <1>1, <2>1, <2>3, CallHolds DEF HeldSoFar
  <2> QED
    BY <1>1, <1>2, <1>3, <2>4, DeliverKeeps
<1>6. CASE LegReturns \/ SettleDelivered
  <2>1. UNCHANGED <<tasks, taken, dropped>>
    BY <1>6 DEF LegReturns, SettleDelivered, CallBroken, clientVars, server
  <2>2. call.result \notin Failures
    BY <1>6 DEF LegReturns, SettleDelivered, NoCall, Failures, Deliveries
  <2>3. \A n \in Names : Handed(n) > 0 => Holds(n)
    BY <1>1, <1>2, <2>2, HeldBefore
  <2>4. HeldSoFar'
    BY <2>1, <2>3 DEF HeldSoFar, Handed, Holds
  <2> QED
    BY <1>1, <1>2, <1>3, <2>4, DeliverKeeps
<1> QED
  BY <1>4, <1>5, <1>6

\* A leg raises: the pages are still in the PDFs.
LEMMA LegRaisesCovers == TypeOK /\ HandRest /\ PagesRest /\ LegRaises => PagesRest'
<1> SUFFICES ASSUME TypeOK, HandRest, PagesRest, LegRaises PROVE PagesRest'
  OBVIOUS
<1>1. art \in Artefacts
  BY DEF TypeOK, ArtTypeOK
<1>2. art'.stage = art.stage /\ art'.document = art.document /\ art'.pdfs = art.pdfs
  BY <1>1 DEF LegRaises, Artefacts
<1>3. /\ pc = "deliver" /\ pc' = "handle" /\ UNCHANGED <<kind, owed, ledger, spool, failed>>
      /\ SpoolHolds /\ ArtefactsCover
  BY DEF LegRaises, acquisition, keeping, PagesRest
<1> QED
  BY <1>2, <1>3, RunBreaks

\* Delivered: every PDF was handed over, and what was handed over is there.
LEMMA DeliveredCovers == TypeOK /\ HandRest /\ PagesRest /\ StageDelivered => PagesRest'
<1> SUFFICES ASSUME TypeOK, HandRest, PagesRest, StageDelivered PROVE PagesRest'
  OBVIOUS
<1>1. /\ pc = "delivered" /\ pc' = "leave" /\ outcome' \in Delivering /\ art \in Artefacts
      /\ UNCHANGED <<owed, clientVars>> /\ Covered /\ HeldSoFar /\ CallIsOfLeg
  BY DEF StageDelivered, Goto, Delivering, PagesRest, ArtefactsCover, HandRest, TypeOK, ArtTypeOK
<1>2. call = NoCall
  BY <1>1 DEF CallIsOfLeg
<1>3. PdfNames \subseteq Names /\ art.stage = "DELIVERING" /\ ToUpload = {}
  <2>1. legs = <<>>
    BY <1>1 DEF PagesRest, LegsAreMade
  <2> QED
    BY <1>1, <2>1, InDelivery
<1>4. \A n \in PdfNames : Holds(n)
  <2>1. \A n \in PdfNames : Handed(n) = 1
    BY <1>1, <1>3, InDoubt
  <2>2. call.result \notin Failures
    BY <1>2 DEF NoCall, Failures
  <2> QED
    BY <1>1, <1>3, <2>1, <2>2, HeldBefore
<1>5. art'.pdfs = art.pdfs
  BY <1>1 DEF StageDelivered, Artefacts
<1>6. owed \subseteq Reached'
  <2>1. owed \subseteq InPdfs
    BY <1>1, <1>3 DEF Covered
  <2>2. ASSUME NEW p \in InPdfs PROVE p \in Reached'
    <3>1. PICK i \in DOMAIN art.pdfs : p \in Range(art.pdfs[i].pages)
      BY DEF InPdfs, PagesAcross
    <3>2. Holds(art.pdfs[i].name)
      BY <1>4, <3>1 DEF PdfNames
    <3>3. Holds(art.pdfs[i].name)'
      BY <1>1, <1>5, <3>2 DEF Holds, clientVars, server
    <3>4. art'.pdfs[i] \in {art'.pdfs[k] : k \in {k \in DOMAIN art'.pdfs : Holds(art.pdfs[k].name)'}}
      BY <1>5, <3>1, <3>3
    <3> QED
      BY <1>5, <3>1, <3>4, PagesOfItems DEF Reached
  <2> QED
    BY <2>1, <2>2
<1>7. DeliveredIsHeld' /\ LeaveIsSafe'
  BY <1>1, <1>6 DEF DeliveredIsHeld, LeaveIsSafe, Failing, Delivering
<1> QED
  BY <1>1, <1>7
     DEF PagesRest, SpoolHolds, ArtefactsCover, StageIsOfPlace, HeldSoFar, LegsAreMade, KeepCovers,
         SweepIsOfLeft,
         NothingLost, Before, Acquiring, Scanning

\* What breaks into a run leaves its pages where they are.
LEMMA BreakCovers == TypeOK /\ PagesRest /\ (StepFails \/ Interrupt \/ CtrlC) => PagesRest'
<1> SUFFICES ASSUME TypeOK, PagesRest, StepFails \/ Interrupt \/ CtrlC PROVE PagesRest'
  OBVIOUS
<1>1. /\ pc' = "handle" /\ UNCHANGED <<kind, owed, ledger, spool, failed>>
      /\ SpoolHolds /\ ArtefactsCover /\ art \in Artefacts
  BY DEF StepFails, Interrupt, CtrlC, EndsAs, keeping, PagesRest, TypeOK, ArtTypeOK
<1>2. CASE StepFails \/ Interrupt
  <2>1. pc \in Before \cup {"deliver", "delivered"}
    BY <1>2 DEF StepFails, Interrupt, Running, Before, Acquiring
  <2>2. art'.stage = art.stage /\ art'.document = art.document /\ art'.pdfs = art.pdfs
    BY <1>1, <1>2 DEF StepFails, Interrupt, Artefacts
  <2> QED
    BY <1>1, <2>1, <2>2, RunBreaks
<1>3. CASE CtrlC
  <2>1. pc \in Before \cup {"deliver", "delivered", "handle", "preserve"} /\ outcome' = "cancelled"
    BY <1>3 DEF CtrlC, EndsAs, Running, Before, Acquiring
  <2>2. SpoolHolds'
    BY <1>1, <2>1, SpoolKeeps
  <2>3. ArtefactsCover'
    BY <1>1, <2>1 DEF ArtefactsCover, StageIsOfPlace, Before, Acquiring, Scanning
  <2> QED
    BY <1>1, <2>2, <2>3, OnlyCovers
<1> QED
  BY <1>2, <1>3

\* The passes in the order they were scanned, each with its pages.
LEMMA PassItemPages ==
    ASSUME NEW pass \in RunPass
    PROVE  PassItem(pass) \in [kind : {"pass"}, name : PassNames, pages : Seq(Page)]
           /\ Range(PassItem(pass).pages) = Range(pass.pages)
<1>1. pass.suffix \in PassNames /\ pass.pages \in Seq(Page)
  BY DEF RunPass
<1>2. Reverse(pass.pages) \in Seq(Page) /\ Range(Reverse(pass.pages)) = Range(pass.pages)
  BY <1>1, ReversedSeq
<1> QED
  BY <1>1, <1>2 DEF PassItem, Item

\* Kept pass by pass, no page of the passes is left out.
LEMMA PassItemsCover ==
    ASSUME NEW a \in Artefacts, Len(a.passes) <= 2
    PROVE  /\ PassItems(a) \in Seq(KeptItem)
           /\ PagesAcross(PassItems(a)) = PagesAcross(a.passes)
<1>1. a.passes \in Seq(RunPass) /\ DOMAIN a.passes = 1..Len(a.passes) /\ Len(a.passes) \in 0..2
  <2>1. a.passes \in Seq(RunPass)
    BY DEF Artefacts
  <2>2. PICK n \in Nat : n = Len(a.passes)
    BY <2>1, LenProperties
  <2>3. n <= 2
    BY <2>2, Zenon
  <2>4. n \in 0..2
    BY <2>3
  <2> QED
    BY <2>1, <2>2, <2>4, LenProperties
<1> DEFINE Full(i) == IF i \in DOMAIN a.passes /\ a.passes[i].pages # <<>>
                      THEN <<PassItem(a.passes[i])>> ELSE <<>>
<1>2. ASSUME NEW i \in {1, 2}
      PROVE  /\ Full(i) \in Seq(KeptItem)
             /\ PagesAcross(Full(i)) = IF i \in DOMAIN a.passes THEN Range(a.passes[i].pages) ELSE {}
  <2>1. CASE i \in DOMAIN a.passes /\ a.passes[i].pages # <<>>
    <3>1. PICK item : item = PassItem(a.passes[i])
      OBVIOUS
    <3>2. item \in KeptItem /\ Range(item.pages) = Range(a.passes[i].pages)
      <4>1. a.passes[i] \in RunPass
        BY <1>1, <2>1
      <4> QED
        BY <3>1, <4>1, PassItemPages DEF KeptItem
    <3>3. Full(i) = <<item>>
      BY <2>1, <3>1
    <3> HIDE DEF Full
    <3>4. <<item>> \in Seq(KeptItem) /\ PagesAcross(<<item>>) = Range(item.pages)
      BY <3>2, AcrossLiterals
    <3> QED
      BY <2>1, <3>2, <3>3, <3>4
  <2>2. CASE ~(i \in DOMAIN a.passes /\ a.passes[i].pages # <<>>)
    <3>1. Full(i) = <<>> /\ Range(<<>>) = {}
      BY <2>2 DEF Range
    <3> HIDE DEF Full
    <3>2. (IF i \in DOMAIN a.passes THEN Range(a.passes[i].pages) ELSE {}) = {}
      BY <2>2, <3>1
    <3>3. <<>> \in Seq(KeptItem) /\ PagesAcross(<<>>) = {}
      BY AcrossParts
    <3> QED
      BY <3>1, <3>2, <3>3
  <2> QED
    BY <2>1, <2>2
<1>3. PassItems(a) = Full(1) \o Full(2)
  BY DEF PassItems
<1>4. PagesAcross(a.passes) = PagesAcross(Full(1)) \cup PagesAcross(Full(2))
  <2> HIDE DEF Full
  <2>1. CASE Len(a.passes) = 0
    <3>1. a.passes = <<>> /\ DOMAIN a.passes = {}
      BY <1>1, <2>1, EmptySeq
    <3> QED
      BY <1>2, <3>1, AcrossParts
  <2>2. CASE Len(a.passes) = 1
    <3>1. DOMAIN a.passes = {1}
      BY <1>1, <2>2
    <3> QED
      BY <1>1, <1>2, <2>2, <3>1, AcrossFew
  <2>3. CASE Len(a.passes) = 2
    <3>1. DOMAIN a.passes = {1, 2}
      BY <1>1, <2>3
    <3> QED
      BY <1>1, <1>2, <2>3, <3>1, AcrossFew
  <2>4. Len(a.passes) \in {0, 1, 2}
    BY <1>1
  <2> QED
    BY <2>1, <2>2, <2>3, <2>4
<1> HIDE DEF Full
<1>5. Full(1) \in Seq(KeptItem) /\ Full(2) \in Seq(KeptItem)
  BY <1>2
<1>6. Full(1) \o Full(2) \in Seq(KeptItem)
  BY <1>5, ConcatProperties
<1> QED
  BY <1>3, <1>4, <1>5, <1>6, AcrossParts

\* The items a preservation tries hold every page the artefacts hold.
LEMMA PlanCovers ==
    ASSUME NEW a \in Artefacts, Len(a.passes) <= 2, a.stage # "DELIVERED"
    PROVE  /\ Begin(a).todo = Plan(a) /\ (Begin(a).files <=> Plan(a) = <<>>) /\ ~Begin(a).problem
           /\ a.stage = "ACQUIRING" =>
                 PagesAcross(Plan(a)) = Range(a.document) \cup PagesAcross(a.passes)
           /\ a.stage = "FILTERING" /\ a.document # <<>> => PagesAcross(Plan(a)) = Range(a.document)
           /\ a.stage = "ASSEMBLING" => Plan(a) = <<>>
           /\ a.stage = "DELIVERING" /\ a.pdfs # <<>> => Plan(a) = a.pdfs
<1>1. /\ Begin(a).todo = Plan(a) /\ (Begin(a).files <=> Plan(a) = <<>>) /\ ~Begin(a).problem
  BY DEF Begin, Idle
<1>2. PagesAcross(DocumentItems(a)) = Range(a.document) /\ DocumentItems(a) \in Seq(KeptItem)
  <2>1. CASE a.document = <<>>
    <3>1. DocumentItems(a) = <<>> /\ Range(<<>>) = {}
      BY <2>1 DEF DocumentItems, Range
    <3>2. Range(a.document) = {}
      BY <2>1, <3>1
    <3>3. <<>> \in Seq(KeptItem) /\ PagesAcross(<<>>) = {}
      BY AcrossParts
    <3> QED
      BY <3>1, <3>2, <3>3
  <2>2. CASE a.document # <<>>
    <3>1. PICK item : item = Item("document", "document", a.document)
      OBVIOUS
    <3>2. item \in KeptItem /\ item.pages = a.document
      BY <3>1 DEF Item, KeptItem, Artefacts
    <3>3. DocumentItems(a) = <<item>>
      BY <2>2, <3>1 DEF DocumentItems
    <3>4. <<item>> \in Seq(KeptItem) /\ PagesAcross(<<item>>) = Range(item.pages)
      BY <3>2, AcrossLiterals
    <3>5. Range(item.pages) = Range(a.document)
      BY <3>2
    <3> QED
      BY <3>3, <3>4, <3>5
  <2> QED
    BY <2>1, <2>2
<1>3. PassItems(a) \in Seq(KeptItem) /\ PagesAcross(PassItems(a)) = PagesAcross(a.passes)
  BY PassItemsCover
<1>4. ASSUME a.stage = "ACQUIRING"
      PROVE  PagesAcross(Plan(a)) = Range(a.document) \cup PagesAcross(a.passes)
  <2>1. Plan(a) = DocumentItems(a) \o PassItems(a)
    BY <1>4 DEF Plan
  <2> QED
    BY <1>2, <1>3, <2>1, AcrossParts
<1>5. a.stage = "FILTERING" /\ a.document # <<>> => Plan(a) = DocumentItems(a)
  BY DEF Plan
<1>6. ASSUME a.stage = "ASSEMBLING" PROVE Plan(a) = <<>>
  BY <1>6 DEF Plan
<1>7. ASSUME a.stage = "DELIVERING", a.pdfs # <<>> PROVE Plan(a) = a.pdfs
  BY <1>7 DEF Plan
<1> QED
  BY <1>1, <1>2, <1>4, <1>5, <1>6, <1>7

\* A preservation that has just begun covers what its artefacts do.
LEMMA BeginCovers ==
    ASSUME NEW a \in Artefacts, Len(a.passes) <= 2, a.stage # "DELIVERED", NEW p,
           \/ a.stage = "ACQUIRING" /\ p \in Range(a.document) \cup PagesAcross(a.passes)
           \/ a.stage = "FILTERING" /\ a.document # <<>> /\ p \in Range(a.document)
           \/ a.stage = "ASSEMBLING"
           \/ a.stage = "DELIVERING" /\ p \in PagesAcross(a.pdfs)
    PROVE  Begin(a).files \/ p \in PagesAcross(Begin(a).todo)
<1>1. CASE a.stage = "DELIVERING"
  <2>1. a.pdfs # <<>>
    BY <1>1, AcrossParts
  <2> QED
    BY <1>1, <2>1, PlanCovers
<1>2. CASE a.stage # "DELIVERING"
  BY <1>2, PlanCovers
<1> QED
  BY <1>1, <1>2

\* The handler: what was covered is on the list of what to keep.
LEMMA HandleCovers == TypeOK /\ HandRest /\ PagesRest /\ HandleFailure => PagesRest'
<1> SUFFICES ASSUME TypeOK, HandRest, PagesRest, HandleFailure PROVE PagesRest'
  OBVIOUS
<1>1. /\ pc = "handle" /\ pc' = "preserve" /\ outcome # "cancelled" /\ outcome' = outcome
      /\ UNCHANGED <<owed, spool, failed>> /\ keep' = Begin(art') /\ art' = [art EXCEPT !.passes = Passes]
      /\ SpoolHolds /\ Covered /\ art \in Artefacts
      /\ ledger \in Seq(OpenPass) /\ Len(ledger) <= 2
  BY DEF HandleFailure, PagesRest, ArtefactsCover, TypeOK, ArtTypeOK, AcquisitionTypeOK, PassesInFlight
<1>2. /\ art'.stage = art.stage /\ art'.document = art.document /\ art'.pdfs = art.pdfs /\ art'.passes = Passes
      /\ art.stage \in Stages \ {"DELIVERED"}
  BY <1>1 DEF Artefacts, HandRest, FailureIsKnown
<1>3. /\ DOMAIN ledger = 1..Len(ledger) /\ Len(ledger) \in Nat
  BY <1>1, LenProperties
<1>4. /\ Passes \in Seq(RunPass) /\ Len(Passes) = Len(ledger)
      /\ \A i \in 1..Len(ledger) : Passes[i].pages = ledger[i].pages
  <2>1. \A i \in 1..Len(ledger) : [suffix |-> ledger[i].suffix, pages |-> ledger[i].pages] \in RunPass
    <3>1. \A i \in 1..Len(ledger) : ledger[i] \in OpenPass
      BY <1>1, <1>3
    <3> QED
      BY <3>1 DEF OpenPass, RunPass
  <2>2. PICK n \in Nat : n = Len(ledger)
    BY <1>3
  <2>3. Passes \in [1..n -> RunPass]
    BY <1>3, <2>1, <2>2 DEF Passes
  <2>4. Passes \in Seq(RunPass) /\ Len(Passes) = n
    BY <2>3, LenProperties
  <2> QED
    BY <1>3, <2>2, <2>4 DEF Passes
<1>5. PagesAcross(Passes) = InLedger
  <2>1. DOMAIN Passes = DOMAIN ledger
    BY <1>3, <1>4, LenProperties
  <2> QED
    BY <1>3, <1>4, <2>1 DEF PagesAcross, InLedger
<1>6. art' \in Artefacts
  BY <1>1, <1>4 DEF Artefacts
<1>7. PICK a \in Artefacts : a = art'
  BY <1>6
<1>8. Len(a.passes) <= 2 /\ a.stage # "DELIVERED"
  BY <1>1, <1>2, <1>4, <1>7
<1>9. ASSUME NEW p \in owed
      PROVE  Begin(a).files \/ p \in PagesAcross(Begin(a).todo)
  <2>1. \/ a.stage = "ACQUIRING" /\ p \in Range(a.document) \cup PagesAcross(a.passes)
        \/ a.stage = "FILTERING" /\ a.document # <<>> /\ p \in Range(a.document)
        \/ a.stage = "ASSEMBLING"
        \/ a.stage = "DELIVERING" /\ p \in PagesAcross(a.pdfs)
    BY <1>1, <1>2, <1>5, <1>7, <1>9 DEF Covered, InPdfs, Stages
  <2> QED
    BY <1>8, <2>1, BeginCovers
<1>10. keep'.todo # <<>> => ~keep'.files
  BY <1>1, <1>7, <1>8, PlanCovers
<1>11. KeepCovers'
  BY <1>1, <1>7, <1>9, <1>10 DEF KeepCovers, SpoolHolds
<1>12. SpoolHolds'
  BY <1>1, SpoolKeeps
<1> QED
  BY <1>1, <1>11, <1>12
     DEF PagesRest, ArtefactsCover, StageIsOfPlace, HeldSoFar, DeliveredIsHeld, LegsAreMade, LeaveIsSafe,
         SweepIsOfLeft, NothingLost, Before, Acquiring, Scanning

\* A step of a preservation, once what it says of the pages is known.
LEMMA KeepingRest ==
    ASSUME PagesRest, pc \in {"preserve", "sweep"}, pc' = pc,
           UNCHANGED <<kind, ledger, art, legs, outcome, owed, ws, clientVars>>,
           failed \subseteq failed', \A p \in owed : p \in spool => p \in spool' \/ p \in PagesOf(failed'),
           KeepCovers'
    PROVE  PagesRest'
<1>1. \A p : p \in PagesOf(failed) => p \in PagesOf(failed')
  BY PagesOfItems
<1>2. SpoolHolds'
  BY <1>1 DEF PagesRest, SpoolHolds
<1>3. ArtefactsCover'
  BY DEF ArtefactsCover, StageIsOfPlace, Before, Acquiring, Scanning
<1>4. DeliveredIsHeld'
  <2>1. Reached' = Reached
    BY DEF Reached, Holds, clientVars, server
  <2> QED
    BY <2>1 DEF PagesRest, DeliveredIsHeld
<1>5. SweepIsOfLeft'
  BY DEF PagesRest, SweepIsOfLeft
<1> QED
  BY <1>2, <1>3, <1>4, <1>5 DEF PagesRest, HeldSoFar, LegsAreMade, LeaveIsSafe, NothingLost

\* An item kept is in failed/; one that is not leaves the page files to try.
LEMMA ItemCovers == TypeOK /\ PagesRest /\ KeepItem => PagesRest'
<1> SUFFICES ASSUME TypeOK, PagesRest, KeepItem PROVE PagesRest'
  OBVIOUS
<1>1. /\ pc \in {"preserve", "sweep"} /\ pc' = pc /\ keep.todo # <<>> /\ KeepCovers /\ keep \in KeepRecord
      /\ UNCHANGED <<kind, ledger, art, legs, outcome, owed, ws, spool, clientVars>>
  BY DEF KeepItem, PagesRest, acquisition, ending, workspace, TypeOK, KeepTypeOK, KeepRecord
<1>2. Reached' = Reached
  BY <1>1 DEF Reached, Holds, clientVars, server
<1>3. keep.todo \in Seq(KeptItem)
  BY <1>1 DEF KeepRecord
<1>4. CASE failed' = failed \cup {Head(keep.todo)} /\ keep' = Kept(keep)
  <2>1. /\ keep'.todo = Tail(keep.todo) /\ keep'.problem = keep.problem
        /\ keep'.todo # <<>> => ~keep'.files
    BY <1>1, <1>4 DEF Kept, KeepRecord
  <2>2. \A p : p \in PagesOf(failed') <=> p \in PagesOf(failed) \/ p \in Range(Head(keep.todo).pages)
    BY <1>4, PagesOfItems
  <2>3. PagesAcross(keep.todo) = Range(Head(keep.todo).pages) \cup PagesAcross(keep'.todo)
    BY <1>1, <1>3, <2>1, AcrossParts
  <2>4. KeepCovers'
    BY <1>1, <1>2, <2>1, <2>2, <2>3 DEF KeepCovers
  <2> QED
    BY <1>1, <1>4, <2>4, KeepingRest
<1>5. CASE keep' = NotKept(keep) /\ failed' = failed
  <2>1. keep'.problem /\ (keep'.todo # <<>> => ~keep'.files)
    BY <1>1, <1>5 DEF NotKept, KeepRecord
  <2>2. KeepCovers'
    BY <1>1, <1>2, <1>5, <2>1 DEF KeepCovers
  <2> QED
    BY <1>1, <1>5, <2>2, KeepingRest
<1> QED
  BY <1>4, <1>5 DEF KeepItem

\* A page file is moved to failed/, or it and the rest stay where they are.
LEMMA FileCovers == TypeOK /\ Numbered /\ PagesRest /\ KeepPageFile => PagesRest'
<1> SUFFICES ASSUME TypeOK, Numbered, PagesRest, KeepPageFile PROVE PagesRest'
  OBVIOUS
<1>1. /\ pc \in {"preserve", "sweep"} /\ pc' = pc /\ keep.todo = <<>> /\ KeepCovers /\ keep \in KeepRecord
      /\ UNCHANGED <<kind, ledger, art, legs, outcome, owed, ws, clientVars>>
  BY DEF KeepPageFile, PagesRest, acquisition, ending, workspace, TypeOK, KeepTypeOK, KeepRecord
<1>2. Reached' = Reached
  BY <1>1 DEF Reached, Holds, clientVars, server
<1>3. CASE spool = {} /\ keep' = FilesDone(keep) /\ UNCHANGED <<failed, spool>>
  <2>1. keep'.todo = <<>>
    BY <1>1, <1>3 DEF FilesDone, KeepRecord
  <2>2. KeepCovers'
    BY <1>1, <1>2, <1>3, <2>1 DEF KeepCovers
  <2> QED
    BY <1>1, <1>3, <2>2, KeepingRest
<1>4. CASE /\ spool # {} /\ failed' = failed \cup {PageFile(FirstFile)}
           /\ spool' = spool \ {FirstFile} /\ UNCHANGED <<keep>>
  <2>1. PICK page : page = FirstFile
    OBVIOUS
  <2>2. Range(PageFile(page).pages) = {page}
    BY DEF PageFile, Item, Range
  <2>3. \A p : p \in PagesOf(failed') <=> p \in PagesOf(failed) \/ p = page
    BY <1>4, <2>1, <2>2, PagesOfItems
  <2>4. KeepCovers'
    BY <1>1, <1>2, <1>4, <2>1, <2>3 DEF KeepCovers
  <2>5. \A p \in owed : p \in spool => p \in spool' \/ p \in PagesOf(failed')
    BY <1>4, <2>1, <2>3
  <2> QED
    BY <1>1, <1>4, <2>4, <2>5, KeepingRest
<1>5. CASE spool # {} /\ keep' = FilesStop(keep) /\ UNCHANGED <<failed, spool>>
  <2>1. keep'.problem /\ keep'.todo = <<>>
    BY <1>1, <1>5 DEF FilesStop, KeepRecord
  <2>2. KeepCovers'
    BY <1>1, <1>2, <1>5, <2>1 DEF KeepCovers
  <2> QED
    BY <1>1, <1>5, <2>2, KeepingRest
<1> QED
  BY <1>3, <1>4, <1>5 DEF KeepPageFile

\* The failure is told: what could not be kept keeps its workspace.
LEMMA ReportCovers == TypeOK /\ HandRest /\ PagesRest /\ (ReportFailure \/ HandleCancel) => PagesRest'
<1> SUFFICES ASSUME TypeOK, HandRest, PagesRest, ReportFailure \/ HandleCancel PROVE PagesRest'
  OBVIOUS
<1>1. /\ pc \in {"preserve", "handle"} /\ pc' = "leave" /\ UNCHANGED <<owed, failed, spool, outcome>>
      /\ HandleCancel => outcome = "cancelled"
      /\ ReportFailure => pc = "preserve"
  BY DEF ReportFailure, HandleCancel, Goto, ending, keeping
<1>2. ASSUME outcome # "cancelled"
      PROVE  outcome \in Failing /\ \A p \in owed : p \in PagesOf(failed) \/ (spare' /\ p \in spool)
  <2>1. ReportFailure /\ pc = "preserve"
    BY <1>1, <1>2
  <2>2. keep.todo = <<>> /\ ~keep.files /\ spare' = (keep.problem /\ spool # {})
    BY <2>1 DEF ReportFailure, IsKeeping
  <2>3. PagesAcross(keep.todo) = {}
    BY <2>2, AcrossParts
  <2>4. outcome \in Failing
    BY <1>2, <2>1 DEF HandRest, FailureIsKnown
  <2>5. ASSUME NEW p \in owed, p \notin PagesOf(failed) PROVE spare' /\ p \in spool
    BY <1>2, <2>1, <2>2, <2>3, <2>5 DEF PagesRest, KeepCovers
  <2> QED
    BY <2>4, <2>5
<1>3. LeaveIsSafe'
  BY <1>1, <1>2 DEF LeaveIsSafe, Failing
<1>4. DeliveredIsHeld'
  BY <1>1, <1>2 DEF DeliveredIsHeld, Failing, Delivering
<1> QED
  BY <1>1, <1>3, <1>4
     DEF PagesRest, SpoolHolds, ArtefactsCover, StageIsOfPlace, HeldSoFar, LegsAreMade, KeepCovers,
         SweepIsOfLeft, NothingLost, Before, Acquiring, Scanning

\* The end of the run, or of the sweep: only its promise is left.
LEMMA OnlyOver ==
    ASSUME pc' = "over", NothingLost', DeliveredIsHeld'
    PROVE  PagesRest'
  BY DEF PagesRest, SpoolHolds, ArtefactsCover, StageIsOfPlace, HeldSoFar, LegsAreMade, KeepCovers,
         LeaveIsSafe, SweepIsOfLeft, Before, Acquiring, Scanning

\* The workspace is removed only when every page owed is elsewhere.
LEMMA LeaveCovers == TypeOK /\ PagesRest /\ LeaveWorkspace => PagesRest'
<1> SUFFICES ASSUME TypeOK, PagesRest, LeaveWorkspace PROVE PagesRest'
  OBVIOUS
<1>1. /\ pc = "leave" /\ pc' = "over" /\ UNCHANGED <<owed, failed, outcome, art, tasks, dropped>>
      /\ spare => ws' = "left" /\ spool' = spool
      /\ LeaveIsSafe /\ DeliveredIsHeld
  BY DEF LeaveWorkspace, Goto, server, PagesRest
<1>2. Reached' = Reached
  BY <1>1 DEF Reached, Holds
<1>3. DeliveredIsHeld'
  BY <1>1, <1>2 DEF DeliveredIsHeld
<1>4. NothingLost'
  <2>1. CASE outcome \in Failing
    BY <1>1, <2>1 DEF LeaveIsSafe, NothingLost
  <2>2. CASE outcome \in Delivering
    BY <1>1, <1>2, <2>2 DEF DeliveredIsHeld, NothingLost
  <2>3. CASE outcome = "cancelled"
    BY <1>1, <2>3 DEF NothingLost
  <2> QED
    BY <1>1, <2>1, <2>2, <2>3 DEF LeaveIsSafe
<1> QED
  BY <1>1, <1>3, <1>4, OnlyOver

\* The process is killed: what was not removed yet is left on the disk.
LEMMA KilledCovers == TypeOK /\ PagesRest /\ Killed => PagesRest'
<1> SUFFICES ASSUME TypeOK, PagesRest, Killed PROVE PagesRest'
  OBVIOUS
<1>1. /\ pc' = "over" /\ ws' = "left" /\ UNCHANGED <<owed, failed, tasks, dropped>>
      /\ pc # "leave" \/ spare => spool' = spool
      /\ pc \in Running \cup {"delivered", "handle", "preserve", "leave", "sweep"}
  BY DEF Killed, Forgotten, server
<1>2. ASSUME outcome' = outcome, art' = art PROVE Reached' = Reached
  BY <1>1, <1>2 DEF Reached, Holds
<1>3. CASE pc = "sweep"
  <2>1. outcome' = outcome /\ art' = art /\ spool' = spool
    BY <1>1, <1>3 DEF Killed
  <2>2. NothingLost'
    BY <1>1, <1>2, <1>3, <2>1 DEF PagesRest, KeepCovers, NothingLost
  <2>3. DeliveredIsHeld'
    BY <1>1, <1>2, <1>3, <2>1 DEF PagesRest, DeliveredIsHeld
  <2> QED
    BY <1>1, <2>2, <2>3, OnlyOver
<1>4. CASE pc = "leave" /\ outcome \in Delivering \cup {"cancelled"}
  <2>1. outcome' = outcome /\ art' = art
    BY <1>4 DEF Killed
  <2>2. DeliveredIsHeld'
    BY <1>1, <1>2, <1>4, <2>1 DEF PagesRest, DeliveredIsHeld
  <2>3. NothingLost'
    BY <1>1, <1>2, <1>4, <2>1 DEF PagesRest, DeliveredIsHeld, NothingLost
  <2> QED
    BY <1>1, <2>2, <2>3, OnlyOver
<1>5. CASE pc # "sweep" /\ ~(pc = "leave" /\ outcome \in Delivering \cup {"cancelled"})
  <2>1. outcome' = "killed"
    BY <1>5 DEF Killed
  <2>2. DeliveredIsHeld'
    BY <2>1 DEF DeliveredIsHeld, Delivering
  <2>3. \A p \in owed : p \in PagesOf(failed) \/ p \in spool'
    <3>1. CASE pc = "leave"
      BY <1>1, <1>5, <3>1 DEF PagesRest, LeaveIsSafe
    <3>2. CASE pc # "leave"
      BY <1>1, <1>5, <3>2 DEF PagesRest, SpoolHolds, Running, Before, Acquiring
    <3> QED
      BY <3>1, <3>2
  <2>4. NothingLost'
    BY <1>1, <2>3 DEF NothingLost
  <2> QED
    BY <1>1, <2>2, <2>4, OnlyOver
<1> QED
  BY <1>3, <1>4, <1>5

\* The sweep tries to keep whatever the spool of the workspace holds.
LEMMA SweepCovers == TypeOK /\ Numbered /\ PagesRest /\ SweepFinds => PagesRest'
<1> SUFFICES ASSUME TypeOK, Numbered, PagesRest, SweepFinds PROVE PagesRest'
  OBVIOUS
<1>1. /\ pc = "over" /\ ws = "left" /\ pc' = "sweep" /\ NothingLost /\ DeliveredIsHeld
      /\ UNCHANGED <<owed, failed, spool, outcome, art, tasks, dropped, ws>>
  BY DEF SweepFinds, PagesRest, ending, workspace, clientVars, server
<1>2. Reached' = Reached
  BY <1>1 DEF Reached, Holds
<1>3. PICK passes \in {Rebuilt, <<>>} :
         keep' = IF spool = {} THEN Idle ELSE Begin([NoArtefacts(Names) EXCEPT !.passes = passes])
  BY DEF SweepFinds
<1>4. /\ FilesOf(Fronts) \in Seq(Page) /\ FilesOf(Backs) \in Seq(Page)
      /\ Range(FilesOf(Fronts)) \cup Range(FilesOf(Backs)) = spool
  BY FilesOfIs DEF TypeOK
<1>5. Rebuilt \in Seq(RunPass) /\ Len(Rebuilt) = 2 /\ PagesAcross(Rebuilt) = spool
  <2>1. PICK fronts, backs :
           /\ fronts = [suffix |-> IF FilesOf(Backs) = <<>> THEN "(partial)" ELSE Fronts,
                        pages |-> FilesOf(Fronts)]
           /\ backs = [suffix |-> Backs, pages |-> FilesOf(Backs)]
    OBVIOUS
  <2>2. fronts \in RunPass /\ backs \in RunPass
    BY <1>4, <2>1 DEF RunPass, PassNames
  <2>3. fronts.pages = FilesOf(Fronts) /\ backs.pages = FilesOf(Backs)
    BY <2>1
  <2>4. Rebuilt = <<fronts, backs>>
    BY <2>1 DEF Rebuilt
  <2>5. PagesAcross(<<fronts, backs>>) = Range(fronts.pages) \cup Range(backs.pages)
    BY AcrossLiterals
  <2>6. <<fronts, backs>> \in Seq(RunPass) /\ Len(<<fronts, backs>>) = 2
    BY <2>2
  <2> QED
    BY <1>4, <2>3, <2>4, <2>5, <2>6
<1>6. PICK a : a = [NoArtefacts(Names) EXCEPT !.passes = passes]
  OBVIOUS
<1>7. /\ a \in Artefacts /\ a.stage = "ACQUIRING" /\ a.passes = passes /\ Len(passes) <= 2
  <2>1. passes \in Seq(RunPass) /\ Len(passes) <= 2
    <3>1. CASE passes = Rebuilt
      <4>1. passes \in Seq(RunPass) /\ Len(passes) = 2
        BY <1>5, <3>1
      <4> QED
        BY <4>1
    <3>2. CASE passes = <<>>
      BY <3>2, EmptySeq
    <3> QED
      BY <3>1, <3>2
  <2>2. NoArtefacts(Names) \in Artefacts /\ NoArtefacts(Names).stage = "ACQUIRING"
    BY DEF NoArtefacts, Artefacts, Stages, Takings
  <2> QED
    BY <1>6, <2>1, <2>2 DEF Artefacts
<1>8. KeepCovers'
  <2>1. CASE spool = {}
    <3>1. keep'.todo = <<>>
      BY <1>3, <2>1 DEF Idle
    <3> QED
      BY <1>1, <1>2, <2>1, <3>1 DEF KeepCovers, NothingLost
  <2>2. CASE spool # {}
    <3>1. keep' = Begin(a)
      BY <1>3, <1>6, <2>2
    <3>2. keep'.todo # <<>> => ~keep'.files
      BY <1>7, <3>1, PlanCovers
    <3>3. ASSUME NEW p \in spool PROVE keep'.files \/ p \in PagesAcross(keep'.todo)
      <4>1. CASE passes = Rebuilt
        <5>1. p \in PagesAcross(a.passes)
          BY <1>5, <1>7, <3>3, <4>1
        <5> QED
          BY <1>7, <3>1, <5>1, BeginCovers
      <4>2. CASE passes = <<>>
        <5>1. Plan(a) = <<>>
          <6>1. DOMAIN a.passes = {}
            BY <1>7, <4>2
          <6>2. PassItems(a) = <<>>
            BY <6>1 DEF PassItems
          <6>3. DocumentItems(a) = <<>>
            BY <1>6 DEF NoArtefacts, DocumentItems
          <6> QED
            BY <1>7, <6>2, <6>3 DEF Plan
        <5> QED
          BY <1>7, <3>1, <5>1, PlanCovers
      <4> QED
        BY <4>1, <4>2
    <3> QED
      BY <1>1, <1>2, <3>2, <3>3 DEF KeepCovers, NothingLost
  <2> QED
    BY <2>1, <2>2
<1>9. DeliveredIsHeld' /\ SweepIsOfLeft'
  BY <1>1, <1>2 DEF DeliveredIsHeld, SweepIsOfLeft
<1> QED
  BY <1>1, <1>8, <1>9
     DEF PagesRest, SpoolHolds, ArtefactsCover, StageIsOfPlace, HeldSoFar, LegsAreMade, LeaveIsSafe,
         NothingLost, Before, Acquiring, Scanning

\* It removes a workspace only once nothing is left in it that could be kept.
LEMMA SweepLeavesCovers == TypeOK /\ PagesRest /\ SweepLeaves => PagesRest'
<1> SUFFICES ASSUME TypeOK, PagesRest, SweepLeaves PROVE PagesRest'
  OBVIOUS
<1>1. /\ pc = "sweep" /\ pc' = "over" /\ UNCHANGED <<owed, failed, outcome, art, tasks, dropped>>
      /\ keep.todo = <<>> /\ ~keep.files
      /\ keep.problem /\ spool # {} => ws' = ws /\ spool' = spool
      /\ KeepCovers /\ DeliveredIsHeld /\ ws = "left"
  BY DEF SweepLeaves, Goto, IsKeeping, PagesRest, SweepIsOfLeft, ending, clientVars, server
<1>2. Reached' = Reached
  BY <1>1 DEF Reached, Holds
<1>3. PagesAcross(keep.todo) = {}
  BY <1>1, AcrossParts
<1>4. NothingLost'
  BY <1>1, <1>2, <1>3 DEF KeepCovers, NothingLost
<1>5. DeliveredIsHeld'
  BY <1>1, <1>2 DEF DeliveredIsHeld
<1> QED
  BY <1>1, <1>4, <1>5, OnlyOver

\* Every step keeps every page kept, covered or delivered.
LEMMA StepPages == HandInv /\ PagesRest /\ [Next]_vars => PagesRest'
<1> SUFFICES ASSUME HandInv, PagesRest, [Next]_vars PROVE PagesRest'
  OBVIOUS
<1>0. TypeOK /\ Numbered /\ HandRest
  BY DEF HandInv, HandRest
<1>1. CASE UNCHANGED vars
  <2>1. /\ UNCHANGED <<kind, pc, ledger, art, legs, outcome, keep, spool, failed, spare, ws, owed>>
        /\ UNCHANGED <<call, tasks, taken, dropped>>
    BY <1>1 DEF vars, acquisition, ending, keeping, workspace, clientVars, server
  <2>2. Covered' <=> Covered
    BY <2>1 DEF Covered, InLedger, InPdfs
  <2>3. ArtefactsCover' /\ SpoolHolds' /\ LegsAreMade' /\ LeaveIsSafe' /\ SweepIsOfLeft'
    BY <2>1, <2>2
       DEF PagesRest, ArtefactsCover, StageIsOfPlace, SpoolHolds, LegsAreMade, LeaveIsSafe, SweepIsOfLeft,
           InLedger
  <2>4. HeldSoFar'
    BY <2>1 DEF PagesRest, HeldSoFar, Handed, Holds
  <2>5. Reached' = Reached
    BY <2>1 DEF Reached, Holds
  <2>6. DeliveredIsHeld' /\ KeepCovers' /\ NothingLost'
    BY <2>1, <2>5 DEF PagesRest, DeliveredIsHeld, KeepCovers, NothingLost
  <2> QED
    BY <2>3, <2>4, <2>6 DEF PagesRest
<1>2. CASE OpenWorkspace \/ SpoolPage \/ SheetMissed \/ SheetUnreadable
  BY <1>0, <1>2, OpenCovers, SheetCovers
<1>3. CASE FirstPassEnds \/ FlipAnswered \/ BacksPassEnds
  BY <1>0, <1>3, FirstPassCovers, FlipCovers, BacksPassCovers
<1>4. CASE MultiPassEnds \/ AcceptPass \/ DiscardPass \/ NextPass \/ FinishPasses
  BY <1>0, <1>4, PassCovers, AcceptCovers, DiscardCovers
<1>5. CASE FinishDocument \/ FinishMismatch
  BY <1>0, <1>5, DocumentCovers, HalvesCover
<1>6. CASE StartLeg \/ InCall \/ LegReturns \/ LegRaises
  BY <1>0, <1>6, LegsCover, LegRaisesCovers
<1>7. CASE SettleDelivered \/ StageDelivered
  BY <1>0, <1>7, LegsCover, DeliveredCovers
<1>8. CASE StepFails \/ Interrupt \/ CtrlC \/ Killed
  BY <1>0, <1>8, BreakCovers, KilledCovers
<1>9. CASE HandleCancel \/ HandleFailure \/ KeepItem \/ KeepPageFile \/ ReportFailure \/ LeaveWorkspace
  BY <1>0, <1>9, HandleCovers, ItemCovers, FileCovers, ReportCovers, LeaveCovers
<1>10. CASE SweepFinds \/ SweepLeaves
  BY <1>0, <1>10, SweepCovers, SweepLeavesCovers
<1> QED
  BY <1>1, <1>2, <1>3, <1>4, <1>5, <1>6, <1>7, <1>8, <1>9, <1>10 DEF Next, RunStep

\* PagesInv holds throughout a run, its end and the sweeps after it.
THEOREM PagesInvariant == Spec => []PagesInv
<1>1. Init => PagesRest
  BY DEF Init, ClientInit, PagesRest, SpoolHolds, ArtefactsCover, Covered, StageIsOfPlace, HeldSoFar,
         LegsAreMade, DeliveredIsHeld, KeepCovers, LeaveIsSafe, SweepIsOfLeft, NothingLost, NoArtefacts,
         Before, Acquiring, Scanning
<1>2. HandInv /\ PagesRest /\ [Next]_vars => PagesRest'
  BY StepPages
<1>3. Spec => []HandInv
  BY HandInvariant
<1> QED
  BY <1>1, <1>2, <1>3, PTL DEF Spec, PagesInv

\* A scanned page is kept, delivered or still in a workspace left on the disk,
\* whatever fails, whatever cannot be kept, and whenever the process is killed
\* (NothingLost of the runs).
THEOREM NoPageLost == Spec => []NothingLost
<1>1. PagesInv => NothingLost
  BY DEF PagesInv, PagesRest
<1> QED
  BY <1>1, PagesInvariant, PTL
-----------------------------------------------------------------------------
(* Which back goes with which front. *)

Fed == Sheets[kind]
Gone(pass) == Len(pass.pages) + pass.lost

\* Every sheet is in the feeder, a page of its pass, reported lost, or missed.
FeedCounts ==
    /\ pc = "open" => misfeeds = 0
    /\ pc = "scan" /\ Current = 1 =>
          /\ Len(next) + Gone(ledger[1]) + misfeeds = Fed
          /\ \A i \in 1..Len(next) : next[i] = Fed - Len(next) + i
    /\ pc = "flip" => Gone(ledger[1]) + misfeeds = Fed
    /\ Current = 2 /\ misfeeds = 0 => Gone(ledger[1]) = Fed
    /\ pc = "scan" /\ Current = 2 =>
          /\ Len(next) + Gone(ledger[2]) + Gone(ledger[1]) + misfeeds = Fed + Fed
          /\ \A i \in 1..Len(next) : next[i] = Len(next) + 1 - i
\* Where nothing was missed, a page's place in its pass tells its sheet.
PlacesTellSheets ==
    misfeeds = 0 =>
        /\ ledger # <<>> /\ ledger[1].lost = 0 =>
              \A k \in 1..Len(ledger[1].pages) : ledger[1].pages[k].sheet = k
        /\ Current = 2 /\ ledger[2].lost = 0 =>
              \A k \in 1..Len(ledger[2].pages) : ledger[2].pages[k].sheet = Fed + 1 - k
\* What the count of unreadable sheets says of the fronts.
LostAreCounted == (pc = "flip" \/ Current = 2) /\ art.unreadable = 0 => ledger[1].lost = 0
FeedIsKnown == kind = "duplex" => FeedCounts /\ PlacesTellSheets /\ LostAreCounted

PassesAreNamed ==
    \A i \in DOMAIN ledger :
        ledger[i].suffix = IF kind # "duplex" THEN "(partial)" ELSE IF i = 1 THEN Fronts ELSE Backs

\* What a preservation kept of the passes, and has still to keep.
PassesAreKept ==
    /\ advice # "none" => pc = "leave"
    /\ pc \in Before \cup {"deliver", "delivered"} \/ (pc = "handle" /\ outcome # "cancelled") => failed = {}
    /\ pc = "preserve" =>
          /\ outcome # "cancelled" /\ art.passes = Passes
          /\ \A item \in failed \cup Range(keep.todo) :
                item.kind = "pass" => \E i \in DOMAIN Passes : item = PassItem(Passes[i])
          /\ keep.whole /\ art.document = <<>> /\ art.stage = "ACQUIRING" =>
                \A i \in DOMAIN Passes :
                    Passes[i].pages # <<>> => PassItem(Passes[i]) \in failed \cup Range(keep.todo)
PairsRest == FeedIsKnown /\ PassesAreNamed /\ PassesAreKept /\ BacksMatchFronts
PairsInv == PagesInv /\ PairsRest

\* The ends that leave the feed and its passes alone.
LEMMA FeedStays ==
    ASSUME PairsRest, UNCHANGED <<kind, ledger, misfeeds>>, pc' \notin {"open", "scan", "flip"},
           art'.unreadable = 0 => art.unreadable = 0
    PROVE  FeedIsKnown' /\ PassesAreNamed'
<1>1. PassesAreNamed'
  BY DEF PairsRest, PassesAreNamed
<1>2. FeedIsKnown'
  BY DEF PairsRest, FeedIsKnown, FeedCounts, PlacesTellSheets, LostAreCounted, Current, Gone, Fed
<1> QED
  BY <1>1, <1>2

\* Without a pass there is nothing to say of a feed.
LEMMA FeedForgotten ==
    ASSUME ledger' = <<>>, pc' \notin {"open", "scan", "flip"}
    PROVE  FeedIsKnown' /\ PassesAreNamed'
<1>1. Len(ledger') = 0 /\ DOMAIN ledger' = {}
  OBVIOUS
<1> QED
  BY <1>1 DEF FeedIsKnown, FeedCounts, PlacesTellSheets, LostAreCounted, PassesAreNamed, Current

\* Nothing was kept of a run before it failed.
LEMMA NothingKeptYet ==
    ASSUME PairsRest, pc \in Before \cup {"deliver", "delivered"},
           pc' \notin {"preserve"}, UNCHANGED <<failed, advice>>
    PROVE  PassesAreKept' /\ advice' = "none"
<1>1. failed = {} /\ advice = "none"
  BY DEF PairsRest, PassesAreKept, Before, Acquiring, Scanning
<1> QED
  BY <1>1 DEF PassesAreKept

\* A document that stays, or is not there, pairs as it did.
LEMMA PairsStay ==
    ASSUME PairsRest,
           \/ UNCHANGED <<kind, ledger, misfeeds>> /\ art'.document = art.document
           \/ art'.document = <<>>
           \/ Len(ledger') # 2
           \/ kind' # "duplex",
           advice' # "last" \/ pc' # "leave"
    PROVE  BacksMatchFronts'
<1>1. InterleavedPairs'
  <2>1. CASE UNCHANGED <<kind, ledger, misfeeds>> /\ art'.document = art.document
    BY <2>1 DEF PairsRest, BacksMatchFronts, InterleavedPairs, SameSheet, Current
  <2>2. CASE art'.document = <<>> \/ kind' # "duplex"
    BY <2>2 DEF InterleavedPairs
  <2>3. CASE Len(ledger') # 2
    BY <2>3 DEF InterleavedPairs, Current
  <2> QED
    BY <2>1, <2>2, <2>3
<1>2. AdvisedPairs'
  BY DEF AdvisedPairs
<1> QED
  BY <1>1, <1>2 DEF BacksMatchFronts

\* A step of a run under way that leaves its passes and its document alone.
LEMMA PairsKeep ==
    ASSUME PairsRest, pc \in Before \cup {"deliver", "delivered"},
           pc' \notin {"open", "scan", "flip", "preserve"},
           UNCHANGED <<kind, ledger, misfeeds, failed, advice>>,
           art'.unreadable = art.unreadable, art'.document = art.document
    PROVE  PairsRest'
<1>1. PassesAreKept' /\ advice' = "none"
  BY NothingKeptYet
<1>2. BacksMatchFronts'
  BY <1>1, PairsStay
<1> QED
  BY <1>1, <1>2, FeedStays DEF PairsRest

\* A step of the acquisition of another kind of request, or on no pass yet.
LEMMA OtherKinds ==
    ASSUME PairsRest, pc \in Before, pc' # "preserve", UNCHANGED <<kind, failed, advice>>, kind # "duplex",
           PassesAreNamed'
    PROVE  PairsRest'
<1>1. PassesAreKept' /\ advice' = "none"
  BY NothingKeptYet
<1>2. BacksMatchFronts'
  BY <1>1, PairsStay
<1> QED
  BY <1>1, <1>2 DEF PairsRest, FeedIsKnown

\* The feeder takes a sheet in: what stays of the stack, first of all.
LEMMA SheetTaken ==
    ASSUME TypeOK, next # <<>>, next' = Tail(next)
    PROVE  /\ Len(next) \in Nat \ {0} /\ Len(next') = Len(next) - 1 /\ Head(next) = next[1]
           /\ \A i \in 1..Len(next') : next'[i] = next[i + 1]
  BY HeadTailProperties, EmptySeq, LenProperties DEF TypeOK, AcquisitionTypeOK

\* What a sheet does to its pass: another page, or another sheet lost.
LEMMA PassTakes ==
    ASSUME TypeOK, pc = "scan", next # <<>>, SpoolPage \/ SheetUnreadable
    PROVE  /\ Len(ledger') = Len(ledger) /\ DOMAIN ledger' = DOMAIN ledger
           /\ Current \in 1..Len(ledger) /\ ledger[Current] \in OpenPass
           /\ \A i \in DOMAIN ledger : ledger'[i].suffix = ledger[i].suffix
           /\ \A i \in DOMAIN ledger : i # Current => ledger'[i] = ledger[i]
           /\ SpoolPage =>
                 /\ ledger'[Current].lost = ledger[Current].lost
                 /\ Len(ledger'[Current].pages) = Len(ledger[Current].pages) + 1
                 /\ \A k \in 1..Len(ledger[Current].pages) :
                       ledger'[Current].pages[k] = ledger[Current].pages[k]
                 /\ ledger'[Current].pages[Len(ledger[Current].pages) + 1] = NewPage
           /\ SheetUnreadable =>
                 /\ ledger'[Current].lost = ledger[Current].lost + 1
                 /\ ledger'[Current].pages = ledger[Current].pages
<1>1. /\ Current \in 1..Len(ledger) /\ ledger[Current] \in OpenPass /\ ledger \in Seq(OpenPass)
      /\ DOMAIN ledger = 1..Len(ledger)
  BY CurrentPass, LenProperties DEF TypeOK, AcquisitionTypeOK
<1>2. PICK c \in 1..Len(ledger) : c = Current
  BY <1>1
<1>3. PICK pass \in OpenPass : pass = ledger[c]
  BY <1>1, <1>2
<1>4. CASE SpoolPage
  <2>1. PICK page : page = NewPage
    OBVIOUS
  <2>2. ledger' = [ledger EXCEPT ![c] = [pass EXCEPT !.pages = Append(pass.pages, page)]]
    BY <1>2, <1>3, <1>4, <2>1 DEF SpoolPage, Feed
  <2>3. /\ ledger'[c] = [pass EXCEPT !.pages = Append(pass.pages, page)]
        /\ \A i \in DOMAIN ledger : i # c => ledger'[i] = ledger[i]
        /\ DOMAIN ledger' = DOMAIN ledger
    BY <1>1, <2>2
  <2>4. /\ ledger'[c].lost = pass.lost /\ ledger'[c].suffix = pass.suffix
        /\ ledger'[c].pages = Append(pass.pages, page)
    BY <2>3 DEF OpenPass
  <2>5. pass.pages \in Seq(Page \cup {page})
    BY DEF OpenPass
  <2>6. /\ Len(Append(pass.pages, page)) = Len(pass.pages) + 1
        /\ \A k \in 1..Len(pass.pages) : Append(pass.pages, page)[k] = pass.pages[k]
        /\ Append(pass.pages, page)[Len(pass.pages) + 1] = page
    BY <2>5, AppendProperties
  <2>7. Len(ledger') = Len(ledger)
    <3>1. [ledger EXCEPT ![c] = [pass EXCEPT !.pages = Append(pass.pages, page)]] \in Seq(OpenPass \cup {ledger'[c]})
      BY <1>1, <2>2
    <3> QED
      BY <1>1, <2>2, <2>3, <3>1, LenProperties
  <2>8. ~SheetUnreadable
    <3>1. ledger'[c].lost # pass.lost + 1
      BY <2>4 DEF OpenPass
    <3> QED
      BY <1>1, <1>2, <1>3, <3>1 DEF SheetUnreadable, OpenPass
  <2> QED
    BY ZenonT(40), <1>1, <1>2, <1>3, <2>1, <2>3, <2>4, <2>6, <2>7, <2>8
<1>5. CASE SheetUnreadable
  <2>1. ledger' = [ledger EXCEPT ![c] = [pass EXCEPT !.lost = pass.lost + 1]]
    BY <1>2, <1>3, <1>5 DEF SheetUnreadable
  <2>2. /\ ledger'[c] = [pass EXCEPT !.lost = pass.lost + 1]
        /\ \A i \in DOMAIN ledger : i # c => ledger'[i] = ledger[i]
        /\ DOMAIN ledger' = DOMAIN ledger
    BY <1>1, <2>1
  <2>3. /\ ledger'[c].lost = pass.lost + 1 /\ ledger'[c].suffix = pass.suffix
        /\ ledger'[c].pages = pass.pages /\ ledger'[c] \in OpenPass
    BY <2>2 DEF OpenPass
  <2>4. Len(ledger') = Len(ledger)
    BY <1>1, <2>1, <2>2, <2>3, CurrentPass
  <2>5. ~SpoolPage
    <3>1. ledger'[c].lost # pass.lost
      BY <2>3 DEF OpenPass
    <3> QED
      BY <1>1, <1>2, <1>3, <3>1 DEF SpoolPage, Feed, OpenPass
  <2> QED
    BY <1>1, <1>2, <1>3, <2>2, <2>3, <2>4, <2>5
<1> QED
  BY <1>4, <1>5

\* Up to the end of its passes a simplex or duplex run has no document.
LEMMA NoDocumentYet ==
    ASSUME PagesRest, pc \in Acquiring \cup {"open"}, kind # "multi"
    PROVE  art.document = <<>> /\ art.stage = "ACQUIRING"
  BY DEF PagesRest, ArtefactsCover, StageIsOfPlace, Covered, Before

\* One more page, or one more sheet lost, is one more sheet gone.
LEMMA GoneSteps ==
    ASSUME NEW p, NEW q, p.lost \in Nat, Len(p.pages) \in Nat
    PROVE  /\ Gone(p) \in Nat /\ (p.lost = 0 => Gone(p) = Len(p.pages))
           /\ q.lost = p.lost + 1 /\ q.pages = p.pages => Gone(q) = Gone(p) + 1 /\ q.lost # 0
           /\ q.lost = p.lost /\ Len(q.pages) = Len(p.pages) + 1 => Gone(q) = Gone(p) + 1
  BY DEF Gone

\* A pass of the ledger, and its counts.
LEMMA PassOf ==
    ASSUME TypeOK, NEW i \in Nat, 1 <= i, i <= Len(ledger)
    PROVE  /\ i \in DOMAIN ledger /\ ledger # <<>> /\ ledger[i] \in OpenPass /\ ledger[i].pages \in Seq(Page)
           /\ ledger[i].lost \in Nat /\ Len(ledger[i].pages) \in Nat /\ Gone(ledger[i]) \in Nat
<1>1. ledger \in Seq(OpenPass)
  BY DEF TypeOK, AcquisitionTypeOK
<1>2. Len(ledger) \in Nat /\ DOMAIN ledger = 1..Len(ledger)
  BY <1>1, LenProperties
<1>3. i \in DOMAIN ledger
  BY <1>2
<1>4. ledger[i] \in OpenPass /\ ledger # <<>>
  BY <1>1, <1>2, <1>3
<1>5. ledger[i].lost \in Nat /\ ledger[i].pages \in Seq(Page)
  BY <1>4 DEF OpenPass
<1>6. Len(ledger[i].pages) \in Nat
  BY <1>5, LenProperties
<1> QED
  BY <1>3, <1>4, <1>5, <1>6, GoneSteps

\* A sheet taken in on the fronts, whatever becomes of it.
LEMMA FrontTaken ==
    ASSUME TypeOK, FeedIsKnown, kind = "duplex", UNCHANGED <<kind, pc>>, pc = "scan", next # <<>>,
           Current = 1, SpoolPage \/ SheetMissed \/ SheetUnreadable
    PROVE  FeedIsKnown'
<1>1. /\ FeedCounts /\ PlacesTellSheets /\ Fed \in Nat /\ misfeeds \in Nat /\ next' = Tail(next)
      /\ Fed' = Fed /\ ledger # <<>> /\ 1 \in DOMAIN ledger
  <2>1. Fed \in Nat
    BY DeliveryAssumption DEF TypeOK, AcquisitionTypeOK, Fed
  <2>2. ledger # <<>> /\ 1 \in DOMAIN ledger
    BY CurrentPass, LenProperties DEF TypeOK, AcquisitionTypeOK, PassesInFlight
  <2> QED
    BY <2>1, <2>2 DEF FeedIsKnown, TypeOK, AcquisitionTypeOK, SpoolPage, Feed, SheetMissed, SheetUnreadable, Fed
<1>2. /\ Len(next) \in Nat \ {0} /\ Len(next') = Len(next) - 1 /\ Head(next) = next[1]
      /\ \A i \in 1..Len(next') : next'[i] = next[i + 1]
  BY <1>1, SheetTaken
<1>3. /\ Len(next) + Gone(ledger[1]) + misfeeds = Fed
      /\ \A i \in 1..Len(next) : next[i] = Fed - Len(next) + i
  BY <1>1 DEF FeedCounts
<1>4. \A i \in 1..Len(next') : next'[i] = Fed - Len(next') + i
  <2>1. ASSUME NEW i \in 1..Len(next') PROVE next'[i] = Fed - Len(next') + i
    <3>1. i + 1 \in 1..Len(next)
      BY <1>2
    <3>2. next[i + 1] = Fed - Len(next) + (i + 1)
      BY <1>3, <3>1
    <3> QED
      BY <1>1, <1>2, <3>2
  <2> QED
    BY <2>1
<1>5. ledger[1].pages \in Seq(Page) /\ ledger[1].lost \in Nat /\ Len(ledger[1].pages) \in Nat
  BY CurrentPass, LenProperties DEF OpenPass
<1>6. /\ Len(ledger') = 1 /\ Len(next') + Gone(ledger'[1]) + misfeeds' = Fed
      /\ misfeeds' = 0 /\ ledger'[1].lost = 0 =>
            \A k \in 1..Len(ledger'[1].pages) : ledger'[1].pages[k].sheet = k
  <2>1. CASE SheetMissed
    <3>1. ledger' = ledger /\ misfeeds' = misfeeds + 1 /\ Gone(ledger[1]) \in Nat
      BY <1>5, <2>1, GoneSteps DEF SheetMissed
    <3>2. Len(next') + Gone(ledger[1]) + misfeeds' = Fed
      BY <1>1, <1>2, <1>3, <3>1
    <3> QED
      BY <1>1, <3>1, <3>2 DEF Current
  <2>2. CASE SheetUnreadable
    <3>1. Len(ledger') = 1 /\ ledger'[1].lost = ledger[1].lost + 1 /\ ledger'[1].pages = ledger[1].pages
      BY <2>2, PassTakes DEF Current
    <3>2. misfeeds' = misfeeds
      BY <2>2 DEF SheetUnreadable
    <3>3. Gone(ledger'[1]) = Gone(ledger[1]) + 1 /\ Gone(ledger[1]) \in Nat /\ ledger'[1].lost # 0
      BY <1>5, <3>1, GoneSteps
    <3>4. Len(next') + Gone(ledger'[1]) + misfeeds = Fed
      BY <1>1, <1>2, <1>3, <3>3
    <3> QED
      BY <3>1, <3>2, <3>3, <3>4
  <2>3. CASE SpoolPage
    <3> DEFINE n == Len(ledger[1].pages)
    <3>1. /\ Len(ledger') = 1 /\ ledger'[1].lost = ledger[1].lost /\ Len(ledger'[1].pages) = n + 1
          /\ \A k \in 1..n : ledger'[1].pages[k] = ledger[1].pages[k]
          /\ ledger'[1].pages[n + 1] = NewPage
      BY <2>3, PassTakes DEF Current
    <3>2. misfeeds' = misfeeds
      BY <2>3 DEF SpoolPage
    <3>3. Len(next') + Gone(ledger'[1]) + misfeeds' = Fed
      <4>1. Gone(ledger'[1]) = Gone(ledger[1]) + 1 /\ Gone(ledger[1]) \in Nat
        BY <1>5, <3>1, GoneSteps
      <4> QED
        BY <1>1, <1>2, <1>3, <3>2, <4>1
    <3>4. ASSUME misfeeds' = 0, ledger'[1].lost = 0, NEW k \in 1..(n + 1)
          PROVE  ledger'[1].pages[k].sheet = k
      <4>1. \A j \in 1..n : ledger[1].pages[j].sheet = j
        BY <1>1, <3>1, <3>2, <3>4 DEF PlacesTellSheets
      <4>2. CASE k \in 1..n
        BY <3>1, <4>1, <4>2
      <4>3. CASE k = n + 1
        <5>1. NewPage.sheet = next[1] /\ 1 \in 1..Len(next)
          BY <1>2 DEF NewPage
        <5>2. next[1] = Fed - Len(next) + 1
          BY <1>3, <5>1
        <5>3. Len(next) + n = Fed
          <6>1. Gone(ledger[1]) = n
            BY <1>5, <3>1, <3>4, GoneSteps
          <6> QED
            BY <1>1, <1>2, <1>3, <1>5, <3>2, <3>4, <6>1
        <5>4. NewPage.sheet = n + 1
          BY SMTT(30), <1>1, <1>2, <1>5, <5>1, <5>2, <5>3
        <5> QED
          BY <3>1, <4>3, <5>4
      <4> QED
        BY <1>5, <4>2, <4>3
    <3> QED
      BY <3>1, <3>3, <3>4
  <2> QED
    BY <2>1, <2>2, <2>3
<1> QED
  BY <1>1, <1>4, <1>6 DEF FeedIsKnown, FeedCounts, PlacesTellSheets, LostAreCounted, Current, Fed

\* A sheet taken in on the backs.
LEMMA BackTaken ==
    ASSUME TypeOK, FeedIsKnown, kind = "duplex", UNCHANGED <<kind, pc>>, pc = "scan", next # <<>>,
           Current = 2, SpoolPage \/ SheetMissed \/ SheetUnreadable
    PROVE  FeedIsKnown'
<1>1. /\ FeedCounts /\ PlacesTellSheets /\ LostAreCounted /\ Fed \in Nat /\ misfeeds \in Nat
      /\ next' = Tail(next) /\ Fed' = Fed /\ art' = art /\ ledger # <<>>
      /\ 1 \in DOMAIN ledger /\ 2 \in DOMAIN ledger
  <2>1. Fed \in Nat
    BY DeliveryAssumption DEF TypeOK, AcquisitionTypeOK, Fed
  <2>2. ledger # <<>> /\ 1 \in DOMAIN ledger /\ 2 \in DOMAIN ledger
    BY CurrentPass, LenProperties DEF TypeOK, AcquisitionTypeOK, PassesInFlight
  <2> QED
    BY <2>1, <2>2 DEF FeedIsKnown, TypeOK, AcquisitionTypeOK, SpoolPage, Feed, SheetMissed, SheetUnreadable, Fed
<1>2. /\ Len(next) \in Nat \ {0} /\ Len(next') = Len(next) - 1 /\ Head(next) = next[1]
      /\ \A i \in 1..Len(next') : next'[i] = next[i + 1]
  BY <1>1, SheetTaken
<1>3. /\ Len(next) + Gone(ledger[2]) + Gone(ledger[1]) + misfeeds = Fed + Fed
      /\ \A i \in 1..Len(next) : next[i] = Len(next) + 1 - i
      /\ misfeeds = 0 => Gone(ledger[1]) = Fed
  BY <1>1 DEF FeedCounts
<1>4. \A i \in 1..Len(next') : next'[i] = Len(next') + 1 - i
  <2>1. ASSUME NEW i \in 1..Len(next') PROVE next'[i] = Len(next') + 1 - i
    <3>1. i + 1 \in 1..Len(next)
      BY <1>2
    <3>2. next[i + 1] = Len(next) + 1 - (i + 1)
      BY <1>3, <3>1
    <3> QED
      BY <1>2, <3>2
  <2> QED
    BY <2>1
<1>5. /\ ledger[1].lost \in Nat /\ Len(ledger[1].pages) \in Nat
      /\ ledger[2].lost \in Nat /\ Len(ledger[2].pages) \in Nat
  <2>1. ledger[1] \in OpenPass /\ ledger[2] \in OpenPass
    BY <1>1, LenProperties DEF TypeOK, AcquisitionTypeOK
  <2> QED
    BY <2>1, LenProperties DEF OpenPass
<1>6. Gone(ledger[1]) \in Nat /\ Gone(ledger[2]) \in Nat
  BY <1>5, GoneSteps
<1>7. /\ Len(ledger') = 2 /\ ledger'[1] = ledger[1] /\ (misfeeds' = 0 => misfeeds = 0)
      /\ Len(next') + Gone(ledger'[2]) + Gone(ledger'[1]) + misfeeds' = Fed + Fed
      /\ misfeeds' = 0 /\ ledger'[2].lost = 0 =>
            \A k \in 1..Len(ledger'[2].pages) : ledger'[2].pages[k].sheet = Fed + 1 - k
  <2>1. CASE SheetMissed
    <3>1. ledger' = ledger /\ misfeeds' = misfeeds + 1
      BY <2>1 DEF SheetMissed
    <3>2. Len(next') + Gone(ledger[2]) + Gone(ledger[1]) + misfeeds' = Fed + Fed
      BY <1>1, <1>2, <1>3, <1>6, <3>1
    <3> QED
      BY <1>1, <3>1, <3>2 DEF Current
  <2>2. CASE SheetUnreadable
    <3>1. /\ Len(ledger') = 2 /\ ledger'[2].lost = ledger[2].lost + 1 /\ ledger'[2].pages = ledger[2].pages
          /\ ledger'[1] = ledger[1]
      BY <1>1, <2>2, PassTakes DEF Current
    <3>2. misfeeds' = misfeeds
      BY <2>2 DEF SheetUnreadable
    <3>3. Gone(ledger'[2]) = Gone(ledger[2]) + 1 /\ Gone(ledger[2]) \in Nat /\ ledger'[2].lost # 0
      BY <1>5, <3>1, GoneSteps
    <3>4. Len(next') + Gone(ledger'[2]) + Gone(ledger[1]) + misfeeds = Fed + Fed
      BY <1>1, <1>2, <1>3, <1>6, <3>3
    <3> QED
      BY <3>1, <3>2, <3>3, <3>4
  <2>3. CASE SpoolPage
    <3> DEFINE n == Len(ledger[2].pages)
    <3>1. /\ Len(ledger') = 2 /\ ledger'[2].lost = ledger[2].lost /\ Len(ledger'[2].pages) = n + 1
          /\ \A k \in 1..n : ledger'[2].pages[k] = ledger[2].pages[k]
          /\ ledger'[2].pages[n + 1] = NewPage /\ ledger'[1] = ledger[1]
      BY <1>1, <2>3, PassTakes DEF Current
    <3>2. misfeeds' = misfeeds
      BY <2>3 DEF SpoolPage
    <3>3. Len(next') + Gone(ledger'[2]) + Gone(ledger'[1]) + misfeeds' = Fed + Fed
      <4>1. Gone(ledger'[2]) = Gone(ledger[2]) + 1 /\ Gone(ledger[2]) \in Nat
        BY <1>5, <3>1, GoneSteps
      <4>2. Len(next') + Gone(ledger'[2]) + Gone(ledger[1]) + misfeeds = Fed + Fed
        BY <1>1, <1>2, <1>3, <1>6, <4>1
      <4> QED
        BY <3>1, <3>2, <4>2
    <3>4. ASSUME misfeeds' = 0, ledger'[2].lost = 0, NEW k \in 1..(n + 1)
          PROVE  ledger'[2].pages[k].sheet = Fed + 1 - k
      <4>1. \A j \in 1..n : ledger[2].pages[j].sheet = Fed + 1 - j
        BY <1>1, <3>1, <3>2, <3>4 DEF PlacesTellSheets
      <4>2. CASE k \in 1..n
        BY <3>1, <4>1, <4>2
      <4>3. CASE k = n + 1
        <5>1. NewPage.sheet = next[1] /\ 1 \in 1..Len(next)
          BY <1>2 DEF NewPage
        <5>2. next[1] = Len(next) + 1 - 1
          BY <1>3, <5>1
        <5>3. Len(next) + n = Fed
          <6>1. Gone(ledger[2]) = n
            BY <1>5, <3>1, <3>4, GoneSteps
          <6> QED
            BY SMTT(30), <1>1, <1>2, <1>3, <1>5, <1>6, <3>2, <3>4, <6>1
        <5>4. Len(next) \in Nat /\ n \in Nat
          BY <1>2, <1>5
        <5>5. ASSUME NEW l \in Nat, NEW m \in Nat, l + m = Fed
              PROVE  l + 1 - 1 = Fed + 1 - (m + 1)
          BY <5>5
        <5>6. NewPage.sheet = Fed + 1 - (n + 1)
          BY <5>1, <5>2, <5>3, <5>4, <5>5
        <5> QED
          BY <3>1, <4>3, <5>6
      <4> QED
        BY <1>5, <4>2, <4>3
    <3> QED
      BY <3>1, <3>2, <3>3, <3>4
  <2> QED
    BY <2>1, <2>2, <2>3
<1> QED
  BY <1>1, <1>3, <1>4, <1>7 DEF FeedIsKnown, FeedCounts, PlacesTellSheets, LostAreCounted, Current, Fed

\* A sheet goes through the feeder.
LEMMA SheetPairs ==
    TypeOK /\ PagesRest /\ PairsRest /\ (SpoolPage \/ SheetMissed \/ SheetUnreadable) => PairsRest'
<1> SUFFICES ASSUME TypeOK, PagesRest, PairsRest, SpoolPage \/ SheetMissed \/ SheetUnreadable
             PROVE  PairsRest'
  OBVIOUS
<1>1. pc = "scan" /\ next # <<>> /\ UNCHANGED <<kind, pc, art, failed, advice>> /\ pc \in Before
  BY DEF SpoolPage, Feed, SheetMissed, SheetUnreadable, keeping, Before, Acquiring, Scanning
<1>2. PassesAreNamed'
  <2>1. CASE SheetMissed
    BY <1>1, <2>1 DEF SheetMissed, PairsRest, PassesAreNamed
  <2>2. CASE SpoolPage \/ SheetUnreadable
    <3>1. DOMAIN ledger' = DOMAIN ledger /\ \A i \in DOMAIN ledger : ledger'[i].suffix = ledger[i].suffix
      BY <1>1, <2>2, PassTakes
    <3> QED
      BY <1>1, <3>1 DEF PairsRest, PassesAreNamed
  <2> QED
    BY <2>1, <2>2
<1>3. CASE kind # "duplex"
  BY <1>1, <1>2, <1>3, OtherKinds
<1>4. CASE kind = "duplex"
  <2>1. FeedIsKnown'
    <3>1. Current = 1 \/ Current = 2
      <4>1. Current \in 1..Len(ledger) /\ Len(ledger) <= 2 /\ Len(ledger) \in Nat
        BY <1>1, CurrentPass, LenProperties DEF TypeOK, PassesInFlight, AcquisitionTypeOK
      <4> QED
        BY <4>1
    <3> QED
      BY <1>1, <1>4, <3>1, FrontTaken, BackTaken DEF PairsRest
  <2>2. art'.document = <<>>
    BY <1>1, <1>4, NoDocumentYet DEF Acquiring, Scanning
  <2>3. PassesAreKept' /\ advice' = "none"
    BY <1>1, NothingKeptYet
  <2>4. BacksMatchFronts'
    BY <2>2, <2>3, PairsStay
  <2> QED
    BY <1>2, <2>1, <2>3, <2>4 DEF PairsRest
<1> QED
  BY <1>3, <1>4

\* A pass as it is registered: nothing of its sheets is gone yet.
LEMMA PassIsNew ==
    ASSUME NEW suffix
    PROVE  /\ Pass(suffix).suffix = suffix /\ Pass(suffix).lost = 0 /\ Len(Pass(suffix).pages) = 0
           /\ Gone(Pass(suffix)) = 0
  BY DEF Pass, Gone

\* The sheets lost of a pass are added to the count, whatever else is set.
LEMMA CountsLost ==
    ASSUME art \in Artefacts, NEW i
    PROVE  /\ Counting(art, i).unreadable = art.unreadable + ledger[i].lost
           /\ \A s : [Counting(art, i) EXCEPT !.stage = s].unreadable = art.unreadable + ledger[i].lost
           /\ \A s, d : [Counting(art, i) EXCEPT !.stage = s, !.document = d].unreadable
                            = art.unreadable + ledger[i].lost
           /\ \A s, d : [art EXCEPT !.stage = s, !.document = d].unreadable = art.unreadable
  BY DEF Counting, Artefacts

\* The first pass begins.
LEMMA OpenPairs == TypeOK /\ PagesRest /\ PairsRest /\ OpenWorkspace => PairsRest'
<1> SUFFICES ASSUME TypeOK, PagesRest, PairsRest, OpenWorkspace PROVE PairsRest'
  OBVIOUS
<1>1. PICK suffix : /\ suffix = IF kind = "duplex" THEN Fronts ELSE "(partial)"
                    /\ ledger' = <<Pass(suffix)>>
  BY DEF OpenWorkspace
<1>2. /\ pc = "open" /\ pc' = "scan" /\ UNCHANGED <<kind, art, failed, advice, misfeeds>>
      /\ next' = Stack /\ pc \in Before /\ kind \in Kinds
  BY DEF OpenWorkspace, Goto, keeping, Before, TypeOK, AcquisitionTypeOK
<1>3. /\ Len(ledger') = 1 /\ DOMAIN ledger' = {1} /\ ledger'[1].suffix = suffix
      /\ ledger'[1].lost = 0 /\ Len(ledger'[1].pages) = 0 /\ Gone(ledger'[1]) = 0
  <2>1. PICK pass : pass = Pass(suffix)
    OBVIOUS
  <2>2. Len(ledger') = 1 /\ DOMAIN ledger' = {1} /\ ledger'[1] = pass
    BY <1>1, <2>1
  <2> QED
    BY <2>1, <2>2, PassIsNew
<1>4. PassesAreNamed'
  BY <1>1, <1>2, <1>3 DEF PassesAreNamed
<1>5. CASE kind # "duplex"
  BY <1>2, <1>4, <1>5, OtherKinds
<1>6. CASE kind = "duplex"
  <2>1. misfeeds = 0
    BY <1>2, <1>6 DEF PairsRest, FeedIsKnown, FeedCounts
  <2>2. Fed \in Nat /\ Fed' = Fed /\ Len(next') = Fed /\ \A i \in 1..Fed : next'[i] = i
    BY <1>2, StackIs DEF Fed
  <2>3. FeedIsKnown'
    <3>1. FeedCounts'
      BY <1>2, <1>3, <2>1, <2>2 DEF FeedCounts, Current
    <3> QED
      BY <1>2, <1>3, <3>1 DEF FeedIsKnown, PlacesTellSheets, LostAreCounted, Current
  <2>4. art'.document = <<>>
    BY <1>2, <1>6, NoDocumentYet
  <2>5. PassesAreKept' /\ advice' = "none"
    BY <1>2, NothingKeptYet
  <2> QED
    BY <1>4, <2>3, <2>4, <2>5, PairsStay DEF PairsRest
<1> QED
  BY <1>5, <1>6

\* The end of the only pass, or of the fronts.
LEMMA FirstPassPairs == TypeOK /\ PagesRest /\ PairsRest /\ FirstPassEnds => PairsRest'
<1> SUFFICES ASSUME TypeOK, PagesRest, PairsRest, FirstPassEnds PROVE PairsRest'
  OBVIOUS
<1>1. /\ pc = "scan" /\ kind # "multi" /\ Len(ledger) = 1 /\ art \in Artefacts
      /\ UNCHANGED <<kind, failed, advice, ledger, misfeeds>> /\ pc \in Before
  BY DEF FirstPassEnds, Current, TypeOK, ArtTypeOK, keeping, Before, Acquiring, Scanning
<1>2. /\ ledger[1].lost \in Nat /\ art.unreadable \in Nat
      /\ Fed \in Nat /\ misfeeds \in Nat /\ Gone(ledger[1]) \in Nat
  <2>1. ledger[1].lost \in Nat /\ Gone(ledger[1]) \in Nat
    BY <1>1, PassOf
  <2>2. Fed \in Nat /\ misfeeds \in Nat /\ art.unreadable \in Nat
    BY <1>1, DeliveryAssumption DEF Fed, TypeOK, AcquisitionTypeOK, Artefacts
  <2> QED
    BY <2>1, <2>2
<1>3. PICK counted \in {art, Counting(art, 1)} :
         \/ pc' = "handle" /\ art' = counted
         \/ pc' = "flip" /\ art' = Counting(art, 1) /\ next = <<>> /\ kind = "duplex"
         \/ pc' = "filter" /\ art' = [counted EXCEPT !.stage = "FILTERING", !.document = ledger[1].pages]
  BY DEF FirstPassEnds, EndsAs
<1>4. art'.unreadable = art.unreadable \/ art'.unreadable = art.unreadable + ledger[1].lost
  <2>1. PICK document, n : document = ledger[1].pages /\ n = art.unreadable + ledger[1].lost
    OBVIOUS
  <2>2. /\ counted.unreadable = art.unreadable \/ counted.unreadable = n
        /\ \/ [counted EXCEPT !.stage = "FILTERING", !.document = document].unreadable = art.unreadable
           \/ [counted EXCEPT !.stage = "FILTERING", !.document = document].unreadable = n
        /\ Counting(art, 1).unreadable = n
    BY <1>1, <1>3, <2>1, CountsLost
  <2>3. \/ art' = counted \/ art' = Counting(art, 1)
        \/ art' = [counted EXCEPT !.stage = "FILTERING", !.document = document]
    BY <1>3, <2>1
  <2> QED
    BY <2>1, <2>2, <2>3
<1>5. PassesAreKept' /\ advice' = "none"
  BY <1>1, <1>3, NothingKeptYet
<1>6. BacksMatchFronts'
  BY <1>1, <1>5, PairsStay
<1>7. CASE pc' # "flip"
  <2>1. FeedIsKnown' /\ PassesAreNamed'
    BY <1>1, <1>2, <1>3, <1>4, <1>7, FeedStays
  <2> QED
    BY <1>5, <1>6, <2>1 DEF PairsRest
<1>8. CASE pc' = "flip"
  <2>1. /\ FeedCounts /\ PlacesTellSheets /\ next = <<>> /\ kind = "duplex"
        /\ art'.unreadable = art.unreadable + ledger[1].lost
    BY <1>1, <1>3, <1>8, CountsLost DEF PairsRest, FeedIsKnown
  <2>2. Gone(ledger[1]) + misfeeds = Fed
    <3>1. Len(next) = 0
      BY <2>1
    <3>2. Len(next) + Gone(ledger[1]) + misfeeds = Fed
      BY <1>1, <2>1 DEF FeedCounts, Current
    <3> QED
      BY <1>2, <3>1, <3>2
  <2>3. art'.unreadable = 0 => ledger[1].lost = 0
    BY <1>2, <2>1
  <2>4. FeedCounts' /\ LostAreCounted'
    BY <1>1, <1>8, <2>2, <2>3 DEF FeedCounts, LostAreCounted, Fed, Current
  <2>5. PlacesTellSheets' /\ PassesAreNamed'
    BY <1>1, <2>1 DEF PlacesTellSheets, PairsRest, PassesAreNamed, Current
  <2> QED
    BY <1>5, <1>6, <2>4, <2>5 DEF PairsRest, FeedIsKnown
<1> QED
  BY <1>7, <1>8

\* The flip: the stack goes in again, its last sheet first.
LEMMA FlipPairs == TypeOK /\ PagesRest /\ PairsRest /\ FlipAnswered => PairsRest'
<1> SUFFICES ASSUME TypeOK, PagesRest, PairsRest, FlipAnswered PROVE PairsRest'
  OBVIOUS
<1>1. /\ pc = "flip" /\ UNCHANGED <<kind, art, failed, advice, misfeeds>> /\ pc \in Before
      /\ kind = "duplex" /\ kind \in Kinds /\ Len(ledger) = 1 /\ ledger \in Seq(OpenPass)
  BY DEF FlipAnswered, keeping, Before, Acquiring, Scanning, TypeOK, AcquisitionTypeOK, PassesInFlight
<1>2. CASE pc' = "handle" /\ ledger' = ledger
  BY <1>1, <1>2, PairsKeep
<1>3. CASE pc' = "scan" /\ ledger' = Append(ledger, Pass(Backs)) /\ next' = Reverse(Stack)
  <2>1. /\ Len(ledger') = 2 /\ DOMAIN ledger' = 1..2
        /\ ledger'[1] = ledger[1] /\ ledger'[2] = Pass(Backs)
    <3>1. PICK pass : pass = Pass(Backs)
      OBVIOUS
    <3>2. ledger \in Seq(OpenPass \cup {pass}) /\ pass \in OpenPass \cup {pass}
      BY <1>1
    <3>3. /\ Append(ledger, pass) \in Seq(OpenPass \cup {pass})
          /\ Len(Append(ledger, pass)) = Len(ledger) + 1
          /\ \A i \in 1..Len(ledger) : Append(ledger, pass)[i] = ledger[i]
          /\ Append(ledger, pass)[Len(ledger) + 1] = pass
      BY <3>2, AppendProperties
    <3>4. DOMAIN Append(ledger, pass) = 1..2
      BY <1>1, <3>3, LenProperties
    <3> QED
      BY <1>1, <1>3, <3>1, <3>3, <3>4
  <2>2. /\ ledger'[2].suffix = Backs /\ ledger'[2].lost = 0 /\ Len(ledger'[2].pages) = 0
        /\ Gone(ledger'[2]) = 0
    BY <2>1, PassIsNew
  <2>3. /\ Fed \in Nat /\ Fed' = Fed /\ Len(next') = Fed /\ misfeeds \in Nat
        /\ \A i \in 1..Fed : next'[i] = Fed + 1 - i
    BY <1>1, <1>3, StackIs DEF Fed, TypeOK, AcquisitionTypeOK
  <2>4. /\ Gone(ledger[1]) + misfeeds = Fed /\ PlacesTellSheets
        /\ art.unreadable = 0 => ledger[1].lost = 0
    BY <1>1 DEF PairsRest, FeedIsKnown, FeedCounts, LostAreCounted
  <2>5. Gone(ledger[1]) \in Nat /\ ledger # <<>>
    BY <1>1, PassOf
  <2>6. FeedCounts'
    <3>1. Len(next') + Gone(ledger'[2]) + Gone(ledger'[1]) + misfeeds' = Fed + Fed
      <4>1. Len(next') = Fed /\ Gone(ledger'[2]) = 0 /\ Gone(ledger'[1]) = Gone(ledger[1]) /\ misfeeds' = misfeeds
        BY <1>1, <2>1, <2>2, <2>3
      <4> QED
        BY <2>3, <2>4, <2>5, <4>1
    <3>2. misfeeds' = 0 => Gone(ledger'[1]) = Fed
      BY <1>1, <2>1, <2>3, <2>4, <2>5
    <3> QED
      BY <1>3, <2>1, <2>3, <3>1, <3>2 DEF FeedCounts, Current
  <2>7. PlacesTellSheets' /\ LostAreCounted'
    BY <1>1, <1>3, <2>1, <2>2, <2>4, <2>5 DEF PlacesTellSheets, LostAreCounted, Current
  <2>8. PassesAreNamed'
    <3>1. ledger'[1].suffix = Fronts
      <4>1. 1 \in DOMAIN ledger
        BY <1>1, LenProperties
      <4> QED
        BY <1>1, <2>1, <4>1 DEF PairsRest, PassesAreNamed
    <3> QED
      BY <1>1, <2>1, <2>2, <3>1 DEF PassesAreNamed
  <2>9. art'.document = <<>>
    BY <1>1, NoDocumentYet DEF Acquiring, Scanning
  <2>10. PassesAreKept' /\ advice' = "none"
    BY <1>1, <1>3, NothingKeptYet
  <2> QED
    BY <2>6, <2>7, <2>8, <2>9, <2>10, PairsStay DEF PairsRest, FeedIsKnown
<1> QED
  BY <1>2, <1>3 DEF FlipAnswered, EndsAs

\* Two passes of as many pages that lost none: at most one sheet missed is no
\* sheet missed, and every back is on the sheet of its front.
LEMMA BacksMeetFronts ==
    ASSUME TypeOK, FeedIsKnown, kind = "duplex", pc = "scan", Current = 2, next = <<>>,
           ledger[1].lost = 0, ledger[2].lost = 0, misfeeds <= 1,
           Len(ledger[1].pages) = Len(ledger[2].pages),
           NEW all, all = InterleaveDuplex(ledger[1].pages, ledger[2].pages)
    PROVE  \A k \in 1..(Len(all) \div 2) : SameSheet(all[2 * k - 1], all[2 * k])
<1>1. /\ ledger # <<>> /\ ledger[1].pages \in Seq(Page) /\ ledger[2].pages \in Seq(Page)
      /\ Len(ledger[1].pages) \in Nat /\ Fed \in Nat /\ misfeeds \in Nat
  <2>1. Fed \in Nat /\ misfeeds \in Nat
    BY DeliveryAssumption DEF TypeOK, AcquisitionTypeOK, Fed
  <2> QED
    BY <2>1, PassOf DEF Current
<1>2. PICK n \in Nat : n = Len(ledger[1].pages) /\ n = Len(ledger[2].pages)
  BY <1>1
<1>3. Gone(ledger[1]) = n /\ Gone(ledger[2]) = n
  BY <1>2 DEF Gone
<1>4. misfeeds = 0 /\ n = Fed
  <2>1. Len(next) + Gone(ledger[2]) + Gone(ledger[1]) + misfeeds = Fed + Fed /\ Len(next) = 0
    BY DEF FeedIsKnown, FeedCounts
  <2>2. n + n + misfeeds = Fed + Fed
    BY <1>1, <1>2, <1>3, <2>1
  <2> QED
    BY <1>1, <1>2, <2>2
<1>5. /\ \A k \in 1..n : ledger[1].pages[k].sheet = k
      /\ \A k \in 1..n : ledger[2].pages[k].sheet = n + 1 - k
  BY <1>1, <1>2, <1>4 DEF FeedIsKnown, PlacesTellSheets
<1>6. /\ Len(all) = 2 * n
      /\ \A k \in 1..n : all[2 * k - 1] = ledger[1].pages[k] /\ all[2 * k] = ledger[2].pages[n + 1 - k]
  <2>1. /\ Len(all) = 2 * Len(ledger[1].pages)
        /\ \A k \in 1..Len(ledger[1].pages) :
              all[2 * k - 1] = ledger[1].pages[k] /\ all[2 * k] = ledger[2].pages[Len(ledger[2].pages) + 1 - k]
    BY <1>1, InterleavedPages
  <2> QED
    BY <1>2, <2>1
<1>7. ASSUME NEW k \in 1..n PROVE SameSheet(all[2 * k - 1], all[2 * k])
  <2>1. n + 1 - k \in 1..n /\ n + 1 - (n + 1 - k) = k
    BY <1>2
  <2>2. ledger[2].pages[n + 1 - k].sheet = n + 1 - (n + 1 - k)
    BY <1>5, <2>1
  <2>3. ledger[1].pages[k].sheet = k
    BY <1>5
  <2> QED
    BY <1>6, <2>1, <2>2, <2>3 DEF SameSheet
<1>8. Len(all) \div 2 = n
  <2>1. ASSUME NEW m \in Nat PROVE (2 * m) \div 2 = m
    OBVIOUS
  <2> QED
    BY <1>2, <1>6, <2>1
<1> QED
  BY <1>7, <1>8

\* The end of the backs.
LEMMA BacksPassPairs == TypeOK /\ PagesRest /\ PairsRest /\ BacksPassEnds => PairsRest'
<1> SUFFICES ASSUME TypeOK, PagesRest, PairsRest, BacksPassEnds PROVE PairsRest'
  OBVIOUS
<1>1. /\ pc = "scan" /\ kind = "duplex" /\ Current = 2 /\ art \in Artefacts
      /\ UNCHANGED <<kind, failed, advice, ledger, misfeeds>> /\ pc \in Before
  BY DEF BacksPassEnds, Current, TypeOK, ArtTypeOK, keeping, Before, Acquiring, Scanning
<1>2. ledger[2].lost \in Nat /\ art.unreadable \in Nat /\ art.document = <<>>
  <2>1. ledger[2].lost \in Nat
    BY <1>1, PassOf DEF Current
  <2> QED
    BY <1>1, <2>1, NoDocumentYet DEF Artefacts, Acquiring, Scanning
<1>3. \/ pc' = "handle" /\ art' = Counting(art, 2)
      \/ pc' = "pair" /\ art' = [Counting(art, 2) EXCEPT !.stage = "ASSEMBLING"]
      \/ /\ next = <<>> /\ ledger[1].lost = 0 /\ ledger[2].lost = 0
         /\ Len(ledger[1].pages) = Len(ledger[2].pages)
         /\ ToFilter(InterleaveDuplex(ledger[1].pages, ledger[2].pages))
  BY DEF BacksPassEnds, EndsAs, CanPair
<1>4. pc' \in {"handle", "pair", "filter"} /\ (art'.unreadable = 0 => art.unreadable = 0)
  <2>1. CASE pc' \in {"handle", "pair"} /\ art'.unreadable = art.unreadable + ledger[2].lost
    BY <1>2, <2>1
  <2>2. CASE pc' = "filter" /\ art'.unreadable = art.unreadable
    BY <2>2
  <2>3. ToFilter(InterleaveDuplex(ledger[1].pages, ledger[2].pages)) =>
            pc' = "filter" /\ art'.unreadable = art.unreadable
    BY <1>1, CountsLost DEF ToFilter
  <2>4. \/ pc' \in {"handle", "pair"} /\ art'.unreadable = art.unreadable + ledger[2].lost
        \/ pc' = "filter" /\ art'.unreadable = art.unreadable
    BY <1>1, <1>3, <2>3, CountsLost
  <2> QED
    BY <2>1, <2>2, <2>4
<1>5. FeedIsKnown' /\ PassesAreNamed'
  BY <1>1, <1>4, FeedStays
<1>6. PassesAreKept' /\ advice' = "none"
  BY <1>1, <1>4, NothingKeptYet
<1>7. BacksMatchFronts'
  <2>1. CASE art'.document = <<>>
    BY <1>6, <2>1, PairsStay
  <2>2. CASE /\ next = <<>> /\ ledger[1].lost = 0 /\ ledger[2].lost = 0
             /\ Len(ledger[1].pages) = Len(ledger[2].pages)
             /\ ToFilter(InterleaveDuplex(ledger[1].pages, ledger[2].pages))
    <3>1. PICK all : all = InterleaveDuplex(ledger[1].pages, ledger[2].pages)
      OBVIOUS
    <3>2. pc' = "filter" /\ art'.document = all
      BY <1>1, <2>2, <3>1, ToFilterSets
    <3>3. misfeeds <= 1 => \A k \in 1..(Len(all) \div 2) : SameSheet(all[2 * k - 1], all[2 * k])
      BY <1>1, <2>2, <3>1, BacksMeetFronts DEF PairsRest
    <3>4. InterleavedPairs'
      BY <1>1, <3>2, <3>3 DEF InterleavedPairs, SameSheet
    <3>5. AdvisedPairs'
      BY <3>2 DEF AdvisedPairs
    <3> QED
      BY <3>4, <3>5 DEF BacksMatchFronts
  <2>3. Counting(art, 2).document = <<>> /\ \A s : [Counting(art, 2) EXCEPT !.stage = s].document = <<>>
    BY <1>1, <1>2, CountingKeeps
  <2> QED
    BY <1>3, <2>1, <2>2, <2>3
<1> QED
  BY <1>5, <1>6, <1>7 DEF PairsRest

\* The passes of a multi-page document, each by itself.
LEMMA PassPairs ==
    TypeOK /\ PairsRest /\ (MultiPassEnds \/ AcceptPass \/ DiscardPass \/ NextPass \/ FinishPasses)
        => PairsRest'
<1> SUFFICES ASSUME TypeOK, PairsRest,
                    MultiPassEnds \/ AcceptPass \/ DiscardPass \/ NextPass \/ FinishPasses
             PROVE  PairsRest'
  OBVIOUS
<1>1. kind = "multi"
  BY DEF TypeOK, PassesInFlight, MultiPassEnds, AcceptPass, DiscardPass, NextPass, FinishPasses, Goto
<1>2. /\ pc \in {"scan", "decide", "between"} /\ pc' \in {"decide", "between", "scan", "handle", "filter"}
      /\ UNCHANGED <<kind, failed, advice>>
  BY DEF MultiPassEnds, AcceptPass, DiscardPass, NextPass, FinishPasses, Goto, EndsAs, ToFilter, keeping
<1>3. PassesAreNamed'
  <2>1. CASE MultiPassEnds \/ FinishPasses
    BY <1>2, <2>1 DEF MultiPassEnds, FinishPasses, acquisition, PairsRest, PassesAreNamed
  <2>2. CASE AcceptPass \/ DiscardPass
    <3>1. ledger' = <<>> /\ DOMAIN <<>> = {}
      BY <2>2 DEF AcceptPass, DiscardPass
    <3>2. DOMAIN ledger' = {}
      BY <3>1
    <3> QED
      BY <3>2 DEF PassesAreNamed
  <2>3. CASE NextPass
    <3>1. PICK pass : pass = Pass("(partial)")
      OBVIOUS
    <3>2. ledger' = <<pass>>
      BY <2>3, <3>1 DEF NextPass
    <3>3. DOMAIN ledger' = {1} /\ ledger'[1].suffix = "(partial)"
      BY <3>1, <3>2, PassIsNew
    <3> QED
      BY <1>1, <1>2, <3>3 DEF PassesAreNamed
  <2> QED
    BY <2>1, <2>2, <2>3, <1>2 DEF MultiPassEnds, AcceptPass, DiscardPass, NextPass, FinishPasses
<1> QED
  BY <1>1, <1>2, <1>3, OtherKinds DEF Before, Acquiring, Scanning

\* What of art the pairs depend on.
LEMMA PairFields ==
    ASSUME art \in Artefacts,
           \/ art' = art
           \/ \E s : art' = [art EXCEPT !.stage = s]
           \/ \E s, p : art' = [art EXCEPT !.stage = s, !.pdfs = p]
           \/ \E n, how : art' = [art EXCEPT !.accepted[n] = how]
    PROVE  art'.unreadable = art.unreadable /\ art'.document = art.document
<1>1. ASSUME NEW s, art' = [art EXCEPT !.stage = s]
      PROVE  art'.unreadable = art.unreadable /\ art'.document = art.document
  BY <1>1 DEF Artefacts
<1>2. ASSUME NEW s, NEW p, art' = [art EXCEPT !.stage = s, !.pdfs = p]
      PROVE  art'.unreadable = art.unreadable /\ art'.document = art.document
  BY <1>2 DEF Artefacts
<1>3. ASSUME NEW n, NEW how, art' = [art EXCEPT !.accepted[n] = how]
      PROVE  art'.unreadable = art.unreadable /\ art'.document = art.document
  <2>1. PICK b : b = [art.accepted EXCEPT ![n] = how]
    OBVIOUS
  <2>2. art' = [art EXCEPT !.accepted = b]
    BY <1>3, <2>1
  <2> QED
    BY <2>2 DEF Artefacts
<1>4. CASE art' = art
  BY <1>4
<1> QED
  BY <1>1, <1>2, <1>3, <1>4

\* The filter, the two halves, and every step of the delivery.
LEMMA DeliveryPairs ==
    TypeOK /\ PairsRest /\ (FinishDocument \/ FinishMismatch \/ StartLeg \/ InCall \/ LegReturns
                            \/ LegRaises \/ SettleDelivered \/ StageDelivered) => PairsRest'
<1> SUFFICES ASSUME TypeOK, PairsRest,
                    \/ FinishDocument \/ FinishMismatch \/ StartLeg \/ InCall \/ LegReturns
                    \/ LegRaises \/ SettleDelivered \/ StageDelivered
             PROVE  PairsRest'
  OBVIOUS
<1>1. art \in Artefacts
  BY DEF TypeOK, ArtTypeOK
<1>2. UNCHANGED <<kind, ledger, misfeeds, failed, advice>>
  BY DEF FinishDocument, FinishMismatch, StartLeg, InCall, LegReturns, LegRaises, SettleDelivered,
         StageDelivered, acquisition, keeping
<1>3. /\ pc \in {"filter", "pair", "deliver", "delivered"}
      /\ pc' \in {"handle", "deliver", "delivered", "leave"}
  BY DEF FinishDocument, FinishMismatch, StartLeg, InCall, LegReturns, LegRaises, SettleDelivered,
         StageDelivered, EndsAs, Deliver, Goto
<1>4. \/ art' = art
      \/ \E s : art' = [art EXCEPT !.stage = s]
      \/ \E s, p : art' = [art EXCEPT !.stage = s, !.pdfs = p]
      \/ \E n, how : art' = [art EXCEPT !.accepted[n] = how]
  <2>1. CASE FinishDocument \/ FinishMismatch
    BY <2>1 DEF FinishDocument, FinishMismatch, Deliver
  <2>2. CASE StartLeg \/ InCall \/ SettleDelivered \/ StageDelivered
    BY <2>2 DEF StartLeg, InCall, SettleDelivered, StageDelivered
  <2>3. CASE LegReturns \/ LegRaises
    BY <2>3 DEF LegReturns, LegRaises
  <2> QED
    BY <2>1, <2>2, <2>3
<1>5. art'.unreadable = art.unreadable /\ art'.document = art.document
  BY <1>1, <1>4, PairFields
<1>6. pc \in Before \cup {"deliver", "delivered"} /\ pc' \notin {"open", "scan", "flip", "preserve"}
  BY <1>3 DEF Before
<1> QED
  BY <1>2, <1>5, <1>6, PairsKeep

\* A run that breaks off, whatever was in its way.
LEMMA BreakPairs == TypeOK /\ PairsRest /\ (StepFails \/ Interrupt) => PairsRest'
<1> SUFFICES ASSUME TypeOK, PairsRest, StepFails \/ Interrupt PROVE PairsRest'
  OBVIOUS
<1>1. /\ art \in Artefacts /\ UNCHANGED <<kind, ledger, misfeeds, failed, advice>> /\ pc' = "handle"
      /\ pc \in Running \cup {"delivered"}
  BY DEF TypeOK, ArtTypeOK, StepFails, Interrupt, EndsAs, keeping, Running
<1>2. art'.unreadable = art.unreadable /\ art'.document = art.document
  <2>1. art' = art \/ \E n, how : art' = [art EXCEPT !.accepted[n] = how]
    BY DEF StepFails, Interrupt
  <2> QED
    BY <1>1, <2>1, PairFields
<1> QED
  BY <1>1, <1>2, PairsKeep DEF Running, Before, Acquiring

\* A run that is over for its passes: cancelled, left, or swept.
LEMMA EndedPairs ==
    ASSUME PairsRest, pc # "leave", UNCHANGED <<kind, ledger, misfeeds, art, advice>>,
           \/ pc' = "handle" /\ outcome' = "cancelled"
           \/ pc' \in {"leave", "over", "sweep"}
    PROVE  PairsRest'
<1>1. advice' = "none"
  BY DEF PairsRest, PassesAreKept
<1>2. PassesAreKept'
  BY <1>1 DEF PassesAreKept, Before, Acquiring, Scanning
<1>3. FeedIsKnown' /\ PassesAreNamed'
  BY FeedStays
<1>4. BacksMatchFronts'
  BY <1>1, PairsStay
<1> QED
  BY <1>2, <1>3, <1>4 DEF PairsRest

\* The end of a run takes its passes with it.
LEMMA OverPairs == PairsRest /\ (LeaveWorkspace \/ Killed) => PairsRest'
<1> SUFFICES ASSUME PairsRest, LeaveWorkspace \/ Killed PROVE PairsRest'
  OBVIOUS
<1>1. ledger' = <<>> /\ advice' = "none" /\ pc' = "over"
  BY DEF LeaveWorkspace, Killed, Forgotten, Goto
<1>2. PassesAreKept'
  BY <1>1 DEF PassesAreKept, Before, Acquiring, Scanning
<1>3. FeedIsKnown' /\ PassesAreNamed'
  BY <1>1, FeedForgotten
<1>4. Len(ledger') = 0
  BY <1>1
<1>5. BacksMatchFronts'
  BY <1>1, <1>4, PairsStay
<1> QED
  BY <1>2, <1>3, <1>5 DEF PairsRest

\* Ctrl-C, a cancellation handled, and the sweep.
LEMMA CancelPairs == PairsRest /\ (CtrlC \/ HandleCancel \/ SweepFinds \/ SweepLeaves) => PairsRest'
<1> SUFFICES ASSUME PairsRest, CtrlC \/ HandleCancel \/ SweepFinds \/ SweepLeaves PROVE PairsRest'
  OBVIOUS
<1>1. UNCHANGED <<kind, ledger, misfeeds, art, advice>> /\ pc # "leave"
  BY DEF CtrlC, HandleCancel, SweepFinds, SweepLeaves, acquisition, keeping, Goto, Running, Scanning
<1>2. \/ pc' = "handle" /\ outcome' = "cancelled"
      \/ pc' \in {"leave", "over", "sweep"}
  BY DEF CtrlC, HandleCancel, SweepFinds, SweepLeaves, EndsAs, Goto
<1> QED
  BY <1>1, <1>2, EndedPairs

\* What there is to try, of the passes of a run.
LEMMA PlanOfPasses ==
    ASSUME NEW a \in Artefacts, Len(a.passes) <= 2
    PROVE  /\ \A item \in Range(Plan(a)) :
                 item.kind = "pass" => \E i \in DOMAIN a.passes : item = PassItem(a.passes[i])
           /\ a.document = <<>> /\ a.stage = "ACQUIRING" =>
                 \A i \in DOMAIN a.passes :
                     a.passes[i].pages # <<>> => PassItem(a.passes[i]) \in Range(Plan(a))
<1>1. /\ a.passes \in Seq(RunPass) /\ DOMAIN a.passes \subseteq {1, 2} /\ a.pdfs \in Seq(Pdf)
  <2>1. a.passes \in Seq(RunPass) /\ a.pdfs \in Seq(Pdf)
    BY DEF Artefacts
  <2>2. PICK n \in Nat : n = Len(a.passes) /\ DOMAIN a.passes = 1..n
    BY <2>1, LenProperties
  <2>3. n <= 2
    BY <2>2, Zenon
  <2>4. 1..n \subseteq {1, 2}
    BY <2>3
  <2> QED
    BY <2>1, <2>2, <2>4
<1> DEFINE Full(i) == IF i \in DOMAIN a.passes /\ a.passes[i].pages # <<>>
                      THEN <<PassItem(a.passes[i])>> ELSE <<>>
<1>2. ASSUME NEW i \in {1, 2}
      PROVE  /\ Full(i) \in Seq(KeptItem)
             /\ \A x : x \in Range(Full(i)) <=>
                   i \in DOMAIN a.passes /\ a.passes[i].pages # <<>> /\ x = PassItem(a.passes[i])
  <2>1. CASE i \in DOMAIN a.passes /\ a.passes[i].pages # <<>>
    <3>1. PICK item : item = PassItem(a.passes[i])
      OBVIOUS
    <3>2. item \in KeptItem
      <4>1. a.passes[i] \in RunPass
        BY <1>1, <2>1
      <4> QED
        BY <3>1, <4>1, PassItemPages DEF KeptItem
    <3>3. Full(i) = <<item>>
      BY <2>1, <3>1
    <3> HIDE DEF Full
    <3>4. Range(Full(i)) = {item}
      BY <3>3 DEF Range
    <3> QED
      BY <2>1, <3>1, <3>2, <3>3, <3>4
  <2>2. CASE ~(i \in DOMAIN a.passes /\ a.passes[i].pages # <<>>)
    <3>1. Full(i) = <<>> /\ Range(<<>>) = {}
      BY <2>2 DEF Range
    <3> HIDE DEF Full
    <3>2. <<>> \in Seq(KeptItem)
      BY EmptySeq
    <3> QED
      BY <2>2, <3>1, <3>2
  <2> QED
    BY <2>1, <2>2
<1>3. PassItems(a) = Full(1) \o Full(2)
  BY DEF PassItems
<1> HIDE DEF Full
<1>4. /\ Full(1) \o Full(2) \in Seq(KeptItem)
      /\ Range(Full(1) \o Full(2)) = Range(Full(1)) \cup Range(Full(2))
  BY <1>2, RangeOfConcat, ConcatProperties
<1>5. /\ PassItems(a) \in Seq(KeptItem)
      /\ \A x \in Range(PassItems(a)) : \E i \in DOMAIN a.passes : x = PassItem(a.passes[i])
      /\ \A i \in DOMAIN a.passes : a.passes[i].pages # <<>> => PassItem(a.passes[i]) \in Range(PassItems(a))
  BY <1>1, <1>2, <1>3, <1>4
<1>6. DocumentItems(a) \in Seq(KeptItem) /\ \A x \in Range(DocumentItems(a)) : x.kind = "document"
  <2>1. CASE a.document = <<>>
    <3>1. DocumentItems(a) = <<>> /\ Range(<<>>) = {} /\ <<>> \in Seq(KeptItem)
      BY <2>1, EmptySeq DEF DocumentItems, Range
    <3> QED
      BY <3>1
  <2>2. CASE a.document # <<>>
    <3>1. PICK item : item = Item("document", "document", a.document)
      OBVIOUS
    <3>2. item \in KeptItem /\ item.kind = "document"
      BY <3>1 DEF Item, KeptItem, Artefacts
    <3>3. DocumentItems(a) = <<item>>
      BY <2>2, <3>1 DEF DocumentItems
    <3>4. Range(DocumentItems(a)) = {item}
      BY <3>3 DEF Range
    <3> QED
      BY <3>2, <3>3, <3>4
  <2> QED
    BY <2>1, <2>2
<1>7. Range(DocumentItems(a) \o PassItems(a)) = Range(DocumentItems(a)) \cup Range(PassItems(a))
  BY <1>5, <1>6, RangeOfConcat
<1>8. ASSUME NEW x \in Range(a.pdfs) PROVE x.kind = "assembled"
  <2>1. PICK i \in DOMAIN a.pdfs : x = a.pdfs[i]
    BY <1>8 DEF Range
  <2>2. x \in Pdf
    BY <1>1, <2>1
  <2> QED
    BY <2>2 DEF Pdf
<1>9. Range(<<>>) = {}
  BY DEF Range
<1>10. \/ Plan(a) = <<>> \/ Plan(a) = a.pdfs \/ Plan(a) = DocumentItems(a)
       \/ Plan(a) = DocumentItems(a) \o PassItems(a)
  BY DEF Plan
<1>11. ASSUME NEW item \in Range(Plan(a)), item.kind = "pass"
       PROVE  \E i \in DOMAIN a.passes : item = PassItem(a.passes[i])
  <2>1. Range(Plan(a)) = {} \/ item \in Range(a.pdfs) \/ item \in Range(DocumentItems(a))
        \/ item \in Range(PassItems(a))
    BY <1>7, <1>9, <1>10, <1>11
  <2> QED
    BY <1>5, <1>6, <1>8, <1>11, <2>1
<1>12. a.document = <<>> /\ a.stage = "ACQUIRING" => Range(PassItems(a)) \subseteq Range(Plan(a))
  <2>1. a.stage = "ACQUIRING" => Plan(a) = DocumentItems(a) \o PassItems(a)
    BY DEF Plan
  <2> QED
    BY <1>7, <2>1
<1> QED
  BY <1>5, <1>11, <1>12

\* A failure handled: every pass that has pages is to be tried, or its document.
LEMMA HandlePairs == TypeOK /\ PairsRest /\ HandleFailure => PairsRest'
<1> SUFFICES ASSUME TypeOK, PairsRest, HandleFailure PROVE PairsRest'
  OBVIOUS
<1>1. /\ pc = "handle" /\ outcome # "cancelled" /\ pc' = "preserve" /\ art \in Artefacts
      /\ UNCHANGED <<kind, ledger, misfeeds, failed, advice, outcome>>
      /\ art' = [art EXCEPT !.passes = Passes] /\ keep' = Begin(art')
  BY DEF HandleFailure, TypeOK, ArtTypeOK, acquisition
<1>2. advice' = "none" /\ failed' = {}
  BY <1>1 DEF PairsRest, PassesAreKept
<1>3. art'.unreadable = art.unreadable /\ art'.document = art.document /\ art'.passes = Passes
  BY <1>1 DEF Artefacts
<1>4. Passes' = Passes /\ Passes \in Seq(RunPass) /\ Len(Passes) <= 2
  <2>1. ledger \in Seq(OpenPass) /\ Len(ledger) <= 2 /\ DOMAIN ledger = 1..Len(ledger) /\ Len(ledger) \in Nat
    BY LenProperties DEF TypeOK, AcquisitionTypeOK, PassesInFlight
  <2>2. ASSUME NEW i \in 1..Len(ledger)
        PROVE  [suffix |-> ledger[i].suffix, pages |-> ledger[i].pages] \in RunPass
    <3>1. ledger[i] \in OpenPass
      BY <2>1
    <3>2. ledger[i].suffix \in PassNames /\ ledger[i].pages \in Seq(Page)
      BY <3>1 DEF OpenPass
    <3> QED
      BY <3>2 DEF RunPass
  <2>3. Passes \in [1..Len(ledger) -> RunPass]
    BY <2>1, <2>2 DEF Passes
  <2>4. Passes \in Seq(RunPass) /\ Len(Passes) = Len(ledger)
    BY <2>1, <2>3
  <2> QED
    BY <1>1, <2>1, <2>4 DEF Passes
<1>5. PICK a \in Artefacts : a = art'
  <2>1. art' \in Artefacts
    BY <1>1, <1>4 DEF Artefacts
  <2> QED
    BY <2>1
<1>6. a.passes = Passes /\ Len(a.passes) <= 2 /\ keep' = Begin(a)
  BY <1>1, <1>3, <1>4, <1>5
<1>7. keep'.todo = Plan(a) /\ keep'.whole
  BY <1>6 DEF Begin, Idle
<1>8. PassesAreKept'
  <2>1. \A item \in Range(Plan(a)) :
            item.kind = "pass" => \E i \in DOMAIN Passes : item = PassItem(Passes[i])
    BY <1>6, PlanOfPasses
  <2>2. a.document = <<>> /\ a.stage = "ACQUIRING" =>
            \A i \in DOMAIN Passes : Passes[i].pages # <<>> => PassItem(Passes[i]) \in Range(Plan(a))
    BY <1>6, PlanOfPasses
  <2>3. failed' \cup Range(keep'.todo) = Range(Plan(a))
    BY <1>2, <1>7
  <2> QED
    BY <1>1, <1>2, <1>3, <1>4, <1>5, <2>1, <2>2, <2>3 DEF PassesAreKept, Before, Acquiring, Scanning
<1>9. FeedIsKnown' /\ PassesAreNamed'
  BY <1>1, <1>3, FeedStays
<1>10. BacksMatchFronts'
  BY <1>1, <1>2, <1>3, PairsStay
<1> QED
  BY <1>8, <1>9, <1>10 DEF PairsRest

\* An item tried: of the passes nothing is forgotten, or not all were kept.
LEMMA KeepPairs == TypeOK /\ PairsRest /\ (KeepItem \/ KeepPageFile) => PairsRest'
<1> SUFFICES ASSUME TypeOK, PairsRest, KeepItem \/ KeepPageFile PROVE PairsRest'
  OBVIOUS
<1>1. /\ pc \in {"preserve", "sweep"} /\ keep \in KeepRecord
      /\ UNCHANGED <<kind, pc, ledger, misfeeds, art, outcome, advice>>
  BY DEF KeepItem, KeepPageFile, acquisition, ending, TypeOK, KeepTypeOK, KeepRecord
<1>2. CASE pc = "sweep"
  BY <1>1, <1>2, EndedPairs
<1>3. CASE pc = "preserve"
  <2>1. advice' = "none" /\ Passes' = Passes
    BY <1>1, <1>3 DEF PairsRest, PassesAreKept, Passes
  <2>2. FeedIsKnown' /\ PassesAreNamed' /\ BacksMatchFronts'
    BY <1>1, <1>3, <2>1, FeedStays, PairsStay
  <2>3. /\ outcome # "cancelled" /\ art.passes = Passes
        /\ \A item \in failed \cup Range(keep.todo) :
              item.kind = "pass" => \E i \in DOMAIN Passes : item = PassItem(Passes[i])
        /\ keep.whole /\ art.document = <<>> /\ art.stage = "ACQUIRING" =>
              \A i \in DOMAIN Passes :
                  Passes[i].pages # <<>> => PassItem(Passes[i]) \in failed \cup Range(keep.todo)
    BY <1>3 DEF PairsRest, PassesAreKept
  <2>4. /\ \A item \in failed' \cup Range(keep'.todo) :
              item.kind = "pass" => item \in failed \cup Range(keep.todo)
        /\ keep'.whole => keep.whole /\ failed \cup Range(keep.todo) \subseteq failed' \cup Range(keep'.todo)
    <3>1. CASE KeepItem
      <4>1. keep.todo \in Seq(KeptItem) /\ keep.todo # <<>>
        BY <1>1, <3>1 DEF KeepItem, KeepRecord
      <4>2. Range(keep.todo) = {Head(keep.todo)} \cup Range(Tail(keep.todo))
        BY <4>1, RangeOfTail
      <4>3. CASE failed' = failed \cup {Head(keep.todo)} /\ keep' = Kept(keep)
        <5>1. keep'.todo = Tail(keep.todo) /\ keep'.whole = keep.whole
          BY <1>1, <4>3 DEF Kept, KeepRecord
        <5> QED
          BY <4>2, <4>3, <5>1
      <4>4. CASE failed' = failed /\ keep' = NotKept(keep)
        <5>1. keep'.todo \in {Tail(keep.todo), <<>>} /\ keep'.whole = FALSE
          BY <1>1, <4>4 DEF NotKept, KeepRecord
        <5>2. Range(<<>>) = {}
          BY DEF Range
        <5>3. Range(keep'.todo) \subseteq Range(keep.todo)
          BY <4>2, <5>1, <5>2
        <5> QED
          BY <4>4, <5>1, <5>3
      <4> QED
        BY <3>1, <4>3, <4>4 DEF KeepItem
    <3>2. CASE KeepPageFile
      <4>1. keep'.todo = keep.todo /\ keep'.whole = keep.whole
        BY <1>1, <3>2 DEF KeepPageFile, FilesDone, FilesStop, KeepRecord
      <4>2. failed' = failed \/ failed' = failed \cup {PageFile(FirstFile)}
        BY <3>2 DEF KeepPageFile
      <4>3. PageFile(FirstFile).kind # "pass"
        BY DEF PageFile, Item
      <4> QED
        BY <4>1, <4>2, <4>3
    <3> QED
      BY <3>1, <3>2
  <2>5. PassesAreKept'
    <3>1. /\ outcome' # "cancelled" /\ art'.passes = Passes' /\ pc' = "preserve"
          /\ art'.document = art.document /\ art'.stage = art.stage
      BY <1>1, <1>3, <2>1, <2>3
    <3>2. \A item \in failed' \cup Range(keep'.todo) :
              item.kind = "pass" => \E i \in DOMAIN Passes : item = PassItem(Passes[i])
      BY <2>3, <2>4
    <3>3. keep'.whole /\ art.document = <<>> /\ art.stage = "ACQUIRING" =>
              \A i \in DOMAIN Passes :
                  Passes[i].pages # <<>> => PassItem(Passes[i]) \in failed' \cup Range(keep'.todo)
      BY <2>3, <2>4
    <3> QED
      BY <2>1, <3>1, <3>2, <3>3 DEF PassesAreKept, Before, Acquiring, Scanning
  <2> QED
    BY <2>2, <2>5 DEF PairsRest
<1> QED
  BY <1>1, <1>2, <1>3

\* How many pages each of the two passes of a run holds, and that there is one
\* of each name.
LEMMA PagesOfPass ==
    ASSUME TypeOK, PassesAreNamed, art.passes = Passes, PagesIn(Backs) # 0
    PROVE  /\ kind = "duplex" /\ Len(ledger) = 2 /\ DOMAIN Passes = {1, 2}
           /\ Passes[1].suffix = Fronts /\ Passes[1].pages = ledger[1].pages
           /\ Passes[2].suffix = Backs /\ Passes[2].pages = ledger[2].pages
           /\ PagesIn(Fronts) = Len(ledger[1].pages) /\ PagesIn(Backs) = Len(ledger[2].pages)
<1>1. DOMAIN Passes = DOMAIN ledger /\ Fronts # Backs /\ Backs # "(partial)"
  BY DEF Passes, Fronts, Backs
<1>2. \A i \in DOMAIN ledger : Passes[i].suffix = ledger[i].suffix /\ Passes[i].pages = ledger[i].pages
  BY DEF Passes
<1>3. PICK i \in DOMAIN ledger : ledger[i].suffix = Backs
  BY <1>1, <1>2 DEF PagesIn
<1>4. kind = "duplex" /\ i # 1
  BY <1>1, <1>3 DEF PassesAreNamed
<1>5. Len(ledger) = 2 /\ DOMAIN ledger = {1, 2}
  <2>1. Len(ledger) \in Nat /\ DOMAIN ledger = 1..Len(ledger) /\ Len(ledger) <= 2
    BY LenProperties DEF TypeOK, AcquisitionTypeOK, PassesInFlight
  <2>2. Len(ledger) = 2
    BY <1>3, <1>4, <2>1
  <2> QED
    BY <2>1, <2>2
<1>6. /\ Passes[1].suffix = Fronts /\ Passes[1].pages = ledger[1].pages
      /\ Passes[2].suffix = Backs /\ Passes[2].pages = ledger[2].pages
  BY <1>2, <1>4, <1>5 DEF PassesAreNamed
<1>7. /\ {k \in DOMAIN art.passes : art.passes[k].suffix = Fronts} = {1}
      /\ {k \in DOMAIN art.passes : art.passes[k].suffix = Backs} = {2}
  BY <1>1, <1>5, <1>6
<1>8. (CHOOSE k \in {1} : TRUE) = 1 /\ (CHOOSE k \in {2} : TRUE) = 2
  OBVIOUS
<1>9. PagesIn(Fronts) = Len(ledger[1].pages)
  <2>1. PagesIn(Fronts) = Len(art.passes[CHOOSE k \in {1} : TRUE].pages)
    BY <1>7 DEF PagesIn
  <2> QED
    BY <1>6, <1>8, <2>1
<1>10. PagesIn(Backs) = Len(ledger[2].pages)
  <2>1. PagesIn(Backs) = Len(art.passes[CHOOSE k \in {2} : TRUE].pages)
    BY <1>7 DEF PagesIn
  <2> QED
    BY <1>6, <1>8, <2>1
<1> QED
  BY <1>1, <1>4, <1>5, <1>6, <1>9, <1>10

\* The two passes that were kept, as failed/ holds them.
LEMMA KeptPasses ==
    ASSUME DOMAIN Passes = {1, 2}, Passes[1].suffix = Fronts, Passes[2].suffix = Backs,
           PassItem(Passes[1]) \in failed, PassItem(Passes[2]) \in failed,
           \A item \in failed : item.kind = "pass" => \E i \in DOMAIN Passes : item = PassItem(Passes[i])
    PROVE  /\ KeptPass(Fronts).pages = Passes[1].pages
           /\ KeptPass(Backs).pages = Reverse(Passes[2].pages)
<1>1. Fronts # Backs /\ Fronts # "(backs)" /\ Backs = "(backs)"
  BY DEF Fronts, Backs
<1>2. PICK one : /\ one = PassItem(Passes[1])
                 /\ one.kind = "pass" /\ one.name = Fronts /\ one.pages = Passes[1].pages
  BY <1>1 DEF PassItem, Item
<1>3. PICK two : /\ two = PassItem(Passes[2])
                 /\ two.kind = "pass" /\ two.name = Backs /\ two.pages = Reverse(Passes[2].pages)
  BY <1>1 DEF PassItem, Item
<1>4. \A item \in failed : item.kind = "pass" => item = one \/ item = two
  BY <1>2, <1>3
<1>5. KeptPass(Fronts) = one
  <2>1. \A item \in failed : (item.kind = "pass" /\ item.name = Fronts) <=> item = one
    BY <1>1, <1>2, <1>3, <1>4
  <2>2. one \in failed
    BY <1>2
  <2> QED
    BY <2>1, <2>2 DEF KeptPass
<1>6. KeptPass(Backs) = two
  <2>1. \A item \in failed : (item.kind = "pass" /\ item.name = Backs) <=> item = two
    BY <1>1, <1>2, <1>3, <1>4
  <2>2. two \in failed
    BY <1>3
  <2> QED
    BY <2>1, <2>2 DEF KeptPass
<1> QED
  BY <1>2, <1>3, <1>5, <1>6

\* The advice that the backs go with the last fronts is right.
LEMMA AdviceIsRight ==
    ASSUME TypeOK, PairsRest, ReportFailure, advice' = "last", misfeeds = 0, StoppedPassReadAll
    PROVE  LET fronts == KeptPass(Fronts).pages
               backs == KeptPass(Backs).pages
           IN  \A k \in DOMAIN backs :
                   SameSheet(fronts[FirstPairedFront(Len(fronts), Len(backs)) + k - 1], backs[k])
<1>1. /\ pc = "preserve" /\ keep.todo = <<>> /\ keep.whole /\ art.document = <<>>
      /\ art.stage = "ACQUIRING"
      /\ PairingCaution(PagesIn(Fronts), PagesIn(Backs), art.unreadable) = "last"
  BY DEF ReportFailure, Goto, IsKeeping
<1>2. /\ art.passes = Passes /\ Range(keep.todo) = {}
      /\ \A item \in failed : item.kind = "pass" => \E i \in DOMAIN Passes : item = PassItem(Passes[i])
      /\ \A i \in DOMAIN Passes : Passes[i].pages # <<>> => PassItem(Passes[i]) \in failed
  <2>1. Range(<<>>) = {}
    BY DEF Range
  <2>2. Range(keep.todo) = {}
    BY <1>1, <2>1
  <2> QED
    BY <1>1, <2>2 DEF PairsRest, PassesAreKept
<1>3. PagesIn(Backs) # 0 /\ art.unreadable = 0 /\ ~(PagesIn(Backs) >= PagesIn(Fronts))
  BY <1>1 DEF PairingCaution
<1>4. /\ kind = "duplex" /\ Len(ledger) = 2 /\ DOMAIN Passes = {1, 2}
      /\ Passes[1].suffix = Fronts /\ Passes[1].pages = ledger[1].pages
      /\ Passes[2].suffix = Backs /\ Passes[2].pages = ledger[2].pages
      /\ PagesIn(Fronts) = Len(ledger[1].pages) /\ PagesIn(Backs) = Len(ledger[2].pages)
  BY <1>2, <1>3, PagesOfPass DEF PairsRest
<1>5. /\ ledger # <<>> /\ ledger[1].pages \in Seq(Page) /\ ledger[2].pages \in Seq(Page)
      /\ Len(ledger[1].pages) \in Nat /\ Len(ledger[2].pages) \in Nat /\ Fed \in Nat
  <2>1. Fed \in Nat
    BY DeliveryAssumption DEF TypeOK, AcquisitionTypeOK, Fed
  <2> QED
    BY <1>4, <2>1, PassOf
<1>6. PICK f \in Nat, b \in Nat : f = Len(ledger[1].pages) /\ b = Len(ledger[2].pages)
  BY <1>5
<1>7. f \in Nat /\ b \in Nat /\ b # 0 /\ b < f
  BY <1>3, <1>4, <1>6
<1>8. ledger[1].lost = 0 /\ ledger[2].lost = 0 /\ f = Fed
  <2>1. ledger[1].lost = 0 /\ Gone(ledger[1]) = Fed
    BY <1>3, <1>4 DEF PairsRest, FeedIsKnown, FeedCounts, LostAreCounted, Current
  <2>2. ledger[2].lost = 0
    BY <1>4 DEF StoppedPassReadAll, Current
  <2> QED
    BY <1>6, <1>7, <2>1, <2>2 DEF Gone
<1>9. /\ \A k \in 1..f : ledger[1].pages[k].sheet = k
      /\ \A k \in 1..b : ledger[2].pages[k].sheet = f + 1 - k
  BY <1>4, <1>5, <1>6, <1>8 DEF PairsRest, FeedIsKnown, PlacesTellSheets, Current
<1>10. KeptPass(Fronts).pages = ledger[1].pages /\ KeptPass(Backs).pages = Reverse(ledger[2].pages)
  <2>1. ledger[1].pages # <<>> /\ ledger[2].pages # <<>>
    <3>1. Len(ledger[1].pages) # 0 /\ Len(ledger[2].pages) # 0
      BY <1>6, <1>7
    <3> QED
      BY <1>5, <3>1, EmptySeq
  <2> QED
    BY <1>2, <1>4, <2>1, KeptPasses
<1>11. PICK backs : backs = Reverse(ledger[2].pages)
  OBVIOUS
<1>12. /\ Len(backs) = b /\ DOMAIN backs = 1..b
       /\ \A k \in 1..b : backs[k] = ledger[2].pages[b + 1 - k]
  <2>1. backs \in Seq(Page) /\ Len(backs) = b
    BY <1>5, <1>6, <1>11, ReversedSeq
  <2> QED
    BY <1>5, <1>6, <1>11, <2>1, ReversedSeq, LenProperties
<1>13. ASSUME NEW k \in 1..b
       PROVE  SameSheet(ledger[1].pages[f - b + 1 + k - 1], backs[k])
  <2>1. b + 1 - k \in 1..b /\ f - b + 1 + k - 1 \in 1..f /\ f + 1 - (b + 1 - k) = f - b + 1 + k - 1
    BY <1>7
  <2>2. backs[k].sheet = f + 1 - (b + 1 - k)
    BY <1>9, <1>12, <2>1
  <2>3. ledger[1].pages[f - b + 1 + k - 1].sheet = f - b + 1 + k - 1
    BY <1>9, <2>1
  <2> QED
    BY <2>1, <2>2, <2>3 DEF SameSheet
<1> QED
  BY <1>6, <1>10, <1>11, <1>12, <1>13 DEF FirstPairedFront

\* The notes of the failure.
LEMMA ReportPairs == TypeOK /\ PairsRest /\ ReportFailure => PairsRest'
<1> SUFFICES ASSUME TypeOK, PairsRest, ReportFailure PROVE PairsRest'
  OBVIOUS
<1>1. /\ pc = "preserve" /\ pc' = "leave" /\ UNCHANGED <<kind, ledger, misfeeds, art, failed>>
  BY DEF ReportFailure, Goto, acquisition
<1>2. FeedIsKnown' /\ PassesAreNamed'
  BY <1>1, FeedStays
<1>3. PassesAreKept'
  BY <1>1 DEF PassesAreKept, Before, Acquiring, Scanning
<1>4. InterleavedPairs'
  BY <1>1 DEF PairsRest, BacksMatchFronts, InterleavedPairs, SameSheet, Current
<1>5. ASSUME StoppedPassReadAll', advice' = "last", misfeeds' = 0
      PROVE  AdvisedPairs'
  <2>1. StoppedPassReadAll /\ misfeeds = 0
    BY <1>1, <1>5 DEF StoppedPassReadAll, Current
  <2>2. KeptPass(Fronts)' = KeptPass(Fronts) /\ KeptPass(Backs)' = KeptPass(Backs)
    BY <1>1 DEF KeptPass
  <2> HIDE DEF KeptPass
  <2> QED
    BY <1>5, <2>1, <2>2, AdviceIsRight DEF AdvisedPairs, SameSheet
<1>6. StoppedPassReadAll' => AdvisedPairs'
  BY <1>5 DEF AdvisedPairs
<1> QED
  BY <1>2, <1>3, <1>4, <1>6 DEF PairsRest, BacksMatchFronts

\* Every step keeps what the pairs rest on.
LEMMA StepPairs == PagesInv /\ PairsRest /\ [Next]_vars => PairsRest'
<1> SUFFICES ASSUME PagesInv, PairsRest, [Next]_vars PROVE PairsRest'
  OBVIOUS
<1>0. TypeOK /\ PagesRest
  BY DEF PagesInv, HandInv
<1>1. CASE UNCHANGED vars
  <2>1. UNCHANGED <<kind, pc, next, ledger, misfeeds, art, outcome, keep, failed, advice>>
    BY <1>1 DEF vars, acquisition, ending, keeping
  <2>2. FeedIsKnown' /\ PassesAreNamed'
    BY <2>1 DEF PairsRest, FeedIsKnown, FeedCounts, PlacesTellSheets, LostAreCounted, PassesAreNamed,
                Gone, Fed, Current
  <2>3. PassesAreKept'
    BY <2>1 DEF PairsRest, PassesAreKept, Passes
  <2>4. BacksMatchFronts'
    <3>1. InterleavedPairs'
      BY <2>1 DEF PairsRest, BacksMatchFronts, InterleavedPairs, SameSheet, Current
    <3>2. KeptPass(Fronts)' = KeptPass(Fronts) /\ KeptPass(Backs)' = KeptPass(Backs)
      BY <2>1 DEF KeptPass
    <3>3. StoppedPassReadAll' => AdvisedPairs'
      <4> HIDE DEF KeptPass
      <4> QED
        BY <2>1, <3>2
           DEF PairsRest, BacksMatchFronts, AdvisedPairs, StoppedPassReadAll, SameSheet, Current
    <3> QED
      BY <3>1, <3>3 DEF BacksMatchFronts
  <2> QED
    BY <2>2, <2>3, <2>4 DEF PairsRest
<1>2. CASE OpenWorkspace \/ SpoolPage \/ SheetMissed \/ SheetUnreadable
  BY <1>0, <1>2, OpenPairs, SheetPairs
<1>3. CASE FirstPassEnds \/ FlipAnswered \/ BacksPassEnds
  BY <1>0, <1>3, FirstPassPairs, FlipPairs, BacksPassPairs
<1>4. CASE MultiPassEnds \/ AcceptPass \/ DiscardPass \/ NextPass \/ FinishPasses
  BY <1>0, <1>4, PassPairs
<1>5. CASE FinishDocument \/ FinishMismatch \/ StartLeg \/ InCall \/ LegReturns \/ LegRaises
           \/ SettleDelivered \/ StageDelivered
  BY <1>0, <1>5, DeliveryPairs
<1>6. CASE StepFails \/ Interrupt \/ Killed \/ LeaveWorkspace
  BY <1>0, <1>6, BreakPairs, OverPairs
<1>7. CASE CtrlC \/ HandleCancel \/ SweepFinds \/ SweepLeaves
  BY <1>7, CancelPairs
<1>8. CASE HandleFailure \/ KeepItem \/ KeepPageFile \/ ReportFailure
  BY <1>0, <1>8, HandlePairs, KeepPairs, ReportPairs
<1> QED
  BY <1>1, <1>2, <1>3, <1>4, <1>5, <1>6, <1>7, <1>8 DEF Next, RunStep

\* PairsInv holds throughout a run, its end and the sweeps after it.
THEOREM PairsInvariant == Spec => []PairsInv
<1>1. Init => PairsRest
  <2> SUFFICES ASSUME Init PROVE PairsRest
    OBVIOUS
  <2>1. /\ pc = "open" /\ ledger = <<>> /\ misfeeds = 0 /\ advice = "none" /\ failed = {}
        /\ art.document = <<>>
    BY DEF Init, NoArtefacts
  <2>2. Len(ledger) = 0 /\ DOMAIN ledger = {}
    BY <2>1
  <2>3. FeedIsKnown /\ PassesAreNamed
    BY <2>1, <2>2 DEF FeedIsKnown, FeedCounts, PlacesTellSheets, LostAreCounted, PassesAreNamed, Current
  <2>4. PassesAreKept
    BY <2>1 DEF PassesAreKept
  <2>5. BacksMatchFronts
    BY <2>1 DEF BacksMatchFronts, InterleavedPairs, AdvisedPairs
  <2> QED
    BY <2>3, <2>4, <2>5 DEF PairsRest
<1>2. PagesInv /\ PairsRest /\ [Next]_vars => PairsRest'
  BY StepPairs
<1>3. Spec => []PagesInv
  BY PagesInvariant
<1> QED
  BY <1>1, <1>2, <1>3, PTL DEF Spec, PairsInv

\* Fronts meet their own backs in an interleaved document, and in the advice on
\* a stopped run's halves (BacksMatchFronts of the runs), for any stack.
THEOREM NoPageMismatched == Spec => []BacksMatchFronts
<1>1. PairsInv => BacksMatchFronts
  BY DEF PairsInv, PairsRest
<1> QED
  BY <1>1, PairsInvariant, PTL
=============================================================================
