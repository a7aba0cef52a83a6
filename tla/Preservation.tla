---------------------------- MODULE Preservation ----------------------------
(***************************************************************************)
(* Keeping what a failed run produced (preservation.py), as operators on   *)
(* records: what there is to keep, in which order it is tried, and what    *)
(* each step that succeeds or fails leaves behind.  Used by a run that     *)
(* failed and by the sweep of a workspace a killed process left.           *)
(*                                                                         *)
(* An item is one file of failed/: an assembled PDF, the document as a     *)
(* PDF, one pass as a PDF, or a single page file.  Names, permissions and  *)
(* sizes are left out; that a step fails (no room, no free name, a         *)
(* directory that cannot be made, a PDF the writer refuses) is a choice.   *)
(***************************************************************************)
EXTENDS Naturals, SequencesExt

Item(kind, name, pages) == [kind |-> kind, name |-> name, pages |-> pages]
PageFile(page) == Item("page", "page", <<page>>)

PagesOf(items) == UNION {Range(i.pages) : i \in items}

\* What a run has produced so far.  document is <<>> while there is none;
\* accepted maps the name of a PDF to how paperless-ngx took it, "no" if not.
NoArtefacts(names) ==
    [stage |-> "ACQUIRING", document |-> <<>>, passes |-> <<>>, pdfs |-> <<>>,
     accepted |-> [n \in names |-> "no"], unreadable |-> 0]

\* build_pass_pdf: pass B scanned the last sheet's back first.
PassItem(pass) ==
    Item("pass", pass.suffix,
         IF pass.suffix = "(backs)" THEN Reverse(pass.pages) ELSE pass.pages)

DocumentItems(art) ==
    IF art.document = <<>> THEN <<>>
    ELSE <<Item("document", "document", art.document)>>
\* A run has one pass in flight, or the two of manual duplex.
PassItems(art) ==
    LET Full(i) == IF i \in DOMAIN art.passes /\ art.passes[i].pages # <<>>
                   THEN <<PassItem(art.passes[i])>> ELSE <<>>
    IN  Full(1) \o Full(2)

(* preserve_most_finished: the PDFs to try, most finished first.  The passes
   in flight follow an accepted document, and stand for one that is not there. *)
Plan(art) ==
    CASE art.stage \in {"DELIVERED", "ASSEMBLING"} -> <<>>
      [] art.stage = "DELIVERING" /\ art.pdfs # <<>> -> art.pdfs
      [] OTHER -> IF art.stage = "ACQUIRING" \/ art.document = <<>>
                  THEN DocumentItems(art) \o PassItems(art)
                  ELSE DocumentItems(art)

(* A preservation under way: the items left to try, whether every PDF so far
   was kept, and whether something went wrong. *)
Idle == [todo |-> <<>>, whole |-> TRUE, problem |-> FALSE, files |-> FALSE]
Begin(art) ==
    [Idle EXCEPT !.todo = Plan(art),
                 !.files = art.stage # "DELIVERED" /\ Plan(art) = <<>>]

\* One item kept; a run of them that all were kept needs no page files.
Kept(keep) == [keep EXCEPT !.todo = Tail(@), !.files = Tail(keep.todo) = <<>> /\ ~keep.whole]

(* One item that could not be kept.  The other PDFs of a delivery, or the
   other passes, are not tried any more; passes in flight are tried beside a
   document that failed.  The page files follow either way. *)
NotKept(keep) ==
    LET left == IF Head(keep.todo).kind = "document" THEN Tail(keep.todo) ELSE <<>>
    IN  [keep EXCEPT !.todo = left, !.whole = FALSE, !.problem = TRUE,
                     !.files = left = <<>>]

\* The move of the page files stops at the first that fails.
FilesStop(keep) == [keep EXCEPT !.files = FALSE, !.problem = TRUE]
FilesDone(keep) == [keep EXCEPT !.files = FALSE]
IsKeeping(keep) == keep.todo # <<>> \/ keep.files

CautionsOfKept(art, failed) ==
    {n \in DOMAIN art.accepted :
        art.accepted[n] # "no" /\ \E i \in failed : i.kind = "assembled" /\ i.name = n}
\* A delivery's PDFs are cautioned about whichever of them could be kept.
Noted(art) ==
    {art.pdfs[i].name : i \in DOMAIN art.pdfs} \cap
    {n \in DOMAIN art.accepted : art.accepted[n] # "no"}
(* The sentence that says where things were kept ends in the cautions; when
   nothing was kept, it says that and leaves them out. *)
Cautions(art, failed) ==
    IF art.stage # "DELIVERING" \/ failed = {} THEN {} ELSE Noted(art)

(* _pairing_caution, for passes that were all kept: the fewer backs of a
   stopped pass go with the last sheets, and nothing pairs by number once a
   sheet could not be read. *)
PairingCaution(fronts, backs, unreadable) ==
    CASE backs = 0 -> "none"
      [] backs # 0 /\ unreadable # 0 -> "unpairable"
      [] backs # 0 /\ unreadable = 0 /\ backs >= fronts -> "none"
      [] OTHER -> "last"
\* The front page that backs page 1 (in sheet order) goes with.
FirstPairedFront(fronts, backs) == fronts - backs + 1
=============================================================================
