--------------------------- MODULE PaperlessClient ---------------------------
(***************************************************************************)
(* One caller's upload and poll of a PDF through the paperless-ngx client  *)
(* (paperless.py), with the server and the consume directory it talks to.  *)
(*                                                                         *)
(* A request is sent in two steps: it arrives whole at the server or it    *)
(* does not, and then an answer comes back or is lost.  The server's side  *)
(* is external: what the client's own comments and handlers say of it.     *)
(* Error texts, timeouts in seconds, tags and titles are left out.         *)
(***************************************************************************)
EXTENDS Naturals

CONSTANTS
    Names,      \* the file names of the PDFs a run may deliver
    MaxSends    \* bound: attempts the send budget allows

ASSUME ClientAssumption == MaxSends \in Nat \ {0}

VARIABLES
    call,       \* the call being made: operation, PDF, place, version, result
    tasks,      \* external: what the poll saw of each upload's consume task
    taken,      \* external: how often the server stored the upload
    dropped     \* consume_dir's files under a name it offers: "cut" or "whole"

server == <<tasks, taken>>
clientVars == <<call, server, dropped>>

Failures == {"unsent", "incompatible", "refused", "uncertain", "unconfirmed",
             "timeout"}
Deliveries == {"api", "folder", "filed", "duplicate"}
NoCall == [op |-> "none", pdf |-> "none", at |-> "idle", asks |-> "oldest",
           sends |-> 0, result |-> "none"]

ClientInit ==
    /\ call = NoCall
    /\ tasks = [n \in Names |-> "none"]
    /\ taken = [n \in Names |-> 0]
    /\ dropped = [n \in Names |-> "no"]

At(op, place) == call.op = op /\ call.at = place
Goes(place) == call' = [call EXCEPT !.at = place]
Returns(result) == call' = [call EXCEPT !.at = "done", !.result = result]

-----------------------------------------------------------------------------
(* upload_document *)

\* The version asked for is the newest once an answer announced it.
StartUpload(n) ==
    /\ \E asks \in {"oldest", "newest"} :
          call' = [NoCall EXCEPT !.op = "upload", !.pdf = n, !.at = "send",
                                 !.asks = asks]
    /\ UNCHANGED <<server, dropped>>

(* BEFORE_SEND: no connection, no pool slot, a stalled body write.  Tried
   again while the send budget lasts, and then the consume directory, if one
   is set, gets the PDF. *)
NothingArrives ==
    /\ At("upload", "send")
    /\ \/ call.sends + 1 < MaxSends /\ call' = [call EXCEPT !.sends = @ + 1]
       \/ call.sends + 1 = MaxSends /\ Goes("fall back")
       \/ call.sends + 1 = MaxSends /\ Returns("unsent")
    /\ UNCHANGED <<server, dropped>>

\* MISCONFIGURED, UNEXPECTED, or a PDF that cannot be opened.
CannotSend ==
    /\ At("upload", "send")
    /\ Returns("unsent")
    /\ UNCHANGED <<server, dropped>>

(* A server that was rolled back answers 406 to the newest version, before it
   looks at the document: asked once more, with the oldest. *)
VersionRefused ==
    /\ At("upload", "send")
    /\ IF call.asks = "newest" THEN call' = [call EXCEPT !.asks = "oldest"]
                               ELSE Returns("incompatible")
    /\ UNCHANGED <<server, dropped>>

\* Any other 4xx, or a redirect.
Refused ==
    /\ At("upload", "send")
    /\ Returns("refused")
    /\ UNCHANGED <<server, dropped>>

Arrives ==
    /\ At("upload", "send")
    /\ tasks' = [tasks EXCEPT ![call.pdf] = "queued"]
    /\ taken' = [taken EXCEPT ![call.pdf] = @ + 1]
    /\ Goes("sent")
    /\ UNCHANGED dropped

\* The body was sent and the server, or a proxy, dropped it.
Vanishes ==
    /\ At("upload", "send")
    /\ Goes("sent")
    /\ UNCHANGED <<server, dropped>>

(* AFTER_SEND: a 5xx, an answer cut off, a 200 without a task id.  The
   document may be stored, so it is neither sent again nor copied. *)
AnswerLostAndResent ==
    /\ At("upload", "sent")
    /\ IF call.sends + 1 < MaxSends
       THEN call' = [call EXCEPT !.sends = @ + 1, !.at = "send"]
       ELSE Returns("uncertain")
    /\ UNCHANGED <<server, dropped>>
AnswerLost ==
    /\ At("upload", "sent")
    /\ Returns("uncertain")
    /\ UNCHANGED <<server, dropped>>

TaskIdReturned ==
    /\ At("upload", "sent")
    /\ taken[call.pdf] > 0
    /\ Returns("api")
    /\ UNCHANGED <<server, dropped>>

(* _fall_back_to_consume_dir: never created, since a missing one is usually a
   volume that is not mounted. *)
FallBack ==
    /\ At("upload", "fall back")
    /\ Goes("copying") \/ Returns("unsent")
    /\ UNCHANGED <<server, dropped>>

(* _deliver_to_consume_dir: the bytes go to a hidden staging file, and one
   rename gives them their name. *)
CopyStraightToName ==
    /\ At("upload", "copying")
    /\ \/ /\ dropped[call.pdf] = "no"
          /\ dropped' = [dropped EXCEPT ![call.pdf] = "cut"]
          /\ UNCHANGED call
       \/ /\ dropped[call.pdf] = "cut"
          /\ dropped' = [dropped EXCEPT ![call.pdf] = "whole"]
          /\ Goes("copied")
    /\ UNCHANGED server
CopyToConsumeDir ==
    /\ At("upload", "copying")
    /\ \/ dropped' = [dropped EXCEPT ![call.pdf] = "whole"] /\ Goes("copied")
       \/ Returns("unsent") /\ UNCHANGED dropped
    /\ UNCHANGED server

CopyReturns ==
    /\ At("upload", "copied")
    /\ Returns("folder")
    /\ UNCHANGED <<server, dropped>>

-----------------------------------------------------------------------------
(* poll_task.  An answer that may clear, and a task not visible or not over
   yet, only bring the deadline closer, and change nothing here. *)

StartPoll(n) ==
    /\ call' = [NoCall EXCEPT !.op = "poll", !.pdf = n, !.at = "ask"]
    /\ UNCHANGED <<server, dropped>>

\* _finished_task: the task is over, one way or another.
TaskSeen ==
    /\ At("poll", "ask")
    /\ \E how \in {"filed", "duplicate", "failed"} :
          /\ tasks' = [tasks EXCEPT ![call.pdf] = how]
          /\ Returns(IF how = "failed" THEN "unconfirmed" ELSE how)
    /\ UNCHANGED <<taken, dropped>>

\* A 406, any other answer that will not clear, or a body that is not JSON.
PollRefused ==
    /\ At("poll", "ask")
    /\ Returns("unconfirmed")
    /\ UNCHANGED <<server, dropped>>

DeadlinePasses ==
    /\ At("poll", "ask")
    /\ Returns("timeout")
    /\ UNCHANGED <<server, dropped>>

CallStep ==
    \/ NothingArrives \/ CannotSend \/ VersionRefused \/ Refused \/ Arrives
    \/ Vanishes \/ AnswerLost \/ TaskIdReturned \/ FallBack
    \/ CopyToConsumeDir \/ CopyReturns \/ TaskSeen \/ PollRefused
    \/ DeadlinePasses

\* Whatever breaks the call off, what it did so far stays done.
CallBroken ==
    /\ call' = NoCall
    /\ UNCHANGED <<server, dropped>>

\* How many times this PDF was handed to paperless-ngx.
Handed(n) == taken[n] + (IF dropped[n] = "no" THEN 0 ELSE 1)
Holds(n) == dropped[n] = "whole" \/ tasks[n] \in {"queued", "filed", "duplicate"}
=============================================================================
