----------------------------- MODULE ScanChild -----------------------------
(***************************************************************************)
(* saneless's side of a scan session (scan_child.py, sane_backend.py),     *)
(* composed with the child of ScanPass.  One thread runs the session: it   *)
(* starts a child when it needs one, asks it for passes and restarts, and  *)
(* ends it however the operation ends.  An abort event, a deadline, the    *)
(* child's death or an exception raised by a signal handler may cut any    *)
(* wait, and a signal may cut the ending of the child as well.             *)
(*                                                                         *)
(* Left out: what is logged, which message an error becomes, the count of  *)
(* the children killed, and the replies dropped while a child ends.        *)
(***************************************************************************)
EXTENDS ScanPass

CONSTANTS
    MaxOps,      \* bound: passes and restarts asked for in the session
    MaxSignals   \* bound: stop signals the process takes

ASSUME SessionAssumption == MaxOps \in Nat /\ MaxSignals \in Nat

VARIABLES
    pp,        \* where the session's thread is
    way,       \* "in", or how the session is left: "close", "died"
    within,    \* what catches an exception now: "op", "settle" or "last"
    asks,      \* the command _stop_child is about to send
    result,    \* how the last operation ended
    records,   \* pages the sink has spooled this pass
    known,     \* _child is not None
    live,      \* the live event
    killSent,  \* _kill_sent
    onPage,    \* _on_page_clock
    abort,     \* the abort event
    ops, signals,  \* operations asked for and signals taken
    slipped    \* history: a signal took a child before _child named it

parentVars == <<pp, way, within, asks, result, records, known, live, killSent,
                onPage, abort, ops, signals, slipped>>
vars == <<childVars, parentVars>>

\* What only some steps of the session change.
clocks == <<onPage, records>>
book == <<known, live, killSent, slipped>>
world == <<abort, signals>>

Init ==
    /\ ChildInit
    /\ pp = "idle" /\ way = "in" /\ within = "op" /\ asks = "none"
    /\ result = "none" /\ records = 0
    /\ known = FALSE /\ live = FALSE /\ killSent = FALSE
    /\ onPage = FALSE /\ abort = FALSE
    /\ ops = 0 /\ signals = 0 /\ slipped = FALSE

Ends(how) == result' = how /\ pp' = "idle"
Send(command) == cmds' = IF Alive THEN Append(cmds, command) ELSE cmds
Await == pp' = "wait"
StopWith(command, catcher, how) ==
    pp' = "stop" /\ asks' = command /\ within' = catcher /\ result' = how
Finish(catcher, how) == pp' = "drain" /\ within' = catcher /\ result' = how
End(catcher, how) == pp' = "end" /\ within' = catcher /\ result' = how

\* An exception a signal handler raised unwinds the session's owner too.
MayAsk == pp = "idle" /\ result # "signal" /\ ops < MaxOps

-----------------------------------------------------------------------------
(* The operations. *)

AskScan ==
    /\ MayAsk
    /\ ops' = ops + 1 /\ within' = "op"
    /\ records' = 0 /\ onPage' = FALSE
    /\ \/ known /\ Send("scan") /\ Await /\ result' = "none" /\ UNCHANGED live
       \/ /\ ~known /\ abort
          /\ Ends("interrupted")
          /\ UNCHANGED <<cmds, live>>
       \/ /\ ~known /\ ~abort
          /\ live' = TRUE
          /\ pp' = "start" /\ result' = "none"
          /\ UNCHANGED cmds
    /\ UNCHANGED <<replies, hungUp, child, main, threads, reading, device, alarm, tally,
                   ending, way, asks, known, killSent, slipped, world>>

AskRestart ==
    /\ MayAsk /\ known
    /\ ops' = ops + 1 /\ within' = "op" /\ onPage' = FALSE
    /\ Send("restart") /\ Await /\ result' = "none"
    /\ UNCHANGED <<replies, hungUp, child, main, threads, reading, device, alarm, tally,
                   ending, way, asks, records, book, world>>

\* A fresh child, with pipes of its own.
Forks(orphaned) ==
    /\ child' = "alive" /\ main' = "init" /\ control' = "none"
    /\ cmds' = <<>> /\ replies' = <<>> /\ hungUp' = orphaned
    /\ items' = <<>> /\ pending' = "none" /\ cancelled' = FALSE
    /\ reading' = FALSE /\ device' = "closed" /\ alarm' = TRUE
    /\ ending' = "none" /\ fed' = 0 /\ rejected' = 0
    /\ UNCHANGED <<route, sheets>>

StartChild ==
    /\ pp = "start"
    /\ Forks(FALSE)
    /\ known' = TRUE
    /\ Await
    /\ UNCHANGED <<way, within, asks, result, clocks, live, killSent, ops, slipped,
                   world>>
StartFails ==
    /\ pp = "start"
    /\ live' = FALSE
    /\ Ends("error")
    /\ UNCHANGED <<childVars, way, within, asks, clocks, known, killSent,
                   ops, slipped, world>>

-----------------------------------------------------------------------------
(* Waiting for a reply: _next_frame, _receive_pass. *)

Waiting == pp = "wait"
PeerGone == ~Alive /\ replies = <<>>

TakesReply(frame) == Waiting /\ replies # <<>> /\ Head(replies) = frame
                     /\ replies' = Tail(replies)

StageNoted ==
    /\ \/ TakesReply("start") /\ onPage' = TRUE
       \/ TakesReply("cleanup") /\ onPage' = FALSE
    /\ UNCHANGED <<cmds, hungUp, child, main, threads, reading, device, alarm, tally,
                   ending, pp, way, within, asks, result, records, book, ops,
                   world>>

\* The pass is asked for as soon as the child is ready.
GotReady ==
    /\ TakesReply("ready")
    /\ Send("scan") /\ Await
    /\ UNCHANGED <<hungUp, child, main, threads, reading, device, alarm, tally, ending,
                   way, within, asks, result, clocks, book, ops, world>>

GotAnswer ==
    /\ \/ TakesReply("restarted") /\ Ends("restarted")
       \/ (TakesReply("done") \/ TakesReply("capped")) /\ Ends("batch")
       \/ TakesReply("error") /\ Ends("error")
    /\ UNCHANGED <<cmds, hungUp, child, main, threads, reading, device, alarm, tally,
                   ending, way, within, asks, clocks, book, ops, world>>

GotFatal ==
    /\ TakesReply("fatal")
    /\ Finish("settle", "error")
    /\ UNCHANGED <<cmds, hungUp, child, main, threads, reading, device, alarm, tally,
                   ending, way, asks, clocks, book, ops, world>>

GotPage ==
    /\ TakesReply("page")
    /\ pp' = "sink"
    /\ UNCHANGED <<cmds, hungUp, child, main, threads, reading, device, alarm, tally,
                   ending, way, within, asks, result, clocks, book, ops, world>>

\* The page is spooled, and then the child told so, if it is still there.
Spool ==
    /\ pp = "sink"
    /\ records' = records + 1
    /\ onPage' = FALSE
    /\ Send("spooled")
    /\ IF Alive THEN Await /\ UNCHANGED <<within, result>>
                ELSE Finish("settle", "error")
    /\ UNCHANGED <<replies, hungUp, child, main, threads, reading, device, alarm, tally,
                   ending, way, asks, book, ops, world>>
SpoolFails ==
    /\ pp = "sink"
    /\ StopWith("stop", "op", "error")
    /\ UNCHANGED <<childVars, way, clocks, book, ops, world>>

Aborted ==
    /\ Waiting /\ abort
    /\ StopWith("cancel", "settle", "interrupted")
    /\ UNCHANGED <<childVars, way, clocks, book, ops, world>>

\* On a page's clock the child is asked to stop first; otherwise it is killed.
Deadline ==
    /\ Waiting
    /\ IF onPage THEN StopWith("cancel", "settle", "error")
                 ELSE End("settle", "error") /\ UNCHANGED asks
    /\ UNCHANGED <<childVars, way, clocks, book, ops, world>>

ChildGone ==
    /\ Waiting /\ PeerGone
    /\ Finish("settle", "error")
    /\ UNCHANGED <<childVars, way, asks, clocks, book, ops, world>>

-----------------------------------------------------------------------------
(* Ending the child: _stop_child, _finish_child, _end_child, close. *)

SendStop ==
    /\ pp = "stop"
    /\ Send(asks) /\ asks' = "none"
    /\ pp' = "drain"
    /\ UNCHANGED <<replies, hungUp, child, main, threads, reading, device, alarm, tally,
                   ending, way, within, result, clocks, book, ops, world>>

\* The child ended, or had its grace, which an abort only shortens.
DrainedByExit ==
    /\ pp = "drain" /\ ~Alive
    /\ pp' = "end"
    /\ UNCHANGED <<childVars, way, within, asks, result, clocks, book, ops, world>>
Drained ==
    /\ pp = "drain"
    /\ pp' = "end"
    /\ UNCHANGED <<childVars, way, within, asks, result, clocks, book, ops, world>>

\* A kill is marked before it is sent.
MarkKill ==
    /\ pp = "end" /\ Alive
    /\ pp' = "kill"
    /\ killSent' = TRUE
    /\ UNCHANGED <<childVars, way, within, asks, result, clocks, known, live,
                   slipped, ops, world>>

\* The pipes are closed with the child, and what was known of its pass goes.
Forget ==
    /\ known' = FALSE /\ killSent' = FALSE /\ live' = FALSE
    /\ hungUp' = TRUE /\ cmds' = <<>> /\ replies' = <<>>
    /\ asks' = "none" /\ within' = "op"
    /\ onPage' = FALSE /\ records' = 0
    /\ route' = "feeder" /\ sheets' = 0 /\ fed' = 0 /\ rejected' = 0
    /\ pp' = IF way = "close" THEN "over" ELSE "idle"

Kill ==
    /\ pp = "kill"
    /\ IF Alive THEN Exits("killed") ELSE UNCHANGED <<child, main, held>>
    /\ Forget
    /\ UNCHANGED <<way, result, slipped, ops, world>>
Reap ==
    /\ pp = "end" /\ ~Alive
    /\ Forget
    /\ UNCHANGED <<child, main, held, way, result, slipped, ops, world>>

\* __exit__: the way out asks an idle child to exit, and finishes a cut kill.
CloseSession ==
    /\ pp = "idle"
    /\ way' = "close"
    /\ \/ /\ ~known
          /\ pp' = "over" /\ hungUp' = TRUE
          /\ result' = "closing"
          /\ UNCHANGED <<asks, within>>
       \/ /\ known /\ killSent
          /\ End("last", "closing")
          /\ UNCHANGED <<asks, hungUp>>
       \/ /\ known /\ ~killSent
          /\ StopWith("exit", "last", "closing")
          /\ UNCHANGED hungUp
    /\ UNCHANGED <<cmds, replies, child, main, threads, reading, device, alarm, tally,
                   ending, clocks, book, ops, world>>

-----------------------------------------------------------------------------
(* What reaches the session from outside it. *)

SetAbort ==
    /\ ~abort /\ pp # "over"
    /\ abort' = TRUE
    /\ UNCHANGED <<childVars, pp, way, within, asks, result, clocks, book, ops,
                   signals>>

\* Where an exception leads that no operation expects: _guarded's second
\* branch, the end of the child that was being ended, or out of the session.
UnwindsPlainly ==
    /\ pp \in {"wait", "sink", "stop", "drain", "end", "kill"}
    /\ result' = "signal"
    /\ IF way = "close" THEN pp' = "over" /\ hungUp' = TRUE
                       ELSE pp' = "idle" /\ UNCHANGED hungUp
    /\ UNCHANGED <<asks, within>>
Unwinds ==
    \/ /\ pp \in {"wait", "sink", "stop"} /\ within = "op"
       /\ StopWith("cancel", "last", "signal")
       /\ UNCHANGED hungUp
    \/ /\ pp = "stop" /\ within = "settle"
       /\ End("last", "signal") /\ UNCHANGED <<asks, hungUp>>
    \/ /\ pp = "drain"
       /\ End(within, "signal") /\ UNCHANGED <<asks, hungUp>>
    \/ /\ pp \in {"end", "kill"} /\ within = "op"
       /\ StopWith("cancel", "last", "signal")
       /\ UNCHANGED hungUp
    \/ /\ pp \in {"end", "kill"} /\ within = "settle"
       /\ End("last", "signal") /\ UNCHANGED <<asks, hungUp>>
    \/ /\ pp \in {"stop", "end", "kill"} /\ within = "last"
       /\ result' = "signal"
       /\ IF way = "close" THEN pp' = "over" /\ hungUp' = TRUE
                          ELSE pp' = "idle" /\ UNCHANGED hungUp
       /\ UNCHANGED <<asks, within>>

Interrupt ==
    /\ signals < MaxSignals
    /\ signals' = signals + 1
    /\ Unwinds
    /\ UNCHANGED <<cmds, replies, child, main, threads, reading, device, alarm, tally,
                   ending, way, clocks, book, ops, abort>>

\* Between the fork and the assignment to _child: nobody knows the child, and
\* its pipes close with the object that held them.
InterruptStart ==
    /\ pp = "start" /\ signals < MaxSignals
    /\ signals' = signals + 1
    /\ Ends("signal")
    /\ live' = FALSE
    /\ \/ UNCHANGED <<childVars, slipped>>
       \/ Forks(TRUE) /\ slipped' = TRUE
    /\ UNCHANGED <<way, within, asks, clocks, known, killSent, ops, abort>>

\* The process is killed outright; the kernel closes its pipes.
ProcessDies ==
    /\ pp # "over"
    /\ pp' = "over" /\ way' = "died"
    /\ hungUp' = TRUE
    /\ within' = "op" /\ asks' = "none" /\ result' = "none"
    /\ records' = 0 /\ known' = FALSE /\ live' = FALSE /\ killSent' = FALSE
    /\ onPage' = FALSE
    /\ UNCHANGED <<cmds, replies, child, main, threads, reading, device, alarm, tally,
                   ending, slipped, ops, world>>

SessionStep ==
    \/ AskScan \/ AskRestart \/ StartChild \/ StartFails \/ StageNoted \/ GotReady
    \/ GotAnswer \/ GotFatal \/ GotPage \/ Spool \/ SpoolFails \/ Aborted \/ ChildGone
    \/ SendStop \/ MarkKill \/ Kill \/ Reap

Next ==
    \/ SessionStep \/ Deadline \/ Drained \/ CloseSession
    \/ SetAbort \/ Interrupt \/ InterruptStart \/ ProcessDies
    \/ ChildStep /\ UNCHANGED parentVars

\* Calls that the device may hold up for ever.
Stuck == InSane \/ control = "in cancel"

\* The interpreters run; deadlines, graces and alarms pass; no call of SANE
\* need ever return.
Fairness ==
    /\ WF_vars(SessionStep \/ Deadline \/ Drained \/ CloseSession)
    /\ WF_vars(MainStep /\ ~InSane /\ UNCHANGED parentVars)
    /\ WF_vars((ControlStep \/ GraceExpires) /\ UNCHANGED parentVars)

AlarmWorks == WF_vars(Stuck /\ Alarm /\ UNCHANGED parentVars)

Spec == Init /\ [][Next]_vars /\ Fairness

-----------------------------------------------------------------------------
(* Properties *)

\* A SANE call is never made without the alarm that cuts it, nor is a child
\* that only waits for saneless under one.
SaneIsTimed ==
    Alive => /\ Stuck => alarm
             /\ main \in {"idle", "await"} => ~alarm

\* A cancel that was asked for reaches the call that is blocking the pass, and
\* never a handle that was closed meanwhile.
CancelFindsTheHandle ==
    Alive => /\ cancelled /\ main \in {"in start", "in snap"} =>
                    device = "cancelled" \/ control \in {"cancel", "in cancel"}
             /\ control = "in cancel" => device # "closed"

\* A call that blocks in the scanner library can always be cut short: by its
\* alarm, and by the cancel that was asked for (scan_session.py:1560).
CallsCanBeCut == SaneIsTimed /\ CancelFindsTheHandle

\* No sheet moves before every page fed so far is spooled, and a pass that is
\* returned as whole took every sheet of the feeder, or as many as the cap.
PagesAreCounted ==
    /\ Alive /\ known /\ main \in {"before start", "in start"} =>
            records = fed - rejected
    /\ pp = "idle" /\ result = "batch" =>
            /\ records = fed - rejected
            /\ IF route = "flatbed" THEN fed = 1 ELSE sheets = 0 \/ fed = Cap

\* A child is never out of the session's hands: the live event covers its
\* life, one signal during an operation ends it, and so does closing the
\* session.  Only a signal in the fork's own window,
\* or in the way out itself, leaves one behind.
ChildIsAccountedFor ==
    /\ Alive /\ pp # "over" /\ ~slipped => live /\ known
    /\ pp = "idle" /\ ~known => ~live
    /\ pp = "idle" /\ result = "signal" /\ signals = 1 => ~Alive \/ slipped
    /\ pp = "over" /\ way = "close" /\ result # "signal" => ~Alive \/ slipped

\* An operation ends whatever the child and its device do, even where a back
\* end has taken the alarm away.
OperationEnds == (pp \notin {"idle", "over"}) ~> (pp \in {"idle", "over"})

\* While the alarm works, no scanning process outlives the session, or a
\* saneless that was killed, for ever.
ChildEnds == AlarmWorks => ((pp = "over") ~> ~Alive)

\* Scanning ends: the operation in saneless, and the process it started.
ScanningEnds == OperationEnds /\ ChildEnds
=============================================================================
