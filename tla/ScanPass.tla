------------------------------ MODULE ScanPass ------------------------------
(***************************************************************************)
(* The child process of a scan session (_scan_child.py, scan_session.py):  *)
(* a main thread that makes every SANE call, and a control thread that     *)
(* reads the commands and may cancel the handle the main thread is reading *)
(* from.  The pipes to and from the parent are lossless queues.            *)
(*                                                                         *)
(* A SANE call is a state of its own that the device may leave late, with  *)
(* an error, or never.  Options, geometry, pixels and log lines are left   *)
(* out; of the stage frames only those that move the parent's clock are    *)
(* sent.  Time is left out: an armed alarm may fire at any step.           *)
(***************************************************************************)
EXTENDS Naturals, Sequences

CONSTANTS
    Sheets,  \* bound: the most sheets in the feeder when a pass begins
    Cap      \* the feed's page cap

ASSUME PassAssumption == Sheets \in Nat /\ Cap \in Nat \ {0}

VARIABLES
    cmds, replies,   \* the pipes
    hungUp,          \* the parent has closed its ends, or is gone
    child,           \* "none", "alive", or how it ended
    main,            \* where the main thread is
    control,         \* where the control thread is
    items,           \* commands handed to the main thread
    pending,         \* the command the control thread is handling
    cancelled,       \* _Control.cancelled
    reading,         \* the handle the control thread may cancel is published
    device,          \* the handle: "closed", "open", or "cancelled" in a call
    alarm,           \* an alarm is armed
    route,           \* "feeder" or "flatbed"
    sheets,          \* sheets still in the feeder
    fed, rejected,   \* _FeedTally
    ending           \* how the pass is going to end

pipes == <<cmds, replies, hungUp>>
threads == <<control, items, pending, cancelled>>
tally == <<route, sheets, fed, rejected>>
childVars == <<pipes, child, main, threads, reading, device, alarm, tally, ending>>

ChildInit ==
    /\ cmds = <<>> /\ replies = <<>> /\ hungUp = FALSE
    /\ child = "none" /\ main = "none" /\ control = "none"
    /\ items = <<>> /\ pending = "none" /\ cancelled = FALSE
    /\ reading = FALSE /\ device = "closed" /\ alarm = FALSE
    /\ route = "feeder" /\ sheets = 0 /\ fed = 0 /\ rejected = 0
    /\ ending = "none"

Alive == child = "alive"
\* Calls that hold the interpreter lock stop the control thread as well.
HoldsInterpreter == main \in {"init", "configure", "close", "restart"}

Goes(from, to) == Alive /\ main = from /\ main' = to
\* A write to a parent that has gone ends the child before its next step.
Says(frame) == replies' = IF hungUp THEN replies ELSE Append(replies, frame)
Silent == UNCHANGED replies
\* What a process held goes with it, whatever it was doing.
held == <<control, items, pending, cancelled, reading, device, alarm, ending>>
Exits(how) ==
    /\ child' = how /\ main' = "gone" /\ control' = "gone" /\ alarm' = FALSE
    /\ items' = <<>> /\ pending' = "none" /\ cancelled' = FALSE
    /\ reading' = FALSE /\ device' = "closed" /\ ending' = "none"

\* The control thread holds the handle's lock while it cancels.
Unlocked == control # "in cancel"
Publishes == Unlocked /\ reading' = TRUE
Withdraws == Unlocked /\ reading' = FALSE

-----------------------------------------------------------------------------
(* The main thread: start-up, and commands while idle. *)

Initialise ==
    /\ \/ /\ Goes("init", "idle")
          /\ Says("ready")
          /\ alarm' = FALSE /\ control' = "read"
          /\ UNCHANGED <<child, items, pending, cancelled, reading, device, ending>>
       \/ /\ Alive /\ main = "init"
          /\ Says("fatal")
          /\ Exits("failed")
    /\ UNCHANGED <<cmds, hungUp, tally>>

Restart ==
    /\ \/ /\ Goes("restart", "idle")
          /\ Says("restarted")
          /\ alarm' = FALSE
          /\ UNCHANGED <<child, threads, reading, device, ending>>
       \/ /\ Alive /\ main = "restart"
          /\ Says("fatal")
          /\ Exits("failed")
    /\ UNCHANGED <<cmds, hungUp, tally>>

TakeCommand ==
    /\ Alive /\ main = "idle" /\ items # <<>>
    /\ LET item == Head(items)
       IN  \/ /\ item = "scan"
              /\ main' = "open" /\ alarm' = TRUE
              /\ fed' = 0 /\ rejected' = 0 /\ sheets' \in 0 .. Sheets
              /\ items' = Tail(items)
              /\ Silent
              /\ UNCHANGED <<child, control, pending, cancelled, reading, device, ending>>
           \/ /\ item = "restart"
              /\ main' = "restart" /\ alarm' = TRUE
              /\ items' = Tail(items)
              /\ Silent
              /\ UNCHANGED <<child, control, pending, cancelled, reading, device, ending,
                             sheets, fed, rejected>>
           \/ /\ item \in {"exit", "stop", "cancel"}
              /\ Says("bye") /\ Exits("ended")
              /\ UNCHANGED <<sheets, fed, rejected>>
           \/ /\ item = "end"
              /\ Silent /\ Exits("ended")
              /\ UNCHANGED <<sheets, fed, rejected>>
           \/ /\ item = "spooled"
              /\ Silent /\ Exits("failed")
              /\ UNCHANGED <<sheets, fed, rejected>>
    /\ UNCHANGED <<cmds, hungUp, route>>

-----------------------------------------------------------------------------
(* run_pass *)

Open ==
    /\ \/ Goes("open", "configure") /\ device' = "open" /\ Silent /\ UNCHANGED alarm
       \/ /\ Goes("open", "idle")
          /\ Says("error") /\ alarm' = FALSE
          /\ UNCHANGED device
    /\ UNCHANGED <<cmds, hungUp, child, threads, reading, tally, ending>>

\* Options, source, geometry and parameters; any of them may refuse the pass.
Configure ==
    /\ \/ /\ Goes("configure", "feed")
          /\ route' \in {"feeder", "flatbed"}
          /\ UNCHANGED ending
       \/ /\ Goes("configure", "leave")
          /\ ending' \in {"error", "fatal"}
          /\ UNCHANGED route
    /\ Silent
    /\ UNCHANGED <<cmds, hungUp, child, threads, reading, device, alarm, sheets, fed,
                   rejected>>

Stops == ending' = "stopped" /\ main' = "leave"

\* _feed, _snap_one: the next sheet, unless a cancel was asked for.
NextSheet ==
    /\ Alive /\ main = "feed"
    /\ \/ cancelled /\ Stops /\ Silent /\ UNCHANGED <<alarm, reading>>
       \/ /\ ~cancelled
          /\ Says("start") /\ alarm' = TRUE
          /\ Publishes
          /\ main' = "before start"
          /\ UNCHANGED ending
    /\ UNCHANGED <<cmds, hungUp, child, threads, device, tally>>

(* _read_sheet: a cancel that found no handle published is found here. *)
NoCheck(from, to) ==
    /\ Goes(from, to)
    /\ UNCHANGED <<pipes, child, threads, reading, device, alarm, tally, ending>>
Check(from, to) ==
    /\ Alive /\ main = from
    /\ \/ cancelled /\ Withdraws /\ Stops
       \/ ~cancelled /\ main' = to /\ UNCHANGED <<reading, ending>>
    /\ UNCHANGED <<pipes, child, threads, device, alarm, tally>>

StartSheet == Check("before start", "in start")
SnapSheet == Check("before snap", "in snap")

\* dev.start returns: a sheet is on its way, or none is left, or it failed.
StartReturns ==
    /\ \/ /\ Goes("in start", "started")
          /\ route = "flatbed" \/ sheets > 0
          /\ sheets' = IF route = "flatbed" THEN sheets ELSE sheets - 1
          /\ UNCHANGED ending
       \/ /\ Goes("in start", "withdraw")
          /\ \/ ending' = "error"
             \/ /\ route = "feeder" /\ sheets = 0
                /\ ending' = IF fed > rejected THEN "done" ELSE "error"
          /\ UNCHANGED sheets
    /\ UNCHANGED <<pipes, child, threads, reading, device, alarm, route, fed,
                   rejected>>

\* _release_or_stop, then the handle published again for the read.
ReleaseOrStop ==
    /\ Alive /\ main = "started" /\ Unlocked
    /\ \/ cancelled /\ Stops /\ reading' = FALSE
       \/ ~cancelled /\ main' = "to read" /\ reading' = FALSE /\ UNCHANGED ending
    /\ UNCHANGED <<pipes, child, threads, device, alarm, tally>>
ReadStage ==
    /\ Goes("to read", "before snap")
    /\ Publishes
    /\ UNCHANGED <<pipes, child, threads, device, alarm, tally, ending>>

SnapReturns ==
    /\ \/ Goes("in snap", "snapped") /\ UNCHANGED ending
       \/ Goes("in snap", "withdraw") /\ ending' = "error"
    /\ UNCHANGED <<pipes, child, threads, reading, device, alarm, tally>>

\* A call that failed after a cancel was asked for is the cancel's doing.
Withdraw ==
    /\ Goes("withdraw", "leave")
    /\ Withdraws
    /\ ending' = IF cancelled THEN "stopped" ELSE ending
    /\ UNCHANGED <<pipes, child, threads, device, alarm, tally>>

(* The page: past the cap, unreadable, too large, or sent to be spooled, and
   then no sheet moves until saneless has it. *)
PageRead ==
    /\ Alive /\ main = "snapped"
    /\ Withdraws
    /\ \/ cancelled /\ Stops /\ Silent /\ UNCHANGED <<alarm, fed, rejected>>
       \/ /\ ~cancelled /\ route = "feeder" /\ fed >= Cap
          /\ ending' = IF fed > rejected THEN "capped" ELSE "error"
          /\ main' = "leave"
          /\ Silent /\ UNCHANGED <<alarm, fed, rejected>>
       \/ /\ ~cancelled /\ (route = "flatbed" \/ fed < Cap)
          /\ fed' = fed + 1
          /\ \/ /\ rejected' = rejected + 1
                /\ IF route = "feeder" THEN main' = "feed" /\ UNCHANGED ending
                                       ELSE main' = "leave" /\ ending' = "error"
                /\ Silent /\ UNCHANGED alarm
             \/ /\ alarm' = FALSE
                /\ \/ Says("page") /\ main' = "await" /\ UNCHANGED ending
                   \/ Silent /\ main' = "leave" /\ ending' = "error"
                /\ UNCHANGED rejected
    /\ UNCHANGED <<cmds, hungUp, child, threads, device, route, sheets>>

FeedOnUnspooled ==
    /\ Alive /\ main = "await"
    /\ IF items = <<>> THEN UNCHANGED items ELSE items' = Tail(items)
    /\ main' = IF route = "feeder" THEN "feed" ELSE "leave"
    /\ ending' = IF route = "feeder" THEN ending ELSE "done"
    /\ UNCHANGED <<pipes, child, control, pending, cancelled, reading, device, alarm,
                   tally>>
PageAnswered ==
    /\ Alive /\ main = "await" /\ items # <<>>
    /\ items' = Tail(items)
    /\ \/ Head(items) = "spooled" /\ route = "feeder" /\ main' = "feed" /\ UNCHANGED ending
       \/ Head(items) = "spooled" /\ route = "flatbed" /\ main' = "leave" /\ ending' = "done"
       \/ Head(items) # "spooled" /\ Stops
    /\ UNCHANGED <<pipes, child, control, pending, cancelled, reading, device, alarm,
                   tally>>

\* _opened's way out: the device is cancelled and closed whatever happened.
LeaveUntimed ==
    /\ Goes("leave", "close")
    /\ Says("cleanup")
    /\ UNCHANGED <<cmds, hungUp, child, threads, reading, device, alarm, tally, ending>>
Leave ==
    /\ Goes("leave", "close")
    /\ Says("cleanup") /\ alarm' = TRUE
    /\ UNCHANGED <<cmds, hungUp, child, threads, reading, device, tally, ending>>
Close ==
    /\ Goes("close", "report")
    /\ device' = "closed"
    /\ UNCHANGED <<pipes, child, threads, reading, alarm, tally, ending>>

Report ==
    /\ Alive /\ main = "report"
    /\ \/ /\ ending \in {"done", "capped", "error"}
          /\ Says(ending)
          /\ main' = "idle" /\ alarm' = FALSE /\ ending' = "none"
          /\ UNCHANGED <<child, threads, reading, device>>
       \/ ending = "fatal" /\ Says("fatal") /\ Exits("failed")
       \/ ending = "stopped" /\ Says("bye") /\ Exits("ended")
    /\ UNCHANGED <<cmds, hungUp, tally>>

MainStep ==
    \/ Initialise \/ Restart \/ TakeCommand \/ Open \/ Configure \/ NextSheet
    \/ StartSheet \/ SnapSheet \/ StartReturns \/ ReleaseOrStop \/ ReadStage
    \/ SnapReturns \/ Withdraw \/ PageRead \/ PageAnswered \/ Leave \/ Close
    \/ Report

\* Steps a device can hold up for ever.
InSane == main \in {"init", "restart", "open", "configure", "in start", "in snap",
                    "close"}

-----------------------------------------------------------------------------
(* The control thread, and what ends the process from outside it. *)

Runs == Alive /\ ~HoldsInterpreter

ReadCommand ==
    /\ Runs /\ control = "read" /\ cmds # <<>>
    /\ cmds' = Tail(cmds)
    /\ IF Head(cmds) = "cancel"
       THEN /\ cancelled' = TRUE
            /\ control' = "cancel" /\ pending' = "cancel"
            /\ UNCHANGED items
       ELSE items' = Append(items, Head(cmds)) /\ UNCHANGED <<cancelled, control, pending>>
    /\ UNCHANGED <<replies, hungUp, child, main, reading, device, alarm, tally, ending>>

GoneQuietly ==
    /\ Runs /\ control = "read" /\ cmds = <<>> /\ hungUp
    /\ cancelled' = TRUE
    /\ control' = "gone"
    /\ UNCHANGED <<pipes, child, main, items, pending, reading, device, alarm, tally, ending>>
ParentGone ==
    /\ Runs /\ control = "read" /\ cmds = <<>> /\ hungUp
    /\ cancelled' = TRUE
    /\ control' = "cancel" /\ pending' = "end"
    /\ UNCHANGED <<pipes, child, main, items, reading, device, alarm, tally, ending>>

\* Under the lock of the handle, so that it cannot be closed meanwhile.
CancelHandle ==
    /\ Runs /\ control = "cancel"
    /\ control' = IF reading THEN "in cancel" ELSE "cancel done"
    /\ UNCHANGED <<pipes, child, main, items, pending, cancelled, reading, device,
                   alarm, tally, ending>>
InCancel ==
    /\ Runs /\ control = "in cancel"
    /\ device' = "cancelled"
    /\ control' = "cancel done"
    /\ UNCHANGED <<pipes, child, main, items, pending, cancelled, reading, alarm,
                   tally, ending>>
HandOver ==
    /\ Runs /\ control = "cancel done"
    /\ items' = Append(items, pending)
    /\ control' = IF pending = "end" THEN "grace" ELSE "read"
    /\ UNCHANGED <<pipes, child, main, pending, cancelled, reading, device, alarm,
                   tally, ending>>

GraceExpires ==
    /\ Runs /\ control = "grace"
    /\ Exits("failed")
    /\ UNCHANGED <<pipes, tally>>

ControlStep == ReadCommand \/ ParentGone \/ CancelHandle \/ HandOver

\* SIGALRM, whose default action works inside a C call, or a back end's fault.
Alarm ==
    /\ Alive /\ alarm
    /\ Exits("signal")
    /\ UNCHANGED <<pipes, tally>>

\* Mid-page, in a SANE call or in the interpreter's own teardown.
Crash ==
    /\ Alive /\ (InSane \/ main = "await")
    /\ Exits("signal")
    /\ UNCHANGED <<pipes, tally>>

ChildStep == MainStep \/ ControlStep \/ InCancel \/ GraceExpires \/ Alarm \/ Crash
=============================================================================
