--------------------------- MODULE CheckRefresher ---------------------------
(***************************************************************************)
(* The thread that keeps the status strip's cache warm (web/refresher.py), *)
(* the clicks that ask it for a probe (POST /api/checks/refresh and the    *)
(* polls that follow), the strip they render, and the server's stop.       *)
(*                                                                         *)
(* Every critical section of _changed is one step, but request_probe's:    *)
(* the probe lock it looks at is taken outside _changed, so its check and  *)
(* its count are two.  Probes are numbered as they start; what they find   *)
(* is only whether the stop cut them short.  The click's rate floor is     *)
(* MinimumInterval: here a click may be refused by it.                     *)
(***************************************************************************)
EXTENDS Integers

CONSTANTS
    Clicks,         \* request threads, each one press of the button
    Nobody,         \* nobody is inside request_probe
    PollCap, ProbePollCap,  \* POLL_ATTEMPT_CAP, POLL_PROBE_ATTEMPT_CAP
    MaxProbes       \* bound: from this many on, no tick starts a probe

ASSUME CheckRefresherAssumption ==
    /\ Nobody \notin Clicks
    /\ PollCap \in Nat /\ ProbePollCap \in Nat /\ PollCap <= ProbePollCap
    /\ MaxProbes \in Nat

VARIABLES
    requested, completed,   \* the two counters under _changed
    inRequest,      \* the click inside _changed, between its check and its count
    probeLock,      \* whether _probe_lock is held
    noticed, stopSet,       \* _StopEvent: the signal's store, the event proper
    loop,           \* where the refresher thread is
    owed, serving,  \* its locals: a request is owed; the requests it serves
    found,          \* what run_checks came to
    watched, fresh, \* someone looked within the window; the entry is within its TTL
    entry,          \* the cache: cold, or what the last stored run came to
    lifespan,       \* the shutdown: serving, joining, closed, left open
    cpc, ticket, reply, attempt,    \* clicks: step, ticket, ManualProbe, poll
    busy, seenRequested,    \* a render's locals: in flight; _requested as read
    begun, past,    \* history: probes started; the last one beyond its store
    need            \* history: the probe whose outcome each click is owed

counters == <<requested, completed, inRequest, probeLock>>
stopping == <<noticed, stopSet, lifespan>>
thread == <<loop, owed, serving, found>>
cache == <<watched, fresh, entry>>
request == <<ticket, reply, need>>
render == <<attempt, busy, seenRequested>>
history == <<begun, past>>
vars == <<counters, stopping, thread, cache, cpc, request, render, history>>

Stopping == noticed \/ stopSet
InFlight == {"serve", "check", "checked", "store", "release"}
LoopPlaces == {"top", "asleep", "awake", "tick", "watched", "probe", "complete", "gone"}
              \cup InFlight
ClickPlaces == {"out", "request", "count", "woken", "waiting", "render", "readRequested",
                "readCompleted", "readCache", "polling", "capped", "settled"}

Init ==
    /\ requested = 0 /\ completed = 0 /\ inRequest = Nobody /\ probeLock = FALSE
    /\ noticed = FALSE /\ stopSet = FALSE /\ lifespan = "serving"
    /\ loop = "top" /\ owed = FALSE /\ serving = 0 /\ found = "nothing"
    /\ watched = FALSE /\ fresh = FALSE /\ entry = "cold"
    /\ cpc = [c \in Clicks |-> "out"] /\ ticket = [c \in Clicks |-> 0]
    /\ reply = [c \in Clicks |-> "none"] /\ attempt = [c \in Clicks |-> 0]
    /\ busy = [c \in Clicks |-> FALSE] /\ seenRequested = [c \in Clicks |-> 0]
    /\ begun = 0 /\ past = 0
    /\ need = [c \in Clicks |-> 0]

Enter == inRequest = Nobody
Loop(from, to) == loop = from /\ loop' = to
Click(c, from, to) == cpc[c] = from /\ cpc' = [cpc EXCEPT ![c] = to]

\* notify_all: every sleeper in wait_for looks at its predicate again.
WokenLoop == IF loop = "asleep" THEN "top" ELSE loop
WokenClicks(pcs) == [c \in Clicks |-> IF pcs[c] = "waiting" THEN "woken" ELSE pcs[c]]

-----------------------------------------------------------------------------
(* The refresher thread: _run, _tick, _probe_and_store. *)

Woken == Stopping \/ requested > completed

\* wait_for looks at its predicate before it sleeps.
Look ==
    /\ Enter
    /\ IF Woken THEN Loop("top", "awake") ELSE Loop("top", "asleep")
    /\ owed' = (requested > completed)
    /\ UNCHANGED <<counters, stopping, serving, found, cache, cpc, request, render, history>>

\* TICK_SECONDS pass.
TickPasses ==
    /\ Enter /\ Loop("asleep", "awake") /\ owed' = (requested > completed)
    /\ UNCHANGED <<counters, stopping, serving, found, cache, cpc, request, render, history>>

LeaveWhenSet ==
    /\ Enter /\ Loop("awake", "gone") /\ stopSet /\ cpc' = WokenClicks(cpc)
    /\ UNCHANGED <<counters, stopping, owed, serving, found, cache, request, render, history>>
LeaveQuietly ==
    /\ Loop("awake", "gone") /\ Stopping
    /\ UNCHANGED <<counters, stopping, owed, serving, found, cache, cpc, request, render, history>>
\* A noticed stop has woken nobody: it becomes a full stop here.
Leave ==
    /\ Enter /\ Loop("awake", "gone") /\ Stopping
    /\ stopSet' = TRUE /\ cpc' = WokenClicks(cpc)
    /\ UNCHANGED <<counters, noticed, lifespan, owed, serving, found, cache, request, render, history>>

Decide ==
    /\ ~Stopping /\ owed' = FALSE
    /\ \/ owed /\ Loop("awake", "probe")
       \/ ~owed /\ Loop("awake", "tick")
    /\ UNCHANGED <<counters, stopping, serving, found, cache, cpc, request, render, history>>

TickDue ==
    /\ IF watched THEN Loop("tick", "watched") ELSE Loop("tick", "top")
    /\ UNCHANGED <<counters, stopping, owed, serving, found, cache, cpc, request, render, history>>

TickStale ==
    /\ IF ~fresh /\ begun < MaxProbes THEN Loop("watched", "probe") ELSE Loop("watched", "top")
    /\ UNCHANGED <<counters, stopping, owed, serving, found, cache, cpc, request, render, history>>

\* Only this thread probes, so the lock is always free here.
TakeProbeLock ==
    /\ Loop("probe", "serve") /\ ~probeLock /\ probeLock' = TRUE
    /\ UNCHANGED <<requested, completed, inRequest, stopping, owed, serving, found,
                   cache, cpc, request, render, history>>

ReadServing ==
    /\ Enter /\ Loop("serve", "check")
    /\ serving' = requested /\ begun' = begun + 1
    /\ UNCHANGED <<counters, stopping, owed, found, cache, cpc, request, render, past>>

\* run_checks, or building its context, raises; or the abort cuts it short; or
\* every check runs, though a stop may have landed since the last one looked.
RunChecks ==
    /\ loop = "check"
    /\ \/ loop' = "release" /\ past' = begun /\ UNCHANGED found
       \/ Stopping /\ loop' = "checked" /\ found' = "part" /\ UNCHANGED past
       \/ loop' = "checked" /\ found' = "whole" /\ UNCHANGED past
    /\ UNCHANGED <<counters, stopping, owed, serving, cache, cpc, request, render, begun>>

StoreWhatever ==
    /\ Loop("checked", "store")
    /\ UNCHANGED <<counters, stopping, owed, serving, found, cache, cpc, request, render, history>>
\* A run the stop cut short holds only part of the checks.
MayStore ==
    /\ \/ ~Stopping /\ Loop("checked", "store") /\ UNCHANGED past
       \/ Stopping /\ Loop("checked", "release") /\ past' = begun
    /\ found' = (IF Stopping THEN "nothing" ELSE found)
    /\ UNCHANGED <<counters, stopping, owed, serving, cache, cpc, request, render, begun>>

\* CheckCache.store rebinds the entry whole, or raises and keeps the last.
Store ==
    /\ Loop("store", "release") /\ past' = begun /\ found' = "nothing"
    /\ \/ entry' = found /\ fresh' = TRUE
       \/ UNCHANGED <<entry, fresh>>
    /\ UNCHANGED <<counters, stopping, owed, serving, watched, cpc, request, render, begun>>

ReleaseProbeLock ==
    /\ Loop("release", "complete") /\ probeLock' = FALSE
    /\ UNCHANGED <<requested, completed, inRequest, stopping, owed, serving, found,
                   cache, cpc, request, render, history>>

\* The finally's second half: what was requested before the probe is served,
\* whatever the probe came to.
Marking(upTo) ==
    /\ Enter /\ Loop("complete", "top")
    /\ completed' = (IF completed < upTo THEN upTo ELSE completed)
    /\ serving' = 0
    /\ UNCHANGED <<requested, inRequest, probeLock, stopping, owed, found,
                   cache, request, render, history>>
CompleteAll == Marking(requested) /\ cpc' = WokenClicks(cpc)
Complete == Marking(serving) /\ cpc' = WokenClicks(cpc)

Refresher ==
    \/ Look \/ TickPasses \/ Leave \/ Decide \/ TickDue \/ TickStale
    \/ TakeProbeLock \/ ReadServing \/ RunChecks \/ MayStore \/ Store
    \/ ReleaseProbeLock \/ Complete

-----------------------------------------------------------------------------
(* A click: refresh_checks and request_probe. *)

\* The manual floor grants the click or refuses it: a refused one only renders.
Press(c) ==
    /\ \/ Click(c, "out", "request")
       \/ Click(c, "out", "render")
    /\ watched' = TRUE
    /\ UNCHANGED <<counters, stopping, thread, fresh, entry, request, render, history>>

Reply(c, what) ==
    /\ cpc' = [cpc EXCEPT ![c] = "render"] /\ reply' = [reply EXCEPT ![c] = what]

\* The probe whose lock is held, started or about to.
ProbeOfTheLock == IF loop = "serve" THEN begun + 1 ELSE begun

CheckRequest(c) ==
    /\ Enter /\ cpc[c] = "request"
    /\ \/ Stopping /\ Reply(c, "PENDING") /\ UNCHANGED <<inRequest, need>>
       \/ /\ ~Stopping /\ probeLock /\ Reply(c, "COLLAPSED")
          /\ need' = [need EXCEPT ![c] = ProbeOfTheLock] /\ UNCHANGED inRequest
       \/ /\ ~Stopping /\ ~probeLock /\ inRequest' = c
          /\ Click(c, "request", "count") /\ UNCHANGED <<reply, need>>
    /\ UNCHANGED <<requested, completed, probeLock, stopping, thread, cache, ticket,
                   render, history>>

CountRequest(c) ==
    /\ inRequest = c /\ inRequest' = Nobody
    /\ requested' = requested + 1 /\ ticket' = [ticket EXCEPT ![c] = requested + 1]
    /\ loop' = WokenLoop
    /\ cpc' = WokenClicks([cpc EXCEPT ![c] = "woken"])
    /\ need' = [need EXCEPT ![c] = begun + 1]
    /\ UNCHANGED <<completed, probeLock, stopping, owed, serving, found, cache, reply,
                   render, history>>

Answer(c) ==
    /\ \/ completed >= ticket[c] /\ Reply(c, "DONE")
       \/ completed < ticket[c] /\ Reply(c, "PENDING")
    /\ UNCHANGED <<counters, stopping, thread, cache, ticket, need, render, history>>

\* wait_for's predicate, before it sleeps and whenever it is woken.
Recheck(c) ==
    /\ Enter /\ cpc[c] = "woken"
    /\ \/ (completed >= ticket[c] \/ Stopping) /\ Answer(c)
       \/ /\ completed < ticket[c] /\ ~Stopping /\ Click(c, "woken", "waiting")
          /\ UNCHANGED <<counters, stopping, thread, cache, request, render, history>>

\* CHECK_AGAIN_WAIT_SECONDS pass first.
WaitEnds(c) == Enter /\ cpc[c] = "waiting" /\ Answer(c)

-----------------------------------------------------------------------------
(* The strip: checks_context, with probe_in_flight's reads one by one. *)

ReadProbeLock(c) ==
    /\ cpc[c] = "render" /\ busy' = [busy EXCEPT ![c] = probeLock]
    /\ cpc' = [cpc EXCEPT ![c] = IF probeLock THEN "readCache" ELSE "readRequested"]
    /\ UNCHANGED <<counters, stopping, thread, cache, request, attempt, seenRequested,
                   history>>

ReadRequested(c) ==
    /\ Click(c, "readRequested", "readCompleted")
    /\ seenRequested' = [seenRequested EXCEPT ![c] = requested]
    /\ UNCHANGED <<counters, stopping, thread, cache, request, attempt, busy, history>>

ReadCompleted(c) ==
    /\ Click(c, "readCompleted", "readCache")
    /\ busy' = [busy EXCEPT ![c] = seenRequested[c] > completed]
    /\ seenRequested' = [seenRequested EXCEPT ![c] = 0]
    /\ UNCHANGED <<counters, stopping, thread, cache, request, attempt, history>>

\* The chain asks again while the cache is cold or a probe is in flight.
Cap(c) == IF busy[c] THEN ProbePollCap ELSE PollCap
AsksWhileCold(c) == entry = "cold"
KeepAsking(c) == entry = "cold" \/ busy[c]

ReadCache(c) ==
    /\ cpc[c] = "readCache" /\ busy' = [busy EXCEPT ![c] = FALSE]
    /\ \/ KeepAsking(c) /\ attempt[c] < Cap(c) /\ Click(c, "readCache", "polling")
          /\ attempt' = [attempt EXCEPT ![c] = @ + 1]
       \/ KeepAsking(c) /\ attempt[c] >= Cap(c) /\ Click(c, "readCache", "capped")
          /\ UNCHANGED attempt
       \/ ~KeepAsking(c) /\ Click(c, "readCache", "settled") /\ UNCHANGED attempt
    /\ UNCHANGED <<counters, stopping, thread, cache, request, seenRequested, history>>

\* The browser asks again, which is a watcher too.
Poll(c) ==
    /\ Click(c, "polling", "render") /\ watched' = TRUE
    /\ UNCHANGED <<counters, stopping, thread, fresh, entry, request, render, history>>

-----------------------------------------------------------------------------
(* The stop, and time. *)

\* A signal: one attribute store, no lock.
NoteStop ==
    /\ ~noticed /\ noticed' = TRUE
    /\ UNCHANGED <<counters, stopSet, lifespan, thread, cache, cpc, request, render, history>>

RequestStop ==
    /\ Enter /\ lifespan = "serving" /\ lifespan' = "joining"
    /\ stopSet' = TRUE /\ loop' = WokenLoop /\ cpc' = WokenClicks(cpc)
    /\ UNCHANGED <<counters, noticed, owed, serving, found, cache, request, render, history>>

CloseAnyway ==
    /\ lifespan = "joining" /\ lifespan' = "closed"
    /\ UNCHANGED <<counters, noticed, stopSet, thread, cache, cpc, request, render, history>>
\* The join ends with the thread, or when its budget is spent: then, or when the
\* scan worker has not stopped, the client and the scanner are left open.
JoinEnds ==
    /\ lifespan = "joining"
    /\ \/ loop = "gone" /\ lifespan' = "closed"
       \/ lifespan' = "leftOpen"
    /\ UNCHANGED <<counters, noticed, stopSet, thread, cache, cpc, request, render, history>>

Expire ==
    /\ fresh /\ fresh' = FALSE
    /\ UNCHANGED <<counters, stopping, thread, watched, entry, cpc, request, render, history>>

WatchLapses ==
    /\ watched /\ watched' = FALSE
    /\ UNCHANGED <<counters, stopping, thread, fresh, entry, cpc, request, render, history>>

Ask(c) == CheckRequest(c) \/ CountRequest(c) \/ Recheck(c)
Show(c) == ReadProbeLock(c) \/ ReadRequested(c) \/ ReadCompleted(c) \/ ReadCache(c)

Next ==
    \/ Refresher
    \/ \E c \in Clicks : Press(c) \/ Ask(c) \/ WaitEnds(c) \/ Show(c) \/ Poll(c)
    \/ NoteStop \/ RequestStop \/ JoinEnds \/ Expire \/ WatchLapses

Spec == Init /\ [][Next]_vars

\* Both kinds of thread run; a tick's timer fires and a check's own budgets end
\* it.  No click's wait has to time out, nobody has to press, poll or stop.
FairSpec ==
    /\ Spec
    /\ WF_vars(Refresher)
    /\ \A c \in Clicks : WF_vars(Ask(c))
-----------------------------------------------------------------------------
ThreadTypes ==
    /\ requested \in Nat /\ completed \in Nat
    /\ inRequest \in Clicks \cup {Nobody} /\ probeLock \in BOOLEAN
    /\ noticed \in BOOLEAN /\ stopSet \in BOOLEAN
    /\ lifespan \in {"serving", "joining", "closed", "leftOpen"}
    /\ loop \in LoopPlaces
    /\ owed \in BOOLEAN /\ serving \in Nat /\ found \in {"nothing", "part", "whole"}
    /\ watched \in BOOLEAN /\ fresh \in BOOLEAN /\ entry \in {"cold", "part", "whole"}
    /\ begun \in Nat /\ past \in Nat
ClickTypes ==
    /\ cpc \in [Clicks -> ClickPlaces] /\ ticket \in [Clicks -> Nat]
    /\ reply \in [Clicks -> {"none", "COLLAPSED", "DONE", "PENDING"}]
    /\ attempt \in [Clicks -> 0..ProbePollCap]
    /\ busy \in [Clicks -> BOOLEAN] /\ seenRequested \in [Clicks -> Nat]
    /\ need \in [Clicks -> Nat]
TypeOK == ThreadTypes /\ ClickTypes

\* DONE means a probe that started after the request was counted has come to
\* its end (refresher.py:48), never one that was already looking at the scanner.
DoneIsAnswered ==
    [][\A c \in Clicks : reply[c] # "DONE" /\ reply'[c] = "DONE" => past >= need[c]]_vars

\* A strip that stops asking has read the cache after the probe its click asked
\* for, or collapsed into, was past its store: no result is left uncollected.
SettledStripIsNew ==
    [][\A c \in Clicks :
        cpc[c] # "settled" /\ cpc'[c] = "settled" => past >= need[c]]_vars

\* A click gets the probe it asked for, whether it waits for the answer or its
\* page polls for it (refresher.py:326, strip_view.py:149).
ClicksGetTheirProbe == DoneIsAnswered /\ SettledStripIsNew

\* Only whole runs are stored, though a stop may land at any step.
StoredIsWhole == entry # "part"

\* Requests are served, and once: those owed are never more than were counted,
\* and no more probes start for requests than requests were made.
OwedIsReal ==
    /\ completed <= requested
    /\ loop = "complete" \/ loop \in InFlight \ {"serve"} => serving <= requested
    /\ owed => requested > completed

\* The client and the scanner are closed only behind the last probe.
ClosedBehindProbes == lifespan = "closed" => loop = "gone" /\ ~probeLock

\* A stop at any step leaves neither a cut-short run in the cache nor a probe
\* behind a closed client (refresher.py:374, app.py:217).
StopsAreClean == StoredIsWhole /\ ClosedBehindProbes

\* The inductive invariant behind the two action properties: the lock and the
\* numbers follow the thread, the counters are ordered, and what a click is owed
\* is still ahead of it only while a counter or the lock still says so.
Serving == loop \in {"check", "checked", "store", "release", "complete"}
LockFollowsThread == probeLock <=> loop \in InFlight
PastFollowsThread == past <= begun /\ (loop \notin {"check", "checked", "store"} => past = begun)
OneInside == \A c \in Clicks : inRequest = c <=> cpc[c] = "count"
StoresWhole ==
    /\ loop = "checked" => found \in {"part", "whole"}
    /\ loop = "store" => found = "whole"
    /\ found = "part" => Stopping
    /\ entry # "part"
CountersOrdered == completed <= requested /\ (Serving => serving <= requested)
TicketServed(c) ==
    /\ ticket[c] <= requested /\ need[c] <= begun + 1
    /\ ticket[c] = 0 /\ loop # "serve" => need[c] <= begun
    /\ ticket[c] # 0 /\ ticket[c] <= completed => need[c] <= past
    /\ ticket[c] # 0 /\ Serving /\ ticket[c] <= serving => need[c] <= begun
    /\ cpc[c] \in {"out", "request", "count"} => ticket[c] = 0 /\ need[c] = 0
    /\ cpc[c] \in {"woken", "waiting"} => ticket[c] # 0
TicketsServed == \A c \in Clicks : TicketServed(c)
RenderCurrent(c) ==
    /\ cpc[c] \in {"readRequested", "readCompleted"} /\ ticket[c] = 0 => need[c] <= past
    /\ cpc[c] = "readCompleted" => ticket[c] <= seenRequested[c]
    /\ cpc[c] = "readCache" /\ ~busy[c] => need[c] <= past
RendersCurrent == \A c \in Clicks : RenderCurrent(c)
RefresherInv ==
    /\ TypeOK /\ LockFollowsThread /\ PastFollowsThread /\ OneInside
    /\ StoresWhole /\ CountersOrdered /\ TicketsServed /\ RendersCurrent

\* Every click is answered though its own wait never times out: by a probe,
\* whatever it came to, or by the stop, though a noticed one wakes nobody.
EveryClickAnswered ==
    \A c \in Clicks : cpc[c] \in {"request", "count", "woken", "waiting"} ~> reply[c] # "none"

\* A stop, even one only noticed, ends the thread.
StopEndsThread == Stopping ~> loop = "gone"

\* Neither a click nor a stop waits for ever on the refresher thread.
NobodyWaitsForEver == EveryClickAnswered /\ StopEndsThread
=============================================================================
