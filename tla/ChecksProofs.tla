----------------------------- MODULE ChecksProofs -----------------------------
(* The health checks: who starts them and reads what they found (CheckRefresher),
   and the scanner check itself with its listing child (ScannerCheck). *)
EXTENDS CheckRefresher, ScannerCheck, TLAPS

(***************************************************************************)
(* For any number of clicks, any poll caps and any number of probes: DONE  *)
(* is said only after a probe that started behind the request, and a strip *)
(* that stops asking has read the cache behind the probe it is owed.       *)
(***************************************************************************)

\* Nothing is asked, probed or shown at the start.
LEMMA InitRefresher == Init => RefresherInv
<1> SUFFICES ASSUME Init PROVE RefresherInv
  OBVIOUS
<1> USE CheckRefresherAssumption DEF Init
<1>1. ThreadTypes
  BY DEF ThreadTypes, LoopPlaces
<1>2. ClickTypes
  BY DEF ClickTypes, ClickPlaces
<1>3. LockFollowsThread /\ PastFollowsThread
  BY DEF LockFollowsThread, PastFollowsThread, InFlight
<1>4. OneInside /\ StoresWhole /\ CountersOrdered
  BY DEF OneInside, StoresWhole, CountersOrdered, Serving
<1>5. TicketsServed
  <2>1. \A d \in Clicks : ticket[d] = 0 /\ need[d] = 0 /\ cpc[d] = "out"
    OBVIOUS
  <2>2. requested = 0 /\ begun = 0
    OBVIOUS
  <2> HIDE DEF Init
  <2> QED
    BY <2>1, <2>2 DEF TicketsServed, TicketServed
<1>6. RendersCurrent
  BY DEF RendersCurrent, RenderCurrent
<1> QED
  BY <1>1, <1>2, <1>3, <1>4, <1>5, <1>6 DEF RefresherInv, TypeOK

-----------------------------------------------------------------------------
(* What the steps leave alone. *)

\* The thread wakes clicks and does nothing else to them.
LEMMA RefresherFrame ==
    ASSUME Refresher
    PROVE  UNCHANGED <<request, render>> /\ (cpc' = cpc \/ cpc' = WokenClicks(cpc))
  BY DEF Refresher, Look, TickPasses, Leave, Decide, TickDue, TickStale, TakeProbeLock,
         ReadServing, RunChecks, MayStore, Store, ReleaseProbeLock, Complete, Marking

\* A click wakes the thread, counts itself, and does nothing else to it.
LEMMA ClickFrame ==
    ASSUME NEW c \in Clicks, Press(c) \/ Ask(c) \/ WaitEnds(c) \/ Show(c) \/ Poll(c)
    PROVE  /\ UNCHANGED <<completed, probeLock, stopping, owed, serving, found, fresh,
                          entry, history>>
           /\ loop' = loop \/ loop' = WokenLoop
  BY DEF Press, Ask, CheckRequest, CountRequest, Recheck, Answer, WaitEnds, Show,
         ReadProbeLock, ReadRequested, ReadCompleted, ReadCache, Poll, counters, thread,
         cache

\* Waking clicks keeps their types.
LEMMA WokenClicksType ==
    ASSUME NEW pcs \in [Clicks -> ClickPlaces]
    PROVE  /\ WokenClicks(pcs) \in [Clicks -> ClickPlaces]
           /\ \A c \in Clicks : \/ WokenClicks(pcs)[c] = pcs[c]
                                \/ pcs[c] = "waiting" /\ WokenClicks(pcs)[c] = "woken"
  BY DEF WokenClicks, ClickPlaces

-----------------------------------------------------------------------------
(* Types. *)

\* The refresher's own steps keep its types.
LEMMA ThreadTypesOfRefresher ==
    ASSUME ThreadTypes, StoresWhole, Refresher PROVE ThreadTypes'
<1> USE DEF ThreadTypes, Loop, LoopPlaces, InFlight
<1>1. CASE Look
  BY <1>1 DEF Look, counters, stopping, cache, history
<1>t. CASE TickPasses
  BY <1>t DEF TickPasses, counters, stopping, cache, history
<1>2. CASE Leave
  BY <1>2 DEF Leave, counters, cache, history
<1>3. CASE Decide
  <2>1. loop' = "probe" \/ loop' = "tick"
    BY <1>3 DEF Decide
  <2>2. owed' = FALSE /\ UNCHANGED <<counters, stopping, serving, found, cache, history>>
    BY <1>3 DEF Decide
  <2>3. UNCHANGED <<requested, completed, inRequest, probeLock, noticed, stopSet,
                    lifespan, serving, found, watched, fresh, entry, begun, past>>
    BY <2>2 DEF counters, stopping, cache, history
  <2>4. owed' \in BOOLEAN
    BY <2>2
  <2> QED
    BY <2>1, <2>3, <2>4
<1>d. CASE TickDue
  BY <1>d DEF TickDue, counters, stopping, cache, history
<1>s. CASE TickStale
  BY <1>s DEF TickStale, counters, stopping, cache, history
<1>4. CASE TakeProbeLock
  BY <1>4 DEF TakeProbeLock, stopping, cache, history
<1>r. CASE ReleaseProbeLock
  <2>1. loop' = "complete" /\ probeLock' = FALSE
    BY <1>r DEF ReleaseProbeLock
  <2>2. UNCHANGED <<requested, completed, inRequest, noticed, stopSet, lifespan,
                    owed, serving, found, watched, fresh, entry, begun, past>>
    BY <1>r DEF ReleaseProbeLock, stopping, cache, history
  <2>3. loop' \in LoopPlaces /\ probeLock' \in BOOLEAN
    BY <2>1
  <2> QED
    BY <2>2, <2>3
<1>5. CASE ReadServing
  BY <1>5 DEF ReadServing, counters, stopping, cache
<1>6. CASE RunChecks \/ MayStore
  BY <1>6 DEF RunChecks, MayStore, counters, stopping, cache
<1>7. CASE Store
  <2>1. /\ loop' = "release" /\ past' = begun /\ found' = "nothing"
        /\ entry' \in {entry, "whole"} /\ fresh' \in {fresh, TRUE}
    BY <1>7 DEF Store, StoresWhole
  <2>2. UNCHANGED <<requested, completed, inRequest, probeLock, noticed, stopSet,
                    lifespan, owed, serving, watched, begun>>
    BY <1>7 DEF Store, counters, stopping
  <2>3. fresh' \in BOOLEAN
    BY <2>1
  <2>4. loop' \in LoopPlaces /\ found' \in {"nothing", "part", "whole"}
        /\ entry' \in {"cold", "part", "whole"} /\ past' \in Nat
    BY <2>1
  <2> QED
    BY <2>2, <2>3, <2>4
<1>8. CASE Complete
  BY <1>8 DEF Complete, Marking, stopping, cache, history
<1> QED
  BY <1>1, <1>t, <1>2, <1>3, <1>d, <1>s, <1>4, <1>r, <1>5, <1>6, <1>7, <1>8 DEF Refresher

\* The stop and time touch no counter, no request and no render.
Elsewhere == NoteStop \/ RequestStop \/ JoinEnds \/ Expire \/ WatchLapses

\* A click's step changes only that click and what clicks share.
LEMMA ElsewhereFrame ==
    ASSUME Elsewhere
    PROVE  /\ UNCHANGED <<counters, owed, serving, found, entry, request, render, history>>
           /\ loop' = loop \/ loop' = WokenLoop
           /\ cpc' = cpc \/ cpc' = WokenClicks(cpc)
  BY DEF Elsewhere, NoteStop, RequestStop, JoinEnds, Expire, WatchLapses, thread, cache

\* Every step is the refresher's, a click's, or one of the surroundings'.
LEMMA NextSplits ==
    ASSUME Next
    PROVE  \/ Refresher
           \/ \E c \in Clicks : Press(c) \/ Ask(c) \/ WaitEnds(c) \/ Show(c) \/ Poll(c)
           \/ Elsewhere
  BY DEF Next, Elsewhere

\* Waking the thread takes it to the top of its loop, and nowhere else.
LEMMA WokenLoopPlace ==
    ASSUME loop \in LoopPlaces, loop' = loop \/ loop' = WokenLoop
    PROVE  loop' = loop \/ (loop = "asleep" /\ loop' = "top")
  BY DEF WokenLoop

\* The types of the threads, through every step.
LEMMA ThreadTypesStep == RefresherInv /\ [Next]_vars => ThreadTypes'
<1> SUFFICES ASSUME RefresherInv, [Next]_vars PROVE ThreadTypes'
  OBVIOUS
<1>t. ThreadTypes /\ StoresWhole
  BY DEF RefresherInv, TypeOK
<1>1. CASE Refresher
  BY <1>1, <1>t, ThreadTypesOfRefresher
<1>2. ASSUME NEW c \in Clicks, Press(c) \/ Ask(c) \/ WaitEnds(c) \/ Show(c) \/ Poll(c)
      PROVE  ThreadTypes'
  <2>1. /\ UNCHANGED <<completed, probeLock, noticed, stopSet, lifespan, owed, serving,
                       found, fresh, entry, begun, past>>
        /\ loop' = loop \/ loop' = WokenLoop
    BY <1>2, ClickFrame DEF stopping, history
  <2>2. loop' \in LoopPlaces
    BY <2>1, <1>t, WokenLoopPlace DEF ThreadTypes, LoopPlaces
  <2>3. requested' \in Nat
    BY <1>2, <1>t DEF ThreadTypes, Press, Ask, CheckRequest, CountRequest, Recheck, Answer,
           WaitEnds, Show, ReadProbeLock, ReadRequested, ReadCompleted, ReadCache, Poll,
           counters
  <2>4. inRequest' \in Clicks \cup {Nobody}
    BY <1>2, <1>t DEF ThreadTypes, Press, Ask, CheckRequest, CountRequest, Recheck, Answer,
           WaitEnds, Show, ReadProbeLock, ReadRequested, ReadCompleted, ReadCache, Poll,
           counters
  <2>5. watched' = watched \/ watched' = TRUE
    BY <1>2 DEF Press, Ask, CheckRequest, CountRequest, Recheck, Answer,
           WaitEnds, Show, ReadProbeLock, ReadRequested, ReadCompleted, ReadCache, Poll,
           cache
  <2> QED
    <3>1. watched' \in BOOLEAN
      BY <2>5, <1>t DEF ThreadTypes
    <3>2. /\ completed' \in Nat /\ probeLock' \in BOOLEAN
          /\ noticed' \in BOOLEAN /\ stopSet' \in BOOLEAN
          /\ lifespan' \in {"serving", "joining", "closed", "leftOpen"}
          /\ owed' \in BOOLEAN /\ serving' \in Nat
          /\ found' \in {"nothing", "part", "whole"} /\ fresh' \in BOOLEAN
          /\ entry' \in {"cold", "part", "whole"} /\ begun' \in Nat /\ past' \in Nat
      BY <2>1, <1>t DEF ThreadTypes
    <3> QED
      BY <2>2, <2>3, <2>4, <3>1, <3>2 DEF ThreadTypes
<1>3. CASE Elsewhere
  <2>1. /\ UNCHANGED <<requested, completed, inRequest, probeLock, owed, serving, found,
                       entry, begun, past>>
        /\ loop' = loop \/ loop' = WokenLoop
    BY <1>3, ElsewhereFrame DEF counters, history
  <2>2. loop' \in LoopPlaces
    BY <2>1, <1>t, WokenLoopPlace DEF ThreadTypes, LoopPlaces
  <2>3. /\ noticed' \in BOOLEAN /\ stopSet' \in BOOLEAN
        /\ lifespan' \in {"serving", "joining", "closed", "leftOpen"}
    BY <1>3, <1>t DEF ThreadTypes, Elsewhere, NoteStop, RequestStop, JoinEnds, Expire,
           WatchLapses, stopping
  <2>4. watched' \in BOOLEAN /\ fresh' \in BOOLEAN
    BY <1>3, <1>t DEF ThreadTypes, Elsewhere, NoteStop, RequestStop, JoinEnds, Expire,
           WatchLapses, cache
  <2> QED
    BY <2>1, <2>2, <2>3, <2>4, <1>t DEF ThreadTypes
<1>4. CASE UNCHANGED vars
  BY <1>4, <1>t DEF ThreadTypes, vars, counters, stopping, thread, cache, history
<1> QED
  BY <1>1, <1>2, <1>3, <1>4, NextSplits

\* The types of the clicks, through every step.
LEMMA ClickTypesStep == RefresherInv /\ [Next]_vars => ClickTypes'
<1> SUFFICES ASSUME RefresherInv, [Next]_vars PROVE ClickTypes'
  OBVIOUS
<1> USE CheckRefresherAssumption
<1>t. ThreadTypes /\ ClickTypes
  BY DEF RefresherInv, TypeOK
<1>0. ASSUME UNCHANGED <<request, render>>, cpc' = cpc \/ cpc' = WokenClicks(cpc)
      PROVE  ClickTypes'
  <2>1. WokenClicks(cpc) \in [Clicks -> ClickPlaces]
    BY <1>t, WokenClicksType DEF ClickTypes
  <2> QED
    BY <1>0, <2>1, <1>t DEF ClickTypes, request, render
<1>1. CASE Refresher
  BY <1>0, <1>1, RefresherFrame
<1>2. CASE Elsewhere
  BY <1>0, <1>2, ElsewhereFrame
<1>3. ASSUME NEW c \in Clicks, Press(c) \/ Poll(c) PROVE ClickTypes'
  <2>1. UNCHANGED <<request, render>>
    BY <1>3 DEF Press, Poll
  <2>2. cpc' \in [Clicks -> ClickPlaces]
    BY <1>3, <1>t DEF Press, Poll, Click, ClickTypes, ClickPlaces
  <2> QED
    BY <2>1, <2>2, <1>t DEF ClickTypes, request, render
<1>4. ASSUME NEW c \in Clicks, CheckRequest(c) PROVE ClickTypes'
  <2>1. UNCHANGED <<ticket, render>>
    BY <1>4 DEF CheckRequest
  <2>2. cpc' \in [Clicks -> ClickPlaces]
    BY <1>4, <1>t DEF CheckRequest, Reply, Click, ClickTypes, ClickPlaces
  <2>3. reply' \in [Clicks -> {"none", "COLLAPSED", "DONE", "PENDING"}]
    BY <1>4, <1>t DEF CheckRequest, Reply, ClickTypes
  <2>4. ProbeOfTheLock \in Nat
    BY <1>t DEF ProbeOfTheLock, ThreadTypes
  <2>5. need' \in [Clicks -> Nat]
    BY <1>4, <2>4, <1>t DEF CheckRequest, ClickTypes
  <2> QED
    BY <2>1, <2>2, <2>3, <2>5, <1>t DEF ClickTypes, render
<1>5. ASSUME NEW c \in Clicks, CountRequest(c) PROVE ClickTypes'
  <2>1. UNCHANGED <<reply, render>>
    BY <1>5 DEF CountRequest
  <2>2. [cpc EXCEPT ![c] = "woken"] \in [Clicks -> ClickPlaces]
    BY <1>t DEF ClickTypes, ClickPlaces
  <2>3. cpc' \in [Clicks -> ClickPlaces]
    BY <1>5, <2>2, WokenClicksType DEF CountRequest
  <2>4. ticket' \in [Clicks -> Nat] /\ need' \in [Clicks -> Nat]
    BY <1>5, <1>t DEF CountRequest, ClickTypes, ThreadTypes
  <2> QED
    BY <2>1, <2>3, <2>4, <1>t DEF ClickTypes, render
<1>6. ASSUME NEW c \in Clicks, Recheck(c) \/ WaitEnds(c) PROVE ClickTypes'
  <2>1. UNCHANGED <<ticket, need, render>>
    BY <1>6 DEF Recheck, WaitEnds, Answer, request
  <2>2. cpc' \in [Clicks -> ClickPlaces]
    BY <1>6, <1>t DEF Recheck, WaitEnds, Answer, Reply, Click, ClickTypes, ClickPlaces
  <2>3. reply' \in [Clicks -> {"none", "COLLAPSED", "DONE", "PENDING"}]
    BY <1>6, <1>t DEF Recheck, WaitEnds, Answer, Reply, request, ClickTypes
  <2> QED
    BY <2>1, <2>2, <2>3, <1>t DEF ClickTypes, render
<1>7. ASSUME NEW c \in Clicks, ReadProbeLock(c) \/ ReadRequested(c) \/ ReadCompleted(c)
      PROVE  ClickTypes'
  <2>1. UNCHANGED <<request, attempt>>
    BY <1>7 DEF ReadProbeLock, ReadRequested, ReadCompleted
  <2>2. cpc' \in [Clicks -> ClickPlaces]
    BY <1>7, <1>t DEF ReadProbeLock, ReadRequested, ReadCompleted, Click, ClickTypes,
           ClickPlaces
  <2>3. busy' \in [Clicks -> BOOLEAN] /\ seenRequested' \in [Clicks -> Nat]
    <3>1. \/ busy' = busy
          \/ busy' = [busy EXCEPT ![c] = probeLock]
          \/ busy' = [busy EXCEPT ![c] = (seenRequested[c] > completed)]
      BY <1>7 DEF ReadProbeLock, ReadRequested, ReadCompleted
    <3>2. (seenRequested[c] > completed) \in BOOLEAN /\ probeLock \in BOOLEAN
      BY <1>t DEF ThreadTypes
    <3>3. busy' \in [Clicks -> BOOLEAN]
      BY <3>1, <3>2, <1>t DEF ClickTypes
    <3>4. seenRequested' \in [Clicks -> Nat]
      BY <1>7, <1>t DEF ReadProbeLock, ReadRequested, ReadCompleted, ClickTypes, ThreadTypes
    <3> QED
      BY <3>3, <3>4
  <2> QED
    BY <2>1, <2>2, <2>3, <1>t DEF ClickTypes, request
<1>8. ASSUME NEW c \in Clicks, ReadCache(c) PROVE ClickTypes'
  <2>1. UNCHANGED <<request, seenRequested>>
    BY <1>8 DEF ReadCache
  <2>2. cpc' \in [Clicks -> ClickPlaces]
    BY <1>8, <1>t DEF ReadCache, Click, ClickTypes, ClickPlaces
  <2>3. busy' \in [Clicks -> BOOLEAN]
    BY <1>8, <1>t DEF ReadCache, ClickTypes
  <2>4. Cap(c) <= ProbePollCap
    BY DEF Cap
  <2>5. attempt' \in [Clicks -> 0..ProbePollCap]
    <3>1. attempt' = attempt
          \/ (attempt[c] < Cap(c) /\ attempt' = [attempt EXCEPT ![c] = @ + 1])
      BY <1>8 DEF ReadCache
    <3> QED
      BY <3>1, <2>4, <1>t DEF ClickTypes, Cap
  <2> QED
    BY <2>1, <2>2, <2>3, <2>5, <1>t DEF ClickTypes, request
<1>9. CASE UNCHANGED vars
  BY <1>9, <1>t DEF ClickTypes, vars, request, render
<1> QED
  BY <1>1, <1>2, <1>3, <1>4, <1>5, <1>6, <1>7, <1>8, <1>9, NextSplits DEF Ask, Show

-----------------------------------------------------------------------------
(* The thread's own bookkeeping. *)

\* A step of anybody else leaves the bookkeeping as it was.
LEMMA ThreadAlone ==
    ASSUME ThreadTypes, LockFollowsThread, PastFollowsThread,
           UNCHANGED <<probeLock, begun, past>>, loop' = loop \/ loop' = WokenLoop
    PROVE  LockFollowsThread' /\ PastFollowsThread'
<1>1. loop' = loop \/ (loop = "asleep" /\ loop' = "top")
  BY WokenLoopPlace DEF ThreadTypes
<1> QED
  BY <1>1 DEF LockFollowsThread, PastFollowsThread, InFlight

\* The lock and the past follow the thread that probes.
LEMMA ThreadStep == RefresherInv /\ [Next]_vars => LockFollowsThread' /\ PastFollowsThread'
<1> SUFFICES ASSUME RefresherInv, [Next]_vars
             PROVE  LockFollowsThread' /\ PastFollowsThread'
  OBVIOUS
<1>t. ThreadTypes /\ LockFollowsThread /\ PastFollowsThread
  BY DEF RefresherInv, TypeOK
<1>a. ASSUME UNCHANGED <<probeLock, begun, past>>, loop \notin InFlight, loop' \notin InFlight
      PROVE  LockFollowsThread' /\ PastFollowsThread'
  BY <1>a, <1>t DEF LockFollowsThread, PastFollowsThread, InFlight
<1>1. CASE Look \/ TickPasses \/ Leave \/ Decide \/ TickDue \/ TickStale \/ Complete
  <2>1. UNCHANGED <<probeLock, begun, past>>
    BY <1>1 DEF Look, TickPasses, Leave, Decide, TickDue, TickStale, Complete, Marking,
           counters, history
  <2>2. loop \notin InFlight /\ loop' \notin InFlight
    BY <1>1 DEF Look, TickPasses, Leave, Decide, TickDue, TickStale, Complete, Marking,
           Loop, InFlight
  <2> QED
    BY <1>a, <2>1, <2>2
<1>2. CASE TakeProbeLock
  BY <1>2, <1>t DEF TakeProbeLock, Loop, LockFollowsThread, PastFollowsThread, InFlight,
         history
<1>3. CASE ReadServing
  <2>1. /\ loop = "serve" /\ loop' = "check" /\ probeLock' = probeLock
        /\ begun' = begun + 1 /\ past' = past
    BY <1>3 DEF ReadServing, Loop, counters
  <2>2. LockFollowsThread'
    BY <2>1, <1>t DEF LockFollowsThread, InFlight
  <2> QED
    BY <2>1, <2>2, <1>t DEF PastFollowsThread, ThreadTypes
<1>4. CASE RunChecks \/ MayStore \/ Store
  <2>1. /\ probeLock' = probeLock /\ begun' = begun
        /\ loop \in {"check", "checked", "store"}
        /\ \/ loop' \in {"checked", "store"} /\ past' = past
           \/ loop' = "release" /\ past' = begun
    BY <1>4 DEF RunChecks, MayStore, Store, Loop, counters
  <2>2. LockFollowsThread'
    BY <2>1, <1>t DEF LockFollowsThread, InFlight
  <2> QED
    BY <2>1, <2>2, <1>t DEF PastFollowsThread, ThreadTypes
<1>5. CASE ReleaseProbeLock
  BY <1>5, <1>t DEF ReleaseProbeLock, Loop, LockFollowsThread, PastFollowsThread, InFlight,
         history
<1>6. ASSUME NEW c \in Clicks, Press(c) \/ Ask(c) \/ WaitEnds(c) \/ Show(c) \/ Poll(c)
      PROVE  LockFollowsThread' /\ PastFollowsThread'
  BY <1>6, <1>t, ClickFrame, ThreadAlone DEF history
<1>7. CASE Elsewhere
  BY <1>7, <1>t, ElsewhereFrame, ThreadAlone DEF history, counters
<1>8. CASE UNCHANGED vars
  BY <1>8, <1>t, ThreadAlone DEF vars, counters, thread, history
<1> QED
  BY <1>1, <1>2, <1>3, <1>4, <1>5, <1>6, <1>7, <1>8, NextSplits DEF Refresher

\* A part is found only under a stop, and a stop is never taken back.
LEMMA StoresStep == RefresherInv /\ [Next]_vars => StoresWhole'
<1> SUFFICES ASSUME RefresherInv, [Next]_vars PROVE StoresWhole'
  OBVIOUS
<1>t. ThreadTypes /\ StoresWhole
  BY DEF RefresherInv, TypeOK
<1>s. Stopping => Stopping'
  BY DEF Next, Refresher, Look, TickPasses, Leave, Decide, TickDue, TickStale,
         TakeProbeLock, ReadServing, RunChecks, MayStore, Store, ReleaseProbeLock,
         Complete, Marking, Press, Ask, CheckRequest, CountRequest, Recheck, Answer,
         WaitEnds, Show, ReadProbeLock, ReadRequested, ReadCompleted, ReadCache, Poll,
         NoteStop, RequestStop, JoinEnds, Expire, WatchLapses, stopping, vars, Stopping
<1>a. ASSUME UNCHANGED <<found, entry>>, loop' = loop \/ loop' \notin {"checked", "store"}
      PROVE  StoresWhole'
  BY <1>a, <1>s, <1>t DEF StoresWhole
<1>1. CASE \/ Look \/ TickPasses \/ Leave \/ Decide \/ TickDue \/ TickStale
           \/ TakeProbeLock \/ ReadServing \/ ReleaseProbeLock \/ Complete
  <2>1. UNCHANGED <<found, entry>>
    BY <1>1 DEF Look, TickPasses, Leave, Decide, TickDue, TickStale, TakeProbeLock,
           ReadServing, ReleaseProbeLock, Complete, Marking, cache
  <2>2. loop' \notin {"checked", "store"}
    BY <1>1 DEF Look, TickPasses, Leave, Decide, TickDue, TickStale, TakeProbeLock,
           ReadServing, ReleaseProbeLock, Complete, Marking, Loop
  <2> QED
    BY <1>a, <2>1, <2>2
<1>2. CASE RunChecks
  <2>1. /\ entry' = entry /\ loop' \in {"release", "checked"}
        /\ \/ found' = found /\ loop' = "release"
           \/ found' = "part" /\ Stopping
           \/ found' = "whole"
    BY <1>2 DEF RunChecks, cache
  <2> QED
    BY <2>1, <1>s, <1>t DEF StoresWhole
<1>3. CASE MayStore
  <2>1. entry' = entry /\ loop = "checked"
    BY <1>3 DEF MayStore, cache, Loop
  <2>2. CASE Stopping
    BY <1>3, <2>1, <2>2, <1>t DEF MayStore, Loop, StoresWhole
  <2>3. CASE ~Stopping
    <3>1. found = "whole"
      BY <2>1, <2>3, <1>t DEF StoresWhole
    <3> QED
      BY <1>3, <2>1, <2>3, <3>1, <1>t DEF MayStore, Loop, StoresWhole
  <2> QED
    BY <2>2, <2>3
<1>4. CASE Store
  BY <1>4, <1>t DEF Store, Loop, StoresWhole
<1>5. ASSUME NEW c \in Clicks, Press(c) \/ Ask(c) \/ WaitEnds(c) \/ Show(c) \/ Poll(c)
      PROVE  StoresWhole'
  BY <1>5, <1>a, <1>t, ClickFrame, WokenLoopPlace DEF ThreadTypes
<1>6. CASE Elsewhere
  BY <1>6, <1>a, <1>t, ElsewhereFrame, WokenLoopPlace DEF ThreadTypes
<1>7. CASE UNCHANGED vars
  BY <1>7, <1>a DEF vars, thread, cache
<1> QED
  BY <1>1, <1>2, <1>3, <1>4, <1>5, <1>6, <1>7, NextSplits DEF Refresher

-----------------------------------------------------------------------------
(* The condition and its counters. *)

\* Waking clicks moves none of them into or out of the condition.
LEMMA WakingEntersNobody ==
    ASSUME ClickTypes, cpc' = cpc \/ cpc' = WokenClicks(cpc), NEW d \in Clicks
    PROVE  \/ cpc'[d] = cpc[d]
           \/ cpc[d] = "waiting" /\ cpc'[d] = "woken"
  BY WokenClicksType DEF ClickTypes

\* One click at a time is inside request_probe.
LEMMA InsideStep == RefresherInv /\ [Next]_vars => OneInside'
<1> SUFFICES ASSUME RefresherInv, [Next]_vars PROVE OneInside'
  OBVIOUS
<1> USE CheckRefresherAssumption
<1>t. ThreadTypes /\ ClickTypes /\ OneInside
  BY DEF RefresherInv, TypeOK
<1>0. ASSUME inRequest' = inRequest, cpc' = cpc \/ cpc' = WokenClicks(cpc)
      PROVE  OneInside'
  <2>1. ASSUME NEW d \in Clicks PROVE cpc'[d] = "count" <=> cpc[d] = "count"
    BY <1>0, <1>t, WakingEntersNobody
  <2> QED
    BY <1>0, <2>1, <1>t DEF OneInside
<1>1. CASE Refresher
  <2>1. inRequest' = inRequest
    BY <1>1 DEF Refresher, Look, TickPasses, Leave, Decide, TickDue, TickStale,
           TakeProbeLock, ReadServing, RunChecks, MayStore, Store, ReleaseProbeLock,
           Complete, Marking, counters
  <2> QED
    BY <1>0, <1>1, <2>1, RefresherFrame
<1>2. CASE Elsewhere
  BY <1>0, <1>2, ElsewhereFrame DEF counters
<1>3. ASSUME NEW c \in Clicks, Press(c) \/ Poll(c) \/ Show(c) PROVE OneInside'
  <2>1. inRequest' = inRequest
    BY <1>3 DEF Press, Poll, Show, ReadProbeLock, ReadRequested, ReadCompleted, ReadCache,
           counters
  <2>2. ASSUME NEW d \in Clicks PROVE cpc'[d] = "count" <=> cpc[d] = "count"
    BY <1>3, <1>t DEF Press, Poll, Show, ReadProbeLock, ReadRequested, ReadCompleted,
           ReadCache, Click, ClickTypes
  <2> QED
    BY <2>1, <2>2, <1>t DEF OneInside
<1>4. ASSUME NEW c \in Clicks, Recheck(c) \/ WaitEnds(c) PROVE OneInside'
  <2>1. inRequest' = inRequest
    BY <1>4 DEF Recheck, WaitEnds, Answer, counters
  <2>2. ASSUME NEW d \in Clicks PROVE cpc'[d] = "count" <=> cpc[d] = "count"
    BY <1>4, <1>t DEF Recheck, WaitEnds, Answer, Reply, Click, ClickTypes
  <2> QED
    BY <2>1, <2>2, <1>t DEF OneInside
<1>5. ASSUME NEW c \in Clicks, CheckRequest(c) PROVE OneInside'
  <2>1. \A d \in Clicks : cpc[d] # "count"
    BY <1>5, <1>t DEF CheckRequest, Enter, OneInside
  <2>2. CASE inRequest' = c
    <3>1. ASSUME NEW d \in Clicks PROVE cpc'[d] = "count" <=> d = c
      BY <1>5, <2>1, <2>2, <1>t DEF CheckRequest, Enter, Reply, Click, ClickTypes
    <3> QED
      BY <2>2, <3>1 DEF OneInside
  <2>3. CASE inRequest' = inRequest
    <3>1. ASSUME NEW d \in Clicks PROVE cpc'[d] # "count"
      BY <1>5, <2>1, <2>3, <1>t DEF CheckRequest, Enter, Reply, Click, ClickTypes
    <3> QED
      BY <1>5, <2>3, <3>1 DEF OneInside, CheckRequest, Enter
  <2> QED
    BY <1>5, <2>2, <2>3 DEF CheckRequest
<1>6. ASSUME NEW c \in Clicks, CountRequest(c) PROVE OneInside'
  <2>1. inRequest = c /\ inRequest' = Nobody
    BY <1>6 DEF CountRequest
  <2>2. ASSUME NEW d \in Clicks PROVE cpc'[d] # "count"
    <3> DEFINE pcs == [cpc EXCEPT ![c] = "woken"]
    <3>1. pcs \in [Clicks -> ClickPlaces] /\ pcs[d] # "count"
      BY <2>1, <1>t DEF OneInside, ClickTypes, ClickPlaces
    <3>2. cpc' = WokenClicks(pcs)
      BY <1>6 DEF CountRequest
    <3> HIDE DEF pcs
    <3> QED
      BY <3>1, <3>2, WokenClicksType
  <2> QED
    BY <2>1, <2>2 DEF OneInside
<1>7. CASE UNCHANGED vars
  BY <1>7, <1>0 DEF vars, counters
<1> QED
  BY <1>1, <1>2, <1>3, <1>4, <1>5, <1>6, <1>7, NextSplits DEF Ask

\* The counters of probes keep their order.
LEMMA CountersStep == RefresherInv /\ [Next]_vars => CountersOrdered'
<1> SUFFICES ASSUME RefresherInv, [Next]_vars PROVE CountersOrdered'
  OBVIOUS
<1>t. ThreadTypes /\ CountersOrdered
  BY DEF RefresherInv, TypeOK
<1>0. ASSUME completed' = completed, serving' = serving, Serving' => Serving,
             requested' \in Nat, requested' >= requested
      PROVE  CountersOrdered'
  BY <1>0, <1>t DEF CountersOrdered, ThreadTypes
<1>1. CASE \/ Look \/ TickPasses \/ Leave \/ Decide \/ TickDue \/ TickStale
           \/ TakeProbeLock \/ RunChecks \/ MayStore \/ Store \/ ReleaseProbeLock
  <2>1. UNCHANGED <<requested, completed, serving>>
    BY <1>1 DEF Look, TickPasses, Leave, Decide, TickDue, TickStale, TakeProbeLock,
           RunChecks, MayStore, Store, ReleaseProbeLock, counters
  <2>2. Serving' => Serving
    BY <1>1 DEF Look, TickPasses, Leave, Decide, TickDue, TickStale, TakeProbeLock,
           RunChecks, MayStore, Store, ReleaseProbeLock, Loop, Serving
  <2> QED
    BY <1>0, <2>1, <2>2, <1>t DEF ThreadTypes
<1>2. CASE ReadServing
  BY <1>2, <1>t DEF ReadServing, counters, CountersOrdered, ThreadTypes
<1>3. CASE Complete
  BY <1>3, <1>t DEF Complete, Marking, Loop, CountersOrdered, Serving, ThreadTypes
<1>4. ASSUME NEW c \in Clicks, Press(c) \/ Ask(c) \/ WaitEnds(c) \/ Show(c) \/ Poll(c)
      PROVE  CountersOrdered'
  <2>1. /\ completed' = completed /\ serving' = serving
        /\ loop' = loop \/ loop' = WokenLoop
    BY <1>4, ClickFrame
  <2>2. Serving' => Serving
    BY <2>1, <1>t, WokenLoopPlace DEF ThreadTypes, Serving
  <2>3. requested' = requested \/ requested' = requested + 1
    BY <1>4 DEF Press, Ask, CheckRequest, CountRequest, Recheck, Answer, WaitEnds, Show,
           ReadProbeLock, ReadRequested, ReadCompleted, ReadCache, Poll, counters
  <2> QED
    BY <1>0, <2>1, <2>2, <2>3, <1>t DEF ThreadTypes
<1>5. CASE Elsewhere
  <2>1. /\ UNCHANGED <<requested, completed, serving>>
        /\ loop' = loop \/ loop' = WokenLoop
    BY <1>5, ElsewhereFrame DEF counters
  <2>2. Serving' => Serving
    BY <2>1, <1>t, WokenLoopPlace DEF ThreadTypes, Serving
  <2> QED
    BY <1>0, <2>1, <2>2, <1>t DEF ThreadTypes
<1>6. CASE UNCHANGED vars
  BY <1>6, <1>0, <1>t DEF vars, counters, thread, Serving, ThreadTypes
<1> QED
  BY <1>1, <1>2, <1>3, <1>4, <1>5, <1>6, NextSplits DEF Refresher

-----------------------------------------------------------------------------
(* What each click is owed. *)

Unasked == {"out", "request", "count"}
Waiting == {"woken", "waiting"}

\* A step that starts no probe and marks no request served leaves a click's
\* account in order, whatever it does to the others.
LEMMA QuietTicket ==
    ASSUME ThreadTypes, ClickTypes, NEW d \in Clicks, TicketServed(d),
           ticket'[d] = ticket[d], need'[d] = need[d],
           requested' \in Nat, requested' >= requested,
           UNCHANGED <<completed, serving, begun>>, past' \in Nat, past' >= past,
           Serving' => Serving, loop' # "serve" => loop # "serve",
           cpc'[d] \in Unasked => cpc[d] \in Unasked,
           cpc'[d] \in Waiting => cpc[d] \in Waiting
    PROVE  TicketServed(d)'
<1>1. /\ ticket[d] \in Nat /\ need[d] \in Nat /\ requested \in Nat
      /\ begun \in Nat /\ past \in Nat
  BY DEF ThreadTypes, ClickTypes
<1>2. ticket'[d] <= requested' /\ need'[d] <= begun' + 1
  BY <1>1 DEF TicketServed
<1>3. ticket'[d] # 0 /\ ticket'[d] <= completed' => need'[d] <= past'
  BY <1>1 DEF TicketServed
<1> QED
  BY <1>2, <1>3 DEF TicketServed, Unasked, Waiting

\* The thread's steps that start no probe and mark nothing served.
LEMMA QuietThread ==
    ASSUME RefresherInv,
           \/ Look \/ TickPasses \/ Leave \/ Decide \/ TickDue \/ TickStale
           \/ TakeProbeLock \/ RunChecks \/ MayStore \/ Store \/ ReleaseProbeLock
    PROVE  /\ UNCHANGED <<requested, completed, serving, begun>>
           /\ past' \in Nat /\ past' >= past
           /\ Serving' => Serving
           /\ loop' # "serve" => loop # "serve"
<1>t. ThreadTypes /\ PastFollowsThread
  BY DEF RefresherInv, TypeOK
<1>1. UNCHANGED <<requested, completed, serving, begun>>
  BY DEF Look, TickPasses, Leave, Decide, TickDue, TickStale, TakeProbeLock, RunChecks,
         MayStore, Store, ReleaseProbeLock, counters, history
<1>2. past' = past \/ past' = begun
  BY DEF Look, TickPasses, Leave, Decide, TickDue, TickStale, TakeProbeLock, RunChecks,
         MayStore, Store, ReleaseProbeLock, history
<1>3. past' \in Nat /\ past' >= past
  BY <1>2, <1>t DEF ThreadTypes, PastFollowsThread
<1>4. (Serving' => Serving) /\ (loop' # "serve" => loop # "serve")
  BY DEF Look, TickPasses, Leave, Decide, TickDue, TickStale, TakeProbeLock, RunChecks,
         MayStore, Store, ReleaseProbeLock, Loop, Serving
<1> QED
  BY <1>1, <1>3, <1>4

\* What a click is owed stays ahead of its ticket.
LEMMA TicketsStep == RefresherInv /\ [Next]_vars => TicketsServed'
<1> SUFFICES ASSUME RefresherInv, [Next]_vars, NEW d \in Clicks PROVE TicketServed(d)'
  BY DEF TicketsServed
<1>t. /\ ThreadTypes /\ ClickTypes /\ LockFollowsThread /\ PastFollowsThread /\ OneInside
      /\ CountersOrdered /\ TicketServed(d)
  BY DEF RefresherInv, TypeOK, TicketsServed
<1>n. /\ ticket[d] \in Nat /\ need[d] \in Nat /\ requested \in Nat /\ completed \in Nat
      /\ begun \in Nat /\ past \in Nat /\ serving \in Nat
  BY <1>t DEF ThreadTypes, ClickTypes
<1>p. ASSUME cpc' = cpc \/ cpc' = WokenClicks(cpc)
      PROVE  /\ cpc'[d] \in Unasked <=> cpc[d] \in Unasked
             /\ cpc'[d] \in Waiting <=> cpc[d] \in Waiting
  BY <1>p, <1>t, WakingEntersNobody DEF Unasked, Waiting
<1>1. CASE Refresher
  <2>1. ticket' = ticket /\ need' = need /\ (cpc' = cpc \/ cpc' = WokenClicks(cpc))
    BY <1>1, RefresherFrame DEF request
  <2>2. CASE \/ Look \/ TickPasses \/ Leave \/ Decide \/ TickDue \/ TickStale
             \/ TakeProbeLock \/ RunChecks \/ MayStore \/ Store \/ ReleaseProbeLock
    BY <2>1, <2>2, <1>p, <1>t, <1>n, QuietThread, QuietTicket
  <2>3. CASE ReadServing
    <3>1. /\ loop = "serve" /\ loop' = "check" /\ begun' = begun + 1 /\ past' = past
          /\ UNCHANGED <<requested, completed>> /\ serving' = requested /\ cpc' = cpc
      BY <2>3 DEF ReadServing, Loop, counters
    <3>2. need[d] <= begun + 1
      BY <1>t DEF TicketServed
    <3> QED
      BY <3>1, <3>2, <2>1, <1>t, <1>n DEF TicketServed
  <2>4. CASE Complete
    <3>1. /\ loop = "complete" /\ loop' = "top"
          /\ completed' = (IF completed < serving THEN serving ELSE completed)
          /\ UNCHANGED <<requested, begun, past>>
      BY <2>4 DEF Complete, Marking, Loop, history
    <3>2. past = begun /\ Serving /\ ~Serving'
      BY <3>1, <1>t DEF PastFollowsThread, Serving
    <3>3. ticket[d] # 0 /\ ticket[d] <= completed' => need[d] <= past
      BY <3>1, <3>2, <1>t, <1>n DEF TicketServed
    <3>4. ticket[d] <= requested /\ need[d] <= begun + 1
          /\ (ticket[d] = 0 => need[d] <= begun)
      BY <3>1, <1>t DEF TicketServed
    <3>5. /\ cpc[d] \in Unasked => ticket[d] = 0 /\ need[d] = 0
          /\ cpc[d] \in Waiting => ticket[d] # 0
      BY <1>t DEF TicketServed, Unasked, Waiting
    <3> QED
      BY <3>1, <3>2, <3>3, <3>4, <3>5, <2>1, <1>p DEF TicketServed, Unasked, Waiting
  <2> QED
    BY <1>1, <2>2, <2>3, <2>4 DEF Refresher
<1>2. CASE Elsewhere
  <2>1. /\ UNCHANGED <<requested, completed, serving, begun, past, ticket, need>>
        /\ cpc' = cpc \/ cpc' = WokenClicks(cpc)
        /\ loop' = loop \/ (loop = "asleep" /\ loop' = "top")
    BY <1>2, <1>t, ElsewhereFrame, WokenLoopPlace DEF counters, request, history, ThreadTypes
  <2>2. (Serving' => Serving) /\ (loop' # "serve" => loop # "serve")
    BY <2>1 DEF Serving
  <2> QED
    BY <2>1, <2>2, <1>p, <1>t, <1>n, QuietTicket
<1>3. ASSUME NEW c \in Clicks, Press(c) \/ Ask(c) \/ WaitEnds(c) \/ Show(c) \/ Poll(c)
      PROVE  TicketServed(d)'
  <2>1. /\ UNCHANGED <<completed, serving, begun, past>>
        /\ loop' = loop \/ (loop = "asleep" /\ loop' = "top")
    BY <1>3, <1>t, ClickFrame, WokenLoopPlace DEF history, ThreadTypes
  <2>2. (Serving' => Serving) /\ (loop' # "serve" => loop # "serve")
    BY <2>1 DEF Serving
  <2>3. CASE Press(c) \/ Poll(c) \/ Show(c)
    <3>1. UNCHANGED <<requested, ticket, need>>
      BY <2>3 DEF Press, Poll, Show, ReadProbeLock, ReadRequested, ReadCompleted, ReadCache,
             counters, request
    <3>2. /\ cpc'[d] \in Unasked => cpc[d] \in Unasked
          /\ cpc'[d] \in Waiting => cpc[d] \in Waiting
      BY <2>3, <1>t DEF Press, Poll, Show, ReadProbeLock, ReadRequested, ReadCompleted,
             ReadCache, Click, ClickTypes, Unasked, Waiting
    <3> QED
      BY <2>1, <2>2, <3>1, <3>2, <1>t, <1>n, QuietTicket
  <2>4. CASE Recheck(c) \/ WaitEnds(c)
    <3>1. UNCHANGED <<requested, ticket, need>>
      BY <2>4 DEF Recheck, WaitEnds, Answer, counters, request
    <3>2. /\ cpc'[d] \in Unasked => cpc[d] \in Unasked
          /\ cpc'[d] \in Waiting => cpc[d] \in Waiting
      BY <2>4, <1>t DEF Recheck, WaitEnds, Answer, Reply, Click, ClickTypes, Unasked, Waiting
    <3> QED
      BY <2>1, <2>2, <3>1, <3>2, <1>t, <1>n, QuietTicket
  <2>5. CASE CheckRequest(c)
    <3>1. UNCHANGED <<requested, ticket>>
      BY <2>5 DEF CheckRequest
    <3>2. /\ cpc'[d] \in Unasked => cpc[d] \in Unasked
          /\ cpc'[d] \in Waiting => cpc[d] \in Waiting
      BY <2>5, <1>t DEF CheckRequest, Reply, Click, ClickTypes, Unasked, Waiting
    <3>3. CASE need'[d] = need[d]
      BY <2>1, <2>2, <3>1, <3>2, <3>3, <1>t, <1>n, QuietTicket
    <3>4. CASE need'[d] # need[d]
      <4>1. /\ d = c /\ probeLock /\ need'[d] = ProbeOfTheLock /\ cpc'[d] = "render"
            /\ cpc[d] = "request" /\ loop' = loop
        BY <2>5, <3>4, <1>t DEF CheckRequest, Reply, ClickTypes, thread
      <4>2. ticket[d] = 0 /\ ticket[d] <= requested
        BY <4>1, <1>t DEF TicketServed
      <4> QED
        BY <2>1, <3>1, <4>1, <4>2, <1>n DEF TicketServed, ProbeOfTheLock
    <3> QED
      BY <3>3, <3>4
  <2>6. CASE CountRequest(c)
    <3>1. /\ requested' = requested + 1 /\ ticket' = [ticket EXCEPT ![c] = requested + 1]
          /\ need' = [need EXCEPT ![c] = begun + 1] /\ inRequest = c
          /\ cpc' = WokenClicks([cpc EXCEPT ![c] = "woken"])
      BY <2>6 DEF CountRequest
    <3> DEFINE pcs == [cpc EXCEPT ![c] = "woken"]
    <3>2. pcs \in [Clicks -> ClickPlaces]
      BY <1>t DEF ClickTypes, ClickPlaces
    <3>3. cpc'[d] = pcs[d] \/ (pcs[d] = "waiting" /\ cpc'[d] = "woken")
      <4> HIDE DEF pcs
      <4>1. cpc' = WokenClicks(pcs)
        BY <3>1 DEF pcs
      <4> QED
        BY <4>1, <3>2, WokenClicksType
    <3>4. CASE d # c
      <4>1. ticket'[d] = ticket[d] /\ need'[d] = need[d] /\ pcs[d] = cpc[d]
        BY <3>1, <3>4, <1>t DEF ClickTypes
      <4>2. /\ cpc'[d] \in Unasked => cpc[d] \in Unasked
            /\ cpc'[d] \in Waiting => cpc[d] \in Waiting
        BY <3>3, <4>1 DEF Unasked, Waiting
      <4>3. requested' \in Nat /\ requested' >= requested /\ past' \in Nat /\ past' >= past
        BY <2>1, <3>1, <1>n
      <4>4. ticket'[d] = ticket[d] /\ need'[d] = need[d]
        BY <4>1
      <4> HIDE DEF pcs
      <4> QED
        BY <2>1, <2>2, <4>2, <4>3, <4>4, <1>t, QuietTicket
    <3>5. CASE d = c
      <4>1. ticket'[d] = requested + 1 /\ need'[d] = begun + 1 /\ pcs[d] = "woken"
        BY <3>1, <3>5, <1>t DEF ClickTypes
      <4>2. cpc'[d] = "woken"
        BY <3>3, <4>1
      <4>3. completed <= requested /\ (Serving => serving <= requested)
        BY <1>t DEF CountersOrdered
      <4>4. ticket'[d] <= requested' /\ need'[d] <= begun' + 1 /\ ticket'[d] # 0
        BY <2>1, <3>1, <4>1, <1>n
      <4>5. ~(ticket'[d] <= completed')
        BY <2>1, <4>1, <4>3, <1>n
      <4>6. ~(Serving' /\ ticket'[d] <= serving')
        BY <2>1, <2>2, <4>1, <4>3, <1>n
      <4>7. /\ cpc'[d] \notin {"out", "request", "count"}
            /\ ~(ticket'[d] = 0) /\ ticket'[d] # 0
        BY <4>2, <4>4
      <4> HIDE DEF pcs
      <4> QED
        BY <4>4, <4>5, <4>6, <4>7 DEF TicketServed
    <3> QED
      BY <3>4, <3>5
  <2> QED
    BY <1>3, <2>3, <2>4, <2>5, <2>6 DEF Ask
<1>4. CASE UNCHANGED vars
  BY <1>4, <1>t, <1>n, QuietTicket DEF vars, counters, thread, request, history, Serving
<1> QED
  BY <1>1, <1>2, <1>3, <1>4, NextSplits

-----------------------------------------------------------------------------
(* The strip. *)

\* A step that is not this click's own render, and takes back nothing, leaves
\* what its render has read current.
LEMMA QuietRender ==
    ASSUME ThreadTypes, ClickTypes, NEW d \in Clicks, RenderCurrent(d),
           past' \in Nat, past' >= past,
           ticket'[d] = ticket[d], need'[d] = need[d],
           seenRequested'[d] = seenRequested[d], busy'[d] = busy[d],
           \/ cpc'[d] = cpc[d]
           \/ cpc'[d] \notin {"readRequested", "readCompleted", "readCache"}
    PROVE  RenderCurrent(d)'
<1>1. need[d] \in Nat /\ past \in Nat
  BY DEF ThreadTypes, ClickTypes
<1>2. CASE cpc'[d] = cpc[d]
  <2>1. need[d] <= past => need'[d] <= past'
    BY <1>1
  <2> QED
    BY <1>2, <2>1 DEF RenderCurrent
<1>3. CASE cpc'[d] \notin {"readRequested", "readCompleted", "readCache"}
  BY <1>3 DEF RenderCurrent
<1> QED
  BY <1>2, <1>3

\* History: the last probe past its store is never an earlier one again.
LEMMA PastGrows == RefresherInv /\ [Next]_vars => past' \in Nat /\ past' >= past
<1> SUFFICES ASSUME RefresherInv, [Next]_vars PROVE past' \in Nat /\ past' >= past
  OBVIOUS
<1>t. ThreadTypes /\ PastFollowsThread
  BY DEF RefresherInv, TypeOK
<1>1. past' = past \/ past' = begun
  BY ClickFrame, ElsewhereFrame, NextSplits
  DEF Refresher, Look, TickPasses, Leave, Decide, TickDue, TickStale, TakeProbeLock,
      ReadServing, RunChecks, MayStore, Store, ReleaseProbeLock, Complete, Marking,
      history, vars
<1> QED
  BY <1>1, <1>t DEF ThreadTypes, PastFollowsThread

\* A render reads the cache behind the probe it is owed.
LEMMA RendersStep == RefresherInv /\ [Next]_vars => RendersCurrent'
<1> SUFFICES ASSUME RefresherInv, [Next]_vars, NEW d \in Clicks PROVE RenderCurrent(d)'
  BY DEF RendersCurrent
<1>t. /\ ThreadTypes /\ ClickTypes /\ LockFollowsThread /\ PastFollowsThread
      /\ TicketServed(d) /\ RenderCurrent(d)
  BY DEF RefresherInv, TypeOK, TicketsServed, RendersCurrent
<1>n. /\ ticket[d] \in Nat /\ need[d] \in Nat /\ requested \in Nat /\ completed \in Nat
      /\ begun \in Nat /\ past \in Nat /\ seenRequested[d] \in Nat
  BY <1>t DEF ThreadTypes, ClickTypes
<1>g. past' \in Nat /\ past' >= past
  BY PastGrows
<1>0. ASSUME UNCHANGED <<request, render>>, cpc' = cpc \/ cpc' = WokenClicks(cpc)
      PROVE  RenderCurrent(d)'
  <2>1. \/ cpc'[d] = cpc[d]
        \/ cpc'[d] \notin {"readRequested", "readCompleted", "readCache"}
    BY <1>0, <1>t, WakingEntersNobody
  <2> QED
    BY <1>0, <2>1, <1>t, <1>g, QuietRender DEF request, render
<1>1. CASE Refresher
  BY <1>0, <1>1, RefresherFrame
<1>2. CASE Elsewhere
  BY <1>0, <1>2, ElsewhereFrame
<1>3. ASSUME NEW c \in Clicks, Press(c) \/ Poll(c) PROVE RenderCurrent(d)'
  <2>1. \/ cpc'[d] = cpc[d]
        \/ cpc'[d] \notin {"readRequested", "readCompleted", "readCache"}
    BY <1>3, <1>t DEF Press, Poll, Click, ClickTypes
  <2> QED
    BY <1>3, <2>1, <1>t, <1>g, QuietRender DEF Press, Poll, request, render
<1>4. ASSUME NEW c \in Clicks, CheckRequest(c) \/ CountRequest(c) \/ Recheck(c) \/ WaitEnds(c)
      PROVE  RenderCurrent(d)'
  <2>1. CASE d = c
    <3>1. cpc'[d] \notin {"readRequested", "readCompleted", "readCache"}
      <4>1. CASE CountRequest(c)
        <5> DEFINE pcs == [cpc EXCEPT ![c] = "woken"]
        <5>1. pcs \in [Clicks -> ClickPlaces] /\ pcs[d] = "woken"
          BY <2>1, <1>t DEF ClickTypes, ClickPlaces
        <5>2. cpc' = WokenClicks(pcs)
          BY <4>1 DEF CountRequest
        <5> HIDE DEF pcs
        <5> QED
          BY <5>1, <5>2, WokenClicksType
      <4>2. CASE CheckRequest(c) \/ Recheck(c) \/ WaitEnds(c)
        BY <2>1, <4>2, <1>t DEF CheckRequest, Recheck, WaitEnds, Answer, Reply, Click,
               ClickTypes
      <4> QED
        BY <1>4, <4>1, <4>2
    <3> QED
      BY <3>1 DEF RenderCurrent
  <2>2. CASE d # c
    <3>1. /\ ticket'[d] = ticket[d] /\ need'[d] = need[d]
          /\ seenRequested' = seenRequested /\ busy' = busy
      BY <1>4, <2>2, <1>t DEF CheckRequest, CountRequest, Recheck, WaitEnds, Answer,
             request, render, ClickTypes
    <3>2. \/ cpc'[d] = cpc[d]
          \/ cpc'[d] \notin {"readRequested", "readCompleted", "readCache"}
      <4>1. CASE CountRequest(c)
        <5> DEFINE pcs == [cpc EXCEPT ![c] = "woken"]
        <5>1. pcs \in [Clicks -> ClickPlaces] /\ pcs[d] = cpc[d]
          BY <2>2, <1>t DEF ClickTypes, ClickPlaces
        <5>2. cpc' = WokenClicks(pcs)
          BY <4>1 DEF CountRequest
        <5> HIDE DEF pcs
        <5> QED
          BY <5>1, <5>2, WokenClicksType
      <4>2. CASE CheckRequest(c) \/ Recheck(c) \/ WaitEnds(c)
        BY <2>2, <4>2, <1>t DEF CheckRequest, Recheck, WaitEnds, Answer, Reply, Click,
               ClickTypes
      <4> QED
        BY <1>4, <4>1, <4>2
    <3> QED
      BY <3>1, <3>2, <1>t, <1>g, QuietRender
  <2> QED
    BY <2>1, <2>2
<1>5. ASSUME NEW c \in Clicks, Show(c), d # c PROVE RenderCurrent(d)'
  <2>1. UNCHANGED request
    BY <1>5 DEF Show, ReadProbeLock, ReadRequested, ReadCompleted, ReadCache
  <2>2. /\ cpc'[d] = cpc[d] /\ seenRequested'[d] = seenRequested[d] /\ busy'[d] = busy[d]
    BY <1>5, <1>t DEF Show, ReadProbeLock, ReadRequested, ReadCompleted, ReadCache, Click,
           ClickTypes
  <2> QED
    BY <2>1, <2>2, <1>t, <1>g, QuietRender DEF request
\* The lock is free and no longer held by the probe a collapsed click saw.
<1>6. CASE ReadProbeLock(d)
  <2>1. /\ cpc'[d] = (IF probeLock THEN "readCache" ELSE "readRequested")
        /\ busy'[d] = probeLock /\ UNCHANGED <<ticket, need, past>>
    BY <1>6, <1>t DEF ReadProbeLock, request, history, ClickTypes
  <2>2. CASE probeLock
    BY <2>1, <2>2 DEF RenderCurrent
  <2>3. CASE ~probeLock
    <3>1. past = begun /\ loop # "serve"
      BY <2>3, <1>t DEF LockFollowsThread, PastFollowsThread, InFlight
    <3>2. ticket[d] = 0 => need[d] <= past
      BY <3>1, <1>t DEF TicketServed
    <3> QED
      BY <2>1, <2>3, <3>2 DEF RenderCurrent
  <2> QED
    BY <2>2, <2>3
<1>7. CASE ReadRequested(d)
  <2>1. /\ cpc[d] = "readRequested" /\ cpc'[d] = "readCompleted"
        /\ seenRequested'[d] = requested /\ UNCHANGED <<ticket, need, past>>
    BY <1>7, <1>t DEF ReadRequested, Click, request, history, ClickTypes
  <2>2. ticket[d] <= requested /\ (ticket[d] = 0 => need[d] <= past)
    BY <2>1, <1>t DEF TicketServed, RenderCurrent
  <2> QED
    BY <2>1, <2>2 DEF RenderCurrent
\* The counters say that nothing is owed: the click's own ticket was served.
<1>8. CASE ReadCompleted(d)
  <2>1. /\ cpc[d] = "readCompleted" /\ cpc'[d] = "readCache"
        /\ busy'[d] = (seenRequested[d] > completed) /\ UNCHANGED <<ticket, need, past>>
    BY <1>8, <1>t DEF ReadCompleted, Click, request, history, ClickTypes
  <2>2. ticket[d] <= seenRequested[d] /\ (ticket[d] = 0 => need[d] <= past)
    BY <2>1, <1>t DEF RenderCurrent
  <2>3. ~(seenRequested[d] > completed) => need[d] <= past
    BY <2>2, <1>t, <1>n DEF TicketServed
  <2> QED
    BY <2>1, <2>3 DEF RenderCurrent
<1>9. CASE ReadCache(d)
  <2>1. cpc'[d] \notin {"readRequested", "readCompleted", "readCache"}
    BY <1>9, <1>t DEF ReadCache, Click, ClickTypes
  <2> QED
    BY <2>1 DEF RenderCurrent
<1>10. CASE UNCHANGED vars
  BY <1>10, <1>0 DEF vars
<1> QED
  BY <1>1, <1>2, <1>3, <1>4, <1>5, <1>6, <1>7, <1>8, <1>9, <1>10, NextSplits DEF Ask, Show

-----------------------------------------------------------------------------
\* The inductive invariant holds in every state of every run.
THEOREM RefresherInvariant == Spec => []RefresherInv
<1>1. RefresherInv /\ [Next]_vars => RefresherInv'
  BY ThreadTypesStep, ClickTypesStep, ThreadStep, InsideStep, StoresStep, CountersStep,
     TicketsStep, RendersStep DEF RefresherInv, TypeOK
<1> QED
  BY InitRefresher, <1>1, PTL DEF Spec

\* Only whole runs are stored, at whatever step a stop lands.
THEOREM OnlyWholeIsStored == Spec => []StoredIsWhole
<1>1. RefresherInv => StoredIsWhole
  BY DEF RefresherInv, StoresWhole, StoredIsWhole
<1> QED
  BY RefresherInvariant, <1>1, PTL

\* DONE is said only after a probe that started behind the request has come to
\* its end.
THEOREM DoneMeansProbed == Spec => DoneIsAnswered
<1> DEFINE Told(c) == reply[c] # "DONE" /\ reply'[c] = "DONE" => past >= need[c]
<1>1. RefresherInv /\ [Next]_vars => [\A c \in Clicks : Told(c)]_vars
  <2> SUFFICES ASSUME RefresherInv, Next, NEW d \in Clicks,
                      reply[d] # "DONE", reply'[d] = "DONE"
               PROVE  past >= need[d]
    OBVIOUS
  <2>t. ThreadTypes /\ ClickTypes /\ TicketServed(d)
    BY DEF RefresherInv, TypeOK, TicketsServed
  <2>1. reply' # reply
    OBVIOUS
  <2>2. PICK c \in Clicks : CheckRequest(c) \/ Recheck(c) \/ WaitEnds(c)
    BY <2>1, NextSplits, RefresherFrame, ElsewhereFrame
    DEF request, Press, Ask, CountRequest, Show, ReadProbeLock, ReadRequested,
        ReadCompleted, ReadCache, Poll
  <2>3. c = d /\ completed >= ticket[d] /\ cpc[d] \in {"woken", "waiting"}
    BY <2>1, <2>2, <2>t DEF CheckRequest, Recheck, WaitEnds, Answer, Reply, request,
           ClickTypes
  <2>4. ticket[d] # 0 /\ ticket[d] <= completed
    BY <2>3, <2>t DEF TicketServed, ThreadTypes, ClickTypes
  <2> QED
    BY <2>4, <2>t DEF TicketServed, ThreadTypes, ClickTypes
<1> QED
  BY RefresherInvariant, <1>1, PTL DEF Spec, DoneIsAnswered

\* A strip that stops asking has read the cache behind the probe it is owed.
THEOREM SettledMeansCurrent == Spec => SettledStripIsNew
<1> DEFINE Settled(c) == cpc[c] # "settled" /\ cpc'[c] = "settled" => past >= need[c]
<1>1. RefresherInv /\ [Next]_vars => [\A c \in Clicks : Settled(c)]_vars
  <2> SUFFICES ASSUME RefresherInv, Next, NEW d \in Clicks,
                      cpc[d] # "settled", cpc'[d] = "settled"
               PROVE  past >= need[d]
    OBVIOUS
  <2>t. ThreadTypes /\ ClickTypes /\ RenderCurrent(d)
    BY DEF RefresherInv, TypeOK, RendersCurrent
  <2>1. ~(cpc' = cpc \/ cpc' = WokenClicks(cpc))
    BY <2>t, WakingEntersNobody
  <2>2. PICK c \in Clicks : Press(c) \/ Ask(c) \/ WaitEnds(c) \/ Show(c) \/ Poll(c)
    BY <2>1, NextSplits, RefresherFrame, ElsewhereFrame
  <2>3. ~CountRequest(c)
    <3> SUFFICES ASSUME CountRequest(c) PROVE FALSE
      OBVIOUS
    <3> DEFINE pcs == [cpc EXCEPT ![c] = "woken"]
    <3>1. pcs \in [Clicks -> ClickPlaces] /\ pcs[d] # "settled"
      BY <2>t DEF ClickTypes, ClickPlaces
    <3>2. cpc' = WokenClicks(pcs)
      BY DEF CountRequest
    <3> HIDE DEF pcs
    <3> QED
      BY <3>1, <3>2, WokenClicksType
  <2>4. c = d /\ ReadCache(d)
    BY <2>2, <2>3, <2>t DEF Press, Ask, CheckRequest, Recheck, WaitEnds, Answer, Reply,
           Show, ReadProbeLock, ReadRequested, ReadCompleted, ReadCache, Poll, Click,
           ClickTypes
  <2>5. cpc[d] = "readCache" /\ ~busy[d]
    BY <2>4, <2>t DEF ReadCache, KeepAsking, Click, ClickTypes
  <2> QED
    BY <2>5, <2>t DEF RenderCurrent, ThreadTypes, ClickTypes
<1> QED
  BY RefresherInvariant, <1>1, PTL DEF Spec, SettledStripIsNew

-----------------------------------------------------------------------------
(* The close, and what the loop believes it owes. *)

\* A thread that is gone takes no step, and nothing brings it back.
LEMMA GoneStays ==
    ASSUME ThreadTypes, [Next]_vars, loop = "gone"
    PROVE  loop' = "gone"
<1>1. ~Refresher
  BY DEF Refresher, Look, TickPasses, Leave, Decide, TickDue, TickStale, TakeProbeLock,
         ReadServing, RunChecks, MayStore, Store, ReleaseProbeLock, Complete, Marking, Loop
<1>2. CASE Next
  BY <1>1, <1>2, NextSplits, ClickFrame, ElsewhereFrame, WokenLoopPlace DEF ThreadTypes
<1>3. CASE UNCHANGED vars
  BY <1>3 DEF vars, thread
<1> QED
  BY <1>2, <1>3

ClosedWhenGone == lifespan = "closed" => loop = "gone"

\* The server's lifespan ends only once its refresher thread is gone.
LEMMA CloseStep == RefresherInv /\ ClosedWhenGone /\ [Next]_vars => ClosedWhenGone'
<1> SUFFICES ASSUME RefresherInv, ClosedWhenGone, [Next]_vars, lifespan' = "closed"
             PROVE  loop' = "gone"
  BY DEF ClosedWhenGone
<1>t. ThreadTypes
  BY DEF RefresherInv, TypeOK
<1>1. CASE lifespan = "closed"
  BY <1>1, <1>t, GoneStays DEF ClosedWhenGone
<1>2. CASE lifespan # "closed"
  <2>1. ~Refresher
    BY <1>2 DEF Refresher, Look, TickPasses, Leave, Decide, TickDue, TickStale,
           TakeProbeLock, ReadServing, RunChecks, MayStore, Store, ReleaseProbeLock,
           Complete, Marking, stopping
  <2>2. ~\E c \in Clicks : Press(c) \/ Ask(c) \/ WaitEnds(c) \/ Show(c) \/ Poll(c)
    BY <1>2, ClickFrame DEF stopping
  <2>3. Elsewhere
    BY <1>2, <2>1, <2>2, NextSplits DEF vars, stopping
  <2>4. JoinEnds
    BY <1>2, <2>3 DEF Elsewhere, NoteStop, RequestStop, Expire, WatchLapses, stopping
  <2> QED
    BY <2>4 DEF JoinEnds, thread
<1> QED
  BY <1>1, <1>2

\* The client and the scanner are closed only once the thread is gone, and with
\* it the last probe.
THEOREM ClosesBehindProbes == Spec => []ClosedBehindProbes
<1>1. Init => ClosedWhenGone
  BY DEF Init, ClosedWhenGone
<1>2. RefresherInv /\ ClosedWhenGone => ClosedBehindProbes
  BY DEF RefresherInv, LockFollowsThread, InFlight, ClosedWhenGone, ClosedBehindProbes
<1> QED
  BY RefresherInvariant, CloseStep, <1>1, <1>2, PTL DEF Spec

OwedWhileAwake == owed => loop \in {"awake", "gone"} /\ requested > completed

\* While a click is owed, the thread is awake, or gone with the server,
\* and the last request is younger than the last pass.
LEMMA OwedStep == RefresherInv /\ OwedWhileAwake /\ [Next]_vars => OwedWhileAwake'
<1> SUFFICES ASSUME RefresherInv, OwedWhileAwake, [Next]_vars, owed'
             PROVE  loop' \in {"awake", "gone"} /\ requested' > completed'
  BY DEF OwedWhileAwake
<1>t. ThreadTypes
  BY DEF RefresherInv, TypeOK
<1>n. requested \in Nat /\ completed \in Nat
  BY <1>t DEF ThreadTypes
<1>1. CASE Look \/ TickPasses
  BY <1>1, <1>n DEF Look, TickPasses, Loop, Woken, counters
<1>2. CASE Leave
  BY <1>2 DEF Leave, Loop, OwedWhileAwake, counters
<1>3. ~Decide
  BY DEF Decide
<1>4. CASE \/ TickDue \/ TickStale \/ TakeProbeLock \/ ReadServing \/ RunChecks
           \/ MayStore \/ Store \/ ReleaseProbeLock \/ Complete
  <2>1. UNCHANGED owed /\ loop \notin {"awake", "gone"}
    BY <1>4 DEF TickDue, TickStale, TakeProbeLock, ReadServing, RunChecks, MayStore,
           Store, ReleaseProbeLock, Complete, Marking, Loop
  <2> QED
    BY <2>1 DEF OwedWhileAwake
<1>5. ASSUME NEW c \in Clicks, Press(c) \/ Ask(c) \/ WaitEnds(c) \/ Show(c) \/ Poll(c)
      PROVE  loop' \in {"awake", "gone"} /\ requested' > completed'
  <2>1. UNCHANGED <<owed, completed>> /\ (loop' = loop \/ loop' = WokenLoop)
    BY <1>5, ClickFrame
  <2>2. requested' = requested \/ requested' = requested + 1
    BY <1>5 DEF Press, Ask, CheckRequest, CountRequest, Recheck, Answer, WaitEnds, Show,
           ReadProbeLock, ReadRequested, ReadCompleted, ReadCache, Poll, counters
  <2>3. loop' = loop
    BY <2>1, <1>t, WokenLoopPlace DEF OwedWhileAwake, ThreadTypes
  <2> QED
    BY <2>1, <2>2, <2>3, <1>n DEF OwedWhileAwake
<1>6. CASE Elsewhere
  <2>1. UNCHANGED <<owed, requested, completed>> /\ (loop' = loop \/ loop' = WokenLoop)
    BY <1>6, ElsewhereFrame DEF counters
  <2>2. loop' = loop
    BY <2>1, <1>t, WokenLoopPlace DEF OwedWhileAwake, ThreadTypes
  <2> QED
    BY <2>1, <2>2 DEF OwedWhileAwake
<1>7. CASE UNCHANGED vars
  BY <1>7 DEF vars, counters, thread, OwedWhileAwake
<1>8. CASE Refresher
  BY <1>8, <1>1, <1>2, <1>3, <1>4 DEF Refresher
<1> QED
  BY <1>5, <1>6, <1>7, <1>8, NextSplits

\* Requests are marked served only once they were counted, and the loop probes
\* for a request only while one is outstanding.
THEOREM ServesWhatIsOwed == Spec => []OwedIsReal
<1>1. Init => OwedWhileAwake
  BY DEF Init, OwedWhileAwake
<1>2. RefresherInv /\ OwedWhileAwake => OwedIsReal
  BY DEF RefresherInv, CountersOrdered, Serving, InFlight, OwedWhileAwake, OwedIsReal
<1> QED
  BY RefresherInvariant, OwedStep, <1>1, <1>2, PTL DEF Spec

\* A stop at any step of the thread, the probes and the lifespan is clean.
THEOREM StopIsClean == Spec => []StopsAreClean
<1>1. StoredIsWhole /\ ClosedBehindProbes => StopsAreClean
  BY DEF StopsAreClean
<1> QED
  BY OnlyWholeIsStored, ClosesBehindProbes, <1>1, PTL

\* A click gets its probe, whether it waits for it or polls.
THEOREM ClicksAreServed == Spec => ClicksGetTheirProbe
  BY DoneMeansProbed, SettledMeansCurrent DEF ClicksGetTheirProbe

(***************************************************************************)
(* For any setup, any number of hosts, addresses and runs: the listing     *)
(* child lives under the scanner gate, and the probes that came before it  *)
(* are heeded while it runs and in what is said of the scanner.            *)
(***************************************************************************)

Places ==
    {"idle", "keys", "cut", "shown", "preflight", "judge", "gate", "start", "wait",
     "release", "releaseCut"}
\* The steps between taking the scanner gate and letting it go.
Gated == {"start", "wait", "release", "releaseCut"}
ChildPlaces ==
    {"none", "starting", "loading", "listing", "opening", "replied", "exited"}
Openings == {"untried", "opened", "refused"}
StartErrors == {"none", "import", "other"}
ListingFailures == {"none", "timed out", "crashed", "no answer"}

SurveyTypeOK ==
    /\ at \in Places
    /\ gate \in {"free", "check", "scan"} /\ scanning \in {"no", "waiting", "holding"}
    /\ child \in ChildPlaces
    /\ exit \in {"none", "bad", "clean", "signal", "alarm"}
    /\ said \in [devices : SUBSET Devices, opened : Openings, startError : StartErrors]
    /\ survey \in [devices : SUBSET Devices, opened : Openings, withheld : BOOLEAN,
                   failure : ListingFailures, startError : StartErrors]
    /\ server \in BOOLEAN /\ mayOpen \in BOOLEAN

\* While the server lives, the gate is the check's at the steps between taking it
\* and letting it go, and a scan's while one scans.
GateIsKept ==
    server => /\ at \in Gated => gate = "check"
              /\ scanning = "holding" => gate = "scan"

\* A child that is not reaped is one the check waits for, or died waiting for.
ChildIsWaitedFor == child # "none" => at = "wait"

\* Past the judgement no host timed out, and what may be opened was asked first.
ProbesWereHeeded ==
    /\ at \in Gated \cup {"gate"} => ~Blocked(probes)
    /\ at \in Gated \cup {"gate", "judge"} /\ mayOpen => ~setup.device.net \/ OwnProbed
    /\ child = "opening" => OpenTarget

\* A finished reply tells how the open of a device that was not listed went.
Unlisted(devices) == setup.device.named /\ "own" \notin devices
ReplyIsWhole ==
    /\ child = "replied" \/ (child = "exited" /\ exit = "clean")
    /\ OpenTarget /\ "own" \notin said.devices /\ said.startError = "none"
    => said.opened # "untried"
SurveyIsWhole ==
    /\ at = "release"
    /\ survey.failure = "none" /\ survey.startError = "none" /\ ~survey.withheld
    /\ Unlisted(survey.devices)
    => survey.opened # "untried"

SurveyInv ==
    /\ SurveyTypeOK /\ GateIsKept /\ ChildIsWaitedFor /\ ProbesWereHeeded
    /\ ReplyIsWhole /\ SurveyIsWhole
-----------------------------------------------------------------------------
\* The state a server starts in.
LEMMA InitSurvey == SurveyInit => SurveyInv
<1> SUFFICES ASSUME SurveyInit PROVE SurveyInv
  OBVIOUS
<1> USE DEF SurveyInit
<1>1. SurveyTypeOK
  BY DEF SurveyTypeOK, Places, ChildPlaces, NoReply, NoSurvey, Survey, Openings,
         StartErrors, ListingFailures
<1>2. GateIsKept /\ ChildIsWaitedFor
  BY DEF GateIsKept, ChildIsWaitedFor, Gated
<1>3. ProbesWereHeeded
  BY DEF ProbesWereHeeded, Gated
<1>4. ReplyIsWhole /\ SurveyIsWhole
  BY DEF ReplyIsWhole, SurveyIsWhole
<1> QED
  BY <1>1, <1>2, <1>3, <1>4 DEF SurveyInv

\* What only unchanged variables decide stays as it was.
LEMMA OpenTargetStays ==
    ASSUME UNCHANGED <<setup, probes, mayOpen>>
    PROVE  /\ OpenTarget' = OpenTarget
           /\ OwnProbed' = OwnProbed
           /\ Blocked(probes)' = Blocked(probes)
  BY DEF OpenTarget, OwnProbed, Blocked, OutcomesOf

-----------------------------------------------------------------------------
(* The steps of a run outside the gate. *)

\* Where a run is when it neither holds the gate nor judges what it probed.
Outside == Places \ (Gated \cup {"gate", "judge"})

\* What every step from key to key, and every dial of a probe, comes to.
LEMMA OutsideKeeps ==
    ASSUME SurveyInv, at \in Outside \cup {"judge", "gate"}, at' \in Outside,
           UNCHANGED <<config, locks, process>>,
           survey' = survey \/ survey' = NoSurvey, mayOpen' \in BOOLEAN
    PROVE  SurveyInv'
<1> USE DEF config, locks, process, Outside
<1>1. SurveyTypeOK /\ ChildIsWaitedFor /\ child = "none"
  BY DEF SurveyInv, ChildIsWaitedFor, Gated, Places
<1>2. SurveyTypeOK'
  <2>1. NoSurvey \in [devices : SUBSET Devices, opened : Openings, withheld : BOOLEAN,
                     failure : ListingFailures, startError : StartErrors]
    BY DEF NoSurvey, Survey, Openings, StartErrors, ListingFailures
  <2> QED
    BY <1>1, <2>1 DEF SurveyTypeOK
<1>3. GateIsKept'
  BY DEF SurveyInv, GateIsKept
<1>4. ChildIsWaitedFor'
  BY <1>1 DEF ChildIsWaitedFor
<1>5. ProbesWereHeeded'
  BY <1>1 DEF ProbesWereHeeded
<1>6. ReplyIsWhole' /\ SurveyIsWhole'
  BY <1>1 DEF ReplyIsWhole, SurveyIsWhole, Gated
<1> QED
  BY <1>2, <1>3, <1>4, <1>5, <1>6 DEF SurveyInv

\* The rows of the other checks, and the probes of the saned hosts.
LEMMA RowSteps ==
    ASSUME SurveyInv,
           \/ BeginRun \/ AllRowsIn \/ AbortBetweenKeys \/ OtherKey \/ SkipScanner \/ Shown
           \/ BeginPreflight \/ Resolve \/ TryAddress \/ AddressesSpent
    PROVE  SurveyInv'
<1> USE DEF At, turn, config, locks, process, dialling
<1>1. SurveyTypeOK
  BY DEF SurveyInv
<1>2. /\ at \in {"idle", "keys", "shown", "preflight"}
      /\ at' \in {"idle", "keys", "shown", "preflight", "cut"}
  BY DEF BeginRun, AllRowsIn, AbortBetweenKeys, OtherKey, SkipScanner, Shown,
         BeginPreflight, Resolve, TryAddress, AddressesSpent, AddRow, CutShort, Probed,
         NextAddress
<1>3. UNCHANGED <<config, locks, process>>
  BY DEF BeginRun, AllRowsIn, AbortBetweenKeys, OtherKey, SkipScanner, Shown,
         BeginPreflight, Resolve, TryAddress, AddressesSpent
<1>4. survey' = survey \/ survey' = NoSurvey
  BY DEF BeginRun, AllRowsIn, AbortBetweenKeys, OtherKey, SkipScanner, Shown,
         BeginPreflight, Resolve, TryAddress, AddressesSpent, AddRow, CutShort, Probed,
         NextAddress
<1>6. mayOpen' \in BOOLEAN
  BY <1>1 DEF BeginRun, AllRowsIn, AbortBetweenKeys, OtherKey, SkipScanner, Shown,
         BeginPreflight, Resolve, TryAddress, AddressesSpent, AddRow, CutShort, Probed,
         NextAddress, SurveyTypeOK
<1>5. at \in Outside /\ at' \in Outside
  BY <1>2 DEF Outside, Places, Gated
<1> QED
  BY <1>3, <1>4, <1>5, <1>6, OutsideKeeps

\* The host of the configured device is among the probed before it may be opened.
LEMMA OwnHostKeeps == SurveyInv /\ OwnHost => SurveyInv'
<1> SUFFICES ASSUME SurveyInv, OwnHost PROVE SurveyInv'
  OBVIOUS
<1> USE DEF OwnHost, config, locks, process
<1>1. SurveyTypeOK /\ ChildIsWaitedFor /\ at = "preflight" /\ child = "none"
  BY DEF SurveyInv, ChildIsWaitedFor
<1>2. at' \in {"preflight", "judge"} /\ UNCHANGED <<config, locks, process, survey, probes>>
  BY DEF config, locks, process
<1>3. SurveyTypeOK'
  BY <1>1, <1>2 DEF SurveyTypeOK, Places
<1>4. GateIsKept' /\ ChildIsWaitedFor'
  BY <1>1, <1>2 DEF SurveyInv, GateIsKept, ChildIsWaitedFor, Gated
<1>5. ProbesWereHeeded'
  <2>1. at' = "judge" /\ mayOpen' => ~setup.device.net \/ OwnProbed
    BY <1>1
  <2>2. OwnProbed' = OwnProbed
    BY <1>2 DEF OwnProbed
  <2> QED
    BY <1>1, <1>2, <2>1, <2>2 DEF ProbesWereHeeded, Gated
<1>6. ReplyIsWhole' /\ SurveyIsWhole'
  BY <1>1, <1>2 DEF ReplyIsWhole, SurveyIsWhole
<1> QED
  BY <1>3, <1>4, <1>5, <1>6 DEF SurveyInv

\* A host that timed out ends the check before the gate.
LEMMA JudgeKeeps == SurveyInv /\ Judge => SurveyInv'
<1> SUFFICES ASSUME SurveyInv, Judge PROVE SurveyInv'
  OBVIOUS
<1> USE DEF Judge, config, locks, process
<1>1. SurveyTypeOK /\ ChildIsWaitedFor /\ at = "judge" /\ child = "none"
  BY DEF SurveyInv, ChildIsWaitedFor
<1>2. CASE Blocked(probes)
  <2>1. at' = "keys" /\ survey' = NoSurvey /\ mayOpen' = FALSE
    BY <1>2 DEF AddRow
  <2> QED
    BY <1>1, <2>1, OutsideKeeps DEF Outside, Places, Gated
<1>3. CASE ~Blocked(probes)
  <2>1. at' = "gate" /\ UNCHANGED <<config, locks, process, dialling, survey>>
    BY <1>3
  <2>2. OwnProbed' = OwnProbed /\ Blocked(probes)' = Blocked(probes)
    BY <2>1, OpenTargetStays DEF dialling
  <2>3. SurveyTypeOK'
    BY <1>1, <2>1 DEF SurveyTypeOK, Places, dialling
  <2>4. GateIsKept' /\ ChildIsWaitedFor'
    BY <1>1, <2>1 DEF SurveyInv, GateIsKept, ChildIsWaitedFor, Gated
  <2>5. ProbesWereHeeded'
    BY <1>1, <1>3, <2>1, <2>2 DEF SurveyInv, ProbesWereHeeded, dialling
  <2>6. ReplyIsWhole' /\ SurveyIsWhole'
    BY <1>1, <2>1 DEF ReplyIsWhole, SurveyIsWhole
  <2> QED
    BY <2>3, <2>4, <2>5, <2>6 DEF SurveyInv
<1> QED
  BY <1>2, <1>3
-----------------------------------------------------------------------------
(* The steps under the gate, and those of the child. *)

\* The gate is taken free, so that no scan has it.
LEMMA TryGateKeeps == SurveyInv /\ TryGate => SurveyInv'
<1> SUFFICES ASSUME SurveyInv, TryGate PROVE SurveyInv'
  OBVIOUS
<1> USE DEF TryGate, config, process
<1>1. SurveyTypeOK /\ ChildIsWaitedFor /\ at = "gate" /\ child = "none"
  BY DEF SurveyInv, ChildIsWaitedFor
<1>2. CASE gate = "free"
  <2>1. /\ at' = "start" /\ gate' = "check"
        /\ UNCHANGED <<config, scanning, process, dialling, survey>>
    BY <1>2
  <2>2. OwnProbed' = OwnProbed /\ Blocked(probes)' = Blocked(probes)
    BY <2>1, OpenTargetStays DEF dialling
  <2>3. SurveyTypeOK'
    BY <1>1, <2>1 DEF SurveyTypeOK, Places, dialling
  <2>4. GateIsKept' /\ ChildIsWaitedFor'
    BY <1>1, <1>2, <2>1 DEF SurveyInv, GateIsKept, ChildIsWaitedFor, Gated
  <2>5. ProbesWereHeeded'
    BY <1>1, <2>1, <2>2 DEF SurveyInv, ProbesWereHeeded, dialling, Gated
  <2>6. ReplyIsWhole' /\ SurveyIsWhole'
    BY <1>1, <2>1 DEF ReplyIsWhole, SurveyIsWhole
  <2> QED
    BY <2>3, <2>4, <2>5, <2>6 DEF SurveyInv
<1>3. CASE gate # "free"
  <2>1. at' = "keys" /\ survey' = NoSurvey /\ mayOpen' = FALSE /\ UNCHANGED <<config, locks, process>>
    BY <1>3 DEF AddRow, locks
  <2> QED
    BY <1>1, <2>1, OutsideKeeps DEF Outside, Places, Gated
<1> QED
  BY <1>2, <1>3

\* A step under the gate that leaves what was probed and who has the gate.
LEMMA GatedKeeps ==
    ASSUME SurveyInv, SurveyTypeOK', at \in Gated, at' \in Gated,
           UNCHANGED <<config, dialling, locks>>,
           child' # "none" => at' = "wait", child' = "opening" => OpenTarget,
           ReplyIsWhole', SurveyIsWhole'
    PROVE  SurveyInv'
<1>1. GateIsKept'
  BY DEF SurveyInv, GateIsKept, config, locks
<1>2. OpenTarget' = OpenTarget /\ OwnProbed' = OwnProbed /\ Blocked(probes)' = Blocked(probes)
  BY OpenTargetStays DEF config, dialling
<1>3. ProbesWereHeeded'
  BY <1>2 DEF SurveyInv, ProbesWereHeeded, config, dialling, Gated
<1>4. ChildIsWaitedFor'
  BY DEF ChildIsWaitedFor
<1> QED
  BY <1>1, <1>3, <1>4 DEF SurveyInv

\* The child starts, or never does.
LEMMA StartKeeps == SurveyInv /\ StartChild => SurveyInv'
<1> SUFFICES ASSUME SurveyInv, StartChild PROVE SurveyInv'
  OBVIOUS
<1>1. SurveyTypeOK /\ ChildIsWaitedFor /\ at = "start" /\ child = "none"
  BY DEF SurveyInv, ChildIsWaitedFor, StartChild
<1>2. UNCHANGED <<config, dialling, locks>>
  BY DEF StartChild
<1>3. CASE at' = "release"
  <2>1. UNCHANGED process /\ survey' = Survey({}, "untried", FALSE, "no answer", "none")
    BY <1>3 DEF StartChild
  <2>2. SurveyTypeOK'
    BY <1>1, <1>2, <1>3, <2>1 DEF SurveyTypeOK, Places, Survey, Openings, StartErrors,
       ListingFailures, process, locks, config, dialling
  <2>3. ReplyIsWhole' /\ SurveyIsWhole'
    BY <1>1, <2>1 DEF ReplyIsWhole, SurveyIsWhole, Survey, process
  <2> QED
    BY <1>1, <1>2, <1>3, <2>1, <2>2, <2>3, GatedKeeps DEF Gated, process
<1>4. CASE at' = "wait"
  <2>1. /\ child' = "starting" /\ exit' = "none" /\ said' = NoReply /\ UNCHANGED survey
    BY <1>4 DEF StartChild
  <2>2. SurveyTypeOK'
    BY <1>1, <1>2, <1>4, <2>1 DEF SurveyTypeOK, Places, ChildPlaces, NoReply, Openings,
       StartErrors, locks, config, dialling
  <2>3. ReplyIsWhole' /\ SurveyIsWhole'
    BY <1>1, <1>4, <2>1 DEF ReplyIsWhole, SurveyIsWhole
  <2> QED
    BY <1>1, <1>2, <1>4, <2>1, <2>2, <2>3, GatedKeeps DEF Gated
<1> QED
  BY <1>3, <1>4 DEF StartChild

\* What a reply is read as is whole, if the reply is.
LEMMA EnumeratedIsWhole ==
    ASSUME NEW heard \in [devices : SUBSET Devices, opened : Openings, startError : StartErrors],
           mayOpen \in BOOLEAN,
           /\ OpenTarget /\ "own" \notin heard.devices /\ heard.startError = "none"
           => heard.opened # "untried"
    PROVE  /\ Enumerated(heard) \in
                  [devices : SUBSET Devices, opened : Openings, withheld : BOOLEAN,
                   failure : ListingFailures, startError : StartErrors]
           /\ Enumerated(heard).startError = "none" /\ ~Enumerated(heard).withheld
              /\ Unlisted(Enumerated(heard).devices)
              => Enumerated(heard).opened # "untried"
<1>1. CASE heard.startError # "none"
  <2>1. Enumerated(heard) = Survey({}, "untried", FALSE, "none", heard.startError)
    BY <1>1 DEF Enumerated
  <2> QED
    BY <1>1, <2>1 DEF Survey, Openings, ListingFailures, StartErrors
<1>2. CASE heard.startError = "none" /\ (~setup.device.named \/ "own" \in heard.devices)
  <2>1. Enumerated(heard) = Survey(heard.devices, "untried", FALSE, "none", "none")
    BY <1>2 DEF Enumerated
  <2> QED
    BY <1>2, <2>1 DEF Survey, Openings, ListingFailures, StartErrors, Unlisted
<1>3. CASE heard.startError = "none" /\ ~(~setup.device.named \/ "own" \in heard.devices)
  <2>1. Enumerated(heard) = Survey(heard.devices, IF mayOpen THEN heard.opened ELSE "untried",
                                   ~mayOpen, "none", "none")
    BY <1>3 DEF Enumerated
  <2>2. mayOpen => heard.opened # "untried"
    BY <1>3 DEF OpenTarget
  <2>3. CASE mayOpen = TRUE
    <3>1. Enumerated(heard) = Survey(heard.devices, heard.opened, FALSE, "none", "none")
      BY <2>1, <2>3
    <3> QED
      BY <2>2, <2>3, <3>1 DEF Survey, ListingFailures, StartErrors
  <2>4. CASE mayOpen = FALSE
    <3>1. Enumerated(heard) = Survey(heard.devices, "untried", TRUE, "none", "none")
      BY <2>1, <2>4
    <3> QED
      BY <3>1 DEF Survey, Openings, ListingFailures, StartErrors
  <2> QED
    BY <2>3, <2>4
<1> QED
  BY <1>1, <1>2, <1>3

\* The wait for the child ends with the child reaped, whatever ended it.
LEMMA ReapedKeeps ==
    ASSUME SurveyInv, at = "wait", at' \in {"release", "releaseCut"}, Reaped,
           UNCHANGED <<config, dialling, locks>>,
           survey' \in [devices : SUBSET Devices, opened : Openings, withheld : BOOLEAN,
                        failure : ListingFailures, startError : StartErrors],
           SurveyIsWhole'
    PROVE  SurveyInv'
<1>1. NoReply \in [devices : SUBSET Devices, opened : Openings, startError : StartErrors]
  BY DEF NoReply, Openings, StartErrors
<1>2. SurveyTypeOK'
  BY <1>1 DEF SurveyInv, SurveyTypeOK, Places, ChildPlaces, Reaped, config, dialling, locks
<1>3. ReplyIsWhole'
  BY DEF ReplyIsWhole, Reaped
<1> QED
  BY <1>2, <1>3, GatedKeeps DEF Gated, Reaped

\* A survey of a child that failed to answer.
LEMMA FailedIsWhole ==
    ASSUME NEW why \in ListingFailures \ {"none"}, Failed(why)
    PROVE  /\ survey' \in [devices : SUBSET Devices, opened : Openings, withheld : BOOLEAN,
                           failure : ListingFailures, startError : StartErrors]
           /\ SurveyIsWhole'
<1>1. survey' = Survey({}, "untried", FALSE, why, "none")
  BY DEF Failed
<1>2. survey'.failure # "none"
  BY <1>1 DEF Survey
<1> QED
  BY <1>1, <1>2 DEF Survey, Openings, StartErrors, SurveyIsWhole

\* The child's answer, the stop, the deadline, and a wait that raises.
LEMMA WaitSteps ==
    ASSUME SurveyInv, ChildAnswered \/ StopListing \/ DeadlineListing \/ WaitRaises
    PROVE  SurveyInv'
<1>1. SurveyTypeOK /\ ReplyIsWhole /\ mayOpen \in BOOLEAN
  BY DEF SurveyInv, SurveyTypeOK
<1>2. /\ at = "wait" /\ at' \in {"release", "releaseCut"} /\ Reaped
      /\ UNCHANGED <<config, dialling, locks>>
  BY DEF ChildAnswered, StopListing, DeadlineListing, WaitRaises, At
<1> DEFINE Surveys == [devices : SUBSET Devices, opened : Openings, withheld : BOOLEAN,
                       failure : ListingFailures, startError : StartErrors]
<1>w. ASSUME NEW heard \in [devices : SUBSET Devices, opened : Openings,
                            startError : StartErrors],
             /\ OpenTarget /\ "own" \notin heard.devices /\ heard.startError = "none"
             => heard.opened # "untried",
             survey' = Enumerated(heard)
      PROVE  survey' \in Surveys /\ SurveyIsWhole'
  <2>1. /\ survey' \in Surveys
        /\ survey'.startError = "none" /\ ~survey'.withheld /\ Unlisted(survey'.devices)
           => survey'.opened # "untried"
    BY <1>1, <1>w, EnumeratedIsWhole
  <2>2. Unlisted(survey'.devices) = Unlisted(survey.devices)'
    BY <1>2 DEF Unlisted, config
  <2> QED
    BY <2>1, <2>2 DEF SurveyIsWhole
<1>3. survey' \in Surveys /\ SurveyIsWhole'
  <2>1. CASE StopListing
    BY <1>1, <2>1 DEF StopListing, At, SurveyTypeOK, SurveyIsWhole
  <2>2. CASE \E why \in {"timed out", "crashed", "no answer"} : Failed(why)
    BY <2>2, FailedIsWhole DEF ListingFailures
  <2>3. CASE WaitRaises
    <3> DEFINE heard == [NoReply EXCEPT !.opened = IF OpenTarget THEN "refused" ELSE "untried"]
    <3>1. heard = [devices |-> {}, opened |-> IF OpenTarget THEN "refused" ELSE "untried",
                   startError |-> "none"]
      BY DEF NoReply
    <3>2. heard \in [devices : SUBSET Devices, opened : Openings, startError : StartErrors]
      BY <3>1 DEF Openings, StartErrors
    <3>3. OpenTarget => heard.opened # "untried"
      BY <3>1
    <3>4. survey' = Enumerated(heard)
      BY <2>3 DEF WaitRaises
    <3> HIDE DEF heard
    <3> QED
      BY <3>2, <3>3, <3>4, <1>w
  <2>4. CASE ChildAnswered /\ exit = "clean" /\ survey' = Enumerated(said)
    <3>1. /\ said \in [devices : SUBSET Devices, opened : Openings, startError : StartErrors]
          /\ child = "exited"
      BY <1>1, <2>4 DEF ChildAnswered, SurveyTypeOK
    <3>2. /\ OpenTarget /\ "own" \notin said.devices /\ said.startError = "none"
          => said.opened # "untried"
      BY <1>1, <2>4, <3>1 DEF ReplyIsWhole
    <3> QED
      BY <2>4, <3>1, <3>2, <1>w
  <2> QED
    BY <2>1, <2>2, <2>3, <2>4 DEF ChildAnswered, DeadlineListing
<1> QED
  BY <1>2, <1>3, ReapedKeeps

\* The gate is let go, with the row or cut short.
LEMMA ReleaseKeeps ==
    ASSUME SurveyInv, Release \/ ReleaseCut
    PROVE  SurveyInv'
<1>1. SurveyTypeOK /\ ChildIsWaitedFor /\ GateIsKept
  BY DEF SurveyInv
<1>2. /\ at \in {"release", "releaseCut"} /\ server /\ at' \in {"keys", "cut"}
      /\ gate' = "free" /\ mayOpen' = FALSE /\ survey' = NoSurvey
      /\ UNCHANGED <<config, scanning, process>>
  BY DEF Release, ReleaseCut, AddRow, CutShort
<1>3. child = "none" /\ child' = "none" /\ scanning # "holding"
  BY <1>1, <1>2 DEF ChildIsWaitedFor, GateIsKept, Gated, process
<1>4. SurveyTypeOK'
  <2>1. NoSurvey \in [devices : SUBSET Devices, opened : Openings, withheld : BOOLEAN,
                     failure : ListingFailures, startError : StartErrors]
    BY DEF NoSurvey, Survey, Openings, StartErrors, ListingFailures
  <2> QED
    BY <1>1, <1>2, <2>1 DEF SurveyTypeOK, Places, config, process
<1>5. GateIsKept' /\ ChildIsWaitedFor'
  BY <1>2, <1>3 DEF GateIsKept, ChildIsWaitedFor, Gated
<1>6. ProbesWereHeeded'
  BY <1>2, <1>3 DEF ProbesWereHeeded, Gated
<1>7. ReplyIsWhole' /\ SurveyIsWhole'
  BY <1>2, <1>3 DEF ReplyIsWhole, SurveyIsWhole
<1> QED
  BY <1>4, <1>5, <1>6, <1>7 DEF SurveyInv

\* The child is waited for at every step of its own.
LEMMA ChildKeeps ==
    ASSUME SurveyInv, child # "none", UNCHANGED <<config, turn, dialling, locks, survey>>,
           SurveyTypeOK', child' = "opening" => OpenTarget, ReplyIsWhole'
    PROVE  SurveyInv'
<1>1. at = "wait" /\ at' = at
  BY DEF SurveyInv, ChildIsWaitedFor, turn
<1>2. SurveyIsWhole'
  BY <1>1 DEF SurveyIsWhole
<1> QED
  BY <1>1, <1>2, GatedKeeps DEF Gated

\* Each step of the child.
LEMMA ChildStepsKeep == SurveyInv /\ ChildSteps => SurveyInv'
<1> SUFFICES ASSUME SurveyInv, ChildSteps PROVE SurveyInv'
  OBVIOUS
<1> USE DEF Child
<1>1. SurveyTypeOK /\ ReplyIsWhole
  BY DEF SurveyInv
<1>2. UNCHANGED <<config, turn, dialling, locks, survey>>
  BY DEF ChildSteps, ReadRequest, LoadSane, ListDevices, OpenAndClose, Exits, Crashes,
         AlarmFires, OrphanReaped, ChildOnly
<1>3. OpenTarget' = OpenTarget
  BY <1>2, OpenTargetStays DEF config, dialling
<1>4. child # "none"
  BY DEF ChildSteps, ReadRequest, LoadSane, ListDevices, OpenAndClose, Exits, Crashes,
         AlarmFires, OrphanReaped, Alive
<1> DEFINE Replies == [devices : SUBSET Devices, opened : Openings, startError : StartErrors]
<1>5. ASSUME child' \in ChildPlaces, exit' \in {"none", "bad", "clean", "signal", "alarm"},
             said' \in Replies
      PROVE  SurveyTypeOK'
  BY <1>1, <1>2, <1>5 DEF SurveyTypeOK, config, turn, dialling, locks
<1>t. said \in Replies /\ exit \in {"none", "bad", "clean", "signal", "alarm"}
  BY <1>1 DEF SurveyTypeOK
<1>6. CASE ReadRequest \/ Crashes \/ AlarmFires \/ OrphanReaped
  <2>0. NoReply \in Replies
    BY DEF NoReply, Openings, StartErrors
  <2>1. /\ child' \in {"loading", "exited", "none"} /\ said' \in Replies
        /\ exit' \in {"none", "bad", "signal", "alarm", "clean"}
        /\ child' = "exited" => exit' # "clean"
    BY <1>6, <1>t, <2>0 DEF ReadRequest, Crashes, AlarmFires, OrphanReaped, Reaped
  <2>2. SurveyTypeOK'
    BY <1>5, <2>1 DEF ChildPlaces
  <2>3. ReplyIsWhole'
    BY <2>1 DEF ReplyIsWhole
  <2> QED
    BY <1>2, <1>4, <2>1, <2>2, <2>3, ChildKeeps
<1>7. CASE LoadSane
  <2>1. CASE child' = "listing" /\ UNCHANGED <<said, exit>>
    <3>1. SurveyTypeOK' /\ ReplyIsWhole'
      BY <1>5, <1>t, <2>1 DEF ChildPlaces, ReplyIsWhole
    <3> QED
      BY <1>2, <1>4, <2>1, <3>1, ChildKeeps
  <2>2. ASSUME child' = "replied", exit' = exit, NEW why \in {"import", "other"},
               said' = [NoReply EXCEPT !.startError = why,
                                       !.opened = IF OpenTarget THEN "refused" ELSE @]
        PROVE  SurveyInv'
    <3>1. said' \in Replies /\ said'.startError # "none"
      BY <2>2 DEF NoReply, Openings, StartErrors
    <3>2. SurveyTypeOK' /\ ReplyIsWhole'
      BY <1>5, <1>t, <2>2, <3>1 DEF ChildPlaces, ReplyIsWhole
    <3> QED
      BY <1>2, <1>4, <2>2, <3>2, ChildKeeps
  <2> QED
    BY <1>7, <2>1, <2>2 DEF LoadSane
<1>8. CASE ListDevices
  <2>1. PICK seen \in SUBSET Devices :
          /\ said' = [said EXCEPT !.devices = seen]
          /\ \/ OpenTarget /\ "own" \notin seen /\ child = "listing" /\ child' = "opening"
             \/ ~(OpenTarget /\ "own" \notin seen) /\ child = "listing" /\ child' = "replied"
    BY <1>8 DEF ListDevices
  <2>2. said' \in Replies /\ said'.devices = seen /\ said'.startError = said.startError
    BY <1>t, <2>1
  <2>3. exit' = exit
    BY <1>8 DEF ListDevices
  <2>4. SurveyTypeOK'
    BY <1>5, <1>t, <2>1, <2>2, <2>3 DEF ChildPlaces
  <2>5. ReplyIsWhole'
    BY <1>3, <2>1, <2>2 DEF ReplyIsWhole
  <2> QED
    BY <1>2, <1>4, <2>1, <2>4, <2>5, ChildKeeps
<1>9. CASE OpenAndClose
  <2>1. PICK how \in {"opened", "refused"} : said' = [said EXCEPT !.opened = how]
    BY <1>9 DEF OpenAndClose
  <2>2. said' \in Replies /\ said'.opened = how
    BY <1>t, <2>1 DEF Openings
  <2>3. child' = "replied" /\ exit' = exit
    BY <1>9 DEF OpenAndClose
  <2>4. SurveyTypeOK' /\ ReplyIsWhole'
    BY <1>5, <1>t, <2>2, <2>3 DEF ChildPlaces, ReplyIsWhole
  <2> QED
    BY <1>2, <1>4, <2>3, <2>4, ChildKeeps
<1>10. CASE Exits
  <2>1. child = "replied" /\ child' = "exited" /\ said' = said /\ exit' = "clean"
    BY <1>10 DEF Exits
  <2>2. SurveyTypeOK'
    BY <1>5, <1>t, <2>1 DEF ChildPlaces
  <2>3. ReplyIsWhole'
    BY <1>1, <1>3, <2>1 DEF ReplyIsWhole
  <2> QED
    BY <1>2, <1>4, <2>1, <2>2, <2>3, ChildKeeps
<1> QED
  BY <1>6, <1>7, <1>8, <1>9, <1>10 DEF ChildSteps

\* The scan that wants the gate, the stop, the clock, and the end of the server.
LEMMA OtherSteps ==
    ASSUME SurveyInv,
           \/ ScanAsks \/ ScanEnters \/ ScanLeaves \/ RequestAbort \/ ServerKilled
           \/ DeadlinePasses \/ UNCHANGED surveyVars
    PROVE  SurveyInv'
<1> USE DEF ScanAsks, ScanEnters, ScanLeaves, RequestAbort, ServerKilled, DeadlinePasses,
            surveyVars, config, turn, dialling, locks, process
<1>1. SurveyTypeOK /\ GateIsKept
  BY DEF SurveyInv
<1>2. UNCHANGED <<setup, at, probes, mayOpen, child, exit, said, survey>>
  OBVIOUS
<1>3. SurveyTypeOK'
  BY ZenonT(40), <1>1, <1>2 DEF SurveyTypeOK
<1>4. GateIsKept'
  BY <1>1, <1>2 DEF GateIsKept
<1>5. OpenTarget' = OpenTarget /\ OwnProbed' = OwnProbed /\ Blocked(probes)' = Blocked(probes)
  BY <1>2, OpenTargetStays
<1>6. ChildIsWaitedFor' /\ ProbesWereHeeded'
  BY <1>2, <1>5 DEF SurveyInv, ChildIsWaitedFor, ProbesWereHeeded
<1>7. ReplyIsWhole' /\ SurveyIsWhole'
  <2>1. ReplyIsWhole'
    BY <1>2, <1>5 DEF SurveyInv, ReplyIsWhole
  <2>2. SurveyIsWhole'
    BY <1>2 DEF SurveyInv, SurveyIsWhole, Unlisted
  <2> QED
    BY <2>1, <2>2
<1> QED
  BY <1>3, <1>4, <1>6, <1>7 DEF SurveyInv

\* Every step keeps the invariant.
LEMMA SurveySteps == SurveyInv /\ [SurveyNext]_surveyVars => SurveyInv'
<1> SUFFICES ASSUME SurveyInv, [SurveyNext]_surveyVars PROVE SurveyInv'
  OBVIOUS
<1>1. CASE \/ BeginRun \/ AllRowsIn \/ AbortBetweenKeys \/ OtherKey \/ SkipScanner \/ Shown
           \/ BeginPreflight \/ Resolve \/ TryAddress \/ AddressesSpent
  BY <1>1, RowSteps
<1>2. CASE OwnHost \/ Judge
  BY <1>2, OwnHostKeeps, JudgeKeeps
<1>3. CASE TryGate \/ StartChild
  BY <1>3, TryGateKeeps, StartKeeps
<1>4. CASE ChildAnswered \/ StopListing \/ DeadlineListing \/ WaitRaises
  BY <1>4, WaitSteps
<1>5. CASE Release \/ ReleaseCut
  BY <1>5, ReleaseKeeps
<1>6. CASE ChildSteps
  BY <1>6, ChildStepsKeep
<1>7. CASE \/ ScanAsks \/ ScanEnters \/ ScanLeaves \/ RequestAbort \/ ServerKilled
           \/ DeadlinePasses \/ UNCHANGED surveyVars
  BY <1>7, OtherSteps
<1> QED
  BY <1>1, <1>2, <1>3, <1>4, <1>5, <1>6, <1>7 DEF SurveyNext, RunGoesOn, Preflight, Listing

\* Whatever the setup, however its hosts answer, wherever the child hangs, crashes
\* or is cut short, and whenever the server is stopped or killed.
THEOREM SurveyInvariant == SurveySpec => []SurveyInv
  BY InitSurvey, SurveySteps, PTL DEF SurveySpec
-----------------------------------------------------------------------------
(* What the invariant says of the code. *)

\* The child that lists the scanners is reaped before the gate is let go, so that
\* no scan ever shares the scanner with it while the server lives (checks.py,
\* listing.py run_listing_child).
THEOREM ChildStaysUnderGate == SurveySpec => []GateCoversChild
<1>1. SurveyInv => GateCoversChild
  BY DEF SurveyInv, GateCoversChild, ChildIsWaitedFor, GateIsKept, Gated
<1> QED
  BY <1>1, SurveyInvariant, PTL

\* While the library is loaded and used no host has timed out, and it opens a
\* network device only behind a probe of that device's own host.
LEMMA InvDials == SurveyInv => DialsOnlyWhatAnswered
<1> SUFFICES ASSUME SurveyInv PROVE DialsOnlyWhatAnswered
  OBVIOUS
<1>1. ChildIsWaitedFor /\ ProbesWereHeeded
  BY DEF SurveyInv
<1>2. child \in {"loading", "listing", "opening"} => ~Blocked(probes)
  BY <1>1 DEF ChildIsWaitedFor, ProbesWereHeeded, Gated
<1>3. child = "opening" /\ setup.device.net => OwnProbed
  BY <1>1 DEF ChildIsWaitedFor, ProbesWereHeeded, Gated, OpenTarget
<1> QED
  BY <1>2, <1>3 DEF DialsOnlyWhatAnswered, OwnProbed

\* The row of the scanner, case by case of scanner_verdict.
LEMMA InvVerdict == SurveyInv => VerdictIsEarned
<1> SUFFICES ASSUME SurveyInv, at = "release" PROVE VerdictIsEarned
  BY DEF VerdictIsEarned
<1>r. PICK row : row = ScannerVerdict(probes, survey, setup.device)
  OBVIOUS
<1>h. \A s, w : row = HealthRow(s, w) => row.state = s /\ row.why = w
  BY DEF HealthRow
<1>s. SUFFICES /\ row.state = OK => ~SomeHostUnwell(probes) /\ (WantedDevices # {} \/ survey.opened = "opened")
               /\ row.why \in {"missing", "own host problem"} => survey.opened = "refused"
  BY <1>r DEF VerdictIsEarned
<1>1. SurveyTypeOK /\ SurveyIsWhole /\ ~Blocked(probes)
  BY DEF SurveyInv, ProbesWereHeeded, Gated
<1>t. survey.failure \in ListingFailures /\ survey.startError \in StartErrors
  BY <1>1 DEF SurveyTypeOK
<1>2. CASE survey.failure # "none"
  <2>1. row = HealthRow(WARN, survey.failure)
    BY <1>r, <1>1, <1>2 DEF ScannerVerdict, ListingFailureRow
  <2>2. row.state = "WARN" /\ row.why \in ListingFailures
    BY <1>h, <1>t, <2>1 DEF WARN
  <2> QED
    BY <2>2 DEF ListingFailures, OK
<1>3. CASE survey.failure = "none" /\ survey.startError # "none"
  <2>1. row = StartErrorRow(survey.startError)
    BY <1>r, <1>1, <1>3 DEF ScannerVerdict
  <2>2. row.state = "FAIL" /\ row.why \in {"not installed", "would not start"}
    <3>1. row = HealthRow(FAIL, "not installed") \/ row = HealthRow(FAIL, "would not start")
      BY <2>1 DEF StartErrorRow
    <3>2. \/ row.state = FAIL /\ row.why = "not installed"
          \/ row.state = FAIL /\ row.why = "would not start"
      BY <1>h, <3>1, Zenon
    <3> QED
      BY <3>2 DEF FAIL
  <2> QED
    BY <2>2 DEF OK
<1>4. CASE survey.failure = "none" /\ survey.startError = "none"
  <2>0. row = IF Seen(survey, setup.device)
              THEN ReadyRow(probes, IF setup.device.named THEN 0 ELSE Cardinality(survey.devices))
              ELSE IF survey.withheld THEN HealthRow(WARN, "not probed")
                   ELSE UnusableRow(probes, setup.device)
    BY <1>r, <1>1, <1>4 DEF ScannerVerdict
  <2>1. CASE Seen(survey, setup.device)
    <3>1. \E n : row = ReadyRow(probes, n)
      BY <2>0, <2>1
    <3>2. /\ row.why \notin {"missing", "own host problem"}
          /\ row.state = OK => ~SomeHostUnwell(probes)
      <4>1. \/ row = HealthRow(WARN, "ready, but") \/ row = HealthRow(WARN, "none chosen")
            \/ row = HealthRow(OK, "ready") /\ ~SomeHostUnwell(probes)
        BY <3>1 DEF ReadyRow
      <4>2. \/ row.state = WARN /\ row.why = "ready, but"
            \/ row.state = WARN /\ row.why = "none chosen"
            \/ row.state = OK /\ row.why = "ready" /\ ~SomeHostUnwell(probes)
        BY <1>h, <4>1, Zenon
      <4> QED
        BY <4>2 DEF OK, WARN
    <3>3. WantedDevices # {} \/ survey.opened = "opened"
      BY <2>1 DEF Seen, WantedDevices
    <3> QED
      BY <3>2, <3>3
  <2>2. CASE ~Seen(survey, setup.device) /\ survey.withheld
    <3>1. row.state = "WARN" /\ row.why = "not probed"
      BY <1>h, <2>0, <2>2 DEF WARN
    <3> QED
      BY <3>1 DEF OK
  <2>3. CASE ~Seen(survey, setup.device) /\ ~survey.withheld
    <3>0. row = UnusableRow(probes, setup.device)
      BY <2>0, <2>3
    <3>5. \/ setup.device.named
                /\ row \in {HealthRow(FAIL, "own host problem"), HealthRow(FAIL, "missing")}
          \/ row \in {HealthRow(FAIL, "host problem"), HealthRow(FAIL, "nothing found")}
      BY <3>0 DEF UnusableRow
    <3>1. row.state = "FAIL"
      BY <1>h, <3>5 DEF FAIL
    <3>6. setup.device.named \/ row.why = "host problem" \/ row.why = "nothing found"
      BY <1>h, <3>5, Zenon
    <3>2. row.why \in {"missing", "own host problem"} => setup.device.named
      BY <3>6
    <3>3. setup.device.named => "own" \notin survey.devices /\ survey.opened # "opened"
      BY <2>3 DEF Seen
    <3>4. setup.device.named => survey.opened = "refused"
      BY <1>1, <1>4, <2>3, <3>3 DEF SurveyTypeOK, Openings, SurveyIsWhole, Unlisted
    <3> QED
      BY <3>1, <3>2, <3>4 DEF OK
  <2> QED
    BY <2>1, <2>2, <2>3
<1> QED
  BY <1>t, <1>2, <1>3, <1>4

\* What the probes of the saned hosts found is heeded before the scanner library
\* is let loose and in the row that is shown: a scanner is green only if it was
\* seen behind hosts that are all well, and missing only if it was opened in vain
\* (checks.py, saned_probe.py).
THEOREM ProbesCount == SurveySpec => []ProbesAreHeeded
<1>1. SurveyInv => ProbesAreHeeded
  BY InvDials, InvVerdict DEF ProbesAreHeeded
<1> QED
  BY <1>1, SurveyInvariant, PTL
=============================================================================
