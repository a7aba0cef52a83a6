---------------------------- MODULE SingleFlight ----------------------------
(***************************************************************************)
(* SingleFlightResult.get (web/throttle.py), the shared answer behind      *)
(* GET /api/paperless/test: one caller computes, callers beside it reuse   *)
(* the previous answer, and before any answer exists at most MaxWaiters    *)
(* of them wait for the first.                                             *)
(*                                                                         *)
(* Results are numbered in the order they are stored, so result 0 is "no   *)
(* result yet".  The clock is only the moment the newest one expires.      *)
(***************************************************************************)
EXTENDS Integers, FiniteSets

CONSTANTS
    Visitors,        \* request threads, each calling get over and over
    MaxWaiters,     \* max_waiters
    Free,           \* nobody holds the flight lock
    MaxResults      \* bound: the result of this number never expires

ASSUME SingleFlightAssumption ==
    /\ IsFiniteSet(Visitors) /\ Free \notin Visitors
    /\ MaxWaiters \in Nat /\ MaxResults \in Nat \ {0}

VARIABLES
    stored, fresh,  \* _last: its number, and whether it is younger than the TTL
    flight,         \* _flight: who holds it
    waiters,        \* _waiters
    place,          \* where each caller is
    got,            \* the result each caller is to return
    since           \* history: the newest result when the call began

flightShared == <<stored, fresh, flight, waiters>>
flightVars == <<flightShared, place, got, since>>

Waiting == {"waiting", "acquired", "gaveUp"}
Holding == {"acquired", "readBack", "lead", "computing", "storing",
            "unlock", "unlockRaised"}
Ended == {"answered", "timedOut", "raised"}
Places == {"out", "try", "previous", "enqueue"} \cup Waiting \cup Holding \cup Ended

FlightInit ==
    /\ stored = 0 /\ fresh = FALSE /\ flight = Free /\ waiters = 0
    /\ place = [c \in Visitors |-> "out"]
    /\ got = [c \in Visitors |-> 0] /\ since = [c \in Visitors |-> 0]

Move(c, from, to) == place[c] = from /\ place' = [place EXCEPT ![c] = to]

\* Caller c is to return the newest result, and goes on to there.
Take(c, there) ==
    place' = [place EXCEPT ![c] = there] /\ got' = [got EXCEPT ![c] = stored]

\* The newest result grows older than the TTL.
Expire ==
    /\ fresh /\ stored < MaxResults /\ fresh' = FALSE
    /\ UNCHANGED <<stored, flight, waiters, place, got, since>>

\* get: a fresh result is handed to every caller.
Arrive(c) ==
    /\ place[c] = "out"
    /\ since' = [since EXCEPT ![c] = stored]
    /\ \/ fresh /\ Take(c, "answered")
       \/ ~fresh /\ Move(c, "out", "try") /\ UNCHANGED got
    /\ UNCHANGED flightShared

TryFlight(c) ==
    /\ \/ flight = Free /\ flight' = c /\ Move(c, "try", "lead")
       \/ flight # Free /\ UNCHANGED flight /\ Move(c, "try", "previous")
    /\ UNCHANGED <<stored, fresh, waiters, got, since>>

\* A follower with a previous result does not wait.
ReadPrevious(c) ==
    /\ place[c] = "previous"
    /\ \/ stored # 0 /\ Take(c, "answered")
       \/ stored = 0 /\ Move(c, "previous", "enqueue") /\ UNCHANGED got
    /\ UNCHANGED <<flightShared, since>>

-----------------------------------------------------------------------------
(* _wait_for_leader *)

Enqueue(c) ==
    /\ \/ waiters < MaxWaiters /\ Move(c, "enqueue", "waiting") /\ waiters' = waiters + 1
       \/ waiters >= MaxWaiters /\ Move(c, "enqueue", "timedOut") /\ UNCHANGED waiters
    /\ UNCHANGED <<stored, fresh, flight, got, since>>

Acquire(c) ==
    /\ Move(c, "waiting", "acquired") /\ flight = Free /\ flight' = c
    /\ UNCHANGED <<stored, fresh, waiters, got, since>>

TimeOutNever(c) == FALSE /\ UNCHANGED flightVars
\* The wait bound passes, perhaps at the moment the lock is given up.
TimeOut(c) ==
    /\ Move(c, "waiting", "gaveUp")
    /\ UNCHANGED <<flightShared, got, since>>

LeaveQueueIfLed(c) ==
    /\ \/ Move(c, "acquired", "readBack") /\ waiters' = waiters - 1
       \/ Move(c, "gaveUp", "timedOut") /\ UNCHANGED waiters
    /\ UNCHANGED <<stored, fresh, flight, got, since>>
\* The finally: a waiter leaves the count however its wait ended.
LeaveQueue(c) ==
    /\ \/ Move(c, "acquired", "readBack")
       \/ Move(c, "gaveUp", "timedOut")
    /\ waiters' = waiters - 1
    /\ UNCHANGED <<stored, fresh, flight, got, since>>

-----------------------------------------------------------------------------
(* The caller that holds the flight. *)

ReadBackKeepingLock(c) ==
    /\ place[c] = "readBack"
    /\ \/ stored # 0 /\ Take(c, "answered")
       \/ stored = 0 /\ Move(c, "readBack", "lead") /\ UNCHANGED got
    /\ UNCHANGED <<flightShared, since>>
\* The leader waited for has stored its result, unless it raised.
ReadBack(c) ==
    /\ place[c] = "readBack"
    /\ \/ stored # 0 /\ Take(c, "unlock")
       \/ stored = 0 /\ Move(c, "readBack", "lead") /\ UNCHANGED got
    /\ UNCHANGED <<flightShared, since>>

LeadUnchecked(c) ==
    /\ Move(c, "lead", "computing") /\ UNCHANGED <<flightShared, got, since>>
\* _lead: another leader may have stored between this caller's read and its
\* acquire.
Lead(c) ==
    /\ place[c] = "lead"
    /\ \/ fresh /\ Take(c, "unlock")
       \/ ~fresh /\ Move(c, "lead", "computing") /\ UNCHANGED got
    /\ UNCHANGED <<flightShared, since>>

Compute(c) ==
    /\ \/ Move(c, "computing", "storing")
       \/ Move(c, "computing", "unlockRaised")
    /\ UNCHANGED <<flightShared, got, since>>

Store(c) ==
    /\ Move(c, "storing", "unlock")
    /\ stored' = stored + 1 /\ fresh' = TRUE
    /\ got' = [got EXCEPT ![c] = stored + 1]
    /\ UNCHANGED <<flight, waiters, since>>

\* The finally of _lead, and get's own release.
Unlock(c) ==
    /\ \/ Move(c, "unlock", "answered")
       \/ Move(c, "unlockRaised", "raised")
    /\ flight' = Free
    /\ UNCHANGED <<stored, fresh, waiters, got, since>>

\* The request is answered: the caller may call again.
Return(c) ==
    /\ place[c] \in Ended /\ place' = [place EXCEPT ![c] = "out"]
    /\ UNCHANGED <<flightShared, got, since>>

Step(c) ==
    \/ TryFlight(c) \/ ReadPrevious(c) \/ Enqueue(c)
    \/ Acquire(c) \/ TimeOut(c) \/ LeaveQueue(c)
    \/ ReadBack(c) \/ Lead(c) \/ Compute(c) \/ Store(c) \/ Unlock(c)

FlightNext == Expire \/ \E c \in Visitors : Arrive(c) \/ Step(c) \/ Return(c)

FlightSpec == FlightInit /\ [][FlightNext]_flightVars

\* Every thread runs, a compute ends within the probe's own budgets, and an
\* acquire with a timeout returns.  Nobody has to call.
FairFlightSpec == FlightSpec /\ \A c \in Visitors : WF_flightVars(Step(c))
-----------------------------------------------------------------------------
FlightTypeOK ==
    /\ stored \in Nat /\ fresh \in BOOLEAN /\ flight \in Visitors \cup {Free}
    /\ waiters \in Nat
    /\ place \in [Visitors -> Places]
    /\ got \in [Visitors -> Nat] /\ since \in [Visitors -> Nat]

\* The flight is held by the caller that is computing or handing on, and by
\* nobody that has left: one lost release and no answer is ever computed again.
FlightIsHeld == \A c \in Visitors : flight = c <=> place[c] \in Holding

\* No request reaches paperless-ngx while a result younger than the TTL is
\* stored (throttle.py:122): the endpoint's rate floor.
NoComputeWhileFresh == \A c \in Visitors : place[c] \in {"computing", "storing"} => ~fresh

\* At most max_waiters followers wait at once (throttle.py:131), and one that
\* gave up makes room for the next.
Queued == {c \in Visitors : place[c] \in Waiting}
WaitersAreCounted == waiters = Cardinality(Queued) /\ waiters <= MaxWaiters

\* A caller is answered with a result at least as new as the newest one when it
\* called, and never with none, though the leader it waited for raised.
AnswerExists ==
    \A c \in Visitors : place[c] = "answered" => got[c] >= since[c] /\ got[c] # 0

\* The flight as a whole: held by one, behind the floor, with its waiters counted
\* and every caller answered, though any leader may raise (throttle.py:200).
FlightSafe == FlightIsHeld /\ NoComputeWhileFresh /\ WaitersAreCounted /\ AnswerExists

\* The inductive invariant's part about answers: the newest result is never
\* older than any call, and what is to be returned was stored.
AnswersWereStored ==
    /\ fresh => stored # 0
    /\ \A c \in Visitors :
        /\ since[c] <= stored
        /\ place[c] \in {"unlock", "answered"} => got[c] >= since[c] /\ got[c] # 0
FlightInv ==
    /\ FlightTypeOK /\ FlightIsHeld /\ NoComputeWhileFresh
    /\ WaitersAreCounted /\ AnswersWereStored

\* Every call ends: a wait behind a leader stuck on an unreachable paperless-ngx
\* would hold one of the server's worker threads for ever.
EveryCallEnds == \A c \in Visitors : place[c] \notin Ended \cup {"out"} ~> place[c] \in Ended
=============================================================================
