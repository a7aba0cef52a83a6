---------------------------- MODULE CacheProofs ----------------------------
(* Three small caches of the web server, for any number of threads: the rate
   floor of MinimumInterval, the shared answer of SingleFlight, and the lists of
   MetadataCache. *)
EXTENDS MinimumInterval, SingleFlight, MetadataCache, FiniteSetTheorems, TLAPS

(***************************************************************************)
(* The rate floor holds for any callers, any interval and any clock.       *)
(***************************************************************************)
\* What each step does to the claims that stand.
LEMMA StandingGrows ==
    ASSUME FloorTypeOK, NEW c \in Callers, Grant(c)
    PROVE  Standing' = Standing \cup {stamp[c]}
  BY DEF FloorTypeOK, Grant, Standing

\* A kept claim stands as it did.
LEMMA StandingKept ==
    ASSUME FloorTypeOK, NEW c \in Callers, Keep(c)
    PROVE  Standing' = Standing
<1>1. spent' = spent \cup {stamp[c]} /\ stamp' = stamp /\ phase[c] = "granted"
      /\ phase' = [phase EXCEPT ![c] = "out"]
  BY DEF Keep
<1>2. \A d \in Callers : phase'[d] = "granted" <=> phase[d] = "granted" /\ d # c
  BY <1>1 DEF FloorTypeOK
<1> QED
  BY <1>1, <1>2 DEF Standing

\* A release takes away one claim at most.
LEMMA StandingShrinks ==
    ASSUME FloorTypeOK, NEW c \in Callers, Release(c)
    PROVE  /\ Standing' \subseteq Standing
           /\ Standing \ {stamp[c]} \subseteq Standing'
<1>1. spent' = spent /\ stamp' = stamp /\ phase[c] = "granted"
      /\ phase' = [phase EXCEPT ![c] = "out"]
  BY DEF Release
<1>2. \A d \in Callers : phase'[d] = "granted" <=> phase[d] = "granted" /\ d # c
  BY <1>1 DEF FloorTypeOK
<1> QED
  BY <1>1, <1>2 DEF Standing

\* A reading or a refusal moves no caller into or out of "granted", and no
\* granted caller's stamp.
LEMMA StandingSame ==
    ASSUME FloorTypeOK, NEW c \in Callers, ReadClock(c) \/ Refuse(c)
    PROVE  Standing' = Standing
<1>1. /\ spent' = spent
      /\ \A d \in Callers : phase'[d] = "granted" <=> phase[d] = "granted"
      /\ \A d \in Callers : phase[d] = "granted" => stamp'[d] = stamp[d]
  BY DEF FloorTypeOK, ReadClock, Refuse
<1> QED
  BY <1>1 DEF Standing

\* A claim that is granted finds every standing claim a whole interval old: this
\* is where the floor is enforced.
LEMMA GrantIsLate ==
    ASSUME FloorInv, NEW c \in Callers, Grant(c), NEW s \in Standing
    PROVE  now - s >= Interval
<1> USE MinimumIntervalAssumption
<1>1. now \in Nat /\ stamp[c] \in Nat /\ stamp[c] <= now /\ ~TooSoon(stamp[c])
  BY DEF FloorInv, FloorTypeOK, ReadingsPast, Grant
<1>2. CASE s = lastClaim
  <2>1. s \in Nat /\ lastClaim # None
    BY <1>2 DEF FloorInv, FloorTypeOK, Standing
  <2> QED
    BY <1>1, <1>2, <2>1 DEF TooSoon
<1>3. CASE s # lastClaim
  BY <1>3 DEF FloorInv, Covered
<1> QED
  BY <1>2, <1>3

-----------------------------------------------------------------------------
\* Nothing is claimed at the start.
THEOREM InitFloor == FloorInit => FloorInv
  BY MinimumIntervalAssumption
  DEF FloorInit, FloorInv, FloorTypeOK, ReadingsPast, Covered, RecordStands,
      SharedStampIsOld, Standing

\* The types, and that every reading is past.
LEMMA FloorTypeStep == FloorInv /\ [FloorNext]_floorVars => FloorTypeOK' /\ ReadingsPast'
<1> SUFFICES ASSUME FloorInv, [FloorNext]_floorVars PROVE FloorTypeOK' /\ ReadingsPast'
  OBVIOUS
<1> USE MinimumIntervalAssumption DEF FloorInv, FloorTypeOK, ReadingsPast
<1>1. CASE Tick
  BY <1>1 DEF Tick
<1>2. ASSUME NEW c \in Callers, ReadClock(c) PROVE FloorTypeOK' /\ ReadingsPast'
  BY <1>2 DEF ReadClock
<1>3. ASSUME NEW c \in Callers, Grant(c) PROVE FloorTypeOK' /\ ReadingsPast'
  BY <1>3 DEF Grant
<1>4. ASSUME NEW c \in Callers, Refuse(c) PROVE FloorTypeOK' /\ ReadingsPast'
  BY <1>4 DEF Refuse
<1>5. ASSUME NEW c \in Callers, Keep(c) PROVE FloorTypeOK' /\ ReadingsPast'
  BY <1>5 DEF Keep
<1>6. ASSUME NEW c \in Callers, Release(c) PROVE FloorTypeOK' /\ ReadingsPast'
  BY <1>6 DEF Release, Cleared
<1>7. CASE UNCHANGED floorVars
  BY <1>7 DEF floorVars
<1> QED
  BY <1>1, <1>2, <1>3, <1>4, <1>5, <1>6, <1>7 DEF FloorNext

\* What the rest of FloorInv needs of a step that grants nothing and releases
\* nothing: the same record, the same standing claims, no earlier clock.
LEMMA QuietStep ==
    ASSUME FloorInv, Standing' = Standing, lastClaim' = lastClaim,
           now' \in Nat, now' >= now
    PROVE  Covered' /\ RecordStands'
<1>1. \A s \in Standing : s \in Nat
  BY DEF FloorInv, FloorTypeOK, Standing
<1>2. Covered'
  BY <1>1, MinimumIntervalAssumption DEF FloorInv, FloorTypeOK, Covered
<1> QED
  BY <1>2 DEF FloorInv, RecordStands

\* Claims that share a stamp are old enough: a caller that is granted finds
\* every standing claim old, so it shares its own stamp only with an old one.
LEMMA SharedStep == FloorInv /\ [FloorNext]_floorVars => SharedStampIsOld'
<1> SUFFICES ASSUME FloorInv, [FloorNext]_floorVars PROVE SharedStampIsOld'
  OBVIOUS
<1> USE MinimumIntervalAssumption
<1>t. FloorTypeOK /\ FloorTypeOK' /\ SharedStampIsOld
  BY FloorTypeStep DEF FloorInv
<1>1. CASE Tick
  BY <1>1, <1>t DEF Tick, FloorTypeOK, SharedStampIsOld
<1>2. ASSUME NEW c \in Callers, ReadClock(c) PROVE SharedStampIsOld'
  BY <1>2, <1>t DEF ReadClock, FloorTypeOK, SharedStampIsOld
<1>3. ASSUME NEW c \in Callers, Grant(c) PROVE SharedStampIsOld'
  <2>1. /\ phase'[c] = "granted" /\ stamp' = stamp /\ spent' = spent /\ now' = now
        /\ \A d \in Callers \ {c} : phase'[d] = phase[d]
    BY <1>3, <1>t DEF Grant, FloorTypeOK
  <2>2. \A s \in Standing : now - s >= Interval
    BY <1>3, GrantIsLate
  <2>3. \/ now - stamp[c] >= Interval
        \/ /\ stamp[c] \notin spent
           /\ \A d \in Callers \ {c} : phase'[d] = "granted" => stamp[d] # stamp[c]
    BY <2>1, <2>2 DEF Standing
  <2>4. ASSUME NEW d \in Callers \ {c}, phase'[d] = "granted"
        PROVE  \/ now - stamp[d] >= Interval
               \/ /\ stamp[d] \notin spent
                  /\ \A e \in Callers \ {d} : phase'[e] = "granted" => stamp[e] # stamp[d]
    <3>1. stamp[d] \in Standing
      BY <2>1, <2>4 DEF Standing
    <3> QED
      BY <2>2, <3>1
  <2> QED
    BY <2>1, <2>3, <2>4 DEF SharedStampIsOld
<1>4. ASSUME NEW c \in Callers, Refuse(c) PROVE SharedStampIsOld'
  BY <1>4, <1>t DEF Refuse, FloorTypeOK, SharedStampIsOld
<1>5. ASSUME NEW c \in Callers, Keep(c) PROVE SharedStampIsOld'
  BY <1>5, <1>t DEF Keep, FloorTypeOK, SharedStampIsOld
<1>6. ASSUME NEW c \in Callers, Release(c) PROVE SharedStampIsOld'
  BY <1>6, <1>t DEF Release, FloorTypeOK, SharedStampIsOld
<1>7. CASE UNCHANGED floorVars
  BY <1>7, <1>t DEF floorVars, SharedStampIsOld
<1> QED
  BY <1>1, <1>2, <1>3, <1>4, <1>5, <1>6, <1>7 DEF FloorNext

\* The record stands and every other standing claim is old.  Clearing is safe
\* because a stamp that still stands once its holder gave it back was shared.
LEMMA RecordStep == FloorInv /\ [FloorNext]_floorVars => Covered' /\ RecordStands'
<1> SUFFICES ASSUME FloorInv, [FloorNext]_floorVars PROVE Covered' /\ RecordStands'
  OBVIOUS
<1> USE MinimumIntervalAssumption
<1>t. FloorTypeOK /\ FloorTypeOK' /\ Covered /\ RecordStands /\ SharedStampIsOld
  BY FloorTypeStep DEF FloorInv
<1>n. now \in Nat /\ \A s \in Standing : s \in Nat
  BY <1>t DEF FloorTypeOK, Standing
<1>1. CASE Tick
  <2>1. Standing' = Standing /\ lastClaim' = lastClaim /\ now' = now + 1
    BY <1>1 DEF Tick, Standing
  <2> QED
    BY <2>1, <1>n, QuietStep
<1>2. ASSUME NEW c \in Callers, ReadClock(c) \/ Refuse(c) PROVE Covered' /\ RecordStands'
  <2>1. Standing' = Standing
    BY <1>2, <1>t, StandingSame
  <2>2. lastClaim' = lastClaim /\ now' = now
    BY <1>2 DEF ReadClock, Refuse
  <2> QED
    BY <2>1, <2>2, <1>n, QuietStep
<1>3. ASSUME NEW c \in Callers, Grant(c) PROVE Covered' /\ RecordStands'
  <2>1. Standing' = Standing \cup {stamp[c]} /\ lastClaim' = stamp[c] /\ now' = now
    BY <1>3, <1>t, StandingGrows DEF Grant
  <2>2. \A s \in Standing : now - s >= Interval
    BY <1>3, GrantIsLate
  <2> QED
    BY <2>1, <2>2 DEF Covered, RecordStands
<1>4. ASSUME NEW c \in Callers, Keep(c) PROVE Covered' /\ RecordStands'
  <2>1. Standing' = Standing
    BY <1>4, <1>t, StandingKept
  <2>2. lastClaim' = lastClaim /\ now' = now
    BY <1>4 DEF Keep
  <2> QED
    BY <2>1, <2>2, <1>n, QuietStep
<1>5. ASSUME NEW c \in Callers, Release(c) PROVE Covered' /\ RecordStands'
  <2>1. Standing' \subseteq Standing /\ Standing \ {stamp[c]} \subseteq Standing'
    BY <1>5, <1>t, StandingShrinks
  <2>2. now' = now /\ lastClaim' = Cleared(stamp[c])
    BY <1>5 DEF Release
  <2>3. CASE lastClaim # stamp[c]
    BY <2>1, <2>2, <2>3, <1>t DEF Cleared, Covered, RecordStands
  <2>4. CASE lastClaim = stamp[c]
    <3>1. ASSUME stamp[c] \in Standing' PROVE now - stamp[c] >= Interval
      <4>1. /\ spent' = spent /\ stamp' = stamp /\ phase[c] = "granted"
            /\ \A d \in Callers : phase'[d] = "granted" <=> phase[d] = "granted" /\ d # c
        BY <1>5, <1>t DEF Release, FloorTypeOK
      <4>2. stamp[c] \in spent
            \/ \E d \in Callers \ {c} : phase[d] = "granted" /\ stamp[d] = stamp[c]
        BY <3>1, <4>1 DEF Standing
      <4> QED
        BY <4>1, <4>2, <1>t DEF SharedStampIsOld
    <3>2. lastClaim' = None
      BY <2>2, <2>4 DEF Cleared
    <3> QED
      BY <2>1, <2>2, <2>4, <3>1, <3>2, <1>t DEF Covered, RecordStands
  <2> QED
    BY <2>3, <2>4
<1>6. CASE UNCHANGED floorVars
  BY <1>6, <1>t DEF floorVars, Covered, RecordStands, Standing
<1> QED
  BY <1>1, <1>2, <1>3, <1>4, <1>5, <1>6 DEF FloorNext

\* The inductive invariant holds in every state of every run.
THEOREM FloorInvariant == FloorSpec => []FloorInv
<1>1. FloorInv /\ [FloorNext]_floorVars => FloorInv'
  BY FloorTypeStep, SharedStep, RecordStep DEF FloorInv
<1> QED
  BY InitFloor, <1>1, PTL DEF FloorSpec

-----------------------------------------------------------------------------
\* At most one call per interval (throttle.py:10): a claim is granted only when
\* every claim that stands was read a whole interval ago.
THEOREM FloorIsHeld == FloorSpec => FloorHolds
<1>1. FloorInv /\ [FloorNext]_floorVars =>
          [Granting => \A s \in Standing : now - s >= Interval]_floorVars
  <2> SUFFICES ASSUME FloorInv, FloorNext, NEW d \in Callers,
                      phase[d] = "asking", phase'[d] = "granted"
               PROVE  \A s \in Standing : now - s >= Interval
    BY DEF Granting
  <2>1. PICK c \in Callers :
            Tick \/ ReadClock(c) \/ Grant(c) \/ Refuse(c) \/ Keep(c) \/ Release(c)
    BY DEF FloorNext
  <2>2. Grant(c)
    BY <2>1 DEF FloorInv, FloorTypeOK, Tick, ReadClock, Grant, Refuse, Keep, Release
  <2> QED
    BY <2>2, GrantIsLate
<1> QED
  BY FloorInvariant, <1>1, PTL DEF FloorSpec, FloorHolds

\* Nobody is refused for traffic nobody generated: some claim that stands was
\* read less than an interval before the refused caller's own reading.
THEOREM RefusalHasAReason == FloorSpec => RefusedForAReason
<1> DEFINE Reason(c) == Refusing(c) => \E s \in Standing : stamp[c] - s < Interval
<1>1. FloorInv /\ [FloorNext]_floorVars => [\A c \in Callers : Reason(c)]_floorVars
  <2> SUFFICES ASSUME FloorInv, FloorNext, NEW d \in Callers, Refusing(d)
               PROVE  \E s \in Standing : stamp[d] - s < Interval
    OBVIOUS
  <2>1. PICK c \in Callers :
            Tick \/ ReadClock(c) \/ Grant(c) \/ Refuse(c) \/ Keep(c) \/ Release(c)
    BY DEF FloorNext
  <2>2. Refuse(d)
    BY <2>1 DEF Refusing, FloorInv, FloorTypeOK, Tick, ReadClock, Grant, Refuse, Keep, Release
  <2> QED
    BY <2>2 DEF Refuse, TooSoon, FloorInv, RecordStands
<1> QED
  BY FloorInvariant, <1>1, PTL DEF FloorSpec, RefusedForAReason

\* The floor is held, and nobody is refused but for its sake.
THEOREM FloorIsExactly == FloorSpec => FloorIsExact
  BY FloorIsHeld, RefusalHasAReason DEF FloorIsExact

(***************************************************************************)
(* The shared answer, for any set of callers and any bound on the waiters. *)
(***************************************************************************)
LEMMA InitFlight == FlightInit => FlightInv
<1> SUFFICES ASSUME FlightInit PROVE FlightInv
  OBVIOUS
<1> USE SingleFlightAssumption DEF FlightInit
<1>1. FlightTypeOK
  BY DEF FlightTypeOK, Places
<1>2. FlightIsHeld
  BY DEF FlightIsHeld, Holding
<1>3. NoComputeWhileFresh
  BY DEF NoComputeWhileFresh
<1>4. WaitersAreCounted
  <2>1. Queued = {}
    BY DEF Queued, Waiting
  <2> QED
    BY <2>1, FS_EmptySet DEF WaitersAreCounted
<1>5. AnswersWereStored
  BY DEF AnswersWereStored
<1> QED
  BY <1>1, <1>2, <1>3, <1>4, <1>5 DEF FlightInv

-----------------------------------------------------------------------------
(* The count of waiters. *)

\* A step that leaves the count and the queue alone.
LEMMA QueueKept ==
    ASSUME WaitersAreCounted, waiters' = waiters, Queued' = Queued
    PROVE  WaitersAreCounted'
  BY DEF WaitersAreCounted

\* Each step changes the queue and its count together.
LEMMA CountStep == FlightInv /\ [FlightNext]_flightVars => WaitersAreCounted' /\ waiters' \in Nat
<1> SUFFICES ASSUME FlightInv, [FlightNext]_flightVars
             PROVE  WaitersAreCounted' /\ waiters' \in Nat
  OBVIOUS
<1>t. FlightTypeOK /\ WaitersAreCounted
  BY DEF FlightInv
<1>f. IsFiniteSet(Queued) /\ waiters \in Nat /\ MaxWaiters \in Nat
  BY <1>t, FS_Subset, SingleFlightAssumption DEF Queued, FlightTypeOK
<1>1. CASE Expire \/ UNCHANGED flightVars
  <2>1. waiters' = waiters /\ Queued' = Queued
    BY <1>1 DEF Expire, flightVars, flightShared, Queued
  <2> QED
    BY <2>1, <1>t, <1>f, QueueKept
<1>2. ASSUME NEW c \in Visitors,
             \/ Arrive(c) \/ TryFlight(c) \/ ReadPrevious(c) \/ Return(c)
             \/ ReadBack(c) \/ Lead(c) \/ Compute(c) \/ Store(c) \/ Unlock(c)
      PROVE  WaitersAreCounted' /\ waiters' \in Nat
  <2>1. waiters' = waiters
    BY <1>2 DEF Arrive, TryFlight, ReadPrevious, Return, ReadBack, Lead, Compute,
                Store, Unlock, flightShared
  <2>2. \A d \in Visitors : place'[d] \in Waiting <=> place[d] \in Waiting
    BY <1>2, <1>t DEF Arrive, TryFlight, ReadPrevious, Return, ReadBack, Lead,
                Compute, Store, Unlock, Move, Take, Ended, Waiting, FlightTypeOK
  <2>3. Queued' = Queued
    BY <2>2 DEF Queued
  <2> QED
    BY <2>1, <2>3, <1>t, <1>f, QueueKept
<1>3. ASSUME NEW c \in Visitors, Enqueue(c)
      PROVE  WaitersAreCounted' /\ waiters' \in Nat
  <2>1. CASE waiters' = waiters
    <3>1. \A d \in Visitors : place'[d] \in Waiting <=> place[d] \in Waiting
      BY <1>3, <2>1, <1>t, <1>f DEF Enqueue, Move, Waiting, FlightTypeOK
    <3>2. Queued' = Queued
      BY <3>1 DEF Queued
    <3> QED
      BY <2>1, <3>2, <1>t, <1>f, QueueKept
  <2>2. CASE waiters' # waiters
    <3>1. /\ waiters < MaxWaiters /\ waiters' = waiters + 1 /\ place[c] \notin Waiting
          /\ \A d \in Visitors : place'[d] \in Waiting <=> place[d] \in Waiting \/ d = c
      BY <1>3, <2>2, <1>t DEF Enqueue, Move, Waiting, FlightTypeOK
    <3>2. Queued' = Queued \cup {c} /\ c \notin Queued
      BY <3>1 DEF Queued
    <3>3. Cardinality(Queued') = Cardinality(Queued) + 1
      BY <3>2, <1>f, FS_AddElement
    <3> QED
      BY <3>1, <3>3, <1>t, <1>f DEF WaitersAreCounted
  <2> QED
    BY <2>1, <2>2
<1>4. ASSUME NEW c \in Visitors, Acquire(c) \/ TimeOut(c)
      PROVE  WaitersAreCounted' /\ waiters' \in Nat
  <2>1. waiters' = waiters
    BY <1>4 DEF Acquire, TimeOut, flightShared
  <2>2. \A d \in Visitors : place'[d] \in Waiting <=> place[d] \in Waiting
    BY <1>4, <1>t DEF Acquire, TimeOut, Move, Waiting, FlightTypeOK
  <2>3. Queued' = Queued
    BY <2>2 DEF Queued
  <2> QED
    BY <2>1, <2>3, <1>t, <1>f, QueueKept
<1>5. ASSUME NEW c \in Visitors, LeaveQueue(c)
      PROVE  WaitersAreCounted' /\ waiters' \in Nat
  <2>1. /\ waiters' = waiters - 1 /\ place[c] \in Waiting
        /\ \A d \in Visitors : place'[d] \in Waiting <=> place[d] \in Waiting /\ d # c
    BY <1>5, <1>t DEF LeaveQueue, Move, Waiting, FlightTypeOK
  <2>2. Queued' = Queued \ {c} /\ c \in Queued
    BY <2>1 DEF Queued
  <2>3. Cardinality(Queued') = Cardinality(Queued) - 1 /\ IsFiniteSet(Queued')
    BY <2>2, <1>f, FS_RemoveElement
  <2>4. Cardinality(Queued') \in Nat
    BY <2>3, FS_CardinalityType
  <2> QED
    BY <2>1, <2>3, <2>4, <1>t, <1>f DEF WaitersAreCounted
<1> QED
  BY <1>1, <1>2, <1>3, <1>4, <1>5 DEF FlightNext, Step

\* The types of the flight, through every step.
LEMMA FlightTypeStep == FlightInv /\ [FlightNext]_flightVars => FlightTypeOK'
<1> SUFFICES ASSUME FlightInv, [FlightNext]_flightVars PROVE FlightTypeOK'
  OBVIOUS
<1>w. waiters' \in Nat
  BY CountStep
<1>t. FlightTypeOK
  BY DEF FlightInv
<1>1. CASE Expire \/ UNCHANGED flightVars
  BY <1>1, <1>t DEF Expire, flightVars, flightShared, FlightTypeOK
<1>2. ASSUME NEW c \in Visitors, Arrive(c) \/ Step(c) \/ Return(c) PROVE FlightTypeOK'
  <2>1. place' \in [Visitors -> Places]
    BY <1>2, <1>t DEF Arrive, Step, Return, TryFlight, ReadPrevious, Enqueue, Acquire,
              TimeOut, LeaveQueue, ReadBack, Lead, Compute, Store, Unlock, Move, Take,
              FlightTypeOK, Places, Waiting, Holding, Ended
  <2>2. /\ got' \in [Visitors -> Nat] /\ since' \in [Visitors -> Nat]
        /\ stored' \in Nat /\ fresh' \in BOOLEAN
    <3>1. CASE Arrive(c) \/ ReadPrevious(c) \/ ReadBack(c) \/ Lead(c)
      BY <3>1, <1>t DEF Arrive, ReadPrevious, ReadBack, Lead, Take, FlightTypeOK, flightShared
    <3>2. CASE Store(c)
      BY <3>2, <1>t DEF Store, FlightTypeOK
    <3>3. CASE \/ TryFlight(c) \/ Enqueue(c) \/ Acquire(c) \/ TimeOut(c)
               \/ LeaveQueue(c) \/ Compute(c) \/ Unlock(c) \/ Return(c)
      BY <3>3, <1>t DEF TryFlight, Enqueue, Acquire, TimeOut, LeaveQueue, Compute,
                Unlock, Return, FlightTypeOK, flightShared
    <3> QED
      BY <1>2, <3>1, <3>2, <3>3 DEF Step
  <2>3. flight' \in Visitors \cup {Free}
    BY <1>2, <1>t DEF Arrive, Step, Return, TryFlight, ReadPrevious, Enqueue, Acquire,
              TimeOut, LeaveQueue, ReadBack, Lead, Compute, Store, Unlock, FlightTypeOK, flightShared
  <2> QED
    BY <1>w, <2>1, <2>2, <2>3 DEF FlightTypeOK
<1> QED
  BY <1>1, <1>2 DEF FlightNext

-----------------------------------------------------------------------------
(* The flight lock. *)

\* The lock goes with the caller that leads.
LEMMA HeldStep == FlightInv /\ [FlightNext]_flightVars => FlightIsHeld'
<1> SUFFICES ASSUME FlightInv, [FlightNext]_flightVars PROVE FlightIsHeld'
  OBVIOUS
<1>t. FlightTypeOK /\ FlightIsHeld /\ Free \notin Visitors
  BY SingleFlightAssumption DEF FlightInv
<1>1. CASE Expire \/ UNCHANGED flightVars
  BY <1>1, <1>t DEF Expire, flightVars, flightShared, FlightIsHeld
<1>2. ASSUME NEW c \in Visitors,
             \/ Arrive(c) \/ ReadPrevious(c) \/ Enqueue(c) \/ TimeOut(c) \/ LeaveQueue(c)
             \/ ReadBack(c) \/ Lead(c) \/ Compute(c) \/ Store(c) \/ Return(c)
      PROVE  FlightIsHeld'
  <2>1. flight' = flight
    BY <1>2 DEF Arrive, ReadPrevious, Enqueue, TimeOut, LeaveQueue, ReadBack, Lead,
                Compute, Store, Return, flightShared
  <2>2. \A d \in Visitors : place'[d] \in Holding <=> place[d] \in Holding
    BY <1>2, <1>t DEF Arrive, ReadPrevious, Enqueue, TimeOut, LeaveQueue, ReadBack,
                Lead, Compute, Store, Return, Move, Take, Holding, Ended, FlightTypeOK
  <2> QED
    BY <2>1, <2>2, <1>t DEF FlightIsHeld
<1>3. ASSUME NEW c \in Visitors, TryFlight(c) \/ Acquire(c) PROVE FlightIsHeld'
  BY <1>3, <1>t DEF TryFlight, Acquire, Move, Holding, FlightTypeOK, FlightIsHeld
<1>4. ASSUME NEW c \in Visitors, Unlock(c) PROVE FlightIsHeld'
  BY <1>4, <1>t DEF Unlock, Move, Holding, FlightTypeOK, FlightIsHeld
<1> QED
  BY <1>1, <1>2, <1>3, <1>4 DEF FlightNext, Step

\* Only the holder stores, and it checked after it took the lock.
LEMMA FreshStep == FlightInv /\ [FlightNext]_flightVars => NoComputeWhileFresh'
<1> SUFFICES ASSUME FlightInv, [FlightNext]_flightVars PROVE NoComputeWhileFresh'
  OBVIOUS
<1>t. FlightTypeOK /\ FlightIsHeld /\ NoComputeWhileFresh
  BY DEF FlightInv
<1>1. CASE Expire \/ UNCHANGED flightVars
  BY <1>1, <1>t DEF Expire, flightVars, flightShared, NoComputeWhileFresh
<1>2. ASSUME NEW c \in Visitors,
             \/ Arrive(c) \/ TryFlight(c) \/ ReadPrevious(c) \/ Enqueue(c) \/ Acquire(c)
             \/ TimeOut(c) \/ LeaveQueue(c) \/ ReadBack(c) \/ Lead(c) \/ Compute(c)
             \/ Unlock(c) \/ Return(c)
      PROVE  NoComputeWhileFresh'
  <2>1. fresh' = fresh
    BY <1>2 DEF Arrive, TryFlight, ReadPrevious, Enqueue, Acquire, TimeOut, LeaveQueue,
                ReadBack, Lead, Compute, Unlock, Return, flightShared
  <2>2. \A d \in Visitors : place'[d] \in {"computing", "storing"} =>
            place[d] \in {"computing", "storing"} \/ ~fresh
    BY <1>2, <1>t DEF Arrive, TryFlight, ReadPrevious, Enqueue, Acquire, TimeOut,
                LeaveQueue, ReadBack, Lead, Compute, Unlock, Return, Move, Take, Ended,
                FlightTypeOK
  <2> QED
    BY <2>1, <2>2, <1>t DEF NoComputeWhileFresh
<1>3. ASSUME NEW c \in Visitors, Store(c) PROVE NoComputeWhileFresh'
  <2>1. \A d \in Visitors : place[d] \in Holding => d = c
    BY <1>3, <1>t DEF Store, Move, Holding, FlightIsHeld
  <2>2. \A d \in Visitors : place'[d] \notin {"computing", "storing"}
    BY <1>3, <2>1, <1>t DEF Store, Move, Holding, FlightTypeOK
  <2> QED
    BY <2>2 DEF NoComputeWhileFresh
<1> QED
  BY <1>1, <1>2, <1>3 DEF FlightNext, Step

-----------------------------------------------------------------------------
\* What is returned was stored, and is no older than the call.
LEMMA AnswerStep == FlightInv /\ [FlightNext]_flightVars => AnswersWereStored'
<1> SUFFICES ASSUME FlightInv, [FlightNext]_flightVars PROVE AnswersWereStored'
  OBVIOUS
<1> USE DEF AnswersWereStored
<1>t. FlightTypeOK /\ AnswersWereStored
  BY DEF FlightInv
<1>1. CASE Expire \/ UNCHANGED flightVars
  BY <1>1, <1>t DEF Expire, flightVars, flightShared
<1>2. ASSUME NEW c \in Visitors, Arrive(c) \/ ReadPrevious(c) \/ ReadBack(c) \/ Lead(c)
      PROVE  AnswersWereStored'
  BY <1>2, <1>t DEF Arrive, ReadPrevious, ReadBack, Lead, Move, Take, FlightTypeOK, flightShared
<1>3. ASSUME NEW c \in Visitors,
             \/ TryFlight(c) \/ Enqueue(c) \/ Acquire(c) \/ TimeOut(c) \/ LeaveQueue(c)
             \/ Compute(c) \/ Unlock(c) \/ Return(c)
      PROVE  AnswersWereStored'
  <2>1. UNCHANGED <<stored, fresh, got, since>>
    BY <1>3 DEF TryFlight, Enqueue, Acquire, TimeOut, LeaveQueue, Compute, Unlock,
                Return, flightShared
  <2>2. \A d \in Visitors : place'[d] \in {"unlock", "answered"} =>
            place[d] \in {"unlock", "answered"}
    BY <1>3, <1>t DEF TryFlight, Enqueue, Acquire, TimeOut, LeaveQueue, Compute,
                Unlock, Return, Move, Ended, FlightTypeOK
  <2> QED
    BY <2>1, <2>2, <1>t
<1>4. ASSUME NEW c \in Visitors, Store(c) PROVE AnswersWereStored'
  BY <1>4, <1>t DEF Store, Move, FlightTypeOK
<1> QED
  BY <1>1, <1>2, <1>3, <1>4 DEF FlightNext, Step

\* The inductive invariant holds in every state of every run.
THEOREM FlightInvariant == FlightSpec => []FlightInv
<1>1. FlightInv /\ [FlightNext]_flightVars => FlightInv'
  BY FlightTypeStep, HeldStep, FreshStep, CountStep, AnswerStep DEF FlightInv
<1> QED
  BY InitFlight, <1>1, PTL DEF FlightSpec

\* The flight lock is never lost, however a call ends.
THEOREM FlightNeverLost == FlightSpec => []FlightIsHeld
<1>1. FlightInv => FlightIsHeld
  BY DEF FlightInv
<1> QED
  BY FlightInvariant, <1>1, PTL

\* No request reaches paperless-ngx while a fresh result is stored, and never
\* two at once.
THEOREM FloorUnderCompute == FlightSpec => []NoComputeWhileFresh
<1>1. FlightInv => NoComputeWhileFresh
  BY DEF FlightInv
<1> QED
  BY FlightInvariant, <1>1, PTL

\* The waiters are counted, and there are never more than max_waiters.
THEOREM WaitersBounded == FlightSpec => []WaitersAreCounted
<1>1. FlightInv => WaitersAreCounted
  BY DEF FlightInv
<1> QED
  BY FlightInvariant, <1>1, PTL

\* Nobody is answered with no result, or one older than its own call.
THEOREM AnswersExist == FlightSpec => []AnswerExists
<1>1. FlightInv => AnswerExists
  BY DEF FlightInv, AnswersWereStored, AnswerExists
<1> QED
  BY FlightInvariant, <1>1, PTL

\* The four parts of a safe flight, for any number of visitors and of waiters.
THEOREM FlightIsSafe == FlightSpec => []FlightSafe
<1>1. FlightInv => FlightSafe
  BY DEF FlightInv, AnswersWereStored, AnswerExists, FlightSafe
<1> QED
  BY FlightInvariant, <1>1, PTL

(***************************************************************************)
(* The lists of paperless-ngx, for any threads, edits and refreshes.       *)
(***************************************************************************)
Lists == [has : BOOLEAN, gen : Nat]
Entries == [at : Nat, rows : Lists, current : BOOLEAN]
Asking == {"look", "serve", "refuse", "lock", "look again", "serve again", "refuse again",
           "generation", "fetch", "fetched", "remember"}
Checking == {"known", "first generation", "first fetch", "first checked",
             "check generation", "check fetch", "checked"}
ListsTypeOK ==
    /\ exists \in BOOLEAN /\ edits \in Nat /\ clock \in Nat /\ generation \in Nat
    /\ store \in Entries \cup {NoList} /\ lastGood \in Lists \cup {NoList}
    /\ failedUntil \in Nat /\ keyLock \in Requests \cup {NoList}
    /\ at \in [Threads -> Asking \cup Checking \cup {"out"}]
    /\ seen \in [Threads -> Lists \cup {NoList}]
    /\ began \in [Threads -> Nat] /\ asked \in [Threads -> Nat]
    /\ answer \in [Threads -> {"gone", "dropped", NoList}]
    /\ absent \subseteq Threads

\* No thread knows a generation that is still to come.
GenerationsPast == \A t \in Threads : asked[t] <= generation /\ began[t] <= generation

\* A list called current was fetched after the last refresh pressed.
StoreIsOfNow == store # NoList /\ store.current => store.rows.gen = generation

\* A list that is fetched is of the generation its thread read, after it asked.
FetchIsOfCall ==
    \A t \in Threads :
        /\ at[t] \in {"fetch", "fetched"} => began[t] >= asked[t]
        /\ at[t] \in {"serve", "serve again", "fetched", "first checked", "checked"} =>
              seen[t] # NoList
        /\ at[t] \in {"fetched", "first checked", "checked"} => seen[t].gen = began[t]

\* A check inside its call knows whether the id was ever missing meanwhile.
AbsenceIsSeen ==
    \A t \in Checkers :
        /\ at[t] # "out" /\ ~exists => t \in absent
        /\ at[t] = "checked" /\ ~seen[t].has => t \in absent

\* An answer stays beside what it rests on until the thread calls again.
AnswersRest ==
    \A t \in Threads :
        /\ at[t] # "out" => answer[t] = NoList
        /\ answer[t] = "gone" => seen[t] # NoList /\ seen[t].gen >= asked[t]
        /\ t \in Checkers /\ answer[t] = "dropped" => t \in absent

ListsInv ==
    /\ ListsTypeOK /\ GenerationsPast /\ StoreIsOfNow /\ FetchIsOfCall
    /\ AbsenceIsSeen /\ AnswersRest

\* At the start nothing is stored, asked or answered.
LEMMA InitLists == MetadataInit => ListsInv
<1> SUFFICES ASSUME MetadataInit PROVE ListsInv
  OBVIOUS
<1>1. \A t \in Threads : at[t] = "out" /\ answer[t] = NoList
  BY DEF MetadataInit
<1>2. AbsenceIsSeen /\ AnswersRest
  BY <1>1, MetadataAssumption DEF AbsenceIsSeen, AnswersRest, Threads
<1>3. ListsTypeOK /\ GenerationsPast /\ StoreIsOfNow /\ FetchIsOfCall
  BY MetadataAssumption DEF MetadataInit, ListsTypeOK, GenerationsPast, StoreIsOfNow, FetchIsOfCall
<1> QED
  BY <1>2, <1>3 DEF ListsInv

\* What a thread says against the id is one of its two answers.
LEMMA AnswersTyped ==
    ASSUME ListsTypeOK, NEW t \in Threads, NEW what \in {"gone", "dropped", NoList}, Answers(t, what)
    PROVE  /\ at' \in [Threads -> Asking \cup Checking \cup {"out"}]
           /\ seen' \in [Threads -> Lists \cup {NoList}]
           /\ began' \in [Threads -> Nat] /\ asked' \in [Threads -> Nat]
           /\ answer' \in [Threads -> {"gone", "dropped", NoList}]
           /\ absent' \subseteq Threads
BY DEF ListsTypeOK, Answers

\* What the form says of an id is one of the answers.
LEMMA LabelTyped == \A rows, current : Label(rows, current) \in {"gone", "dropped", NoList}
BY DEF Label

\* What is stored is an entry.
LEMMA EntryTyped ==
    ASSUME NEW rows \in Lists, NEW current \in BOOLEAN, clock \in Nat
    PROVE  [at |-> clock, rows |-> rows, current |-> current] \in Entries
BY DEF Entries

\* Storing a fetched list keeps the types of the cache.
LEMMA StoreTyped ==
    ASSUME ListsTypeOK, NEW t, seen[t] \in Lists, StoreIfCurrent(t)
    PROVE  store' \in Entries \cup {NoList} /\ lastGood' \in Lists \cup {NoList}
<1>1. clock \in Nat /\ store \in Entries \cup {NoList} /\ lastGood \in Lists \cup {NoList}
  BY DEF ListsTypeOK
<1>2. [at |-> clock, rows |-> seen[t], current |-> TRUE] \in Entries
  BY <1>1, EntryTyped
<1>3. CASE began[t] = generation
  BY <1>2, <1>3 DEF StoreIfCurrent
<1>4. CASE began[t] # generation
  BY <1>1, <1>4 DEF StoreIfCurrent
<1> QED
  BY <1>3, <1>4

\* The types, through the steps of a request.
LEMMA RequestTypes ==
    ASSUME ListsTypeOK, FetchIsOfCall, NEW t \in Requests, Ask(t) \/ RequestStep(t)
    PROVE  ListsTypeOK'
<1> USE MetadataAssumption DEF Threads, Moves, Begins, Unanswered, cache
<1>1. CASE Ask(t)
  BY <1>1 DEF Ask, ListsTypeOK, Asking
<1>2. ASSUME NEW from, NEW hit \in Asking, NEW miss \in Asking, Look(t, from, hit, miss)
      PROVE  ListsTypeOK'
  BY <1>2 DEF Look, ListsTypeOK, Entries, Live
<1>3. ASSUME NEW from, NEW to, Serve(t, from, to)
      PROVE  ListsTypeOK'
  BY <1>3, AnswersTyped, LabelTyped DEF Serve, ListsTypeOK
<1>4. ASSUME NEW from, NEW to \in Asking, UnlessFailed(t, from, to)
      PROVE  ListsTypeOK'
  <2>1. CASE Answers(t, NoList)
    BY <1>4, <2>1, AnswersTyped DEF UnlessFailed, ListsTypeOK
  <2>2. CASE at' = [at EXCEPT ![t] = to] /\ UNCHANGED keyLock /\ Unanswered
    BY <1>4, <2>2 DEF UnlessFailed, ListsTypeOK
  <2> QED
    BY <1>4, <2>1, <2>2 DEF UnlessFailed
<1>5. CASE Lock(t)
  <2>1. CASE Answers(t, NoList) /\ UNCHANGED keyLock
    BY <1>5, <2>1, AnswersTyped DEF Lock, ListsTypeOK
  <2>2. CASE keyLock' = t /\ Moves(t, "lock", "look again") /\ Unanswered
    BY <1>5, <2>2 DEF Lock, ListsTypeOK, Asking
  <2> QED
    BY <1>5, <2>1, <2>2 DEF Lock
<1>6. CASE ReadGeneration(t, "generation", "fetch")
  BY <1>6 DEF ReadGeneration, ListsTypeOK, Asking
<1>7. CASE FetchRead(t, "fetch", "fetched")
  BY <1>7 DEF FetchRead, ListsTypeOK, Asking, Lists
<1>8. CASE Fetched(t)
  <2>1. seen[t] \in Lists
    BY <1>8 DEF Fetched, FetchIsOfCall, ListsTypeOK
  <2>2. store' \in Entries \cup {NoList} /\ lastGood' \in Lists \cup {NoList}
    BY <1>8, <2>1, StoreTyped DEF Fetched
  <2> QED
    BY ZenonT(40), <1>8, <2>2, AnswersTyped, LabelTyped DEF Fetched, ListsTypeOK
<1>9. CASE FetchFails(t)
  <2>1. CASE lastGood # NoList
    <3>1. lastGood \in Lists /\ clock \in Nat /\ store \in Entries \cup {NoList}
      BY <2>1 DEF ListsTypeOK
    <3>2. [at |-> clock, rows |-> lastGood, current |-> FALSE] \in Entries
      BY <3>1, EntryTyped
    <3>3. store' \in Entries \cup {NoList}
      BY <1>9, <2>1, <3>1, <3>2 DEF FetchFails
    <3>4. keyLock' = NoList /\ Answers(t, Label(lastGood, FALSE))
          /\ UNCHANGED <<exists, edits, clock, lastGood, generation, failedUntil>>
      BY <1>9, <2>1 DEF FetchFails
    <3> QED
      BY ZenonT(40), <3>3, <3>4, AnswersTyped, LabelTyped DEF ListsTypeOK
  <2>2. CASE lastGood = NoList
    BY <1>9, <2>2 DEF FetchFails, ListsTypeOK, Asking
  <2> QED
    BY <2>1, <2>2
<1>10. CASE Remember(t)
  BY <1>10, AnswersTyped DEF Remember, ListsTypeOK
<1> QED
  BY <1>1, <1>2, <1>3, <1>4, <1>5, <1>6, <1>7, <1>8, <1>9, <1>10
     DEF RequestStep, LookFirst, ServeFirst, RefuseFirst, LookAgain, ServeAgain, RefuseAgain, Asking

\* The types, through the steps of a scan's check.
LEMMA CheckTypes ==
    ASSUME ListsTypeOK, FetchIsOfCall, NEW t \in Checkers, Check(t) \/ CheckStep(t)
    PROVE  ListsTypeOK'
<1> USE MetadataAssumption DEF Threads, Moves, Begins, Unanswered, cache
<1>1. CASE Check(t)
  BY <1>1 DEF Check, ListsTypeOK, Checking
<1>2. CASE ReadKnown(t) \/ CheckFails(t)
  <2>1. CASE Answers(t, NoList)
    BY <1>2, <2>1, AnswersTyped DEF ReadKnown, CheckFails, ListsTypeOK
  <2>2. CASE ReadKnown(t) /\ ~Answers(t, NoList)
    BY <2>2 DEF ReadKnown, ListsTypeOK, Checking
  <2> QED
    BY <1>2, <2>1, <2>2 DEF CheckFails
<1>3. ASSUME NEW from, NEW to \in Checking, ReadGeneration(t, from, to) \/ FetchRead(t, from, to)
      PROVE  ListsTypeOK'
  BY <1>3 DEF ReadGeneration, FetchRead, ListsTypeOK, Lists
<1>4. CASE CheckedFirst(t) \/ Checked(t)
  <2>1. seen[t] \in Lists
    BY <1>4 DEF CheckedFirst, Checked, FetchIsOfCall, ListsTypeOK
  <2>2. store' \in Entries \cup {NoList} /\ lastGood' \in Lists \cup {NoList}
    BY <1>4, <2>1, StoreTyped DEF CheckedFirst, Checked
  <2>3. CASE Answers(t, NoList) \/ Answers(t, "dropped")
    BY <1>4, <2>2, <2>3, AnswersTyped DEF CheckedFirst, Checked, ListsTypeOK
  <2>4. CASE at' = [at EXCEPT ![t] = "check generation"] /\ Unanswered
    BY <1>4, <2>2, <2>4 DEF CheckedFirst, Checked, ListsTypeOK, Checking
  <2> QED
    BY <1>4, <2>3, <2>4 DEF CheckedFirst, Checked
<1> QED
  BY <1>1, <1>2, <1>3, <1>4 DEF CheckStep, Checking

\* The types, through every step.
LEMMA ListsTypes == ListsTypeOK /\ FetchIsOfCall /\ [MetadataNext]_metadataVars => ListsTypeOK'
<1> SUFFICES ASSUME ListsTypeOK, FetchIsOfCall, [MetadataNext]_metadataVars PROVE ListsTypeOK'
  OBVIOUS
<1>1. CASE UNCHANGED metadataVars
  BY <1>1 DEF metadataVars, cache, mine, ListsTypeOK
<1>2. CASE Invalidate
  BY <1>2, MetadataAssumption DEF Invalidate, mine, ListsTypeOK
<1>3. CASE MetadataTick
  BY <1>3 DEF MetadataTick, cache, mine, ListsTypeOK
<1>4. CASE Edit
  BY <1>4 DEF Edit, cache, ListsTypeOK, Threads
<1> QED
  BY <1>1, <1>2, <1>3, <1>4, RequestTypes, CheckTypes DEF MetadataNext

-----------------------------------------------------------------------------

\* What a step of thread t leaves alone: the generation and the other threads.
Leaves(t) ==
    /\ UNCHANGED <<exists, generation>>
    /\ \A u \in Threads \ {t} :
          /\ at'[u] = at[u] /\ seen'[u] = seen[u] /\ began'[u] = began[u]
          /\ asked'[u] = asked[u] /\ answer'[u] = answer[u] /\ (u \in absent' <=> u \in absent)
\* A thread's own steps are no refresh, and move no other thread.
LEMMA ThreadLeaves ==
    ASSUME ListsTypeOK, NEW t \in Threads,
           Ask(t) \/ RequestStep(t) \/ Check(t) \/ CheckStep(t)
    PROVE  Leaves(t)
<1> USE DEF ListsTypeOK, Leaves
<1>1. CASE Ask(t) \/ Check(t)
  BY <1>1 DEF Ask, Check, Moves, Begins, cache
<1>2. ASSUME NEW what, Answers(t, what), UNCHANGED <<exists, generation>> PROVE Leaves(t)
  BY <1>2 DEF Answers
<1>3. ASSUME Unanswered, NEW to, at' = [at EXCEPT ![t] = to], UNCHANGED <<exists, generation>> PROVE Leaves(t)
  BY <1>3 DEF Unanswered
<1>4. ASSUME NEW from, NEW to, ReadGeneration(t, from, to) \/ FetchRead(t, from, to) PROVE Leaves(t)
  BY <1>4 DEF ReadGeneration, FetchRead, Moves, cache
<1>5. ASSUME NEW from, NEW hit, NEW miss, Look(t, from, hit, miss) PROVE Leaves(t)
  BY <1>5 DEF Look, cache
<1>6. ASSUME NEW from, NEW to, Serve(t, from, to) \/ UnlessFailed(t, from, to) PROVE Leaves(t)
  BY <1>2, <1>3, <1>6 DEF Serve, UnlessFailed
<1>7. CASE Lock(t) \/ Fetched(t) \/ FetchFails(t) \/ Remember(t)
  BY <1>2, <1>3, <1>7 DEF Lock, Fetched, FetchFails, Remember, Moves
<1>8. CASE ReadKnown(t) \/ CheckFails(t) \/ CheckedFirst(t) \/ Checked(t)
  BY <1>2, <1>3, <1>8 DEF ReadKnown, CheckFails, CheckedFirst, Checked, Moves, cache
<1> QED
  BY <1>1, <1>4, <1>5, <1>6, <1>7, <1>8
     DEF RequestStep, CheckStep, LookFirst, ServeFirst, RefuseFirst, LookAgain, ServeAgain, RefuseAgain

\* What ListsInv says of one thread: of the generations, and of the id.
TimesPast(t) == asked[t] <= generation /\ began[t] <= generation
TimesRest(t) ==
    /\ TimesPast(t)
    /\ at[t] \in {"fetch", "fetched"} => began[t] >= asked[t]
    /\ at[t] \in {"serve", "serve again", "fetched", "first checked", "checked"} =>
          seen[t] # NoList
    /\ at[t] \in {"fetched", "first checked", "checked"} => seen[t].gen = began[t]
    /\ at[t] # "out" => answer[t] = NoList
    /\ answer[t] = "gone" => seen[t] # NoList /\ seen[t].gen >= asked[t]
MissesRest(t) ==
    t \in Checkers =>
        /\ at[t] # "out" /\ ~exists => t \in absent
        /\ at[t] = "checked" /\ ~seen[t].has => t \in absent
        /\ answer[t] = "dropped" => t \in absent

\* ListsInv, thread by thread.
LEMMA ListsOfThreads ==
    ListsInv <=> /\ ListsTypeOK /\ StoreIsOfNow
                 /\ \A t \in Threads : TimesRest(t) /\ MissesRest(t)
BY DEF ListsInv, GenerationsPast, FetchIsOfCall, AbsenceIsSeen, AnswersRest, TimesPast, TimesRest,
   MissesRest, Threads

\* A number is not above itself, as a fact the steps below can cite.
LEMMA NatReflexive == \A n \in Nat : n <= n
OBVIOUS

\* The generations, through a thread's own steps.
LEMMA OwnTimes ==
    ASSUME ListsTypeOK, StoreIsOfNow, NEW t \in Threads, TimesRest(t),
           Ask(t) \/ RequestStep(t) \/ Check(t) \/ CheckStep(t)
    PROVE  TimesRest(t)'
<1>0. NoList \notin {"gone", "dropped"} /\ NoList \notin Lists
  BY MetadataAssumption DEF Lists
<1>1. /\ at \in [Threads -> Asking \cup Checking \cup {"out"}]
      /\ seen \in [Threads -> Lists \cup {NoList}] /\ generation \in Nat
      /\ began \in [Threads -> Nat] /\ asked \in [Threads -> Nat]
      /\ answer \in [Threads -> {"gone", "dropped", NoList}]
  BY DEF ListsTypeOK
<1>p. asked[t] <= generation /\ began[t] <= generation
  BY DEF TimesRest, TimesPast
<1>2. CASE Ask(t) \/ Check(t)
  <2>1. /\ at'[t] \in {"look", "known"} /\ answer'[t] = NoList /\ asked'[t] = generation
        /\ UNCHANGED <<began, generation>>
    BY <1>1, <1>2 DEF Ask, Check, Moves, Begins, cache
  <2>2. TimesPast(t)'
    BY <1>1, <1>p, <2>1 DEF TimesPast
  <2> QED
    BY <1>0, <1>1, <2>1, <2>2 DEF TimesRest
<1>3. ASSUME NEW what, Answers(t, what), UNCHANGED generation,
             what = "gone" => seen[t] # NoList /\ seen[t].gen >= asked[t]
      PROVE  TimesRest(t)'
  <2>1. /\ at'[t] = "out" /\ answer'[t] = what /\ began'[t] = 0
        /\ asked'[t] \in {0, asked[t]}
        /\ what # NoList => seen'[t] = seen[t] /\ asked'[t] = asked[t]
    BY <1>1, <1>3 DEF Answers
  <2>2. TimesPast(t)'
    BY <1>1, <1>3, <1>p, <2>1 DEF TimesPast
  <2> QED
    BY <1>0, <1>3, <2>1, <2>2 DEF TimesRest
<1>4. ASSUME NEW to, at' = [at EXCEPT ![t] = to],
             UNCHANGED <<generation, seen, began, answer, asked>>, at[t] # "out",
             to \notin {"fetch", "serve", "serve again", "fetched", "first checked", "checked", "out"}
      PROVE  TimesRest(t)'
  BY <1>1, <1>4 DEF TimesRest, TimesPast
<1>5. ASSUME NEW from \in {"generation", "first generation", "check generation"},
             NEW to \in {"fetch", "first fetch", "check fetch"}, ReadGeneration(t, from, to)
      PROVE  TimesRest(t)'
  <2>1. /\ at[t] = from /\ at'[t] = to /\ began'[t] = generation
        /\ UNCHANGED <<generation, seen, answer, asked>>
    BY <1>1, <1>5 DEF ReadGeneration, Moves, cache
  <2>2. TimesPast(t)' /\ began'[t] >= asked'[t]
    <3>1. asked'[t] = asked[t] /\ generation' = generation /\ began'[t] = generation
      BY <2>1
    <3>2. asked[t] \in Nat /\ generation \in Nat
      BY <1>1
    <3>3. generation >= asked[t]
      BY <1>p, <3>2
    <3>4. TimesPast(t)'
      <4>1. generation <= generation
        BY <3>2, NatReflexive, Zenon
      <4> QED
        BY <1>p, <3>1, <4>1, Zenon DEF TimesPast
    <3> QED
      BY <3>1, <3>3, <3>4
  <2>3. at[t] # "out"
    BY <1>5, <2>1
  <2>4. answer[t] = NoList
    BY <2>3 DEF TimesRest
  <2> QED
    BY <1>0, <1>5, <2>1, <2>2, <2>4 DEF TimesRest
<1>6. ASSUME NEW from \in {"fetch", "first fetch", "check fetch"}, NEW to, FetchRead(t, from, to),
             to \in {"fetched", "first checked", "checked"}, to = "fetched" => from = "fetch"
      PROVE  TimesRest(t)'
  <2>1. /\ at[t] = from /\ at'[t] = to /\ UNCHANGED <<generation, began, answer, asked>>
        /\ seen'[t] = [has |-> exists, gen |-> began[t]]
    BY <1>1, <1>6 DEF FetchRead, Moves, cache
  <2>2. [has |-> exists, gen |-> began[t]] \in Lists
    BY <1>1 DEF Lists, ListsTypeOK
  <2>3. seen'[t] # NoList
    BY <1>0, <2>1, <2>2
  <2>4. seen'[t].gen = began[t]
    <3>1. [has |-> exists, gen |-> began[t]].gen = began[t]
      OBVIOUS
    <3> QED
      BY <2>1, <3>1, Zenon
  <2>5. TimesPast(t)'
    BY <1>p, <2>1 DEF TimesPast
  <2> QED
    BY <1>0, <1>1, <1>6, <2>1, <2>3, <2>4, <2>5 DEF TimesRest
<1>7. ASSUME NEW from \in {"look", "look again"}, NEW hit \in {"serve", "serve again"},
             NEW miss \in {"refuse", "refuse again"}, Look(t, from, hit, miss)
      PROVE  TimesRest(t)'
  <2>1. Live(store) => store.rows \in Lists
    BY DEF Live, ListsTypeOK, Entries
  <2>2. /\ at[t] = from /\ UNCHANGED <<generation, began, answer, asked>>
        /\ IF Live(store) THEN at'[t] = hit /\ seen'[t] = store.rows ELSE at'[t] = miss
    BY <1>1, <1>7 DEF Look, cache
  <2> QED
    BY <1>0, <1>1, <1>7, <2>1, <2>2 DEF TimesRest, TimesPast
<1>8. ASSUME NEW from \in {"serve", "serve again"}, NEW to, Serve(t, from, to)
      PROVE  TimesRest(t)'
  <2>1. PICK what : what = Label(seen[t], SameList(t) /\ store.current)
    OBVIOUS
  <2>2. Answers(t, what) /\ UNCHANGED generation /\ seen[t] # NoList
    BY <1>8, <2>1 DEF Serve, TimesRest
  <2>3. what = "gone" => SameList(t) /\ store.current
    BY <1>0, <2>1 DEF Label
  <2>4. what = "gone" => seen[t].gen = generation
    BY <2>3 DEF SameList, StoreIsOfNow
  <2>5. what = "gone" => seen[t].gen >= asked[t]
    BY <1>1, <1>p, <2>4
  <2> QED
    BY <1>3, <2>2, <2>5
<1>9. ASSUME NEW from \in {"refuse", "refuse again"}, NEW to \in {"lock", "generation"},
             UnlessFailed(t, from, to)
      PROVE  TimesRest(t)'
  BY <1>0, <1>3, <1>4, <1>9 DEF UnlessFailed, Unanswered
<1>10. CASE Lock(t) \/ Remember(t)
  BY <1>0, <1>3, <1>4, <1>10 DEF Lock, Remember, Moves, Unanswered
<1>11. CASE Fetched(t)
  <2>1. seen[t] # NoList /\ seen[t].gen >= asked[t]
    BY <1>1, <1>11 DEF Fetched, TimesRest
  <2> QED
    BY <1>3, <1>11, <2>1 DEF Fetched
<1>12. CASE FetchFails(t)
  <2>1. Label(lastGood, FALSE) = NoList
    BY DEF Label
  <2> QED
    BY <1>0, <1>3, <1>4, <1>12, <2>1 DEF FetchFails, Moves, Unanswered
<1>13. CASE ReadKnown(t) \/ CheckFails(t) \/ CheckedFirst(t)
  BY <1>0, <1>3, <1>4, <1>13 DEF ReadKnown, CheckFails, CheckedFirst, Moves, cache, Unanswered
<1>14. CASE Checked(t)
  <2>1. PICK what \in {NoList, "dropped"} : Answers(t, what)
    BY <1>14 DEF Checked
  <2> QED
    BY <1>0, <1>3, <1>14, <2>1 DEF Checked
<1> QED
  BY <1>2, <1>5, <1>6, <1>7, <1>8, <1>9, <1>10, <1>11, <1>12, <1>13, <1>14
     DEF RequestStep, CheckStep, LookFirst, ServeFirst, RefuseFirst, LookAgain, ServeAgain, RefuseAgain

\* Whether the id was missing, through a thread's own steps.
LEMMA OwnMisses ==
    ASSUME ListsTypeOK, NEW t \in Threads, TimesRest(t), MissesRest(t),
           Ask(t) \/ RequestStep(t) \/ Check(t) \/ CheckStep(t)
    PROVE  MissesRest(t)'
<1>0. NoList \notin {"gone", "dropped"}
  BY MetadataAssumption
<1>1. /\ at \in [Threads -> Asking \cup Checking \cup {"out"}]
      /\ seen \in [Threads -> Lists \cup {NoList}]
      /\ answer \in [Threads -> {"gone", "dropped", NoList}]
  BY DEF ListsTypeOK
<1>2. CASE Ask(t) \/ Check(t)
  <2>1. at'[t] # "checked" /\ answer'[t] # "dropped"
    BY <1>0, <1>1, <1>2 DEF Ask, Check, Moves, Begins
  <2>2. t \in Checkers /\ ~exists' => t \in absent'
    BY <1>2 DEF Ask, Check, Begins
  <2> QED
    BY <2>1, <2>2 DEF MissesRest
<1>3. ASSUME NEW what, Answers(t, what), what = "dropped" => t \in absent
      PROVE  MissesRest(t)'
  <2>1. at'[t] = "out" /\ answer'[t] = what /\ (what = "dropped" => absent' = absent)
    BY <1>0, <1>1, <1>3 DEF Answers
  <2> QED
    BY <1>3, <2>1 DEF MissesRest
<1>4. ASSUME NEW to, at' = [at EXCEPT ![t] = to], UNCHANGED <<exists, answer, absent>>,
             at[t] # "out", to # "checked"
      PROVE  MissesRest(t)'
  <2>1. at'[t] = to /\ answer'[t] = answer[t] /\ absent' = absent /\ (exists' <=> exists)
    BY <1>1, <1>4
  <2> QED
    BY <1>4, <2>1 DEF MissesRest
<1>5. ASSUME NEW from, NEW to, FetchRead(t, from, to), from # "out"
      PROVE  MissesRest(t)'
  <2>1. /\ at[t] = from /\ at'[t] = to /\ answer'[t] = answer[t] /\ absent' = absent
        /\ (exists' <=> exists) /\ seen'[t] = [has |-> exists, gen |-> began[t]]
    BY <1>1, <1>5 DEF FetchRead, Moves
  <2>2. seen'[t].has <=> exists
    BY <2>1
  <2> QED
    BY <1>5, <2>1, <2>2 DEF MissesRest
<1>6. ASSUME NEW from, NEW to, UnlessFailed(t, from, to), to # "checked", from # "out"
      PROVE  MissesRest(t)'
  BY <1>0, <1>3, <1>4, <1>6 DEF UnlessFailed, Unanswered
<1>7. ASSUME NEW from, NEW to, ReadGeneration(t, from, to), to # "checked", from # "out"
      PROVE  MissesRest(t)'
  BY <1>4, <1>7 DEF ReadGeneration, Moves, Unanswered
<1>8. ASSUME NEW from, NEW hit, NEW miss, Look(t, from, hit, miss),
             hit # "checked", miss # "checked", from # "out"
      PROVE  MissesRest(t)'
  <2>1. PICK to \in {hit, miss} : at' = [at EXCEPT ![t] = to]
    BY <1>8 DEF Look
  <2> QED
    BY <1>4, <1>8, <2>1 DEF Look
<1>9. ASSUME NEW what, NEW rows, Answers(t, Label(rows, what)) PROVE MissesRest(t)'
  BY <1>0, <1>3, <1>9 DEF Label
<1>10. CASE Lock(t) \/ Remember(t) \/ FetchFails(t) \/ Fetched(t)
  BY <1>0, <1>3, <1>4, <1>9, <1>10 DEF Lock, Remember, FetchFails, Fetched, Moves, Unanswered
<1>11. CASE ReadKnown(t) \/ CheckFails(t) \/ CheckedFirst(t)
  BY <1>0, <1>3, <1>4, <1>11 DEF ReadKnown, CheckFails, CheckedFirst, Moves, Unanswered
<1>12. CASE Checked(t)
  <2>1. CASE seen[t].has
    BY <1>0, <1>3, <1>12, <2>1 DEF Checked
  <2>2. CASE ~seen[t].has
    BY <1>3, <1>12, <2>2 DEF Checked, MissesRest
  <2> QED
    BY <2>1, <2>2
<1>13. ASSUME NEW from, NEW to, Serve(t, from, to) PROVE MissesRest(t)'
  BY <1>9, <1>13 DEF Serve
<1>14. CASE RequestStep(t)
  <2>1. CASE LookFirst(t) \/ LookAgain(t)
    BY <1>8, <2>1 DEF LookFirst, LookAgain
  <2>2. CASE RefuseFirst(t) \/ RefuseAgain(t)
    BY <1>6, <2>2 DEF RefuseFirst, RefuseAgain
  <2>3. CASE ServeFirst(t) \/ ServeAgain(t)
    BY <1>13, <2>3 DEF ServeFirst, ServeAgain
  <2>4. CASE ReadGeneration(t, "generation", "fetch") \/ FetchRead(t, "fetch", "fetched")
    BY <1>5, <1>7, <2>4
  <2> QED
    BY <1>10, <1>14, <2>1, <2>2, <2>3, <2>4 DEF RequestStep
<1>15. CASE CheckStep(t)
  BY <1>5, <1>7, <1>11, <1>12, <1>15 DEF CheckStep
<1> QED
  BY <1>2, <1>14, <1>15

\* A list is stored as current only by a thread whose fetch began after the
\* last refresh.
LEMMA StoreStep ==
    ASSUME ListsTypeOK, StoreIsOfNow, NEW t \in Threads, TimesRest(t),
           Ask(t) \/ RequestStep(t) \/ Check(t) \/ CheckStep(t)
    PROVE  StoreIsOfNow'
<1> USE DEF StoreIsOfNow, cache
<1>1. CASE UNCHANGED <<store, generation>>
  BY <1>1
<1>2. CASE StoreIfCurrent(t) /\ at[t] \in {"fetched", "first checked", "checked"} /\ UNCHANGED generation
  <2>1. CASE began[t] = generation
    <3>1. store' = [at |-> clock, rows |-> seen[t], current |-> TRUE] /\ seen[t].gen = generation
      BY <1>2, <2>1 DEF StoreIfCurrent, TimesRest
    <3>2. store'.rows = seen[t]
      BY <3>1
    <3> QED
      BY <1>2, <3>1, <3>2
  <2>2. CASE began[t] # generation
    BY <1>2, <2>2 DEF StoreIfCurrent
  <2> QED
    BY <2>1, <2>2
<1>3. CASE FetchFails(t)
  <2>1. generation' = generation
    BY <1>3 DEF FetchFails
  <2>2. CASE store' = store
    BY <2>1, <2>2
  <2>3. CASE store' = [at |-> clock, rows |-> lastGood, current |-> FALSE]
    BY <2>3
  <2> QED
    BY <1>3, <2>2, <2>3 DEF FetchFails
<1> QED
  BY <1>1, <1>2, <1>3
     DEF RequestStep, CheckStep, LookFirst, ServeFirst, RefuseFirst, LookAgain, ServeAgain, RefuseAgain,
         Ask, Check, Begins, Look, Serve, UnlessFailed, Lock, ReadGeneration, FetchRead, Fetched, Remember,
         ReadKnown, CheckFails, CheckedFirst, Checked

(* A refresh, the clock and a change in paperless-ngx keep what every thread rests on. *)
LEMMA AroundStep ==
    ASSUME ListsInv, Invalidate \/ MetadataTick \/ Edit \/ UNCHANGED metadataVars
    PROVE  StoreIsOfNow' /\ \A t \in Threads : (TimesRest(t) /\ MissesRest(t))'
<1>1. ListsTypeOK /\ StoreIsOfNow /\ \A t \in Threads : TimesRest(t) /\ MissesRest(t)
  BY ListsOfThreads
<1>2. CASE Invalidate
  <2>1. \A t \in Threads : asked[t] \in Nat /\ began[t] \in Nat
    BY <1>1 DEF ListsTypeOK
  <2>2. /\ generation \in Nat /\ generation' = generation + 1 /\ store' = NoList
        /\ UNCHANGED <<exists, at, seen, began, answer, asked, absent>>
    BY <1>1, <1>2 DEF Invalidate, ListsTypeOK, mine
  <2>3. StoreIsOfNow'
    BY <2>2 DEF StoreIsOfNow
  <2>4. ASSUME NEW t \in Threads PROVE (TimesRest(t) /\ MissesRest(t))'
    <3>1. TimesRest(t) /\ MissesRest(t) /\ asked[t] \in Nat /\ began[t] \in Nat
      BY <1>1, <2>1
    <3>2. TimesPast(t)
      BY <3>1 DEF TimesRest
    <3>3. TimesPast(t)'
      BY <2>2, <3>1, <3>2 DEF TimesPast
    <3>4. TimesRest(t)'
      BY <2>2, <3>1, <3>3 DEF TimesRest
    <3>5. MissesRest(t)'
      BY <2>2, <3>1 DEF MissesRest
    <3> QED
      BY <3>4, <3>5
  <2> QED
    BY <2>3, <2>4
<1>3. CASE MetadataTick \/ UNCHANGED metadataVars
  <2>1. UNCHANGED <<exists, generation, store, at, seen, began, answer, asked, absent>>
    BY <1>3 DEF MetadataTick, metadataVars, cache, mine
  <2>2. StoreIsOfNow'
    BY <1>1, <2>1 DEF StoreIsOfNow
  <2>3. \A t \in Threads : (TimesRest(t) /\ MissesRest(t))'
    BY <1>1, <2>1 DEF TimesRest, TimesPast, MissesRest
  <2> QED
    BY <2>2, <2>3
<1>4. CASE Edit
  <2>1. \A t \in Checkers : (t \in absent \/ (at[t] # "out" /\ exists)) => t \in absent'
    BY <1>4 DEF Edit
  <2> QED
    BY <1>1, <1>4, <2>1 DEF Edit, cache, TimesRest, TimesPast, MissesRest, StoreIsOfNow, ListsTypeOK
<1> QED
  BY <1>2, <1>3, <1>4

(* Whatever is stored as current was fetched after the last refresh, and whatever
   a thread says of an id rests on a list of its own call. *)
THEOREM ListsInvariant == MetadataSpec => []ListsInv
<1>1. ListsInv /\ [MetadataNext]_metadataVars => ListsInv'
  <2> SUFFICES ASSUME ListsInv, [MetadataNext]_metadataVars PROVE ListsInv'
    OBVIOUS
  <2>1. ListsTypeOK /\ StoreIsOfNow /\ \A t \in Threads : TimesRest(t) /\ MissesRest(t)
    BY ListsOfThreads
  <2>2. ListsTypeOK'
    BY ListsTypes DEF ListsInv
  <2>3. CASE Invalidate \/ MetadataTick \/ Edit \/ UNCHANGED metadataVars
    BY <2>2, <2>3, AroundStep, ListsOfThreads DEF ListsInv, GenerationsPast, FetchIsOfCall,
       AbsenceIsSeen, AnswersRest, TimesRest, TimesPast, MissesRest, Threads
  <2>4. ASSUME NEW t \in Threads, Ask(t) \/ RequestStep(t) \/ Check(t) \/ CheckStep(t)
        PROVE  ListsInv'
    <3>1. TimesRest(t)' /\ MissesRest(t)' /\ StoreIsOfNow'
      BY <2>1, <2>2, <2>4, OwnTimes, OwnMisses, StoreStep
    <3>2. ASSUME NEW u \in Threads \ {t} PROVE (TimesRest(u) /\ MissesRest(u))'
      <4>1. TimesRest(u) /\ MissesRest(u) /\ Leaves(t)
        BY <2>1, <2>4, ThreadLeaves
      <4>2. /\ UNCHANGED <<exists, generation>>
            /\ at'[u] = at[u] /\ seen'[u] = seen[u] /\ began'[u] = began[u]
            /\ asked'[u] = asked[u] /\ answer'[u] = answer[u] /\ (u \in absent' <=> u \in absent)
        BY <4>1 DEF Leaves
      <4> QED
        BY <4>1, <4>2 DEF TimesRest, TimesPast, MissesRest
    <3> QED
      BY <2>2, <3>1, <3>2 DEF ListsInv, GenerationsPast, FetchIsOfCall,
         AbsenceIsSeen, AnswersRest, TimesRest, TimesPast, MissesRest, Threads
  <2> QED
    BY <2>3, <2>4 DEF MetadataNext, Threads
<1> QED
  BY <1>1, InitLists, PTL DEF MetadataSpec

(* The form calls an id gone, and a scan drops one, only on what paperless-ngx said
   after it was asked: never on a list that a refresh overtook (cache.py:216,
   scan_metadata.py:205). *)
THEOREM IdsArePaperless == MetadataSpec => []IdsAreProven
<1>1. ListsInv => IdsAreProven
  BY DEF ListsInv, AnswersRest, IdsAreProven, GoneIsProven, DropIsProven, Threads
<1> QED
  BY <1>1, ListsInvariant, PTL
=============================================================================
