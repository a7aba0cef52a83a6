-------------------------- MODULE MinimumInterval --------------------------
(***************************************************************************)
(* The rate floor of web/throttle.py: MinimumInterval.claim and release,   *)
(* under the callers that hold one.  The check cache's manual-refresh      *)
(* floor gives a claim back when no probe was run for it; the floors of    *)
(* POST /api/cache/invalidate and of the host guard's report never do.     *)
(*                                                                         *)
(* claim reads the clock BEFORE it takes the lock, so a caller may be held *)
(* up between the two while others claim and release.                      *)
(***************************************************************************)
EXTENDS Integers

CONSTANTS
    Callers,    \* request threads
    Interval,   \* min_interval, MIN_MANUAL_REFRESH_SECONDS
    None,       \* no claim recorded
    MaxTime     \* bound: where the modelled clock stops

ASSUME MinimumIntervalAssumption ==
    Interval \in Nat \ {0} /\ MaxTime \in Nat /\ None \notin Int

VARIABLES
    now,        \* the monotonic clock, at zero just after boot
    lastClaim,  \* _last_claim
    phase,      \* each caller: out, in claim with the clock read, or granted
    stamp,      \* each caller's clock reading; of a granted one, its claim
    spent       \* history: the claims that were granted and kept

floorVars == <<now, lastClaim, phase, stamp, spent>>

FloorInit ==
    /\ now = 0 /\ lastClaim = None /\ spent = {}
    /\ phase = [c \in Callers |-> "out"] /\ stamp = [c \in Callers |-> 0]

Tick == now < MaxTime /\ now' = now + 1 /\ UNCHANGED <<lastClaim, phase, stamp, spent>>

ReadClock(c) ==
    /\ phase[c] = "out"
    /\ phase' = [phase EXCEPT ![c] = "asking"] /\ stamp' = [stamp EXCEPT ![c] = now]
    /\ UNCHANGED <<now, lastClaim, spent>>

TooSoon(reading) == lastClaim # None /\ reading - lastClaim < Interval

Grant(c) ==
    /\ phase[c] = "asking" /\ ~TooSoon(stamp[c])
    /\ phase' = [phase EXCEPT ![c] = "granted"] /\ lastClaim' = stamp[c]
    /\ UNCHANGED <<now, stamp, spent>>

\* A refusal changes no state.
RefuseRestarting(c) ==
    /\ phase[c] = "asking" /\ TooSoon(stamp[c])
    /\ phase' = [phase EXCEPT ![c] = "out"] /\ lastClaim' = stamp[c]
    /\ UNCHANGED <<now, stamp, spent>>
Refuse(c) ==
    /\ phase[c] = "asking" /\ TooSoon(stamp[c])
    /\ phase' = [phase EXCEPT ![c] = "out"]
    /\ UNCHANGED <<now, lastClaim, stamp, spent>>

\* The work the claim paid for was done, or is still to be.
Keep(c) ==
    /\ phase[c] = "granted"
    /\ phase' = [phase EXCEPT ![c] = "out"] /\ spent' = spent \cup {stamp[c]}
    /\ UNCHANGED <<now, lastClaim, stamp>>

\* release: only the recorded claim is cleared.
ClearedAlways(claim) == None
Cleared(claim) == IF lastClaim = claim THEN None ELSE lastClaim

Release(c) ==
    /\ phase[c] = "granted"
    /\ phase' = [phase EXCEPT ![c] = "out"] /\ lastClaim' = Cleared(stamp[c])
    /\ UNCHANGED <<now, stamp, spent>>

FloorNext ==
    \/ Tick
    \/ \E c \in Callers : ReadClock(c) \/ Grant(c) \/ Refuse(c) \/ Keep(c) \/ Release(c)

FloorSpec == FloorInit /\ [][FloorNext]_floorVars
-----------------------------------------------------------------------------
FloorTypeOK ==
    /\ now \in Nat
    /\ lastClaim \in Nat \cup {None}
    /\ phase \in [Callers -> {"out", "asking", "granted"}]
    /\ stamp \in [Callers -> Nat]
    /\ spent \subseteq Nat

\* The claims granted and not given back.
Standing == spent \cup {stamp[c] : c \in {d \in Callers : phase[d] = "granted"}}

Granting == \E c \in Callers : phase[c] = "asking" /\ phase'[c] = "granted"
Refusing(c) == phase[c] = "asking" /\ phase'[c] = "out"

\* At most one call per interval (throttle.py:10): no claim is granted before a
\* whole interval has passed since the reading of every claim that stands,
\* whoever was held up in between and whatever was given back.
FloorHolds == [][Granting => \A s \in Standing : now - s >= Interval]_floorVars

\* Nobody is refused for traffic nobody generated (checks_cache.py:188), nor by
\* hammering: every refusal has a standing claim that is too recent.
RefusedForAReason ==
    [][\A c \in Callers : Refusing(c) => \E s \in Standing : stamp[c] - s < Interval]_floorVars

\* The floor holds for every granted call, and refuses none but for its sake.
FloorIsExact == FloorHolds /\ RefusedForAReason

\* The inductive invariant: a standing claim is the recorded one or old enough,
\* the recorded one stands, and two claims with one stamp are both old.
ReadingsPast == \A c \in Callers : stamp[c] <= now
Covered == \A s \in Standing : s = lastClaim \/ now - s >= Interval
RecordStands == lastClaim # None => lastClaim \in Standing
SharedStampIsOld ==
    \A c \in Callers : phase[c] = "granted" =>
        \/ now - stamp[c] >= Interval
        \/ /\ stamp[c] \notin spent
           /\ \A d \in Callers \ {c} : phase[d] = "granted" => stamp[d] # stamp[c]
FloorInv == FloorTypeOK /\ ReadingsPast /\ Covered /\ RecordStands /\ SharedStampIsOld
=============================================================================
