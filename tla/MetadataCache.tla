--------------------------- MODULE MetadataCache ---------------------------
(***************************************************************************)
(* One key of the cache of paperless-ngx's lists (web/cache.py), with its  *)
(* three users: a request that shows the list and labels the id the form   *)
(* has chosen (metadata_view.py), the check of a scan's id before it is    *)
(* uploaded (scan_metadata.py), and the refresh button (routes.py).        *)
(*                                                                         *)
(* A list is what the properties tell apart: whether it names the id, and  *)
(* history, the generation its fetch began under.  A checker holds no lock *)
(* of the cache while it fetches, and stores beside a request that does.   *)
(***************************************************************************)
EXTENDS Integers

CONSTANTS
    Requests,        \* threads that render the list
    Checkers,        \* threads that check a scan's id
    Ttl, Window,     \* seconds a list, and a failure, are remembered
    NoList,
    MaxClock,        \* bound: the clock
    MaxEdits,        \* bound: changes of the id in paperless-ngx
    MaxInvalidations \* bound: presses of the refresh button

ASSUME MetadataAssumption ==
    /\ Ttl \in Nat /\ Window \in Nat /\ Window <= Ttl
    /\ MaxClock \in Nat /\ MaxEdits \in Nat /\ MaxInvalidations \in Nat
    /\ NoList \notin {"gone", "dropped"} /\ NoList \notin [has : BOOLEAN, gen : Nat]

Threads == Requests \cup Checkers

VARIABLES
    exists, edits,   \* the id exists in paperless-ngx; how often that changed
    clock,           \* the monotonic clock
    store,           \* _store[key]: [at, rows, current], or NoList
    lastGood,        \* _last_good[key]
    failedUntil,     \* _failed_until[key]
    generation,      \* _generations[key]
    keyLock,         \* who holds _key_locks[key]
    at,              \* where each thread is
    seen,            \* the list each thread read or fetched
    began,           \* the generation each thread read before its fetch
    answer,          \* what each thread said against the id: NoList, "gone", "dropped"
    asked,           \* history: the generation when its call began
    absent           \* history: checkers in whose call the id did not exist

cache == <<store, lastGood, failedUntil, generation, keyLock>>
mine == <<at, seen, began, answer, asked, absent>>
metadataVars == <<exists, edits, clock, cache, mine>>

MetadataInit ==
    /\ exists \in BOOLEAN /\ edits = 0 /\ clock = 0
    /\ store = NoList /\ lastGood = NoList /\ failedUntil = 0
    /\ generation = 0 /\ keyLock = NoList
    /\ at = [t \in Threads |-> "out"]
    /\ seen = [t \in Threads |-> NoList]
    /\ began = [t \in Threads |-> 0] /\ asked = [t \in Threads |-> 0]
    /\ answer = [t \in Threads |-> NoList] /\ absent = {}

Live(entry) == entry # NoList /\ clock - entry.at < Ttl
FailedRecently == clock < failedUntil

Moves(t, from, to) == at[t] = from /\ at' = [at EXCEPT ![t] = to]
Begins(t) ==
    /\ answer' = [answer EXCEPT ![t] = NoList] /\ seen' = [seen EXCEPT ![t] = NoList]
    /\ asked' = [asked EXCEPT ![t] = generation]
    /\ absent' = IF exists THEN absent \ {t} ELSE absent \cup ({t} \cap Checkers)
    /\ UNCHANGED <<exists, edits, clock, cache, began>>
\* Only an answer against the id is kept, with what it rests on.
Answers(t, what) ==
    /\ at' = [at EXCEPT ![t] = "out"]
    /\ answer' = [answer EXCEPT ![t] = what]
    /\ seen' = IF what = NoList THEN [seen EXCEPT ![t] = NoList] ELSE seen
    /\ began' = [began EXCEPT ![t] = 0]
    /\ asked' = IF what = NoList THEN [asked EXCEPT ![t] = 0] ELSE asked
    /\ absent' = IF what = NoList THEN absent \ {t} ELSE absent
Unanswered == UNCHANGED <<answer, seen, began, asked, absent>>

(* _unnamed_rows: only a list known to be current proves the id gone. *)
Label(rows, current) ==
    IF ~rows.has /\ current THEN "gone" ELSE NoList

-----------------------------------------------------------------------------
(* get_or_fetch_list, behind a request that renders the list *)

Ask(t) ==
    /\ t \in Requests /\ Moves(t, "out", "look")
    /\ Begins(t)

\* _served reads the entry twice; what it serves was the entry both times.
Look(t, from, hit, miss) ==
    /\ at[t] = from
    /\ at' = [at EXCEPT ![t] = IF Live(store) THEN hit ELSE miss]
    /\ seen' = [seen EXCEPT ![t] = IF Live(store) THEN store.rows ELSE NoList]
    /\ UNCHANGED <<exists, edits, clock, cache, began, answer, asked, absent>>
\* A list that is the entry's own object: a re-armed copy is the same one, and so
\* here is an equal list of the same generation.
SameList(t) == store # NoList /\ store.rows = seen[t]
Serve(t, from, to) ==
    /\ at[t] = from
    /\ LET current == SameList(t) /\ store.current
       IN  Answers(t, Label(seen[t], current))
    /\ keyLock' = IF keyLock = t THEN NoList ELSE keyLock
    /\ UNCHANGED <<exists, edits, clock, store, lastGood, failedUntil, generation>>

\* A failure a moment ago is answered without a lock, or with it.
UnlessFailed(t, from, to) ==
    /\ at[t] = from
    /\ \/ /\ FailedRecently
          /\ Answers(t, NoList)
          /\ keyLock' = IF keyLock = t THEN NoList ELSE keyLock
       \/ /\ ~FailedRecently
          /\ at' = [at EXCEPT ![t] = to]
          /\ UNCHANGED keyLock /\ Unanswered
    /\ UNCHANGED <<exists, edits, clock, store, lastGood, failedUntil, generation>>

Lock(t) ==
    /\ at[t] = "lock"
    /\ \/ keyLock = NoList /\ keyLock' = t /\ Moves(t, "lock", "look again")
          /\ Unanswered
       \/ keyLock # NoList /\ Answers(t, NoList) /\ UNCHANGED keyLock
    /\ UNCHANGED <<exists, edits, clock, store, lastGood, failedUntil, generation>>

ReadGeneration(t, from, to) ==
    /\ Moves(t, from, to)
    /\ began' = [began EXCEPT ![t] = generation]
    /\ UNCHANGED <<exists, edits, clock, cache, seen, answer, asked, absent>>

\* paperless-ngx answers with its list at some moment of the fetch.
FetchRead(t, from, to) ==
    /\ Moves(t, from, to)
    /\ seen' = [seen EXCEPT ![t] = [has |-> exists, gen |-> began[t]]]
    /\ UNCHANGED <<exists, edits, clock, cache, began, answer, asked, absent>>

(* store_if_current: nothing from before an invalidate is stored after it. *)
StoreAnyway(t) ==
    /\ store' = [at |-> clock, rows |-> seen[t], current |-> TRUE]
    /\ lastGood' = seen[t]
StoreIfCurrent(t) ==
    IF began[t] = generation
    THEN /\ store' = [at |-> clock, rows |-> seen[t], current |-> TRUE]
         /\ lastGood' = seen[t]
    ELSE UNCHANGED <<store, lastGood>>

Fetched(t) ==
    /\ at[t] = "fetched"
    /\ StoreIfCurrent(t)
    /\ Answers(t, Label(seen[t], TRUE))
    /\ keyLock' = NoList
    /\ UNCHANGED <<exists, edits, clock, failedUntil, generation>>

\* _re_arm, _remember_failure: the last good copy is served for another TTL.
FetchFails(t) ==
    /\ at[t] = "fetch"
    /\ IF lastGood # NoList
       THEN /\ store' = IF began[t] = generation
                        THEN [at |-> clock, rows |-> lastGood, current |-> FALSE]
                        ELSE store
            /\ Answers(t, Label(lastGood, FALSE))
            /\ keyLock' = NoList
            /\ UNCHANGED failedUntil
       ELSE /\ Moves(t, "fetch", "remember")
            /\ UNCHANGED <<store, failedUntil, keyLock>> /\ Unanswered
    /\ UNCHANGED <<exists, edits, clock, lastGood, generation>>
Remember(t) ==
    /\ at[t] = "remember"
    /\ failedUntil' = IF Ttl > 0 /\ began[t] = generation THEN clock + Window
                                                         ELSE failedUntil
    /\ Answers(t, NoList)
    /\ keyLock' = NoList
    /\ UNCHANGED <<exists, edits, clock, store, lastGood, generation>>

LookFirst(t) == Look(t, "look", "serve", "refuse")
ServeFirst(t) == Serve(t, "serve", "out")
RefuseFirst(t) == UnlessFailed(t, "refuse", "lock")
LookAgain(t) == Look(t, "look again", "serve again", "refuse again")
ServeAgain(t) == Serve(t, "serve again", "out")
(* The check repeated under the lock: the holder before may just have failed. *)
RefuseAgain(t) == UnlessFailed(t, "refuse again", "generation")

RequestStep(t) ==
    \/ LookFirst(t) \/ ServeFirst(t) \/ RefuseFirst(t) \/ Lock(t) \/ LookAgain(t)
    \/ ServeAgain(t) \/ RefuseAgain(t) \/ ReadGeneration(t, "generation", "fetch")
    \/ FetchRead(t, "fetch", "fetched") \/ Fetched(t) \/ FetchFails(t) \/ Remember(t)

-----------------------------------------------------------------------------
(* check_scan_metadata and CachedMetadataLookup: an id the cached list names
   is kept; a missing one is dropped only by a list fetched for this check. *)

Check(t) ==
    /\ t \in Checkers /\ Moves(t, "out", "known")
    /\ Begins(t)
DropUnlisted(t) ==
    /\ at[t] = "known"
    /\ IF Live(store) THEN Answers(t, IF store.rows.has THEN NoList ELSE "dropped")
       ELSE Moves(t, "known", "first generation") /\ Unanswered
    /\ UNCHANGED <<exists, edits, clock, cache>>
ReadKnown(t) ==
    /\ at[t] = "known"
    /\ \/ Live(store) /\ store.rows.has /\ Answers(t, NoList)
       \/ Live(store) /\ ~store.rows.has /\ Moves(t, "known", "check generation")
          /\ Unanswered
       \/ ~Live(store) /\ Moves(t, "known", "first generation") /\ Unanswered
    /\ UNCHANGED <<exists, edits, clock, cache>>
CheckFails(t) ==
    /\ at[t] \in {"first fetch", "check fetch"}
    /\ Answers(t, NoList)
    /\ UNCHANGED <<exists, edits, clock, cache>>
\* A miss may only mean the first answer was old: one fresh look decides.
CheckedFirst(t) ==
    /\ at[t] = "first checked"
    /\ StoreIfCurrent(t)
    /\ \/ seen[t].has /\ Answers(t, NoList)
       \/ ~seen[t].has /\ Moves(t, "first checked", "check generation") /\ Unanswered
    /\ UNCHANGED <<exists, edits, clock, failedUntil, generation, keyLock>>
Checked(t) ==
    /\ at[t] = "checked"
    /\ StoreIfCurrent(t)
    /\ Answers(t, IF seen[t].has THEN NoList ELSE "dropped")
    /\ UNCHANGED <<exists, edits, clock, failedUntil, generation, keyLock>>

CheckStep(t) ==
    \/ ReadKnown(t)
    \/ ReadGeneration(t, "first generation", "first fetch")
    \/ FetchRead(t, "first fetch", "first checked") \/ CheckedFirst(t)
    \/ ReadGeneration(t, "check generation", "check fetch")
    \/ FetchRead(t, "check fetch", "checked") \/ CheckFails(t) \/ Checked(t)

-----------------------------------------------------------------------------
(* POST /api/cache/invalidate, the clock, and paperless-ngx's users *)

Invalidate ==
    /\ generation < MaxInvalidations
    /\ generation' = generation + 1
    /\ store' = NoList /\ failedUntil' = 0
    /\ UNCHANGED <<exists, edits, clock, lastGood, keyLock, mine>>

MetadataTick ==
    /\ clock < MaxClock
    /\ clock' = clock + 1
    /\ UNCHANGED <<exists, edits, cache, mine>>

Edit ==
    /\ edits < MaxEdits
    /\ edits' = edits + 1 /\ exists' = ~exists
    /\ absent' = IF exists THEN absent \cup {t \in Checkers : at[t] # "out"} ELSE absent
    /\ UNCHANGED <<clock, cache, at, seen, began, answer, asked>>

MetadataNext ==
    \/ \E t \in Requests : Ask(t) \/ RequestStep(t)
    \/ \E t \in Checkers : Check(t) \/ CheckStep(t)
    \/ Invalidate \/ MetadataTick \/ Edit

MetadataSpec == MetadataInit /\ [][MetadataNext]_metadataVars

-----------------------------------------------------------------------------
(* Properties *)

\* The form says that paperless-ngx no longer has the id only from a list
\* whose fetch began after every refresh pressed before the form was asked for.
GoneIsProven ==
    \A t \in Requests :
        answer[t] = "gone" => seen[t].gen >= asked[t]

\* An id is dropped from a scan only when it was missing from paperless-ngx at
\* some moment of that scan's own check, whatever the cache holds.
DropIsProven ==
    \A t \in Checkers : answer[t] = "dropped" => t \in absent

\* What the page and the scan say of an id is what paperless-ngx said, never a
\* list that was overtaken or a cache that is stale.
IdsAreProven == GoneIsProven /\ DropIsProven
=============================================================================
