------------------------------ MODULE Workspace ------------------------------
(***************************************************************************)
(* The job workspaces of one scratch directory (workspace.py): several     *)
(* processes create, lock, publish, use and remove their own workspaces    *)
(* there and sweep up the ones dead processes left, with every system call *)
(* a step of its own and a kill possible between any two.                  *)
(*                                                                         *)
(* A workspace is its name in the directory, its lock file, and the pages  *)
(* in its spool.  A lock belongs to the open lock file, so it survives a   *)
(* rename of the directory and ends with the process.  The metadata and    *)
(* the layout of the pages are left out; Delivery has what is done with    *)
(* the pages.                                                              *)
(***************************************************************************)
EXTENDS FiniteSets

CONSTANTS
    Procs,      \* processes: a server, and command lines
    Spaces      \* workspaces ever created

Nobody == "nobody"
ASSUME WorkspaceAssumption ==
    Nobody \notin Procs /\ Procs \cap Spaces = {}

VARIABLES
    place,     \* the name it has: none, ".new-", "job-", "unlocked-", "leftover-"
    linked,    \* whether its lock file is linked in the directory
    holder,    \* who holds the lock of that file
    pages,     \* the page files in its spool: "none", "owed" or "safe"
    pc,        \* per process: what it does next
    at,        \* per process: the workspace it is doing it to
    listed,    \* per process: directory entries a sweep has still to look at
    claimed,   \* per process: orphans a sweep has locked
    spoilt     \* history: settled workspaces that could be neither removed nor hidden

disk == <<place, linked, pages>>
vars == <<disk, holder, pc, at, listed, claimed, spoilt>>

Init ==
    /\ place = [w \in Spaces |-> "none"]
    /\ linked = [w \in Spaces |-> FALSE]
    /\ holder = [w \in Spaces |-> Nobody]
    /\ pages = [w \in Spaces |-> "none"]
    /\ pc = [p \in Procs |-> "idle"]
    /\ at = [p \in Procs |-> Nobody]
    /\ listed = [p \in Procs |-> {}]
    /\ claimed = [p \in Procs |-> {}]
    /\ spoilt = {}

Goto(p, from, to) == pc[p] = from /\ pc' = [pc EXCEPT ![p] = to]
Here(p, place_) == pc' = [pc EXCEPT ![p] = place_]
Name(w, name) == place' = [place EXCEPT ![w] = name]

-----------------------------------------------------------------------------
(* JobWorkspace: a run's own workspace. *)

\* __enter__: a staging directory, whose name no sweep looks at.
MakeStaging(p, w) ==
    /\ Goto(p, "idle", "create lock")
    /\ place[w] = "none"
    /\ Name(w, ".new-")
    /\ at' = [at EXCEPT ![p] = w]
    /\ UNCHANGED <<linked, pages, holder, listed, claimed, spoilt>>

CreateLock(p) ==
    /\ Goto(p, "create lock", "lock")
    /\ linked' = [linked EXCEPT ![at[p]] = TRUE]
    /\ UNCHANGED <<place, pages, holder, at, listed, claimed, spoilt>>

\* A filesystem without locks: the workspace is used all the same.
TakeLock(p) ==
    /\ \/ /\ Goto(p, "lock", "publish")
          /\ holder[at[p]] = Nobody
          /\ holder' = [holder EXCEPT ![at[p]] = p]
       \/ Goto(p, "lock", "publish unlocked") /\ UNCHANGED holder
    /\ UNCHANGED <<disk, at, listed, claimed, spoilt>>

\* The published name is given only to a workspace whose lock is held.
Publish(p) ==
    /\ \/ Goto(p, "publish", "scan") /\ Name(at[p], "job-")
       \/ Goto(p, "publish unlocked", "scan") /\ Name(at[p], "unlocked-")
    /\ UNCHANGED <<linked, pages, holder, at, listed, claimed, spoilt>>

\* Not published: the lock is closed first, and then the staging removed.
GiveUp(p) ==
    /\ pc[p] \in {"create lock", "lock", "publish", "publish unlocked"}
    /\ Here(p, "discard")
    /\ holder' = [w \in Spaces |-> IF holder[w] = p THEN Nobody ELSE holder[w]]
    /\ UNCHANGED <<disk, at, listed, claimed, spoilt>>
Discard(p) ==
    /\ Goto(p, "discard", "idle")
    /\ \/ Name(at[p], "none") /\ linked' = [linked EXCEPT ![at[p]] = FALSE]
       \/ UNCHANGED <<place, linked>>
    /\ at' = [at EXCEPT ![p] = Nobody]
    /\ UNCHANGED <<pages, holder, listed, claimed, spoilt>>

Scan(p) ==
    /\ pc[p] = "scan"
    /\ pages' = [pages EXCEPT ![at[p]] = "owed"]
    /\ UNCHANGED <<place, linked, holder, pc, at, listed, claimed, spoilt>>

(* The run is over: nothing in the workspace still needs keeping, or keep()
   was called because its pages are the only copy. *)
RunEnds(p) ==
    /\ \/ /\ Goto(p, "scan", "remove")
          /\ pages' = [pages EXCEPT ![at[p]] = IF @ = "owed" THEN "safe" ELSE @]
       \/ /\ Goto(p, "scan", "close")
          /\ pages[at[p]] = "owed"
          /\ UNCHANGED pages
    /\ UNCHANGED <<place, linked, holder, at, listed, claimed, spoilt>>

-----------------------------------------------------------------------------
(* _remove_or_retire, by a run or by a sweep, with the lock held: rmtree takes
   the files in any order and may fail at any of them. *)

RemoveTree(p) ==
    /\ pc[p] = "remove"
    /\ LET w == at[p]
       IN  \/ /\ linked[w]
              /\ linked' = [linked EXCEPT ![w] = FALSE]
              /\ UNCHANGED <<place, pages, pc>>
           \/ /\ pages[w] # "none"
              /\ pages' = [pages EXCEPT ![w] = "none"]
              /\ UNCHANGED <<place, linked, pc>>
           \/ /\ ~linked[w] /\ pages[w] = "none"
              /\ Name(w, "gone")
              /\ Here(p, "close")
              /\ UNCHANGED <<linked, pages>>
           \/ /\ Here(p, "retire")
              /\ UNCHANGED disk
    /\ UNCHANGED <<holder, at, listed, claimed, spoilt>>

\* What could not be removed must not look like a killed scan.
Retire(p) ==
    /\ \/ Goto(p, "retire", "close") /\ Name(at[p], "leftover-")
       \/ Goto(p, "retire", "unlink lock") /\ UNCHANGED place
    /\ UNCHANGED <<linked, pages, holder, at, listed, claimed, spoilt>>

UnlinkLock(p) ==
    /\ Goto(p, "unlink lock", "close")
    /\ \/ linked' = [linked EXCEPT ![at[p]] = FALSE] /\ UNCHANGED spoilt
       \/ spoilt' = spoilt \cup {at[p]} /\ UNCHANGED linked
    /\ UNCHANGED <<place, pages, holder, at, listed, claimed>>

\* The lock is held until the directory is gone, or hidden.
CloseLock(p) ==
    /\ pc[p] = "close"
    /\ holder' = [holder EXCEPT ![at[p]] = IF @ = p THEN Nobody ELSE @]
    /\ claimed' = [claimed EXCEPT ![p] = @ \ {at[p]}]
    /\ Here(p, IF claimed'[p] = {} THEN "idle" ELSE "recover")
    /\ at' = [at EXCEPT ![p] = Nobody]
    /\ UNCHANGED <<disk, listed, spoilt>>

-----------------------------------------------------------------------------
(* sweep_orphans: find_orphans claims all it can, then each is recovered. *)

ListDirectory(p) ==
    /\ Goto(p, "idle", "claim")
    /\ listed' = [listed EXCEPT ![p] = {w \in Spaces : place[w] = "job-"}]
    /\ UNCHANGED <<disk, holder, at, claimed, spoilt>>

\* _is_own_directory and _open_lock: an entry without a lock file is skipped.
OpenLock(p) ==
    /\ pc[p] = "claim" /\ listed[p] # {}
    /\ \E w \in listed[p] :
          /\ listed' = [listed EXCEPT ![p] = @ \ {w}]
          /\ IF place[w] = "job-" /\ linked[w]
             THEN Here(p, "try lock") /\ at' = [at EXCEPT ![p] = w]
             ELSE UNCHANGED <<pc, at>>
    /\ UNCHANGED <<disk, holder, claimed, spoilt>>

\* A lock somebody holds, or that cannot be checked, is a live job's.
TryLock(p) ==
    /\ \/ /\ Goto(p, "try lock", "check place")
          /\ holder[at[p]] = Nobody
          /\ holder' = [holder EXCEPT ![at[p]] = p]
          /\ UNCHANGED at
       \/ /\ Goto(p, "try lock", "claim")
          /\ at' = [at EXCEPT ![p] = Nobody]
          /\ UNCHANGED holder
    /\ UNCHANGED <<disk, listed, claimed, spoilt>>

ClaimAtOnce(p) ==
    /\ Goto(p, "check place", "claim")
    /\ claimed' = [claimed EXCEPT ![p] = @ \cup {at[p]}]
    /\ at' = [at EXCEPT ![p] = Nobody]
    /\ UNCHANGED <<disk, holder, listed, spoilt>>
\* _still_in_place: a file removed between the open and the lock proves nothing.
Claim(p) ==
    /\ Goto(p, "check place", "claim")
    /\ LET w == at[p]
       IN  IF place[w] = "job-" /\ linked[w]
           THEN claimed' = [claimed EXCEPT ![p] = @ \cup {w}] /\ UNCHANGED holder
           ELSE holder' = [holder EXCEPT ![w] = Nobody] /\ UNCHANGED claimed
    /\ at' = [at EXCEPT ![p] = Nobody]
    /\ UNCHANGED <<disk, listed, spoilt>>

StartRecovery(p) ==
    /\ pc[p] = "claim" /\ listed[p] = {}
    /\ Here(p, IF claimed[p] = {} THEN "idle" ELSE "recover")
    /\ UNCHANGED <<disk, holder, at, listed, claimed, spoilt>>

(* _recover_orphan: its pages are kept and the workspace removed; it stays
   when one of them could not be kept, or the recovery raised. *)
Recover(p) ==
    /\ pc[p] = "recover"
    /\ \E w \in claimed[p] :
          /\ at' = [at EXCEPT ![p] = w]
          /\ \/ /\ Here(p, "remove")
                /\ pages' = [pages EXCEPT ![w] = IF @ = "owed" THEN "safe" ELSE @]
             \/ Here(p, "close") /\ UNCHANGED pages
    /\ UNCHANGED <<place, linked, holder, listed, claimed, spoilt>>

\* Interrupted: every lock still held is released.
SweepInterrupted(p) ==
    /\ pc[p] \in {"claim", "try lock", "check place", "recover"}
    /\ Here(p, "idle")
    /\ holder' = [w \in Spaces |-> IF holder[w] = p THEN Nobody ELSE holder[w]]
    /\ at' = [at EXCEPT ![p] = Nobody]
    /\ listed' = [listed EXCEPT ![p] = {}]
    /\ claimed' = [claimed EXCEPT ![p] = {}]
    /\ UNCHANGED <<disk, spoilt>>

-----------------------------------------------------------------------------
\* Killed at any step; another process takes its place.
Removing == {"remove", "retire", "unlink lock"}
Die(p) ==
    /\ pc[p] # "idle"
    /\ spoilt' = IF pc[p] \in Removing THEN spoilt \cup {at[p]} ELSE spoilt
    /\ Here(p, "idle")
    /\ holder' = [w \in Spaces |-> IF holder[w] = p THEN Nobody ELSE holder[w]]
    /\ at' = [at EXCEPT ![p] = Nobody]
    /\ listed' = [listed EXCEPT ![p] = {}]
    /\ claimed' = [claimed EXCEPT ![p] = {}]
    /\ UNCHANGED disk

Step(p) ==
    \/ \E w \in Spaces : MakeStaging(p, w)
    \/ CreateLock(p) \/ TakeLock(p) \/ Publish(p) \/ GiveUp(p) \/ Discard(p)
    \/ Scan(p) \/ RunEnds(p) \/ RemoveTree(p) \/ Retire(p) \/ UnlinkLock(p)
    \/ CloseLock(p) \/ ListDirectory(p) \/ OpenLock(p) \/ TryLock(p) \/ Claim(p)
    \/ StartRecovery(p) \/ Recover(p) \/ SweepInterrupted(p)

Next == \E p \in Procs : Step(p) \/ Die(p)
Spec == Init /\ [][Next]_vars

-----------------------------------------------------------------------------
(* Who has a published workspace in hand: the run that uses it, or the sweep
   that claimed it, until the lock is closed. *)
Using(p) == IF pc[p] \in {"scan", "close"} \cup Removing THEN {at[p]} ELSE {}
InHand(p) == Using(p) \cup claimed[p]
Hands(w) == {p \in Procs : w \in InHand(p)}

OwnerAmong(hands) ==
    CASE Cardinality(hands) = 0 -> Nobody
      [] Cardinality(hands) = 1 -> CHOOSE p \in hands : TRUE
      [] OTHER -> "several"
Owner == [w \in Spaces |-> OwnerAmong(Hands(w))]
Settled(w) ==
    \/ \E p \in Procs : at[p] = w /\ pc[p] \in Removing
    \/ pages[w] = "safe" \/ ~linked[w] \/ place[w] \in {"leftover-", "gone"}
Fate == [w \in Spaces |->
            CASE place[w] \in {"none", ".new-"} -> "none"
              [] place[w] \notin {"none", ".new-"} /\ w \in spoilt -> "spoilt"
              [] place[w] \notin {"none", ".new-"} /\ w \notin spoilt /\ Settled(w) -> "settled"
              [] OTHER -> "open"]

Custody == INSTANCE PageCustody WITH owner <- Owner, fate <- Fate

(* The scratch directory keeps PageCustody's promise: a live run's workspace
   is never swept, two sweeps never recover the same one, and a workspace with
   nothing left to keep is not taken for an interrupted scan, whatever fails. *)
KeepsCustody == Custody!Spec
=============================================================================
