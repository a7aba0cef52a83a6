----------------------------- MODULE PageCustody -----------------------------
(***************************************************************************)
(* What the scratch directory promises about each job workspace, whoever   *)
(* else is using the directory: at most one process has a workspace in its *)
(* hands; a workspace whose process is gone may be taken up by one other;  *)
(* and one whose pages are all dealt with is never taken up again.         *)
(***************************************************************************)
CONSTANTS
    Procs,   \* the processes: servers and command lines
    Spaces   \* the job workspaces

Nobody == "nobody"

VARIABLES
    owner,   \* who has the workspace in hand
    fate     \* "none", "open" with pages to look after, "settled" or "spoilt"

custody == <<owner, fate>>

Init ==
    /\ owner = [w \in Spaces |-> Nobody]
    /\ fate = [w \in Spaces |-> "none"]

Create(p, w) ==
    /\ fate[w] = "none" /\ owner[w] = Nobody
    /\ owner' = [owner EXCEPT ![w] = p]
    /\ fate' = [fate EXCEPT ![w] = "open"]

\* Its pages were delivered, kept in failed/, or thrown away by the operator.
Settle(w) ==
    /\ owner[w] # Nobody /\ fate[w] = "open"
    /\ fate' = [fate EXCEPT ![w] = "settled"]
    /\ UNCHANGED owner

\* The process is gone, or has left the workspace for another to take up.
LetGo(W) ==
    /\ W # {} /\ \A w \in W : owner[w] # Nobody
    /\ owner' = [w \in Spaces |-> IF w \in W THEN Nobody ELSE owner[w]]
    /\ UNCHANGED fate

TakeUp(p, w) ==
    /\ owner[w] = Nobody /\ fate[w] \in {"open", "spoilt"}
    /\ owner' = [owner EXCEPT ![w] = p]
    /\ UNCHANGED fate

(* Killed while it was removing a settled workspace, or neither able to
   remove it nor to hide it, a process leaves what looks like a dead job. *)
Spoil(w) ==
    /\ owner[w] # Nobody /\ fate[w] = "settled"
    /\ fate' = [fate EXCEPT ![w] = "spoilt"]
    /\ \E W \in SUBSET {v \in Spaces : owner[v] = owner[w]} :
          owner' = [v \in Spaces |-> IF v \in W THEN Nobody ELSE owner[v]]

Next ==
    \/ \E p \in Procs, w \in Spaces : Create(p, w) \/ TakeUp(p, w)
    \/ \E w \in Spaces : Settle(w) \/ Spoil(w)
    \/ \E W \in SUBSET Spaces : LetGo(W)

Spec == Init /\ [][Next]_custody
=============================================================================
