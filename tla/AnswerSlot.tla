----------------------------- MODULE AnswerSlot -----------------------------
(***************************************************************************)
(* The single-answer slot of flip.py: an answer is claimed once, under a   *)
(* lock, and whoever claimed it then sets the event its waiter sleeps on.  *)
(* The claim is one step of the program and the event another, so a slot   *)
(* is two values: its answer and whether its waiter has been woken.        *)
(***************************************************************************)

Open == "open"                    \* no answer yet (None)

Unanswered(answer) == answer = Open

\* offer: the answer is outcome if nothing has claimed it yet.
AfterOffer(answer, outcome) == IF Unanswered(answer) THEN outcome ELSE answer

\* settle, the end of a wait: the same claim, which also reports who won.
SettleOverwrites(answer, outcome) == outcome
Settle(answer, outcome) == IF Unanswered(answer) THEN outcome ELSE answer
=============================================================================
