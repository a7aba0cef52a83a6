---------------------------- MODULE FlipWaitProofs ----------------------------
(***************************************************************************)
(* For any jobs and any clicks: a click that counted is the answer of its  *)
(* job, a prompt that is shown can be answered, and no click answers one   *)
(* that was not announced.                                                 *)
(***************************************************************************)
EXTENDS FlipWait, TLAPS

Awaiting == {"enterWait", "wait", "settle"}
Announced == {"recheck", "interruptOffer", "interruptSet", "persist", "settled", "passB"} \cup Awaiting
Heard == {"set", "claimed"}

\* The worker thread: the job it holds, its coordinator and its announcement.
WorkerHoldsJob ==
    /\ pc # "idle" => job \in Jobs
    /\ pc \notin {"idle", "taken"} => coordinator = job
    /\ pc \in Announced => armed[job] /\ job \in asked
    /\ pc = "settled" => ~Unanswered(answer[job])
\* A click under way has something to say, and offers it past the latch.
ClicksSpeak ==
    \A c \in Clicks :
        /\ cpc[c] # "ready" => cjob[c] \in Jobs
        /\ cpc[c] = "ready" => ~csaw[c]
        /\ cpc[c] \notin {"ready", "dropped"} => cact[c] \in {"CONTINUED", "ABORTED"}
        /\ cpc[c] \in {"offer"} \cup Heard => armed[cjob[c]]
\* The stopping thread has raised the flag before it does anything else.
StopIsUnderWay ==
    /\ spc # "off" => stopping
    /\ spc \in {"arm", "offer", "set"} => scoord \in Jobs
\* The latch is open for prompts that were announced, or by a stop.
ArmedIsAsked == \A j \in Jobs : armed[j] => j \in asked \/ stopping
\* A prompt is shown once it is armed, and as long as its wait is not answered.
IsShown(j) == rowAwaits[j] \/ \E c \in Clicks : csaw[c] /\ cjob[c] = j
ShownIsOpen ==
    \A j \in Jobs : IsShown(j) =>
        armed[j] /\ (Unanswered(answer[j]) => job = j /\ pc \in Awaiting)

FlipRest ==
    /\ WorkerHoldsJob /\ ClicksSpeak /\ StopIsUnderWay /\ ArmedIsAsked /\ ShownIsOpen
    /\ ClaimIsTheAnswer /\ OutcomeWasChosen /\ ShownPromptAccepts
FlipInv == TypeOK /\ FlipRest

-----------------------------------------------------------------------------
\* Every step writes values of the declared types.
LEMMA TypeStep == FlipInv /\ [Next]_vars => TypeOK'
<1> SUFFICES ASSUME FlipInv, [Next]_vars PROVE TypeOK'
  OBVIOUS
<1> USE FlipAssumption DEF FlipInv, FlipRest, TypeOK, WorkerSteps, ClickSteps,
        StopSteps, Answers, Outcomes, WorkerHoldsJob, ClicksSpeak, StopIsUnderWay,
        Announced, Unanswered, Open
<1>1. CASE UNCHANGED vars
  BY <1>1 DEF vars, worker, slots, row, clicks, stop
<1>2. CASE TakeJob
  BY <1>2 DEF TakeJob, WorkerStep, slots, row, clicks, stop
<1>3. CASE InstallCoordinator
  BY <1>3 DEF InstallCoordinator, WorkerStep, slots, row, clicks, stop
<1>4. CASE EnterGate
  BY <1>4 DEF EnterGate, WorkerStep, Resolve, slots, clicks, stop
<1>5. CASE PassA
  BY <1>5 DEF PassA, WorkerStep, Resolve, slots, clicks, stop
<1>6. CASE Announce
  BY <1>6 DEF Announce, WorkerStep, row, clicks, stop
<1>7. CASE Recheck
  BY <1>7 DEF Recheck, WorkerStep, slots, row, clicks, stop
<1>8. CASE InterruptOffer
  BY <1>8 DEF InterruptOffer, row, clicks, stop, AfterOffer
<1>9. CASE InterruptSet
  BY <1>9 DEF InterruptSet, WorkerStep, row, clicks, stop
<1>10. CASE PersistWait
  BY <1>10 DEF PersistWait, WorkerStep, slots, clicks, stop
<1>11. CASE EnterWait
  BY <1>11 DEF EnterWait, WorkerStep, row, clicks, stop
<1>12. CASE WakeUp
  BY <1>12 DEF WakeUp, WorkerStep, slots, row, clicks, stop
<1>13. CASE TimeOut
  BY <1>13 DEF TimeOut, WorkerStep, slots, row, clicks, stop
<1>14. CASE SettleWait
  BY <1>14 DEF SettleWait, WorkerStep, row, clicks, stop, Settle
<1>15. CASE ActOnAnswer
  BY ZenonT(40), <1>15 DEF ActOnAnswer, Resolve, slots, clicks, stop, HowItEnds
<1>16. CASE PassB
  BY <1>16 DEF PassB, WorkerStep, Resolve, slots, clicks, stop
<1>17. CASE ClearCoordinator
  BY <1>17 DEF ClearCoordinator, WorkerStep, slots, clicks, stop
<1>18. CASE StopSets
  BY <1>18 DEF StopSets, StopStep, worker, slots, row, clicks
<1>19. CASE StopReads
  BY <1>19 DEF StopReads, StopStep, worker, slots, row, clicks, WaitingCoordinator
<1>20. CASE StopArms
  BY <1>20 DEF StopArms, StopStep, worker, row, clicks
<1>21. CASE StopOffers
  BY <1>21 DEF StopOffers, worker, row, clicks, AfterOffer
<1>22. CASE StopWakes
  BY <1>22 DEF StopWakes, StopStep, worker, row, clicks
<1>23. ASSUME NEW c \in Clicks, SendClick(c) PROVE TypeOK'
  BY <1>23 DEF SendClick, ClickStep, worker, slots, row, stop
<1>24. ASSUME NEW c \in Clicks, ReadCoordinator(c) PROVE TypeOK'
  BY <1>24 DEF ReadCoordinator, Proceed, worker, slots, row, stop, ClickStep
<1>25. ASSUME NEW c \in Clicks, Signal(c) PROVE TypeOK'
  BY <1>25 DEF Signal, Proceed, worker, slots, row, stop, ClickStep
<1>26. ASSUME NEW c \in Clicks, OfferAnswer(c) PROVE TypeOK'
  BY <1>26 DEF OfferAnswer, Proceed, worker, row, stop, AfterOffer, ClickStep
<1>27. ASSUME NEW c \in Clicks, SetEvent(c) PROVE TypeOK'
  BY <1>27 DEF SetEvent, Proceed, worker, row, stop, ClickStep
<1> QED
  BY <1>1, <1>2, <1>3, <1>4, <1>5, <1>6, <1>7, <1>8, <1>9, <1>10, <1>11, <1>12, <1>13,
     <1>14, <1>15, <1>16, <1>17, <1>18, <1>19, <1>20, <1>21, <1>22, <1>23, <1>24, <1>25,
     <1>26, <1>27
  DEF Next, Worker, Stop, Click

\* The worker thread keeps its job, its coordinator and its announcement to the end
\* of the wait, and leaves the wait with an answer.
LEMMA HoldsStep == FlipInv /\ [Next]_vars => WorkerHoldsJob'
<1> SUFFICES ASSUME FlipInv, [Next]_vars PROVE WorkerHoldsJob'
  OBVIOUS
<1> USE FlipAssumption DEF FlipInv, FlipRest, WorkerHoldsJob, TypeOK, StopIsUnderWay,
        ClicksSpeak, Announced, Awaiting, Unanswered, Open, Answers
<1>1. CASE UNCHANGED <<pc, job, coordinator, armed, asked, answer>>
  BY <1>1
<1>2. CASE TakeJob
  BY <1>2 DEF TakeJob, WorkerStep, slots, row, clicks, stop
<1>3. CASE InstallCoordinator
  BY <1>3 DEF InstallCoordinator, WorkerStep, slots, row, clicks, stop
<1>4. CASE EnterGate
  BY <1>4 DEF EnterGate, WorkerStep, Resolve, slots, clicks, stop
<1>5. CASE PassA
  BY <1>5 DEF PassA, WorkerStep, Resolve, slots, clicks, stop
<1>6. CASE Announce
  BY <1>6 DEF Announce, WorkerStep, row, clicks, stop
<1>7. CASE Recheck
  BY <1>7 DEF Recheck, WorkerStep, slots, row, clicks, stop
<1>8. CASE InterruptOffer
  BY <1>8 DEF InterruptOffer, row, clicks, stop, AfterOffer
<1>9. CASE InterruptSet
  BY <1>9 DEF InterruptSet, WorkerStep, row, clicks, stop
<1>10. CASE PersistWait
  BY <1>10 DEF PersistWait, WorkerStep, slots, clicks, stop
<1>11. CASE EnterWait
  BY <1>11 DEF EnterWait, WorkerStep, row, clicks, stop
<1>12. CASE WakeUp
  BY <1>12 DEF WakeUp, WorkerStep, slots, row, clicks, stop
<1>13. CASE TimeOut
  BY <1>13 DEF TimeOut, WorkerStep, slots, row, clicks, stop
<1>14. CASE SettleWait
  BY <1>14 DEF SettleWait, WorkerStep, row, clicks, stop, Settle
<1>15. CASE ActOnAnswer
  BY <1>15 DEF ActOnAnswer, Resolve, slots, clicks, stop, HowItEnds
<1>16. CASE PassB
  BY <1>16 DEF PassB, WorkerStep, Resolve, slots, clicks, stop
<1>17. CASE ClearCoordinator
  BY <1>17 DEF ClearCoordinator, WorkerStep, slots, clicks, stop
<1>18. CASE StopArms
  BY <1>18 DEF StopArms, StopStep, worker, row, clicks
<1>19. CASE StopOffers
  BY <1>19 DEF StopOffers, worker, row, clicks, AfterOffer
<1>20. ASSUME NEW c \in Clicks, OfferAnswer(c) PROVE WorkerHoldsJob'
  BY <1>20 DEF OfferAnswer, Proceed, worker, row, stop, AfterOffer, ClickStep
<1> QED
  BY <1>1, <1>2, <1>3, <1>4, <1>5, <1>6, <1>7, <1>8, <1>9, <1>10, <1>11, <1>12, <1>13,
     <1>14, <1>15, <1>16, <1>17, <1>18, <1>19, <1>20
  DEF Next, Worker, Stop, Click, StopSets, StopReads, StopWakes, SendClick,
      ReadCoordinator, Signal, SetEvent, vars, worker, slots, row, clicks, stop

\* A click gets past the latch only once it is armed, and the latch stays armed.
LEMMA SpeakStep == FlipInv /\ [Next]_vars => ClicksSpeak'
<1> SUFFICES ASSUME FlipInv, [Next]_vars PROVE ClicksSpeak'
  OBVIOUS
<1> USE FlipAssumption DEF FlipInv, FlipRest, ClicksSpeak, TypeOK, WorkerHoldsJob,
        StopIsUnderWay, Heard
<1>1. CASE UNCHANGED <<cpc, cjob, cact, csaw, armed>>
  BY <1>1
<1>2. CASE Announce
  BY <1>2 DEF Announce, WorkerStep, row, clicks, stop
<1>3. CASE EnterWait
  BY <1>3 DEF EnterWait, WorkerStep, row, clicks, stop
<1>4. CASE StopArms
  BY <1>4 DEF StopArms, StopStep, worker, row, clicks
<1>5. ASSUME NEW c \in Clicks, SendClick(c) PROVE ClicksSpeak'
  BY <1>5 DEF SendClick, ClickStep, worker, slots, row, stop
<1>6. ASSUME NEW c \in Clicks, ReadCoordinator(c) PROVE ClicksSpeak'
  BY <1>6 DEF ReadCoordinator, Proceed, worker, slots, row, stop, ClickStep
<1>7. ASSUME NEW c \in Clicks, Signal(c) PROVE ClicksSpeak'
  BY <1>7 DEF Signal, Proceed, worker, slots, row, stop, ClickStep
<1>8. ASSUME NEW c \in Clicks, OfferAnswer(c) PROVE ClicksSpeak'
  BY <1>8 DEF OfferAnswer, Proceed, worker, row, stop, AfterOffer, ClickStep
<1>9. ASSUME NEW c \in Clicks, SetEvent(c) PROVE ClicksSpeak'
  BY <1>9 DEF SetEvent, Proceed, worker, row, stop, ClickStep
<1> QED
  BY <1>1, <1>2, <1>3, <1>4, <1>5, <1>6, <1>7, <1>8, <1>9 DEF Next, Worker, Stop, Click,
     TakeJob, InstallCoordinator, EnterGate, PassA, Recheck, InterruptOffer,
     InterruptSet, PersistWait, WakeUp, TimeOut, SettleWait, ActOnAnswer, PassB,
     ClearCoordinator, StopSets, StopReads, StopOffers, StopWakes, vars, worker, slots,
     row, clicks, stop

\* The stopping thread raises the flag first and then holds the coordinator it read.
LEMMA StopStepKeeps == FlipInv /\ [Next]_vars => StopIsUnderWay'
<1> SUFFICES ASSUME FlipInv, [Next]_vars PROVE StopIsUnderWay'
  OBVIOUS
<1> USE FlipAssumption DEF FlipInv, FlipRest, StopIsUnderWay, TypeOK
<1>1. CASE UNCHANGED <<spc, stopping, scoord>>
  BY <1>1
<1>2. CASE StopSets
  BY <1>2 DEF StopSets, StopStep, worker, slots, row, clicks
<1>3. CASE StopReads
  BY <1>3 DEF StopReads, StopStep, worker, slots, row, clicks, WaitingCoordinator
<1>4. CASE StopArms
  BY <1>4 DEF StopArms, StopStep, worker, row, clicks
<1>5. CASE StopOffers
  BY <1>5 DEF StopOffers, worker, row, clicks, AfterOffer
<1>6. CASE StopWakes
  BY <1>6 DEF StopWakes, StopStep, worker, row, clicks
<1> QED
  BY <1>1, <1>2, <1>3, <1>4, <1>5, <1>6 DEF Next, Worker, Stop, Click, TakeJob,
     InstallCoordinator, EnterGate, PassA, Announce, Recheck, InterruptOffer,
     InterruptSet, PersistWait, EnterWait, WakeUp, TimeOut, SettleWait, ActOnAnswer,
     PassB, ClearCoordinator, SendClick, ReadCoordinator, Signal, OfferAnswer, SetEvent,
     vars, worker, slots, row, clicks, stop

\* The latch is armed by the run that announces its prompt, again by its wait, or by
\* a stop.
LEMMA ArmedStep == FlipInv /\ [Next]_vars => ArmedIsAsked'
<1> SUFFICES ASSUME FlipInv, [Next]_vars PROVE ArmedIsAsked'
  OBVIOUS
<1> USE FlipAssumption DEF FlipInv, FlipRest, ArmedIsAsked, TypeOK, WorkerHoldsJob,
        StopIsUnderWay, Announced, Awaiting
<1>1. CASE UNCHANGED <<armed, asked, stopping>>
  BY <1>1
<1>2. CASE Announce
  BY <1>2 DEF Announce, WorkerStep, row, clicks, stop
<1>3. CASE EnterWait
  BY <1>3 DEF EnterWait, WorkerStep, row, clicks, stop
<1>4. CASE StopSets
  BY <1>4 DEF StopSets, StopStep, worker, slots, row, clicks
<1>5. CASE StopArms
  BY <1>5 DEF StopArms, StopStep, worker, row, clicks
<1> QED
  BY <1>1, <1>2, <1>3, <1>4, <1>5 DEF Next, Worker, Stop, Click, TakeJob,
     InstallCoordinator, EnterGate, PassA, Recheck, InterruptOffer, InterruptSet,
     PersistWait, WakeUp, TimeOut, SettleWait, ActOnAnswer, PassB, ClearCoordinator,
     StopReads, StopOffers, StopWakes, SendClick, ReadCoordinator, Signal, OfferAnswer,
     SetEvent, vars, worker, slots, row, clicks, stop

\* The row is written after the latch is armed and the wait is entered after the row:
\* a prompt that is shown is armed, and open only while its run waits.
LEMMA ShownStep == FlipInv /\ [Next]_vars => ShownIsOpen'
<1> SUFFICES ASSUME FlipInv, [Next]_vars PROVE ShownIsOpen'
  OBVIOUS
<1> USE FlipAssumption DEF FlipInv, FlipRest, ShownIsOpen, TypeOK, WorkerHoldsJob,
        ClicksSpeak, StopIsUnderWay, IsShown, Announced, Awaiting, Unanswered, Open,
        Answers
<1>1. CASE UNCHANGED <<rowAwaits, csaw, cjob, armed, answer, job, pc>>
  BY <1>1
<1>2. CASE TakeJob
  BY <1>2 DEF TakeJob, WorkerStep, slots, row, clicks, stop
<1>3. CASE InstallCoordinator
  BY <1>3 DEF InstallCoordinator, WorkerStep, slots, row, clicks, stop
<1>4. CASE EnterGate
  BY <1>4 DEF EnterGate, WorkerStep, Resolve, slots, clicks, stop
<1>5. CASE PassA
  BY <1>5 DEF PassA, WorkerStep, Resolve, slots, clicks, stop
<1>6. CASE Announce
  BY <1>6 DEF Announce, WorkerStep, row, clicks, stop
<1>7. CASE Recheck
  BY <1>7 DEF Recheck, WorkerStep, slots, row, clicks, stop
<1>8. CASE InterruptOffer
  BY <1>8 DEF InterruptOffer, row, clicks, stop, AfterOffer
<1>9. CASE InterruptSet
  BY <1>9 DEF InterruptSet, WorkerStep, row, clicks, stop
<1>10. CASE PersistWait
  BY <1>10 DEF PersistWait, WorkerStep, slots, clicks, stop
<1>11. CASE EnterWait
  BY <1>11 DEF EnterWait, WorkerStep, row, clicks, stop
<1>12. CASE WakeUp
  BY <1>12 DEF WakeUp, WorkerStep, slots, row, clicks, stop
<1>13. CASE TimeOut
  BY <1>13 DEF TimeOut, WorkerStep, slots, row, clicks, stop
<1>14. CASE SettleWait
  BY <1>14 DEF SettleWait, WorkerStep, row, clicks, stop, Settle
<1>15. CASE ActOnAnswer
  BY <1>15 DEF ActOnAnswer, Resolve, slots, clicks, stop, HowItEnds
<1>16. CASE PassB
  BY <1>16 DEF PassB, WorkerStep, Resolve, slots, clicks, stop
<1>17. CASE ClearCoordinator
  BY <1>17 DEF ClearCoordinator, WorkerStep, slots, clicks, stop
<1>18. CASE StopArms
  BY <1>18 DEF StopArms, StopStep, worker, row, clicks
<1>19. CASE StopOffers
  BY <1>19 DEF StopOffers, worker, row, clicks, AfterOffer
<1>20. ASSUME NEW c \in Clicks, SendClick(c) PROVE ShownIsOpen'
  <2>1. PICK j \in Jobs : cjob' = [cjob EXCEPT ![c] = j] /\ csaw' = [csaw EXCEPT ![c] = rowAwaits[j]]
    BY <1>20 DEF SendClick
  <2>2. UNCHANGED <<rowAwaits, armed, answer, job, pc>>
    BY <1>20 DEF SendClick, worker, slots, row
  <2>3. ASSUME NEW k \in Jobs, IsShown(k)' PROVE IsShown(k)
    BY <2>1, <2>2, <2>3 DEF IsShown, TypeOK
  <2> QED
    BY <2>2, <2>3 DEF ShownIsOpen, Unanswered
<1>21. ASSUME NEW c \in Clicks, OfferAnswer(c) PROVE ShownIsOpen'
  BY <1>21 DEF OfferAnswer, Proceed, worker, row, stop, AfterOffer, ClickStep
<1> QED
  BY <1>1, <1>2, <1>3, <1>4, <1>5, <1>6, <1>7, <1>8, <1>9, <1>10, <1>11, <1>12, <1>13,
     <1>14, <1>15, <1>16, <1>17, <1>18, <1>19, <1>20, <1>21
  DEF Next, Worker, Stop, Click, StopSets, StopReads, StopWakes, ReadCoordinator, Signal,
      SetEvent, vars, worker, slots, row, clicks, stop

\* An answer is written only into an open slot, and a click that was heard has closed
\* the slot of its job.
LEMMA ClaimStep == FlipInv /\ [Next]_vars => ClaimIsTheAnswer'
<1> SUFFICES ASSUME FlipInv, [Next]_vars PROVE ClaimIsTheAnswer'
  OBVIOUS
<1> USE FlipAssumption DEF FlipInv, FlipRest, ClaimIsTheAnswer, TypeOK, ClicksSpeak,
        WorkerHoldsJob, StopIsUnderWay, Unanswered, Heard, Answers, Open
<1>1. CASE UNCHANGED <<answer, cpc, cjob, cact>>
  BY <1>1
<1>2. CASE InterruptOffer
  BY <1>2 DEF InterruptOffer, row, clicks, stop, AfterOffer
<1>3. CASE SettleWait
  BY <1>3 DEF SettleWait, WorkerStep, row, clicks, stop, Settle
<1>4. CASE StopOffers
  BY <1>4 DEF StopOffers, worker, row, clicks, AfterOffer
<1>5. ASSUME NEW c \in Clicks, SendClick(c) PROVE ClaimIsTheAnswer'
  BY <1>5 DEF SendClick, ClickStep, worker, slots, row, stop
<1>6. ASSUME NEW c \in Clicks, ReadCoordinator(c) PROVE ClaimIsTheAnswer'
  BY <1>6 DEF ReadCoordinator, Proceed, worker, slots, row, stop, ClickStep
<1>7. ASSUME NEW c \in Clicks, Signal(c) PROVE ClaimIsTheAnswer'
  BY <1>7 DEF Signal, Proceed, worker, slots, row, stop, ClickStep
<1>8. ASSUME NEW c \in Clicks, OfferAnswer(c) PROVE ClaimIsTheAnswer'
  BY <1>8 DEF OfferAnswer, Proceed, worker, row, stop, AfterOffer, ClickStep
<1>9. ASSUME NEW c \in Clicks, SetEvent(c) PROVE ClaimIsTheAnswer'
  BY <1>9 DEF SetEvent, Proceed, worker, row, stop, ClickStep
<1> QED
  BY <1>1, <1>2, <1>3, <1>4, <1>5, <1>6, <1>7, <1>8, <1>9 DEF Next, Worker, Stop, Click,
     TakeJob, InstallCoordinator, EnterGate, PassA, Announce, Recheck, InterruptSet,
     PersistWait, EnterWait, WakeUp, TimeOut, ActOnAnswer, PassB, ClearCoordinator,
     StopSets, StopReads, StopArms, StopWakes, vars, worker, slots, row, clicks, stop

\* Only a click writes an operator's answer, and the run ends as its answer says.
LEMMA OutcomeStep == FlipInv /\ [Next]_vars => OutcomeWasChosen'
<1> SUFFICES ASSUME FlipInv, [Next]_vars PROVE OutcomeWasChosen'
  OBVIOUS
<1> USE FlipAssumption DEF FlipInv, FlipRest, OutcomeWasChosen, TypeOK, ClicksSpeak,
        WorkerHoldsJob, StopIsUnderWay, Unanswered, Answers, Open, Announced, Awaiting
<1>1. CASE UNCHANGED <<answer, outcome, cpc, cjob, cact>>
  BY <1>1
<1>2. CASE EnterGate
  BY <1>2 DEF EnterGate, WorkerStep, Resolve, slots, clicks, stop
<1>3. CASE PassA
  BY <1>3 DEF PassA, WorkerStep, Resolve, slots, clicks, stop
<1>4. CASE InterruptOffer
  BY <1>4 DEF InterruptOffer, row, clicks, stop, AfterOffer
<1>5. CASE SettleWait
  BY <1>5 DEF SettleWait, WorkerStep, row, clicks, stop, Settle
<1>6. CASE ActOnAnswer
  BY <1>6 DEF ActOnAnswer, Resolve, slots, clicks, stop, HowItEnds
<1>7. CASE PassB
  BY <1>7 DEF PassB, WorkerStep, Resolve, slots, clicks, stop
<1>8. CASE StopOffers
  BY <1>8 DEF StopOffers, worker, row, clicks, AfterOffer
<1>9. ASSUME NEW c \in Clicks, SendClick(c) PROVE OutcomeWasChosen'
  <2>1. /\ cpc[c] = "ready" /\ cpc' = [cpc EXCEPT ![c] = "read"]
        /\ \A d \in Clicks \ {c} : cjob'[d] = cjob[d] /\ cact'[d] = cact[d]
    BY <1>9 DEF SendClick, ClickStep, TypeOK
  <2>2. UNCHANGED <<answer, outcome>>
    BY <1>9 DEF SendClick, slots, row
  <2>3. ASSUME NEW j \in Jobs, answer[j] \in {"CONTINUED", "ABORTED"}
        PROVE  \E d \in Clicks : cjob'[d] = j /\ cact'[d] = answer[j] /\ cpc'[d] \in Heard
    <3>1. PICK d \in Clicks : cjob[d] = j /\ cact[d] = answer[j] /\ cpc[d] \in Heard
      BY <2>3 DEF OutcomeWasChosen, Heard
    <3>2. d # c /\ cpc'[d] = cpc[d]
      BY <2>1, <3>1 DEF Heard, TypeOK
    <3> QED
      BY <2>1, <3>1, <3>2
  <2> QED
    BY <2>2, <2>3 DEF OutcomeWasChosen, Heard
<1>10. ASSUME NEW c \in Clicks, ReadCoordinator(c) PROVE OutcomeWasChosen'
  BY <1>10 DEF ReadCoordinator, Proceed, worker, slots, row, stop, ClickStep
<1>11. ASSUME NEW c \in Clicks, Signal(c) PROVE OutcomeWasChosen'
  BY <1>11 DEF Signal, Proceed, worker, slots, row, stop, ClickStep
<1>12. ASSUME NEW c \in Clicks, OfferAnswer(c) PROVE OutcomeWasChosen'
  BY <1>12 DEF OfferAnswer, Proceed, worker, row, stop, AfterOffer, ClickStep
<1>13. ASSUME NEW c \in Clicks, SetEvent(c) PROVE OutcomeWasChosen'
  BY <1>13 DEF SetEvent, Proceed, worker, row, stop, ClickStep
<1> QED
  BY <1>1, <1>2, <1>3, <1>4, <1>5, <1>6, <1>7, <1>8, <1>9, <1>10, <1>11, <1>12, <1>13
  DEF Next, Worker, Stop, Click, TakeJob, InstallCoordinator, Announce, Recheck,
      InterruptSet, PersistWait, EnterWait, WakeUp, TimeOut, ClearCoordinator, StopSets,
      StopReads, StopArms, StopWakes, vars, worker, slots, row, clicks, stop

\* A click on a shown prompt finds its coordinator in place and armed: it is dropped
\* only when another answer was first.
LEMMA PromptStep == FlipInv /\ [Next]_vars => ShownPromptAccepts'
<1> SUFFICES ASSUME FlipInv, [Next]_vars PROVE ShownPromptAccepts'
  OBVIOUS
<1> USE FlipAssumption DEF FlipInv, FlipRest, ShownPromptAccepts, ShownIsOpen, TypeOK,
        ClicksSpeak, WorkerHoldsJob, StopIsUnderWay, Unanswered, IsShown, Awaiting,
        Announced, Open
<1>1. CASE UNCHANGED <<csaw, cpc, cjob, answer>>
  BY <1>1
<1>2. CASE InterruptOffer
  BY <1>2 DEF InterruptOffer, row, clicks, stop, AfterOffer
<1>3. CASE SettleWait
  BY <1>3 DEF SettleWait, WorkerStep, row, clicks, stop, Settle
<1>4. CASE StopOffers
  BY <1>4 DEF StopOffers, worker, row, clicks, AfterOffer
<1>5. ASSUME NEW c \in Clicks, SendClick(c) PROVE ShownPromptAccepts'
  BY <1>5 DEF SendClick, ClickStep, worker, slots, row, stop
<1>6. ASSUME NEW c \in Clicks, ReadCoordinator(c) PROVE ShownPromptAccepts'
  <2>1. /\ cpc[c] = "read" /\ UNCHANGED <<csaw, cjob, answer>>
        /\ cpc' = [cpc EXCEPT ![c] = IF coordinator = cjob[c] THEN "signal" ELSE "dropped"]
    BY <1>6 DEF ReadCoordinator, Proceed, ClickStep, slots
  <2>2. csaw[c] /\ coordinator # cjob[c] => ~Unanswered(answer[cjob[c]])
    <3>1. cjob[c] \in Jobs /\ (csaw[c] => IsShown(cjob[c]))
      BY <2>1 DEF ClicksSpeak, IsShown
    <3> QED
      BY <3>1 DEF ShownIsOpen, WorkerHoldsJob, Awaiting
  <2> QED
    BY <2>1, <2>2 DEF ShownPromptAccepts, Unanswered, TypeOK
<1>7. ASSUME NEW c \in Clicks, Signal(c) PROVE ShownPromptAccepts'
  <2>1. /\ cpc[c] = "signal" /\ UNCHANGED <<csaw, cjob, answer>>
        /\ cpc' = [cpc EXCEPT ![c] = IF armed[cjob[c]] THEN "offer" ELSE "dropped"]
    BY <1>7 DEF Signal, Proceed, ClickStep, slots
  <2>2. csaw[c] => armed[cjob[c]]
    BY <2>1 DEF ClicksSpeak, ShownIsOpen, IsShown
  <2> QED
    BY <2>1, <2>2 DEF ShownPromptAccepts, Unanswered, TypeOK
<1>8. ASSUME NEW c \in Clicks, OfferAnswer(c) PROVE ShownPromptAccepts'
  BY <1>8 DEF OfferAnswer, Proceed, worker, row, stop, AfterOffer, ClickStep
<1>9. ASSUME NEW c \in Clicks, SetEvent(c) PROVE ShownPromptAccepts'
  BY <1>9 DEF SetEvent, Proceed, worker, row, stop, ClickStep
<1> QED
  BY <1>1, <1>2, <1>3, <1>4, <1>5, <1>6, <1>7, <1>8, <1>9 DEF Next, Worker, Stop, Click,
     TakeJob, InstallCoordinator, EnterGate, PassA, Announce, Recheck, InterruptSet,
     PersistWait, EnterWait, WakeUp, TimeOut, ActOnAnswer, PassB, ClearCoordinator,
     StopSets, StopReads, StopArms, StopWakes, vars, worker, slots, row, clicks, stop

-----------------------------------------------------------------------------
(* At every moment, for any jobs and any clicks: the worker thread keeps its
   promises, the prompts shown are open, the answers are those that were
   claimed (worker.py, _process_job; flip.py, WorkerFlipCoordinator). *)
THEOREM FlipInvariant == Spec => []FlipInv
<1>1. Init => FlipInv
  <2> SUFFICES ASSUME Init PROVE FlipInv
    OBVIOUS
  <2> USE FlipAssumption DEF Init
  <2>1. TypeOK
    BY DEF TypeOK, WorkerSteps, ClickSteps, StopSteps, Answers, Outcomes
  <2>2. WorkerHoldsJob /\ ClicksSpeak /\ StopIsUnderWay /\ ArmedIsAsked
    BY DEF WorkerHoldsJob, Announced, Awaiting, ClicksSpeak, Heard, StopIsUnderWay, ArmedIsAsked
  <2>3. ShownIsOpen
    BY DEF ShownIsOpen, IsShown
  <2>4. ClaimIsTheAnswer /\ OutcomeWasChosen /\ ShownPromptAccepts
    BY DEF ClaimIsTheAnswer, OutcomeWasChosen, ShownPromptAccepts, Open
  <2> QED
    BY <2>1, <2>2, <2>3, <2>4 DEF FlipInv, FlipRest
<1>2. FlipInv /\ [Next]_vars => FlipInv'
  BY TypeStep, HoldsStep, SpeakStep, StopStepKeeps, ArmedStep, ShownStep, ClaimStep,
     OutcomeStep, PromptStep
  DEF FlipInv, FlipRest
<1> QED
  BY <1>1, <1>2, PTL DEF Spec

(* Who answers a flip prompt decides it: a click that was told it counted is
   the answer, and no run ends, or goes on, against it (flip.py:154,
   worker.py:1009). *)
THEOREM ClaimsAreDecisive == Spec => []ClaimsDecide
<1>1. FlipInv => ClaimsDecide
  BY DEF FlipInv, FlipRest, ClaimsDecide
<1> QED
  BY <1>1, FlipInvariant, PTL

(* A click sent from a page that shows the prompt is dropped only when the wait
   has been answered by another: the row is written after the latch is armed,
   and nothing takes the coordinator away unanswered (worker.py, _status_cb). *)
THEOREM PromptsAccept == Spec => []ShownPromptAccepts
<1>1. FlipInv => ShownPromptAccepts
  BY DEF FlipInv, FlipRest
<1> QED
  BY <1>1, FlipInvariant, PTL

(* While the server does not stop, no click answers a prompt its run has not
   announced: what the latch of WorkerFlipCoordinator._signal is for. *)
THEOREM NoClickIsEarly == Spec => NoEarlyAnswer
<1> DEFINE Early ==
      \A j \in Jobs :
          answer'[j] # answer[j] /\ answer'[j] \in {"CONTINUED", "ABORTED"} =>
              j \in asked \/ stopping
<1>1. FlipInv /\ [Next]_vars => Early
  <2> SUFFICES ASSUME FlipInv, [Next]_vars PROVE Early
    OBVIOUS
  <2>1. CASE UNCHANGED answer
    BY <2>1
  <2>2. CASE InterruptOffer
    BY <2>2 DEF InterruptOffer, AfterOffer, FlipInv, TypeOK
  <2>3. CASE SettleWait
    BY <2>3 DEF SettleWait, Settle, FlipInv, TypeOK
  <2>4. CASE StopOffers
    BY <2>4 DEF StopOffers, AfterOffer, FlipInv, TypeOK
  <2>5. ASSUME NEW c \in Clicks, OfferAnswer(c) PROVE Early
    <3>1. cjob[c] \in Jobs /\ (cjob[c] \in asked \/ stopping)
      BY <2>5 DEF OfferAnswer, Proceed, ClickStep, FlipInv, FlipRest, ClicksSpeak, ArmedIsAsked
    <3>2. \A j \in Jobs : j # cjob[c] => answer'[j] = answer[j]
      BY <2>5 DEF OfferAnswer, FlipInv, TypeOK
    <3> QED
      BY <3>1, <3>2
  <2> QED
    BY <2>1, <2>2, <2>3, <2>4, <2>5
    DEF Next, Worker, Stop, Click, TakeJob, InstallCoordinator, EnterGate, PassA, Announce,
       Recheck, InterruptSet, PersistWait, EnterWait, WakeUp, TimeOut, ActOnAnswer, PassB,
       ClearCoordinator, StopSets, StopReads, StopArms, StopWakes, SendClick, ReadCoordinator,
       Signal, SetEvent, vars, slots
<1>2. Early => [Early]_vars
  OBVIOUS
<1> QED
  BY <1>1, <1>2, FlipInvariant, PTL DEF Spec, NoEarlyAnswer
=============================================================================
