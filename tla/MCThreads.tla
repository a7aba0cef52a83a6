----------------------------- MODULE MCThreads -----------------------------
(* Every thread that waits is let go: the worker of ScanWorker, the callers *)
(* of SingleFlight, a run of MultiPage at its questions, and the checks of  *)
(* ScannerCheck with their listing child.  They share no state here, so a   *)
(* behaviour is one of the four.                                            *)
EXTENDS ScanWorker, SingleFlight, ScannerCheck

CONSTANTS Shapes, DocumentCap, Clicks, TerminalPasses

VARIABLES
    part,
    front, pc, doc, runFlight, skip, capped, doomed, artefact, stage, files, question,
    slots, superseded, reply, broken, row, uploaded, runKept, spared, outcome, decided,
    cpc, cnum, cans, cslot, runStopping, spc, sslot

Pages == INSTANCE MultiPage
         WITH flight <- runFlight, kept <- runKept, stopping <- runStopping

pageVars ==
    <<front, pc, doc, runFlight, skip, capped, doomed, artefact, stage, files, question,
      slots, superseded, reply, broken, row, uploaded, runKept, spared, outcome, decided,
      cpc, cnum, cans, cslot, runStopping, spc, sslot>>
OneBlankBack == {<<FALSE, TRUE>>}

\* What may be configured: the hosts of the setting, and the device.
Configured(hosts, device) ==
    [hosts |-> hosts, device |-> device, installed |-> TRUE, skip |-> FALSE]
HostList(kind, names) == [kind |-> kind, names |-> names]
NoHosts == HostList("none", <<>>)
OneHost == HostList("names", <<"h1">>)
Device(named, net, entry, dialable) ==
    [named |-> named, net |-> net, entry |-> entry, dialable |-> dialable]
NoDevice == Device(FALSE, FALSE, "", FALSE)
WholeSetups ==
    {Configured(NoHosts, NoDevice), Configured(OneHost, NoDevice),
     Configured(HostList("names", <<"h2", "h2", "h1">>), Device(TRUE, TRUE, "h1", TRUE)),
     Configured(HostList("port", <<"h1">>), Device(TRUE, TRUE, "h1", TRUE)),
     Configured(OneHost, Device(TRUE, TRUE, "literal", FALSE)),
     Configured(NoHosts, Device(TRUE, FALSE, "", FALSE)),
     [Configured(NoHosts, NoDevice) EXCEPT !.installed = FALSE],
     [Configured(NoHosts, NoDevice) EXCEPT !.skip = TRUE]}

ThreadsInit ==
    /\ part \in {"worker", "flight", "pages", "check"}
    /\ Init /\ FlightInit /\ Pages!Init /\ SurveyInit
    /\ part # "pages" => front = "web"
    /\ part # "check" => setup.skip

ThreadsNext ==
    /\ UNCHANGED part
    /\ \/ part = "worker" /\ Next /\ UNCHANGED <<flightVars, pageVars, surveyVars>>
       \/ part = "flight" /\ FlightNext /\ UNCHANGED <<vars, pageVars, surveyVars>>
       \/ part = "pages" /\ Pages!Next /\ UNCHANGED <<vars, flightVars, surveyVars>>
       \/ part = "check" /\ SurveyNext /\ UNCHANGED <<vars, flightVars, pageVars>>

ThreadsFairness ==
    /\ WF_vars(part = "worker" /\ WorkerGoesOn)
    /\ \A j \in Jobs : WF_vars(part = "worker" /\ RequestGoesOn(j))
    /\ WF_vars(part = "worker" /\ StopQueue)
    /\ WF_vars(part = "worker" /\ (StartupRecoverKept \/ StartupRecoverActive \/ StartWorker))
    /\ \A v \in Visitors : WF_flightVars(part = "flight" /\ Step(v))
    /\ WF_pageVars(part = "pages" /\ Pages!Run)
    /\ WF_pageVars(part = "pages" /\ Pages!StopGoesOn)
    /\ \A c \in Clicks : WF_pageVars(part = "pages" /\ Pages!ClickGoesOn(c))
    /\ WF_surveyVars(part = "check" /\ RunGoesOn)
    /\ WF_surveyVars(part = "check" /\ ScanEnters)
    /\ WF_surveyVars(part = "check" /\ DeadlinePasses)
    /\ WF_surveyVars(part = "check" /\ ReadRequest)
    /\ WF_surveyVars(part = "check" /\ AlarmFires)
    /\ WF_surveyVars(part = "check" /\ OrphanReaped)

ThreadsSpec ==
    /\ ThreadsInit /\ [][ThreadsNext]_<<vars, flightVars, pageVars, surveyVars, part>>
    /\ ThreadsFairness

\* Whoever waits for another thread's answer is let go: a request behind a leader
\* that hangs (throttle.py:208), and a run at a question when the server stops,
\* be it open, about to be asked or still ahead (worker.py:535).
WaitersLetGo == EveryCallEnds /\ Pages!StopEndsRun
=============================================================================
