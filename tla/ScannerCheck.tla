---------------------------- MODULE ScannerCheck ----------------------------
(***************************************************************************)
(* One run of the health checks in the web server (checks.py run_checks),  *)
(* its scanner check step by step: the pre-probe of every saned host SANE  *)
(* would dial (saned_probe.py), the scanner gate it takes only if it is    *)
(* free, and the listing child (listing.py, _listing_child.py), which any  *)
(* call into the scanner library can hang or crash.  Beside it a scan      *)
(* takes the same gate, the server stops, or is killed and leaves the      *)
(* child behind.                                                           *)
(***************************************************************************)
EXTENDS HealthRows, SequencesExt

CONSTANTS
    Setups,         \* what may be configured: see Setup
    MaxProbeHosts,  \* _MAX_PROBE_HOSTS
    MaxAddresses,   \* bound: addresses a host name resolves to
    MaxChecks       \* bound: runs of the checks

ASSUME ScannerCheckAssumption ==
    MaxProbeHosts \in Nat \ {0} /\ MaxAddresses \in Nat \ {0} /\ MaxChecks \in Nat

VARIABLES
    setup,          \* the settings and the backend, fixed while the server runs
    at, strip, worst, checks,       \* the run: its step, keys done, worst row, runs
    todo, dial, probes, mayOpen,    \* endpoints ahead, the one being tried, HostProbes
    gate, scanning, \* who holds the scanner gate; the scan that wants it
    child, armed, exit, said,       \* the listing child: step, its alarm, end, reply
    late,           \* LISTING_DEADLINE_SECONDS have passed since it started
    survey,         \* what the listing came to
    abort, server   \* the stop; whether this process is alive

config == <<setup, server>>
turn == <<at, strip, worst, checks>>
dialling == <<todo, dial, probes, mayOpen>>
locks == <<gate, scanning>>
process == <<child, armed, exit, said, late>>
surveyVars == <<config, turn, dialling, locks, process, survey, abort>>

Devices == {"own", "other"}
Alive == child \in {"starting", "loading", "listing", "opening", "replied"}
NoDial == [resolved |-> FALSE, left |-> 0, unanswered |-> FALSE, refused |-> FALSE]
NoReply == [devices |-> {}, opened |-> "untried", startError |-> "none"]

\* saned_hosts: the hosts of scanner.host or SANE_NET_HOSTS, read as a port on
\* one host, or as names of which the first few are probed; an IPv6 literal, or
\* a list with a part that is no name, is not probed at all.
Endpoint(host, port) == [host |-> host, port |-> port]
SanedHosts(setting) ==
    CASE setting.kind = "port" -> <<Endpoint(setting.names[1], "other")>>
      [] setting.kind = "names" ->
            LET present == SetToSeq({Endpoint(setting.names[i], SanedPort) :
                                        i \in DOMAIN setting.names})
                first(e) == CHOOSE i \in DOMAIN setting.names :
                                setting.names[i] = e.host
                                /\ \A j \in 1..(i - 1) : setting.names[j] # e.host
                inOrder == SortSeq(present, LAMBDA d, e : first(d) < first(e))
            IN  SubSeq(inOrder, 1, IF Len(inOrder) < MaxProbeHosts THEN Len(inOrder)
                                   ELSE MaxProbeHosts)
      [] OTHER -> <<>>

SurveyInit ==
    /\ setup \in Setups
    /\ at = "idle" /\ strip = <<>> /\ worst = OK /\ checks = 0
    /\ todo = <<>> /\ dial = NoDial /\ probes = <<>> /\ mayOpen = FALSE
    /\ gate = "free" /\ scanning = "no"
    /\ child = "none" /\ armed = FALSE /\ exit = "none" /\ said = NoReply /\ late = FALSE
    /\ survey = NoSurvey /\ abort = FALSE /\ server = TRUE

At(from, to) == server /\ at = from /\ at' = to
-----------------------------------------------------------------------------
(* run_checks: one row per key, in order, until an abort. *)

BeginRun ==
    /\ At("idle", "keys") /\ checks < MaxChecks /\ checks' = checks + 1
    /\ strip' = <<>> /\ worst' = OK
    /\ UNCHANGED <<config, dialling, locks, process, survey, abort>>

NextKey == CheckKeys[Len(strip) + 1]
AddRow(row) ==
    /\ at' = "keys" /\ strip' = Append(strip, NextKey)
    /\ worst' = WorstOf({worst, row.state})
    /\ todo' = <<>> /\ dial' = NoDial /\ probes' = <<>> /\ mayOpen' = FALSE
    /\ survey' = NoSurvey
CutShort ==
    /\ at' = "cut" /\ todo' = <<>> /\ dial' = NoDial /\ probes' = <<>> /\ mayOpen' = FALSE
    /\ survey' = NoSurvey /\ UNCHANGED <<strip, worst>>

AllRowsIn ==
    /\ Len(strip) = Len(CheckKeys) /\ At("keys", "shown")
    /\ UNCHANGED <<config, strip, worst, checks, dialling, locks, process, survey, abort>>
AbortBetweenKeys ==
    /\ server /\ at = "keys" /\ Len(strip) < Len(CheckKeys) /\ abort /\ CutShort
    /\ UNCHANGED <<config, checks, locks, process, abort>>
\* Any other check: a row it can come to, or its exception's.
OtherKey ==
    /\ server /\ at = "keys" /\ Len(strip) < Len(CheckKeys) /\ ~abort
    /\ NextKey # "SCANNER"
    /\ \E row \in RowsOf(NextKey) \cup {CheckFailed} : AddRow(row)
    /\ UNCHANGED <<config, checks, locks, process, abort>>
SkipScanner ==
    /\ server /\ at = "keys" /\ Len(strip) < Len(CheckKeys) /\ ~abort
    /\ NextKey = "SCANNER" /\ setup.skip /\ AddRow(HealthRow(OK, "skipped"))
    /\ UNCHANGED <<config, checks, locks, process, abort>>

\* What the server does with the strip is CheckRefresher's.
Shown ==
    /\ At("shown", "idle")
    /\ UNCHANGED <<config, strip, worst, checks, dialling, locks, process, survey, abort>>
-----------------------------------------------------------------------------
(* _scanner_preflight: probe_saned for every host, outside the gate. *)

BeginPreflight ==
    /\ server /\ at = "keys" /\ Len(strip) < Len(CheckKeys) /\ ~abort
    /\ NextKey = "SCANNER" /\ ~setup.skip
    /\ IF setup.installed
       THEN /\ at' = "preflight" /\ todo' = SanedHosts(setup.hosts)
            /\ UNCHANGED <<strip, worst, dial, probes, mayOpen, survey>>
       ELSE AddRow(HealthRow(FAIL, "not installed"))
    /\ UNCHANGED <<config, checks, locks, process, abort>>

Probed(outcome) ==
    /\ probes' = Append(probes, [host |-> Head(todo).host, port |-> Head(todo).port,
                                 outcome |-> outcome])
    /\ todo' = Tail(todo) /\ dial' = NoDial
    /\ UNCHANGED <<at, strip, worst, mayOpen, survey>>

Resolve ==
    /\ server /\ at = "preflight" /\ todo # <<>> /\ ~dial.resolved
    /\ IF abort THEN CutShort
       ELSE \/ Probed("UNRESOLVED")
            \/ /\ \E n \in 1..MaxAddresses : dial' = [NoDial EXCEPT !.resolved = TRUE, !.left = n]
               /\ UNCHANGED <<at, strip, worst, todo, probes, mayOpen, survey>>
    /\ UNCHANGED <<config, checks, locks, process, abort>>

NextAddress(unanswered, refused) ==
    /\ dial' = [dial EXCEPT !.left = @ - 1, !.unanswered = @ \/ unanswered,
                            !.refused = @ \/ refused]
    /\ UNCHANGED <<at, strip, worst, todo, probes, mayOpen, survey>>
\* No address took the connection.  One that was silent outweighs one that refused,
\* and addresses of a family this machine cannot reach tell nothing either way.
Unconnected ==
    IF dial.unanswered \/ ~dial.refused THEN "TIMED_OUT" ELSE "REFUSED"

TryAddress ==
    /\ server /\ at = "preflight" /\ dial.left > 0
    /\ IF abort THEN CutShort
       ELSE \/ NextAddress(TRUE, FALSE)    \* silent, unreachable
            \/ NextAddress(FALSE, TRUE)    \* connection refused
            \/ NextAddress(FALSE, FALSE)   \* an address family this machine lacks
            \/ /\ dial' = [dial EXCEPT !.left = 0, !.unanswered = TRUE]  \* no time left
               /\ UNCHANGED <<at, strip, worst, todo, probes, mayOpen, survey>>
            \/ \E outcome \in {"HEALTHY", "REJECTED", "TIMED_OUT"} : Probed(outcome)
    /\ UNCHANGED <<config, checks, locks, process, abort>>
AddressesSpent ==
    /\ server /\ at = "preflight" /\ todo # <<>> /\ dial.left = 0 /\ dial.resolved
    /\ Probed(Unconnected)
    /\ UNCHANGED <<config, checks, locks, process, abort>>
\* A slip: a probe of that host at any port will do.
OwnProbedAtAnyPort == \E i \in DOMAIN probes : probes[i].host = setup.device.entry
\* configured_device_probes: opening a network device dials its own host, at
\* saned's port, so that host is probed too; one nobody can dial is not opened.
OwnProbed == \E i \in DOMAIN probes :
                probes[i].host = setup.device.entry /\ probes[i].port = SanedPort
OwnHost ==
    /\ server /\ at = "preflight" /\ todo = <<>>
    /\ \/ /\ ~setup.device.net \/ OwnProbed
          /\ mayOpen' = TRUE /\ at' = "judge" /\ UNCHANGED todo
       \/ /\ setup.device.net /\ ~OwnProbed /\ ~setup.device.dialable
          /\ mayOpen' = FALSE /\ at' = "judge" /\ UNCHANGED todo
       \/ /\ setup.device.net /\ ~OwnProbed /\ setup.device.dialable
          /\ todo' = <<Endpoint(setup.device.entry, SanedPort)>>
          /\ UNCHANGED <<at, mayOpen>>
    /\ UNCHANGED <<config, strip, worst, checks, dial, probes, locks, process, survey, abort>>

Judge ==
    /\ server /\ at = "judge"
    /\ IF Blocked(probes) THEN AddRow(HealthRow(WARN, "host unanswered"))
       ELSE at' = "gate" /\ UNCHANGED <<strip, worst, dialling, survey>>
    /\ UNCHANGED <<config, checks, locks, process, abort>>

Preflight ==
    \/ BeginPreflight \/ Resolve \/ TryAddress \/ AddressesSpent
    \/ OwnHost \/ Judge
-----------------------------------------------------------------------------
(* _scanner_result and run_listing_child: the child under the gate. *)

TryGate ==
    /\ server /\ at = "gate"
    /\ IF gate = "free"
       THEN gate' = "check" /\ at' = "start" /\ UNCHANGED <<strip, worst, dialling, survey>>
       ELSE AddRow(HealthRow(OK, "busy")) /\ UNCHANGED gate
    /\ UNCHANGED <<config, checks, scanning, process, abort>>

\* Only a device the pre-probe allows is named for opening.
OpenTarget == setup.device.named /\ mayOpen

StartChild ==
    /\ server /\ at = "start"
    /\ \/ /\ at' = "release" /\ survey' = Survey({}, "untried", FALSE, "no answer", "none")
          /\ UNCHANGED process
       \/ /\ at' = "wait" /\ child' = "starting" /\ armed' = FALSE /\ exit' = "none"
          /\ said' = NoReply /\ late' = FALSE /\ UNCHANGED survey
    /\ UNCHANGED <<config, strip, worst, checks, dialling, locks, abort>>

Reaped == child' = "none" /\ armed' = FALSE /\ exit' = "none" /\ said' = NoReply /\ late' = FALSE
Failed(why) == survey' = Survey({}, "untried", FALSE, why, "none")

\* A slip: a device nobody may open counts as one that could not be opened.
EnumeratedUnopened(reply) ==
    IF reply.startError # "none"
    THEN Survey({}, "untried", FALSE, "none", reply.startError)
    ELSE Survey(reply.devices, reply.opened, FALSE, "none", "none")
\* The reply as _enumeration_from reads it: a device that is listed needs no open.
Enumerated(reply) ==
    CASE reply.startError # "none" -> Survey({}, "untried", FALSE, "none", reply.startError)
      [] reply.startError = "none" /\ (~setup.device.named \/ "own" \in reply.devices) ->
            Survey(reply.devices, "untried", FALSE, "none", "none")
      [] OTHER -> Survey(reply.devices, IF mayOpen THEN reply.opened ELSE "untried",
                         ~mayOpen, "none", "none")

ChildAnswered ==
    /\ At("wait", "release") /\ child = "exited"
    /\ \/ exit = "alarm" /\ Failed("timed out")
       \/ exit = "signal" /\ Failed("crashed")
       \/ exit \in {"bad", "clean"} /\ Failed("no answer")    \* or a reply nobody can read
       \/ exit = "clean" /\ survey' = Enumerated(said)
    /\ Reaped
    /\ UNCHANGED <<config, strip, worst, checks, dialling, locks, abort>>
\* A slip: a stop leaves without waiting for the child.
StopListingUnreaped ==
    /\ At("wait", "releaseCut") /\ child # "exited" /\ abort
    /\ UNCHANGED <<config, strip, worst, checks, dialling, locks, process, survey, abort>>

\* Between two looks at the pipe: the stop, the deadline, or anything else that
\* raises.  The child is killed and reaped before the gate is let go.
StopListing ==
    /\ At("wait", "releaseCut") /\ child # "exited" /\ abort /\ Reaped
    /\ UNCHANGED <<config, strip, worst, checks, dialling, locks, survey, abort>>
DeadlineListing ==
    /\ At("wait", "release") /\ child # "exited" /\ late /\ ~abort /\ Reaped /\ Failed("timed out")
    /\ UNCHANGED <<config, strip, worst, checks, dialling, locks, abort>>
WaitRaises ==
    /\ At("wait", "release") /\ Reaped
    /\ survey' = Enumerated([NoReply EXCEPT !.opened = IF OpenTarget THEN "refused" ELSE "untried"])
    /\ UNCHANGED <<config, strip, worst, checks, dialling, locks, abort>>

Release ==
    /\ server /\ at = "release" /\ gate' = "free"
    /\ AddRow(ScannerVerdict(probes, survey, setup.device))
    /\ UNCHANGED <<config, checks, scanning, process, abort>>
\* A slip: only an answer lets the gate go.
ReleaseCutHolding ==
    /\ server /\ at = "releaseCut" /\ CutShort
    /\ UNCHANGED <<config, checks, gate, scanning, process, abort>>
ReleaseCut ==
    /\ server /\ at = "releaseCut" /\ gate' = "free" /\ CutShort
    /\ UNCHANGED <<config, checks, scanning, process, abort>>

Listing ==
    \/ TryGate \/ StartChild \/ ChildAnswered \/ StopListing \/ DeadlineListing
    \/ WaitRaises \/ Release \/ ReleaseCut
-----------------------------------------------------------------------------
(* The child.  A step of it that calls into the scanner library may never
   come; the alarm it set first ends it all the same. *)

Child(from, to) == child = from /\ child' = to
ChildOnly == UNCHANGED <<config, turn, dialling, locks, late, survey, abort>>

\* A slip: the alarm is set once the library is up.
ReadRequestUnarmed ==
    /\ \/ Child("starting", "loading") /\ UNCHANGED <<armed, exit, said>>
       \/ ~server /\ Child("starting", "exited") /\ exit' = "bad" /\ UNCHANGED <<armed, said>>
    /\ ChildOnly

\* main: the request, then the alarm, before the scanner library is loaded.  The
\* pipe of a killed server gives no request.
ReadRequest ==
    /\ \/ Child("starting", "loading") /\ armed' = TRUE /\ UNCHANGED <<exit, said>>
       \/ ~server /\ Child("starting", "exited") /\ exit' = "bad" /\ UNCHANGED <<armed, said>>
    /\ ChildOnly
LoadSane ==
    /\ \/ Child("loading", "listing") /\ UNCHANGED said
       \/ /\ Child("loading", "replied")
          /\ \E why \in {"import", "other"} :
                said' = [NoReply EXCEPT !.startError = why,
                                        !.opened = IF OpenTarget THEN "refused" ELSE @]
    /\ UNCHANGED <<armed, exit>> /\ ChildOnly

\* A listing that raises lists nothing, and the open is still tried.
ListDevices ==
    /\ \E seen \in SUBSET Devices :
        /\ said' = [said EXCEPT !.devices = seen]
        /\ \/ OpenTarget /\ "own" \notin seen /\ Child("listing", "opening")
           \/ ~(OpenTarget /\ "own" \notin seen) /\ Child("listing", "replied")
    /\ UNCHANGED <<armed, exit>> /\ ChildOnly
OpenAndClose ==
    /\ Child("opening", "replied")
    /\ \E how \in {"opened", "refused"} : said' = [said EXCEPT !.opened = how]
    /\ UNCHANGED <<armed, exit>> /\ ChildOnly

Exits ==
    /\ Child("replied", "exited") /\ exit' = "clean"
    /\ UNCHANGED <<armed, said>> /\ ChildOnly
Crashes ==
    /\ Alive /\ child' = "exited" /\ exit' = "signal"
    /\ UNCHANGED <<armed, said>> /\ ChildOnly
\* SIGALRM's default disposition, a margin after the parent's own deadline.
AlarmFires ==
    /\ Alive /\ armed /\ late /\ child' = "exited" /\ exit' = "alarm"
    /\ UNCHANGED <<armed, said>> /\ ChildOnly
OrphanReaped ==
    /\ ~server /\ child = "exited" /\ Reaped
    /\ UNCHANGED <<config, turn, dialling, locks, survey, abort>>

ChildSteps ==
    \/ ReadRequest \/ LoadSane \/ ListDevices \/ OpenAndClose \/ Exits \/ Crashes
    \/ AlarmFires \/ OrphanReaped
-----------------------------------------------------------------------------
(* The rest of the process, and the clock. *)

\* The worker takes the gate for a scan, and waits for it.
ScanAsks ==
    /\ server /\ scanning = "no" /\ scanning' = "waiting"
    /\ UNCHANGED <<config, turn, dialling, gate, process, survey, abort>>
ScanEnters ==
    /\ server /\ scanning = "waiting" /\ gate = "free"
    /\ scanning' = "holding" /\ gate' = "scan"
    /\ UNCHANGED <<config, turn, dialling, process, survey, abort>>
ScanLeaves ==
    /\ server /\ scanning = "holding" /\ scanning' = "no" /\ gate' = "free"
    /\ UNCHANGED <<config, turn, dialling, process, survey, abort>>

RequestAbort ==
    /\ server /\ ~abort /\ abort' = TRUE
    /\ UNCHANGED <<config, turn, dialling, locks, process, survey>>

\* Killed: only the child, in a session of its own, is left, with what it was asked.
ServerKilled ==
    /\ server /\ server' = FALSE /\ gate' = "free" /\ scanning' = "no"
    /\ UNCHANGED <<setup, turn, dialling, process, survey, abort>>

DeadlinePasses ==
    /\ Alive /\ ~late /\ late' = TRUE
    /\ UNCHANGED <<config, turn, dialling, locks, child, armed, exit, said, survey, abort>>

RunGoesOn ==
    \/ AllRowsIn \/ AbortBetweenKeys \/ OtherKey \/ SkipScanner \/ Shown
    \/ Preflight \/ Listing

SurveyNext ==
    \/ BeginRun \/ RunGoesOn \/ ChildSteps
    \/ ScanAsks \/ ScanEnters \/ ScanLeaves
    \/ RequestAbort \/ ServerKilled \/ DeadlinePasses

\* The thread that checks runs, and so does the worker; time passes; an
\* interpreter starts and reads its request, and the kernel delivers an alarm.  A
\* call into the scanner library need not return, and a killed process is reaped.
SurveyFairness ==
    /\ WF_surveyVars(RunGoesOn) /\ WF_surveyVars(ScanEnters)
    /\ WF_surveyVars(DeadlinePasses)
    /\ WF_surveyVars(ReadRequest) /\ WF_surveyVars(AlarmFires) /\ WF_surveyVars(OrphanReaped)
SurveySpec == SurveyInit /\ [][SurveyNext]_surveyVars /\ SurveyFairness
-----------------------------------------------------------------------------
\* The scanner library is let loose only on hosts that answered: while it lists,
\* no host this check probed timed out, and while it opens a configured network
\* device, that device's own host, at the port libsane dials, is one of those
\* probed, whatever the setting lists and in which order.
DialsOnlyWhatAnswered ==
    /\ child \in {"loading", "listing", "opening"} => ~Blocked(probes)
    /\ child = "opening" /\ setup.device.net =>
            \E i \in DOMAIN probes :
                probes[i].host = setup.device.entry /\ probes[i].port = SanedPort

WantedDevices == IF setup.device.named THEN survey.devices \cap {"own"} ELSE survey.devices
\* The scanner's row is earned: green only behind hosts that are all well and a
\* device that was seen, and a configured device is called missing only if it was
\* opened in vain, never because its host could not be asked or did not answer.
VerdictIsEarned ==
    at = "release" =>
        LET row == ScannerVerdict(probes, survey, setup.device)
        IN  /\ row.state = OK =>
                    ~SomeHostUnwell(probes) /\ (WantedDevices # {} \/ survey.opened = "opened")
            /\ row.why \in {"missing", "own host problem"} => survey.opened = "refused"

\* The probes of the saned hosts are heeded, before the library is let loose and
\* in what is said of the scanner afterwards.
ProbesAreHeeded == DialsOnlyWhatAnswered /\ VerdictIsEarned

\* The gate is free, or a scan's, only when no listing child is left: one is
\* reaped before the gate is let go, whether it answered, the stop or the deadline
\* cut it short, or the wait raised.
GateCoversChild == server /\ child # "none" => gate = "check"

\* No listing child runs on for ever, though a call into the scanner library never
\* returns and the server that would have stopped it was killed.
ListingEnds == Alive ~> child = "none"

\* A scan that waits behind a health check gets the scanner, unless the server dies.
ScanGetsScanner == scanning = "waiting" ~> scanning = "holding" \/ ~server

\* A hanging scanner library keeps neither its process nor the gate for ever.
ListingLetsGo == ListingEnds /\ ScanGetsScanner
=============================================================================
