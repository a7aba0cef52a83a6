----------------------------- MODULE HealthRows -----------------------------
(***************************************************************************)
(* The rows of the health check (checks.py) as functions of what each      *)
(* check saw.  A row is its severity and the case that wrote it; the words *)
(* it shows are left out.  What the scanner check sees is gathered by      *)
(* ScannerCheck.                                                           *)
(***************************************************************************)
EXTENDS FiniteSets, Integers, Sequences

OK == "OK"
WARN == "WARN"
FAIL == "FAIL"
HealthRow(state, why) == [state |-> state, why |-> why]

\* The checks in the order run_checks makes them.
CheckKeys == <<"CONFIGURATION", "SCANNER", "PAPERLESS", "PROFILES", "FALLBACK", "DATA_DIR">>

WorstOf(states) ==
    IF FAIL \in states THEN FAIL ELSE IF WARN \in states THEN WARN ELSE OK

\* What an exception no check expected becomes.
CheckFailed == HealthRow(FAIL, "check failed")
-----------------------------------------------------------------------------
(* Every check but the scanner's. *)

\* What the search for a configuration file found; settings built directly carry
\* no search.
ConfigFileState(searched, loaded, found, stale) ==
    CASE ~searched -> IF loaded THEN "LOADED" ELSE "NOT_FOUND"
      [] searched /\ ~loaded -> IF stale THEN "STALE_ONLY" ELSE "NOT_FOUND"
      [] searched /\ loaded /\ found > 1 -> "LOADED_WITH_SHADOWED"
      [] OTHER -> IF stale THEN "LOADED_WITH_LEFTOVER" ELSE "LOADED"

ConfigurationRow(state) ==
    CASE state = "LOADED" -> HealthRow(OK, state)
      [] state = "STALE_ONLY" -> HealthRow(FAIL, state)
      [] OTHER -> HealthRow(WARN, state)

ConnectionStatuses ==
    {"CONNECTED", "TOKEN_REJECTED", "NOT_FOUND", "SERVER_ERROR", "UNREACHABLE",
     "INCOMPATIBLE", "REDIRECTED", "MISCONFIGURED"}

\* client: made, or why not ("trustStore", "configuration", "other").
PaperlessRow(placeholder, url, client, status) ==
    CASE placeholder -> HealthRow(FAIL, "unset token")
      [] ~placeholder /\ ~url -> HealthRow(FAIL, "unset url")
      [] ~placeholder /\ url /\ client = "trustStore" -> HealthRow(FAIL, "trust store")
      [] ~placeholder /\ url /\ client = "configuration" -> HealthRow(FAIL, "MISCONFIGURED")
      [] ~placeholder /\ url /\ client = "other" -> HealthRow(FAIL, "NOT_FOUND")
      [] OTHER -> HealthRow(IF status = "CONNECTED" THEN OK ELSE FAIL, status)

ProfilesRow(any, storage, unnamed) ==
    CASE ~any -> HealthRow(FAIL, "none")
      [] any /\ storage # "PERSISTED" -> HealthRow(WARN, storage)
      [] OTHER -> IF unnamed THEN HealthRow(WARN, "unnamed") ELSE HealthRow(OK, "configured")

FallbackRow(set, writable) ==
    CASE ~set -> HealthRow(WARN, "not configured")
      [] set /\ writable -> HealthRow(OK, "set up")
      [] OTHER -> HealthRow(FAIL, "cannot be written to")

\* A folder: "ready", or missing below one that would take it, or what is wrong.
FolderFault(path) ==
    CASE path \in {"ready", "creatable"} -> "none"
      [] path = "file" -> "is not a folder"
      [] path = "unwritable" -> "cannot be written to"
      [] path = "underFile" -> "is under a file, not a folder"
      [] OTHER -> "does not exist and cannot be created"

\* The working folder has to be private as well, if it is there.
WorkingFolderFault(path, privacy) ==
    IF path \in {"ready", "unwritable", "file"} /\ privacy # "private"
    THEN privacy ELSE FolderFault(path)

Folders == {"ready", "creatable", "file", "unwritable", "underFile", "uncreatable"}
Privacies == {"private", "link", "not a folder", "other owner", "open", "unreadable"}

DataDirRow(data, tmp, privacy) ==
    CASE FolderFault(data) # "none" -> HealthRow(FAIL, FolderFault(data))
      [] FolderFault(data) = "none" /\ WorkingFolderFault(tmp, privacy) # "none" ->
            HealthRow(FAIL, WorkingFolderFault(tmp, privacy))
      [] OTHER -> HealthRow(OK, "writable")

\* Every row a check but the scanner's can come to.
RowsOf(key) ==
    CASE key = "CONFIGURATION" ->
            {ConfigurationRow(ConfigFileState(searched, loaded, found, stale)) :
                searched, loaded, stale \in BOOLEAN, found \in {1, 2}}
      [] key = "PAPERLESS" ->
            {PaperlessRow(placeholder, url, client, status) :
                placeholder, url \in BOOLEAN, status \in ConnectionStatuses,
                client \in {"made", "trustStore", "configuration", "other"}}
      [] key = "PROFILES" ->
            {ProfilesRow(any, storage, unnamed) : any, unnamed \in BOOLEAN,
                storage \in {"PERSISTED", "IN_MEMORY_UNWRITABLE", "IN_MEMORY_NO_CONFIG_FILE"}}
      [] key = "FALLBACK" -> {FallbackRow(set, writable) : set, writable \in BOOLEAN}
      [] OTHER ->
            {DataDirRow(data, tmp, privacy) : data, tmp \in Folders, privacy \in Privacies}
-----------------------------------------------------------------------------
(* The scanner's row: from the probes of the hosts SANE dials, each
   [host, port, outcome], and what the listing saw. *)

SanedPort == "saned"

OutcomesOf(probes) == {probes[i].outcome : i \in DOMAIN probes}

\* A host that takes the connection and says nothing would hold up the listing.
BlocksEnumeration(outcome) == outcome = "TIMED_OUT"
Blocked(probes) == \E outcome \in OutcomesOf(probes) : BlocksEnumeration(outcome)
SomeHostUnwell(probes) == OutcomesOf(probes) \ {"HEALTHY"} # {}

\* Everything the listing of one check came to; NoSurvey before it.
Survey(devices, opened, withheld, failure, startError) ==
    [devices |-> devices, opened |-> opened, withheld |-> withheld,
     failure |-> failure, startError |-> startError]
NoSurvey == Survey({}, "untried", FALSE, "none", "none")

\* The configured device, or the one device seen when none is configured.
Seen(survey, device) ==
    IF device.named THEN "own" \in survey.devices \/ survey.opened = "opened"
    ELSE survey.devices # {}

\* Nothing usable was seen: a configured network device is blamed on its own
\* host's probe at the port libsane opens it on.
OwnHostAtFault(probes, device) ==
    \E i \in DOMAIN probes :
        /\ device.net /\ probes[i].host = device.entry /\ probes[i].port = SanedPort
        /\ probes[i].outcome \in {"REFUSED", "REJECTED", "UNRESOLVED"}

UnusableRow(probes, device) ==
    CASE device.named /\ OwnHostAtFault(probes, device) -> HealthRow(FAIL, "own host problem")
      [] device.named /\ ~OwnHostAtFault(probes, device) -> HealthRow(FAIL, "missing")
      [] ~device.named /\ SomeHostUnwell(probes) -> HealthRow(FAIL, "host problem")
      [] OTHER -> HealthRow(FAIL, "nothing found")

\* A slip: one host that is well clears the others.
ReadyRowOfAny(probes, unchosen) ==
    CASE probes # <<>> /\ "HEALTHY" \notin OutcomesOf(probes) -> HealthRow(WARN, "ready, but")
      [] OTHER -> IF unchosen > 1 THEN HealthRow(WARN, "none chosen") ELSE HealthRow(OK, "ready")
ReadyRow(probes, unchosen) ==
    CASE SomeHostUnwell(probes) -> HealthRow(WARN, "ready, but")
      [] ~SomeHostUnwell(probes) /\ unchosen > 1 -> HealthRow(WARN, "none chosen")
      [] OTHER -> HealthRow(OK, "ready")

\* What kept the listing from seeing anything.
ListingFailureRow(failure) == HealthRow(WARN, failure)
StartErrorRow(startError) ==
    HealthRow(FAIL, IF startError = "import" THEN "not installed" ELSE "would not start")

ScannerVerdict(probes, survey, device) ==
    CASE Blocked(probes) -> HealthRow(WARN, "host unanswered")
      [] ~Blocked(probes) /\ survey.failure # "none" -> ListingFailureRow(survey.failure)
      [] ~Blocked(probes) /\ survey.failure = "none" /\ survey.startError # "none" ->
            StartErrorRow(survey.startError)
      [] OTHER ->
            IF Seen(survey, device)
            THEN ReadyRow(probes, IF device.named THEN 0 ELSE Cardinality(survey.devices))
            ELSE IF survey.withheld THEN HealthRow(WARN, "not probed") ELSE UnusableRow(probes, device)
=============================================================================
