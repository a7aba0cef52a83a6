# saneless in TLA+

saneless scans paper with a SANE scanner and uploads the result to
paperless-ngx. It runs as a web server (`saneless serve`) or as a one-shot
command (`saneless scan`). This directory is a formal model of the code under
`src/saneless`: TLA+ modules, TLC configurations that check them on small
instances, and theorems TLAPS proves for every value of the constants.

## Inventory

Each component: the state it keeps, what it does, whom it talks to, what is
hard about it, and what makes it correct.

| Component (source) | State and operations | Hard behaviour | What must hold |
|---|---|---|---|
| **Job store** (`job.py`) | one SQLite row per job: state, error, category, result. create, refuse, progress, finish, two recovery writes, prune; a lock and a transaction per call | any call may fail; retention deletes rows of running jobs | a finished row is final; recovery words a row by how far it got |
| **Scan worker** (`worker.py`) | queue, stop flag, degraded flag, owed writes, failure counters, live job. Loop: dequeue, scanner gate, pipeline, terminal write, guard, flushes, idle housekeeping | three kinds of threads share it; store failures at any write; stop and crash at any step | the row ends as the worker meant; nothing is scanned that was refused; degraded mode heals |
| **Web submit path** (`web/routes.py`, `web/app.py`) | a request thread per submit: health, `create_job`, `submit`, rejection; startup recovery; bounded shutdown | every call is overtaken by the worker and the stop | a created row ends or is owed |
| **Operator waits** (`flip.py`, coordinators in `worker.py`) | per-job answer slot, arming latch, numbered prompts | stale clicks, job boundaries, stop and timeout racing a click | a click decides only the question it was made for; a stop ends every wait |
| **Pipeline** (`pipeline.py`) | stage of the run, pages so far, accepted uploads | failure or signal at any stage; partial delivery of two halves | delivered or kept; never silently filed twice |
| **Preservation** (`preservation.py`) | what is moved to `failed/` | fails half way on a full disk | what is not moved stays for the sweep |
| **Manual duplex** (`duplex.py`, `flip.py`) | two passes of one stack | lost or double-fed sheets | backs are paired with their fronts or not at all |
| **Job workspace and sweep** (`workspace.py`) | directories with a lock file each | several processes on one directory, death at any step | a live workspace is never swept; an orphan is in one sweep's hands at a time |
| **Spool, pages, PDF** (`spool.py`, `pages.py`, `pdf.py`) | page files, in order | disk full | pages come out in scan order |
| **Scan child** (`scanner/scan_child.py`, `_scan_child.py`, `scan_protocol.py`, `page_budget.py`) | a child process per job, a pipe each way, a deadline per stage | late pages, cancel, kill, second interrupt | no child outlives its session; pages arrive once and in order |
| **SANE pass** (`scanner/scan_session.py`) | open device, options, feeder tally | devices that substitute settings or lie about sources | the pass reports what it really did |
| **SANE back end and listing** (`scanner/sane_backend.py`, `listing.py`, `saned_probe.py`) | one short-lived child per listing | hanging libraries | every call ends by its deadline |
| **Paperless client** (`paperless.py`) | attempts and send budget of one upload | lost answers | an upload that may have arrived is never sent again |
| **Health checks** (`checks.py`) | none: independent probes | slow probes | see the refresher |
| **Check refresher and throttles** (`web/refresher.py`, `checks_cache.py`, `throttle.py`) | probe lock, request tickets, floor stamp, single flight | request, tick and stop race for one lock | a request is served by a probe begun after it; probe rate is bounded |
| **Metadata cache** (`web/cache.py`) | entry, generation, remembered failure | a fetch finishing after an invalidation | a stale answer is not stored as current |
| **Views** (`web/*_view.py`, `owner.py`, `errors.py`) | none: pure functions of rows and prompts | read of two sources at two moments | - |
| **HTTP guards, server** (`host_guard.py`, `cross_origin.py`, `server.py`) | none | - | - |
| **Configuration** (`config.py`, `atomic_write.py`, `auto_profiles.py`, `startup_profiles.py`) | the settings file, its profiles | two writers and an editor; death and power cuts during a replacement | old text or new text, whole; the operator's tables stay; what runs is what a restart loads |
| **Command line** (`cli.py`) | one run | signals | shares the pipeline |
| **Vocabulary** (`vocabulary.py`, `exceptions.py`) | none: words and categories | - | the wording of a recovered row follows its state |

How they interact: a request thread creates a row and puts the job in the
worker's queue; the worker thread takes it, holds the scanner gate (shared with
the health probes) for the whole run, and calls the pipeline, which drives the
scan child, spools the pages in a locked workspace, waits for the operator
through a coordinator that request threads answer, assembles a PDF and hands it
to the paperless client. The pipeline reports each state back through a
callback that writes the row; the worker writes how it ended. A signal or the
lifespan stops all of it; startup sweeps orphaned workspaces and recovers rows.

## Modules

| Module | Models |
|---|---|
| `JobStore` | `job.py`: the table as a function from ids to rows, each write operation as a function from tables to tables |
| `ScanWorker` | `worker.py` with the submit path of `web/routes.py` and the startup and shutdown of `web/app.py`, over `JobStore` |
| `AnswerSlot` | the single-answer slot of `flip.py`: claim once, then wake |
| `FlipWait` | the flip prompt of a manual-duplex job: `WorkerFlipCoordinator`, the run around it, the click routes, the clock and `stop()` |
| `MultiPage` | a multi-page document: the loop and the guard of `pipeline.py`, `WorkerPassCoordinator` with its clicks and stop, `ClickPassCoordinator` of `cli.py` with signals |
| `Preservation` | `preservation.py` as operators: what a failed run has to keep, in which order, and what is left after each move |
| `PaperlessClient` | one upload and one poll of `paperless.py`, with the server and the consume directory |
| `Delivery` | a run of the pipeline from the first sheet to the end of its workspace, over `Preservation` and `PaperlessClient`, and the sweep of what it leaves |
| `PageCustody` | abstract: what the scratch directory promises about each workspace |
| `Workspace` | `workspace.py`: several processes creating, locking, removing and sweeping workspaces; implements `PageCustody` |
| `ScanPass` | the child of a scan session: the pass of `scan_session.py` on the main thread of `_scan_child.py`, and its control thread |
| `ScanChild` | saneless's side of the session (`scan_child.py`), composed with `ScanPass` |
| `DeviceSetup` | how a pass sets up the open device (`scan_session.py`) |
| `HealthRows` | the rows of `checks.py` as functions of what each check saw |
| `ScannerCheck` | one run of the health checks: `saned_probe.py`, the scanner gate, `listing.py` and its child `_listing_child.py` |
| `MetadataCache` | one key of `web/cache.py`, under the page, the check of a scan's ids and the refresh button |
| `AutoProfiles` | what `auto_profiles.py` computes: profiles from capabilities, and their merge into a file |
| `ProfileFile` | the writers of the configuration file: startup, `saneless auto-profiles`, the operator's editor, over `atomic_write.py` |
| `MinimumInterval` | the rate floor of `web/throttle.py` |
| `SingleFlight` | `SingleFlightResult` of `web/throttle.py` |
| `CheckRefresher` | the refresher thread of `web/refresher.py` with its clicks, the strip, the cache entry and the stop |

The theorems are in modules of their own, each over the modules it extends:

| Proof module | Theorems about |
|---|---|
| `ScanWorkerProofs` | `ScanWorker` over `JobStore`; `ProfileFile` over `AutoProfiles` |
| `FlipWaitProofs` | `FlipWait` over `AnswerSlot` |
| `MultiPageProofs` | `MultiPage` over `AnswerSlot` |
| `DeliveryProofs` | `Delivery` over `Preservation` and `PaperlessClient` |
| `WorkspaceProofs` | `Workspace`, and that it implements `PageCustody` |
| `DeviceProofs` | `DeviceSetup`; `ScanChild` composed with `ScanPass` |
| `ChecksProofs` | `CheckRefresher`; `ScannerCheck` over `HealthRows` |
| `CacheProofs` | `MinimumInterval`, `SingleFlight`, `MetadataCache` |

The `MC` modules instantiate these for TLC. Four of them put components side by
side that share no state: a variable `part` says, from the first state on, which
one a behaviour is about, and the rest stands still. The run then asks one
question of all of them. What stands still is in a single state as far as the
question allows, so a run's states are the sum of its parts, not the product.

| MC module | Parts | Run |
|---|---|---|
| `MCRestart` | `ScanWorker`, `ProfileFile` | `restart` |
| `MCThreads` | `ScanWorker`, `SingleFlight`, `MultiPage` (as an instance), `ScannerCheck` | `threads` |
| `MCPasses` | `MultiPage`, `DeviceSetup` | `passes` |
| `MCPaperless` | `Delivery`, `MetadataCache`, `MinimumInterval` | `paperless` |
| `MCFlipWait`, `MCWorkspace`, `MCScanChild`, `MCCheckRefresher` | the module of that name | `flip`, `flip_early_click`, `workspace`, `scan_child`, `check_refresher`, `check_refresher_liveness` |
| `MCScanWorker`, `MCMultiPage` | the module of that name | `worker_uploading`, `multi_page_cancel` |

### JobStore and ScanWorker

A row is a record of its state, why it ended and whether its text names kept
pages. The states that no property tells apart share a class (the module's
header lists them). Every store method is one transaction under one lock, hence
one operator, used inside one action of the thread that calls it.

`ScanWorker` has a program counter per thread: `req[j]` for the request thread
of job `j`, `wpc` for the worker thread, `proc` for the startup sequence of the
process. Each step is one call or one read of shared state, so a thread can be
overtaken wherever the code can be. The variables follow the attributes of
`ScanWorker`: `queue`/`shutdown`/`stopping` (`_queue`, its shutdown, `_stopping`),
`degraded`, `owed` (`_unrecorded_failures`), `loopFailures`, `owedRetries`,
`recoveryPending` and `kept` (the deferred recovery), `announced` and
`persisted` (the locals of `_scan_job`). `meant`, `ran`, `sent` and `landed` are
history.

Store calls may fail at any time, up to `MaxFaults` times in a behaviour; the
process may be killed at any step or stopped, up to `MaxEnds` times, and boots
again with nothing but the disk. The pipeline is reduced to what the worker
sees of it: the states it announces, and the outcomes each allows.

Runs:

- `restart` (part `jobs`): two jobs, a queue of one, a retention of one row, three
  faults and one process end; degraded after one failure in the loop, or after
  two failed tries of an owed write. Two jobs are enough for a running job
  beside a refused, a queued or an owed one; three faults reach degraded mode by
  each of its routes and one failure more inside the recovery from it; one end
  gives every recovery at startup. `RowsSurvive` says that no created row is
  left for nobody and that a row which said UPLOADING is remembered as that;
  `RowsOnlyMoveOn` that a finished row is final and only a pending one starts;
  `RecoveryKeepsItsWord` that a kept sentence wins over later texts and that a
  startup settles what it found before it serves.
- `threads` (part `worker`): one job under fairness, with a process end and
  thresholds of two, so that a first failure is counted and forgotten again:
  every row ends, degraded mode heals, and a stop ends the worker. One job is
  enough: its row can be waiting, running, owed or refused while the store
  fails, and the worker serves owed rows and its queue in a fixed order, so a
  second job would only lengthen the wait.
- `worker_uploading`: a disagreement between the documentation and the code,
  see *Findings*.

Fairness: weak fairness on the worker thread and on each request thread under
way (the operating system schedules threads), on the second half of a stop and
on startup. The pipeline's end is fair because every wait in it is bounded (the
operator's by a timeout, the scan child's by deadlines, HTTP by its timeouts).
No fairness on a new request, a stop, a kill, a boot, or on announcing a state.
Liveness after faults holds because faults are bounded: the store fails only so
often.

### AnswerSlot and FlipWait

An answer slot is claimed under a lock by whoever offers first, and its waiter
is woken in a step of its own, so a slot is two values, `answer` and `woken`.
`FlipWait` gives the worker thread a step for each read or write it shares with
others: it installs the coordinator, arms it before it writes the row, looks at
the stop flag again, waits, and claims `TIMED_OUT` if nothing else was claimed.
A click is four steps (`SendClick`, `ReadCoordinator`, `Signal`, `OfferAnswer`)
and a wake-up; a stop is a flag, a read of the coordinator, an arm, an offer and
a wake-up. `csaw` remembers whether the page a click came from showed the
prompt.

- `flip`: two jobs run one after the other and two clicks, each for either job
  and either answer, sent at any moment. Two jobs give the stale click of the
  previous job's prompt; two clicks race each other, the clock and the stop for
  one slot. The specification is the fair one, so that the same run shows that a
  stop alone frees the worker thread: the clock has no fairness. `ClaimsDecide`
  says that the run takes the answer that was claimed, and ends by it.
- `flip_early_click`: a disagreement, see *Findings*.

`CHECK_DEADLOCK FALSE` is there because the worker waits for a next job for
ever once its jobs have run.

### MultiPage

`MultiPage` follows `_scan_multi_page` pass by pass, and statement by statement
where a signal may land between two of them: accepting a pass adds its pages to
the document, hands the document to the guard (`artefact`) and only then makes
the ledger forget the pass (`flight`); throwing one away updates the document,
then the guard's, then unlinks the files. Positions are what the code keeps: a
page skipped as blank is a number in `removed`. `decided` records, as history,
what the operator decided about each page, and the delivered pages are compared
with it.

The run asks through one of two coordinators. On the web a prompt is published
with a number and a fresh slot, and clicks name the number; a click may be
delayed across any number of prompts. At the terminal the answer is read on the
run's own thread, where SIGTERM, SIGHUP or Ctrl-C may land at any step.

- `passes` (part `answers`): passes of one page, of a page and a blank back, and
  of one blank page; two clicks; a document cap of two pages, which a run reaches
  in one pass or in two; three passes at the terminal. Two clicks suffice for a
  second pass and a click repeated across prompts. `PagesSurvive` says that the
  document handed to the guard always has its files, and that a run that ends
  badly keeps every page nobody threw away; `AnswersMeanIt` that an answer
  decides the question it was given to, that a finish has pages, and that a
  document nobody declared complete says so.
- `threads` (part `pages`): the stop frees the run without the clock or a click.
- `multi_page_cancel`: a disagreement, see *Findings*.

`CHECK_DEADLOCK FALSE` because the run ends.

### Preservation, PaperlessClient and Delivery

A page is the pass that scanned it, its place in that pass and its sheet, which
is enough to tell what was lost, what is in which PDF, and which back belongs to
which front. `Delivery` runs one request of one kind: pages are fed and spooled
one by one, a sheet may be unreadable (the scanner says so) or missed (nobody
says so), a pass may stop at its cap, the flip may be answered in each way, a
pass of a multi-page document is accepted or thrown away; then the filter for
blank pages, assembly, and a list of uploads and polls (`legs`), two of each when
the halves of a duplex run do not pair. `art` is `RunArtefacts` field by field.

Any step may fail, a signal may land between two, Ctrl-C also while pages are
being kept, and the process may be killed anywhere. A failure is handled as
`execute` does it: preservation by `Plan`, one item and one page file at a time,
each of which may fail; the cautions, which are part of the sentence that says where
things were kept, so a run that kept nothing gives none; the workspace removed, or
left when pages could not be kept. A later process sweeps a workspace that was left,
and may itself fail or be killed.

In `PaperlessClient` a request is two steps, its arrival and its answer, since
everything hangs on the difference. `taken` counts what the server stored. The
server is external: its outcomes are those the client's handlers name.

- `paperless` (part `run`): two sheets (one for each pass of a multi-page
  document), at most two of those passes, one missed sheet, two sends. Two sheets
  are the least with an order to get wrong, two passes the least where one can be
  thrown away beside one that stays. `NothingLost`, `HandedOnce`,
  `FailureIsHonest` and `BacksMatchFronts` are the properties.
  `BacksMatchFronts` speaks of at most one missed sheet, because two misfeeds
  that cancel out, one on each pass, cannot be seen by anybody. It also excepts
  the pairing advice on a pass that *stopped* after an unreadable sheet: the
  ledger counts that sheet only when the pass returns (`pipeline.py:1657`), so
  `_pairing_caution` still names a page there, and names the wrong one. Its text
  is conditional on no sheet having been skipped.

  `FailureIsHonest` speaks of the failure as the run reports it: what it kept is
  cautioned about in the notes, and where it kept nothing only the kind of its error
  is claimed to be true. What a later sweep keeps of such a run is not covered, see
  *Findings*.

`CHECK_DEADLOCK FALSE` because the run ends.

### MetadataCache

One key, with the request that renders the list under the key lock, the check of
a scan's id, which takes no lock while it fetches, and the refresh button. A list
is whether it names the id and, as history, the generation its fetch began under;
the id itself may come and go in paperless-ngx (`Edit`). The two reads of an entry
that `_served` makes are two steps (`Look`, `Serve`).

- `paperless` (part `lists`): two requests, with symmetry, and one check, a TTL and a failure
  window of one, a clock of two, one edit and one invalidation. Two requests give
  the wait behind a fetch, and the check beside them the store without the lock;
  a clock of two outlives an entry, the copy re-armed from the last good list,
  and a remembered failure.

### PageCustody and Workspace

`PageCustody` is the abstract promise: one owner per workspace at a time; an
orphan with pages may be taken up; a settled workspace is not taken up again. It
names the one exception the code has: a process killed while it removes a settled
workspace, or unable to remove, rename and unlock it (`Spoil`), leaves what looks
like a dead job, and a sweep may look at that again.

`Workspace` has every system call as a step of its own: the staging directory, the
lock file, the lock, the rename to a published name, the removal file by file
with the retirement that follows a failed one, the sweep's listing, open, lock,
second look and recovery; and a kill between any two. Its refinement mapping
(`Owner`, `Fate`) reads who has a workspace in hand off the program counters. A
workspace no lock could be taken for is used under a name no sweep looks at.

- `workspace`: three processes and two workspaces, with symmetry. Two may sweep
  while a third works, and a sweep may hold one orphan while it claims another.
  `KeepsCustody` is `PageCustody`'s specification as a property.

`CHECK_DEADLOCK FALSE` because both workspaces may be used up.

### ScanPass and ScanChild

`ScanPass` is the child: the main thread that makes every SANE call, and the
control thread that reads commands and may cancel the handle the other is
blocked on. A SANE call is a state of its own that the device may leave late,
with an error, or never. Calls that hold the interpreter lock stop the control
thread too (`HoldsInterpreter`). `ScanChild` is the session: operations, stages
that move the clock, the sink, an abort event, deadlines, and the ways of ending
a child, with the exception handler each step is under (`within`), because a
second signal is answered by the handler around the one that was running.

- `scan_child`: two operations (a second child, or a second pass of the first),
  up to two sheets and a cap of one, so that a feeder runs dry, is capped, or
  has a page rejected; two signals, since the first ends an operation and the
  second the ending. `CallsCanBeCut`, `PagesAreCounted`, `ChildIsAccountedFor`
  and `ScanningEnds`.

Fairness: weak, on the session's steps, its deadlines and graces, and on the
steps of the child that are not SANE calls. No call of SANE need return.
`OperationEnds` needs no more. `ChildEnds` says that a child is gone some time
after its session is, *while the alarm works*: `AlarmWorks`, weak fairness of
SIGALRM in a stuck call, is a premise inside the property, since a back end
may have taken the signal away and nobody is left to kill the child of a killed
saneless. `CHECK_DEADLOCK FALSE` because the session is closed in the end.

### DeviceSetup

A device is what its options offer (`model`) and what they hold (`dev`); a source
is its kind, a length the unit and resolution it was computed from. A device may
substitute a resolution, clamp an area and change the depth with the mode, each
without an error; which options can be written changes with the source and the
mode, so the list that was read (`listed`) is a copy that the next write makes
stale. The choice of one side or both outlives the handle.

The area is read back after it was written, so a clamp of it is noticed, and
`FramingIsTrue` says that it is exact where a page is left uncut. A feeder's
`page-width` and `page-height` are written and not read back (`_set_page_size`), and
the device may clamp them as silently: of those the property says only that they were
asked for whole, at the resolution in use. A page framed on a clamped page size goes
unnoticed by the code, and the model has that case.

- `passes` (part `device`): every model over two sets of sources, one mode, two
  resolutions; every profile that is not the same as another for the code (the
  automatic mode matters only for two kinds of source, the spelling only for
  two). Passes follow each other on one device, and another program may change
  what outlives the handle.

### HealthRows and ScannerCheck

`HealthRows` has each row as a function of the facts its check gathered.
`ScannerCheck` gathers those of the scanner: resolving and dialling each saned
host, address by address; the host of the configured device itself, which
opening it would dial; the gate, if it is free; and the listing child, whose
calls into the scanner library may never return. A scan waits for the gate beside
it, the server stops, or is killed and leaves the child.

- `threads` (part `check`): one run of the checks over eight set-ups (no host, one,
  more than are probed with the device's own behind the limit, another port, a
  literal address, a local device, no library, the check skipped) and host names
  of one or two addresses. A second run would start where the first did: only the
  row texts outlive it. `ProbesAreHeeded` says that the library is let loose only
  on hosts that answered and that the row shown is earned; `GateCoversChild` and
  `ListingLetsGo` speak of the gate and the child.

Fairness: weak, on the checking thread, on the worker's entry of a free gate, on
the passing of the deadline, on the child's start up to the alarm it sets first,
and on that alarm. Nothing is assumed of the library.

### AutoProfiles and ProfileFile

`AutoProfiles` computes: the nearest resolution of a list or a range, the
preferred mode, a name for each source, and the merge with its pruning, by the
mark a generated table carries. A range's bounds and step are counted in halves of a
dpi, so fractions finer than a half are left out; the result is rounded to whole dpi
as the code rounds it. A slug is a sequence of parts, so that a number
appended to one can meet a source whose own name ends in that number.

`ProfileFile` has the writers: the worker thread at startup, the command with or
without `--force`, and the operator's editor. `replace_file_atomically` is a step
per effect: the sweep of stale temporary files, the temporary file, its sync, the
rename, the sync of the directory, each of which may fail; a kill leaves a
temporary file; a power cut may undo a rename that was not synced to the
directory, and may cut a file whose bytes were not synced.

- `restart` (part `profiles`): one server start, one run of the command, one edit,
  over several scanners (without sources, two-sided, with names that collide after
  slugging, with resolution ranges of each shape, fractions among them), five files, and each way the
  file may be mounted. Scanners that matter to the computation only meet one file.
  `FileIsWhole`, `RestartLoadsWhatRuns` and `TablesAreRight`.

`OperatorsTablesKept`, a part of `TablesAreRight`, speaks of tables that were in
the file when the writer read it. An edit saved between that read and the rename
(`auto_profiles.py:1072` on) is overwritten: the code takes no lock against an
editor, and nothing in the repository says that it does.

`GeneratedIsOffered`, the other part, says of a range that the profile's resolution is
its nearest value *rounded half up*. `_snap_into_range` rounds last and does not look
at the range again, so with a fraction in the range the resolution may be off its grid,
or above its end: for (50.0, 250.5, 0.0) and 300 it is 251. `pick_closest_resolution`
promises "a resolution the device could accept", which then rests on the device taking
a neighbouring value.

The run checks deadlock for both parts; `Unwritten` in `MCRestart` says that the
file may stay as it is when nobody writes it and the bounds are spent.

### MinimumInterval and SingleFlight

`MinimumInterval` has one variable for `_last_claim` and, for each caller, a
place and the clock reading it took *before* the lock (`ReadClock`), so that
others may claim, keep or give back in between. What a caller does with a grant
is its own: `Keep` or `Release`, the compare-and-clear. `spent` is history: the
claims that were granted and kept. `FloorHolds` and `RefusedForAReason` speak of
the claims that *stand*, those kept or still undecided.

`FloorIsExact` joins the two: the floor holds, and a caller is refused only because
of a claim that stands.

`SingleFlight` gives each caller one step per critical section and per attempt
on the flight lock. Results are numbered as they are stored, and time is the one
moment at which the newest expires. `Compute` may raise, and a wait may end at
the very moment the lock is given up.

- `paperless` (part `floor`): three callers, an interval of two and a clock of five ticks:
  room for three grants in a row, for two callers with one reading, and for a
  reading that is older than a grant made meanwhile.
- `threads` (part `flight`): three callers, of whom one may wait: a leader, a follower and
  one too many. Three results: none, one that expires, and a successor. Weak
  fairness on each caller's steps (threads run, a compute ends within its own
  time limits, an acquire with a timeout returns) gives that every call ends;
  nobody has to call.

### CheckRefresher

The two counters, the probe lock, `_StopEvent` (the signal's plain store
`noticed` and the event `stopSet`), the thread's place and locals, and each
click's place, ticket, answer and strip. Every critical section of `_changed` is
one step, except that `request_probe` looks at the probe lock, which is *not*
taken under `_changed`, in one step and counts itself in the next; likewise
`probe_in_flight` is up to three reads and the cache read one more. A sleeper in
`wait_for` looks at its predicate before it sleeps and whenever it is notified
(`WokenClicks`, `WokenLoop`), and by its timeout (`TickPasses`, `WaitEnds`). A
probe is known by its number and what it came to: all checks, part of them
because a stop cut it short, or an exception. `need`, `begun` and `past` are
history: which probe answers a click, how many have begun, and how many are past
their store. The click's rate floor is `MinimumInterval`; here a press is
granted or refused by it.

- `check_refresher`: two clicks and a tick's probe beside a signal and the
  lifespan's stop, with poll caps of one and two in place of the code's, so that
  both caps are reached. One click collapses into the other's probe or the
  tick's, or is counted beside it; a third would only repeat the second.
- `check_refresher_liveness`: two clicks, with no polls and no tick's probe.
  Fairness is weak, on the thread and on each click's own steps. It is *not*
  assumed that a click's wait times out, that anybody polls, presses or stops:
  every click is answered by a probe or by the stop alone.

`MaxProbes` bounds only the probes a tick starts; those of requests are bounded
by the clicks. `CHECK_DEADLOCK FALSE` in both: a stopped server with
its strips settled is the end.

## Proofs

Each theorem holds for every value of the constants the named assumptions of its
modules allow, and from those only: any set of jobs, processes, clicks, requests or
checkers, any depth, cap, interval or number of passes, any number of faults, kills
and signals. The assumptions say that the numbers are natural, positive where the
code divides or indexes by them or the settings refuse less, and that the model's
"nobody" is not somebody. Three say a little more: `ProfileFileAssumption`, that a
TOML file holds one table of a name; `MetadataAssumption`, that the failure window
is no longer than the TTL; `DeliveryAssumption`, that a stack has a sheet and that
the PDFs of a run have the names the code gives them.

None of the properties is inductive as it stands. Each module states an inductive
invariant above it, as a conjunction of named parts that say where the program
is. The proofs have one lemma or step per action, and under it one per part the action can disturb. Lemmas
about the model's operators are stated first, so that an action's proof need not
expand them.

### ScanWorkerProofs

- `TypeCorrect`, `WorkerInvariant`, and from it `RejectedSafe`, `RecordedSafe`,
  `StartSafe`, `FinalSafe` and `RowsMoveOn` (the property `RowsOnlyMoveOn`). A
  finished row stays final because nobody who may still write it is left, which is
  a statement about where a job can be. `WorkerInv` says it in eight parts: which
  thread has a job in hand (`HandInv`), what a flush may be writing (`FlushInv`),
  and, for every job, what its request thread, the queue, the worker, the owed
  writes, a refusal and an unfinished recovery each imply about its row and about
  the others (`RequestInv`, `QueueInv`, `CurrentInv`, `OwedInv`, `RejectedInv`,
  `RecoveryInv`). Lemmas about the table operators (`RowShapes`, `WriteRows`,
  `FinishRows`, `RecoveryRows`, `PruneRows`, `RestartedRows`) say what each store
  write may do to a row.
- `RowsInvariant`, and from it `RowsAreKept` (`RowsSurvive`) and `RecoveryIsKept`
  (`RecoveryKeepsItsWord`). `RowsRest` adds to `WorkerInv` that whatever may still end
  the row of a job that reached UPLOADING knows that it did (`LandedIsKnown`); that
  kept sentences are written before a recovery ends the other rows (`KeptWaits`);
  and that a recovery past its flush owes nothing but refusals that came meanwhile
  (`FlushSettles`).
- `FileInvariant`, and from it `FileStaysWhole` (`FileIsWhole`),
  `RestartsLoadTheSame` (`RestartLoadsWhatRuns`) and `OperatorsKeepTheirTables`, the
  half of `TablesAreRight` that is about the operator. What is renamed has been synced
  (`BytesAreDown`), which is why a power cut that undoes a rename never tears a file.
  What a writer is about to write is the merge of what it *read* (`MergeIsOfRead`), and
  until someone else writes, what the server read is what it loaded (`BareWas`).

### FlipWaitProofs

`FlipInvariant`, and from it `ClaimsAreDecisive`, `PromptsAccept` and
`NoClickIsEarly`. A shown prompt accepts an answer, although the row that shows it
is written in another step than the latch is armed, because what is shown is
armed, and unanswered only while the worker waits for that very job
(`ShownIsOpen`); an armed latch belongs to a prompt that was announced, or to a
stop (`ArmedIsAsked`), which is exactly where `flip_early_click` finds its
disagreement.

### MultiPageProofs

`MultiPageInvariant`, and from it `AcksAreFresh`, `AnswersAreMeant`, `PagesAreKept`
and `UploadsAreDecided`: the run's two halves, in one invariant.

- The asking (`AskInv`, `AnswerInv`): only the last prompt can be open, and only while
  the run waits for it; a click that was let through holds the slot of the prompt it
  names; what the run acts on is its own prompt's answer, or Ctrl-C; at the terminal
  nobody but the run asks, answers and stops.
- The document (`DocumentInv`). `GuardInv`: the guard's copy of the document is the
  run's but for one statement in the middle of accepting or throwing away a pass,
  and at every statement all pages of either are on the disk, hence a signal may
  land anywhere. `FlightInv`: the pass in flight is newer than every page of the
  document until it is accepted. `LedgerInv`: there are bounds that cut the records
  into the accepted passes, each page decided as `decided` has it. `AcceptLedger` and
  `PopLedger` extend and cut those bounds; `LedgerDelivers` reads off them that the
  pages left when the removed positions are dropped are those the operator kept.
  `KeptPagesAre` says what that dropping gives, by the rank of each kept position,
  since the code's loop cannot be reasoned about by induction here.

### DeliveryProofs

- `HandInvariant`, and from it `NothingTwice` (`HandedOnce`) and `FailuresAreHonest`
  (`FailureIsHonest`). A run has one call at a time, and it is about the head of
  `legs` (`CallIsOfLeg`); how far it is says what the server can have; what is still to
  upload was not handed over and what is behind was, once (`LegsAreAhead`); a failure
  carries how each PDF was taken into the handler (`FailureIsKnown`), and from there,
  where anything was kept, into the notes of the failure (`FailureIsTold`).
- `PagesInvariant`, and from it `NoPageLost` (`NothingLost`). At each stage the
  artefacts a failure would keep hold every page that is owed (`ArtefactsCover`); a
  page is in the spool until it is kept or delivered (`SpoolHolds`); during a
  preservation it is kept, still to be tried, or keeps its workspace (`KeepCovers`),
  also where a sweep does it later.
- `PairsInvariant`, and from it `NoPageMismatched` (`BacksMatchFronts`). Every sheet
  that was loaded is in the feeder, a page of its pass, reported lost or missed
  (`FeedCounts`), so where nothing was missed a page's place tells its sheet
  (`PlacesTellSheets`).

### WorkspaceProofs

`SweepInvariant`, and from it `NeverTwoInHand` and `WorkspaceKeepsCustody`: `Workspace`
implements `PageCustody`, its initial states map to initial states (`InitSweep`) and
every step to a step of `PageCustody` or to a stutter, action by action (`NextFaithful`). The lock's holder and the
program counters agree (`HandHoldsLock`) except for a workspace nobody else can come
near (`Untouched`): one used or removed under a name no sweep looks at. A staging directory has one maker (`StagedAlone`), and what
is not published holds no page (`PublishedFirst`). Once its pages are safe a
workspace is being removed, or cannot be claimed as open, or is one of the spoilt
(`SafeIsHandled`), which gives that a settled workspace stays settled.

### DeviceProofs

- `SetupInvariant`, and from it `SidesAreAsked` and `FramesAreTrue`. The list of options
  a pass goes by is a copy that its own writes make stale; `AdfIsFresh` and
  `FrameIsKnown` say at which steps which part of it is still true.
- `SessionInvariant`, and from it `CallsAreCut`, `EveryPageCounts` and
  `ChildrenAreKept`, over the two processes and the pipes between them. `CallInv`: the
  alarm covers every call that may block, and a handle is published only while it is
  open. `OwnerInv`: who knows the child, after none, one or two signals. `TalkInv` and
  `ListenInv`: a task leads its queue, one task, one answer or the child's own work is
  under way while the session listens, and an answer tells where the child is.
  `RestInv` and `TallyInv`: between operations the pipes are empty, and pages recorded
  are pages fed and kept but for one that is on its way.

### ChecksProofs

- `RefresherInvariant`, `OnlyWholeIsStored`, `DoneMeansProbed`, `SettledMeansCurrent`,
  `ClosesBehindProbes` and `ServesWhatIsOwed`; `StopIsClean` and `ClicksAreServed` put
  them together to the two properties of the run. The heart of `RefresherInv` is
  `TicketServed`: what a click is owed is past its store once its ticket is served,
  has begun once its ticket is among those being served, and for a collapsed click
  is the probe of the held lock. A click in the middle of `request_probe` holds
  `_changed` (`OneInside`), so a probe cannot read which requests it serves between
  that click's look at the lock and its count. `RenderCurrent` carries this through
  the reads of a render.
- `SurveyInvariant`, and from it `ChildStaysUnderGate` (`GateCoversChild`) and
  `ProbesCount` (`ProbesAreHeeded`). A child that is not reaped is one the check waits
  for (`ChildIsWaitedFor`), and the gate is the check's at every step from taking it
  to letting it go (`GateIsKept`); a finished reply says how the open of an unlisted
  device went (`ReplyIsWhole`), so a row never claims a device nobody opened.

### CacheProofs

- `FloorInvariant`, `FloorIsHeld`, `RefusalHasAReason` and, of the two together,
  `FloorIsExactly`. That every standing claim is the recorded one or old enough
  (`Covered`) is not inductive: a release clears the record, so it must be known that
  nobody else stands on the same stamp. `SharedStampIsOld` says that two claims with
  one stamp are both old, which is what the compare-and-clear by stamp, rather than
  by caller, relies on.
- `FlightNeverLost`, `FloorUnderCompute`, `WaitersBounded` and `AnswersExist`, and
  `FlightIsSafe` for the four together. The invariant ties the lock to the callers'
  places, which gives mutual exclusion, which gives that nobody's result lands while
  another computes; the count of waiters is a cardinality that each step changes by
  one caller.
- `ListsInvariant`, and from it `IdsArePaperless` (`IdsAreProven`). A list stored
  as current is of the generation there is now (`StoreIsOfNow`), what a thread fetched
  is of one read after it asked (`FetchIsOfCall`), and a thread that checks an id knows whether it
  was ever missing meanwhile (`AbsenceIsSeen`).

### What stays with TLC

- Every liveness property: `EveryRowEnds`, `DegradedHeals`, `StopEndsWorker`,
  `WaitersLetGo`, `ListingLetsGo`, `StopFreesWorker`, `NobodyWaitsForEver`,
  `ScanningEnds`. They rest on fairness, hence on `ENABLED`, which TLAPS cannot reason
  about.
- `GeneratedIsOffered`, the other half of `TablesAreRight`: what `AutoProfiles` gives
  is a fold over the scanner's sources, and that it holds for every list is an
  induction over data.
- The disagreements under *Findings*, which are refuted, not proved.

The type invariants are parts of the proved invariants, so the runs do not repeat
them, except in `ClaimsDecide` and `PagesSurvive`, which contain those of `FlipWait`
and `MultiPage`.

## Findings

- `worker_uploading` (`UploadingNeverPlainRestart`): `_store_progress_state`
  tries the UPLOADING write once and lets the upload go on when it fails. If
  the process then dies, recovery gives the row the plain restart text, while
  `docs/how-to/troubleshoot-a-failed-scan.md` says a web job that was already
  uploading shows as "May be in paperless-ngx". `UploadingIsRemembered`, a part of `RowsSurvive`, is the
  promise that does hold: once the row has said UPLOADING it is remembered.

- `flip_early_click` (`ClicksAnswerAskedPrompts`): `interrupt_for_shutdown`
  arms the coordinator before it offers its own answer, so on a stopping server
  a click that races it is claimed for a prompt that was never shown; an Abort
  then throws away the fronts that the stop promises to keep. While the server
  is not stopping no click is claimed early (`NoEarlyAnswer`).
- `multi_page_cancel` (`CancelKeepsNothing`): Ctrl-C or end of input at the
  terminal's blank-page question answers `ABORT`, which that prompt does not
  offer, so the run fails as a broken coordinator and keeps its pages;
  `docs/reference/cli-commands.md` says it cancels at once and keeps nothing.

One more difference was met and has no run of its own. `_keep_assembled` notes a caution
for every PDF paperless-ngx may have, those that could not be kept included, "so the
caution goes too" with the page files (`preservation.py:691`); but
`PreservationReport.sentence` drops every caution when nothing at all was kept, the page
files included, and a workspace left for the sweep carries none. So when an interrupted
upload meets a full `failed/`, the run's note says that the pages could not be kept and
will be moved by the next start, and neither the note nor the sweep says that
paperless-ngx may have the document already. An uncertain or unconfirmed upload still
says so by its error, and an interrupted web job by its row, whose text comes from the
last state (`_end_by_shutdown`, `worker.py:1550`); an upload interrupted on the command
line (`Interrupted: ...`, `cli.py:1086`) does not.

## Not modelled

- Text and layout: messages, templates, the views of `web/*_view.py`, which are
  functions of a row, a prompt and a clock.
- Parsing: the settings file (`config.py`), forms, the command line. Each is a
  function of one input without state.
- Image work: decoding, blank detection, thumbnails, the PDF writer. A page is
  blank or not, a PDF is written or refused.
- The bytes on the wires: HTTP, the frames of the child's pipes, the saned
  handshake. Their outcomes are modelled.
- The header checks of `host_guard.py` and `cross_origin.py`: decisions about one
  request.
- The schema migrations of `job.py`, its reads, and the vacuum.
- The health check of the command line, which has no scanner gate, and
  `saneless devices`, which uses the listing child once.

`PROJECT.json` lists each component with its reason.

## Plan

Built: the job table and the worker; the operator waits; a run with its
preservation and upload; the workspace with its abstract specification; the scan
child and the set-up of its device; the health checks; the refresher, throttles
and single flight; the metadata cache; the profiles and their file.

Proved: every safety property the passing runs check, `TablesAreRight` excepted,
and the refinement of `PageCustody`.

Left, most useful first:

1. An abstract specification of what a job's row promises a reader, and
   `ScanWorker` shown to implement it: first by TLC in `restart`, then step by step
   from `RowsRest`, as `Workspace` is shown to implement `PageCustody`.
2. The same for one document: what a run promises about its pages, above
   `MultiPage` and `Delivery`, which each prove a part of it.
3. `OperatorsKeepTheirTables` extended to what the merge adds, as far as it goes
   without induction over the fold.

The runs stay about a dozen, one per question, so a module built later joins the
run of the question it belongs to.
