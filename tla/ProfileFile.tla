----------------------------- MODULE ProfileFile -----------------------------
(***************************************************************************)
(* The configuration file's profiles and those who write them: the worker  *)
(* thread at startup (startup_profiles.py), "saneless auto-profiles"       *)
(* (cli.py), both through write_profiles_to_config and                     *)
(* replace_file_atomically (atomic_write.py), and the operator's editor.   *)
(* A process may be killed and the power may fail at any step.             *)
(***************************************************************************)
EXTENDS AutoProfiles

CONSTANTS
    Scanners,       \* capabilities the scanner may have at first
    OtherScanners,  \* what it may be exchanged for
    Files,          \* what the file may hold at first
    OwnProfile,     \* a profile the operator wrote
    BareProfile,    \* ProfileConfig(): what is loaded when no profile is configured
    MaxBoots, MaxRuns, MaxEdits     \* bounds: server starts, CLI runs, edits

\* A TOML file holds a table of a name once.
ASSUME ProfileFileAssumption ==
    /\ MaxBoots \in Nat /\ MaxRuns \in Nat /\ MaxEdits \in Nat
    /\ \A tables \in Files : \A t, u \in tables : t.name = u.name => t = u

Writers == {"server", "cli"}

VARIABLES
    caps,           \* what the scanner reports
    mount,          \* how the file is reached: see TargetRefused
    file, lasting,  \* the file as read now, and as it would be after a power cut
    synced, torn,   \* whether the file's bytes are on the disk; whether only some are
    step, force,     \* per writer: its step; --force
    read, gen, new, \* per writer: the tables it read, its profiles, the merge
    temp,           \* per writer: its temporary file
    stale,          \* a killed writer's temporary file: none, recent, old
    loaded, memory, storage,    \* the server: loaded and used profiles, ProfileStorage
    starts,         \* server starts, CLI runs, edits so far
    disturbed       \* history: someone else changed the file since the server loaded it

world == <<caps, mount, starts>>
content == <<file, lasting, synced, torn>>
writing == <<read, gen, new, temp>>
serving == <<loaded, memory, storage>>
profileVars == <<world, content, step, force, writing, stale, serving, disturbed>>

Nothing == {}
Bare == {Named(Default, BareProfile)}

\* Settings without a profile are the bare default's.
Loaded(tables) == IF tables = {} THEN Bare ELSE ProfilesOf(tables)
IsBareDefault(profiles) == profiles = Bare
\* profile_storage_for_loaded, before any write is tried.
StorageForLoaded == IF mount = "no file" THEN "IN_MEMORY_NO_CONFIG_FILE" ELSE "PERSISTED"

ProfileInit ==
    /\ caps \in Scanners /\ file \in Files /\ lasting = file /\ synced = TRUE /\ torn = FALSE
    /\ mount \in {"directory", "single file", "refused", "no file"}
    /\ mount = "no file" => file = {}
    /\ starts = [server |-> 0, cli |-> 0, editor |-> 0]
    /\ step = [w \in Writers |-> "off"] /\ force = FALSE
    /\ read = [w \in Writers |-> Nothing] /\ gen = [w \in Writers |-> Nothing]
    /\ new = [w \in Writers |-> Nothing] /\ temp = [w \in Writers |-> "none"]
    /\ stale = "none" /\ loaded = Nothing /\ memory = Nothing /\ storage = "none"
    /\ disturbed = FALSE

Writer(w, from, to) == step[w] = from /\ step' = [step EXCEPT ![w] = to]
Set(f, w, value) == [f EXCEPT ![w] = value]
-----------------------------------------------------------------------------
(* The start of the server, and of the command. *)

StartServer ==
    /\ starts.server < MaxBoots /\ starts' = [starts EXCEPT !.server = @ + 1]
    /\ Writer("server", "off", IF IsBareDefault(Loaded(file)) THEN "bare" ELSE "running")
    /\ loaded' = Loaded(file) /\ memory' = Loaded(file)
    /\ storage' = StorageForLoaded /\ disturbed' = FALSE
    /\ UNCHANGED <<caps, mount, content, force, writing, stale>>

\* The scanner cannot be read: the bare default stays.
ReadFails ==
    /\ Writer("server", "bare", "running")
    /\ UNCHANGED <<world, content, force, writing, stale, serving, disturbed>>

Run ==
    /\ starts.cli < MaxRuns /\ starts' = [starts EXCEPT !.cli = @ + 1]
    /\ Writer("cli", "off", "bare") /\ force' \in BOOLEAN
    /\ UNCHANGED <<caps, mount, content, writing, stale, serving, disturbed>>

Generate(w) ==
    /\ Writer(w, "bare", "generated") /\ gen' = Set(gen, w, GenerateProfiles(caps))
    /\ UNCHANGED <<world, content, force, read, new, temp, stale, serving, disturbed>>
-----------------------------------------------------------------------------
(* write_profiles_to_config, up to the file itself. *)

Forced(w) == w = "cli" /\ force

\* The server never creates the file; the command does.
HasTarget(w) == w = "cli" \/ mount # "no file"

ReadAndMerge(w) ==
    /\ step[w] = "generated" /\ HasTarget(w)
    /\ LET merged == Merged(file, gen[w], Forced(w)) IN
        /\ read' = Set(read, w, file) /\ new' = Set(new, w, merged)
        /\ step' = Set(step, w, IF merged = file THEN "written" ELSE "prepare")
    /\ UNCHANGED <<world, content, force, gen, temp, stale, serving, disturbed>>

\* No TOML, no table, no round trip; or the write is refused, or fails.
Refuse(w) ==
    /\ step' = Set(step, w, "refused") /\ temp' = Set(temp, w, "none")
    /\ UNCHANGED <<world, content, force, read, gen, new, stale, serving, disturbed>>
ReadRefused(w) == step[w] = "generated" /\ HasTarget(w) /\ Refuse(w)
-----------------------------------------------------------------------------
(* replace_file_atomically. *)

\* A link nobody should follow, a read-only mount, a file not ours to write.
TargetRefused == mount = "refused"

\* Leftovers old enough to be nobody's are swept, before the temporary file; a
\* writer that was held up as long loses its own.
Prepare(w) ==
    /\ ~TargetRefused /\ Writer(w, "prepare", "temp")
    /\ \E lost \in SUBSET {v \in Writers \ {w} : temp[v] # "none"} :
        temp' = [v \in Writers |-> IF v = w THEN "empty" ELSE IF v \in lost THEN "lost" ELSE temp[v]]
    /\ stale' = (IF stale = "old" THEN "none" ELSE stale)
    /\ UNCHANGED <<world, content, force, read, gen, new, serving, disturbed>>
PrepareRefused(w) == TargetRefused /\ step[w] = "prepare" /\ Refuse(w)

\* Attributes, owner and mode first, then every byte, then fsync.
WriteTemp(w) ==
    /\ Writer(w, "temp", "sync") /\ temp' = Set(temp, w, IF temp[w] = "lost" THEN "lost" ELSE "whole")
    /\ UNCHANGED <<world, content, force, read, gen, new, stale, serving, disturbed>>
SyncTempLater(w) ==
    /\ Writer(w, "sync", "replace")
    /\ UNCHANGED <<world, content, force, writing, stale, serving, disturbed>>
SyncTemp(w) ==
    /\ Writer(w, "sync", "replace") /\ temp' = Set(temp, w, IF temp[w] = "lost" THEN "lost" ELSE "synced")
    /\ UNCHANGED <<world, content, force, read, gen, new, stale, serving, disturbed>>
\* Any of these may fail, and a single-file mount refuses the rename (EBUSY): the
\* temporary file goes, the file is untouched.
WriteFails(w) ==
    /\ step[w] \in {"prepare", "temp", "sync", "replace"} /\ Refuse(w)

Replace(w) ==
    /\ mount # "single file" /\ temp[w] # "lost" /\ Writer(w, "replace", "syncDirectory")
    /\ mount' = "directory"
    /\ file' = new[w] /\ synced' = (temp[w] = "synced") /\ temp' = Set(temp, w, "none")
    /\ disturbed' = (disturbed \/ w # "server")
    /\ UNCHANGED <<caps, starts, lasting, torn, force, read, gen, new, stale, serving>>

\* The directory's fsync is best effort.
SyncDirectory(w) ==
    /\ Writer(w, "syncDirectory", "written")
    /\ lasting' \in {lasting, file}
    /\ UNCHANGED <<world, file, synced, torn, force, writing, stale, serving, disturbed>>
-----------------------------------------------------------------------------
(* What comes of it. *)

Forget(w) == read' = Set(read, w, Nothing) /\ gen' = Set(gen, w, Nothing) /\ new' = Set(new, w, Nothing)

\* _persist and _profiles_after_persist; the worker swaps the result in.
UseProfiles ==
    /\ \/ /\ Writer("server", "written", "running") /\ storage' = "PERSISTED"
          /\ memory' = ProfilesAfterPersist(loaded, gen["server"],
                            Persisted(read["server"], gen["server"], FALSE))
       \/ /\ Writer("server", "refused", "running") /\ storage' = "IN_MEMORY_UNWRITABLE"
          /\ memory' = gen["server"]
       \/ /\ ~HasTarget("server") /\ Writer("server", "generated", "running")
          /\ storage' = "IN_MEMORY_NO_CONFIG_FILE" /\ memory' = gen["server"]
    /\ Forget("server")
    /\ UNCHANGED <<world, content, force, temp, stale, loaded, disturbed>>

RunEnds ==
    /\ \/ Writer("cli", "written", "off")
       \/ Writer("cli", "refused", "off")
    /\ Forget("cli") /\ force' = FALSE
    /\ UNCHANGED <<world, content, temp, stale, serving, disturbed>>

Write(w) ==
    \/ Generate(w) \/ ReadAndMerge(w) \/ ReadRefused(w) \/ Prepare(w) \/ PrepareRefused(w)
    \/ WriteTemp(w) \/ SyncTemp(w) \/ WriteFails(w) \/ Replace(w) \/ SyncDirectory(w)
-----------------------------------------------------------------------------
(* Everything else that happens to the file. *)

ServerGone == loaded' = Nothing /\ memory' = Nothing /\ storage' = "none"

\* A killed writer leaves its temporary file, and a stopped server nothing.
Kill(w) ==
    /\ step[w] # "off" /\ step' = Set(step, w, "off")
    /\ stale' = (IF temp[w] # "none" THEN "recent" ELSE stale)
    /\ temp' = Set(temp, w, "none") /\ Forget(w)
    /\ IF w = "server" THEN ServerGone /\ UNCHANGED force
       ELSE force' = FALSE /\ UNCHANGED serving
    /\ UNCHANGED <<world, content, disturbed>>

\* _STALE_TEMP_AGE_SECONDS pass.
TempAges ==
    /\ stale = "recent" /\ stale' = "old"
    /\ UNCHANGED <<world, content, step, force, writing, serving, disturbed>>

\* After a power cut a rename may be undone, and bytes never synced may be missing.
PowerFails ==
    /\ \E w \in Writers : step[w] # "off"
    /\ step' = [w \in Writers |-> "off"] /\ temp' = [w \in Writers |-> "none"]
    /\ stale' = (IF \E w \in Writers : temp[w] # "none" THEN "recent" ELSE stale)
    /\ \/ file' = lasting /\ UNCHANGED torn
       \/ file' = file /\ torn' = ~synced
    /\ lasting' = file' /\ synced' = TRUE
    /\ read' = [w \in Writers |-> Nothing] /\ gen' = read' /\ new' = read'
    /\ ServerGone /\ force' = FALSE /\ disturbed' = FALSE
    /\ UNCHANGED world

\* The operator writes a table, or deletes one; an editor syncs what it saves.
Edit ==
    /\ starts.editor < MaxEdits /\ starts' = [starts EXCEPT !.editor = @ + 1]
    /\ \E name \in {Default} \cup NamesOf(file), added \in BOOLEAN :
        file' = {t \in file : t.name # name}
                \cup (IF added THEN {Table(name, OwnProfile, FALSE)} ELSE {})
    /\ torn' = FALSE
    /\ lasting' = file' /\ synced' = TRUE /\ disturbed' = TRUE
    /\ mount' = (IF mount = "no file" THEN "directory" ELSE mount)
    /\ UNCHANGED <<caps, step, force, writing, stale, serving>>

ExchangeScanner ==
    /\ caps' \in OtherScanners
    /\ caps \notin OtherScanners
    /\ UNCHANGED <<mount, starts, content, step, force, writing, stale, serving, disturbed>>

ProfileNext ==
    \/ StartServer \/ ReadFails \/ Run \/ UseProfiles \/ RunEnds
    \/ \E w \in Writers : Write(w) \/ Kill(w)
    \/ TempAges \/ PowerFails \/ Edit \/ ExchangeScanner

ProfileSpec == ProfileInit /\ [][ProfileNext]_profileVars
-----------------------------------------------------------------------------
\* The file is whole after any kill and any power cut: what one writer or the
\* operator wrote, never the first bytes of it.
FileIsWhole == ~torn

\* A table the operator wrote survives every rewrite by saneless, --force or not
\* and whatever scanner is there, if it was in the file the writer read.
OperatorsTablesKept ==
    [][\A w \in Writers :
        step[w] = "replace" /\ step'[w] = "syncDirectory" =>
            \A t \in read[w] \cap file : ~t.auto => t \in file']_profileVars

\* When the profiles are said to be saved and nobody else touched the file, the
\* profiles in use are those a restart loads, hand-written ones and those the
\* merge skipped included.
RestartLoadsWhatRuns ==
    step["server"] = "running" /\ storage = "PERSISTED" /\ ~disturbed => memory = Loaded(file)

\* Every source the scanner offers has a profile of its own beside the default,
\* whatever their names, and every profile asks for what the scanner offers next
\* to the resolution wanted: one of a list as it is, one of a range rounded half up
\* to whole dpi, which a fraction in the range may put beside its grid, or half a
\* dpi above its end.
HalvesOffered(c) ==
    IF c.resolutions # <<>> THEN {2 * r : r \in ToSet(c.resolutions)}
    ELSE IF c.range = <<>> THEN {2 * Target}
    ELSE {h \in c.range[1]..c.range[2] :
            c.range[3] <= 0 \/ (h - c.range[1]) % c.range[3] = 0}
RoundedUpFrom(r) == {2 * r, 2 * r - 1}
Away(h) == IF h < 2 * Target THEN 2 * Target - h ELSE h - 2 * Target
NearestOffered(c) == {h \in HalvesOffered(c) : \A g \in HalvesOffered(c) : Away(h) <= Away(g)}
GeneratedIsOffered ==
    [][\A w \in Writers : step[w] = "bare" /\ step'[w] = "generated" =>
        /\ \A i \in DOMAIN caps.sources : \E p \in gen'[w] :
                p.name # Default /\ p.profile.source = caps.sources[i].id
        /\ \A p \in gen'[w] :
                RoundedUpFrom(p.profile.resolution) \cap NearestOffered(caps) # {}]_profileVars

\* What saneless writes into the file: the operator's tables as they were, and
\* profiles that ask for the scanner's sources and, to the rounding, for what it
\* offers.
TablesAreRight == OperatorsTablesKept /\ GeneratedIsOffered
=============================================================================
