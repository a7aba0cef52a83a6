---------------------------- MODULE DeviceSetup ----------------------------
(***************************************************************************)
(* How a pass sets up an open device before the first sheet moves          *)
(* (run_pass, _configure_device and _apply_paper_size of scan_session.py). *)
(*                                                                         *)
(* A source stands for its kind.  Which options a device lets a program    *)
(* write depends on the source and the mode it is set to, so the list of   *)
(* options that was read is a copy that the next write may make stale.     *)
(* The choice of one side or both outlives the handle: a pass may find     *)
(* what an earlier pass, or another program, left there.                   *)
(***************************************************************************)

CONSTANTS
    Offers,      \* what a device may list as its sources: sets of kinds
    Modes,       \* scan modes
    Resolutions, \* named, as no property adds or compares them
    Profiles     \* the settings passes are asked for

Kinds == {"FLATBED", "FEEDER", "FEEDER_DUPLEX", "AUTO", "UNKNOWN"}
Settings ==
    [source : Kinds, spelt : BOOLEAN, duplex : {"none", "manual", "hardware"},
     auto : BOOLEAN, mode : Modes, resolution : Resolutions, paper : BOOLEAN]

ASSUME SetupAssumption ==
    /\ Offers \subseteq SUBSET Kinds /\ Modes # {} /\ Resolutions # {}
    /\ Profiles \subseteq Settings

UsesFeeder(kind) == kind \in {"FEEDER", "FEEDER_DUPLEX"}

VARIABLES
    model,     \* what the device can do; it does not change
    dev,       \* the values its options hold
    step,      \* where the pass is
    settings,  \* ScanSettings
    choice,    \* _SourceChoice: the source to set, or NoChoice
    listed,    \* the option list that was read: which options can be written
    read,      \* the resolution read back
    useAdf,
    framing    \* _PageFraming: the paper's size or the whole, and whether it is set

setupVars == <<model, dev, step, settings, choice, listed, read, useAdf, framing>>

NoChoice == "none"
Whole == [paper |-> FALSE, set |-> TRUE]

AllModels ==
    [option : {"absent", "unreadable", "listed"}, list : Offers \cup {{}},
     adf : {"absent", "fixed", "choice"},   \* adf-mode, and whether it lists both modes
     page : BOOLEAN,                        \* page-width and page-height
     unit : {"mm", "pixel", "none"},        \* of the scan area
     deep : SUBSET Modes]                   \* the modes in which depth is a choice
Models == {m \in AllModels : m.option = "listed" <=> m.list # {}}

\* What the device reports of itself now.
Reported(d) ==
    [adf |-> model.adf # "absent" /\ d.source # "FLATBED",
     page |-> model.page /\ d.source # "FLATBED",
     depth |-> d.mode \in model.deep]

NoSettings ==
    [source |-> "UNKNOWN", spelt |-> FALSE, duplex |-> "none", auto |-> FALSE,
     mode |-> CHOOSE m \in Modes : TRUE, resolution |-> CHOOSE r \in Resolutions : TRUE,
     paper |-> FALSE]
NoneListed == [adf |-> FALSE, page |-> FALSE, depth |-> FALSE]

\* The values of a handle that has just been opened: the device's own.
Opened(adf) ==
    [source : IF model.option = "absent" THEN {"FLATBED", "FEEDER"} ELSE {"FLATBED"},
     adf : {adf}, mode : Modes, depth : {"8"}, res : {NoSettings.resolution},
     area : {"whole"}, page : {"whole"}]

SetupInit ==
    /\ model \in Models
    /\ \E adf \in {"simplex", "duplex"} : dev = CHOOSE d \in Opened(adf) : TRUE
    /\ step = "out" /\ settings = NoSettings
    /\ choice = NoChoice /\ listed = NoneListed /\ read = NoSettings.resolution
    /\ useAdf = FALSE /\ framing = Whole

\* Back at rest, the handle closed; one side or both is left as adf.
AtRest(adf) ==
    /\ step' = "out" /\ settings' = NoSettings
    /\ choice' = NoChoice /\ listed' = NoneListed /\ read' = NoSettings.resolution
    /\ useAdf' = FALSE /\ framing' = Whole
    /\ dev' = CHOOSE d \in Opened(adf) : TRUE
    /\ UNCHANGED model

Advance(from, to) == step = from /\ step' = to
Kept == UNCHANGED <<model, settings>>

-----------------------------------------------------------------------------
(* run_pass: open, read the options, resolve the source *)

Begin(s) ==
    /\ Advance("out", "resolve")
    /\ settings' = s
    /\ \E d \in Opened(dev.adf) : dev' = d
    /\ listed' = Reported(dev')
    /\ UNCHANGED <<model, choice, read, useAdf, framing>>

(* _resolve_manual_duplex_source: a feeder that scans one side, or no pass. *)
OneSidedFeeder == model.list \cap {"FEEDER"}
ManualChoices ==
    CASE model.option = "absent" /\ UsesFeeder(settings.source) -> {NoChoice}
      [] model.option = "unreadable" -> {settings.source} \cap {"FEEDER"}
      [] OTHER -> OneSidedFeeder
(* _resolve_source: the name as the device spells it; a flatbed it does not
   offer may be its automatic source. *)
Named == IF settings.spelt THEN {settings.source} \cap model.list ELSE {}
Substitute ==
    IF settings.source = "FLATBED" /\ "FLATBED" \notin model.list
    THEN model.list \cap {"AUTO"} ELSE {}
PlainChoices ==
    CASE model.option = "absent" -> {NoChoice}
      [] model.option = "unreadable" -> {settings.source}
      [] model.option = "listed" -> IF Named # {} THEN Named ELSE Substitute

Resolve ==
    /\ Advance("resolve", "source")
    /\ choice' \in IF settings.duplex = "manual" THEN ManualChoices ELSE PlainChoices
    /\ UNCHANGED <<dev, listed, read, useAdf, framing>> /\ Kept

\* What the pass takes the source to be: the one set, or the one asked for.
Effective == IF choice = NoChoice THEN settings.source ELSE choice

-----------------------------------------------------------------------------
(* _configure_device: source, adf-mode, mode, depth, resolution *)

\* With no source option the device feeds from where it feeds.
Feeding == IF choice = NoChoice THEN dev.source ELSE choice
SetSourceUnread ==
    /\ Advance("source", "adf")
    /\ dev' = [dev EXCEPT !.source = Feeding, !.area = "whole"]
    /\ UNCHANGED <<listed, choice, read, useAdf, framing>> /\ Kept
SetSource ==
    /\ Advance("source", "adf")
    /\ dev' = [dev EXCEPT !.source = Feeding, !.area = "whole"]
    /\ listed' = IF choice = NoChoice THEN listed ELSE Reported(dev')
    /\ UNCHANGED <<choice, read, useAdf, framing>> /\ Kept

\* _adf_mode_value: hardware duplex asks in any case, so that a feeder that
\* cannot do it refuses before any paper moves.
AdfValue ==
    IF model.adf = "absent" THEN dev.adf
    ELSE IF settings.duplex = "hardware" THEN "duplex"
    ELSE IF listed.adf /\ model.adf = "choice" THEN "simplex" ELSE dev.adf
AdfAllows(value) == value = dev.adf \/ (Reported(dev).adf /\ model.adf = "choice")
SetAdfMode ==
    /\ Advance("adf", "mode")
    /\ AdfAllows(AdfValue)
    /\ dev' = [dev EXCEPT !.adf = AdfValue]
    /\ UNCHANGED <<listed, choice, read, useAdf, framing>> /\ Kept

\* A mode change reloads the option descriptors, and may change the depth.
SetMode ==
    /\ Advance("mode", "depth")
    /\ \E d \in {"8", "16"} :
          dev' = [dev EXCEPT !.mode = settings.mode, !.depth = d, !.area = "whole"]
    /\ listed' = Reported(dev')
    /\ UNCHANGED <<choice, read, useAdf, framing>> /\ Kept

SetDepth ==
    /\ Advance("depth", "resolution")
    /\ dev' = IF listed.depth THEN [dev EXCEPT !.depth = "8"] ELSE dev
    /\ UNCHANGED <<listed, choice, read, useAdf, framing>> /\ Kept

SetResolutionUnread ==
    /\ Advance("resolution", "route")
    /\ \E r \in Resolutions : dev' = [dev EXCEPT !.res = r, !.area = "whole"]
    /\ read' = settings.resolution
    /\ UNCHANGED <<listed, choice, useAdf, framing>> /\ Kept
\* SANE substitutes a resolution silently, so it is read back.
SetResolution ==
    /\ Advance("resolution", "route")
    /\ \E r \in Resolutions : dev' = [dev EXCEPT !.res = r, !.area = "whole"]
    /\ read' = dev'.res
    /\ UNCHANGED <<listed, choice, useAdf, framing>> /\ Kept
\* A refusal of the request, or by the device, ends the pass as a ScanError.
Refusal ==
    /\ step \in {"resolve", "source", "adf", "mode", "depth", "resolution", "parameters"}
    /\ AtRest(dev.adf)

-----------------------------------------------------------------------------
(* _route and _apply_paper_size *)

Route ==
    /\ Advance("route", "paper")
    /\ useAdf' = IF Effective = "AUTO" THEN settings.auto ELSE UsesFeeder(Effective)
    /\ UNCHANGED <<dev, listed, choice, read, framing>> /\ Kept

\* The paper's size in the device's units.
Length == IF model.unit = "pixel" THEN read ELSE model.unit
Convertible == model.unit # "none"

Frame(f) == framing' = f /\ step' = "parameters"

\* No paper was chosen, or it is not known where the feeder puts the sheet.
LeaveWhole ==
    /\ step = "paper"
    /\ ~settings.paper \/ (useAdf /\ ~listed.page)
    /\ Frame(Whole)
    /\ UNCHANGED <<dev, listed, choice, read, useAdf>> /\ Kept
\* _set_page_size: what of it was written when the device refused it, and a size
\* the device clamps without a word.  Nothing reads it back.
SetPageSize ==
    /\ step = "paper" /\ settings.paper /\ useAdf /\ listed.page
    /\ \/ /\ Convertible /\ Reported(dev).page
          /\ \E p \in {Length, "clamped"} : dev' = [dev EXCEPT !.page = p]
          /\ step' = "geometry" /\ UNCHANGED framing
       \/ /\ Frame(Whole)
          /\ dev' \in {dev, [dev EXCEPT !.page = "partial"]}
    /\ UNCHANGED <<listed, choice, read, useAdf>> /\ Kept
OnTheGlass ==
    /\ Advance("paper", "geometry") /\ settings.paper /\ ~useAdf
    /\ UNCHANGED <<dev, listed, choice, read, useAdf, framing>> /\ Kept

(* _set_geometry: the device may refuse the area, or clamp it without a word. *)
WriteArea ==
    /\ step = "geometry" /\ Convertible
    /\ \E a \in {Length, "clamped"} : dev' = [dev EXCEPT !.area = a]
    /\ step' = "check area"
    /\ UNCHANGED <<listed, choice, read, useAdf, framing>> /\ Kept
AreaFails ==
    /\ step = "geometry"
    /\ Frame([paper |-> TRUE, set |-> FALSE])
    /\ dev' \in {dev, [dev EXCEPT !.area = "partial"]}
    /\ UNCHANGED <<listed, choice, read, useAdf>> /\ Kept
CheckArea ==
    /\ step = "check area"
    /\ Frame([paper |-> TRUE, set |-> dev.area = Length])
    /\ UNCHANGED <<dev, listed, choice, read, useAdf>> /\ Kept

ReadParameters ==
    /\ step = "parameters"
    /\ \/ dev.depth = "16" /\ AtRest(dev.adf)
       \/ /\ dev.depth = "8" /\ step' = "ready"
          /\ UNCHANGED <<dev, listed, choice, read, useAdf, framing>> /\ Kept
\* The pass ends, and another program may choose one side or both.
SetupEnds ==
    /\ step = "ready"
    /\ \E adf \in {dev.adf} \cup (IF model.adf = "choice" THEN {"simplex", "duplex"} ELSE {}) :
          AtRest(adf)

SetupNext ==
    \/ \E s \in Profiles : Begin(s)
    \/ Resolve \/ SetSource \/ SetAdfMode \/ SetMode \/ SetDepth
    \/ SetResolution \/ Refusal \/ Route \/ LeaveWhole \/ SetPageSize
    \/ OnTheGlass \/ WriteArea \/ AreaFails \/ CheckArea \/ ReadParameters
    \/ SetupEnds

SetupSpec == SetupInit /\ [][SetupNext]_setupVars

-----------------------------------------------------------------------------
(* Properties *)

Ready == step = "ready"

\* No pass scans other sides of a sheet than it was asked for where the device
\* leaves a choice, whatever an earlier pass left behind: a manual duplex pass
\* that scanned both would return every page twice.
SidesAsAsked ==
    Ready =>
        /\ settings.duplex = "manual" /\ model.option # "absent" => dev.source = "FEEDER"
        /\ model.adf = "choice" /\ Reported(dev).adf =>
              (dev.adf = "duplex" <=> settings.duplex = "hardware")

\* A page is cut to the paper only where the sheet is known to lie.  It is left
\* uncut only if the area the device holds is that paper at the resolution it
\* really uses, whatever it substituted or clamped.  Of the page size of a feeder,
\* which is not read back, only this is claimed: it was asked for whole, and at
\* that resolution; a clamp of it goes unnoticed.
Exact(length) == IF model.unit = "pixel" THEN length = dev.res ELSE length = model.unit
FramingIsTrue ==
    Ready =>
        /\ framing.paper /\ framing.set => Exact(dev.area)
        /\ framing.paper /\ useAdf => Exact(dev.page) \/ dev.page = "clamped"
        /\ settings.paper /\ ~framing.paper => useAdf
=============================================================================
