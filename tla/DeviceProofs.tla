---------------------------- MODULE DeviceProofs ----------------------------
(***************************************************************************)
(* Proofs about the device: how a pass sets it up (DeviceSetup), and the   *)
(* session that runs the process which holds it (ScanChild).               *)
(***************************************************************************)
EXTENDS DeviceSetup, ScanChild, TLAPS

-----------------------------------------------------------------------------
(* How a pass sets up the device: SidesAsAsked and FramingIsTrue.          *)

Steps == {"out", "resolve", "source", "adf", "mode", "depth", "resolution", "route",
          "paper", "geometry", "check area", "parameters", "ready"}
Values == [source : Kinds, adf : {"simplex", "duplex"}, mode : Modes,
           depth : {"8", "16"}, res : Resolutions,
           area : Resolutions \cup {"whole", "mm", "pixel", "none", "clamped", "partial"},
           page : Resolutions \cup {"whole", "mm", "pixel", "none", "partial", "clamped"}]

SetupTypes ==
    /\ model \in Models /\ dev \in Values /\ step \in Steps
    /\ settings \in Settings /\ choice \in Kinds \cup {NoChoice}
    /\ listed \in [adf : BOOLEAN, page : BOOLEAN, depth : BOOLEAN]
    /\ read \in Resolutions /\ useAdf \in BOOLEAN
    /\ framing \in [paper : BOOLEAN, set : BOOLEAN]

\* Where the pass has got to.
Asking == {"source", "adf", "mode", "depth", "resolution", "route", "paper", "geometry",
           "check area", "parameters", "ready"}
Sourced == Asking \ {"source"}
Sided == Sourced \ {"adf"}
Resolved == {"route", "paper", "geometry", "check area", "parameters", "ready"}

\* A manual duplex pass takes a feeder of one side wherever it may choose, and
\* the device is set to what was chosen.
SourceIsChosen ==
    /\ step \in Asking /\ settings.duplex = "manual" /\ model.option # "absent" =>
            choice = "FEEDER"
    /\ step \in Sourced /\ choice # NoChoice => dev.source = choice

\* What was read of adf-mode is what the device reports, until it is written.
AdfIsFresh ==
    /\ step \in {"resolve", "source", "adf"} => listed.adf = Reported(dev).adf
    /\ step \in Sided /\ model.adf = "choice" /\ Reported(dev).adf =>
            (dev.adf = "duplex" <=> settings.duplex = "hardware")

\* The paper is measured at the resolution the device uses, and what is known
\* of the frame is so on the device.
FrameIsKnown ==
    /\ step \in Resolved => read = dev.res
    /\ step \in {"geometry", "check area"} =>
            settings.paper /\ (useAdf => dev.page \in {Length, "clamped"})
    /\ step \in {"parameters", "ready"} =>
            /\ framing.paper /\ framing.set => dev.area = Length
            /\ framing.paper /\ useAdf => dev.page \in {Length, "clamped"}
            /\ settings.paper /\ ~framing.paper => useAdf

SetupInv == SetupTypes /\ SourceIsChosen /\ AdfIsFresh /\ FrameIsKnown

\* A handle that has just been opened can have every mode, and one side or
\* both as it was left.
LEMMA OpenedHandle ==
    ASSUME SetupTypes, NEW adf \in {"simplex", "duplex"}
    PROVE  Opened(adf) # {} /\ Opened(adf) \subseteq Values
<1>1. Modes # {} /\ Resolutions # {}
  BY SetupAssumption
<1>2. NoSettings.mode \in Modes /\ NoSettings.resolution \in Resolutions
  BY <1>1 DEF NoSettings
<1> DEFINE d == [source |-> "FLATBED", adf |-> adf, mode |-> NoSettings.mode, depth |-> "8",
                 res |-> NoSettings.resolution, area |-> "whole", page |-> "whole"]
<1>3. d \in Opened(adf)
  BY <1>2 DEF Opened
<1>4. Opened(adf) \subseteq Values
  BY <1>2 DEF Opened, Values, Kinds
<1> QED
  BY <1>3, <1>4

\* The settings of a pass that has not begun are settings.
LEMMA NoSettingsAreSettings == NoSettings \in Settings
<1>1. Modes # {} /\ Resolutions # {}
  BY SetupAssumption
<1> QED
  BY <1>1 DEF NoSettings, Settings, Kinds

\* A device at rest owes nothing to the pass before.
LEMMA RestStep ==
    ASSUME SetupTypes, NEW adf \in {"simplex", "duplex"}, AtRest(adf)
    PROVE  SetupInv'
<1>1. dev' \in Values
  BY OpenedHandle DEF AtRest
<1>2. NoSettings \in Settings /\ NoSettings.resolution \in Resolutions
  BY NoSettingsAreSettings DEF Settings
<1>3. SetupTypes'
  BY <1>1, <1>2 DEF SetupTypes, AtRest, NoneListed, Whole, Steps
<1> QED
  BY <1>3 DEF SetupInv, SourceIsChosen, AdfIsFresh, FrameIsKnown, AtRest, Asking, Sourced,
     Sided, Resolved

\* No pass has begun at first.
LEMMA SetupStarts == SetupInit => SetupInv
<1> SUFFICES ASSUME SetupInit PROVE SetupInv
  OBVIOUS
<1>0. PICK adf \in {"simplex", "duplex"} : dev = CHOOSE d \in Opened(adf) : TRUE
  BY DEF SetupInit
<1>1. NoSettings \in Settings /\ NoSettings.resolution \in Resolutions
  BY NoSettingsAreSettings DEF Settings
<1>2. Modes # {}
  BY SetupAssumption
<1>3. PICK m \in Modes : TRUE
  BY <1>2
<1>4. [source |-> "FLATBED", adf |-> adf, mode |-> m, depth |-> "8",
       res |-> NoSettings.resolution, area |-> "whole", page |-> "whole"] \in Opened(adf)
  BY DEF Opened
<1>5. dev \in Opened(adf)
  BY <1>0, <1>4
<1>6. dev \in Values
  BY <1>1, <1>5 DEF Opened, Values, Kinds
<1>7. SetupTypes
  BY <1>1, <1>6 DEF SetupTypes, SetupInit, NoneListed, Whole, Steps
<1> QED
  BY <1>7 DEF SetupInv, SourceIsChosen, AdfIsFresh, FrameIsKnown, SetupInit, Asking,
     Sourced, Sided, Resolved

\* Opening the device and choosing its source set nothing that was chosen.
LEMMA ChoosingStep ==
    ASSUME SetupInv, (\E s \in Profiles : Begin(s)) \/ Resolve
    PROVE  SetupInv'
<1> USE DEF SetupInv, SetupTypes
<1>1. CASE \E s \in Profiles : Begin(s)
  <2>1. PICK s \in Profiles : Begin(s)
    BY <1>1
  <2>2. s \in Settings
    BY SetupAssumption
  <2>3. dev.adf \in {"simplex", "duplex"}
    BY DEF Values
  <2>4. dev' \in Values
    BY <2>1, <2>3, OpenedHandle DEF Begin
  <2>5. listed' = Reported(dev)'
    BY <2>1 DEF Begin, Reported
  <2>6. SetupTypes'
    BY <2>1, <2>2, <2>4, <2>5 DEF Begin, Advance, Steps, Reported
  <2>7. step' = "resolve"
    BY <2>1 DEF Begin, Advance
  <2> QED
    BY <2>5, <2>6, <2>7 DEF SourceIsChosen, AdfIsFresh, FrameIsKnown, Asking, Sourced,
       Sided, Resolved, Reported
<1>2. CASE Resolve
  <2>1. model.list \subseteq Kinds
    BY SetupAssumption DEF Models, AllModels
  <2>2. choice' \in Kinds \cup {NoChoice}
    <3>1. settings.source \in Kinds
      BY DEF Settings
    <3>2. ManualChoices \subseteq Kinds \cup {NoChoice}
      BY <2>1, <3>1 DEF ManualChoices, OneSidedFeeder, UsesFeeder
    <3>3. PlainChoices \subseteq Kinds \cup {NoChoice}
      <4>1. Named \subseteq Kinds /\ Substitute \subseteq Kinds
        BY <2>1, <3>1 DEF Named, Substitute
      <4>2. model.option \in {"absent", "unreadable", "listed"}
        BY DEF Models, AllModels
      <4> QED
        BY <3>1, <4>1, <4>2 DEF PlainChoices
    <3> QED
      BY <1>2, <3>2, <3>3 DEF Resolve
  <2>3. settings.duplex = "manual" /\ model.option # "absent" => choice' = "FEEDER"
    BY <1>2, <2>1 DEF Resolve, ManualChoices, OneSidedFeeder, UsesFeeder
  <2>4. /\ step = "resolve" /\ step' = "source"
        /\ UNCHANGED <<dev, listed, read, useAdf, framing, model, settings>>
    BY <1>2 DEF Resolve, Advance, Kept
  <2> QED
    BY <2>2, <2>3, <2>4 DEF Steps, SourceIsChosen, AdfIsFresh, FrameIsKnown, Asking,
       Sourced, Sided, Resolved, Reported
<1> QED
  BY <1>1, <1>2

\* The source is set as it was chosen, and adf-mode as the pass was asked for,
\* by what the device reported after the source was set.
LEMMA SidesStep ==
    ASSUME SetupInv, SetSource \/ SetAdfMode
    PROVE  SetupInv'
<1> USE DEF SetupInv, SetupTypes
<1>1. CASE SetSource
  <2>1. Feeding \in Kinds
    BY DEF Feeding, Values
  <2>2. dev' \in Values /\ dev' = [dev EXCEPT !.source = Feeding, !.area = "whole"]
    BY <1>1, <2>1 DEF SetSource, Values
  <2>3. /\ step = "source" /\ step' = "adf"
        /\ UNCHANGED <<choice, read, useAdf, framing, model, settings>>
    BY <1>1 DEF SetSource, Advance, Kept
  <2>4. dev'.source = Feeding /\ dev'.adf = dev.adf /\ dev'.mode = dev.mode
    BY <2>2 DEF Values
  <2>5. /\ choice # NoChoice => dev'.source = choice
        /\ choice = NoChoice => dev'.source = dev.source
    BY <2>4 DEF Feeding
  <2>6. listed' \in [adf : BOOLEAN, page : BOOLEAN, depth : BOOLEAN]
    BY <1>1, <2>2 DEF SetSource, Reported
  <2>7. listed'.adf = Reported(dev)'.adf
    <3>1. CASE choice = NoChoice
      <4>1. listed' = listed
        BY <1>1, <3>1 DEF SetSource
      <4> QED
        BY <2>3, <2>5, <3>1, <4>1 DEF AdfIsFresh, Reported
    <3>2. CASE choice # NoChoice
      BY <1>1, <2>3, <3>2 DEF SetSource, Reported
    <3> QED
      BY <3>1, <3>2
  <2>8. SetupTypes' /\ SourceIsChosen'
    BY <2>2, <2>3, <2>5, <2>6 DEF Steps, SourceIsChosen, Asking, Sourced
  <2>9. AdfIsFresh' /\ FrameIsKnown'
    BY <2>3, <2>7 DEF AdfIsFresh, FrameIsKnown, Sided, Sourced, Asking, Resolved
  <2> QED
    BY <2>8, <2>9
<1>2. CASE SetAdfMode
  <2>1. AdfValue \in {"simplex", "duplex"}
    BY DEF AdfValue, Values
  <2>2. dev' \in Values /\ dev' = [dev EXCEPT !.adf = AdfValue]
    BY <1>2, <2>1 DEF SetAdfMode, Values
  <2>3. /\ step = "adf" /\ step' = "mode"
        /\ UNCHANGED <<listed, choice, read, useAdf, framing, model, settings>>
    BY <1>2 DEF SetAdfMode, Advance, Kept
  <2>4. dev'.source = dev.source /\ dev'.adf = AdfValue
    BY <2>2 DEF Values
  <2>5. Reported(dev)'.adf = listed.adf
    BY <2>3, <2>4 DEF AdfIsFresh, Reported
  <2>6. model.adf = "choice" /\ listed.adf =>
            (AdfValue = "duplex" <=> settings.duplex = "hardware")
    BY DEF AdfValue
  <2>7. SetupTypes' /\ SourceIsChosen'
    BY <2>2, <2>3, <2>4 DEF Steps, SourceIsChosen, Asking, Sourced
  <2>8. AdfIsFresh' /\ FrameIsKnown'
    BY <2>3, <2>4, <2>5, <2>6 DEF AdfIsFresh, FrameIsKnown, Sided, Sourced, Asking, Resolved
  <2> QED
    BY <2>7, <2>8
<1> QED
  BY <1>1, <1>2

\* Setting the mode, the depth and the resolution moves neither the source nor
\* the sides, and the resolution is read back.
LEMMA QualityStep ==
    ASSUME SetupInv, SetMode \/ SetDepth \/ SetResolution \/ Route
    PROVE  SetupInv'
<1> USE DEF SetupInv, SetupTypes
<1>1. CASE SetMode
  <2>1. PICK d \in {"8", "16"} :
            dev' = [dev EXCEPT !.mode = settings.mode, !.depth = d, !.area = "whole"]
    BY <1>1 DEF SetMode
  <2>2. dev' \in Values /\ dev'.source = dev.source /\ dev'.adf = dev.adf
    BY <2>1 DEF Values, Settings
  <2>3. /\ step = "mode" /\ step' = "depth"
        /\ UNCHANGED <<choice, read, useAdf, framing, model, settings>>
    BY <1>1 DEF SetMode, Advance, Kept
  <2>4. listed' \in [adf : BOOLEAN, page : BOOLEAN, depth : BOOLEAN]
    BY <1>1 DEF SetMode, Reported
  <2> QED
    BY <2>2, <2>3, <2>4 DEF Steps, SourceIsChosen, AdfIsFresh, FrameIsKnown, Asking,
       Sourced, Sided, Resolved, Reported
<1>2. CASE SetDepth
  <2>1. dev' \in Values /\ dev'.source = dev.source /\ dev'.adf = dev.adf
    BY <1>2 DEF SetDepth, Values
  <2>2. /\ step = "depth" /\ step' = "resolution"
        /\ UNCHANGED <<listed, choice, read, useAdf, framing, model, settings>>
    BY <1>2 DEF SetDepth, Advance, Kept
  <2> QED
    BY <2>1, <2>2 DEF Steps, SourceIsChosen, AdfIsFresh, FrameIsKnown, Asking, Sourced,
       Sided, Resolved, Reported
<1>3. CASE SetResolution
  <2>1. PICK r \in Resolutions : dev' = [dev EXCEPT !.res = r, !.area = "whole"]
    BY <1>3 DEF SetResolution
  <2>2. dev' \in Values /\ dev'.source = dev.source /\ dev'.adf = dev.adf /\ dev'.res = r
    BY <2>1 DEF Values
  <2>3. /\ step = "resolution" /\ step' = "route" /\ read' = dev'.res
        /\ UNCHANGED <<listed, choice, useAdf, framing, model, settings>>
    BY <1>3 DEF SetResolution, Advance, Kept
  <2> QED
    BY <2>2, <2>3 DEF Steps, SourceIsChosen, AdfIsFresh, FrameIsKnown, Asking, Sourced,
       Sided, Resolved, Reported
<1>4. CASE Route
  <2>1. /\ step = "route" /\ step' = "paper"
        /\ UNCHANGED <<dev, listed, choice, read, framing, model, settings>>
    BY <1>4 DEF Route, Advance, Kept
  <2>2. useAdf' \in BOOLEAN
    <3>1. settings.auto \in BOOLEAN
      BY DEF Settings
    <3>2. UsesFeeder(Effective) \in BOOLEAN
      BY DEF UsesFeeder
    <3>3. useAdf' = settings.auto \/ useAdf' = UsesFeeder(Effective)
      BY <1>4 DEF Route
    <3> QED
      BY <3>1, <3>2, <3>3
  <2> QED
    BY <2>1, <2>2 DEF Steps, SourceIsChosen, AdfIsFresh, FrameIsKnown, Asking, Sourced,
       Sided, Resolved, Reported
<1> QED
  BY <1>1, <1>2, <1>3, <1>4

\* A step that changes only the size of the sheet, the area and the framing
\* keeps what is known of the source and the sides.
LEMMA FramingKeeps ==
    ASSUME SetupInv, dev' \in Values, dev'.source = dev.source, dev'.adf = dev.adf,
           UNCHANGED <<choice, listed, model, settings>>,
           step \in Resolved, step' \in Resolved
    PROVE  SourceIsChosen' /\ AdfIsFresh'
BY DEF SetupInv, SourceIsChosen, AdfIsFresh, Reported, Resolved, Asking, Sourced, Sided

\* A page is framed only by an area that was written to the device and read back,
\* and by a page size that was written.
LEMMA FramingStep ==
    ASSUME SetupInv,
           LeaveWhole \/ SetPageSize \/ OnTheGlass \/ WriteArea \/ AreaFails \/ CheckArea
    PROVE  SetupInv'
<1> USE DEF SetupInv, SetupTypes
<1>l. Length \in Resolutions \cup {"mm", "pixel", "none"}
  BY DEF Length, Models, AllModels
<1>1. CASE LeaveWhole
  <2>1. /\ step = "paper" /\ step' = "parameters" /\ framing' = Whole
        /\ ~settings.paper \/ useAdf
        /\ UNCHANGED <<dev, listed, choice, read, useAdf, model, settings>>
    BY <1>1 DEF LeaveWhole, Frame, Kept
  <2>2. SourceIsChosen' /\ AdfIsFresh'
    BY <2>1, FramingKeeps DEF Resolved
  <2>3. FrameIsKnown'
    BY <2>1 DEF FrameIsKnown, Whole, Resolved
  <2> QED
    BY <2>1, <2>2, <2>3 DEF Steps, Whole
<1>2. CASE SetPageSize
  <2>1. CASE /\ \E p \in {Length, "clamped"} : dev' = [dev EXCEPT !.page = p]
             /\ step' = "geometry" /\ UNCHANGED framing
    <3>1. /\ dev' \in Values /\ dev'.source = dev.source /\ dev'.adf = dev.adf
          /\ dev'.res = dev.res /\ dev'.page \in {Length, "clamped"}
      BY <2>1, <1>l DEF Values
    <3>2. /\ step = "paper" /\ settings.paper
          /\ UNCHANGED <<listed, choice, read, useAdf, model, settings>>
      BY <1>2 DEF SetPageSize, Kept
    <3>3. SourceIsChosen' /\ AdfIsFresh'
      BY <2>1, <3>1, <3>2, FramingKeeps DEF Resolved
    <3>4. FrameIsKnown'
      BY <2>1, <3>1, <3>2 DEF FrameIsKnown, Resolved, Length
    <3> QED
      BY <2>1, <3>1, <3>2, <3>3, <3>4 DEF Steps
  <2>2. CASE Frame(Whole) /\ dev' \in {dev, [dev EXCEPT !.page = "partial"]}
    <3>1. /\ dev' \in Values /\ dev'.source = dev.source /\ dev'.adf = dev.adf
          /\ dev'.res = dev.res
      BY <2>2 DEF Values
    <3>2. /\ step = "paper" /\ step' = "parameters" /\ framing' = Whole /\ useAdf
          /\ UNCHANGED <<listed, choice, read, useAdf, model, settings>>
      BY <1>2, <2>2 DEF SetPageSize, Kept, Frame
    <3>3. SourceIsChosen' /\ AdfIsFresh'
      BY <3>1, <3>2, FramingKeeps DEF Resolved
    <3>4. FrameIsKnown'
      BY <3>1, <3>2 DEF FrameIsKnown, Whole, Resolved
    <3> QED
      BY <3>1, <3>2, <3>3, <3>4 DEF Steps, Whole
  <2> QED
    BY <1>2, <2>1, <2>2 DEF SetPageSize
<1>3. CASE OnTheGlass
  <2>1. /\ step = "paper" /\ step' = "geometry" /\ settings.paper /\ ~useAdf
        /\ UNCHANGED <<dev, listed, choice, read, useAdf, framing, model, settings>>
    BY <1>3 DEF OnTheGlass, Advance, Kept
  <2>2. SourceIsChosen' /\ AdfIsFresh'
    BY <2>1, FramingKeeps DEF Resolved
  <2>3. FrameIsKnown'
    BY <2>1 DEF FrameIsKnown, Resolved, Length
  <2> QED
    BY <2>1, <2>2, <2>3 DEF Steps
<1>4. CASE WriteArea
  <2>1. PICK a \in {Length, "clamped"} : dev' = [dev EXCEPT !.area = a]
    BY <1>4 DEF WriteArea
  <2>2. /\ dev' \in Values /\ dev'.source = dev.source /\ dev'.adf = dev.adf
        /\ dev'.res = dev.res /\ dev'.page = dev.page
    BY <2>1, <1>l DEF Values
  <2>3. /\ step = "geometry" /\ step' = "check area"
        /\ UNCHANGED <<listed, choice, read, useAdf, framing, model, settings>>
    BY <1>4 DEF WriteArea, Kept
  <2>4. SourceIsChosen' /\ AdfIsFresh'
    BY <2>2, <2>3, FramingKeeps DEF Resolved
  <2>5. FrameIsKnown'
    BY <2>2, <2>3 DEF FrameIsKnown, Resolved, Length
  <2> QED
    BY <2>2, <2>3, <2>4, <2>5 DEF Steps
<1>5. CASE AreaFails
  <2>1. /\ dev' \in Values /\ dev'.source = dev.source /\ dev'.adf = dev.adf
        /\ dev'.res = dev.res /\ dev'.page = dev.page
    BY <1>5 DEF AreaFails, Values
  <2>2. /\ step = "geometry" /\ step' = "parameters"
        /\ framing' = [paper |-> TRUE, set |-> FALSE]
        /\ UNCHANGED <<listed, choice, read, useAdf, model, settings>>
    BY <1>5 DEF AreaFails, Frame, Kept
  <2>3. SourceIsChosen' /\ AdfIsFresh'
    BY <2>1, <2>2, FramingKeeps DEF Resolved
  <2>4. FrameIsKnown'
    BY <2>1, <2>2 DEF FrameIsKnown, Resolved, Length
  <2> QED
    BY <2>1, <2>2, <2>3, <2>4 DEF Steps
<1>6. CASE CheckArea
  <2>1. /\ step = "check area" /\ step' = "parameters"
        /\ framing' = [paper |-> TRUE, set |-> dev.area = Length]
        /\ UNCHANGED <<dev, listed, choice, read, useAdf, model, settings>>
    BY <1>6 DEF CheckArea, Frame, Kept
  <2>2. SourceIsChosen' /\ AdfIsFresh'
    BY <2>1, FramingKeeps DEF Resolved
  <2>3. Length' = Length /\ dev'.area = dev.area
    BY <2>1 DEF Length
  <2>4. framing'.set => dev.area = Length
    BY <2>1
  <2>5. FrameIsKnown'
    BY <2>1, <2>3, <2>4 DEF FrameIsKnown, Resolved
  <2> QED
    BY <2>1, <2>2, <2>5 DEF Steps
<1> QED
  BY <1>1, <1>2, <1>3, <1>4, <1>5, <1>6

\* The inductive invariant of a device's set-up, for every device, every
\* setting and whatever an earlier pass left on the handle.
THEOREM SetupInvariant == SetupSpec => []SetupInv
<1>1. SetupInit => SetupInv
  BY SetupStarts
<1>2. SetupInv /\ [SetupNext]_setupVars => SetupInv'
  <2> SUFFICES ASSUME SetupInv, [SetupNext]_setupVars PROVE SetupInv'
    OBVIOUS
  <2>a. SetupTypes /\ dev.adf \in {"simplex", "duplex"}
    BY DEF SetupInv, SetupTypes, Values
  <2>1. CASE (\E s \in Profiles : Begin(s)) \/ Resolve
    BY <2>1, ChoosingStep
  <2>2. CASE SetSource \/ SetAdfMode
    BY <2>2, SidesStep
  <2>3. CASE SetMode \/ SetDepth \/ SetResolution \/ Route
    BY <2>3, QualityStep
  <2>4. CASE LeaveWhole \/ SetPageSize \/ OnTheGlass \/ WriteArea \/ AreaFails \/ CheckArea
    BY <2>4, FramingStep
  <2>5. CASE Refusal
    BY <2>5, <2>a, RestStep DEF Refusal
  <2>6. CASE ReadParameters
    <3>1. CASE AtRest(dev.adf)
      BY <2>a, <3>1, RestStep
    <3>2. CASE /\ step' = "ready"
               /\ UNCHANGED <<dev, listed, choice, read, useAdf, framing>> /\ Kept
      BY <2>6, <3>2 DEF ReadParameters, Kept, SetupInv, SetupTypes, Steps, SourceIsChosen,
         AdfIsFresh, FrameIsKnown, Asking, Sourced, Sided, Resolved, Reported, Length
    <3> QED
      BY <2>6, <3>1, <3>2 DEF ReadParameters
  <2>7. CASE SetupEnds
    <3>1. PICK adf \in {"simplex", "duplex"} : AtRest(adf)
      BY <2>7, <2>a DEF SetupEnds
    <3> QED
      BY <3>1, <2>a, RestStep
  <2>8. CASE UNCHANGED setupVars
    <3>1. SetupTypes'
      BY <2>8 DEF setupVars, SetupInv, SetupTypes
    <3>2. SourceIsChosen' /\ AdfIsFresh'
      BY <2>8 DEF setupVars, SetupInv, SourceIsChosen, AdfIsFresh, Reported
    <3>3. FrameIsKnown'
      BY <2>8 DEF setupVars, SetupInv, FrameIsKnown, Length
    <3> QED
      BY <3>1, <3>2, <3>3 DEF SetupInv
  <2> QED
    BY <2>1, <2>2, <2>3, <2>4, <2>5, <2>6, <2>7, <2>8 DEF SetupNext
<1> QED
  BY <1>1, <1>2, PTL DEF SetupSpec

\* No pass scans other sides of a sheet than it was asked for, where the device
\* leaves a choice and whatever an earlier pass left there.
THEOREM SidesAreAsked == SetupSpec => []SidesAsAsked
<1>1. SetupInv => SidesAsAsked
  BY DEF SetupInv, SetupTypes, SourceIsChosen, AdfIsFresh, SidesAsAsked, Ready, Asking,
     Sourced, Sided, NoChoice, Kinds
<1> QED
  BY <1>1, SetupInvariant, PTL

\* A page is cut to the paper only where the sheet is known to lie, and left
\* uncut only if the area the device holds is that paper (FramingIsTrue of the runs).
THEOREM FramesAreTrue == SetupSpec => []FramingIsTrue
<1>1. SetupInv => FramingIsTrue
  <2> SUFFICES ASSUME SetupInv, step = "ready" PROVE FramingIsTrue
    BY DEF FramingIsTrue, Ready
  <2>1. read = dev.res
    BY DEF SetupInv, FrameIsKnown, Resolved
  <2>2. \A length : length = Length => Exact(length)
    BY <2>1 DEF Exact, Length
  <2> QED
    BY <2>2 DEF SetupInv, FrameIsKnown, FramingIsTrue
<1> QED
  BY <1>1, SetupInvariant, PTL

-----------------------------------------------------------------------------
(* The scanning process and its session: the types, and the calls.         *)

Working == {"init", "idle", "restart", "open", "configure", "feed", "before start",
            "in start", "started", "to read", "before snap", "in snap", "snapped",
            "withdraw", "await", "leave", "close", "report"}
Tasks == {"scan", "restart", "spooled"}
Commands == Tasks \cup {"cancel", "stop", "exit", "end"}
Frames == {"ready", "restarted", "start", "cleanup", "page", "done", "capped", "error",
           "fatal", "bye"}
Cancels == {"cancel", "in cancel", "cancel done"}

QueueTypes ==
    /\ cmds \in Seq(Commands) /\ items \in Seq(Commands) /\ replies \in Seq(Frames)
    /\ control \in Cancels => pending \in {"cancel", "end"}
PlaceTypes ==
    /\ main \in Working \cup {"none", "gone"}
    /\ Alive <=> main \in Working
    /\ reading \in BOOLEAN /\ alarm \in BOOLEAN /\ cancelled \in BOOLEAN
    /\ hungUp \in BOOLEAN
    /\ route \in {"feeder", "flatbed"}
    /\ ending \in {"none", "done", "capped", "error", "fatal", "stopped"}
    /\ ending # "none" => main \in {"withdraw", "leave", "close", "report"}
CountTypes == sheets \in Nat /\ fed \in Nat /\ rejected \in Nat
PassTypes == QueueTypes /\ PlaceTypes /\ CountTypes

\* Where a call may block, or the handle is held in hand for one.
Timed == Working \ {"idle", "feed", "await", "leave"}
Published == {"before start", "in start", "started", "before snap", "in snap", "snapped",
              "withdraw"}
Holding == Published \cup {"configure", "feed", "to read", "await", "leave", "close"}

\* The alarm covers every call, the handle is published only while it is open,
\* and the control thread cancels only a handle that is published.
CallInv ==
    Alive =>
        /\ main \in Timed => alarm
        /\ main \in {"idle", "await"} => ~alarm
        /\ reading <=> main \in Published
        /\ control = "in cancel" => reading
        /\ main \in Holding => device # "closed"
        /\ cancelled /\ main \in {"in start", "in snap"} =>
                device = "cancelled" \/ control \in {"cancel", "in cancel"}

TakenTypes == records \in Nat /\ signals \in Nat
SessionTypes ==
    /\ TakenTypes
    /\ known \in BOOLEAN /\ live \in BOOLEAN /\ killSent \in BOOLEAN
    /\ slipped \in BOOLEAN
    /\ pp \in {"idle", "start", "wait", "sink", "stop", "drain", "end", "kill", "over"}
    /\ way \in {"in", "close", "died"}
    /\ pp = "stop" => asks \in {"cancel", "stop", "exit"}

\* What is sent joins the pipe of a child that is there.
LEMMA SendTypes ==
    ASSUME cmds \in Seq(Commands), NEW c \in Commands, Send(c)
    PROVE  cmds' \in Seq(Commands)
BY DEF Send

\* What joins a queue is a command, or a frame.
LEMMA QueueStep ==
    ASSUME QueueTypes
    PROVE  /\ <<>> \in Seq(Commands) /\ <<>> \in Seq(Frames)
           /\ items # <<>> => Tail(items) \in Seq(Commands) /\ Head(items) \in Commands
           /\ cmds # <<>> => Tail(cmds) \in Seq(Commands) /\ Head(cmds) \in Commands
           /\ replies # <<>> => Tail(replies) \in Seq(Frames) /\ Head(replies) \in Frames
           /\ \A frame \in Frames : Append(replies, frame) \in Seq(Frames)
           /\ \A c \in Commands : /\ Append(items, c) \in Seq(Commands)
                                  /\ Append(cmds, c) \in Seq(Commands)
BY DEF QueueTypes

\* The main thread keeps the types.
LEMMA MainTypes == PassTypes /\ MainStep => PassTypes'
<1> SUFFICES ASSUME PassTypes, MainStep PROVE PassTypes'
  OBVIOUS
<1>q. QueueTypes'
  <2> USE QueueStep DEF PassTypes, QueueTypes, PlaceTypes, Goes, Says, Silent, Exits, Check,
          pipes, threads, Cancels, Frames
  <2>1. CASE Initialise \/ Restart
    BY <2>1 DEF Initialise, Restart
  <2>2. CASE TakeCommand
    BY <2>2 DEF TakeCommand
  <2>3. CASE Open \/ Configure \/ NextSheet \/ PageRead
    BY <2>3 DEF Open, Configure, NextSheet, PageRead
  <2>4. CASE \/ StartSheet \/ SnapSheet \/ ReleaseOrStop \/ ReadStage \/ SnapReturns
             \/ Withdraw \/ StartReturns
    BY <2>4 DEF StartSheet, SnapSheet, ReleaseOrStop, ReadStage, SnapReturns, Withdraw,
       StartReturns
  <2>5. CASE PageAnswered
    BY <2>5 DEF PageAnswered
  <2>6. CASE Leave \/ Close
    BY <2>6 DEF Leave, Close
  <2>7. CASE Report
    BY <2>7 DEF Report
  <2> QED
    BY <2>1, <2>2, <2>3, <2>4, <2>5, <2>6, <2>7 DEF MainStep
<1>p. PlaceTypes'
  <2> USE DEF PassTypes, PlaceTypes, Alive, Goes, Exits, Publishes, Withdraws, Stops, Check,
          pipes, threads, tally, Working
  <2>1. CASE Initialise \/ Restart
    BY <2>1 DEF Initialise, Restart
  <2>2. CASE TakeCommand
    BY <2>2 DEF TakeCommand
  <2>3. CASE Open \/ Configure \/ NextSheet
    BY <2>3 DEF Open, Configure, NextSheet
  <2>4. CASE \/ StartSheet \/ SnapSheet \/ ReleaseOrStop \/ ReadStage \/ SnapReturns
             \/ Withdraw
    BY <2>4 DEF StartSheet, SnapSheet, ReleaseOrStop, ReadStage, SnapReturns, Withdraw
  <2>5. CASE StartReturns
    BY <2>5 DEF StartReturns
  <2>6. CASE PageRead
    BY <2>6 DEF PageRead
  <2>7. CASE PageAnswered
    BY <2>7 DEF PageAnswered
  <2>8. CASE Leave \/ Close
    BY <2>8 DEF Leave, Close
  <2>9. CASE Report
    BY <2>9 DEF Report
  <2> QED
    BY <2>1, <2>2, <2>3, <2>4, <2>5, <2>6, <2>7, <2>8, <2>9 DEF MainStep
<1>c. CountTypes'
  <2>n. CountTypes
    BY DEF PassTypes
  <2> USE DEF CountTypes, pipes, threads, tally
  <2>1. CASE TakeCommand
    <3>1. Sheets \in Nat
      BY PassAssumption
    <3>2. \A n \in 0 .. Sheets : n \in Nat
      BY <3>1
    <3>3. \/ sheets' \in 0 .. Sheets /\ fed' = 0 /\ rejected' = 0
          \/ UNCHANGED <<sheets, fed, rejected>>
      BY <2>1 DEF TakeCommand
    <3> QED
      BY <3>2, <3>3, <2>n
  <2>2. CASE StartReturns
    <3>1. (sheets > 0 /\ sheets' = sheets - 1) \/ sheets' = sheets
      BY <2>2 DEF StartReturns
    <3>2. fed' = fed /\ rejected' = rejected
      BY <2>2 DEF StartReturns
    <3> QED
      BY <3>1, <3>2, <2>n
  <2>3. CASE PageRead
    <3>1. /\ fed' = fed \/ fed' = fed + 1
          /\ rejected' = rejected \/ rejected' = rejected + 1
          /\ sheets' = sheets
      BY <2>3 DEF PageRead
    <3> QED
      BY <3>1, <2>n
  <2>4. CASE \/ StartSheet \/ SnapSheet \/ ReleaseOrStop \/ ReadStage \/ SnapReturns
             \/ Withdraw \/ PageAnswered \/ Leave \/ Close \/ Report
             \/ Initialise \/ Restart \/ Open \/ Configure \/ NextSheet
    <3>1. UNCHANGED <<sheets, fed, rejected>>
      BY <2>4 DEF StartSheet, SnapSheet, ReleaseOrStop, ReadStage, SnapReturns, Withdraw,
         PageAnswered, Leave, Close, Report, Initialise, Restart, Open, Configure,
         NextSheet, Check
    <3> QED
      BY <3>1, <2>n
  <2> QED
    BY <2>1, <2>2, <2>3, <2>4 DEF MainStep
<1> QED
  BY <1>q, <1>p, <1>c DEF PassTypes

\* So do the control thread and what ends the process from outside it.
LEMMA ControlTypes ==
    PassTypes /\ (ControlStep \/ InCancel \/ GraceExpires \/ Alarm \/ Crash) => PassTypes'
<1> SUFFICES ASSUME PassTypes,
                    ControlStep \/ InCancel \/ GraceExpires \/ Alarm \/ Crash
             PROVE  PassTypes'
  OBVIOUS
<1>q. QueueTypes'
  <2> USE QueueStep DEF PassTypes, QueueTypes, pipes, Cancels
  <2>1. CASE ReadCommand \/ ParentGone \/ CancelHandle \/ InCancel
    BY <2>1 DEF ReadCommand, ParentGone, CancelHandle, InCancel
  <2>2. CASE HandOver
    <3>1. pending \in Commands
      BY <2>2 DEF HandOver, Commands
    <3> QED
      BY <2>2, <3>1 DEF HandOver
  <2>3. CASE GraceExpires \/ Alarm \/ Crash
    BY <2>3 DEF GraceExpires, Alarm, Crash, Exits
  <2> QED
    BY <2>1, <2>2, <2>3 DEF ControlStep
<1>p. PlaceTypes'
  <2> USE DEF PassTypes, PlaceTypes, Alive, Exits, pipes, tally, Runs, Working
  <2>1. CASE ReadCommand \/ ParentGone \/ CancelHandle \/ InCancel \/ HandOver
    BY ZenonT(40), <2>1 DEF ReadCommand, ParentGone, CancelHandle, InCancel, HandOver
  <2>2. CASE GraceExpires \/ Alarm \/ Crash
    BY <2>2 DEF GraceExpires, Alarm, Crash
  <2> QED
    BY <2>1, <2>2 DEF ControlStep
<1>c. CountTypes'
  BY DEF PassTypes, CountTypes, ControlStep, ReadCommand, ParentGone, CancelHandle, InCancel,
     HandOver, GraceExpires, Alarm, Crash, tally
<1> QED
  BY <1>q, <1>p, <1>c DEF PassTypes

\* The main thread never makes a call without the alarm, and publishes and
\* withdraws the handle around its calls.
LEMMA MainCalls == PassTypes /\ CallInv /\ MainStep => CallInv'
<1> SUFFICES ASSUME PassTypes, CallInv, MainStep, Alive' PROVE CallInv'
  BY DEF CallInv
<1> USE DEF PassTypes, PlaceTypes, CallInv, Alive, Goes, Exits, Publishes, Withdraws, Unlocked, Stops,
        Check, threads, tally, Working, Timed, Published, Holding
<1>1. CASE Initialise \/ Restart
  BY <1>1 DEF Initialise, Restart
<1>2. CASE TakeCommand
  BY <1>2 DEF TakeCommand
<1>3. CASE Open \/ Configure \/ NextSheet
  BY <1>3 DEF Open, Configure, NextSheet
<1>4. CASE StartSheet \/ SnapSheet
  BY <1>4 DEF StartSheet, SnapSheet
<1>5. CASE ReleaseOrStop \/ ReadStage \/ SnapReturns \/ Withdraw \/ StartReturns
  BY <1>5 DEF ReleaseOrStop, ReadStage, SnapReturns, Withdraw, StartReturns
<1>6. CASE PageRead
  BY <1>6 DEF PageRead
<1>7. CASE PageAnswered
  BY <1>7 DEF PageAnswered
<1>8. CASE Leave \/ Close \/ Report
  BY <1>8 DEF Leave, Close, Report
<1> QED
  BY <1>1, <1>2, <1>3, <1>4, <1>5, <1>6, <1>7, <1>8 DEF MainStep

\* The control thread cancels a handle that is published, and so open.
LEMMA ControlCalls ==
    PassTypes /\ CallInv /\ (ControlStep \/ InCancel \/ GraceExpires \/ Alarm \/ Crash)
        => CallInv'
<1> SUFFICES ASSUME PassTypes, CallInv,
                    ControlStep \/ InCancel \/ GraceExpires \/ Alarm \/ Crash, Alive'
             PROVE  CallInv'
  BY DEF CallInv
<1> USE DEF PassTypes, PlaceTypes, CallInv, Alive, Exits, Runs
<1>1. CASE ReadCommand \/ ParentGone \/ CancelHandle \/ InCancel \/ HandOver
  BY <1>1 DEF ReadCommand, ParentGone, CancelHandle, InCancel, HandOver, Published, Holding
<1>2. CASE GraceExpires \/ Alarm \/ Crash
  BY <1>2 DEF GraceExpires, Alarm, Crash
<1> QED
  BY <1>1, <1>2 DEF ControlStep

\* What the session does of itself, or has done to it.
Owners ==
    \/ SessionStep \/ Deadline \/ Drained \/ CloseSession \/ SetAbort \/ Interrupt
    \/ InterruptStart \/ ProcessDies
core == <<child, main, threads, reading, device, alarm, ending>>

\* The session leaves its child alone, or starts another, or kills it.
LEMMA OwnersLeave ==
    ASSUME Owners
    PROVE  \/ UNCHANGED core
           \/ StartChild /\ Forks(FALSE)
           \/ InterruptStart /\ Forks(TRUE)
           \/ Kill /\ Alive /\ Exits("killed")
<1> USE DEF core, threads, held, childVars, pipes, tally
<1>1. CASE SessionStep
  <2>1. CASE AskScan \/ AskRestart \/ StartFails \/ StageNoted \/ GotReady \/ GotAnswer
    BY <2>1 DEF AskScan, AskRestart, StartFails, StageNoted, GotReady, GotAnswer
  <2>2. CASE GotFatal \/ GotPage \/ Spool \/ SpoolFails \/ Aborted \/ ChildGone
    BY <2>2 DEF GotFatal, GotPage, Spool, SpoolFails, Aborted, ChildGone
  <2>3. CASE SendStop \/ MarkKill \/ Reap
    BY <2>3 DEF SendStop, MarkKill, Reap
  <2>4. CASE Kill
    BY <2>4 DEF Kill
  <2>5. CASE StartChild
    BY <2>5 DEF StartChild
  <2> QED
    BY <1>1, <2>1, <2>2, <2>3, <2>4, <2>5 DEF SessionStep
<1>2. CASE Deadline \/ Drained \/ CloseSession \/ SetAbort \/ Interrupt \/ ProcessDies
  BY <1>2 DEF Deadline, Drained, CloseSession, SetAbort, Interrupt, ProcessDies
<1>3. CASE InterruptStart
  BY <1>3 DEF InterruptStart
<1> QED
  BY <1>1, <1>2, <1>3 DEF Owners

\* The session sends commands, takes replies from their head, or drops both.
LEMMA OwnersQueues ==
    ASSUME PassTypes, SessionTypes, Owners
    PROVE  /\ cmds' \in Seq(Commands) /\ replies' \in Seq(Frames)
           /\ hungUp' \in BOOLEAN /\ route' \in {"feeder", "flatbed"}
           /\ sheets' \in Nat /\ fed' \in Nat /\ rejected' \in Nat
<1>q. QueueTypes /\ hungUp \in BOOLEAN /\ route \in {"feeder", "flatbed"}
      /\ sheets \in Nat /\ fed \in Nat /\ rejected \in Nat
  BY DEF PassTypes, PlaceTypes, CountTypes
<1>k. {"scan", "restart", "spooled", "cancel", "stop", "exit"} \subseteq Commands
  BY DEF Commands, Tasks
<1>s. \A c \in Commands : Send(c) => cmds' \in Seq(Commands)
  BY <1>q, SendTypes DEF QueueTypes
<1>c. cmds' \in Seq(Commands)
  <2>1. \/ cmds' = cmds \/ cmds' = <<>>
        \/ Send("scan") \/ Send("restart") \/ Send("spooled") \/ (pp = "stop" /\ Send(asks))
    BY DEF Owners, SessionStep, AskScan, AskRestart, StartChild, StartFails, StageNoted,
       GotReady, GotAnswer, GotFatal, GotPage, Spool, SpoolFails, Aborted, ChildGone, SendStop,
       MarkKill, Kill, Reap, Forget, Forks, Deadline, Drained, CloseSession, SetAbort,
       Interrupt, InterruptStart, ProcessDies, childVars, pipes
  <2>2. pp = "stop" => asks \in Commands
    BY <1>k DEF SessionTypes
  <2> QED
    BY <2>1, <2>2, <1>k, <1>s, <1>q, QueueStep DEF QueueTypes
<1>r. replies' \in Seq(Frames)
  <2>1. \/ replies' = replies \/ replies' = <<>>
        \/ replies # <<>> /\ replies' = Tail(replies)
    <3>1. CASE StageNoted \/ GotReady \/ GotAnswer \/ GotFatal \/ GotPage
      BY <3>1 DEF StageNoted, GotReady, GotAnswer, GotFatal, GotPage, TakesReply
    <3>2. CASE AskScan \/ AskRestart \/ StartChild \/ StartFails \/ Spool \/ SpoolFails
               \/ Aborted \/ ChildGone \/ SendStop \/ MarkKill \/ Kill \/ Reap
      BY <3>2 DEF AskScan, AskRestart, StartChild, StartFails, Spool, SpoolFails, Aborted,
         ChildGone, SendStop, MarkKill, Kill, Reap, Forget, Forks, childVars, pipes
    <3>3. CASE Deadline \/ Drained \/ CloseSession \/ SetAbort \/ Interrupt
               \/ InterruptStart \/ ProcessDies
      BY <3>3 DEF Deadline, Drained, CloseSession, SetAbort, Interrupt, InterruptStart,
         ProcessDies, Forks, childVars, pipes
    <3> QED
      BY <3>1, <3>2, <3>3 DEF Owners, SessionStep
  <2> QED
    BY <2>1, <1>q, QueueStep DEF QueueTypes
<1>t. \/ UNCHANGED tally
      \/ UNCHANGED <<route, sheets>> /\ fed' = 0 /\ rejected' = 0
      \/ route' = "feeder" /\ sheets' = 0 /\ fed' = 0 /\ rejected' = 0
  BY DEF Owners, SessionStep, AskScan, AskRestart, StartChild, StartFails, StageNoted,
     GotReady, GotAnswer, GotFatal, GotPage, Spool, SpoolFails, Aborted, ChildGone, SendStop,
     MarkKill, Kill, Reap, Forget, Forks, Deadline, Drained, CloseSession, SetAbort,
     Interrupt, InterruptStart, ProcessDies, childVars, tally
<1>h. hungUp' = hungUp \/ hungUp' = TRUE \/ hungUp' = FALSE
  BY DEF Owners, SessionStep, AskScan, AskRestart, StartChild, StartFails, StageNoted,
     GotReady, GotAnswer, GotFatal, GotPage, Spool, SpoolFails, Aborted, ChildGone, SendStop,
     MarkKill, Kill, Reap, Forget, Forks, Deadline, Drained, CloseSession, SetAbort,
     Interrupt, Unwinds, InterruptStart, ProcessDies, childVars, pipes
<1>o. route' \in {"feeder", "flatbed"} /\ sheets' \in Nat /\ fed' \in Nat /\ rejected' \in Nat
  BY <1>q, <1>t DEF tally
<1> QED
  BY <1>c, <1>r, <1>h, <1>o, <1>q

\* The session keeps the types of its child and the order of its calls.
LEMMA OwnersTypes ==
    ASSUME PassTypes, SessionTypes, CallInv, Owners
    PROVE  PassTypes' /\ CallInv'
<1>1. QueueTypes'
  <2>1. items' = items \/ items' = <<>>
    BY OwnersLeave DEF core, threads, Forks, Exits
  <2>2. \/ UNCHANGED <<control, pending>> \/ control' \in {"none", "gone"}
    BY OwnersLeave DEF core, threads, Forks, Exits
  <2> QED
    BY <2>1, <2>2, OwnersQueues, QueueStep DEF QueueTypes, PassTypes, Cancels
<1>2. CountTypes'
  BY OwnersQueues DEF CountTypes
<1>3. PlaceTypes' /\ CallInv'
  <2>0. PlaceTypes /\ CallInv /\ hungUp' \in BOOLEAN /\ route' \in {"feeder", "flatbed"}
    BY OwnersQueues DEF PassTypes
  <2>1. CASE UNCHANGED core
    BY <2>0, <2>1 DEF PlaceTypes, CallInv, core, threads, Alive
  <2>2. CASE \E orphaned : Forks(orphaned)
    BY <2>0, <2>2 DEF PlaceTypes, CallInv, Forks, Alive, Working, Timed, Published, Holding
  <2>3. CASE Exits("killed")
    BY <2>0, <2>3 DEF PlaceTypes, CallInv, Exits, Alive, Working
  <2> QED
    BY <2>1, <2>2, <2>3, OwnersLeave
<1> QED
  BY <1>1, <1>2, <1>3 DEF PassTypes

-----------------------------------------------------------------------------
(* The child in the session's hands: ChildIsAccountedFor.                  *)

OneSignal == signals >= 1
TwoSignals == signals >= 2

\* Who knows the child: the live event covers its life, a step of the session
\* that needs a child has one, and what one signal can leave of it.
OwnerInv ==
    /\ pp = "start" => ~known /\ live
    /\ known => live
    /\ ~known /\ pp # "start" => ~live
    /\ Alive /\ pp # "over" /\ ~slipped => known
    /\ known /\ pp # "over" => ~hungUp
    /\ pp \in {"wait", "sink", "stop", "drain", "end", "kill"} => known
    /\ pp \in {"idle", "start", "wait", "sink"} => way = "in"
    /\ pp # "over" => way \in {"in", "close"}
    /\ pp \in {"stop", "drain", "end", "kill"} => result # "batch"
    /\ pp = "idle" /\ result = "batch" => known
    /\ within = "last" /\ way = "in" => OneSignal
    /\ pp = "idle" /\ result = "signal" /\ known => TwoSignals
    /\ pp = "over" /\ way = "close" /\ result # "signal" => ~Alive \/ slipped

\* A step of the child starts no child and leaves the session alone.
LEMMA ChildKeepsOwner == OwnerInv /\ ChildStep /\ UNCHANGED parentVars => OwnerInv'
<1> SUFFICES ASSUME OwnerInv, ChildStep, UNCHANGED parentVars PROVE OwnerInv'
  OBVIOUS
<1>1. (child' = "alive" => child = "alive") /\ hungUp' = hungUp
  <2> USE DEF Exits, Goes, Alive, Check, pipes
  <2>1. CASE Initialise \/ Restart \/ TakeCommand \/ Open \/ Configure \/ NextSheet
    BY <2>1 DEF Initialise, Restart, TakeCommand, Open, Configure, NextSheet
  <2>2. CASE \/ StartSheet \/ SnapSheet \/ StartReturns \/ ReleaseOrStop \/ ReadStage
             \/ SnapReturns \/ Withdraw \/ PageRead \/ PageAnswered
    BY <2>2 DEF StartSheet, SnapSheet, StartReturns, ReleaseOrStop, ReadStage, SnapReturns,
       Withdraw, PageRead, PageAnswered
  <2>3. CASE Leave \/ Close \/ Report
    BY <2>3 DEF Leave, Close, Report
  <2>4. CASE ControlStep \/ InCancel \/ GraceExpires \/ Alarm \/ Crash
    BY <2>4 DEF ControlStep, ReadCommand, ParentGone, CancelHandle, HandOver, InCancel,
       GraceExpires, Alarm, Crash
  <2> QED
    BY <2>1, <2>2, <2>3, <2>4 DEF ChildStep, MainStep
<1> QED
  BY <1>1 DEF OwnerInv, parentVars, Alive, OneSignal, TwoSignals

\* The session keeps its types.
LEMMA OwnersSession == SessionTypes /\ Owners => SessionTypes'
<1> SUFFICES ASSUME SessionTypes, Owners PROVE SessionTypes'
  OBVIOUS
<1>c. TakenTypes'
  <2>1. \/ records' = records \/ records' = 0 \/ records' = records + 1
    BY DEF Owners, SessionStep, AskScan, AskRestart, StartChild, StartFails, StageNoted,
       GotReady, GotAnswer, GotFatal, GotPage, Spool, SpoolFails, Aborted, ChildGone, SendStop,
       MarkKill, Kill, Reap, Forget, Deadline, Drained, CloseSession, SetAbort, Interrupt,
       InterruptStart, ProcessDies, clocks
  <2>2. signals' = signals \/ signals' = signals + 1
    BY DEF Owners, SessionStep, AskScan, AskRestart, StartChild, StartFails, StageNoted,
       GotReady, GotAnswer, GotFatal, GotPage, Spool, SpoolFails, Aborted, ChildGone, SendStop,
       MarkKill, Kill, Reap, Forget, Deadline, Drained, CloseSession, SetAbort, Interrupt,
       InterruptStart, ProcessDies, world
  <2> QED
    BY <2>1, <2>2 DEF SessionTypes, TakenTypes
<1> USE <1>c DEF SessionTypes, Ends, Await, StopWith, Finish, End, clocks, book, world
<1>1. CASE AskScan \/ AskRestart \/ StartChild \/ StartFails \/ StageNoted
  BY ZenonT(40), <1>1 DEF AskScan, AskRestart, StartChild, StartFails, StageNoted, MayAsk
<1>2. CASE GotReady \/ GotAnswer \/ GotFatal \/ GotPage
  BY <1>2 DEF GotReady, GotAnswer, GotFatal, GotPage
<1>3. CASE Spool \/ SpoolFails \/ Aborted \/ ChildGone \/ SendStop \/ MarkKill
  BY <1>3 DEF Spool, SpoolFails, Aborted, ChildGone, SendStop, MarkKill
<1>4. CASE Kill \/ Reap
  BY <1>4 DEF Kill, Reap, Forget
<1>5. CASE Deadline \/ Drained \/ CloseSession \/ SetAbort
  BY <1>5 DEF Deadline, Drained, CloseSession, SetAbort
<1>6. CASE Interrupt
  BY <1>6 DEF Interrupt, Unwinds
<1>7. CASE InterruptStart \/ ProcessDies
  BY <1>7 DEF InterruptStart, ProcessDies
<1> QED
  BY <1>1, <1>2, <1>3, <1>4, <1>5, <1>6, <1>7 DEF Owners, SessionStep

\* However the session moves, it accounts for its child.
LEMMA OwnersKeep == SessionTypes /\ OwnerInv /\ Owners => OwnerInv'
<1> SUFFICES ASSUME SessionTypes, OwnerInv, Owners PROVE OwnerInv'
  OBVIOUS
<1> USE DEF OwnerInv, Ends, Await, StopWith, Finish, End, clocks, book, world, Alive, pipes,
        Waiting
<1>s. /\ signals' = signals => OneSignal' = OneSignal /\ TwoSignals' = TwoSignals
      /\ signals' = signals + 1 => OneSignal' /\ (OneSignal => TwoSignals')
      /\ TwoSignals => OneSignal
      /\ signals' = signals + 1 => (TwoSignals => TwoSignals')
  BY DEF SessionTypes, TakenTypes, OneSignal, TwoSignals
<1>1. CASE AskScan \/ AskRestart
  BY <1>1, <1>s DEF AskScan, AskRestart, MayAsk
<1>2. CASE StartChild \/ StartFails \/ InterruptStart
  BY <1>2, <1>s DEF StartChild, StartFails, InterruptStart, Forks, childVars
<1>3. CASE StageNoted \/ GotReady \/ GotAnswer \/ GotFatal \/ GotPage
  BY <1>3, <1>s DEF StageNoted, GotReady, GotAnswer, GotFatal, GotPage, TakesReply
<1>4. CASE Spool \/ SpoolFails \/ Aborted \/ ChildGone \/ SendStop \/ MarkKill
  BY <1>4, <1>s DEF Spool, SpoolFails, Aborted, ChildGone, SendStop, MarkKill, childVars
<1>5. CASE Kill \/ Reap
  BY <1>5, <1>s DEF Kill, Reap, Forget, Exits, held
<1>6. CASE Deadline \/ Drained \/ CloseSession \/ SetAbort \/ ProcessDies
  BY <1>6, <1>s DEF Deadline, Drained, CloseSession, SetAbort, ProcessDies, childVars
<1>7. CASE Interrupt
  BY <1>7, <1>s DEF Interrupt, Unwinds
<1> QED
  BY <1>1, <1>2, <1>3, <1>4, <1>5, <1>6, <1>7 DEF Owners, SessionStep

-----------------------------------------------------------------------------
(* The conversation over the pipes, and the count of the pages.            *)

\* A queue of commands: a task only at its head, or none, or one and no more.
LeadsOnly(s) == \A i \in 1 .. Len(s) : s[i] \in Tasks => i = 1
NoTasks(s) == \A i \in 1 .. Len(s) : s[i] \notin Tasks
OneTask(s) == s # <<>> => Head(s) \in Tasks /\ Tail(s) = <<>>

\* A queue of replies: stage frames, and at most one answer behind them.
Stages == {"start", "cleanup"}
LastOf(s) == s[Len(s)]
StagesThen(s) == \A i \in 1 .. Len(s) - 1 : s[i] \in Stages

\* An empty queue is in order, and so is a queue with its first task in it.
LEMMA EmptyQueue ==
    /\ LeadsOnly(<<>>) /\ NoTasks(<<>>) /\ OneTask(<<>>) /\ StagesThen(<<>>)
    /\ \A c \in Tasks : /\ LeadsOnly(Append(<<>>, c)) /\ OneTask(Append(<<>>, c))
                         /\ Append(<<>>, c) # <<>> /\ Head(Append(<<>>, c)) = c
BY DEF LeadsOnly, NoTasks, OneTask, StagesThen

\* What is taken from a queue leaves no task behind it.
LEMMA TakenQueue ==
    ASSUME NEW s \in Seq(Commands), s # <<>>
    PROVE  /\ LeadsOnly(s) => NoTasks(Tail(s))
           /\ NoTasks(s) => NoTasks(Tail(s)) /\ Head(s) \notin Tasks
BY DEF LeadsOnly, NoTasks

\* A command that is no task may join any queue.
LEMMA JoinedQueue ==
    ASSUME NEW s \in Seq(Commands), NEW c \in Commands
    PROVE  /\ c \notin Tasks /\ LeadsOnly(s) => LeadsOnly(Append(s, c))
           /\ c \notin Tasks /\ NoTasks(s) => NoTasks(Append(s, c))
           /\ NoTasks(s) => LeadsOnly(s)
           /\ Append(s, c) # <<>>
           /\ s # <<>> => Head(Append(s, c)) = Head(s)
           /\ s = <<>> => Head(Append(s, c)) = c
BY DEF LeadsOnly, NoTasks

\* An answer at the head of the replies is the last of them, and a stage frame
\* taken leaves the last as it is.
LEMMA TakenReply ==
    ASSUME NEW s \in Seq(Frames), s # <<>>, StagesThen(s)
    PROVE  /\ StagesThen(Tail(s)) /\ LastOf(s) \in Frames
           /\ Head(s) \notin Stages => Tail(s) = <<>> /\ LastOf(s) = Head(s)
           /\ Tail(s) # <<>> => LastOf(Tail(s)) = LastOf(s)
BY DEF StagesThen, LastOf

\* A frame may join replies that hold no answer.
LEMMA JoinedReply ==
    ASSUME NEW s \in Seq(Frames), NEW f \in Frames, StagesThen(s),
           s # <<>> => LastOf(s) \in Stages
    PROVE  StagesThen(Append(s, f)) /\ LastOf(Append(s, f)) = f /\ Append(s, f) # <<>>
BY DEF StagesThen, LastOf

\* The task the main thread will find first.
First(c) == \/ items # <<>> /\ Head(items) = c
            \/ items = <<>> /\ cmds # <<>> /\ Head(cmds) = c

\* What the session has recorded against what the child has fed.
NoRecords == records = 0
Even == records = fed - rejected
Owed == records + 1 = fed - rejected
Unfed == fed = 0 /\ rejected = 0
Room == IF route = "flatbed" THEN Unfed ELSE fed <= Cap
Fed == IF route = "flatbed" THEN fed = 1 /\ rejected = 0 ELSE fed <= Cap
WholePass == Even /\ (IF route = "flatbed" THEN fed = 1 ELSE sheets = 0 \/ fed = Cap)

\* A task leads its queue, and the main thread is where it can be taken.
TalkInv ==
    known /\ Alive =>
        /\ LeadsOnly(items)
        /\ NoTasks(cmds) \/ (LeadsOnly(cmds) /\ items = <<>> /\ control = "read")
        /\ First("scan") => main = "idle" /\ NoRecords
        /\ First("restart") => main = "idle"
        /\ First("spooled") => main = "await"
        /\ control = "none" => main = "init"

\* While the session listens, one task, one answer or the child's own work is
\* on the way, and an answer tells where the child is.
Listening == pp \in {"wait", "sink"}
Answer(a) ==
    /\ Alive => cmds = <<>> /\ items = <<>>
    /\ a = "ready" => main = "idle" /\ NoRecords
    /\ a \in {"restarted", "done", "capped", "error"} => main = "idle"
    /\ a = "page" => main \in {"await", "gone"}
    /\ a = "fatal" => main = "gone"
    /\ a # "bye"
    /\ a \in {"done", "capped"} => WholePass
ListenInv ==
    /\ pp = "start" => NoRecords
    /\ Listening =>
            /\ Alive => /\ ~cancelled /\ control \in {"none", "read"} /\ ending # "stopped"
                        /\ OneTask(cmds) /\ OneTask(items)
                        /\ main = "init" => NoRecords
            /\ StagesThen(replies)
            /\ replies # <<>> /\ LastOf(replies) \notin Stages => Answer(LastOf(replies))
            /\ pp = "sink" => /\ main \in {"await", "gone"} /\ replies = <<>>
                              /\ Alive => cmds = <<>> /\ items = <<>>

\* Between operations the child is at rest, and a whole pass stays counted.
RestInv ==
    /\ pp = "idle" /\ known /\ result # "signal" =>
            /\ main = "idle" /\ control = "read" /\ ~cancelled
            /\ cmds = <<>> /\ items = <<>> /\ replies = <<>>
    /\ pp = "idle" /\ result = "batch" => WholePass

\* Pages recorded are pages fed and kept, but for one that is on its way.
Moving == {"feed", "before start", "in start", "started", "to read", "before snap",
           "in snap", "snapped"}
TallyInv ==
    known /\ Alive =>
        /\ main \in {"open", "configure"} => NoRecords /\ Unfed
        /\ main \in Moving => Even /\ Room
        /\ main = "await" => Fed /\ (IF First("spooled") THEN Even ELSE Owed)
        /\ ending \in {"done", "capped"} =>
                main \in {"withdraw", "leave", "close", "report"} /\ WholePass

Conversation == TalkInv /\ ListenInv /\ RestInv /\ TallyInv
BaseInv == PassTypes /\ CallInv /\ SessionTypes /\ OwnerInv

\* A child at rest does nothing of itself.
LEMMA RestIsStill ==
    BaseInv /\ RestInv /\ pp = "idle" /\ known /\ result # "signal" => ~ChildStep
<1> SUFFICES ASSUME BaseInv, RestInv, pp = "idle", known, result # "signal" PROVE ~ChildStep
  OBVIOUS
<1>1. /\ main = "idle" /\ control = "read" /\ cmds = <<>> /\ items = <<>> /\ ~hungUp
      /\ Alive /\ ~alarm
  BY DEF RestInv, BaseInv, OwnerInv, PassTypes, PlaceTypes, CallInv, Working
<1>2. ~(TakeCommand \/ ControlStep \/ InCancel \/ GraceExpires \/ Alarm \/ Crash)
  BY <1>1 DEF TakeCommand, ControlStep, ReadCommand, ParentGone, CancelHandle, HandOver,
     InCancel, GraceExpires, Alarm, Crash, InSane
<1>3. ~MainStep
  BY <1>1, <1>2 DEF MainStep, Goes, Check, Initialise, Restart, Open, Configure, NextSheet,
     StartSheet, SnapSheet, StartReturns, ReleaseOrStop, ReadStage, SnapReturns, Withdraw,
     PageRead, PageAnswered, Leave, Close, Report
<1> QED
  BY <1>2, <1>3 DEF ChildStep

\* Where the main thread works by itself, nothing is queued for it to take.
LEMMA WorkIsAlone ==
    ASSUME BaseInv, TalkInv, ListenInv, Listening, known, Alive, main \notin {"idle", "await"}
    PROVE  /\ cmds = <<>> /\ items = <<>>
           /\ replies # <<>> => LastOf(replies) \in Stages
<1>1. items = <<>>
  BY DEF ListenInv, TalkInv, OneTask, Tasks, First
<1>2. cmds = <<>>
  BY <1>1 DEF ListenInv, TalkInv, OneTask, Tasks, First
<1>3. replies # <<>> => LastOf(replies) \in Frames
  BY TakenReply DEF BaseInv, PassTypes, QueueTypes, ListenInv
<1>4. main # "gone"
  BY DEF BaseInv, PassTypes, PlaceTypes, Working
<1> QED
  BY <1>1, <1>2, <1>3, <1>4 DEF ListenInv, Answer, Frames, Stages

\* Counts that do not change compare as they did.
LEMMA CountsKeep ==
    ASSUME UNCHANGED <<records, fed, rejected, route, sheets>>
    PROVE  /\ NoRecords' = NoRecords /\ Even' = Even /\ Owed' = Owed /\ Unfed' = Unfed
           /\ Room' = Room /\ Fed' = Fed /\ WholePass' = WholePass
BY DEF NoRecords, Even, Owed, Unfed, Room, Fed, WholePass

\* A step of the child ends no rest, for it takes none.
LEMMA ChildRests ==
    BaseInv /\ RestInv /\ ChildStep /\ UNCHANGED parentVars => RestInv'
BY RestIsStill DEF RestInv, BaseInv, OwnerInv, parentVars

\* The child's own work takes nothing from the queues; what it says is a stage
\* frame, or an answer that tells where it is.
LEMMA WorkTalks ==
    ASSUME BaseInv, TalkInv, ListenInv, known, Alive, UNCHANGED parentVars,
           main \notin {"idle", "await"}, main' # "init", child' = child,
           UNCHANGED <<cmds, items, cancelled, hungUp>>,
           control' = control \/ control' = "read",
           main = "init" => control' = "read",
           ending' = "stopped" => ending = "stopped" \/ cancelled,
           \/ UNCHANGED replies
           \/ \E f \in Frames : Says(f) /\ (f \in Stages \/ (Listening => Answer(f)'))
    PROVE  TalkInv' /\ ListenInv'
<1>p. UNCHANGED <<pp, known, records>> /\ NoRecords' = NoRecords
  BY DEF parentVars, NoRecords
<1>1. TalkInv'
  <2>1. \A c \in Tasks : ~First(c)
    BY DEF TalkInv, Tasks
  <2>2. \A c : First(c)' = First(c)
    BY DEF First
  <2>3. NoTasks(cmds) \/ (LeadsOnly(cmds) /\ items = <<>> /\ control' = "read")
    BY DEF TalkInv
  <2> QED
    BY <1>p, <2>1, <2>2, <2>3 DEF TalkInv, Tasks, Alive
<1>2. ListenInv'
  <2>1. SUFFICES ASSUME Listening PROVE ListenInv'
    BY <1>p DEF ListenInv, Listening
  <2>2. /\ cmds = <<>> /\ items = <<>>
        /\ replies # <<>> => LastOf(replies) \in Stages
    BY <2>1, WorkIsAlone
  <2>3. pp = "wait" /\ ~hungUp
    BY <2>1 DEF Listening, ListenInv, BaseInv, OwnerInv, PassTypes, PlaceTypes, Alive, Working
  <2>4. /\ StagesThen(replies')
        /\ replies' # <<>> /\ LastOf(replies') \notin Stages => Answer(LastOf(replies))'
    <3>1. CASE UNCHANGED replies
      BY <2>1, <2>2, <3>1 DEF ListenInv
    <3>2. CASE \E f \in Frames : Says(f) /\ (f \in Stages \/ (Listening => Answer(f)'))
      <4>1. PICK f \in Frames : Says(f) /\ (f \in Stages \/ Answer(f)')
        BY <2>1, <3>2
      <4>2. replies' = Append(replies, f)
        BY <2>3, <4>1 DEF Says
      <4>3. StagesThen(replies') /\ LastOf(replies') = f
        BY <2>1, <2>2, <4>2, JoinedReply DEF ListenInv, BaseInv, PassTypes, QueueTypes
      <4> QED
        BY <4>1, <4>3
    <3> QED
      BY <3>1, <3>2
  <2> QED
    BY <1>p, <2>1, <2>2, <2>3, <2>4 DEF ListenInv, Listening, Alive
<1> QED
  BY <1>1, <1>2

\* A command that is taken leaves no task behind it.
LEMMA TakingTalks ==
    ASSUME BaseInv, TalkInv, ListenInv, known, Alive, UNCHANGED parentVars,
           main \in {"idle", "await"}, main' # "init", child' = child,
           items # <<>>, items' = Tail(items),
           ending' = "stopped" =>
               ending = "stopped" \/ (main = "await" /\ Head(items) # "spooled"),
           UNCHANGED <<cmds, replies, control, cancelled>>
    PROVE  TalkInv' /\ ListenInv'
<1>p. UNCHANGED <<pp, known, records>> /\ NoRecords' = NoRecords
  BY DEF parentVars, NoRecords
<1>q. items \in Seq(Commands) /\ cmds \in Seq(Commands)
  BY DEF BaseInv, PassTypes, QueueTypes
<1>1. /\ NoTasks(items') /\ NoTasks(cmds)
      /\ items' \in Seq(Commands) /\ LeadsOnly(items')
  BY <1>q, TakenQueue, JoinedQueue DEF TalkInv, NoTasks, LeadsOnly
<1>2. \A c \in Tasks : ~First(c)'
  <2>1. items' # <<>> => Head(items') \notin Tasks
    BY <1>1, TakenQueue
  <2>2. cmds # <<>> => Head(cmds) \notin Tasks
    BY <1>1, <1>q, TakenQueue
  <2> QED
    BY <2>1, <2>2 DEF First
<1>3. TalkInv'
  BY <1>1, <1>2 DEF TalkInv, Tasks
<1>4. ListenInv'
  <2>1. Listening /\ replies # <<>> => LastOf(replies) \in Stages
    BY DEF ListenInv, Answer
  <2>2. Listening => OneTask(items') /\ OneTask(cmds)
    BY DEF ListenInv, OneTask
  <2>3. pp # "sink"
    BY DEF ListenInv, Listening
  <2>4. Listening => ending' # "stopped"
    BY DEF ListenInv, OneTask, TalkInv, First, Tasks
  <2> QED
    BY <1>p, <2>1, <2>2, <2>3, <2>4 DEF ListenInv, Listening, Alive
<1> QED
  BY <1>3, <1>4

\* A child that ends leaves at most the page it had sent, or why it ended.
LEMMA EndTalks ==
    ASSUME BaseInv, TalkInv, ListenInv, known, Alive, UNCHANGED parentVars,
           child' # "alive", main' = "gone",
           UNCHANGED <<fed, rejected, sheets, route>>,
           main # "idle" \/ items # <<>>,
           \/ UNCHANGED replies
           \/ main \notin {"idle", "await"} /\ Says("fatal")
           \/ Says("bye") /\ (ending = "stopped" \/ (items # <<>> /\ Head(items) \notin Tasks))
    PROVE  TalkInv' /\ ListenInv'
<1>p. UNCHANGED <<pp, known, records>> /\ NoRecords' = NoRecords
  BY DEF parentVars, NoRecords
<1>1. TalkInv'
  BY DEF TalkInv, Alive
<1>2. ListenInv'
  <2>1. SUFFICES ASSUME Listening PROVE ListenInv'
    BY <1>p DEF ListenInv, Listening
  <2>2. UNCHANGED replies \/ (main \notin {"idle", "await"} /\ Says("fatal"))
    BY <2>1 DEF ListenInv, OneTask
  <2>3. ~hungUp
    BY <2>1 DEF Listening, BaseInv, OwnerInv
  <2>4. CASE UNCHANGED replies
    <3>1. replies # <<>> /\ LastOf(replies) \notin Stages => LastOf(replies) = "page"
      <4>1. SUFFICES ASSUME replies # <<>>, LastOf(replies) \notin Stages
                     PROVE  LastOf(replies) = "page"
        OBVIOUS
      <4>2. Answer(LastOf(replies)) /\ LastOf(replies) \in Frames
        BY <2>1, <4>1, TakenReply DEF ListenInv, BaseInv, PassTypes, QueueTypes
      <4>3. main # "gone" /\ (main = "idle" => items # <<>>)
        BY DEF BaseInv, PassTypes, PlaceTypes, Working
      <4> QED
        BY <4>1, <4>2, <4>3 DEF Answer, Frames, Stages
    <3>2. LastOf(replies) = "page" => Answer(LastOf(replies))'
      BY <2>4 DEF Answer, Alive
    <3> QED
      BY <1>p, <2>1, <2>4, <3>1, <3>2 DEF ListenInv, Listening, Alive
  <2>5. CASE main \notin {"idle", "await"} /\ Says("fatal")
    <3>1. replies' = Append(replies, "fatal")
      BY <2>3, <2>5 DEF Says
    <3>2. StagesThen(replies') /\ LastOf(replies') = "fatal"
      BY <2>1, <2>5, <3>1, WorkIsAlone, JoinedReply
      DEF ListenInv, BaseInv, PassTypes, QueueTypes, Frames
    <3>3. Answer("fatal")'
      BY DEF Answer, Alive
    <3>4. pp # "sink"
      BY <2>1, <2>5 DEF ListenInv, Listening, BaseInv, PassTypes, PlaceTypes, Working
    <3> QED
      BY <1>p, <3>2, <3>3, <3>4 DEF ListenInv, Listening, Alive
  <2> QED
    BY <2>2, <2>4, <2>5
<1> QED
  BY <1>1, <1>2

\* Every step of the main thread keeps to the conversation.
LEMMA MainTalks ==
    ASSUME BaseInv, TalkInv, ListenInv, TallyInv, known, MainStep, UNCHANGED parentVars
    PROVE  TalkInv' /\ ListenInv'
<1>a. Alive /\ records' = records
  BY DEF MainStep, Goes, Check, Initialise, Restart, TakeCommand, Open, Configure, NextSheet,
     StartSheet, SnapSheet, StartReturns, ReleaseOrStop, ReadStage, SnapReturns, Withdraw,
     PageRead, PageAnswered, Leave, Close, Report, parentVars, clocks
<1>w. /\ {"start", "cleanup"} \subseteq Frames \cap Stages
      /\ {"ready", "restarted", "page", "error", "done", "capped"} \subseteq Frames
  BY DEF Frames, Stages
<1>l. Listening /\ main \notin {"idle", "await"} => cmds = <<>> /\ items = <<>>
  BY <1>a, WorkIsAlone
<1>1. CASE Initialise
  <2>1. CASE Goes("init", "idle")
    <3>1. /\ UNCHANGED <<cmds, items, cancelled, hungUp, child>> /\ Says("ready")
          /\ main = "init" /\ main' = "idle" /\ control' = "read" /\ ending' = ending
      BY <1>1, <2>1 DEF Initialise, Goes, Exits
    <3>2. Listening => Answer("ready")'
      BY <1>a, <1>l, <3>1 DEF Answer, ListenInv, NoRecords
    <3> QED
      BY <1>a, <1>w, <3>1, <3>2, WorkTalks
  <2>2. CASE ~Goes("init", "idle")
    <3>1. /\ main = "init" /\ Says("fatal") /\ main' = "gone" /\ child' # "alive"
          /\ UNCHANGED <<fed, rejected, sheets, route>>
      BY <1>1, <2>2 DEF Initialise, Goes, Exits, tally
    <3> QED
      BY <1>a, <3>1, EndTalks
  <2> QED
    BY <2>1, <2>2
<1>2. CASE Restart
  <2>1. CASE Goes("restart", "idle")
    <3>1. /\ UNCHANGED <<cmds, items, cancelled, hungUp, child, control>>
          /\ Says("restarted") /\ main = "restart" /\ main' = "idle" /\ ending' = ending
      BY <1>2, <2>1 DEF Restart, Goes, Exits, threads
    <3>2. Listening => Answer("restarted")'
      BY <1>l, <3>1 DEF Answer
    <3> QED
      BY <1>a, <1>w, <3>1, <3>2, WorkTalks
  <2>2. CASE ~Goes("restart", "idle")
    <3>1. /\ main = "restart" /\ Says("fatal") /\ main' = "gone" /\ child' # "alive"
          /\ UNCHANGED <<fed, rejected, sheets, route>>
      BY <1>2, <2>2 DEF Restart, Goes, Exits, tally
    <3> QED
      BY <1>a, <3>1, EndTalks
  <2> QED
    BY <2>1, <2>2
<1>3. CASE TakeCommand
  <2>1. CASE Head(items) \in {"scan", "restart"}
    <3>1. /\ main = "idle" /\ main' # "init" /\ child' = child /\ items # <<>>
          /\ items' = Tail(items) /\ UNCHANGED <<cmds, replies, control, cancelled, ending>>
      BY <1>3, <2>1 DEF TakeCommand, Silent
    <3> QED
      BY <1>a, <3>1, TakingTalks
  <2>2. CASE Head(items) \notin {"scan", "restart"}
    <3>1. /\ main = "idle" /\ items # <<>> /\ main' = "gone" /\ child' # "alive"
          /\ UNCHANGED <<fed, rejected, sheets, route>>
          /\ UNCHANGED replies \/ (Says("bye") /\ Head(items) \in {"exit", "stop", "cancel"})
      BY <1>3, <2>2 DEF TakeCommand, Silent, Exits
    <3> QED
      BY <1>a, <3>1, EndTalks DEF Tasks
  <2> QED
    BY <2>1, <2>2
<1>4. CASE Open
  <2>1. /\ UNCHANGED <<cmds, items, cancelled, hungUp, child, control, ending>> /\ main = "open"
        /\ \/ main' = "configure" /\ UNCHANGED replies
           \/ main' = "idle" /\ Says("error")
    BY <1>4 DEF Open, Goes, Silent, threads
  <2>2. main' = "idle" /\ Listening => Answer("error")'
    BY <1>l, <2>1 DEF Answer
  <2> QED
    BY <1>a, <1>w, <2>1, <2>2, WorkTalks
<1>5. CASE NextSheet \/ Leave
  <2>1. /\ UNCHANGED <<cmds, items, cancelled, hungUp, child, control>>
        /\ main \in {"feed", "leave"} /\ main' # "init"
        /\ ending' = "stopped" => ending = "stopped" \/ cancelled
        /\ UNCHANGED replies \/ Says("start") \/ Says("cleanup")
    BY <1>5 DEF NextSheet, Leave, Goes, Silent, Stops, threads
  <2> QED
    BY <1>a, <1>w, <2>1, WorkTalks
<1>6. CASE \/ Configure \/ StartSheet \/ SnapSheet \/ StartReturns \/ ReleaseOrStop
           \/ ReadStage \/ SnapReturns \/ Withdraw \/ Close
  <2>1. /\ UNCHANGED <<cmds, items, cancelled, hungUp, child, control, replies>>
        /\ main \notin {"init", "idle", "await"} /\ main' # "init"
        /\ ending' = "stopped" => ending = "stopped" \/ cancelled
    BY <1>6 DEF Configure, StartSheet, SnapSheet, StartReturns, ReleaseOrStop, ReadStage,
       SnapReturns, Withdraw, Close, Goes, Check, Silent, Stops, pipes, threads
  <2> QED
    BY <1>a, <2>1, WorkTalks
<1>7. CASE PageRead
  <2>1. /\ UNCHANGED <<cmds, items, cancelled, hungUp, child, control>>
        /\ main = "snapped" /\ main' # "init"
        /\ ending' = "stopped" => ending = "stopped" \/ cancelled
        /\ UNCHANGED replies \/ (Says("page") /\ main' = "await")
    BY <1>7 DEF PageRead, Silent, Stops, threads
  <2>2. main' = "await" /\ Listening => Answer("page")'
    BY <1>l, <2>1 DEF Answer
  <2> QED
    BY <1>a, <1>w, <2>1, <2>2, WorkTalks
<1>8. CASE PageAnswered
  <2>1. /\ main = "await" /\ main' # "init" /\ child' = child /\ items # <<>>
        /\ items' = Tail(items) /\ UNCHANGED <<cmds, replies, control, cancelled>>
        /\ ending' = "stopped" => ending = "stopped" \/ Head(items) # "spooled"
    BY <1>8 DEF PageAnswered, Stops, pipes
  <2> QED
    BY <1>a, <2>1, TakingTalks
<1>9. CASE Report
  <2>1. CASE ending \in {"done", "capped", "error"}
    <3>1. /\ UNCHANGED <<cmds, items, cancelled, hungUp, child, control>>
          /\ main = "report" /\ main' = "idle" /\ Says(ending) /\ ending' = "none"
          /\ UNCHANGED <<records, fed, rejected, route, sheets>>
      BY <1>a, <1>9, <2>1 DEF Report, threads, tally
    <3>2. ending \in {"done", "capped"} => WholePass'
      BY <1>a, <3>1, CountsKeep DEF TallyInv
    <3>3. \A f \in {"done", "capped", "error"} : ending = f /\ Listening => Answer(f)'
      BY <1>l, <3>1, <3>2 DEF Answer
    <3> QED
      BY <1>a, <1>w, <2>1, <3>1, <3>3, WorkTalks
  <2>2. CASE ending = "fatal"
    <3>1. /\ main = "report" /\ Says("fatal") /\ main' = "gone" /\ child' # "alive"
          /\ UNCHANGED <<fed, rejected, sheets, route>>
      BY <1>9, <2>2 DEF Report, Exits, tally
    <3> QED
      BY <1>a, <3>1, EndTalks
  <2>3. CASE ending = "stopped"
    <3>1. /\ main = "report" /\ Says("bye") /\ main' = "gone" /\ child' # "alive"
          /\ UNCHANGED <<fed, rejected, sheets, route>>
      BY <1>9, <2>3 DEF Report, Exits, tally
    <3> QED
      BY <1>a, <2>3, <3>1, EndTalks
  <2> QED
    BY <1>9, <2>1, <2>2, <2>3 DEF Report
<1> QED
  BY <1>1, <1>2, <1>3, <1>4, <1>5, <1>6, <1>7, <1>8, <1>9 DEF MainStep

\* The control thread hands commands over in their order, tasks first.
LEMMA ControlTalks ==
    ASSUME BaseInv, TalkInv, ListenInv, known, UNCHANGED parentVars,
           ControlStep \/ InCancel \/ GraceExpires \/ Alarm \/ Crash
    PROVE  /\ TalkInv' /\ ListenInv'
           /\ Alive' => \A c \in Tasks : First(c)' <=> First(c)
<1>a. Alive
  BY DEF ControlStep, ReadCommand, ParentGone, CancelHandle, HandOver, InCancel, GraceExpires,
     Alarm, Crash, Runs
<1>p. UNCHANGED <<pp, known, records>> /\ NoRecords' = NoRecords
  BY DEF parentVars, NoRecords
<1>q. items \in Seq(Commands) /\ cmds \in Seq(Commands)
  BY DEF BaseInv, PassTypes, QueueTypes
<1>1. CASE ReadCommand
  <2> DEFINE h == Head(cmds)
  <2>0. /\ cmds # <<>> /\ cmds' = Tail(cmds) /\ h \in Commands
        /\ Tail(cmds) \in Seq(Commands) /\ control = "read"
        /\ UNCHANGED <<replies, child, main, ending>>
        /\ \/ h = "cancel" /\ UNCHANGED items /\ control' = "cancel"
           \/ h # "cancel" /\ items' = Append(items, h) /\ UNCHANGED <<control, cancelled>>
    BY <1>1, <1>q DEF ReadCommand
  <2>1. NoTasks(cmds') /\ LeadsOnly(cmds')
    BY <1>q, <2>0, <1>a, TakenQueue, JoinedQueue DEF TalkInv, NoTasks, LeadsOnly
  <2>2. h \in Tasks => items = <<>>
    BY <1>a, <1>q, <2>0, TakenQueue DEF TalkInv
  <2>3. LeadsOnly(items')
    <3>1. LeadsOnly(items)
      BY <1>a DEF TalkInv
    <3>2. CASE h \in Tasks
      BY <2>0, <2>2, <3>1, <3>2, EmptyQueue
    <3>3. CASE h \notin Tasks
      BY <1>q, <2>0, <3>1, <3>3, JoinedQueue
    <3> QED
      BY <3>2, <3>3
  <2>4. \A c \in Tasks : First(c)' <=> First(c)
    <3>1. cmds' # <<>> => Head(cmds') \notin Tasks
      BY <2>0, <2>1, TakenQueue
    <3>2. CASE h = "cancel"
      BY <2>0, <3>1, <3>2 DEF First, Tasks
    <3>3. CASE h # "cancel"
      <4>1. items' # <<>> /\ Head(items') = (IF items = <<>> THEN h ELSE Head(items))
        BY <1>q, <2>0, <3>3, JoinedQueue
      <4> QED
        BY <2>0, <4>1 DEF First
    <3> QED
      BY <3>2, <3>3
  <2>5. TalkInv'
    BY <1>a, <1>p, <2>0, <2>1, <2>3, <2>4 DEF TalkInv, Tasks, Alive
  <2>6. ~Listening => ListenInv'
    BY <1>p DEF ListenInv, Listening
  <2>7. ASSUME Listening PROVE ListenInv'
    <3>1. h \in Tasks /\ Tail(cmds) = <<>> /\ items = <<>> /\ h # "cancel"
      BY <1>a, <2>0, <2>2, <2>7 DEF ListenInv, OneTask, Tasks
    <3>2. OneTask(cmds') /\ OneTask(items')
      BY <2>0, <3>1, EmptyQueue
    <3>3. replies # <<>> => LastOf(replies) \in Stages
      BY <1>a, <2>0, <2>7 DEF ListenInv, Answer
    <3>4. pp # "sink"
      BY <1>a, <2>0, <2>7 DEF ListenInv
    <3> QED
      BY <1>a, <1>p, <2>0, <2>5, <2>7, <3>1, <3>2, <3>3, <3>4 DEF ListenInv, Listening, Alive
  <2> QED
    BY <2>4, <2>5, <2>6, <2>7
<1>2. CASE ParentGone \/ CancelHandle \/ InCancel
  <2>1. /\ UNCHANGED <<cmds, items, replies, child, main>> /\ NoTasks(cmds)
        /\ control' # "none" /\ ~Listening
    BY <1>2, EmptyQueue DEF ParentGone, CancelHandle, InCancel, pipes, TalkInv, Runs,
       ListenInv, Listening, BaseInv, OwnerInv
  <2>2. \A c : First(c)' = First(c)
    BY <2>1 DEF First
  <2> QED
    BY <1>p, <2>1, <2>2 DEF TalkInv, ListenInv, Listening, Alive
<1>3. CASE HandOver
  <2>1. /\ UNCHANGED <<cmds, replies, child, main>> /\ items' = Append(items, pending)
        /\ pending \in Commands \ Tasks /\ control' # "none"
        /\ NoTasks(cmds) /\ LeadsOnly(items) /\ ~Listening
    BY <1>3, <1>a DEF HandOver, pipes, TalkInv, ListenInv, BaseInv, PassTypes, QueueTypes,
       Cancels, Commands, Tasks
  <2>2. LeadsOnly(items')
    BY <1>q, <2>1, JoinedQueue
  <2>3. \A c \in Tasks : First(c)' <=> First(c)
    <3>1. cmds # <<>> => Head(cmds) \notin Tasks
      BY <1>q, <2>1, TakenQueue
    <3>2. items' # <<>> /\ Head(items') = (IF items = <<>> THEN pending ELSE Head(items))
      BY <1>q, <2>1, JoinedQueue
    <3> QED
      BY <2>1, <3>1, <3>2 DEF First
  <2> QED
    BY <1>p, <1>a, <2>1, <2>2, <2>3 DEF TalkInv, ListenInv, Listening, Alive, Tasks
<1>4. CASE GraceExpires \/ Alarm \/ Crash
  <2>1. /\ main' = "gone" /\ child' # "alive" /\ UNCHANGED replies
        /\ UNCHANGED <<fed, rejected, sheets, route>>
    BY <1>4 DEF GraceExpires, Alarm, Crash, Exits, pipes, tally
  <2>0. ~Alive'
    BY <2>1 DEF Alive
  <2>2. ~Listening \/ main # "idle"
    BY <1>4, <1>a DEF GraceExpires, Alarm, Crash, BaseInv, CallInv, ListenInv, InSane
  <2>3. CASE Listening
    BY <1>a, <2>0, <2>1, <2>2, <2>3, EndTalks
  <2>4. CASE ~Listening
    BY <1>p, <2>0, <2>1, <2>4 DEF TalkInv, ListenInv, Listening, Alive
  <2> QED
    BY <2>0, <2>3, <2>4
<1> QED
  BY <1>1, <1>2, <1>3, <1>4 DEF ControlStep

\* A child that has ended counts no more.
LEMMA EndCounts == child' # "alive" => TallyInv'
BY DEF TallyInv, Alive

\* Every step of the main thread counts the pages it feeds.
LEMMA MainCounts ==
    ASSUME BaseInv, TalkInv, TallyInv, known, MainStep, UNCHANGED parentVars
    PROVE  TallyInv'
<1>a. Alive /\ UNCHANGED <<records, known>>
  BY DEF MainStep, Goes, Check, Initialise, Restart, TakeCommand, Open, Configure, NextSheet,
     StartSheet, SnapSheet, StartReturns, ReleaseOrStop, ReadStage, SnapReturns, Withdraw,
     PageRead, PageAnswered, Leave, Close, Report, parentVars, clocks, book
<1>n. /\ records \in Nat /\ fed \in Nat /\ rejected \in Nat /\ sheets \in Nat
      /\ Cap \in Nat /\ Cap > 0
  BY PassAssumption DEF BaseInv, PassTypes, CountTypes, SessionTypes, TakenTypes
<1>s. SUFFICES ASSUME child' = "alive" PROVE TallyInv'
  BY EndCounts
<1>1. CASE Initialise \/ Restart
  <2>1. main' = "idle" /\ ending' = ending /\ main \in {"init", "restart"}
    BY <1>1, <1>s DEF Initialise, Restart, Goes, Exits, threads
  <2> QED
    BY <1>a, <2>1 DEF TallyInv, Moving
<1>2. CASE TakeCommand
  <2>1. CASE Head(items) = "scan"
    <3>1. /\ main = "idle" /\ main' = "open" /\ fed' = 0 /\ rejected' = 0
          /\ items # <<>> /\ ending' = ending
      BY <1>2, <2>1 DEF TakeCommand
    <3>2. NoRecords' /\ Unfed'
      BY <1>a, <2>1, <3>1 DEF TalkInv, First, NoRecords, Unfed
    <3> QED
      BY <1>a, <3>1, <3>2 DEF TallyInv, Moving
  <2>2. CASE Head(items) # "scan"
    <3>1. main = "idle" /\ main' = "restart" /\ ending' = ending
      BY <1>2, <1>s, <2>2 DEF TakeCommand, Exits
    <3> QED
      BY <1>a, <3>1 DEF TallyInv, Moving
  <2> QED
    BY <2>1, <2>2
<1>3. CASE Open \/ NextSheet \/ StartSheet \/ SnapSheet \/ ReleaseOrStop \/ ReadStage
           \/ SnapReturns \/ Withdraw \/ Leave \/ Close
  <2>1. /\ UNCHANGED <<records, fed, rejected, route, sheets>>
        /\ ending' \in {"done", "capped"} => ending = ending' /\ main \notin {"open", "feed"}
        /\ main' \in {"open", "configure"} => main = "open"
        /\ main' \in Moving => main \in Moving
        /\ main' # "await" /\ main # "report"
        /\ main \in {"withdraw", "leave", "close"} => main' \in {"leave", "close", "report"}
    BY <1>3, <1>a DEF Open, NextSheet, StartSheet, SnapSheet, ReleaseOrStop, ReadStage,
       SnapReturns, Withdraw, Leave, Close, Goes, Check, Stops, tally, Moving, TallyInv
  <2>2. /\ NoRecords' = NoRecords /\ Even' = Even /\ Unfed' = Unfed /\ Room' = Room
        /\ WholePass' = WholePass
    BY <2>1, CountsKeep
  <2> QED
    BY <1>a, <2>1, <2>2 DEF TallyInv, Moving
<1>4. CASE Configure
  <2>1. /\ main = "configure" /\ main' \in {"feed", "leave"}
        /\ ending' = ending \/ ending' \in {"error", "fatal"}
        /\ UNCHANGED <<fed, rejected, sheets>>
    BY <1>4 DEF Configure, Goes
  <2>2. records = 0 /\ fed = 0 /\ rejected = 0
    BY <1>a, <2>1 DEF TallyInv, NoRecords, Unfed
  <2>3. Even' /\ Room'
    BY <1>a, <1>n, <2>1, <2>2 DEF Even, Room, Unfed
  <2> QED
    BY <1>a, <2>1, <2>3 DEF TallyInv, Moving
<1>5. CASE StartReturns
  <2>0. main = "in start" /\ UNCHANGED <<route, fed, rejected>>
    BY <1>5 DEF StartReturns, Goes
  <2>1. Even /\ Room /\ ending \notin {"done", "capped"}
    BY <1>a, <2>0 DEF TallyInv, Moving
  <2>2. Even' /\ Room'
    BY <1>a, <2>0, <2>1 DEF Even, Room, Unfed
  <2>3. CASE main' = "started"
    <3>1. ending' = ending
      BY <1>5, <2>3 DEF StartReturns, Goes
    <3> QED
      BY <1>a, <2>1, <2>2, <2>3, <3>1 DEF TallyInv, Moving
  <2>4. CASE main' = "withdraw"
    <3>1. ending' \in {"done", "capped"} => route' = "feeder" /\ sheets' = 0
      BY <1>5, <2>4 DEF StartReturns, Goes
    <3>2. ending' \in {"done", "capped"} => WholePass'
      BY <2>2, <3>1 DEF WholePass
    <3> QED
      BY <1>a, <2>4, <3>2 DEF TallyInv, Moving
  <2> QED
    BY <1>5, <2>3, <2>4 DEF StartReturns, Goes
<1>6. CASE PageRead
  <2>0. main = "snapped" /\ UNCHANGED <<route, sheets, cmds, items>>
    BY <1>6 DEF PageRead, threads
  <2>1. Even /\ Room /\ ending \notin {"done", "capped"} /\ ~First("spooled")
    BY <1>a, <2>0 DEF TallyInv, Moving, TalkInv
  <2>2. CASE main' = "leave"
    <3>1. ending' \in {"done", "capped"} =>
              route = "feeder" /\ fed >= Cap /\ UNCHANGED <<fed, rejected>>
      BY <1>6, <2>1, <2>2 DEF PageRead, Stops
    <3>2. ending' \in {"done", "capped"} => WholePass'
      BY <1>a, <1>n, <2>0, <2>1, <3>1 DEF WholePass, Even, Room
    <3> QED
      BY <1>a, <2>2, <3>2 DEF TallyInv, Moving
  <2>3. CASE main' = "feed"
    <3>1. /\ fed' = fed + 1 /\ rejected' = rejected + 1 /\ route = "feeder" /\ fed < Cap
          /\ ending' = ending
      BY <1>6, <2>3 DEF PageRead, Stops
    <3>2. Even' /\ Room'
      BY <1>a, <1>n, <2>0, <2>1, <3>1 DEF Even, Room
    <3> QED
      BY <1>a, <2>1, <2>3, <3>1, <3>2 DEF TallyInv, Moving
  <2>4. CASE main' = "await"
    <3>1. /\ fed' = fed + 1 /\ rejected' = rejected
          /\ route = "flatbed" \/ fed < Cap
          /\ ending' = ending
      BY <1>6, <2>4 DEF PageRead, Stops
    <3>2. Owed' /\ Fed'
      BY <1>a, <1>n, <2>0, <2>1, <3>1 DEF Even, Owed, Room, Fed, Unfed
    <3>3. ~First("spooled")'
      BY <2>0, <2>1 DEF First
    <3> QED
      BY <1>a, <2>1, <2>4, <3>1, <3>2, <3>3 DEF TallyInv, Moving
  <2> QED
    BY <1>6, <2>2, <2>3, <2>4 DEF PageRead, Stops
<1>7. CASE PageAnswered
  <2>0. /\ main = "await" /\ items # <<>> /\ UNCHANGED <<records, fed, rejected, route, sheets>>
    BY <1>7, <1>a DEF PageAnswered, tally
  <2>1. Fed /\ ending \notin {"done", "capped"}
    BY <1>a, <2>0 DEF TallyInv
  <2>2. CASE Head(items) = "spooled" /\ route = "feeder" /\ main' = "feed" /\ UNCHANGED ending
    <3>1. Even /\ Room
      BY <1>a, <2>0, <2>1, <2>2 DEF TallyInv, First, Fed, Room
    <3> QED
      BY <1>a, <2>0, <2>1, <2>2, <3>1, CountsKeep DEF TallyInv, Moving
  <2>3. CASE Head(items) = "spooled" /\ route = "flatbed" /\ main' = "leave" /\ ending' = "done"
    <3>1. Even /\ WholePass
      BY <1>a, <2>0, <2>1, <2>3 DEF TallyInv, First, Fed, WholePass
    <3> QED
      BY <1>a, <2>0, <2>3, <3>1, CountsKeep DEF TallyInv, Moving
  <2>4. CASE Stops
    BY <2>4 DEF Stops, TallyInv, Moving
  <2> QED
    BY <1>7, <2>2, <2>3, <2>4 DEF PageAnswered
<1>8. CASE Report
  <2>1. main' = "idle" /\ ending' = "none"
    BY <1>8, <1>s DEF Report, Exits
  <2> QED
    BY <2>1 DEF TallyInv, Moving
<1> QED
  BY <1>1, <1>2, <1>3, <1>4, <1>5, <1>6, <1>7, <1>8 DEF MainStep

\* The control thread feeds and counts nothing.
LEMMA ControlCounts ==
    ASSUME BaseInv, TalkInv, ListenInv, TallyInv, known, UNCHANGED parentVars,
           ControlStep \/ InCancel \/ GraceExpires \/ Alarm \/ Crash
    PROVE  TallyInv'
<1>1. CASE GraceExpires \/ Alarm \/ Crash
  BY <1>1, EndCounts DEF GraceExpires, Alarm, Crash, Exits
<1>2. CASE ControlStep \/ InCancel
  <2>1. SUFFICES ASSUME Alive' PROVE TallyInv'
    BY DEF TallyInv
  <2>2. /\ Alive /\ UNCHANGED <<main, ending, known>>
        /\ UNCHANGED <<records, fed, rejected, route, sheets>>
    BY <1>2 DEF ControlStep, ReadCommand, ParentGone, CancelHandle, HandOver, InCancel, Runs,
       tally, parentVars, clocks
  <2>3. First("spooled")' <=> First("spooled")
    BY <2>1, ControlTalks DEF Tasks
  <2> QED
    BY <2>2, <2>3, CountsKeep DEF TallyInv
<1> QED
  BY <1>1, <1>2

\* A session that sends nothing leaves the conversation and the counts alone.
LEMMA SilenceTalks ==
    ASSUME TalkInv, TallyInv, UNCHANGED core, UNCHANGED <<cmds, known>>, UNCHANGED tally,
           UNCHANGED records
    PROVE  TalkInv' /\ TallyInv'
<1>1. /\ NoRecords' = NoRecords /\ Even' = Even /\ Owed' = Owed /\ Unfed' = Unfed
      /\ Room' = Room /\ Fed' = Fed /\ WholePass' = WholePass
  BY CountsKeep DEF tally
<1>2. UNCHANGED <<child, main, control, items, ending, known, cmds>>
  BY DEF core, threads
<1>3. \A c : First(c)' = First(c)
  BY <1>2 DEF First
<1>4. TalkInv'
  BY <1>1, <1>2, <1>3 DEF TalkInv, Alive
<1>5. TallyInv'
  BY <1>1, <1>2, <1>3 DEF TallyInv, Alive
<1> QED
  BY <1>4, <1>5

\* A task that is sent to a child that waits for it is the first it finds.
LEMMA TaskTalks ==
    ASSUME BaseInv, TalkInv, known, known', NEW c \in Tasks, Send(c), UNCHANGED core,
           UNCHANGED tally, Alive => cmds = <<>> /\ items = <<>> /\ control = "read",
           Alive => \/ c = "scan" /\ main = "idle" /\ NoRecords'
                    \/ c = "restart" /\ main = "idle"
                    \/ c = "spooled" /\ main = "await"
    PROVE  /\ TalkInv'
           /\ Alive => /\ OneTask(cmds') /\ OneTask(items')
                       /\ \A b \in Tasks : First(b)' <=> b = c
<1>1. UNCHANGED <<child, main, control, items, ending>>
  BY DEF core, threads
<1>2. SUFFICES ASSUME Alive
               PROVE  /\ TalkInv' /\ OneTask(cmds') /\ OneTask(items')
                      /\ \A b \in Tasks : First(b)' <=> b = c
  BY <1>1 DEF TalkInv, Alive
<1>3. cmds' = Append(<<>>, c) /\ items' = <<>>
  BY <1>1, <1>2 DEF Send
<1>4. /\ LeadsOnly(cmds') /\ LeadsOnly(items') /\ OneTask(cmds') /\ OneTask(items')
      /\ cmds' # <<>> /\ Head(cmds') = c
  BY <1>3, EmptyQueue
<1>5. \A b \in Tasks : First(b)' <=> b = c
  BY <1>3, <1>4 DEF First
<1>6. TalkInv'
  BY <1>1, <1>2, <1>3, <1>4, <1>5 DEF TalkInv, Tasks, Alive
<1> QED
  BY <1>4, <1>5, <1>6

\* A child at rest counts nothing that a new operation could change.
LEMMA IdleCounts ==
    ASSUME TallyInv, main = "idle", UNCHANGED core, UNCHANGED known
    PROVE  TallyInv'
<1>1. main' = "idle" /\ ending' = ending
  BY DEF core
<1>2. known /\ Alive => ending \notin {"done", "capped"}
  BY DEF TallyInv
<1> QED
  BY <1>1, <1>2 DEF TallyInv, Moving, core, Alive

\* A session that asks for a pass, or for a restart, finds its child at rest.
LEMMA AskTalks ==
    ASSUME BaseInv, Conversation, AskScan \/ AskRestart
    PROVE  Conversation'
<1> USE DEF Conversation
<1>c. UNCHANGED core
  BY DEF AskScan, AskRestart, core, threads
<1>1. CASE known
  <2>1. PICK c \in {"scan", "restart"} :
            /\ Send(c) /\ pp' = "wait" /\ known' = known /\ UNCHANGED tally
            /\ c = "scan" => records' = 0
            /\ UNCHANGED replies /\ pp = "idle" /\ result # "signal"
    BY <1>1 DEF AskScan, AskRestart, MayAsk, Await, book
  <2>2. /\ main = "idle" /\ control = "read" /\ ~cancelled /\ Alive
        /\ cmds = <<>> /\ items = <<>> /\ replies = <<>>
    BY <1>1, <2>1 DEF RestInv, BaseInv, PassTypes, PlaceTypes, Working
  <2>3. c = "scan" => NoRecords'
    BY <2>1 DEF NoRecords
  <2>4. TalkInv' /\ OneTask(cmds') /\ OneTask(items')
    BY <1>1, <1>c, <2>1, <2>2, <2>3, TaskTalks DEF Tasks
  <2>5. TallyInv'
    BY <1>c, <2>1, <2>2, IdleCounts
  <2>6. ListenInv'
    <3>1. ending # "stopped"
      BY <2>2 DEF BaseInv, PassTypes, PlaceTypes
    <3> QED
      BY <1>c, <2>1, <2>2, <2>4, <3>1, EmptyQueue DEF ListenInv, Listening, core, threads, Alive
  <2> QED
    BY <2>1, <2>4, <2>5, <2>6 DEF RestInv
<1>2. CASE ~known
  <2>1. AskScan /\ ~known' /\ pp' \in {"idle", "start"} /\ records' = 0
    BY <1>2 DEF AskScan, AskRestart, Ends
  <2>2. pp' = "idle" => result' = "interrupted"
    BY <1>2, <2>1 DEF AskScan, Ends
  <2> QED
    BY <2>1, <2>2 DEF TalkInv, TallyInv, ListenInv, RestInv, NoRecords, Listening
<1> QED
  BY <1>1, <1>2

\* A fresh child hears nothing until it is ready, and counts nothing.
LEMMA StartTalks ==
    ASSUME BaseInv, Conversation, StartChild
    PROVE  Conversation'
<1>1. /\ pp' = "wait" /\ UNCHANGED records /\ pp = "start"
      /\ child' = "alive" /\ main' = "init" /\ control' = "none" /\ cmds' = <<>>
      /\ replies' = <<>> /\ items' = <<>> /\ ~cancelled' /\ ending' = "none"
  BY DEF StartChild, Forks, Await, clocks
<1>2. NoRecords'
  BY <1>1 DEF Conversation, ListenInv, NoRecords
<1>3. TalkInv'
  BY <1>1, EmptyQueue DEF TalkInv, First
<1>4. ListenInv'
  BY <1>1, <1>2, EmptyQueue DEF ListenInv, Listening
<1> QED
  BY <1>1, <1>3, <1>4 DEF Conversation, RestInv, TallyInv, Moving

\* A reply that is taken is a stage frame, or the answer behind which nothing
\* is on the way.
LEMMA ReplyTalks ==
    ASSUME BaseInv, Conversation, StageNoted \/ GotReady \/ GotAnswer \/ GotPage
    PROVE  Conversation'
<1> USE DEF Conversation
<1>c. UNCHANGED core /\ UNCHANGED tally /\ UNCHANGED <<records, known>>
  BY DEF StageNoted, GotReady, GotAnswer, GotPage, core, threads, book, clocks
<1>e. UNCHANGED <<child, main, control, cancelled, items, ending>>
  BY <1>c DEF core, threads
<1>n. NoRecords' = NoRecords /\ WholePass' = WholePass
  BY <1>c, CountsKeep DEF tally
<1>q. /\ pp = "wait" /\ known /\ replies # <<>> /\ replies' = Tail(replies)
      /\ replies \in Seq(Frames) /\ StagesThen(replies)
  BY DEF StageNoted, GotReady, GotAnswer, GotPage, TakesReply, Waiting, BaseInv, OwnerInv,
     PassTypes, QueueTypes, ListenInv, Listening
<1>t. /\ StagesThen(Tail(replies))
      /\ Head(replies) \notin Stages => Tail(replies) = <<>> /\ LastOf(replies) = Head(replies)
      /\ Tail(replies) # <<>> => LastOf(Tail(replies)) = LastOf(replies)
  BY <1>q, TakenReply
<1>a. Head(replies) \notin Stages => Answer(Head(replies)) /\ replies' = <<>>
  BY <1>q, <1>t DEF ListenInv, Listening
<1>1. CASE StageNoted
  <2>1. UNCHANGED <<cmds, pp, result>>
    BY <1>1 DEF StageNoted
  <2>2. TalkInv' /\ TallyInv'
    BY <1>c, <2>1, SilenceTalks
  <2>3. replies' # <<>> /\ LastOf(replies') \notin Stages => Answer(LastOf(replies))'
    <3>1. SUFFICES ASSUME replies' # <<>>, LastOf(replies') \notin Stages
                   PROVE  Answer(LastOf(replies))'
      OBVIOUS
    <3>2. LastOf(replies') = LastOf(replies) /\ Answer(LastOf(replies))
      BY <1>q, <1>t, <3>1 DEF ListenInv, Listening
    <3>3. \A x : Answer(x) /\ x = LastOf(replies') => Answer(LastOf(replies))'
      BY <1>e, <1>n, <2>1 DEF Answer, Alive
    <3> QED
      BY <3>2, <3>3
  <2>4. ListenInv'
    BY <1>e, <1>n, <1>q, <1>t, <2>1, <2>3 DEF ListenInv, Listening, Alive
  <2> QED
    BY <1>q, <2>1, <2>2, <2>4 DEF RestInv
<1>2. CASE GotReady
  <2>1. Head(replies) = "ready" /\ Send("scan") /\ pp' = "wait"
    BY <1>2 DEF GotReady, TakesReply, Await
  <2>2. main = "idle" /\ NoRecords /\ (Alive => cmds = <<>> /\ items = <<>>) /\ replies' = <<>>
    BY <1>a, <2>1 DEF Answer, Stages
  <2>3. Alive => control = "read"
    BY <1>q, <2>2 DEF TalkInv, ListenInv, Listening
  <2>4. TalkInv' /\ (Alive => OneTask(cmds') /\ OneTask(items'))
    BY <1>c, <1>n, <1>q, <2>1, <2>2, <2>3, TaskTalks DEF Tasks
  <2>5. TallyInv'
    BY <1>c, <2>2, IdleCounts
  <2>6. ListenInv'
    BY <1>e, <1>n, <1>q, <2>1, <2>2, <2>4, EmptyQueue DEF ListenInv, Listening, Alive
  <2> QED
    BY <2>1, <2>4, <2>5, <2>6 DEF RestInv
<1>3. CASE GotAnswer
  <2>1. /\ UNCHANGED cmds /\ pp' = "idle"
        /\ Head(replies) \in {"restarted", "done", "capped", "error"}
        /\ result' = "batch" => Head(replies) \in {"done", "capped"}
    BY <1>3 DEF GotAnswer, TakesReply, Ends
  <2>2. /\ Answer(Head(replies)) /\ replies' = <<>>
    BY <1>a, <2>1 DEF Stages
  <2>3. main = "idle" /\ Alive /\ cmds = <<>> /\ items = <<>>
    BY <2>1, <2>2 DEF Answer, BaseInv, PassTypes, PlaceTypes, Working
  <2>4. ~cancelled /\ control = "read"
    BY <1>q, <2>3 DEF TalkInv, ListenInv, Listening
  <2>5. result' = "batch" => WholePass
    BY <2>1, <2>2 DEF Answer
  <2>6. TalkInv' /\ TallyInv'
    BY <1>c, <2>1, SilenceTalks
  <2> QED
    BY <1>e, <1>n, <2>1, <2>2, <2>3, <2>4, <2>5, <2>6 DEF RestInv, ListenInv, Listening
<1>4. CASE GotPage
  <2>1. UNCHANGED cmds /\ pp' = "sink" /\ Head(replies) = "page"
    BY <1>4 DEF GotPage, TakesReply
  <2>2. Answer("page") /\ replies' = <<>>
    BY <1>a, <2>1 DEF Stages
  <2>3. TalkInv' /\ TallyInv'
    BY <1>c, <2>1, SilenceTalks
  <2>4. ListenInv'
    BY <1>e, <1>n, <1>q, <2>1, <2>2, EmptyQueue DEF ListenInv, Listening, Alive, Answer
  <2> QED
    BY <2>1, <2>3, <2>4 DEF RestInv
<1> QED
  BY <1>1, <1>2, <1>3, <1>4

\* A page is counted as it is spooled, and the child told so feeds the next.
LEMMA SpoolTalks ==
    ASSUME BaseInv, Conversation, Spool
    PROVE  Conversation'
<1> USE DEF Conversation
<1>c. /\ UNCHANGED core /\ UNCHANGED tally /\ UNCHANGED <<known, replies>>
      /\ pp = "sink" /\ Send("spooled") /\ records' = records + 1
      /\ Alive => pp' = "wait"
      /\ ~Alive => pp' = "drain"
  BY DEF Spool, core, threads, book, Await, Finish
<1>e. UNCHANGED <<child, main, control, cancelled, items, ending>>
  BY <1>c DEF core, threads
<1>1. CASE ~Alive
  BY <1>1, <1>c, <1>e DEF TalkInv, TallyInv, RestInv, ListenInv, Listening, Alive
<1>2. CASE Alive
  <2>1. /\ known /\ main = "await" /\ cmds = <<>> /\ items = <<>> /\ replies = <<>>
        /\ control = "read" /\ ~cancelled /\ ending # "stopped"
    BY <1>2, <1>c DEF ListenInv, Listening, TalkInv, BaseInv, OwnerInv, PassTypes, PlaceTypes,
       Working
  <2>2. /\ TalkInv' /\ OneTask(cmds') /\ OneTask(items') /\ First("spooled")'
    BY <1>2, <1>c, <2>1, TaskTalks DEF Tasks
  <2>3. Fed /\ Owed /\ ending \notin {"done", "capped"}
    BY <1>2, <2>1 DEF TallyInv, First
  <2>4. Even' /\ Fed'
    BY <1>c, <2>3 DEF Owed, Even, Fed, tally
  <2>5. TallyInv'
    BY <1>e, <2>1, <2>2, <2>3, <2>4 DEF TallyInv, Moving
  <2>6. ListenInv'
    BY <1>2, <1>c, <1>e, <2>1, <2>2, EmptyQueue DEF ListenInv, Listening, Alive
  <2> QED
    BY <1>2, <1>c, <2>2, <2>5, <2>6 DEF RestInv
<1> QED
  BY <1>1, <1>2

\* A command to stop joins the queue behind whatever task is in it.
LEMMA StopTalks ==
    ASSUME BaseInv, Conversation, SendStop
    PROVE  Conversation'
<1> USE DEF Conversation
<1>c. /\ UNCHANGED core /\ UNCHANGED tally /\ UNCHANGED <<known, records>>
      /\ pp = "stop" /\ Send(asks) /\ pp' = "drain"
  BY DEF SendStop, core, threads, book, clocks
<1>e. UNCHANGED <<child, main, control, cancelled, items, ending>>
  BY <1>c DEF core, threads
<1>n. /\ NoRecords' = NoRecords /\ Even' = Even /\ Owed' = Owed /\ Unfed' = Unfed
      /\ Room' = Room /\ Fed' = Fed /\ WholePass' = WholePass
  BY <1>c, CountsKeep DEF tally
<1>a. asks \in Commands /\ asks \notin Tasks /\ cmds \in Seq(Commands)
  BY <1>c DEF BaseInv, SessionTypes, PassTypes, QueueTypes, Commands, Tasks
<1>1. CASE ~Alive
  BY <1>1, <1>c, <1>e DEF TalkInv, TallyInv, RestInv, ListenInv, Listening, Alive
<1>2. CASE Alive
  <2>1. cmds' = Append(cmds, asks)
    BY <1>2, <1>c DEF Send
  <2>2. /\ LeadsOnly(cmds) => LeadsOnly(cmds')
        /\ NoTasks(cmds) => NoTasks(cmds')
        /\ cmds' # <<>> /\ Head(cmds') = (IF cmds = <<>> THEN asks ELSE Head(cmds))
    BY <1>a, <2>1, JoinedQueue
  <2>3. \A c \in Tasks : First(c)' <=> First(c)
    BY <1>a, <1>e, <2>2 DEF First
  <2>4. TalkInv'
    BY <1>c, <1>e, <1>n, <2>2, <2>3 DEF TalkInv, Tasks, Alive
  <2>5. TallyInv'
    BY <1>c, <1>e, <1>n, <2>3 DEF TallyInv, Tasks, Alive
  <2> QED
    BY <1>c, <2>4, <2>5 DEF RestInv, ListenInv, Listening
<1> QED
  BY <1>1, <1>2

\* A session that ends its operation, or its child, or itself, says no more
\* than that; one that is only told to abort has not moved.
LEMMA LeavingTalks ==
    ASSUME BaseInv, Conversation,
           \/ GotFatal \/ SpoolFails \/ Aborted \/ ChildGone \/ MarkKill \/ StartFails
           \/ Deadline \/ Drained \/ CloseSession \/ SetAbort \/ Interrupt
    PROVE  Conversation'
<1> USE DEF Conversation
<1>c. UNCHANGED core /\ UNCHANGED tally /\ UNCHANGED <<known, records, cmds>>
  <2>1. CASE GotFatal \/ SpoolFails \/ Aborted \/ ChildGone \/ MarkKill \/ StartFails
    BY <2>1 DEF GotFatal, SpoolFails, Aborted, ChildGone, MarkKill, StartFails, core, threads,
       childVars, pipes, tally, book, clocks
  <2>2. CASE Deadline \/ Drained \/ CloseSession \/ SetAbort \/ Interrupt
    BY <2>2 DEF Deadline, Drained, CloseSession, SetAbort, Interrupt, core, threads,
       childVars, pipes, tally, book, clocks
  <2> QED
    BY <2>1, <2>2
<1>e. UNCHANGED <<child, main, control, cancelled, items, ending>>
  BY <1>c DEF core, threads
<1>n. NoRecords' = NoRecords /\ WholePass' = WholePass
  BY <1>c, CountsKeep DEF tally
<1>1. TalkInv' /\ TallyInv'
  BY <1>c, SilenceTalks
<1>2. CASE SetAbort
  <2>1. UNCHANGED <<pp, result, replies>>
    BY <1>2 DEF SetAbort, childVars, pipes
  <2>2. ListenInv'
    BY <1>c, <1>e, <1>n, <2>1 DEF ListenInv, Listening, Alive, Answer
  <2>3. RestInv'
    BY <1>c, <1>e, <1>n, <2>1 DEF RestInv
  <2> QED
    BY <1>1, <2>2, <2>3
<1>3. CASE ~SetAbort
  <2>1. /\ pp' \in {"idle", "stop", "drain", "end", "kill", "over"}
        /\ pp' = "idle" => result' \in {"signal", "error"} /\ (known' => result' = "signal")
    <3>1. CASE GotFatal \/ SpoolFails \/ Aborted \/ ChildGone \/ MarkKill \/ Deadline \/ Drained
               \/ CloseSession
      BY <3>1 DEF GotFatal, SpoolFails, Aborted, ChildGone, MarkKill, Deadline, Drained,
         CloseSession, StopWith, Finish, End
    <3>2. CASE StartFails
      BY <1>c, <3>2 DEF StartFails, Ends, BaseInv, OwnerInv
    <3>3. CASE Interrupt
      BY <3>3 DEF Interrupt, Unwinds, StopWith, End
    <3> QED
      BY <1>3, <3>1, <3>2, <3>3
  <2> QED
    BY <1>1, <2>1 DEF ListenInv, Listening, RestInv
<1> QED
  BY <1>2, <1>3

\* A session that no longer knows its child expects nothing of it.
LEMMA GoneTalks ==
    ASSUME BaseInv, Conversation, Kill \/ Reap \/ ProcessDies \/ InterruptStart
    PROVE  Conversation'
<1>1. ~known' /\ pp' \in {"idle", "over"} /\ (pp' = "idle" => result' # "batch")
  <2>1. CASE Kill \/ Reap
    BY <2>1 DEF Kill, Reap, Forget, BaseInv, OwnerInv
  <2>2. CASE ProcessDies \/ InterruptStart
    <3>1. CASE ProcessDies
      BY <3>1 DEF ProcessDies
    <3>2. CASE InterruptStart
      <4>1. pp = "start" /\ pp' = "idle" /\ result' = "signal" /\ known' = known
        BY <3>2 DEF InterruptStart, Ends
      <4>2. ~known
        BY <4>1 DEF BaseInv, OwnerInv
      <4> QED
        BY <4>1, <4>2
    <3> QED
      BY <2>2, <3>1, <3>2
  <2> QED
    BY <2>1, <2>2
<1> QED
  BY <1>1 DEF Conversation, TalkInv, TallyInv, ListenInv, Listening, RestInv

-----------------------------------------------------------------------------
(* The theorems of a session.                                              *)

SessionInv == BaseInv /\ Conversation

\* Nothing runs and nothing is known at first.
LEMMA SessionStarts == Init => SessionInv
<1> SUFFICES ASSUME Init PROVE SessionInv
  OBVIOUS
<1>1. QueueTypes /\ CountTypes
  BY DEF Init, ChildInit, QueueTypes, CountTypes, Cancels
<1>2. PlaceTypes /\ CallInv
  BY DEF Init, ChildInit, PlaceTypes, CallInv, Alive, Working
<1>3. SessionTypes /\ OwnerInv
  BY DEF Init, ChildInit, SessionTypes, TakenTypes, OwnerInv, Alive
<1>4. Conversation
  BY DEF Init, ChildInit, Conversation, TalkInv, TallyInv, ListenInv, RestInv, Listening
<1> QED
  BY <1>1, <1>2, <1>3, <1>4 DEF SessionInv, BaseInv, PassTypes

\* A step of the child keeps the session's invariant, whether the session
\* still knows it or not.
LEMMA ChildKeeps == SessionInv /\ ChildStep /\ UNCHANGED parentVars => SessionInv'
<1> SUFFICES ASSUME SessionInv, ChildStep, UNCHANGED parentVars PROVE SessionInv'
  OBVIOUS
<1> USE DEF SessionInv, BaseInv, Conversation
<1>1. PassTypes' /\ CallInv'
  BY MainTypes, ControlTypes, MainCalls, ControlCalls DEF ChildStep
<1>2. SessionTypes' /\ OwnerInv'
  BY ChildKeepsOwner DEF SessionTypes, TakenTypes, parentVars, clocks, book, world
<1>3. RestInv'
  BY ChildRests
<1>4. CASE known
  BY <1>1, <1>2, <1>3, <1>4, MainTalks, MainCounts, ControlTalks, ControlCounts DEF ChildStep
<1>5. CASE ~known
  <2>1. UNCHANGED <<pp, records, known>>
    BY DEF parentVars, clocks, book
  <2>2. ~known' /\ ~Listening
    BY <1>5, <2>1 DEF OwnerInv, Listening
  <2> QED
    BY <1>1, <1>2, <1>3, <2>1, <2>2 DEF TalkInv, TallyInv, ListenInv, Listening, NoRecords
<1> QED
  BY <1>4, <1>5

\* A step of the session keeps its invariant.
LEMMA OwnersKeepAll == SessionInv /\ Owners => SessionInv'
<1> SUFFICES ASSUME SessionInv, Owners PROVE SessionInv'
  OBVIOUS
<1>1. BaseInv /\ Conversation
  BY DEF SessionInv
<1>2. BaseInv'
  BY <1>1, OwnersTypes, OwnersSession, OwnersKeep DEF BaseInv
<1>3. Conversation'
  BY <1>1, AskTalks, StartTalks, ReplyTalks, SpoolTalks, StopTalks, LeavingTalks, GoneTalks
  DEF Owners, SessionStep
<1> QED
  BY <1>2, <1>3 DEF SessionInv

\* The inductive invariant of a scan session and its child, for any feeder, any
\* cap, and any number of operations and signals.
THEOREM SessionInvariant == Spec => []SessionInv
<1>1. Init => SessionInv
  BY SessionStarts
<1>2. SessionInv /\ [Next]_vars => SessionInv'
  <2> SUFFICES ASSUME SessionInv, [Next]_vars PROVE SessionInv'
    OBVIOUS
  <2>1. CASE ChildStep /\ UNCHANGED parentVars
    BY <2>1, ChildKeeps
  <2>2. CASE Owners
    BY <2>2, OwnersKeepAll
  <2>3. CASE UNCHANGED vars
    <3>1. UNCHANGED core /\ UNCHANGED <<cmds, known, records, replies, hungUp>>
          /\ UNCHANGED tally /\ UNCHANGED parentVars
      BY <2>3 DEF vars, childVars, parentVars, pipes, core, clocks, book
    <3>2. TalkInv' /\ TallyInv'
      BY <3>1, SilenceTalks DEF SessionInv, Conversation
    <3>3. BaseInv'
      <4>1. PassTypes'
        BY <3>1 DEF SessionInv, BaseInv, PassTypes, QueueTypes, PlaceTypes, CountTypes, Alive,
           core, threads, tally
      <4>2. CallInv'
        BY <3>1 DEF SessionInv, BaseInv, CallInv, Alive, core, threads
      <4>3. SessionTypes' /\ OwnerInv'
        BY <3>1 DEF SessionInv, BaseInv, SessionTypes, TakenTypes, OwnerInv, OneSignal,
           TwoSignals, Alive, core, parentVars, clocks, book, world
      <4> QED
        BY <4>1, <4>2, <4>3 DEF BaseInv
    <3>4. NoRecords' = NoRecords /\ WholePass' = WholePass
      BY <3>1, CountsKeep DEF tally
    <3>5. UNCHANGED <<pp, result, main, control, cancelled, items, child, ending>>
      BY <3>1 DEF core, threads, parentVars
    <3>6. ListenInv'
      BY <3>1, <3>4, <3>5 DEF SessionInv, Conversation, ListenInv, Listening, Answer, Alive
    <3>7. RestInv'
      BY <3>1, <3>4, <3>5 DEF SessionInv, Conversation, RestInv
    <3> QED
      BY <3>2, <3>3, <3>6, <3>7 DEF SessionInv, Conversation
  <2> QED
    BY <2>1, <2>2, <2>3 DEF Next, Owners
<1> QED
  BY <1>1, <1>2, PTL DEF Spec

\* A call that blocks in the scanner library can always be cut short, by its
\* alarm and by a cancel that was asked for.
THEOREM CallsAreCut == Spec => []CallsCanBeCut
<1>1. SessionInv => CallsCanBeCut
  BY DEF SessionInv, BaseInv, CallInv, CallsCanBeCut, SaneIsTimed, CancelFindsTheHandle, Stuck,
     InSane, Timed, Working, Published, Holding, Alive
<1> QED
  BY <1>1, SessionInvariant, PTL

\* No sheet moves before every page fed so far is spooled, and a pass returned
\* as whole took every sheet of the feeder, or as many as the cap.
THEOREM EveryPageCounts == Spec => []PagesAreCounted
<1>1. SessionInv => PagesAreCounted
  BY DEF SessionInv, Conversation, TallyInv, RestInv, PagesAreCounted, Moving, Even, WholePass,
     Alive
<1> QED
  BY <1>1, SessionInvariant, PTL

\* A child is never out of the session's hands, but for a signal in the fork's
\* own window or in the way out itself.
THEOREM ChildrenAreKept == Spec => []ChildIsAccountedFor
<1>1. SessionInv => ChildIsAccountedFor
  <2> SUFFICES ASSUME SessionInv PROVE ChildIsAccountedFor
    OBVIOUS
  <2>1. signals = 1 => ~TwoSignals
    BY DEF TwoSignals
  <2> QED
    BY <2>1 DEF SessionInv, BaseInv, OwnerInv, ChildIsAccountedFor, Alive
<1> QED
  BY <1>1, SessionInvariant, PTL

=============================================================================
