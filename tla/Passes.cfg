SPECIFICATION PassesSpec
CONSTANTS
    Shapes <- MCShapes
    DocumentCap = 2
    Clicks = {c1, c2}
    TerminalPasses = 3
    Offers <- MCOffers
    Modes = {gray}
    Resolutions <- MCResolutions
    Profiles <- MCProfiles
SYMMETRY Symmetry
CHECK_DEADLOCK FALSE
INVARIANTS
    UploadIsWhatWasDecided
    PagesSurvive
    AnswersMeanIt
    AckIsNotStale
    SidesAsAsked
    FramingIsTrue
