SPECIFICATION Spec
CONSTANTS
    Jobs = {1}
    NoJob = NoJob
    Clicks = {c1}
CHECK_DEADLOCK FALSE
PROPERTIES
    ClicksAnswerAskedPrompts
