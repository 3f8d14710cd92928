SPECIFICATION Spec
CONSTANTS
    Listeners = {l1}
    MaxStreams = 2
    Sessions = {c1}
    Sizes = {8, 9}
    MinSize = 8
    MaxSize = 8
    Snappy = FALSE
INVARIANT RequestJudged
CHECK_DEADLOCK FALSE
