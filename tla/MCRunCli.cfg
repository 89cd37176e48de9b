\* One line a pipe, so that the child blocks.
SPECIFICATION FairRunSpec
CHECK_DEADLOCK FALSE
CONSTANTS
    PipeSize = 1
    Silence = 2
    Cap = 2
INVARIANTS
    RunTypeOK
    OnlySilenceIsEnded
    ResultIsWhole
    HandleIsTold
PROPERTIES
    IsSubagent
    RunReturns
    WriterGoesOn
