\* The watchdogs with a poll loop, and with hooks only. The bound on calls ends the run.
SPECIFICATION FairSpec
CONSTANTS
    Flows = {f1, f2}
    ToolOf <- ToolName
    Settings <- All
    MaxCalls = 5
INVARIANTS
    BooksAreRight
    NothingSlipsThrough
PROPERTIES
    StallIsReported
CHECK_DEADLOCK FALSE
