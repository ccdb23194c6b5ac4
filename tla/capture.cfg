CONSTANTS
    Times <- SomeTimes
    Buttons <- SomeButtons
    Presses = 2
    Deadline = 4
    MaxCalls = 2
SPECIFICATION FairSpec
INVARIANTS WrittenIsAcceptable NothingLeftBehind CompletedIsWhole
PROPERTIES KeepsFolder CallEnds
CHECK_DEADLOCK FALSE
