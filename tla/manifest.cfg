CONSTANTS
    Times <- SomeTimes
    Buttons <- SomeButtons
SPECIFICATION Spec
INVARIANTS AcceptsTheWindow
PROPERTIES RefusalIsFinal
CHECK_DEADLOCK FALSE
