CONSTANTS
    MaxSends = 3
    MaxFaults = 4
    MaxCommands = 4
SPECIFICATION FairSpec
INVARIANTS HandedInIsUploaded ProcessedIsSettled HandInIsFinal
PROPERTIES KeepsFolder AnnouncedIsAnswered
CHECK_DEADLOCK FALSE
