SPECIFICATION FairSpec
CONSTANTS
    Total = 3
    Blank = {3}
    Batch = 2
    Durable = TRUE
    MaxTries = 2
    Faults = {"api", "crash", "timeout", "file", "verify", "save", "endsave",
              "record", "dispatch", "delete"}
INVARIANTS TypeOK OutputsAreThere CompletedIsWhole
PROPERTIES ToldWhatIsRecorded ImplementsLifecycle
CHECK_DEADLOCK FALSE
