\* Every command, a service and the files of MCProcess.
CONSTANTS
    Files <- MCFiles
    Defaults <- MCDefaults
    Half = 8
    Millisecond = 3
    Second = 6
    MaxPort = 6
    MaxSections = 3
    Unset = Unset
    Junk = Junk
    NoConfig = NoConfig
    Retries = 2
    ProbeNames = {1, 3}
SPECIFICATION ProcessFairSpec
INVARIANTS
    QuotesAgree
    UpstreamsInOrder
    TimesAsWritten
PROPERTIES
    ListenerFailureEndsDaemon
