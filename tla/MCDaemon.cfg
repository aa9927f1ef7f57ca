\* Two reloads of a one-upstream configuration, a query and a status
\* document across them.
CONSTANTS
    Names = {"main"}
    Fallback = "fallback"
    Endpoints = {"server1", "server2"}
    Absent = Absent
    Configs <- MCConfigs
    InitialConfig <- MCInitialConfig
    Requests = {r1}
    NoGen = NoGen
    MaxReloads = 2
    CountCap = 2
SPECIFICATION DaemonSpec
INVARIANTS
    DaemonTypeOK
    CancelledProbesDoNotCount
    EvidenceFromOwnEndpoint
    RunsValidConfig
    OneScheduler
    NoReloadLost
    StatusCoherent
PROPERTIES
    ThresholdsApply
    HealthSurvivesReload
