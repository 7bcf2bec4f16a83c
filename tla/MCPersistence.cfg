\* Any records to begin with, SETs that may fail half-way, restarts, and a GET
\* before g_controller is published that lets one SET past its second lock in
\* each run of the daemon.
CONSTANTS
    MinTTL = 1
    MaxTTL = 300
    MinInterval = 60
    MaxInterval = 3600
    DefaultTTL = 30
    DefaultInterval = 900
    Number <- StoredNumbers
    Asked <- AskedNumbers
    MaxSets = 2
    MaxStray = 1
    MaxCrashes = 2
SPECIFICATION Spec
INVARIANTS
    TypeOK
    SettingsInRange
    PollerFollowsConfig
    SuccessStoresAll
    RestartKeepsSettings
CHECK_DEADLOCK FALSE
