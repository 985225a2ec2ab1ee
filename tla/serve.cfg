CONSTANTS
    Listener = {c1}
    MaxTexts = 3
    MaxOutput = 1
    ListenerMax = 2
    Saver = {s1, s2}
    MaxSaves = 2
    MaxTime = 1
    MaxDeaths = 1
    Workload <- Workloads
SPECIFICATION FairServerSpec
CHECK_DEADLOCK FALSE
INVARIANTS TextsInOrder MissesOnlyDropped  SeedTurnsNotOlder
PROPERTIES TextIsAnswered
