\* One process, two runs, two crashes.
CONSTANTS
    Runs = {r1, r2}
    Processes = {p1}
    MaxFaults = 2
SPECIFICATION FairSpec
INVARIANTS TypeOK RecordedArtifactsExist
PROPERTIES LifecycleOnlyAdvances RunningSettles
