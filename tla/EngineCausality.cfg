\* Three events over three blocks, of which the last may be a shutdown marker.
SPECIFICATION Spec
CHECK_DEADLOCK FALSE
CONSTANTS
    Kinds = {"SWAP", "OBSERVATION"}
    react_to_kinds = {"SWAP"}
    fill_data_kinds = {"SWAP", "OBSERVATION"}
    MaxTime = 3
    MaxEvents = 3
    Manifests <- MCManifests
    Latencies = {0, 1}
    Schedules = {{}, {3}}
INVARIANTS TypeOK ApprovalsSettleOnce DecisionsSeeDueFills
