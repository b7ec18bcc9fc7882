\* Up to three swaps as the T112 bridge hands them over, filled one block later.
SPECIFICATION Spec
CHECK_DEADLOCK FALSE
CONSTANTS
    Kinds = {"SWAP"}
    react_to_kinds = {"SWAP"}
    fill_data_kinds = {"SWAP"}
    MaxTime = 3
    MaxEvents = 3
    Manifests <- BridgeManifests
    Latencies = {1}
    Schedules = {{}}
INVARIANTS FillsWaitForTheirData
