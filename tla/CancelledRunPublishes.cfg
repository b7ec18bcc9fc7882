\* One process, one run.
CONSTANTS
    Runs = {r1}
    Processes = {p1}
    MaxFaults = 0
SPECIFICATION Spec
INVARIANTS UnsuccessfulPublishesNothing
