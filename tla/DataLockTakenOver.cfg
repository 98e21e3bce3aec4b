SPECIFICATION Spec
CONSTANTS
    Pids = {1, 2, 3}
    MaxStarts = 2
    MaxEvents = 1
INVARIANT OneHolder
CHECK_DEADLOCK FALSE
