CONSTANTS
    p1 = p1
    p2 = p2
    k1 = k1
    k2 = k2
    Partitions = {p1, p2}
    Payloads <- Unlabelled
    Subtasks = {k1, k2}
    Reader <- OnePerSubtask
    Labels = {"default"}
    Width = 2
    MaxTime = 4
    MaxRestarts = 1
    MaxEvents = 2
    JobFaults = {"crash", "submit", "store"}
SPECIFICATION FairSpec
CHECK_DEADLOCK FALSE
INVARIANTS TypeOK ReadIsKept CountedOnce
PROPERTIES NeverForgotten PassedIsPersisted
