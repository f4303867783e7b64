CONSTANTS
    s1 = s1
    b1 = b1
    c1 = c1
    p1 = p1
    k1 = k1
    Sources = {s1}
    ImageSources = {s1}
    Bases = {b1}
    Base <- OneBase
    Pictures <- OnePicture
    Workers = {c1}
    MaxUploads = 1
    MaxDeliveries = 1
    MaxAttempts = 2
    MaxBatch = 1
    MaxUnsent = 1
    Faults = {"stop"}
    Partitions = {p1}
    Payloads <- Published
    Subtasks = {k1}
    Reader <- OneForAll
    Labels = {"default"}
    Width = 1
    MaxTime = 2
    MaxRestarts = 1
    MaxEvents = 0
    JobFaults = {"submit", "crash"}
SPECIFICATION PipelineSpec
PROPERTIES DrivesTheJob
CHECK_DEADLOCK FALSE
INVARIANTS CountedIsStored
