CONSTANTS
    s1 = s1
    txt = txt
    b1 = b1
    b2 = b2
    c1 = c1
    c2 = c2
    p1 = p1
    Sources = {s1, txt}
    ImageSources = {s1}
    Bases = {b1, b2}
    Base <- OwnBases
    Pictures <- TwoPictures
    Workers = {c1, c2}
    Partitions = {p1}
    MaxUploads = 2
    MaxDeliveries = 1
    MaxAttempts = 2
    MaxBatch = 2
    MaxUnsent = 1
    Faults = {"stop", "s3"}
SPECIFICATION FairSpec
VIEW Unordered
CHECK_DEADLOCK FALSE
INVARIANTS TypeOK EventMeansObject NoPartOfARefusedPicture CentredInFrame SettledIsCurrent
PROPERTIES ProcessedInTheEnd
