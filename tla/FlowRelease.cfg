CONSTANTS
    o1 = o1
    o2 = o2
    p1 = p1
    p2 = p2
    c1 = c1
    c2 = c2
    h1 = h1
    Orders = {o1, o2}
    Products = {p1}
    Slots = {c1, c2}
    Handlers = {h1}
    Quantities = {1, 2, 3}
    Items <- OneItem
    Stock <- ThreeUnits
    MaxStock = 3
    MaxResults = 1
    MaxDeliveries = 2
    SlowCalls = {"reserve"}
    Faults = TRUE
    NoOrder = NoOrder
    NoRow = NoRow
    NoReq = NoReq
    NoSlot = NoSlot
SPECIFICATION ReleaseSpec
CHECK_DEADLOCK FALSE
PROPERTIES ReleasedInTheEnd ProductServiceSpec
