CONSTANTS
    o1 = o1
    o2 = o2
    p1 = p1
    p2 = p2
    c1 = c1
    c2 = c2
    h1 = h1
    h2 = h2
    Orders = {o1}
    Products = {p1}
    Slots = {c1, c2}
    Handlers = {h1, h2}
    Quantities = {1, 2}
    Items <- Single
    Stock <- TwoUnits
    MaxStock = 3
    MaxResults = 2
    MaxDeliveries = 2
    SlowCalls = {}
    Faults = FALSE
    NoOrder = NoOrder
    NoRow = NoRow
    NoReq = NoReq
    NoSlot = NoSlot
SPECIFICATION Spec
CHECK_DEADLOCK FALSE
PROPERTIES SettlesOnce
