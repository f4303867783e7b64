CONSTANTS
    u1 = u1
    p1 = p1
    p2 = p2
    c1 = c1
    c2 = c2
    Users = {u1}
    Products = {p1, p2}
    Quantities = {1}
    Prices = {1}
    Slots = {c1, c2}
    Consumer = Consumer
    MaxLine = 1
    NoPrice = NoPrice
    NoReq = NoReq
    MaxStops = 0
    Faults = TRUE
SPECIFICATION Spec
SYMMETRY Symmetry
INVARIANTS TypeOK
PROPERTIES LinesComeBackOnlyOvertaken CartsSpec
