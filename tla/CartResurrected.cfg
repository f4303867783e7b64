CONSTANTS
    u1 = u1
    p1 = p1
    p2 = p2
    c1 = c1
    Users = {u1}
    Products = {p1, p2}
    Quantities = {1, 2}
    Prices = {1}
    Slots = {c1}
    Consumer = Consumer
    MaxLine = 2
    NoPrice = NoPrice
    NoReq = NoReq
    MaxStops = 0
    Faults = FALSE
SPECIFICATION Spec
PROPERTIES LinesAreAdded
