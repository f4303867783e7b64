CONSTANTS
    u1 = u1
    u2 = u2
    p1 = p1
    c1 = c1
    Users = {u1, u2}
    Products = {p1}
    Quantities = {1, 2}
    Prices = {1}
    Slots = {c1}
    Consumer = Consumer
    MaxLine = 2
    NoPrice = NoPrice
    NoReq = NoReq
    MaxStops = 1
    Faults = TRUE
SPECIFICATION LiveSpec
PROPERTIES SweptFromCarts CartsSpec
