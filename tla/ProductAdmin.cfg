CONSTANTS
    Orders = {o1, o2}
    Slots = {c1, c2}
    Products = {p1}
    Quantities = {1, 2}
    Endpoints <- Kinds
    MaxStock = 2
    NoOrder = NoOrder
    NoRow = NoRow
    NoReq = NoReq
    o1 = o1
    o2 = o2
    c1 = c1
    c2 = c2
    p1 = p1

SPECIFICATION Spec
SYMMETRY Symmetry
INVARIANTS TypeOK NoWedgedRow
PROPERTIES NoTheft NoSaleUnderReservation
