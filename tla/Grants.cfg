SPECIFICATION Spec
CONSTANTS
    a1 = a1
    a2 = a2
    g1 = g1
    Account = {a1, a2}
    User = {u1}
    Section = {g1}
    Gallery = {g1}
    Item <- MCItem
    Request = {r1, r2}
SYMMETRY Requests
CONSTRAINT TwoAtATime
CHECK_DEADLOCK FALSE
INVARIANTS TypeOK 
PROPERTY UpdateIsExact
