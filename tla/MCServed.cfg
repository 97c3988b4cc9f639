SPECIFICATION Spec
CONSTANTS
    c1 = c1
    c2 = c2
    Nobody = Nobody
PROPERTY OwnerIsServed
PROPERTY StopsAreSeen
CHECK_DEADLOCK FALSE
