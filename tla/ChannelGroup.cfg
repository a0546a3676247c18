SPECIFICATION Spec
CONSTANTS
    Chan <- MCChan
    Serial <- MCSerial
    SerialsOf <- MCSerialsOf
    None = None
    a1 = a1
    a2 = a2
    b = b
    sa = sa
    sb = sb
    MaxMsg = 2
SYMMETRY MCSymmetry
INVARIANTS NoStaleEntry RoutedToCamera RegisteredFound
CHECK_DEADLOCK FALSE
