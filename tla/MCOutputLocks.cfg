CONSTANT MaxEvents = 3
SPECIFICATION Spec
INVARIANTS TypeOK OnlyPanicsSpin WritersApart
PROPERTY PanicReachesSerial
