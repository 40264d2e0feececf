SPECIFICATION Spec
CONSTANTS
    t1 = t1
    t2 = t2
    t3 = t3
    Timer = {t1, t2, t3}
    None = None
    W = 8
    Time = {0, 2}
    Stoppable = {t1}
    Settable = {t1}
    Recreated = {t1}
    CallbackSetsOneshot = FALSE
SYMMETRY MCSymmetry
INVARIANTS
    TimersConsistent
    NeverLate
    FiringOrder
PROPERTIES
    NeverEarly
