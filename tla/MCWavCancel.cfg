SPECIFICATION Spec
CONSTANTS
    MaxExports = 2
    Threads = {t1, t2}
    t1 = t1
    t2 = t2
    keepPartial = FALSE
    MaxMishaps = 1
CHECK_DEADLOCK FALSE
SYMMETRY ThreadSymmetry
CONSTRAINT FewMishaps
INVARIANT CancelDeletes
