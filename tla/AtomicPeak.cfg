SPECIFICATION PeakSpec
CONSTANTS
    Threads = {t1, t2, t3}
    MaxGauge = 3
INVARIANT
    PeakExact
PROPERTY
    UpdateReturns
