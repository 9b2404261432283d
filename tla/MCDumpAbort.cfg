SPECIFICATION Spec
CONSTANTS
    Rate = 1
    PeriodSec = 3
    Lengths = {6, 11}
    MaxTime = 8
    MaxEvents = 4
    NoTime = NoTime
INVARIANT DestroyAssertion
