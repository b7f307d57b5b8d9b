SPECIFICATION Spec
CONSTANTS
    State = {s0, s1, s2}
    Initial = s0
    Absent = Absent
    Torn = Torn
INVARIANTS TypeOK AckedSurvives
PROPERTIES AtomicSpec
