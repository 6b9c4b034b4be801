SPECIFICATION Spec
CONSTANTS
    a = a
    b = b
    v1 = v1
    v2 = v2
    Absent = Absent
    NotRecorded = NotRecorded
    Targets = {a, b}
    Bodies = {v1, v2}
    Ids = {1, 2}
    Plans <- SomePlans
    DirectWrites <- SomeDirect
INVARIANTS TypeOK OnePending AckedSurvives
PROPERTY ImplementsAtomicStore
