\* Every oracle on every order of writing, reading and ending of short logs.
SPECIFICATION Spec
CONSTANTS
    Unset = Unset
    None = None
    IdSpace = 4
    writer = writer
    reader = reader
    t1 = t1
    t2 = t2
    k1 = k1
    k2 = k2
    m1 = m1
    Cases <- MCCases
INVARIANTS ReadingOrderHarmless CitedEventsSuffice PassIsWhole
    UnrelatedOrderHarmless SliceSupportsArtifact ViewsAgree AccusationsAreLed
PROPERTIES ViolationStays
\* An execution that has ended takes no step.
CHECK_DEADLOCK FALSE
