SPECIFICATION Spec
CONSTANTS
    q1 = q1
    q2 = q2
    t1 = t1
    t2 = t2
    Malformed = Malformed
    Null = Null
    Entries <- MCEntries
    Tenants <- MCTenants
    Cases <- MCCases
    MaxTime = 2
SYMMETRY Symmetry
INVARIANTS
    TypeOK
    UrgentFirst
    HighMeansUrgent
    SummaryAddsUp
    SlaExact
PROPERTY
    UnknownStatusContained
