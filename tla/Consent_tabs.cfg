SPECIFICATION Spec
CONSTANTS
    tab1 = tab1
    tab2 = tab2
    Tabs = {tab1, tab2}
    Categories <- TheCategories
    Versions <- TheVersions
    MaxBatch = 2
    MaxStamp = 2
    MaxActs = 4
INVARIANTS
    TrackingIsConsented
    DecidedByVisitor
CHECK_DEADLOCK FALSE
