SPECIFICATION FairSpec
CONSTANTS
    tab1 = tab1
    tab2 = tab2
    ada = ada
    ben = ben
    Tabs = {tab1, tab2}
    Users = {ada}
    Keys = {1, 2}
    MaxActs = 4
INVARIANTS
    SessionInv
    ConvergedIdentity
PROPERTIES
    GuestStaysHome
    
CHECK_DEADLOCK FALSE
