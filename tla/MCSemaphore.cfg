CONSTANTS
    c1 = c1
    c2 = c2
    c3 = c3
    c4 = c4
    c5 = c5
    Clients <- MCClients
    Permits = 2
SPECIFICATION FairSpec
INVARIANTS
    TypeOK
    Conservation
    WorkConserving
PROPERTIES
    NoBarging
    NoStarvation
