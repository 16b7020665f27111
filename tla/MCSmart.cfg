SPECIFICATION MCSmartSpec
CONSTANTS
    NumEntries = 3
    Domains = {d1, d2}
    Valid = {1, 3}
    Asked = {d1}
    Callers = {c1, c2}
    Configs <- MCConfigs
    Leftovers <- MCLeftovers
    BadDns = {"broken"}
    Clients = {c1, c2}
    Names = {"example", "Example"}
    Types = {"A", "AAAA"}
    CacheCap = 1
    Junk = 1
INVARIANTS
    ResolverVetted
    SearchSound
    AnswersAskedQuestion
PROPERTIES
    IsHonestRace
    RaceWaitIsBounded
CHECK_DEADLOCK FALSE
