SPECIFICATION Spec
CONSTANTS
    Sites = {s1}
    Hosts = {h1}
    Versions = {v1, v2}
    Fields = {process, worker}
    Anchors = {process}
    Pointers = {x}
    Users = {u1}
    Roles = {admin}
    Gateways = {1}
    Scores = {1}
    Weights = {1}
    Regions = {eu}
    Domains = {d1}
    Covers <- MCCovers
    DomainLists <- MCDomainLists
    Resolvers = {r1}
    PiiKeys = {u1}
    MaxUnsaved = 1
    Unset = Unset
    NoVal = NoVal
    Bad = Bad
    Torn = Torn
SYMMETRY MCSymmetry
INVARIANTS
    AnsweredSurvives
    FlagEnforced
    FlagVisible
    RoutedAsAnswered
