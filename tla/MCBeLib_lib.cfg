CONSTANTS
    n1 = n1
    n10 = n10
    n2 = n2
    None = None
    Nodes = {n1, n10, n2}
    NameOf <- MCNameOf
    Domain = ".site"
    ListOrder <- MCListOrder
    MapOrder <- MCMapOrder
    Envs <- MCEnvs
    Digits = {"0", "1", "2"}
    MaxTries = 2
    MaxCalls = 2
SPECIFICATION LiveLSpec
INVARIANTS ReportsOwnTasks AttribsWhole CountsRight
PROPERTIES OnlyStartedAnswers FindReturns
