SPECIFICATION Spec
CONSTANTS
    Deepest = 1
    Candidates <- MCCandidates
    Dirs = {usr, local, shout}
    Spellings <- MCSpellings
    Servers = {s1, s2}
    MaxPath = 2
    usr = usr
    local = local
    shout = shout
    s1 = s1
    s2 = s2
INVARIANTS
    TypeOK
    ActiveFirst
    InactiveOff
    OthersKept
    ServersFollow
