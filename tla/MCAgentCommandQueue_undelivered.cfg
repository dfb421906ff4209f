SPECIFICATION Spec

CONSTANTS
    Commands = {c1}
    Probes = {}
    Agents = {a1, a2}
    Pulls = {t1, t2}
    NoCommand = NoCommand
    NoPull = NoPull
    TTL = 2
    Requeue = 1
    Limit = 1
    Horizon = 4

INVARIANTS UndeliveredNeverRan
