\* Clients that are activated synchronously, one call at a time on each.
CONSTANTS
    Clients = {apps, modem}  NoClient = NoClient
    Callers = {k1, k2}
    SkipVote = {modem}  Apps = {apps}
    Ops = {"activate_sync", "deferred", "deactivate_sync", "all", "deregister"}
    Exclusive = TRUE  VoteBound = 3
SYMMETRY Symmetry
SPECIFICATION Spec
INVARIANTS TypeOK VotesBalanced NoWakeLeak NoUnexpectedState TimerCovered AggregateCurrent
