\* One driver that activates and deactivates in turn.
CONSTANTS
    Clients = {apps}  NoClient = NoClient
    Callers = {k1}
    SkipVote = {}  Apps = {apps}
    Ops = {"activate", "deactivate_sync"}
    Exclusive = TRUE  VoteBound = 3
SPECIFICATION Spec
INVARIANT NoVoteUnderflow
