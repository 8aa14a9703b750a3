\* The suspend of the AP against every call but the synchronous deactivation,
\* overlapping freely on one client.
CONSTANTS
    Clients = {apps}  NoClient = NoClient
    Callers = {k1, k2}
    SkipVote = {}  Apps = {apps}
    Ops = {"activate", "activate_sync", "deferred", "all", "deregister"}
    Exclusive = FALSE  VoteBound = 2
SPECIFICATION FairSpec
PROPERTIES Settles ProgressEnds
