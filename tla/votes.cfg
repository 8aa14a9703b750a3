\* Three users, a scaling context, the interrupt and the worker.
CONSTANTS
    Threads = {t1, t2, t3}  Boot = t1  Senders = {t1, t2, t3}
    Scalers = {s1}
    Isr = Isr  Wq = Wq  NoProc = NoProc
    Levels = {3, 4}  BootLevel = 4  Floors = {0, 3}
    HasCoal = TRUE  ClockScaling = TRUE  TagMayFail = TRUE
SYMMETRY Symmetry
SPECIFICATION Spec
INVARIANTS TypeOK VoteConservation ClockedWhileVoted HwFollowsCount
PROPERTY GateSpec
