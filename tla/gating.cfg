\* Liveness: two users, the interrupt and the worker, without symmetry.
CONSTANTS
    Threads = {t1, t2}  Boot = t1  Senders = {}
    Scalers = {}
    Isr = Isr  Wq = Wq  NoProc = NoProc
    Levels = {4}  BootLevel = 4  Floors = {}
    HasCoal = TRUE  ClockScaling = TRUE  TagMayFail = TRUE
SPECIFICATION FairSpec
PROPERTIES GatedWhenUnused DeferredIrqServed VoteGranted
