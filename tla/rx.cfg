\* Polls on two CPUs, on each kind of hardware.
CONSTANTS
    Cpus = {c1, c2}  Gate = gate
    Cap = 2
    Hw = {"plain", "pair", "check"}
SPECIFICATION FairSpec
INVARIANTS VotesOwned WakelockBalanced NoEventForgotten
PROPERTIES EventsReceived
