\* The device is closed while a driver signals; a merge that fails leaves a row
\* locked for ever.
CONSTANTS
    Rows = {r1, r2, r3}  Singles = {r1, r2}  Threads = {t1}  Closer = closer
    NoRow = NoRow  Free = Free
    Kinds = {"kernel", "user"}  Statuses = {"success"}
    MaxNotes = 1  Drivers = {d1}
    Closable = TRUE  Wrap = 8
SPECIFICATION Spec
SYMMETRY Symmetry
CHECK_DEADLOCK FALSE
INVARIANTS GroupWaits NobodyForgotten
PROPERTIES FailureSticks 
