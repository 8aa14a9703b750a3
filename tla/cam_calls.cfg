\* Two threads, two groups of the same two children, and merges that do not fail.
CONSTANTS
    Rows = {r1, r2, r3, r4}  Singles = {r1, r2}  Threads = {t1, t2}  Closer = closer
    NoRow = NoRow  Free = Free
    Kinds = {}  Statuses = {"success"}
    MaxNotes = 0  Drivers = {d1}
    Closable = FALSE  Wrap = 8
SPECIFICATION CarefulSpec
PROPERTIES CallsReturn GroupsEnd
