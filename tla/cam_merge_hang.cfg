\* A merge of a group fails.
CONSTANTS
    Rows = {r1, r2, r3}  Singles = {r1, r2, r3}  Threads = {t1, t2}  Closer = closer
    NoRow = NoRow  Free = Free
    Kinds = {}  Statuses = {"success"}
    MaxNotes = 0  Drivers = {}
    Closable = FALSE  Wrap = 8
SPECIFICATION FairSpec
CHECK_DEADLOCK FALSE
PROPERTY CallsReturn
