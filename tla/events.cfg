\* Two threads on a context whose timestamps wrap around at six.
CONSTANTS
    Threads = {t1, t2}
    Events = {e1, e2}  NoEvent = NoEvent
    Window = 3  Depth = 2
    Kinds = {"wait", "async"}
    UserTs = FALSE  WaitEnds = {"idle"}
SPECIFICATION FairSpec
INVARIANTS RetiredIsDone NoMissedEvent ContextHeld
PROPERTIES DeletedEmpty EventsFire WaitersReturn
