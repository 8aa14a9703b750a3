\* Two objects, an ioctl at a time, and a fence; the fences are independent.
CONSTANTS
    Callers = {c1}  Objs = {o1, o2}  Fences = {f1}
    MaxSeqno = 2
SPECIFICATION FairSpec
INVARIANTS References NoLostFence
PROPERTIES QueryMonotone FencesEnd
