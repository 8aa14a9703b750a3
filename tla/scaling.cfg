\* Registration, exceptions, throughputs and the vote, with two contexts that
\* scale at a time.
CONSTANTS
    usb = usb  rmnet = rmnet
    Names = {usb, rmnet}  NoName = NoName
    Group <- Groups  SkipVote = {rmnet}
    MaxClients = 2  Pipes = {p1}  MaxTput = 1
    DefaultThreshold <- LowHigh  Exceptions <- ListAndOne
    Contexts = {k1, k2}
SYMMETRY Symmetry
SPECIFICATION Spec
INVARIANTS VoteCurrent TableExact ExceptionSound RisesTogether
