SPECIFICATION Spec
CONSTANTS
    Jobs = {j1, j2}
    Threads = {t1, t2}
    Workers = {w1, w2}
    Requests = {ask, chat}
    ResearchRequests = {ask}
    ChatRequests = {chat}
    Capacity = 1
    MaxStops = 0
    MaxDbErrors = 0
    None = None
SYMMETRY Symmetry
INVARIANTS
    RefusedIsClosed
