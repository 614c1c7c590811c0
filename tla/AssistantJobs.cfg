SPECIFICATION FairSpec
CONSTANTS
    Jobs = {j1, j2}
    Threads = {t1, t2}
    Workers = {w1, w2}
    Requests = {ask, chat}
    ResearchRequests = {ask}
    ChatRequests = {chat}
    Capacity = 1
    MaxStops = 1
    MaxDbErrors = 1
    None = None
INVARIANTS
    TypeOK
    OneJobPerRequest
    PersistMirrorsJob
    AtMostOneWorker
    RefusedNeverRuns
    SettledStages
    OpenJobsAreHeld
    ExchangeIsAnswered
PROPERTIES
    ImplementsLedger
    AcceptedSettles
