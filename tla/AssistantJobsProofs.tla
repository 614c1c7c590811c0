------------------------ MODULE AssistantJobsProofs ------------------------
(***************************************************************************)
(* What holds of AssistantJobs for every number of jobs, requests, threads *)
(* and workers, every capacity and every number of crashes and failed      *)
(* transactions.                                                           *)
(***************************************************************************)
EXTENDS AssistantJobs, SequenceTheorems, TLAPS

-----------------------------------------------------------------------------
(* Type correctness.                                                        *)

StageRows == [Stages -> StageStatuses]

LEMMA StageRowsTyped ==
    /\ \A r \in Requests : InitialStages(r) \in StageRows
    /\ \A rows \in StageRows :
          /\ \A s \in Stages : StartStage(rows, s) \in StageRows
          /\ \A s \in Stages, v \in Terminal : FinishStage(rows, s, v) \in StageRows
          /\ FailUnfinishedStages(rows) \in StageRows
          /\ FailOpenStages(rows) \in StageRows
    BY DEF InitialStages, StartStage, FinishStage, FailUnfinishedStages, FailOpenStages,
           Stages, StageStatuses, Terminal, Unfinished, StageRows

LEMMA Literals ==
    /\ "research" \in Stages /\ "model" \in Stages /\ "persist" \in Stages
    /\ "succeeded" \in Terminal /\ "failed" \in Terminal
    /\ Terminal \subseteq JobStatuses /\ "queued" \in JobStatuses /\ "running" \in JobStatuses
    BY DEF Stages, Terminal, JobStatuses, OpenStatuses

LEMMA HeldJob ==
    ASSUME TypeOK, NEW w \in Workers, Holding(w)
    PROVE  wjob[w] \in Jobs
    BY DEF TypeOK, WorkerTypeOK

LEMMA OwnJob ==
    ASSUME TypeOK, NEW t \in Threads, HasRow(t)
    PROVE  own[t] \in Jobs
    BY DEF TypeOK, ThreadTypeOK

LEMMA ThreadRequest ==
    ASSUME TypeOK, NEW t \in Threads, pc[t] # "idle"
    PROVE  req[t] \in Requests
    BY DEF TypeOK, ThreadTypeOK

\* A statement on one job's stage rows.
LEMMA StagesUpdated ==
    ASSUME TypeOK, NEW j \in Jobs, NEW rows \in StageRows,
           stage' = [stage EXCEPT ![j] = rows],
           UNCHANGED <<status, crid, exchange>>
    PROVE  DbTypeOK'
    BY DEF TypeOK, DbTypeOK, StageRows

LEMMA StageOf == ASSUME TypeOK, NEW j \in Jobs PROVE stage[j] \in StageRows
    BY DEF TypeOK, DbTypeOK, StageRows

LEMMA JobFinished ==
    ASSUME TypeOK, NEW j \in Jobs, NEW v \in Terminal, FinishJob(j, v),
           UNCHANGED <<crid, exchange>>
    PROVE  DbTypeOK'
<1>1. FinishStage(stage[j], "persist", v) \in StageRows
    BY StageOf, StageRowsTyped, Literals
<1>. QED  BY <1>1, Literals DEF TypeOK, DbTypeOK, FinishJob, StageRows

LEMMA TypeInit == Init => TypeOK
<1> SUFFICES ASSUME Init PROVE TypeOK
    OBVIOUS
<1>1. DbTypeOK       BY DEF Init, DbTypeOK, JobStatuses, StageStatuses
<1>2. ProcessTypeOK  BY EmptySeq DEF Init, ProcessTypeOK
<1>3. ThreadTypeOK   BY DEF Init, ThreadTypeOK, ThreadPcs, HasRow
<1>4. WorkerTypeOK   BY DEF Init, WorkerTypeOK, WorkerPcs, Holding
<1>5. HistoryTypeOK  BY JobsAssumption DEF Init, HistoryTypeOK
<1>. QED  BY <1>1, <1>2, <1>3, <1>4, <1>5 DEF TypeOK

\* A handler step of a worker: new stage rows for its job, a new place in the code.
LEMMA TypeHandler ==
    ASSUME TypeOK, NEW w \in Workers, NEW rows \in StageRows, Holding(w),
           stage' = [stage EXCEPT ![wjob[w]] = rows] \/ UNCHANGED stage,
           NEW next \in WorkerPcs, WorkerGoes(w, next),
           NEW f \in BOOLEAN, failing' = [failing EXCEPT ![w] = f] \/ UNCHANGED failing,
           HandlerFrame
    PROVE  TypeOK'
<1>1. DbTypeOK'
    BY HeldJob, StagesUpdated DEF HandlerFrame, TypeOK, DbTypeOK
<1>2. ProcessTypeOK'  BY DEF TypeOK, HandlerFrame, processVars, ProcessTypeOK
<1>3. ThreadTypeOK'   BY DEF TypeOK, HandlerFrame, threadVars, ThreadTypeOK, HasRow
<1>4. WorkerTypeOK'   BY DEF TypeOK, HandlerFrame, WorkerTypeOK, Holding, WorkerGoes
<1>5. HistoryTypeOK'  BY DEF TypeOK, HandlerFrame, historyVars, boundVars, HistoryTypeOK
<1>. QED  BY <1>1, <1>2, <1>3, <1>4, <1>5 DEF TypeOK

LEMMA TypeWorker ==
    ASSUME TypeOK, NEW w \in Workers, WorkerStep(w) \/ WorkerDbError(w)
    PROVE  TypeOK'
<1>1. CASE LoopHead(w)
    <2>1. DbTypeOK' /\ ProcessTypeOK' /\ ThreadTypeOK' /\ HistoryTypeOK'
        BY <1>1 DEF LoopHead, TypeOK, dbVars, processVars, threadVars, historyVars, boundVars,
                    DbTypeOK, ProcessTypeOK, ThreadTypeOK, HasRow, HistoryTypeOK
    <2>2. WorkerTypeOK'
        BY <1>1 DEF LoopHead, TypeOK, WorkerTypeOK, Holding, WorkerGoes, WorkerPcs
    <2>. QED  BY <2>1, <2>2 DEF TypeOK
<1>2. CASE Get(w)
    <2>1. DbTypeOK' /\ ThreadTypeOK' /\ HistoryTypeOK'
        BY <1>2 DEF Get, TypeOK, dbVars, threadVars, historyVars, boundVars,
                    DbTypeOK, ThreadTypeOK, HasRow, HistoryTypeOK
    <2>2. queue # <<>> => Head(queue) \in Jobs /\ Tail(queue) \in Seq(Jobs)
        BY HeadTailProperties DEF TypeOK, ProcessTypeOK
    <2>3. ProcessTypeOK'
        BY <1>2, <2>2 DEF Get, TypeOK, ProcessTypeOK
    <2>4. WorkerTypeOK'
        <3>1. Head(queue) # None \/ queue = <<>>
            BY <2>2, JobsAssumption
        <3>. QED  BY <1>2, <2>2, <3>1
                  DEF Get, TypeOK, WorkerTypeOK, Holding, WorkerGoes, WorkerPcs
    <2>. QED  BY <2>1, <2>3, <2>4 DEF TypeOK
<1>3. CASE Claim(w)
    <2>1. wjob[w] \in Jobs
        BY <1>3, HeldJob DEF Claim, Holding
    <2>2. DbTypeOK'
        BY <1>3, <2>1, Literals DEF Claim, TypeOK, DbTypeOK
    <2>3. ProcessTypeOK' /\ ThreadTypeOK'
        BY <1>3 DEF Claim, TypeOK, processVars, threadVars, ProcessTypeOK, ThreadTypeOK, HasRow
    <2>4. WorkerTypeOK'
        BY <1>3 DEF Claim, TypeOK, WorkerTypeOK, Holding, WorkerGoes, WorkerPcs
    <2>5. HistoryTypeOK'
        BY <1>3, <2>1 DEF Claim, TypeOK, HistoryTypeOK, boundVars
    <2>. QED  BY <2>2, <2>3, <2>4, <2>5 DEF TypeOK
<1>4. ASSUME wpc[w] \in {"handler", "research", "model_start", "calling", "model_finish",
                         "fail_rest", "persist_start"},
             WorkerStep(w)
      PROVE  TypeOK'
    <2>1. Holding(w)
        BY <1>4 DEF Holding
    <2>2. wjob[w] \in Jobs /\ stage[wjob[w]] \in StageRows
        BY <2>1, HeldJob, StageOf
    <2>3. CASE HandlerStart(w)
        <3>1. StartStage(stage[wjob[w]], "research") \in StageRows
            BY <2>2, StageRowsTyped, Literals
        <3>. QED  BY <2>1, <2>2, <2>3, <3>1, TypeHandler DEF HandlerStart, WorkerPcs
    <2>4. CASE HandlerGivesUp(w)
        BY <2>1, <2>2, <2>4, TypeHandler DEF HandlerGivesUp, WorkerPcs
    <2>5. CASE Research(w)
        <3>1. \A v \in Terminal : FinishStage(stage[wjob[w]], "research", v) \in StageRows
            BY <2>2, StageRowsTyped, Literals
        <3>. QED  BY <2>1, <2>2, <2>5, <3>1, TypeHandler DEF Research, WorkerPcs
    <2>6. CASE ModelStart(w)
        <3>1. StartStage(stage[wjob[w]], "model") \in StageRows
            BY <2>2, StageRowsTyped, Literals
        <3>. QED  BY <2>1, <2>2, <2>6, <3>1, TypeHandler DEF ModelStart, WorkerPcs
    <2>7. CASE ModelAnswers(w)
        BY <2>1, <2>2, <2>7, TypeHandler DEF ModelAnswers, WorkerPcs
    <2>8. CASE ModelFinish(w)
        <3>1. \A v \in Terminal : FinishStage(stage[wjob[w]], "model", v) \in StageRows
            BY <2>2, StageRowsTyped, Literals
        <3>. QED  BY <2>1, <2>2, <2>8, <3>1, Literals, TypeHandler DEF ModelFinish, WorkerPcs
    <2>9. CASE FailRest(w)
        <3>1. FailUnfinishedStages(stage[wjob[w]]) \in StageRows
            BY <2>2, StageRowsTyped
        <3>. QED  BY <2>1, <2>2, <2>9, <3>1, TypeHandler DEF FailRest, WorkerPcs
    <2>10. CASE PersistStart(w)
        <3>1. StartStage(stage[wjob[w]], "persist") \in StageRows
            BY <2>2, StageRowsTyped, Literals
        <3>. QED  BY <2>1, <2>2, <2>10, <3>1, TypeHandler DEF PersistStart, WorkerPcs
    <2>11. ~(LoopHead(w) \/ Get(w) \/ Claim(w) \/ Finish(w))
        BY <1>4 DEF LoopHead, Get, Claim, Finish, Settle
    <2>. QED  BY <1>4, <2>3, <2>4, <2>5, <2>6, <2>7, <2>8, <2>9, <2>10, <2>11 DEF WorkerStep
<1>5. CASE Finish(w) \/ FinishUnread(w)
    <2>1. wjob[w] \in Jobs
        BY <1>5, HeldJob DEF Finish, FinishUnread, Settle, Holding
    <2>2. DbTypeOK'
        BY <1>5, <2>1, JobFinished, Literals DEF Finish, FinishUnread, Settle
    <2>3. ProcessTypeOK' /\ ThreadTypeOK' /\ HistoryTypeOK'
        BY <1>5, JobsAssumption
        DEF Finish, FinishUnread, Settle, TypeOK, processVars, threadVars, historyVars,
            boundVars, ProcessTypeOK, ThreadTypeOK, HasRow, HistoryTypeOK
    <2>4. WorkerTypeOK'
        BY <1>5 DEF Finish, FinishUnread, Settle, TypeOK, WorkerTypeOK, Holding, WorkerGoes,
                    WorkerPcs
    <2>. QED  BY <2>2, <2>3, <2>4 DEF TypeOK
<1>6. CASE TransactionFails(w)
    <2>1. wjob[w] \in Jobs
        BY <1>6, HeldJob DEF TransactionFails, Holding
    <2>2. DbTypeOK' /\ ProcessTypeOK' /\ ThreadTypeOK'
        BY <1>6 DEF TransactionFails, TypeOK, dbVars, processVars, threadVars, DbTypeOK,
                    ProcessTypeOK, ThreadTypeOK, HasRow
    <2>3. WorkerTypeOK'
        BY <1>6 DEF TransactionFails, TypeOK, WorkerTypeOK, Holding, WorkerGoes, WorkerPcs
    <2>4. HistoryTypeOK'
        BY <1>6, <2>1, JobsAssumption DEF TransactionFails, TypeOK, HistoryTypeOK
    <2>. QED  BY <2>2, <2>3, <2>4 DEF TypeOK
<1>. QED  BY <1>1, <1>2, <1>3, <1>4, <1>5, <1>6
          DEF WorkerStep, WorkerDbError, HandlerStart, HandlerGivesUp, Research, ModelStart,
              ModelAnswers, ModelFinish, FailRest, PersistStart

\* What a request thread does to its own variables when it moves on or answers.
LEMMA TypeThreadMoves ==
    ASSUME TypeOK, NEW t \in Threads, NEW next \in ThreadPcs, ThreadGoes(t, next),
           UNCHANGED <<req, own>>, pc[t] # "idle",
           next \in {"idle", "lookup", "capacity", "create"} \/ HasRow(t)
    PROVE  ThreadTypeOK'
    BY DEF TypeOK, ThreadTypeOK, HasRow, ThreadGoes

LEMMA TypeAnswer ==
    ASSUME TypeOK, NEW t \in Threads, Answer(t)
    PROVE  ThreadTypeOK'
    BY DEF TypeOK, ThreadTypeOK, HasRow, Answer, ThreadPcs

LEMMA TypeStartWorker ==
    ASSUME TypeOK, StartWorker, UNCHANGED <<phase, queue, wjob, failing>>
    PROVE  ProcessTypeOK' /\ WorkerTypeOK'
<1>1. ProcessTypeOK'
    BY DEF TypeOK, ProcessTypeOK, StartWorker
<1>2. WorkerTypeOK'
    BY DEF TypeOK, WorkerTypeOK, StartWorker, Holding, WorkerPcs
<1>. QED  BY <1>1, <1>2

LEMMA TypeThread ==
    ASSUME TypeOK, NEW t \in Threads,
           ThreadStep(t) \/ ThreadDbError(t) \/ \E r \in Requests : Submit(t, r)
    PROVE  TypeOK'
<1>a. UNCHANGED dbVars => DbTypeOK'
    BY DEF TypeOK, DbTypeOK, dbVars
<1>b. UNCHANGED processVars => ProcessTypeOK'
    BY DEF TypeOK, ProcessTypeOK, processVars
<1>c. UNCHANGED workerVars => WorkerTypeOK'
    BY DEF TypeOK, WorkerTypeOK, workerVars, Holding
<1>d. UNCHANGED <<historyVars, boundVars>> => HistoryTypeOK'
    BY DEF TypeOK, HistoryTypeOK, historyVars, boundVars
<1>1. CASE \E r \in Requests : Submit(t, r)
    <2>1. ThreadTypeOK'
        BY <1>1, JobsAssumption DEF Submit, TypeOK, ThreadTypeOK, ThreadGoes, ThreadPcs, HasRow
    <2>. QED  BY <1>1, <1>a, <1>b, <1>c, <1>d, <2>1 DEF Submit, TypeOK
<1>2. CASE Lookup(t)
    <2>1. ThreadTypeOK'
        BY <1>2, TypeAnswer, TypeThreadMoves DEF Lookup, ThreadPcs
    <2>. QED  BY <1>2, <1>a, <1>b, <1>c, <1>d, <2>1 DEF Lookup, TypeOK
<1>3. CASE CheckCapacity(t)
    <2>1. ThreadTypeOK'
        BY <1>3, TypeAnswer, TypeThreadMoves DEF CheckCapacity, ThreadPcs
    <2>. QED  BY <1>3, <1>a, <1>b, <1>c, <1>d, <2>1 DEF CheckCapacity, TypeOK
<1>4. CASE Create(t)
    <2>1. CASE RowsOf(req[t]) # {} /\ Answer(t) /\ UNCHANGED <<status, crid, stage>>
        <3>1. ThreadTypeOK' /\ DbTypeOK'
            BY <1>4, <2>1, <1>a, TypeAnswer DEF Create, dbVars
        <3>. QED  BY <1>4, <1>b, <1>c, <1>d, <3>1 DEF Create, TypeOK
    <2>2. ASSUME NEW j \in Jobs, InsertRow(t, j) PROVE TypeOK'
        <3>1. req[t] \in Requests
            BY <1>4, ThreadRequest DEF Create
        <3>2. InitialStages(req[t]) \in StageRows
            BY <3>1, StageRowsTyped
        <3>3. DbTypeOK'
            BY <1>4, <2>2, <3>1, <3>2, Literals
            DEF Create, InsertRow, TypeOK, DbTypeOK, StageRows
        <3>4. ThreadTypeOK'
            BY <2>2, <3>1, JobsAssumption
            DEF InsertRow, TypeOK, ThreadTypeOK, HasRow, ThreadGoes, ThreadPcs
        <3>. QED  BY <1>4, <1>b, <1>c, <1>d, <3>3, <3>4 DEF Create, TypeOK
    <2>. QED  BY <1>4, <2>1, <2>2 DEF Create
<1>5. CASE Enqueue(t)
    <2>1. own[t] \in Jobs /\ HasRow(t)
        BY <1>5, OwnJob DEF Enqueue, HasRow
    <2>2. ThreadTypeOK'
        BY <1>5, <2>1, TypeThreadMoves DEF Enqueue, ThreadPcs
    <2>3. Append(queue, own[t]) \in Seq(Jobs)
        BY <2>1, AppendProperties DEF TypeOK, ProcessTypeOK
    <2>4. ProcessTypeOK' /\ HistoryTypeOK'
        BY <1>5, <2>1, <2>3 DEF Enqueue, TypeOK, ProcessTypeOK, HistoryTypeOK, boundVars
    <2>. QED  BY <1>5, <1>a, <1>c, <2>2, <2>4 DEF Enqueue, TypeOK
<1>6. CASE SaturatedFinish(t)
    <2>1. own[t] \in Jobs /\ HasRow(t)
        BY <1>6, OwnJob DEF SaturatedFinish, HasRow
    <2>2. DbTypeOK'
        BY <1>6, <2>1, JobFinished, Literals DEF SaturatedFinish
    <2>3. ThreadTypeOK'
        BY <1>6, <2>1, TypeThreadMoves DEF SaturatedFinish, ThreadPcs
    <2>. QED  BY <1>6, <1>b, <1>c, <1>d, <2>2, <2>3 DEF SaturatedFinish, TypeOK
<1>7. CASE SaturatedStages(t)
    <2>1. own[t] \in Jobs
        BY <1>7, OwnJob DEF SaturatedStages, HasRow
    <2>2. FailUnfinishedStages(stage[own[t]]) \in StageRows
        BY <2>1, StageOf, StageRowsTyped
    <2>3. DbTypeOK'
        BY <1>7, <2>1, <2>2, StagesUpdated DEF SaturatedStages
    <2>4. ThreadTypeOK'
        BY <1>7, TypeAnswer DEF SaturatedStages
    <2>. QED  BY <1>7, <1>b, <1>c, <1>d, <2>3, <2>4 DEF SaturatedStages, TypeOK
<1>8. CASE SubmitReturns(t)
    <2>1. own[t] \in Jobs /\ HasRow(t)
        BY <1>8, OwnJob DEF SubmitReturns, HasRow
    <2>2. ThreadTypeOK'
        BY <1>8, <2>1, TypeAnswer, TypeThreadMoves DEF SubmitReturns, ThreadPcs
    <2>3. ProcessTypeOK' /\ WorkerTypeOK'
        BY <1>8, TypeStartWorker DEF SubmitReturns
    <2>4. HistoryTypeOK'
        BY <1>8, <2>1 DEF SubmitReturns, TypeOK, HistoryTypeOK, boundVars
    <2>. QED  BY <1>8, <1>a, <2>2, <2>3, <2>4 DEF SubmitReturns, TypeOK
<1>9. CASE WaitEnds(t)
    <2>1. ThreadTypeOK'
        BY <1>9, TypeAnswer, TypeThreadMoves DEF WaitEnds, ThreadPcs, HasRow
    <2>. QED  BY <1>9, <1>a, <1>b, <1>c, <1>d, <2>1 DEF WaitEnds, TypeOK
<1>10. CASE SaveExchange(t)
    <2>1. own[t] \in Jobs
        BY <1>10, OwnJob DEF SaveExchange, HasRow
    <2>2. DbTypeOK' /\ ThreadTypeOK'
        BY <1>10, <2>1, TypeAnswer DEF SaveExchange, TypeOK, DbTypeOK
    <2>. QED  BY <1>10, <1>b, <1>c, <1>d, <2>2 DEF SaveExchange, TypeOK
<1>11. CASE ThreadDbError(t)
    <2>1. HasRow(t) => own[t] \in Jobs
        BY OwnJob
    <2>2. ThreadTypeOK'
        BY <1>11, TypeAnswer DEF ThreadDbError
    <2>3. HistoryTypeOK'
        BY <1>11, <2>1, JobsAssumption DEF ThreadDbError, TypeOK, HistoryTypeOK, HasRow
    <2>. QED  BY <1>11, <1>a, <1>b, <1>c, <2>2, <2>3 DEF ThreadDbError, TypeOK
<1>. QED  BY <1>1, <1>2, <1>3, <1>4, <1>5, <1>6, <1>7, <1>8, <1>9, <1>10, <1>11
          DEF ThreadStep

LEMMA TypeProcess ==
    ASSUME TypeOK, Restart \/ LifespanStop \/ Crash
    PROVE  TypeOK'
<1>a. UNCHANGED dbVars => DbTypeOK'
    BY DEF TypeOK, DbTypeOK, dbVars
<1>b. UNCHANGED threadVars => ThreadTypeOK'
    BY DEF TypeOK, ThreadTypeOK, threadVars, HasRow
<1>c. UNCHANGED workerVars => WorkerTypeOK'
    BY DEF TypeOK, WorkerTypeOK, workerVars, Holding
<1>d. UNCHANGED <<historyVars, boundVars>> => HistoryTypeOK'
    BY DEF TypeOK, HistoryTypeOK, historyVars, boundVars
<1>e. MemoryLost => DbTypeOK' /\ ProcessTypeOK' /\ ThreadTypeOK' /\ WorkerTypeOK'
    <2> SUFFICES ASSUME MemoryLost
                 PROVE  DbTypeOK' /\ ProcessTypeOK' /\ ThreadTypeOK' /\ WorkerTypeOK'
        OBVIOUS
    <2>1. DbTypeOK'       BY <1>a DEF MemoryLost
    <2>2. ProcessTypeOK'  BY EmptySeq DEF MemoryLost, ProcessTypeOK
    <2>3. ThreadTypeOK'   BY DEF MemoryLost, ThreadTypeOK, ThreadPcs, HasRow
    <2>4. WorkerTypeOK'   BY DEF MemoryLost, WorkerTypeOK, WorkerPcs, Holding
    <2>. QED  BY <2>1, <2>2, <2>3, <2>4
<1>1. CASE Construct
    <2>1. \A j \in Jobs : stage[j] \in StageRows /\ FailOpenStages(stage[j]) \in StageRows
        BY StageOf, StageRowsTyped
    <2>2. DbTypeOK'
        BY <1>1, <2>1, Literals DEF Construct, TypeOK, DbTypeOK, StageRows
    <2>3. ProcessTypeOK'
        BY <1>1 DEF Construct, TypeOK, ProcessTypeOK
    <2>. QED  BY <1>1, <1>b, <1>c, <1>d, <2>2, <2>3 DEF Construct, TypeOK
<1>2. CASE LifespanStart
    <2>1. ProcessTypeOK' /\ WorkerTypeOK'
        <3>1. WorkerTypeOK'
            BY <1>2 DEF LifespanStart, TypeOK, WorkerTypeOK, StartWorker, Holding, WorkerPcs
        <3>2. ProcessTypeOK'
            BY <1>2 DEF LifespanStart, TypeOK, ProcessTypeOK, StartWorker
        <3>. QED  BY <3>1, <3>2
    <2>. QED  BY <1>2, <1>a, <1>b, <1>d, <2>1 DEF LifespanStart, TypeOK
<1>3. CASE Exit
    BY <1>3, <1>e DEF Exit, MemoryLost, TypeOK, HistoryTypeOK, historyVars
<1>4. CASE LifespanStop
    <2>1. ProcessTypeOK' /\ HistoryTypeOK'
        BY <1>4, JobsAssumption
        DEF LifespanStop, TypeOK, ProcessTypeOK, HistoryTypeOK, historyVars
    <2>. QED  BY <1>4, <1>a, <1>b, <1>c, <2>1 DEF LifespanStop, TypeOK
<1>5. CASE Crash
    <2>1. HistoryTypeOK'
        BY <1>5, JobsAssumption DEF Crash, MemoryLost, TypeOK, HistoryTypeOK, historyVars
    <2>. QED  BY <1>5, <1>e, <2>1 DEF Crash, TypeOK
<1>. QED  BY <1>1, <1>2, <1>3, <1>4, <1>5 DEF Restart

LEMMA TypeStep == TypeOK /\ [Next]_vars => TypeOK'
<1> SUFFICES ASSUME TypeOK, [Next]_vars PROVE TypeOK'
    OBVIOUS
<1>1. CASE UNCHANGED vars
    BY <1>1 DEF vars, dbVars, processVars, threadVars, workerVars, historyVars, boundVars,
                TypeOK, DbTypeOK, ProcessTypeOK, ThreadTypeOK, WorkerTypeOK, HistoryTypeOK,
                HasRow, Holding
<1>2. CASE Next
    BY <1>2, TypeWorker, TypeThread, TypeProcess DEF Next
<1>. QED  BY <1>1, <1>2

\* The columns stay within their CHECK constraints, and every thread has the
\* job and request its next statement needs.
THEOREM TypeCorrect == Spec => []TypeOK
    BY TypeInit, TypeStep, PTL DEF Spec

-----------------------------------------------------------------------------
(* The process: start() and the lifespan never leave two worker threads, and *)
(* nothing of the old process is left when a new one is built.               *)

ProcessInv ==
    /\ \A w \in Workers : Alive(w) => current = w
    /\ phase # "up" => /\ queue = <<>>
                       /\ \A t \in Threads : pc[t] = "idle"
                       /\ \A w \in Workers : wpc[w] = "dead"
    /\ Len(queue) <= Capacity
    /\ RestartClosesAll

LEMMA ProcessInit == Init => ProcessInv
    BY JobsAssumption DEF Init, ProcessInv, Alive, RestartClosesAll

LEMMA ProcessStep == TypeOK /\ ProcessInv /\ [Next]_vars => ProcessInv'
<1> SUFFICES ASSUME TypeOK, ProcessInv, [Next]_vars PROVE ProcessInv'
    OBVIOUS
<1>. USE DEF ProcessInv, Alive, RestartClosesAll
<1>1. CASE UNCHANGED vars
    BY <1>1 DEF vars, dbVars, processVars, threadVars, workerVars
<1>2. ASSUME NEW w \in Workers, WorkerStep(w) \/ WorkerDbError(w)
      PROVE  ProcessInv'
    <2>1. wpc[w] # "dead" /\ phase = "up" /\ UNCHANGED <<phase, current>>
        BY <1>2 DEF WorkerStep, LoopHead, Get, Claim, HandlerStart, HandlerGivesUp, Research,
                    ModelStart, ModelAnswers, ModelFinish, FailRest, PersistStart, Finish, Settle,
                    WorkerDbError, TransactionFails, FinishUnread, HandlerFrame, processVars
    <2>2. \A v \in Workers : v # w => wpc'[v] = wpc[v]
        <3>. USE DEF TypeOK, WorkerTypeOK, WorkerGoes
        <3>1. CASE LoopHead(w) \/ Get(w) \/ Claim(w)
            BY <3>1 DEF LoopHead, Get, Claim
        <3>2. CASE HandlerStart(w) \/ HandlerGivesUp(w) \/ Research(w) \/ ModelStart(w)
            BY <3>2 DEF HandlerStart, HandlerGivesUp, Research, ModelStart
        <3>3. CASE ModelAnswers(w) \/ ModelFinish(w) \/ FailRest(w) \/ PersistStart(w)
            BY <3>3 DEF ModelAnswers, ModelFinish, FailRest, PersistStart
        <3>4. CASE Finish(w) \/ WorkerDbError(w)
            BY <3>4 DEF Finish, Settle, WorkerDbError, TransactionFails, FinishUnread
        <3>. QED  BY <1>2, <3>1, <3>2, <3>3, <3>4 DEF WorkerStep
    <2>3. queue' = queue \/ (queue # <<>> /\ queue' = Tail(queue))
        BY <1>2 DEF WorkerStep, LoopHead, Get, Claim, HandlerStart, HandlerGivesUp, Research,
                    ModelStart, ModelAnswers, ModelFinish, FailRest, PersistStart, Finish, Settle,
                    WorkerDbError, TransactionFails, FinishUnread, HandlerFrame, processVars
    <2>4. Len(queue') <= Capacity
        BY <2>3, HeadTailProperties, LenProperties, JobsAssumption DEF TypeOK, ProcessTypeOK
    <2>. QED  BY <2>1, <2>2, <2>4
<1>3. ASSUME NEW t \in Threads,
             ThreadStep(t) \/ ThreadDbError(t) \/ \E r \in Requests : Submit(t, r)
      PROVE  ProcessInv'
    <2>1. phase = "up" /\ phase' = "up"
        <3>1. (phase' = phase /\ pc[t] # "idle") \/ \E r \in Requests : Submit(t, r)
            BY <1>3 DEF ThreadStep, Lookup, CheckCapacity, Create, Enqueue, SaturatedFinish,
                        SaturatedStages, SubmitReturns, WaitEnds, SaveExchange,
                        ThreadDbError, processVars
        <3>. QED  BY <3>1 DEF Submit, processVars, TypeOK, ProcessTypeOK
    <2>2. UNCHANGED <<current, wpc>> \/ StartWorker
        BY <1>3 DEF ThreadStep, Lookup, CheckCapacity, Create, Enqueue, SaturatedFinish,
                    SaturatedStages, SubmitReturns, WaitEnds, SaveExchange, ThreadDbError,
                    Submit, processVars, workerVars
    <2>3. \A w \in Workers : wpc'[w] # "dead" => current' = w
        <3>1. CASE UNCHANGED <<current, wpc>>
            BY <3>1
        <3>2. CASE StartWorker
            BY <3>2, JobsAssumption DEF StartWorker, TypeOK, WorkerTypeOK
        <3>. QED  BY <2>2, <3>1, <3>2
    <2>4. queue' = queue \/ Enqueue(t)
        BY <1>3 DEF ThreadStep, Lookup, CheckCapacity, Create, SaturatedFinish,
                    SaturatedStages, SubmitReturns, WaitEnds, SaveExchange, ThreadDbError,
                    Submit, processVars
    <2>5. Len(queue') <= Capacity
        <3>1. CASE queue' = queue  BY <3>1
        <3>2. CASE Enqueue(t)
            <4>1. own[t] \in Jobs
                BY <3>2, OwnJob DEF Enqueue, HasRow
            <4>2. Len(queue) < Capacity => Len(Append(queue, own[t])) = Len(queue) + 1
                BY <4>1, AppendProperties DEF TypeOK, ProcessTypeOK
            <4>. QED  BY <3>2, <4>2, LenProperties, JobsAssumption
                      DEF Enqueue, TypeOK, ProcessTypeOK
        <3>. QED  BY <2>4, <3>1, <3>2
    <2>. QED  BY <2>1, <2>3, <2>5
<1>4. CASE Construct
    BY <1>4 DEF Construct, Orphans, OpenStatuses, threadVars, workerVars, TypeOK, DbTypeOK
<1>5. CASE LifespanStart
    BY <1>5 DEF LifespanStart, StartWorker, TypeOK, WorkerTypeOK
<1>6. CASE Exit \/ Crash
    BY <1>6, EmptySeq, JobsAssumption DEF Exit, Crash, MemoryLost
<1>7. CASE LifespanStop
    BY <1>7 DEF LifespanStop, workerVars, threadVars
<1>. QED  BY <1>1, <1>2, <1>3, <1>4, <1>5, <1>6, <1>7 DEF Next, Restart

\* start() is called by the lifespan and by every submission, from many threads:
\* at no time do two worker threads live.
THEOREM OneWorker == Spec => []AtMostOneWorker
<1>1. ProcessInv => AtMostOneWorker
    BY DEF ProcessInv, AtMostOneWorker
<1>. QED  BY <1>1, ProcessInit, ProcessStep, TypeCorrect, PTL DEF Spec

\* full() and put_nowait are two steps, yet the queue never exceeds its capacity.
THEOREM QueueStaysBounded == Spec => []QueueBounded
<1>1. ProcessInv => QueueBounded
    BY DEF ProcessInv, QueueBounded
<1>. QED  BY <1>1, ProcessInit, ProcessStep, TypeCorrect, PTL DEF Spec

\* A rebuilt process meets no open job before it serves.
THEOREM RestartFailsClosed == Spec => []RestartClosesAll
<1>1. ProcessInv => RestartClosesAll
    BY DEF ProcessInv
<1>. QED  BY <1>1, ProcessInit, ProcessStep, TypeCorrect, PTL DEF Spec

-----------------------------------------------------------------------------
(* The rows: whatever the interleaving, a step is one of six transactions.  *)

\* A finished stage keeps its status, and persist is left open.
Progress(rows, new) ==
    /\ \A s \in Stages : rows[s] \notin Unfinished => new[s] = rows[s]
    /\ rows["persist"] \in Unfinished => new["persist"] \in Unfinished

StageWrite(j) ==
    /\ \E rows \in StageRows : Progress(stage[j], rows) /\ stage' = [stage EXCEPT ![j] = rows]
    /\ UNCHANGED <<status, crid, runs>>

ClaimWrite(j) ==
    /\ status[j] = "queued"
    /\ status' = [status EXCEPT ![j] = "running"]
    /\ runs' = [runs EXCEPT ![j] = @ + 1]
    /\ UNCHANGED <<crid, stage>>

FinishWrite(j) == (\E v \in Terminal : FinishJob(j, v)) /\ UNCHANGED <<crid, runs>>

InsertWrite(j) ==
    /\ status[j] = "absent"
    /\ \E r \in Requests :
          /\ RowsOf(r) = {}
          /\ crid' = [crid EXCEPT ![j] = r]
          /\ stage' = [stage EXCEPT ![j] = InitialStages(r)]
    /\ status' = [status EXCEPT ![j] = "queued"]
    /\ UNCHANGED runs

OrphanWrite ==
    /\ status' = [j \in Jobs |-> IF j \in Orphans THEN "failed" ELSE status[j]]
    /\ stage' = [j \in Jobs |-> IF j \in Orphans THEN FailOpenStages(stage[j]) ELSE stage[j]]
    /\ UNCHANGED <<crid, runs>>

JobStep ==
    \/ UNCHANGED <<status, crid, stage, runs>>
    \/ \E j \in Jobs : StageWrite(j) \/ ClaimWrite(j) \/ FinishWrite(j) \/ InsertWrite(j)

RowStep == JobStep \/ OrphanWrite

LEMMA StagesProgress ==
    ASSUME NEW rows \in StageRows
    PROVE  /\ \A s \in Stages : Progress(rows, StartStage(rows, s))
           /\ \A v \in Terminal, s \in Stages \ {"persist"} :
                 Progress(rows, FinishStage(rows, s, v))
           /\ Progress(rows, FailUnfinishedStages(rows))
           /\ Progress(rows, rows)
    BY DEF Progress, StartStage, FinishStage, FailUnfinishedStages, StageRows, Stages,
           Unfinished, Terminal

LEMMA WorkerRowStep ==
    ASSUME TypeOK, NEW w \in Workers, WorkerStep(w) \/ WorkerDbError(w)
    PROVE  JobStep
<1>1. CASE LoopHead(w) \/ Get(w) \/ HandlerGivesUp(w) \/ ModelAnswers(w)
            \/ TransactionFails(w)
    BY <1>1 DEF LoopHead, Get, HandlerGivesUp, ModelAnswers, TransactionFails, dbVars,
                historyVars, HandlerFrame, JobStep
<1>2. CASE Claim(w)
    <2>1. wjob[w] \in Jobs
        BY <1>2, HeldJob DEF Claim, Holding
    <2>. QED  BY <1>2, <2>1 DEF Claim, JobStep, ClaimWrite
<1>3. CASE Finish(w) \/ FinishUnread(w)
    <2>1. wjob[w] \in Jobs
        BY <1>3, HeldJob DEF Finish, FinishUnread, Settle, Holding
    <2>. QED  BY <1>3, <2>1, Literals
              DEF Finish, FinishUnread, Settle, JobStep, FinishWrite, historyVars
<1>4. ASSUME HandlerStart(w) \/ Research(w) \/ ModelStart(w) \/ ModelFinish(w)
                \/ FailRest(w) \/ PersistStart(w)
      PROVE  JobStep
    <2>1. wjob[w] \in Jobs
        BY <1>4, HeldJob DEF HandlerStart, Research, ModelStart, ModelFinish, FailRest,
                             PersistStart, Holding
    <2>2. stage[wjob[w]] \in StageRows
        BY <2>1, StageOf
    <2>3. UNCHANGED <<status, crid, runs>>
        BY <1>4 DEF HandlerStart, Research, ModelStart, ModelFinish, FailRest, PersistStart,
                    HandlerFrame, historyVars
    <2>4. UNCHANGED stage
          \/ \E rows \in StageRows : /\ Progress(stage[wjob[w]], rows)
                                     /\ stage' = [stage EXCEPT ![wjob[w]] = rows]
        <3>1. \A s \in Stages : StartStage(stage[wjob[w]], s) \in StageRows
                                /\ Progress(stage[wjob[w]], StartStage(stage[wjob[w]], s))
            BY <2>2, StageRowsTyped, StagesProgress
        <3>2. CASE HandlerStart(w) \/ ModelStart(w) \/ PersistStart(w)
            BY <3>1, <3>2, Literals DEF HandlerStart, ModelStart, PersistStart
        <3>3. \A s \in Stages \ {"persist"}, v \in Terminal :
                 FinishStage(stage[wjob[w]], s, v) \in StageRows
                 /\ Progress(stage[wjob[w]], FinishStage(stage[wjob[w]], s, v))
            BY <2>2, StageRowsTyped, StagesProgress
        <3>4. "research" \in Stages \ {"persist"} /\ "model" \in Stages \ {"persist"}
            BY DEF Stages
        <3>5. CASE Research(w)
            BY <3>3, <3>4, <3>5 DEF Research
        <3>6. CASE ModelFinish(w)
            BY <3>3, <3>4, <3>6, Literals DEF ModelFinish
        <3>7. CASE FailRest(w)
            BY <2>2, <3>7, StageRowsTyped, StagesProgress DEF FailRest
        <3>. QED  BY <1>4, <3>2, <3>5, <3>6, <3>7
    <2>. QED  BY <2>1, <2>3, <2>4 DEF JobStep, StageWrite
<1>. QED  BY <1>1, <1>2, <1>3, <1>4 DEF WorkerStep, WorkerDbError

LEMMA ThreadRowStep ==
    ASSUME TypeOK, NEW t \in Threads,
           ThreadStep(t) \/ ThreadDbError(t) \/ \E r \in Requests : Submit(t, r)
    PROVE  JobStep
<1>1. CASE Create(t)
    <2>1. req[t] \in Requests
        BY <1>1, ThreadRequest DEF Create
    <2>. QED  BY <1>1, <2>1 DEF Create, InsertRow, JobStep, InsertWrite, historyVars
<1>2. CASE SaturatedFinish(t)
    <2>1. own[t] \in Jobs
        BY <1>2, OwnJob DEF SaturatedFinish, HasRow
    <2>. QED  BY <1>2, <2>1, Literals DEF SaturatedFinish, JobStep, FinishWrite, historyVars
<1>3. CASE SaturatedStages(t)
    <2>1. own[t] \in Jobs
        BY <1>3, OwnJob DEF SaturatedStages, HasRow
    <2>2. FailUnfinishedStages(stage[own[t]]) \in StageRows
          /\ Progress(stage[own[t]], FailUnfinishedStages(stage[own[t]]))
        BY <2>1, StageOf, StageRowsTyped, StagesProgress
    <2>. QED  BY <1>3, <2>1, <2>2 DEF SaturatedStages, JobStep, StageWrite, historyVars
<1>4. CASE ~(Create(t) \/ SaturatedFinish(t) \/ SaturatedStages(t))
    BY <1>4 DEF ThreadStep, Lookup, CheckCapacity, Enqueue, SubmitReturns, WaitEnds,
                SaveExchange, ThreadDbError, Submit, JobStep, dbVars, historyVars
<1>. QED  BY <1>1, <1>2, <1>3, <1>4

LEMMA NextRowStep == TypeOK /\ [Next]_vars => RowStep
<1> SUFFICES ASSUME TypeOK, [Next]_vars PROVE RowStep
    OBVIOUS
<1>1. CASE UNCHANGED vars
    BY <1>1 DEF vars, dbVars, historyVars, RowStep, JobStep
<1>2. CASE Construct
    BY <1>2 DEF Construct, OrphanWrite, RowStep, historyVars
<1>3. CASE LifespanStart \/ Exit \/ LifespanStop \/ Crash
    BY <1>3 DEF LifespanStart, Exit, LifespanStop, Crash, MemoryLost, RowStep, JobStep,
                dbVars, historyVars
<1>. QED  BY <1>1, <1>2, <1>3, WorkerRowStep, ThreadRowStep DEF Next, Restart, RowStep

\* The inductive invariant of the rows: a job without a request is absent, one
\* nobody claimed never ran, and an open job's persist stage is still open.
RowsInv ==
    /\ \A j \in Jobs : status[j] = "absent" <=> crid[j] = None
    /\ \A j \in Jobs : status[j] \in {"absent", "queued"} => runs[j] = 0
    /\ \A j \in Jobs : status[j] \in OpenStatuses => stage[j]["persist"] \in Unfinished
    /\ OneJobPerRequest
    /\ AtMostOneRun
    /\ PersistMirrorsJob

LEMMA RowsInit == Init => RowsInv
    BY JobsAssumption
    DEF Init, RowsInv, OpenStatuses, OneJobPerRequest, AtMostOneRun, PersistMirrorsJob, Stages,
        Terminal

LEMMA RowsStep == TypeOK /\ RowsInv /\ RowStep => RowsInv'
<1> SUFFICES ASSUME TypeOK, RowsInv, RowStep PROVE RowsInv'
    OBVIOUS
<1>. USE DEF RowsInv, OneJobPerRequest, AtMostOneRun, PersistMirrorsJob, OpenStatuses, Terminal
<1>0. /\ status \in [Jobs -> JobStatuses] /\ crid \in [Jobs -> Requests \cup {None}]
      /\ stage \in [Jobs -> StageRows] /\ runs \in [Jobs -> Nat]
    BY DEF TypeOK, DbTypeOK, HistoryTypeOK, StageRows
<1>1. CASE UNCHANGED <<status, crid, stage, runs>>
    BY <1>1
<1>2. ASSUME NEW j \in Jobs, StageWrite(j) PROVE RowsInv'
    BY <1>0, <1>2, Literals DEF StageWrite, Progress, StageRows, Unfinished, JobStatuses
<1>3. ASSUME NEW j \in Jobs, ClaimWrite(j) PROVE RowsInv'
    BY <1>0, <1>3 DEF ClaimWrite, Unfinished
<1>4. ASSUME NEW j \in Jobs, FinishWrite(j) PROVE RowsInv'
    <2>1. CASE status[j] # "running"
        BY <1>4, <2>1 DEF FinishWrite, FinishJob
    <2>2. CASE status[j] = "running"
        <3>1. PICK v \in Terminal : FinishJob(j, v)
            BY <1>4 DEF FinishWrite
        <3>2. /\ status' = [status EXCEPT ![j] = v]
              /\ stage' = [stage EXCEPT ![j] = [stage[j] EXCEPT !["persist"] = v]]
            BY <2>2, <3>1 DEF FinishJob, FinishStage
        <3>3. stage[j] \in StageRows /\ v \notin Unfinished
            BY <1>0 DEF Unfinished
        <3>4. \A i \in Jobs : /\ status'[i] = IF i = j THEN v ELSE status[i]
                              /\ stage'[i]["persist"] = IF i = j THEN v ELSE stage[i]["persist"]
            BY <1>0, <3>2, <3>3, Literals DEF StageRows
        <3>. QED  BY <1>4, <2>2, <3>4 DEF FinishWrite
    <2>. QED  BY <2>1, <2>2
<1>5. ASSUME NEW j \in Jobs, InsertWrite(j) PROVE RowsInv'
    <2>1. PICK r \in Requests : /\ RowsOf(r) = {}
                                /\ crid' = [crid EXCEPT ![j] = r]
                                /\ stage' = [stage EXCEPT ![j] = InitialStages(r)]
        BY <1>5 DEF InsertWrite
    <2>2. InitialStages(r)["persist"] = "pending"
        BY Literals DEF InitialStages
    <2>. QED  BY <1>0, <1>5, <2>1, <2>2, JobsAssumption DEF InsertWrite, RowsOf, Unfinished
<1>6. CASE OrphanWrite
    BY <1>0, <1>6, Literals DEF OrphanWrite, Orphans, FailOpenStages, Unfinished, JobStatuses
<1>. QED  BY <1>1, <1>2, <1>3, <1>4, <1>5, <1>6 DEF RowStep, JobStep

LEMMA RowsAlways == Spec => []RowsInv
    BY RowsInit, RowsStep, NextRowStep, TypeCorrect, PTL DEF Spec

\* Concurrent and repeated submissions of one client_request_id share one job.
THEOREM RequestsShareOneJob == Spec => []OneJobPerRequest
    BY RowsAlways, PTL DEF RowsInv

\* No interleaving and no restart enters the handler twice for a job.
THEOREM HandlerRunsOnce == Spec => []AtMostOneRun
    BY RowsAlways, PTL DEF RowsInv

\* The persist stage agrees with the job's terminal status.
THEOREM PersistAgrees == Spec => []PersistMirrorsJob
    BY RowsAlways, PTL DEF RowsInv

-----------------------------------------------------------------------------
(* Where a job is.  A row waits in the queue, with its submitter or with the *)
(* worker, and never in two of these places; what its stage rows say follows *)
(* from the worker's place in the code.                                      *)

\* Rows nobody has claimed or refused.
Waits(j) == status[j] = "queued" /\ j \notin saturated
Unique == \A i, k \in DOMAIN queue : queue[i] = queue[k] => i = k

QueueInv == Unique /\ \A j \in Jobs : InQueue(j) => Waits(j)

\* The places past claim(): the worker's job is running.
Handling == WorkerPcs \ {"dead", "head", "get", "claim"}

WorkersInv ==
    \A w \in Workers :
        /\ ~Holding(w) => wjob[w] = None
        /\ wpc[w] = "claim" => Waits(wjob[w]) /\ ~InQueue(wjob[w])
        /\ wpc[w] \in Handling => status[wjob[w]] = "running"

\* A submitter at put_nowait is alone with its job.
ThreadsInv ==
    /\ \A t \in Threads : pc[t] = "enqueue" =>
          /\ Waits(own[t]) /\ ~InQueue(own[t])
          /\ \A w \in Workers : wjob[w] # own[t]
          /\ \A u \in Threads : pc[u] = "enqueue" /\ own[u] = own[t] => u = t
    /\ \A t \in Threads : pc[t] \in {"sat_finish", "sat_stages"} => own[t] \in saturated
    /\ \A t \in Threads : pc[t] = "saving" => status[own[t]] = "succeeded"

RefusedInv == \A j \in saturated : status[j] \in {"queued", "failed"} /\ runs[j] = 0

Passed == {"succeeded", "skipped"}

\* What each place of the handler has done to the stages of its job.
StageAt(w) ==
    LET rows == stage[wjob[w]] IN
    /\ wpc[w] = "handler" => rows = InitialStages(crid[wjob[w]])
    /\ wpc[w] = "research" => rows["research"] = "running" /\ rows["model"] = "pending"
    /\ wpc[w] = "model_start" => rows["research"] \in Passed /\ rows["model"] = "pending"
    /\ wpc[w] = "calling" => rows["research"] \in Passed /\ rows["model"] = "running"
    /\ wpc[w] = "model_finish" /\ ~failing[w] =>
          rows["research"] \in Passed /\ rows["model"] = "running"
    /\ wpc[w] = "fail_rest" => failing[w]
    /\ wpc[w] \in {"persist_start", "finish"} =>
          /\ rows["research"] \notin Unfinished /\ rows["model"] \notin Unfinished
          /\ ~failing[w] => rows["research"] \in Passed /\ rows["model"] \in Passed

StagesInv ==
    /\ \A j \in Jobs : stage[j]["admission"] \in {"none", "succeeded"}
    /\ \A j \in Jobs : Waits(j) => stage[j] = InitialStages(crid[j])
    /\ \A w \in Workers : StageAt(w)
    /\ SettledStages

PlacesInv ==
    /\ QueueInv /\ WorkersInv /\ ThreadsInv /\ RefusedInv /\ StagesInv
    /\ OpenJobsAreHeld /\ ExchangeIsAnswered

LEMMA PlacesInit == Init => PlacesInv
<1> SUFFICES ASSUME Init PROVE PlacesInv
    OBVIOUS
<1>1. QueueInv /\ WorkersInv /\ ThreadsInv /\ RefusedInv
    BY DEF Init, QueueInv, Unique, InQueue, WorkersInv, Holding, Handling, ThreadsInv, RefusedInv
<1>2. StagesInv
    BY DEF Init, StagesInv, Waits, StageAt, SettledStages, Stages, Terminal
<1>3. OpenJobsAreHeld /\ ExchangeIsAnswered
    BY DEF Init, OpenJobsAreHeld, ExchangeIsAnswered
<1>. QED  BY <1>1, <1>2, <1>3 DEF PlacesInv

\* The queue as a set of jobs: left alone, its head taken, a job put into it.
LEMMA QueueKept ==
    ASSUME queue' = queue
    PROVE  (Unique' <=> Unique) /\ \A j : InQueue(j)' <=> InQueue(j)
    BY DEF Unique, InQueue

LEMMA QueueTaken ==
    ASSUME TypeOK, Unique, queue # <<>>, queue' = Tail(queue)
    PROVE  /\ Unique'
           /\ Head(queue) \in Jobs /\ InQueue(Head(queue))
           /\ \A j : InQueue(j)' <=> InQueue(j) /\ j # Head(queue)
<1>1. queue \in Seq(Jobs) /\ Len(queue) \in Nat /\ Len(queue) # 0
    BY EmptySeq, LenProperties DEF TypeOK, ProcessTypeOK
<1>2. /\ Tail(queue) \in Seq(Jobs) /\ Len(Tail(queue)) = Len(queue) - 1
      /\ \A i \in 1 .. Len(Tail(queue)) : Tail(queue)[i] = queue[i + 1]
      /\ Head(queue) = queue[1]
    BY <1>1, HeadTailProperties
<1>3. DOMAIN queue = 1 .. Len(queue) /\ DOMAIN Tail(queue) = 1 .. Len(queue) - 1
    BY <1>1, <1>2, LenProperties
<1>4. \A j : (\E i \in DOMAIN Tail(queue) : Tail(queue)[i] = j)
             <=> \E i \in DOMAIN queue : i # 1 /\ queue[i] = j
    <2>1. ASSUME NEW i \in DOMAIN queue, i # 1 PROVE
             i - 1 \in DOMAIN Tail(queue) /\ Tail(queue)[i - 1] = queue[i]
        BY <1>1, <1>2, <1>3, <2>1
    <2>2. ASSUME NEW i \in DOMAIN Tail(queue) PROVE
             i + 1 \in DOMAIN queue /\ i + 1 # 1 /\ Tail(queue)[i] = queue[i + 1]
        BY <1>1, <1>2, <1>3, <2>2
    <2>. QED  BY <2>1, <2>2
<1>5. 1 \in DOMAIN queue
    BY <1>1, <1>3
<1>6. \A j : InQueue(j)' <=> InQueue(j) /\ j # Head(queue)
    BY <1>2, <1>4, <1>5 DEF InQueue, Unique
<1>7. Unique'
    <2>1. ASSUME NEW i \in DOMAIN Tail(queue), NEW k \in DOMAIN Tail(queue),
                 Tail(queue)[i] = Tail(queue)[k]
          PROVE  i = k
        <3>1. i + 1 \in DOMAIN queue /\ k + 1 \in DOMAIN queue /\ queue[i + 1] = queue[k + 1]
            BY <1>1, <1>2, <1>3, <2>1
        <3>2. i + 1 = k + 1
            BY <3>1 DEF Unique
        <3>. QED  BY <1>1, <1>3, <3>2
    <2>. QED  BY <2>1 DEF Unique
<1>. QED  BY <1>1, <1>2, <1>5, <1>6, <1>7 DEF InQueue

LEMMA QueuePut ==
    ASSUME TypeOK, Unique, NEW j \in Jobs, ~InQueue(j), queue' = Append(queue, j)
    PROVE  Unique' /\ \A k : InQueue(k)' <=> InQueue(k) \/ k = j
<1>1. queue \in Seq(Jobs) /\ Len(queue) \in Nat /\ DOMAIN queue = 1 .. Len(queue)
    BY LenProperties DEF TypeOK, ProcessTypeOK
<1>2. /\ Append(queue, j) \in Seq(Jobs) /\ Len(Append(queue, j)) = Len(queue) + 1
      /\ \A i \in 1 .. Len(queue) : Append(queue, j)[i] = queue[i]
      /\ Append(queue, j)[Len(queue) + 1] = j
    BY <1>1, AppendProperties
<1>3. DOMAIN Append(queue, j) = (DOMAIN queue) \cup {Len(queue) + 1}
      /\ Len(queue) + 1 \notin DOMAIN queue
    BY <1>1, <1>2, LenProperties
<1>. QED  BY <1>1, <1>2, <1>3 DEF InQueue, Unique

\* While one worker acts, every other is dead and holds nothing.
LEMMA OthersAreDead ==
    ASSUME ProcessInv, WorkersInv, NEW w \in Workers, wpc[w] # "dead",
           NEW v \in Workers, v # w
    PROVE  wpc[v] = "dead" /\ wjob[v] = None
    BY DEF ProcessInv, Alive, WorkersInv, Holding

\* The worker moves on inside the handler or after it, and writes its job's stages.
LEMMA HandlingStep ==
    ASSUME TypeOK, ProcessInv, PlacesInv, NEW w \in Workers, wpc[w] \in Handling,
           NEW next \in Handling, WorkerGoes(w, next),
           NEW rows \in StageRows, rows["admission"] = stage[wjob[w]]["admission"],
           stage' = [stage EXCEPT ![wjob[w]] = rows],
           UNCHANGED <<status, crid, exchange, phase, queue, pc, own, wjob, runs, saturated>>,
           abandoned \subseteq abandoned', StageAt(w)'
    PROVE  PlacesInv'
<1>1. wpc[w] # "dead" /\ Holding(w) /\ wpc[w] # "claim" /\ wjob[w] \in Jobs
    BY HeldJob DEF Handling, Holding
<1>2. status[wjob[w]] = "running"
    BY DEF PlacesInv, WorkersInv
<1>3. /\ wpc'[w] = next /\ next \notin {"dead", "head", "get", "claim"}
      /\ \A v \in Workers : v # w => wpc'[v] = wpc[v]
    BY DEF WorkerGoes, TypeOK, WorkerTypeOK, Handling
<1>4. \A v \in Workers : v # w => wpc[v] = "dead" /\ wjob[v] = None
    BY <1>1, OthersAreDead DEF PlacesInv
<1>5. /\ stage \in [Jobs -> StageRows]
      /\ \A j \in Jobs : j # wjob[w] => stage'[j] = stage[j]
      /\ stage'[wjob[w]]["admission"] = stage[wjob[w]]["admission"]
    BY <1>1 DEF TypeOK, DbTypeOK, StageRows
<1>6. \A j \in Jobs : Waits(j)' <=> Waits(j)
    BY DEF Waits
<1>7. QueueInv'
    BY <1>6, QueueKept DEF PlacesInv, QueueInv
<1>8. WorkersInv'
    BY <1>2, <1>3, <1>4 DEF PlacesInv, WorkersInv, Holding, Handling
<1>9. ThreadsInv' /\ RefusedInv'
    BY QueueKept DEF PlacesInv, ThreadsInv, RefusedInv, Waits
<1>10. StagesInv'
    <2>1. \A v \in Workers : StageAt(v)'
        BY <1>3, <1>4 DEF StageAt
    <2>2. SettledStages'
        BY <1>2, <1>5 DEF PlacesInv, StagesInv, SettledStages, Terminal
    <2>3. \A j \in Jobs : Waits(j)' => stage'[j] = InitialStages(crid'[j])
        BY <1>2, <1>5 DEF PlacesInv, StagesInv, Waits, InitialStages
    <2>4. \A j \in Jobs : stage'[j]["admission"] \in {"none", "succeeded"}
        BY <1>5 DEF PlacesInv, StagesInv
    <2>. QED  BY <2>1, <2>2, <2>3, <2>4 DEF StagesInv
<1>11. OpenJobsAreHeld' /\ ExchangeIsAnswered'
    BY QueueKept DEF PlacesInv, OpenJobsAreHeld, ExchangeIsAnswered
<1>. QED  BY <1>7, <1>8, <1>9, <1>10, <1>11 DEF PlacesInv

\* The statements of the handler leave the admission stage alone.
LEMMA AdmissionKept ==
    ASSUME NEW rows \in StageRows, rows["admission"] \in {"none", "succeeded"}
    PROVE  /\ \A s \in Stages : StartStage(rows, s)["admission"] = rows["admission"]
           /\ \A s \in Stages, v \in Terminal :
                 FinishStage(rows, s, v)["admission"] = rows["admission"]
           /\ FailUnfinishedStages(rows)["admission"] = rows["admission"]
    BY DEF StartStage, FinishStage, FailUnfinishedStages, StageRows, Stages, Unfinished

LEMMA HandlerPlaces ==
    ASSUME TypeOK, ProcessInv, PlacesInv, NEW w \in Workers,
           HandlerStart(w) \/ HandlerGivesUp(w) \/ Research(w) \/ ModelStart(w)
              \/ ModelAnswers(w) \/ ModelFinish(w) \/ FailRest(w) \/ PersistStart(w)
    PROVE  PlacesInv'
<1>1. wpc[w] \in Handling /\ Holding(w) /\ HandlerFrame /\ failing' \in [Workers -> BOOLEAN]
      /\ w \in DOMAIN failing
    <2>1. wpc[w] \in Handling /\ Holding(w) /\ HandlerFrame
        BY DEF Handling, Holding, WorkerPcs, HandlerStart, HandlerGivesUp, Research, ModelStart,
               ModelAnswers, ModelFinish, FailRest, PersistStart
    <2>2. failing' \in [Workers -> BOOLEAN]
        BY DEF TypeOK, WorkerTypeOK, HandlerStart, HandlerGivesUp, Research, ModelStart,
               ModelAnswers, ModelFinish, FailRest, PersistStart
    <2>. QED  BY <2>1, <2>2 DEF TypeOK, WorkerTypeOK
<1>2. wjob[w] \in Jobs /\ stage[wjob[w]] \in StageRows
    BY <1>1, HeldJob, StageOf
<1>. DEFINE old == stage[wjob[w]]
<1>3. old["admission"] \in {"none", "succeeded"} /\ StageAt(w)
    BY <1>2 DEF PlacesInv, StagesInv
<1>4. /\ UNCHANGED <<status, crid, exchange, phase, queue, pc, own, wjob, runs, saturated>>
      /\ abandoned \subseteq abandoned'
    BY <1>1 DEF HandlerFrame, processVars, threadVars, historyVars
<1>5. wpc \in [Workers -> WorkerPcs] /\ failing \in [Workers -> BOOLEAN]
      /\ stage \in [Jobs -> StageRows]
    BY DEF TypeOK, WorkerTypeOK, DbTypeOK, StageRows
<1>6. \* it is enough to say which rows and which next place
      ASSUME NEW rows \in StageRows, rows["admission"] = old["admission"],
             stage' = [stage EXCEPT ![wjob[w]] = rows],
             NEW next \in Handling, WorkerGoes(w, next),
             wpc'[w] = next /\ stage'[wjob'[w]] = rows => StageAt(w)'
      PROVE  PlacesInv'
    <2>1. wpc'[w] = next /\ stage'[wjob'[w]] = rows
        BY <1>2, <1>4, <1>5, <1>6 DEF WorkerGoes
    <2>. QED  BY <1>1, <1>4, <1>6, <2>1, HandlingStep
<1>7. UNCHANGED stage => stage' = [stage EXCEPT ![wjob[w]] = old]
    BY <1>2, <1>5
<1>8. CASE HandlerStart(w)
    <2>1. old = InitialStages(crid[wjob[w]])
        BY <1>3, <1>8 DEF HandlerStart, StageAt
    <2>2. CASE crid[wjob[w]] \in ResearchRequests
        <3>. DEFINE rows == StartStage(old, "research")
        <3>1. rows \in StageRows /\ rows["admission"] = old["admission"]
            BY <1>2, <1>3, Literals, StageRowsTyped, AdmissionKept
        <3>2. rows["research"] = "running" /\ rows["model"] = "pending"
            BY <2>1, <2>2 DEF StartStage, InitialStages, Stages
        <3>3. stage' = [stage EXCEPT ![wjob[w]] = rows] /\ WorkerGoes(w, "research")
            BY <1>8, <2>2 DEF HandlerStart
        <3>4. "research" \in Handling
            BY DEF Handling, WorkerPcs
        <3>. QED  BY <3>1, <3>2, <3>3, <3>4, <1>6 DEF StageAt
    <2>3. CASE crid[wjob[w]] \notin ResearchRequests
        <3>1. old["research"] \in Passed /\ old["model"] = "pending"
            BY <2>1, <2>3 DEF InitialStages, Stages, Passed
        <3>2. stage' = [stage EXCEPT ![wjob[w]] = old] /\ WorkerGoes(w, "model_start")
            BY <1>7, <1>8, <2>3 DEF HandlerStart
        <3>3. "model_start" \in Handling
            BY DEF Handling, WorkerPcs
        <3>. QED  BY <1>2, <3>1, <3>2, <3>3, <1>6 DEF StageAt
    <2>. QED  BY <2>2, <2>3
<1>9. CASE HandlerGivesUp(w)
    <2>1. failing'[w] /\ WorkerGoes(w, "model_finish") /\ UNCHANGED stage
        BY <1>9, <1>1, <1>5 DEF HandlerGivesUp
    <2>2. "model_finish" \in Handling
        BY DEF Handling, WorkerPcs
    <2>. QED  BY <1>2, <1>7, <2>1, <2>2, <1>6 DEF StageAt
<1>10. CASE Research(w)
    <2>1. PICK v \in Terminal :
            /\ stage' = [stage EXCEPT ![wjob[w]] = FinishStage(old, "research", v)]
            /\ WorkerGoes(w, IF v = "succeeded" THEN "model_start" ELSE "model_finish")
            /\ failing' = [failing EXCEPT ![w] = (v = "failed")]
        BY <1>10 DEF Research
    <2>. DEFINE rows == FinishStage(old, "research", v)
    <2>2. rows \in StageRows /\ rows["admission"] = old["admission"]
        BY <1>2, <1>3, Literals, StageRowsTyped, AdmissionKept
    <2>3. old["research"] = "running" /\ old["model"] = "pending"
        BY <1>3, <1>10 DEF Research, StageAt
    <2>4. rows["research"] = v /\ rows["model"] = "pending"
        BY <1>2, <2>3 DEF FinishStage, StageRows, Stages, Unfinished
    <2>5. CASE v = "succeeded"
        <3>1. "model_start" \in Handling /\ WorkerGoes(w, "model_start")
            BY <2>1, <2>5 DEF Handling, WorkerPcs
        <3>. QED  BY <2>1, <2>2, <2>4, <2>5, <3>1, <1>6 DEF StageAt, Passed
    <2>6. CASE v = "failed"
        <3>1. "model_finish" \in Handling /\ WorkerGoes(w, "model_finish") /\ failing'[w]
            BY <1>5, <2>1, <2>6 DEF Handling, WorkerPcs
        <3>. QED  BY <2>1, <2>2, <3>1, <1>6 DEF StageAt
    <2>. QED  BY <2>5, <2>6 DEF Terminal
<1>11. CASE ModelStart(w)
    <2>. DEFINE rows == StartStage(old, "model")
    <2>1. rows \in StageRows /\ rows["admission"] = old["admission"]
        BY <1>2, <1>3, Literals, StageRowsTyped, AdmissionKept
    <2>2. rows["research"] \in Passed /\ rows["model"] = "running"
        BY <1>2, <1>3, <1>11 DEF ModelStart, StageAt, StartStage, StageRows, Stages
    <2>3. "calling" \in Handling
        BY DEF Handling, WorkerPcs
    <2>. QED  BY <1>11, <2>1, <2>2, <2>3, <1>6 DEF ModelStart, StageAt
<1>12. CASE ModelAnswers(w)
    <2>1. old["research"] \in Passed /\ old["model"] = "running"
        BY <1>3, <1>12 DEF ModelAnswers, StageAt
    <2>2. "model_finish" \in Handling
        BY DEF Handling, WorkerPcs
    <2>. QED  BY <1>2, <1>7, <1>12, <2>1, <2>2, <1>6 DEF ModelAnswers, StageAt
<1>13. CASE ModelFinish(w)
    <2>. DEFINE v == IF failing[w] THEN "failed" ELSE "succeeded"
                rows == FinishStage(old, "model", v)
    <2>1. v \in Terminal /\ UNCHANGED failing /\ stage' = [stage EXCEPT ![wjob[w]] = rows]
        BY <1>13, Literals DEF ModelFinish
    <2>2. rows \in StageRows /\ rows["admission"] = old["admission"]
        BY <1>2, <1>3, <2>1, Literals, StageRowsTyped, AdmissionKept
    <2>3. CASE failing[w]
        <3>1. "fail_rest" \in Handling /\ WorkerGoes(w, "fail_rest")
            BY <1>13, <2>3 DEF ModelFinish, Handling, WorkerPcs
        <3>. QED  BY <2>1, <2>2, <2>3, <3>1, <1>6 DEF StageAt
    <2>4. CASE ~failing[w]
        <3>1. "persist_start" \in Handling /\ WorkerGoes(w, "persist_start")
            BY <1>13, <2>4 DEF ModelFinish, Handling, WorkerPcs
        <3>2. old["research"] \in Passed /\ old["model"] = "running"
            BY <1>3, <1>13, <2>4 DEF ModelFinish, StageAt
        <3>3. rows["research"] \in Passed /\ rows["model"] = "succeeded"
            BY <1>2, <2>4, <3>2 DEF FinishStage, StageRows, Stages, Unfinished
        <3>. QED  BY <2>1, <2>2, <3>1, <3>3, <1>6 DEF StageAt, Passed, Unfinished
    <2>. QED  BY <2>3, <2>4
<1>14. CASE FailRest(w)
    <2>. DEFINE rows == FailUnfinishedStages(old)
    <2>1. rows \in StageRows /\ rows["admission"] = old["admission"]
        BY <1>2, <1>3, StageRowsTyped, AdmissionKept
    <2>2. rows["research"] \notin Unfinished /\ rows["model"] \notin Unfinished
        BY DEF FailUnfinishedStages, Stages, Unfinished
    <2>3. failing'[w] /\ "persist_start" \in Handling
        BY <1>3, <1>14 DEF FailRest, StageAt, Handling, WorkerPcs
    <2>. QED  BY <1>14, <2>1, <2>2, <2>3, <1>6 DEF FailRest, StageAt
<1>15. CASE PersistStart(w)
    <2>. DEFINE rows == StartStage(old, "persist")
    <2>1. rows \in StageRows /\ rows["admission"] = old["admission"]
        BY <1>2, <1>3, Literals, StageRowsTyped, AdmissionKept
    <2>2. rows["research"] = old["research"] /\ rows["model"] = old["model"]
        BY <1>2 DEF StartStage, StageRows, Stages
    <2>3. "finish" \in Handling
        BY DEF Handling, WorkerPcs
    <2>. QED  BY <1>3, <1>15, <2>1, <2>2, <2>3, <1>6 DEF PersistStart, StageAt
<1>. QED  BY <1>8, <1>9, <1>10, <1>11, <1>12, <1>13, <1>14, <1>15

\* A worker that takes a job from the queue, claims it, settles it or dies.
LEMMA GetPlaces ==
    ASSUME TypeOK, ProcessInv, PlacesInv, NEW w \in Workers, LoopHead(w) \/ Get(w)
    PROVE  PlacesInv'
<1>1. /\ wpc[w] \in {"head", "get"} /\ wpc[w] # "dead" /\ wjob[w] = None
      /\ UNCHANGED <<status, crid, stage, exchange, phase, pc, own, failing, runs, saturated,
                     abandoned>>
    BY DEF LoopHead, Get, PlacesInv, WorkersInv, Holding, dbVars, processVars, threadVars,
           historyVars
<1>2. \A v \in Workers : v # w => wpc[v] = "dead" /\ wjob[v] = None
    BY <1>1, OthersAreDead DEF PlacesInv
<1>3. /\ wpc \in [Workers -> WorkerPcs] /\ wjob \in [Workers -> Jobs \cup {None}]
      /\ \A v \in Workers : v # w => wpc'[v] = wpc[v] /\ wjob'[v] = wjob[v]
    BY DEF LoopHead, Get, WorkerGoes, TypeOK, WorkerTypeOK
<1>4. \A j \in Jobs : Waits(j)' <=> Waits(j)
    BY <1>1 DEF Waits
<1>5. RefusedInv' /\ ExchangeIsAnswered'
    BY <1>1 DEF PlacesInv, RefusedInv, ExchangeIsAnswered
<1>6. wpc'[w] \in {"dead", "head", "get", "claim"}
    BY <1>3 DEF LoopHead, Get, WorkerGoes
<1>7. StagesInv'
    <2>1. \A v \in Workers : StageAt(v)'
        BY <1>2, <1>3, <1>6 DEF StageAt
    <2>. QED  BY <1>1, <1>4, <2>1 DEF PlacesInv, StagesInv, SettledStages
<1>8. CASE queue' = queue /\ wjob' = wjob /\ wpc'[w] # "claim"
    <2>1. QueueInv'
        BY <1>4, <1>8, QueueKept DEF PlacesInv, QueueInv
    <2>2. WorkersInv'
        BY <1>1, <1>2, <1>3, <1>6, <1>8 DEF WorkersInv, Holding, Handling
    <2>3. ThreadsInv'
        BY <1>1, <1>8, QueueKept DEF PlacesInv, ThreadsInv, Waits
    <2>4. OpenJobsAreHeld'
        BY <1>1, <1>8, QueueKept DEF PlacesInv, OpenJobsAreHeld
    <2>. QED  BY <1>5, <1>7, <2>1, <2>2, <2>3, <2>4 DEF PlacesInv
<1>9. CASE Get(w) /\ queue # <<>>
    <2>. DEFINE j == Head(queue)
    <2>1. /\ queue' = Tail(queue) /\ wpc'[w] = "claim" /\ wjob'[w] = j
        BY <1>3, <1>9 DEF Get, WorkerGoes
    <2>2. /\ Unique' /\ j \in Jobs /\ InQueue(j)
          /\ \A i : InQueue(i)' <=> InQueue(i) /\ i # j
        BY <1>9, <2>1, QueueTaken DEF PlacesInv, QueueInv
    <2>3. Waits(j)
        BY <2>2 DEF PlacesInv, QueueInv
    <2>4. QueueInv'
        BY <1>4, <2>2 DEF PlacesInv, QueueInv
    <2>5. WorkersInv'
        BY <1>2, <1>3, <1>4, <2>1, <2>2, <2>3 DEF WorkersInv, Holding, Handling
    <2>6. ThreadsInv'
        <3>1. \A t \in Threads : pc[t] = "enqueue" => own[t] # j
            BY <2>2 DEF PlacesInv, ThreadsInv
        <3>2. \A t \in Threads : pc[t] = "enqueue" => \A v \in Workers : wjob'[v] # own[t]
            BY <1>3, <2>1, <3>1 DEF PlacesInv, ThreadsInv
        <3>. QED  BY <1>1, <2>2, <3>2 DEF PlacesInv, ThreadsInv, Waits
    <2>7. OpenJobsAreHeld'
        <3> SUFFICES ASSUME phase = "up", NEW i \in Jobs, status[i] \in OpenStatuses,
                            i \notin saturated \cup abandoned
                     PROVE  \/ status[i] = "queued" /\ InQueue(i)'
                            \/ status[i] = "queued" /\ \E t \in Threads :
                                  own[t] = i /\ pc[t] = "enqueue"
                            \/ \E v \in Workers : wjob'[v] = i
            BY <1>1 DEF OpenJobsAreHeld
        <3>1. \/ status[i] = "queued" /\ InQueue(i)
              \/ status[i] = "queued" /\ \E t \in Threads : own[t] = i /\ pc[t] = "enqueue"
              \/ \E v \in Workers : wjob[v] = i
            BY DEF PlacesInv, OpenJobsAreHeld
        <3>2. ASSUME NEW v \in Workers, wjob[v] = i PROVE FALSE
            BY <1>1, <1>2, <3>2, JobsAssumption
        <3>. QED  BY <2>1, <2>2, <3>1, <3>2
    <2>. QED  BY <1>5, <1>7, <2>4, <2>5, <2>6, <2>7 DEF PlacesInv
<1>10. (queue' = queue /\ wjob' = wjob /\ wpc'[w] # "claim") \/ (Get(w) /\ queue # <<>>)
    BY <1>3 DEF LoopHead, Get, WorkerGoes, processVars
<1>. QED  BY <1>8, <1>9, <1>10

LEMMA ClaimPlaces ==
    ASSUME TypeOK, ProcessInv, PlacesInv, NEW w \in Workers, Claim(w)
    PROVE  PlacesInv'
<1>. DEFINE j == wjob[w]
<1>1. j \in Jobs /\ wpc[w] = "claim" /\ wpc[w] # "dead"
    BY HeldJob DEF Claim, Holding
<1>2. Waits(j) /\ ~InQueue(j) /\ status[j] = "queued"
    BY <1>1 DEF PlacesInv, WorkersInv, Waits
<1>3. \A v \in Workers : v # w => wpc[v] = "dead" /\ wjob[v] = None
    BY <1>1, OthersAreDead DEF PlacesInv
<1>4. /\ status \in [Jobs -> JobStatuses] /\ runs \in [Jobs -> Nat]
      /\ wpc \in [Workers -> WorkerPcs]
    BY DEF TypeOK, DbTypeOK, HistoryTypeOK, WorkerTypeOK
<1>5. /\ status' = [status EXCEPT ![j] = "running"] /\ runs' = [runs EXCEPT ![j] = @ + 1]
      /\ wpc' = [wpc EXCEPT ![w] = "handler"]
      /\ UNCHANGED <<crid, stage, exchange, phase, queue, pc, own, wjob, saturated, abandoned>>
    BY <1>2 DEF Claim, WorkerGoes, processVars, threadVars
<1>6. /\ status'[j] = "running" /\ \A i \in Jobs : i # j => status'[i] = status[i]
      /\ wpc'[w] = "handler" /\ \A v \in Workers : v # w => wpc'[v] = wpc[v]
    BY <1>1, <1>4, <1>5
<1>7. \A i \in Jobs : Waits(i)' <=> Waits(i) /\ i # j
    BY <1>2, <1>5, <1>6 DEF Waits
<1>8. QueueInv'
    BY <1>2, <1>5, <1>7, QueueKept DEF PlacesInv, QueueInv
<1>9. WorkersInv'
    BY <1>3, <1>5, <1>6 DEF WorkersInv, Holding, Handling, WorkerPcs
<1>10. ThreadsInv'
    <2>1. \A t \in Threads : pc[t] \in {"enqueue", "saving"} => own[t] \in Jobs /\ own[t] # j
        BY <1>2, OwnJob DEF HasRow, PlacesInv, ThreadsInv
    <2>. QED  BY <1>5, <1>6, <1>7, <2>1, QueueKept DEF PlacesInv, ThreadsInv
<1>11. RefusedInv'
    BY <1>2, <1>4, <1>5, <1>6 DEF PlacesInv, RefusedInv, Waits, TypeOK, HistoryTypeOK
<1>12. StagesInv'
    <2>1. stage[j] = InitialStages(crid[j])
        BY <1>1, <1>2 DEF PlacesInv, StagesInv
    <2>2. \A v \in Workers : StageAt(v)'
        BY <1>3, <1>5, <1>6, <2>1 DEF StageAt
    <2>3. SettledStages'
        BY <1>5, <1>6 DEF PlacesInv, StagesInv, SettledStages, Terminal
    <2>. QED  BY <1>5, <1>7, <2>2, <2>3 DEF PlacesInv, StagesInv
<1>13. OpenJobsAreHeld'
    BY <1>5, <1>6, QueueKept DEF PlacesInv, OpenJobsAreHeld
<1>14. ExchangeIsAnswered'
    BY <1>2, <1>5, <1>6 DEF PlacesInv, ExchangeIsAnswered, TypeOK, DbTypeOK
<1>. QED  BY <1>8, <1>9, <1>10, <1>11, <1>12, <1>13, <1>14 DEF PlacesInv

\* The worker is done with its job, which is settled or left behind.
LEMMA LeavePlaces ==
    ASSUME TypeOK, ProcessInv, PlacesInv, NEW w \in Workers, Holding(w),
           NEW next \in {"dead", "head"}, WorkerGoes(w, next),
           wjob' = [wjob EXCEPT ![w] = None],
           UNCHANGED <<crid, exchange, phase, queue, pc, own, runs, saturated>>,
           \/ UNCHANGED <<status, stage>> /\ abandoned' = abandoned \cup {wjob[w]}
           \/ /\ UNCHANGED abandoned /\ wpc[w] \in Handling
              /\ \E v \in Terminal :
                    /\ status' = [status EXCEPT ![wjob[w]] = v]
                    /\ stage' = [stage EXCEPT ![wjob[w]] = FinishStage(@, "persist", v)]
                    /\ \A s \in Stages : /\ stage'[wjob[w]][s] \notin Unfinished
                                         /\ v = "succeeded" => stage'[wjob[w]][s] # "failed"
    PROVE  PlacesInv'
<1>. DEFINE j == wjob[w]
<1>1. j \in Jobs /\ wpc[w] # "dead" /\ wpc \in [Workers -> WorkerPcs]
      /\ wjob \in [Workers -> Jobs \cup {None}]
    BY HeldJob DEF Holding, TypeOK, WorkerTypeOK
<1>2. \A v \in Workers : v # w => wpc[v] = "dead" /\ wjob[v] = None
    BY <1>1, OthersAreDead DEF PlacesInv
<1>3. /\ wpc'[w] \in {"dead", "head"} /\ wjob'[w] = None
      /\ \A v \in Workers : v # w => wpc'[v] = "dead" /\ wjob'[v] = None
    BY <1>1, <1>2 DEF WorkerGoes
<1>4. /\ status \in [Jobs -> JobStatuses] /\ stage \in [Jobs -> StageRows]
    BY DEF TypeOK, DbTypeOK, StageRows
<1>5. \A i \in Jobs : i # j => status'[i] = status[i] /\ stage'[i] = stage[i]
    BY <1>4
<1>6. UNCHANGED <<status, stage>> \/ (status[j] = "running" /\ status'[j] \in Terminal)
    BY <1>1, <1>4 DEF PlacesInv, WorkersInv
<1>7. \A i \in Jobs : Waits(i)' <=> Waits(i)
    BY <1>5, <1>6 DEF Waits, Terminal
<1>8. QueueInv'
    BY <1>7, QueueKept DEF PlacesInv, QueueInv
<1>9. WorkersInv'
    BY <1>3 DEF WorkersInv, Holding, Handling
<1>10. ThreadsInv'
    <2>1. \A t \in Threads : pc[t] \in {"enqueue", "saving"} => own[t] \in Jobs
        BY OwnJob DEF HasRow
    <2>2. \A t \in Threads : pc[t] = "enqueue" => \A v \in Workers : wjob'[v] # own[t]
        BY <1>3, <2>1, JobsAssumption
    <2>3. \A t \in Threads : pc[t] = "saving" => status'[own[t]] = "succeeded"
        BY <1>5, <1>6, <2>1 DEF PlacesInv, ThreadsInv
    <2>. QED  BY <1>7, <2>1, <2>2, <2>3, QueueKept DEF PlacesInv, ThreadsInv
<1>11. RefusedInv' /\ ExchangeIsAnswered'
    <2>1. \A i \in Jobs : i \in saturated \cup exchange => status'[i] = status[i]
        BY <1>5, <1>6 DEF PlacesInv, RefusedInv, ExchangeIsAnswered
    <2>. QED  BY <2>1 DEF PlacesInv, RefusedInv, ExchangeIsAnswered, TypeOK, DbTypeOK,
                          HistoryTypeOK
<1>12. StagesInv'
    <2>1. \A v \in Workers : StageAt(v)'
        BY <1>3 DEF StageAt
    <2>2. SettledStages'
        BY <1>1, <1>4, <1>5 DEF PlacesInv, StagesInv, SettledStages
    <2>3. \A i \in Jobs : Waits(i)' => stage'[i] = InitialStages(crid'[i])
        BY <1>5, <1>6, <1>7 DEF PlacesInv, StagesInv, Waits
    <2>4. stage'[j]["admission"] \in {"none", "succeeded"}
        <3>1. stage[j]["admission"] \in {"none", "succeeded"}
            BY <1>1 DEF PlacesInv, StagesInv
        <3>2. \A v \in Terminal :
                 FinishStage(stage[j], "persist", v)["admission"] \in {"none", "succeeded"}
            BY <1>1, <1>4, <3>1, AdmissionKept, Literals
        <3>. QED  BY <1>1, <1>4, <3>1, <3>2
    <2>. QED  BY <1>5, <2>1, <2>2, <2>3, <2>4 DEF PlacesInv, StagesInv
<1>13. OpenJobsAreHeld'
    <2> SUFFICES ASSUME phase = "up", NEW i \in Jobs, status'[i] \in OpenStatuses,
                        i \notin saturated \cup abandoned'
                 PROVE  \/ status'[i] = "queued" /\ InQueue(i)'
                        \/ status'[i] = "queued" /\ \E t \in Threads :
                              own[t] = i /\ pc[t] = "enqueue"
        BY DEF OpenJobsAreHeld
    <2>1. i # j
        BY <1>1, <1>4 DEF OpenStatuses, Terminal
    <2>2. ~\E v \in Workers : wjob[v] = i
        BY <1>2, <2>1, JobsAssumption
    <2>. QED  BY <1>5, <2>1, <2>2, QueueKept DEF PlacesInv, OpenJobsAreHeld
<1>. QED  BY <1>8, <1>9, <1>10, <1>11, <1>12, <1>13 DEF PlacesInv

LEMMA FinishPlaces ==
    ASSUME TypeOK, ProcessInv, RowsInv, PlacesInv, NEW w \in Workers,
           Finish(w) \/ FinishUnread(w)
    PROVE  PlacesInv'
<1>. DEFINE j == wjob[w]
            v == IF failing[w] THEN "failed" ELSE "succeeded"
            rows == FinishStage(stage[j], "persist", v)
<1>1. Holding(w) /\ j \in Jobs /\ wpc[w] \in Handling
    BY HeldJob DEF Finish, FinishUnread, Settle, Holding, Handling, WorkerPcs
<1>2. status[j] = "running" /\ stage[j] \in StageRows
    BY <1>1, StageOf DEF PlacesInv, WorkersInv
<1>3. status' = [status EXCEPT ![j] = v] /\ stage' = [stage EXCEPT ![j] = rows] /\ v \in Terminal
    BY <1>2, Literals DEF Finish, FinishUnread, Settle, FinishJob
<1>4. \A s \in Stages : rows[s] \notin Unfinished /\ (v = "succeeded" => rows[s] # "failed")
    <2>1. stage[j]["persist"] \in Unfinished
        BY <1>1, <1>2 DEF RowsInv, OpenStatuses
    <2>2. /\ stage[j]["admission"] \in {"none", "succeeded"}
          /\ stage[j]["research"] \notin Unfinished /\ stage[j]["model"] \notin Unfinished
          /\ ~failing[w] => stage[j]["research"] \in Passed /\ stage[j]["model"] \in Passed
        BY <1>1 DEF Finish, FinishUnread, Settle, PlacesInv, StagesInv, StageAt
    <2>3. rows = [stage[j] EXCEPT !["persist"] = v]
        BY <2>1 DEF FinishStage
    <2>. QED  BY <1>2, <2>2, <2>3 DEF StageRows, Stages, Unfinished, Passed
<1>5. stage'[j] = rows
    BY <1>1, <1>3 DEF TypeOK, DbTypeOK
<1>6. /\ WorkerGoes(w, "head") \/ WorkerGoes(w, "dead")
      /\ wjob' = [wjob EXCEPT ![w] = None]
      /\ UNCHANGED <<crid, exchange, phase, queue, pc, own, runs, saturated, abandoned>>
    BY DEF Finish, FinishUnread, Settle, processVars, threadVars, historyVars
<1>. QED  BY <1>1, <1>3, <1>4, <1>5, <1>6, LeavePlaces

LEMMA DbErrorPlaces ==
    ASSUME TypeOK, ProcessInv, PlacesInv, NEW w \in Workers, TransactionFails(w)
    PROVE  PlacesInv'
<1>1. Holding(w) /\ wjob[w] \in Jobs /\ stage[wjob[w]] \in StageRows
      /\ stage \in [Jobs -> StageRows] /\ failing \in [Workers -> BOOLEAN]
    BY HeldJob, StageOf DEF TransactionFails, Holding, TypeOK, DbTypeOK, StageRows, WorkerTypeOK
<1>2. UNCHANGED <<status, crid, stage, exchange, phase, queue, pc, own, runs, saturated>>
    BY DEF TransactionFails, dbVars, processVars, threadVars
<1>3. CASE /\ wpc[w] \in {"handler", "research", "model_start"}
              /\ WorkerGoes(w, "model_finish")
              /\ failing' = [failing EXCEPT ![w] = TRUE]
              /\ UNCHANGED <<wjob, abandoned>>
    <2>1. /\ WorkerGoes(w, "model_finish") /\ failing'[w] /\ UNCHANGED <<wjob, abandoned>>
          /\ wpc[w] \in Handling /\ "model_finish" \in Handling
        BY <1>1, <1>3 DEF Handling, WorkerPcs
    <2>2. StageAt(w)'
        BY <2>1 DEF StageAt, WorkerGoes, TypeOK, WorkerTypeOK
    <2>3. stage' = [stage EXCEPT ![wjob[w]] = stage[wjob[w]]]
        BY <1>1, <1>2
    <2>. QED  BY <1>1, <1>2, <2>1, <2>2, <2>3, HandlingStep
<1>4. CASE /\ WorkerGoes(w, "dead")
              /\ abandoned' = abandoned \cup {wjob[w]}
              /\ wjob' = [wjob EXCEPT ![w] = None]
    BY <1>1, <1>2, <1>4, LeavePlaces
<1>. QED  BY <1>3, <1>4 DEF TransactionFails

\* A request thread that neither writes a row nor touches the queue; start() may
\* have given a dead worker a new life.
LEMMA ThreadMoves ==
    ASSUME TypeOK, ProcessInv, PlacesInv, NEW t \in Threads,
           NEW next \in {"idle", "lookup", "capacity", "create", "start", "waiting", "saving"},
           pc' = [pc EXCEPT ![t] = next],
           \A u \in Threads : u # t => own'[u] = own[u],
           next = "saving" => own' = own /\ status[own[t]] = "succeeded",
           UNCHANGED <<status, crid, stage, phase, queue, wjob, failing, runs, saturated>>,
           \A w \in Workers : wpc'[w] = wpc[w] \/ (wpc[w] = "dead" /\ wpc'[w] = "head"),
           abandoned \subseteq abandoned', pc[t] = "enqueue" => own[t] \in abandoned',
           exchange' = exchange \/ (pc[t] = "saving" /\ exchange' = exchange \cup {own[t]})
    PROVE  PlacesInv'
<1>1. pc'[t] = next /\ \A u \in Threads : u # t => pc'[u] = pc[u]
    BY DEF TypeOK, ThreadTypeOK
<1>2. \A j \in Jobs : Waits(j)' <=> Waits(j)
    BY DEF Waits
<1>3. QueueInv'
    BY <1>2, QueueKept DEF PlacesInv, QueueInv
<1>4. WorkersInv'
    BY QueueKept DEF PlacesInv, WorkersInv, Holding, Handling, Waits
<1>5. ThreadsInv'
    <2>1. \A u \in Threads : pc'[u] \in {"enqueue", "sat_finish", "sat_stages"} =>
             u # t /\ pc[u] = pc'[u] /\ own'[u] = own[u]
        BY <1>1
    <2>2. \A u \in Threads : pc'[u] = "saving" => status'[own'[u]] = "succeeded"
        BY <1>1 DEF PlacesInv, ThreadsInv
    <2>3. \A u \in Threads : pc'[u] = "enqueue" => Waits(own[u])'
        BY <2>1 DEF PlacesInv, ThreadsInv, Waits
    <2>4. \A u \in Threads : pc'[u] = "enqueue" => ~InQueue(own[u])'
        BY <2>1, QueueKept DEF PlacesInv, ThreadsInv
    <2>. QED  BY <2>1, <2>2, <2>3, <2>4 DEF PlacesInv, ThreadsInv
<1>6. RefusedInv'
    BY DEF PlacesInv, RefusedInv
<1>7. StagesInv'
    <2>1. \A w \in Workers : StageAt(w)'
        BY DEF PlacesInv, StagesInv, StageAt
    <2>. QED  BY <1>2, <2>1 DEF PlacesInv, StagesInv, SettledStages
<1>8. OpenJobsAreHeld'
    <2> SUFFICES ASSUME phase = "up", NEW j \in Jobs, status[j] \in OpenStatuses,
                        j \notin saturated \cup abandoned'
                 PROVE  \/ status[j] = "queued" /\ InQueue(j)'
                        \/ status[j] = "queued" /\ \E u \in Threads :
                              own'[u] = j /\ pc'[u] = "enqueue"
                        \/ \E w \in Workers : wjob[w] = j
        BY DEF OpenJobsAreHeld
    <2>1. \/ status[j] = "queued" /\ InQueue(j)
          \/ status[j] = "queued" /\ \E u \in Threads : own[u] = j /\ pc[u] = "enqueue"
          \/ \E w \in Workers : wjob[w] = j
        BY DEF PlacesInv, OpenJobsAreHeld
    <2>2. \A u \in Threads : own[u] = j /\ pc[u] = "enqueue" => u # t
        OBVIOUS
    <2>. QED  BY <1>1, <2>1, <2>2, QueueKept
<1>9. ExchangeIsAnswered'
    BY DEF PlacesInv, ThreadsInv, ExchangeIsAnswered
<1>. QED  BY <1>3, <1>4, <1>5, <1>6, <1>7, <1>8, <1>9 DEF PlacesInv

LEMMA AnswerMoves ==
    ASSUME TypeOK, NEW t \in Threads, Answer(t)
    PROVE  /\ pc' = [pc EXCEPT ![t] = "idle"]
           /\ \A u \in Threads : u # t => own'[u] = own[u]
    BY DEF Answer, TypeOK, ThreadTypeOK

LEMMA QuietThreadPlaces ==
    ASSUME TypeOK, ProcessInv, PlacesInv, NEW t \in Threads,
           \/ Lookup(t) \/ CheckCapacity(t) \/ SubmitReturns(t) \/ WaitEnds(t)
           \/ SaveExchange(t) \/ ThreadDbError(t)
           \/ (\E r \in Requests : Submit(t, r))
           \/ (Create(t) /\ UNCHANGED status)
    PROVE  PlacesInv'
<1>. DEFINE Quiet ==
        /\ UNCHANGED <<status, crid, stage, phase, queue, wjob, failing, runs, saturated>>
        /\ \A w \in Workers : wpc'[w] = wpc[w] \/ (wpc[w] = "dead" /\ wpc'[w] = "head")
        /\ abandoned \subseteq abandoned'
        /\ pc[t] = "enqueue" => own[t] \in abandoned'
        /\ exchange' = exchange \/ (pc[t] = "saving" /\ exchange' = exchange \cup {own[t]})
<1>1. CASE Lookup(t) \/ CheckCapacity(t)
    <2>1. Quiet
        BY <1>1 DEF Lookup, CheckCapacity, dbVars, processVars, workerVars, historyVars
    <2>2. Answer(t) \/ ((ThreadGoes(t, "capacity") \/ ThreadGoes(t, "create")) /\ own' = own)
        BY <1>1 DEF Lookup, CheckCapacity
    <2>. QED  BY <2>1, <2>2, AnswerMoves, ThreadMoves DEF ThreadGoes
<1>2. CASE SubmitReturns(t)
    <2>1. \A w \in Workers : wpc'[w] = wpc[w] \/ (wpc[w] = "dead" /\ wpc'[w] = "head")
        BY <1>2 DEF SubmitReturns, StartWorker, Alive, TypeOK, WorkerTypeOK
    <2>2. Quiet
        BY <1>2, <2>1 DEF SubmitReturns, dbVars
    <2>3. Answer(t) \/ (ThreadGoes(t, "waiting") /\ own' = own)
        BY <1>2 DEF SubmitReturns
    <2>. QED  BY <2>2, <2>3, AnswerMoves, ThreadMoves DEF ThreadGoes
<1>3. CASE WaitEnds(t)
    <2>1. Quiet
        BY <1>3 DEF WaitEnds, dbVars, processVars, workerVars, historyVars
    <2>2. Answer(t) \/ (ThreadGoes(t, "saving") /\ own' = own /\ status[own[t]] = "succeeded")
        BY <1>3 DEF WaitEnds
    <2>. QED  BY <2>1, <2>2, AnswerMoves, ThreadMoves DEF ThreadGoes
<1>4. CASE SaveExchange(t) \/ ThreadDbError(t)
    <2>1. Quiet /\ Answer(t)
        BY <1>4 DEF SaveExchange, ThreadDbError, dbVars, processVars, workerVars, historyVars
    <2>. QED  BY <2>1, AnswerMoves, ThreadMoves
<1>5. ASSUME NEW r \in Requests, Submit(t, r) PROVE PlacesInv'
    <2>1. Quiet /\ ThreadGoes(t, "lookup") /\ own' = own
        BY <1>5 DEF Submit, dbVars, processVars, workerVars, historyVars
    <2>. QED  BY <2>1, ThreadMoves DEF ThreadGoes
<1>6. CASE Create(t) /\ UNCHANGED status
    <2>1. RowsOf(req[t]) # {} /\ Answer(t) /\ UNCHANGED <<status, crid, stage>>
        <3>1. ASSUME NEW j \in Jobs, InsertRow(t, j) PROVE FALSE
            BY <1>6, <3>1 DEF InsertRow, TypeOK, DbTypeOK
        <3>. QED  BY <1>6, <3>1 DEF Create
    <2>2. Quiet
        BY <1>6, <2>1 DEF Create, processVars, workerVars, historyVars
    <2>. QED  BY <2>1, <2>2, AnswerMoves, ThreadMoves
<1>. QED  BY <1>1, <1>2, <1>3, <1>4, <1>5, <1>6

LEMMA InsertPlaces ==
    ASSUME TypeOK, ProcessInv, RowsInv, PlacesInv, NEW t \in Threads, Create(t),
           NEW j \in Jobs, InsertRow(t, j)
    PROVE  PlacesInv'
<1>1. /\ status \in [Jobs -> JobStatuses] /\ stage \in [Jobs -> StageRows]
      /\ crid \in [Jobs -> Requests \cup {None}]
      /\ pc \in [Threads -> ThreadPcs] /\ own \in [Threads -> Jobs \cup {None}]
    BY DEF TypeOK, DbTypeOK, StageRows, ThreadTypeOK
<1>2. /\ status[j] = "absent" /\ status'[j] = "queued" /\ crid'[j] = req[t]
      /\ stage'[j] = InitialStages(req[t])
      /\ \A i \in Jobs : i # j => /\ status'[i] = status[i] /\ crid'[i] = crid[i]
                                  /\ stage'[i] = stage[i]
    BY <1>1 DEF InsertRow
<1>3. /\ pc'[t] = "enqueue" /\ own'[t] = j
      /\ \A u \in Threads : u # t => pc'[u] = pc[u] /\ own'[u] = own[u]
    BY <1>1 DEF InsertRow, ThreadGoes
<1>4. UNCHANGED <<exchange, phase, queue, wpc, wjob, failing, runs, saturated, abandoned>>
    BY DEF Create, processVars, workerVars, historyVars
<1>5. j \notin saturated /\ ~InQueue(j) /\ \A w \in Workers : wjob[w] # j
    <2>1. j \notin saturated /\ ~InQueue(j)
        BY <1>2 DEF PlacesInv, QueueInv, RefusedInv, Waits
    <2>2. \A w \in Workers : wpc[w] = "claim" \/ wpc[w] \in Handling \/ ~Holding(w)
        BY DEF Handling, Holding, TypeOK, WorkerTypeOK
    <2>3. \A w \in Workers : wjob[w] # j
        BY <1>2, <2>2, JobsAssumption DEF PlacesInv, WorkersInv, Waits
    <2>. QED  BY <2>1, <2>3
<1>6. \A i \in Jobs : Waits(i)' <=> Waits(i) \/ i = j
    BY <1>2, <1>4, <1>5 DEF Waits
<1>7. QueueInv'
    BY <1>4, <1>6, QueueKept DEF PlacesInv, QueueInv
<1>8. WorkersInv'
    <2>1. \A w \in Workers : wpc[w] = "claim" \/ wpc[w] \in Handling => wjob[w] \in Jobs
        BY HeldJob DEF Holding, Handling
    <2>. QED  BY <1>2, <1>4, <1>5, <1>6, <2>1, QueueKept DEF PlacesInv, WorkersInv, Holding
<1>9. ThreadsInv'
    <2>1. \A u \in Threads : pc[u] \in {"enqueue", "saving"} => own[u] \in Jobs /\ own[u] # j
        BY <1>2, OwnJob DEF HasRow, PlacesInv, ThreadsInv, Waits
    <2>. QED  BY <1>2, <1>3, <1>4, <1>5, <1>6, <2>1, QueueKept DEF PlacesInv, ThreadsInv
<1>10. RefusedInv' /\ ExchangeIsAnswered'
    BY <1>2, <1>4, <1>5
    DEF PlacesInv, RefusedInv, ExchangeIsAnswered, TypeOK, DbTypeOK, HistoryTypeOK
<1>11. StagesInv'
    <2>1. \A w \in Workers : StageAt(w)'
        <3>1. \A w \in Workers : wpc[w] \in Handling => wjob[w] \in Jobs \ {j}
            BY <1>5, HeldJob DEF Holding, Handling
        <3>2. \A w \in Workers : wpc[w] \in Handling =>
                 stage'[wjob'[w]] = stage[wjob[w]] /\ crid'[wjob'[w]] = crid[wjob[w]]
            BY <1>2, <1>4, <3>1
        <3>. QED  BY <1>4, <3>2 DEF PlacesInv, StagesInv, StageAt, Handling, WorkerPcs
    <2>2. SettledStages'
        BY <1>2 DEF PlacesInv, StagesInv, SettledStages, Terminal
    <2>3. stage'[j]["admission"] = "succeeded"
        BY <1>2 DEF InitialStages, Stages
    <2>. QED  BY <1>2, <1>6, <2>1, <2>2, <2>3 DEF PlacesInv, StagesInv
<1>12. OpenJobsAreHeld'
    <2>1. \A u \in Threads : pc[u] = "enqueue" => u # t
        BY DEF Create
    <2>. QED  BY <1>2, <1>3, <1>4, <2>1, QueueKept DEF PlacesInv, OpenJobsAreHeld
<1>. QED  BY <1>7, <1>8, <1>9, <1>10, <1>11, <1>12 DEF PlacesInv

LEMMA EnqueuePlaces ==
    ASSUME TypeOK, ProcessInv, RowsInv, PlacesInv, NEW t \in Threads, Enqueue(t)
    PROVE  PlacesInv'
<1>. DEFINE j == own[t]
<1>1. /\ j \in Jobs /\ pc[t] = "enqueue" /\ Waits(j) /\ ~InQueue(j)
      /\ \A w \in Workers : wjob[w] # j
      /\ \A u \in Threads : pc[u] = "enqueue" /\ own[u] = j => u = t
    BY OwnJob DEF Enqueue, HasRow, PlacesInv, ThreadsInv
<1>2. /\ UNCHANGED <<status, crid, stage, exchange, phase, own, wpc, wjob, failing, runs,
                     abandoned>>
      /\ pc \in [Threads -> ThreadPcs]
    BY DEF Enqueue, dbVars, workerVars, TypeOK, ThreadTypeOK
<1>3. CASE queue' = Append(queue, j) /\ ThreadGoes(t, "start") /\ UNCHANGED saturated
    <2>1. pc'[t] = "start" /\ \A u \in Threads : u # t => pc'[u] = pc[u]
        BY <1>2, <1>3 DEF ThreadGoes
    <2>2. Unique' /\ \A i : InQueue(i)' <=> InQueue(i) \/ i = j
        BY <1>1, <1>3, QueuePut DEF PlacesInv, QueueInv
    <2>3. \A i : Waits(i)' <=> Waits(i)
        BY <1>2, <1>3 DEF Waits
    <2>4. QueueInv'
        BY <1>1, <2>2, <2>3 DEF PlacesInv, QueueInv
    <2>5. WorkersInv'
        BY <1>1, <1>2, <2>2, <2>3 DEF PlacesInv, WorkersInv, Holding
    <2>6. ThreadsInv'
        BY <1>1, <1>2, <1>3, <2>1, <2>2, <2>3 DEF PlacesInv, ThreadsInv
    <2>7. RefusedInv' /\ ExchangeIsAnswered'
        BY <1>2, <1>3 DEF PlacesInv, RefusedInv, ExchangeIsAnswered
    <2>8. StagesInv'
        <3>1. \A w \in Workers : StageAt(w)'
            BY <1>2 DEF PlacesInv, StagesInv, StageAt
        <3>. QED  BY <1>2, <2>3, <3>1 DEF PlacesInv, StagesInv, SettledStages
    <2>9. OpenJobsAreHeld'
        BY <1>1, <1>2, <1>3, <2>1, <2>2 DEF PlacesInv, OpenJobsAreHeld
    <2>. QED  BY <2>4, <2>5, <2>6, <2>7, <2>8, <2>9 DEF PlacesInv
<1>4. CASE saturated' = saturated \cup {j} /\ ThreadGoes(t, "sat_finish") /\ UNCHANGED queue
    <2>1. pc'[t] = "sat_finish" /\ \A u \in Threads : u # t => pc'[u] = pc[u]
        BY <1>2, <1>4 DEF ThreadGoes
    <2>2. \A i : Waits(i)' <=> Waits(i) /\ i # j
        BY <1>2, <1>4 DEF Waits
    <2>3. QueueInv'
        BY <1>1, <1>4, <2>2, QueueKept DEF PlacesInv, QueueInv
    <2>4. WorkersInv'
        BY <1>1, <1>2, <1>4, <2>2, QueueKept DEF PlacesInv, WorkersInv, Holding
    <2>5. ThreadsInv'
        BY <1>1, <1>2, <1>4, <2>1, <2>2, QueueKept DEF PlacesInv, ThreadsInv
    <2>6. RefusedInv' /\ ExchangeIsAnswered'
        BY <1>1, <1>2, <1>4 DEF PlacesInv, RowsInv, RefusedInv, ExchangeIsAnswered, Waits
    <2>7. StagesInv'
        <3>1. \A w \in Workers : StageAt(w)'
            BY <1>2 DEF PlacesInv, StagesInv, StageAt
        <3>. QED  BY <1>2, <2>2, <3>1 DEF PlacesInv, StagesInv, SettledStages
    <2>8. OpenJobsAreHeld'
        BY <1>1, <1>2, <1>4, <2>1, QueueKept DEF PlacesInv, OpenJobsAreHeld
    <2>. QED  BY <2>3, <2>4, <2>5, <2>6, <2>7, <2>8 DEF PlacesInv
<1>. QED  BY <1>3, <1>4 DEF Enqueue

\* Refusing a job: finish() finds it queued or failed and writes nothing.
LEMMA SaturatedPlaces ==
    ASSUME TypeOK, ProcessInv, PlacesInv, NEW t \in Threads,
           SaturatedFinish(t) \/ SaturatedStages(t)
    PROVE  PlacesInv'
<1>. DEFINE j == own[t]
<1>1. /\ j \in Jobs /\ pc[t] \in {"sat_finish", "sat_stages"} /\ j \in saturated
      /\ status[j] \in {"queued", "failed"} /\ stage[j] \in StageRows
    BY OwnJob, StageOf DEF SaturatedFinish, SaturatedStages, HasRow, PlacesInv, ThreadsInv,
                           RefusedInv
<1>2. /\ UNCHANGED <<status, crid, exchange, phase, queue, wpc, wjob, failing, runs, saturated,
                     abandoned>>
      /\ stage \in [Jobs -> StageRows] /\ pc \in [Threads -> ThreadPcs]
    BY <1>1 DEF SaturatedFinish, SaturatedStages, FinishJob, processVars, workerVars,
                historyVars, TypeOK, DbTypeOK, StageRows, ThreadTypeOK
<1>3. /\ pc'[t] \in {"sat_stages", "idle"}
      /\ pc'[t] = "sat_stages" => own'[t] = j
      /\ \A u \in Threads : u # t => pc'[u] = pc[u] /\ own'[u] = own[u]
    BY AnswerMoves, <1>2 DEF SaturatedFinish, SaturatedStages, ThreadGoes
<1>4. \/ UNCHANGED stage
      \/ stage' = [stage EXCEPT ![j] = FailUnfinishedStages(stage[j])]
    BY <1>1 DEF SaturatedFinish, SaturatedStages, FinishJob
<1>5. \A i \in Jobs : i # j => stage'[i] = stage[i]
    BY <1>2, <1>4
<1>6. \A i : Waits(i)' <=> Waits(i)
    BY <1>2 DEF Waits
<1>7. QueueInv'
    BY <1>2, <1>6, QueueKept DEF PlacesInv, QueueInv
<1>8. WorkersInv'
    BY <1>2, <1>6, QueueKept DEF PlacesInv, WorkersInv, Holding
<1>9. ThreadsInv'
    <2>1. \A u \in Threads : pc'[u] \in {"enqueue", "saving"} =>
             u # t /\ pc[u] = pc'[u] /\ own'[u] = own[u]
        BY <1>3
    <2>2. \A u \in Threads : pc'[u] \in {"sat_finish", "sat_stages"} => own'[u] \in saturated
        BY <1>1, <1>3 DEF PlacesInv, ThreadsInv
    <2>3. \A u \in Threads : pc'[u] = "enqueue" => Waits(own[u])' /\ ~InQueue(own[u])'
        BY <1>2, <2>1, <1>6, QueueKept DEF PlacesInv, ThreadsInv, Waits
    <2>. QED  BY <1>2, <2>1, <2>2, <2>3 DEF PlacesInv, ThreadsInv
<1>10. RefusedInv' /\ ExchangeIsAnswered'
    BY <1>2 DEF PlacesInv, RefusedInv, ExchangeIsAnswered
<1>11. StagesInv'
    <2>1. \A w \in Workers : wpc[w] \in Handling => wjob[w] \in Jobs /\ wjob[w] # j
        BY <1>1, HeldJob DEF PlacesInv, WorkersInv, Handling, Holding
    <2>2. \A w \in Workers : wpc[w] \in Handling => stage'[wjob'[w]] = stage[wjob[w]]
        BY <1>2, <1>5, <2>1
    <2>3. \A w \in Workers : StageAt(w)'
        BY <1>2, <2>2 DEF PlacesInv, StagesInv, StageAt, Handling, WorkerPcs
    <2>4. stage[j]["admission"] \in {"none", "succeeded"}
        BY <1>1 DEF PlacesInv, StagesInv
    <2>5. stage'[j]["admission"] \in {"none", "succeeded"}
        BY <1>1, <1>2, <1>4, <2>4, AdmissionKept
    <2>6. status[j] \in Terminal => stage'[j] = stage[j]
        <3>1. ASSUME status[j] \in Terminal PROVE FailUnfinishedStages(stage[j]) = stage[j]
            BY <1>1, <3>1
            DEF PlacesInv, StagesInv, SettledStages, FailUnfinishedStages, StageRows
        <3>. QED  BY <1>1, <1>2, <1>4, <3>1
    <2>7. SettledStages'
        BY <1>2, <1>5, <2>6 DEF PlacesInv, StagesInv, SettledStages, Terminal
    <2>8. ~Waits(j)
        BY <1>1 DEF Waits
    <2>. QED  BY <1>2, <1>5, <1>6, <2>3, <2>4, <2>5, <2>7, <2>8 DEF PlacesInv, StagesInv
<1>12. OpenJobsAreHeld'
    <2>1. \A u \in Threads : pc[u] = "enqueue" => pc'[u] = "enqueue" /\ own'[u] = own[u]
        BY <1>1, <1>3
    <2>. QED  BY <1>2, <2>1, QueueKept DEF PlacesInv, OpenJobsAreHeld
<1>. QED  BY <1>7, <1>8, <1>9, <1>10, <1>11, <1>12 DEF PlacesInv

\* The rows of a process that is gone: nobody holds anything.
LEMMA EmptyPlaces ==
    ASSUME queue' = <<>>, \A w \in Workers : wpc'[w] = "dead" /\ wjob'[w] = None,
           \A t \in Threads : pc'[t] = "idle"
    PROVE  QueueInv' /\ WorkersInv' /\ ThreadsInv' /\ \A w \in Workers : StageAt(w)'
    BY DEF QueueInv, Unique, InQueue, WorkersInv, Holding, Handling, ThreadsInv, StageAt

LEMMA ProcessPlaces ==
    ASSUME TypeOK, ProcessInv, PlacesInv, Restart \/ LifespanStop \/ Crash
    PROVE  PlacesInv'
<1>1. CASE Exit \/ Crash
    <2>1. UNCHANGED <<status, crid, stage, exchange, runs, saturated, abandoned>> /\ phase' = "down"
        BY <1>1 DEF Exit, Crash, MemoryLost, dbVars, historyVars
    <2>2. QueueInv' /\ WorkersInv' /\ ThreadsInv' /\ \A w \in Workers : StageAt(w)'
        BY <1>1, EmptyPlaces DEF Exit, Crash, MemoryLost
    <2>3. RefusedInv' /\ ExchangeIsAnswered' /\ OpenJobsAreHeld'
        BY <2>1 DEF PlacesInv, RefusedInv, ExchangeIsAnswered, OpenJobsAreHeld
    <2>4. StagesInv'
        BY <2>1, <2>2 DEF PlacesInv, StagesInv, SettledStages, Waits
    <2>. QED  BY <2>2, <2>3, <2>4 DEF PlacesInv
<1>2. CASE Construct
    <2>1. /\ UNCHANGED <<crid, exchange, queue, pc, own, wpc, wjob, runs, saturated, abandoned>>
          /\ phase' = "constructed" /\ phase = "down"
        BY <1>2 DEF Construct, threadVars, workerVars, historyVars
    <2>2. QueueInv' /\ WorkersInv' /\ ThreadsInv' /\ \A w \in Workers : StageAt(w)'
        <3>1. \A w \in Workers : wjob[w] = None
            BY <2>1 DEF ProcessInv, PlacesInv, WorkersInv, Holding
        <3>. QED  BY <2>1, <3>1, EmptyPlaces DEF ProcessInv
    <2>3. \A j \in Jobs :
             \/ status[j] \in OpenStatuses /\ status'[j] = "failed"
                /\ stage'[j] = FailOpenStages(stage[j])
             \/ status[j] \notin OpenStatuses /\ status'[j] = status[j] /\ stage'[j] = stage[j]
        BY <1>2 DEF Construct, Orphans
    <2>4. RefusedInv' /\ ExchangeIsAnswered'
        BY <2>1, <2>3 DEF PlacesInv, RefusedInv, ExchangeIsAnswered, OpenStatuses, TypeOK,
                          DbTypeOK, HistoryTypeOK
    <2>5. OpenJobsAreHeld'
        BY <2>1 DEF OpenJobsAreHeld
    <2>6. StagesInv'
        <3>1. \A j \in Jobs : ~Waits(j)'
            BY <2>3 DEF Waits, OpenStatuses
        <3>2. SettledStages'
            BY <2>3 DEF PlacesInv, StagesInv, SettledStages, FailOpenStages, Unfinished
        <3>3. \A j \in Jobs : stage'[j]["admission"] \in {"none", "succeeded"}
            <4>1. \A j \in Jobs : stage[j]["admission"] \in {"none", "succeeded"} =>
                     FailOpenStages(stage[j])["admission"] = stage[j]["admission"]
                BY DEF FailOpenStages, Stages, Unfinished
            <4>. QED  BY <2>3, <4>1 DEF PlacesInv, StagesInv
        <3>. QED  BY <2>2, <3>1, <3>2, <3>3 DEF StagesInv
    <2>. QED  BY <2>2, <2>4, <2>5, <2>6 DEF PlacesInv
<1>3. CASE LifespanStart \/ LifespanStop
    <2>1. UNCHANGED <<status, crid, stage, exchange, queue, pc, own, wjob, failing, runs,
                      saturated, abandoned>>
        BY <1>3 DEF LifespanStart, LifespanStop, dbVars, threadVars, workerVars, historyVars
    <2>2. \A w \in Workers : wpc'[w] = wpc[w] \/ (wpc[w] = "dead" /\ wpc'[w] = "head")
        BY <1>3 DEF LifespanStart, LifespanStop, StartWorker, Alive, workerVars, TypeOK,
                    WorkerTypeOK
    <2>3. QueueInv' /\ ThreadsInv' /\ RefusedInv' /\ ExchangeIsAnswered'
        BY <2>1, QueueKept
        DEF PlacesInv, QueueInv, ThreadsInv, RefusedInv, ExchangeIsAnswered, Waits
    <2>4. WorkersInv'
        BY <2>1, <2>2, QueueKept DEF PlacesInv, WorkersInv, Holding, Handling, Waits
    <2>5. StagesInv'
        <3>1. \A w \in Workers : StageAt(w)'
            BY <2>1, <2>2 DEF PlacesInv, StagesInv, StageAt
        <3>. QED  BY <2>1, <3>1 DEF PlacesInv, StagesInv, SettledStages, Waits
    <2>6. OpenJobsAreHeld'
        <3>1. CASE LifespanStart
            BY <2>1, <3>1 DEF LifespanStart, ProcessInv, RestartClosesAll, OpenJobsAreHeld
        <3>2. CASE LifespanStop
            BY <2>1, <3>2, QueueKept DEF LifespanStop, PlacesInv, OpenJobsAreHeld
        <3>. QED  BY <1>3, <3>1, <3>2
    <2>. QED  BY <2>3, <2>4, <2>5, <2>6 DEF PlacesInv
<1>. QED  BY <1>1, <1>2, <1>3 DEF Restart

LEMMA PlacesStep == TypeOK /\ ProcessInv /\ RowsInv /\ PlacesInv /\ [Next]_vars => PlacesInv'
<1> SUFFICES ASSUME TypeOK, ProcessInv, RowsInv, PlacesInv, [Next]_vars PROVE PlacesInv'
    OBVIOUS
<1>1. CASE UNCHANGED vars
    <2>1. UNCHANGED <<status, crid, stage, exchange, phase, queue, pc, own, wpc, wjob, failing,
                      runs, saturated, abandoned>>
        BY <1>1 DEF vars, dbVars, processVars, threadVars, workerVars, historyVars
    <2>2. QueueInv' /\ WorkersInv' /\ ThreadsInv' /\ RefusedInv'
        BY <2>1, QueueKept
        DEF PlacesInv, QueueInv, WorkersInv, ThreadsInv, RefusedInv, Waits, Holding
    <2>3. StagesInv'
        BY <2>1 DEF PlacesInv, StagesInv, StageAt, SettledStages, Waits
    <2>4. OpenJobsAreHeld' /\ ExchangeIsAnswered'
        BY <2>1, QueueKept DEF PlacesInv, OpenJobsAreHeld, ExchangeIsAnswered
    <2>. QED  BY <2>2, <2>3, <2>4 DEF PlacesInv
<1>2. ASSUME NEW w \in Workers, WorkerStep(w) \/ WorkerDbError(w) PROVE PlacesInv'
    BY <1>2, GetPlaces, ClaimPlaces, HandlerPlaces, FinishPlaces, DbErrorPlaces
    DEF WorkerStep, WorkerDbError
<1>3. ASSUME NEW t \in Threads,
             ThreadStep(t) \/ ThreadDbError(t) \/ \E r \in Requests : Submit(t, r)
      PROVE  PlacesInv'
    <2>1. CASE Create(t)
        <3>1. UNCHANGED status \/ \E j \in Jobs : InsertRow(t, j)
            BY <2>1 DEF Create
        <3>. QED  BY <2>1, <3>1, InsertPlaces, QuietThreadPlaces
    <2>. QED  BY <1>3, <2>1, QuietThreadPlaces, EnqueuePlaces, SaturatedPlaces DEF ThreadStep
<1>. QED  BY <1>1, <1>2, <1>3, ProcessPlaces DEF Next

LEMMA PlacesAlways == Spec => []PlacesInv
<1>1. Spec => []ProcessInv
    BY ProcessInit, ProcessStep, TypeCorrect, PTL DEF Spec
<1>. QED  BY <1>1, PlacesInit, PlacesStep, RowsAlways, TypeCorrect, PTL DEF Spec

\* A submission refused with 429 after its row was written is never executed: the row
\* is in no queue, no worker has it, and no restart brings it back.
THEOREM RefusedIsNeverRun == Spec => []RefusedNeverRuns
<1>1. PlacesInv => RefusedNeverRuns
    BY DEF PlacesInv, RefusedInv, RefusedNeverRuns
<1>. QED  BY <1>1, PlacesAlways, PTL

\* Job and stage rows, settled in separate transactions, agree once the job is settled.
THEOREM StagesSettleWithTheirJob == Spec => []SettledStages
<1>1. PlacesInv => SettledStages
    BY DEF PlacesInv, StagesInv
<1>. QED  BY <1>1, PlacesAlways, PTL

\* In a serving process every open job waits in the queue, with its submitter or with the
\* worker, but for the refused and those a failed transaction left behind.
THEOREM OpenJobsStayHeld == Spec => []OpenJobsAreHeld
<1>1. PlacesInv => OpenJobsAreHeld
    BY DEF PlacesInv
<1>. QED  BY <1>1, PlacesAlways, PTL

\* No exchange is recorded of a job that did not succeed, however late the answer.
THEOREM ExchangesAreAnswered == Spec => []ExchangeIsAnswered
<1>1. PlacesInv => ExchangeIsAnswered
    BY DEF PlacesInv
<1>. QED  BY <1>1, PlacesAlways, PTL

-----------------------------------------------------------------------------
(* How a refused row comes about, and how it ends.                           *)

LEMMA RefusedStay == [Next]_vars => saturated \subseteq saturated'
    BY DEF Next, vars, historyVars, WorkerStep, WorkerDbError, TransactionFails,
           FinishUnread, LoopHead, Get, Claim, HandlerStart,
           HandlerGivesUp, Research, ModelStart, ModelAnswers, ModelFinish, FailRest,
           PersistStart, Finish, Settle, HandlerFrame, ThreadStep, Lookup, CheckCapacity, Create,
           Enqueue, SaturatedFinish, SaturatedStages, SubmitReturns, WaitEnds, SaveExchange,
           ThreadDbError, Submit, Restart, Construct, LifespanStart, Exit, MemoryLost,
           LifespanStop, Crash

\* A refused row stays open until the next start of the process: finish() only settles a
\* running job, and nobody is left who would claim the row.
RefusedWaitForRestart ==
    [][\A j \in saturated : status[j] = "queued" => status'[j] = "queued" \/ Construct]_vars

\* What submit() records for a job it refuses changes nothing: the row it left queued
\* says so until the next start fails it.
THEOREM RefusedRowsWaitForRestart == Spec => RefusedWaitForRestart
<1> DEFINE Keep == \A j \in saturated : status[j] = "queued" => status'[j] = "queued" \/ Construct
<1>1. ASSUME TypeOK, PlacesInv, PlacesInv', [Next]_vars PROVE Keep
    <2> SUFFICES ASSUME NEW j \in saturated, status[j] = "queued", ~Construct
                 PROVE  status'[j] = "queued"
        OBVIOUS
    <2>1. /\ status \in [Jobs -> JobStatuses] /\ runs \in [Jobs -> Nat]
          /\ j \in Jobs /\ runs[j] = 0
        BY <1>1 DEF TypeOK, DbTypeOK, HistoryTypeOK, PlacesInv, RefusedInv
    <2>2. JobStep
        <3>1. CASE UNCHANGED vars \/ LifespanStart \/ Exit \/ LifespanStop \/ Crash
            BY <3>1 DEF LifespanStart, Exit, LifespanStop, Crash, MemoryLost, JobStep, vars,
                        dbVars, historyVars
        <3>. QED  BY <1>1, <3>1, WorkerRowStep, ThreadRowStep DEF Next, Restart
    <2>3. j \in saturated'
        BY <1>1, RefusedStay
    <2>4. runs'[j] = 0
        BY <1>1, <2>3 DEF PlacesInv, RefusedInv
    <2>5. ASSUME NEW i \in Jobs, ClaimWrite(i) PROVE status'[j] = "queued"
        <3>1. i # j
            BY <2>1, <2>4, <2>5 DEF ClaimWrite
        <3>. QED  BY <2>1, <2>5, <3>1 DEF ClaimWrite
    <2>6. ASSUME NEW i \in Jobs, StageWrite(i) \/ FinishWrite(i) \/ InsertWrite(i)
          PROVE  status'[j] = "queued"
        BY <2>1, <2>6 DEF StageWrite, FinishWrite, FinishJob, InsertWrite
    <2>. QED  BY <2>2, <2>5, <2>6 DEF JobStep
<1>. QED  BY <1>1, TypeCorrect, PlacesAlways, PTL DEF Spec, RefusedWaitForRestart

\* With one submitter there is room in the queue from full() to put_nowait.
RoomInv ==
    /\ saturated = {}
    /\ \A t \in Threads : pc[t] \in {"create", "enqueue"} => Len(queue) < Capacity

LEMMA RoomStep ==
    ASSUME \A t, u \in Threads : t = u,
           TypeOK, RoomInv, [Next]_vars
    PROVE  RoomInv'
<1>0. /\ queue \in Seq(Jobs) /\ pc \in [Threads -> ThreadPcs] /\ Capacity \in Nat
    BY JobsAssumption DEF TypeOK, ProcessTypeOK, ThreadTypeOK
<1>1. ASSUME NEW t \in Threads,
             ThreadStep(t) \/ ThreadDbError(t) \/ \E r \in Requests : Submit(t, r)
      PROVE  RoomInv'
    <2>1. CASE Enqueue(t)
        <3>1. Len(queue) < Capacity
            BY <2>1 DEF Enqueue, RoomInv
        <3>2. pc' = [pc EXCEPT ![t] = "start"] /\ saturated' = {}
            BY <2>1, <3>1 DEF Enqueue, ThreadGoes, RoomInv
        <3>. QED  BY <1>0, <1>1, <3>2 DEF RoomInv
    <2>2. CASE CheckCapacity(t)
        BY <1>0, <1>1, <2>2 DEF CheckCapacity, Answer, ThreadGoes, RoomInv, processVars, historyVars
    <2>3. CASE Create(t)
        <3>1. UNCHANGED <<queue, saturated>> /\ pc[t] = "create"
            BY <2>3 DEF Create, processVars, historyVars
        <3>. QED  BY <3>1 DEF RoomInv
    <2>4. CASE ~ (Enqueue(t) \/ CheckCapacity(t) \/ Create(t))
        <3>1. UNCHANGED <<queue, saturated>>
            BY <1>1, <2>4 DEF ThreadStep, Lookup, SaturatedFinish, SaturatedStages, SubmitReturns,
                 WaitEnds, SaveExchange, ThreadDbError, Submit, processVars, historyVars
        <3>2. \E next \in ThreadPcs \ {"create", "enqueue"} : pc' = [pc EXCEPT ![t] = next]
            BY <1>1, <2>4 DEF ThreadStep, Lookup, SaturatedFinish, SaturatedStages, SubmitReturns,
                 WaitEnds, SaveExchange, ThreadDbError, Submit, ThreadGoes, Answer, ThreadPcs
        <3>. QED  BY <1>0, <1>1, <3>1, <3>2 DEF RoomInv
    <2>. QED  BY <2>1, <2>2, <2>3, <2>4
<1>2. ASSUME NEW w \in Workers, WorkerStep(w) \/ WorkerDbError(w)
      PROVE  RoomInv'
    <2>1. UNCHANGED <<pc, saturated>>
        BY <1>2 DEF WorkerStep, LoopHead, Get, Claim, HandlerStart, HandlerGivesUp, Research,
             ModelStart, ModelAnswers, ModelFinish, FailRest, PersistStart, Finish, Settle,
             WorkerDbError, TransactionFails, FinishUnread, HandlerFrame, threadVars, historyVars
    <2>2. queue' = queue \/ (queue # <<>> /\ queue' = Tail(queue))
        BY <1>2 DEF WorkerStep, LoopHead, Get, Claim, HandlerStart, HandlerGivesUp, Research,
             ModelStart, ModelAnswers, ModelFinish, FailRest, PersistStart, Finish, Settle,
             WorkerDbError, TransactionFails, FinishUnread, HandlerFrame, processVars
    <2>3. Len(queue') <= Len(queue)
        BY <1>0, <2>2
    <2>. QED  BY <1>0, <2>1, <2>2, <2>3 DEF RoomInv
<1>3. CASE Exit \/ Crash
    BY <1>3 DEF Exit, Crash, MemoryLost, RoomInv, historyVars
<1>4. CASE Construct \/ LifespanStart \/ LifespanStop \/ UNCHANGED vars
    BY <1>4 DEF Construct, LifespanStart, LifespanStop, vars, RoomInv, processVars, threadVars,
                historyVars
<1>. QED  BY <1>1, <1>2, <1>3, <1>4 DEF Next, Restart

\* Only two submissions at a time leave a refused row: with one request thread nothing
\* fills the queue between full() and put_nowait, and no client reads 429 after its INSERT.
THEOREM OneSubmitterIsNeverRefused ==
    ASSUME \A t, u \in Threads : t = u
    PROVE  Spec => []RefusedIsClosed
<1>1. Init => RoomInv
    BY DEF Init, RoomInv
<1>2. TypeOK /\ RoomInv /\ [Next]_vars => RoomInv'
    BY RoomStep
<1>3. RoomInv => RefusedIsClosed
    BY DEF RoomInv, RefusedIsClosed
<1>. QED  BY <1>1, <1>2, <1>3, TypeCorrect, PTL DEF Spec

-----------------------------------------------------------------------------
(* The refinement: a transaction on the rows is a step of JobLedger.         *)

Outcome == [r \in Requests |-> RequestOutcome(r)]

LEMMA OutcomeOfJob ==
    ASSUME TypeOK, RowsInv, NEW j \in Jobs, crid[j] # None
    PROVE  crid[j] \in Requests /\ Outcome[crid[j]] = status[j]
<1>1. crid[j] \in Requests /\ j \in RowsOf(crid[j])
    BY DEF TypeOK, DbTypeOK, RowsOf
<1>2. (CHOOSE i \in Jobs : crid[i] = crid[j]) = j
    BY <1>1 DEF RowsInv, OneJobPerRequest
<1>. QED  BY <1>1, <1>2 DEF Outcome, RequestOutcome

LEMMA OutcomeOfNone ==
    ASSUME NEW r \in Requests, \A j \in Jobs : crid[j] # r
    PROVE  Outcome[r] = "none"
    BY DEF Outcome, RequestOutcome, RowsOf

\* The outcome of one request follows its job; those of the others stay.
LEMMA OutcomeFollows ==
    ASSUME TypeOK, RowsInv, TypeOK', RowsInv', UNCHANGED crid,
           NEW j \in Jobs, crid[j] # None, NEW v,
           status' = [status EXCEPT ![j] = v]
    PROVE  Outcome' = [Outcome EXCEPT ![crid[j]] = v]
<1>1. crid[j] \in Requests /\ Outcome[crid[j]] = status[j]
    BY OutcomeOfJob
<1>2. ASSUME NEW r \in Requests
      PROVE  Outcome'[r] = IF r = crid[j] THEN v ELSE Outcome[r]
    <2>1. CASE \A i \in Jobs : crid[i] # r
        BY <2>1 DEF Outcome, RequestOutcome, RowsOf
    <2>2. ASSUME NEW i \in Jobs, crid[i] = r
          PROVE  Outcome'[r] = IF r = crid[j] THEN v ELSE Outcome[r]
        <3>1. r # None
            BY JobsAssumption
        <3>2. Outcome[r] = status[i]
            BY <2>2, <3>1, OutcomeOfJob
        <3>3. (CHOOSE k \in Jobs : crid'[k] = r) = i
            BY <2>2, <3>1 DEF RowsInv, OneJobPerRequest
        <3>4. Outcome'[r] = status'[i]
            BY <2>2, <3>3 DEF Outcome, RequestOutcome, RowsOf
        <3>5. r = crid[j] <=> i = j
            BY <2>2, <3>1 DEF RowsInv, OneJobPerRequest
        <3>. QED  BY <3>2, <3>4, <3>5 DEF TypeOK, DbTypeOK
    <2>. QED  BY <2>1, <2>2
<1>. QED  BY <1>1, <1>2 DEF Outcome

LEMMA LedgerStep ==
    ASSUME TypeOK, RowsInv, TypeOK', RowsInv', RowStep
    PROVE  Ledger!Next \/ UNCHANGED Outcome
<1>1. ASSUME UNCHANGED <<status, crid>> PROVE UNCHANGED Outcome
    BY <1>1 DEF Outcome, RequestOutcome, RowsOf
<1>2. CASE UNCHANGED <<status, crid, stage, runs>>
    BY <1>1, <1>2
<1>3. ASSUME NEW j \in Jobs, StageWrite(j) PROVE UNCHANGED Outcome
    BY <1>1, <1>3 DEF StageWrite
<1>4. ASSUME NEW j \in Jobs, ClaimWrite(j) PROVE Ledger!Next
    <2>1. crid[j] # None
        BY <1>4 DEF ClaimWrite, RowsInv
    <2>2. Outcome[crid[j]] = "queued" /\ crid[j] \in Requests
        BY <1>4, <2>1, OutcomeOfJob DEF ClaimWrite
    <2>3. Outcome' = [Outcome EXCEPT ![crid[j]] = "running"]
        BY <1>4, <2>1, OutcomeFollows DEF ClaimWrite
    <2>. QED  BY <2>2, <2>3 DEF Ledger!Next, Ledger!Begin, Outcome
<1>5. ASSUME NEW j \in Jobs, FinishWrite(j) PROVE Ledger!Next \/ UNCHANGED Outcome
    <2>1. CASE status[j] # "running"
        BY <1>1, <1>5, <2>1 DEF FinishWrite, FinishJob
    <2>2. CASE status[j] = "running"
        <3>1. crid[j] # None
            BY <2>2 DEF RowsInv
        <3>2. Outcome[crid[j]] = "running" /\ crid[j] \in Requests
            BY <2>2, <3>1, OutcomeOfJob
        <3>3. PICK v \in Terminal : status' = [status EXCEPT ![j] = v]
            BY <1>5, <2>2 DEF FinishWrite, FinishJob
        <3>4. Outcome' = [Outcome EXCEPT ![crid[j]] = v]
            BY <1>5, <3>1, <3>3, OutcomeFollows DEF FinishWrite
        <3>. QED  BY <3>2, <3>3, <3>4 DEF Ledger!Next, Ledger!Settle, Outcome, Terminal
    <2>. QED  BY <2>1, <2>2
<1>6. ASSUME NEW j \in Jobs, InsertWrite(j) PROVE Ledger!Next
    <2>1. PICK r \in Requests : RowsOf(r) = {} /\ crid' = [crid EXCEPT ![j] = r]
        BY <1>6 DEF InsertWrite
    <2>2. status' = [status EXCEPT ![j] = "queued"] /\ crid[j] = None /\ r # None
        BY <1>6, JobsAssumption DEF InsertWrite, RowsInv
    <2>3. Outcome[r] = "none"
        BY <2>1, OutcomeOfNone DEF RowsOf
    <2>4. (CHOOSE k \in Jobs : crid'[k] = r) = j
        BY <2>1 DEF RowsOf, TypeOK, DbTypeOK
    <2>5. Outcome'[r] = "queued"
        BY <2>1, <2>2, <2>4 DEF Outcome, RequestOutcome, RowsOf, TypeOK, DbTypeOK
    <2>6. ASSUME NEW q \in Requests \ {r} PROVE Outcome'[q] = Outcome[q]
        <3>1. \A k \in Jobs : crid'[k] = q <=> crid[k] = q
            BY <2>1, <2>2, JobsAssumption DEF TypeOK, DbTypeOK
        <3>2. (CHOOSE k \in Jobs : crid'[k] = q) = (CHOOSE k \in Jobs : crid[k] = q)
            BY <3>1
        <3>3. \A k \in Jobs : crid[k] = q => status'[k] = status[k]
            BY <2>2, JobsAssumption DEF TypeOK, DbTypeOK
        <3>. QED  BY <3>1, <3>2, <3>3 DEF Outcome, RequestOutcome, RowsOf
    <2>7. Outcome' = [Outcome EXCEPT ![r] = "queued"]
        BY <2>5, <2>6 DEF Outcome
    <2>. QED  BY <2>3, <2>7 DEF Ledger!Next, Ledger!Admit, Outcome
<1>7. CASE OrphanWrite
    <2>1. CASE Orphans = {}
        BY <1>1, <1>7, <2>1 DEF OrphanWrite, TypeOK, DbTypeOK
    <2>2. CASE Orphans # {}
        <3>1. ASSUME NEW r \in Requests
              PROVE  Outcome'[r] = IF Outcome[r] \in OpenStatuses THEN "failed" ELSE Outcome[r]
            <4>1. CASE \A i \in Jobs : crid[i] # r
                BY <1>7, <4>1 DEF OrphanWrite, Outcome, RequestOutcome, RowsOf, OpenStatuses
            <4>2. ASSUME NEW i \in Jobs, crid[i] = r
                  PROVE  Outcome'[r] = IF Outcome[r] \in OpenStatuses
                                       THEN "failed" ELSE Outcome[r]
                <5>1. r # None
                    BY JobsAssumption
                <5>2. Outcome[r] = status[i]
                    BY <4>2, <5>1, OutcomeOfJob
                <5>3. (CHOOSE k \in Jobs : crid'[k] = r) = i
                    BY <1>7, <4>2, <5>1 DEF RowsInv, OneJobPerRequest, OrphanWrite
                <5>4. Outcome'[r] = status'[i]
                    BY <1>7, <4>2, <5>3
                    DEF OrphanWrite, Outcome, RequestOutcome, RowsOf
                <5>. QED  BY <1>7, <5>2, <5>4 DEF OrphanWrite, Orphans
            <4>. QED  BY <4>1, <4>2
        <3>2. \E r \in Requests : Outcome[r] \in OpenStatuses
            <4>1. PICK i \in Jobs : status[i] \in OpenStatuses
                BY <2>2 DEF Orphans
            <4>2. crid[i] # None
                BY <4>1 DEF RowsInv, OpenStatuses
            <4>. QED  BY <4>1, <4>2, OutcomeOfJob
        <3>. QED  BY <3>1, <3>2
                  DEF Ledger!Next, Ledger!FailClosed, Ledger!Open, OpenStatuses, Outcome
    <2>. QED  BY <2>1, <2>2
<1>. QED  BY <1>2, <1>3, <1>4, <1>5, <1>6, <1>7 DEF RowStep, JobStep

\* The client's view of the job service is a behaviour of JobLedger, over every
\* interleaving, crash and failed transaction.
THEOREM JobsImplementLedger == Spec => ImplementsLedger
<1>1. Init => Ledger!Init
    BY JobsAssumption DEF Init, Ledger!Init, RequestOutcome, RowsOf
<1>2. TypeOK /\ RowsInv /\ TypeOK' /\ RowsInv' /\ [Next]_vars => [Ledger!Next]_Outcome
    BY NextRowStep, LedgerStep
<1>. QED  BY <1>1, <1>2, TypeCorrect, RowsAlways, PTL
          DEF Spec, ImplementsLedger, Ledger!Spec, Outcome
=============================================================================
