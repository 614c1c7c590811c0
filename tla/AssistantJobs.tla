---------------------------- MODULE AssistantJobs ----------------------------
(***************************************************************************)
(* The assistant job queue: request threads that submit jobs, the bounded  *)
(* in-process queue, the one worker thread that runs them, and the SQLite  *)
(* rows (assistant_jobs, assistant_job_stages) that outlive the process.   *)
(* Every step below is one SQLite transaction or one queue/thread          *)
(* operation: the places where threads can interleave.                     *)
(*                                                                         *)
(* A request is a client_request_id; a job is a row id (a fresh uuid4).    *)
(* What a job asks, what the model answers and every timestamp is left out;*)
(* whether an answer satisfied the contract is a free choice of the        *)
(* handler.                                                                *)
(***************************************************************************)
EXTENDS Naturals, Sequences, FiniteSets

CONSTANTS
    Jobs,               \* row ids
    Requests,           \* client_request_ids
    ResearchRequests,   \* those with research switched on and a message
    ChatRequests,       \* those of /api/assistant/chat, which waits for the job
    Threads,            \* request-handling threads of the web server
    Workers,            \* identities for worker threads, dead or alive
    Capacity,           \* QUEUE_CAPACITY
    MaxStops,           \* bound on crashes and shutdowns of the process
    MaxDbErrors,        \* bound on failed SQLite transactions
    None

ASSUME JobsAssumption ==
    /\ Capacity \in Nat \ {0}
    /\ MaxStops \in Nat
    /\ MaxDbErrors \in Nat
    /\ None \notin Jobs \cup Requests \cup Workers
    /\ ChatRequests \subseteq Requests
    /\ ResearchRequests \subseteq Requests

VARIABLES
    \* the database
    status,      \* status[j]: assistant_jobs.status, "absent" before the INSERT
    crid,        \* crid[j]: assistant_jobs.client_request_id
    stage,       \* stage[j][s]: assistant_job_stages.status
    exchange,    \* jobs whose chat exchange is in assistant_messages
    \* the process
    phase,       \* "down", "constructed" (router built) or "up"
    queue,       \* AssistantPipeline.queue
    stop,        \* AssistantPipeline._stop
    current,     \* AssistantPipeline._thread
    \* request threads: program counter, request and job
    pc, req, own,
    \* worker threads: program counter, job and whether the outcome has an error
    wpc, wjob, failing,
    \* history, read by no action's guard
    runs,        \* runs[j]: how often j was claimed for the handler
    accepted,    \* jobs whose submitter was told they are queued
    saturated,   \* jobs refused because put_nowait found the queue full
    abandoned,   \* jobs left behind by a failed transaction
    \* counters of the bounds
    stops, dbErrors

dbVars == <<status, crid, stage, exchange>>
processVars == <<phase, queue, stop, current>>
threadVars == <<pc, req, own>>
workerVars == <<wpc, wjob, failing>>
historyVars == <<runs, accepted, saturated, abandoned>>
boundVars == <<stops, dbErrors>>
vars == <<dbVars, processVars, threadVars, workerVars, historyVars, boundVars>>

Stages == {"admission", "research", "model", "persist"}
StageStatuses == {"none", "pending", "running", "succeeded", "failed", "skipped"}
Unfinished == {"pending", "running"}
Terminal == {"succeeded", "failed"}
OpenStatuses == {"queued", "running"}
JobStatuses == {"absent"} \cup OpenStatuses \cup Terminal

ThreadPcs == {"idle", "lookup", "capacity", "create", "enqueue",
              "sat_finish", "sat_stages", "start", "waiting", "saving"}
WorkerPcs == {"dead", "head", "get", "claim", "handler", "research", "model_start",
              "calling", "model_finish", "fail_rest", "persist_start", "finish"}

RowsOf(r) == {j \in Jobs : crid[j] = r}

Init ==
    /\ status = [j \in Jobs |-> "absent"]
    /\ crid = [j \in Jobs |-> None]
    /\ stage = [j \in Jobs |-> [s \in Stages |-> "none"]]
    /\ exchange = {}
    /\ phase = "down"
    /\ queue = <<>>
    /\ stop = FALSE
    /\ current = None
    /\ pc = [t \in Threads |-> "idle"]
    /\ req = [t \in Threads |-> None]
    /\ own = [t \in Threads |-> None]
    /\ wpc = [w \in Workers |-> "dead"]
    /\ wjob = [w \in Workers |-> None]
    /\ failing = [w \in Workers |-> FALSE]
    /\ runs = [j \in Jobs |-> 0]
    /\ accepted = {}
    /\ saturated = {}
    /\ abandoned = {}
    /\ stops = 0
    /\ dbErrors = 0

-----------------------------------------------------------------------------
(* The statements of AssistantJobStore on one job's stage rows.             *)

\* Seeded fault: a status the CHECK constraint of the table does not know.
InitialStagesUnknownStatus(r) ==
    [s \in Stages |-> IF s = "admission" THEN "succeeded"
                      ELSE IF s = "research" /\ r \notin ResearchRequests THEN "disabled"
                      ELSE "pending"]

InitialStages(r) ==
    [s \in Stages |-> IF s = "admission" THEN "succeeded"
                      ELSE IF s = "research" /\ r \notin ResearchRequests THEN "skipped"
                      ELSE "pending"]

StartStage(rows, s) ==
    IF rows[s] = "pending" THEN [rows EXCEPT ![s] = "running"] ELSE rows

FinishStage(rows, s, v) ==
    IF rows[s] \in Unfinished THEN [rows EXCEPT ![s] = v] ELSE rows

\* mark_orphans fails every unfinished stage, persist included ...
FailOpenStages(rows) ==
    [s \in Stages |-> IF rows[s] \in Unfinished THEN "failed" ELSE rows[s]]

\* ... fail_unfinished_stages leaves persist to finish().
FailUnfinishedStages(rows) ==
    [s \in Stages |-> IF s # "persist" /\ rows[s] \in Unfinished
                      THEN "failed" ELSE rows[s]]

\* finish(): the job row and its persist stage in one transaction, and only
\* for a job that is running.
FinishJob(j, v) ==
    IF status[j] = "running"
    THEN /\ status' = [status EXCEPT ![j] = v]
         /\ stage' = [stage EXCEPT ![j] = FinishStage(stage[j], "persist", v)]
    ELSE UNCHANGED <<status, stage>>

\* Seeded fault: the restart forgets the jobs nobody had claimed.
OrphansRunningOnly == {j \in Jobs : status[j] = "running"}

Orphans == {j \in Jobs : status[j] \in OpenStatuses}

-----------------------------------------------------------------------------
(* Worker threads: start() and AssistantPipeline._run.                      *)

Alive(w) == wpc[w] # "dead"

\* Seeded fault: start() does not look whether its thread still runs.
StartWorkerUnchecked ==
    \E w \in Workers :
        /\ ~Alive(w)
        /\ stop' = FALSE
        /\ current' = w
        /\ wpc' = [wpc EXCEPT ![w] = "head"]

\* start(), which holds _start_lock throughout.
StartWorker ==
    IF current # None /\ wpc[current] # "dead"
    THEN UNCHANGED <<stop, current, wpc>>
    ELSE \E w \in Workers :
            /\ ~Alive(w)
            /\ stop' = FALSE
            /\ current' = w
            /\ wpc' = [wpc EXCEPT ![w] = "head"]

WorkerGoes(w, next) == wpc' = [wpc EXCEPT ![w] = next]

\* The head of the loop: leave it once stop is set.
LoopHead(w) ==
    /\ wpc[w] = "head"
    /\ WorkerGoes(w, IF stop THEN "dead" ELSE "get")
    /\ UNCHANGED <<dbVars, processVars, threadVars, wjob, failing, historyVars, boundVars>>

\* queue.get with a timeout: an empty queue sends the worker back to the head.
Get(w) ==
    /\ wpc[w] = "get"
    /\ IF queue = <<>>
       THEN /\ WorkerGoes(w, "head")
            /\ UNCHANGED <<queue, wjob>>
       ELSE /\ WorkerGoes(w, "claim")
            /\ wjob' = [wjob EXCEPT ![w] = Head(queue)]
            /\ queue' = Tail(queue)
    /\ UNCHANGED <<dbVars, phase, stop, current, threadVars, failing, historyVars, boundVars>>

\* claim(): queued to running in one immediate transaction, or skip the job.
Claim(w) ==
    /\ wpc[w] = "claim"
    /\ IF status[wjob[w]] = "queued"
       THEN /\ status' = [status EXCEPT ![wjob[w]] = "running"]
            /\ WorkerGoes(w, "handler")
            /\ runs' = [runs EXCEPT ![wjob[w]] = @ + 1]
            /\ UNCHANGED wjob
       ELSE /\ WorkerGoes(w, "head")
            /\ wjob' = [wjob EXCEPT ![w] = None]
            /\ UNCHANGED <<status, runs>>
    /\ failing' = [failing EXCEPT ![w] = FALSE]
    /\ UNCHANGED <<crid, stage, exchange, processVars, threadVars, accepted, saturated,
                   abandoned, boundVars>>

\* What the handler's steps leave alone: everything but the job's stage rows.
HandlerFrame ==
    UNCHANGED <<status, crid, exchange, processVars, threadVars, wjob, historyVars, boundVars>>

\* The handler gives up with an error outcome: the assistant is not configured,
\* the model is unreachable or its answer breaks the contract.
HandlerGivesUp(w) ==
    /\ wpc[w] \in {"handler", "calling"}
    /\ WorkerGoes(w, "model_finish")
    /\ failing' = [failing EXCEPT ![w] = TRUE]
    /\ UNCHANGED stage
    /\ HandlerFrame

\* handle_job: start the research stage if research was asked for.
HandlerStart(w) ==
    /\ wpc[w] = "handler"
    /\ LET j == wjob[w] IN
       IF crid[j] \in ResearchRequests
       THEN /\ stage' = [stage EXCEPT ![j] = StartStage(stage[j], "research")]
            /\ WorkerGoes(w, "research")
       ELSE /\ WorkerGoes(w, "model_start")
            /\ UNCHANGED stage
    /\ UNCHANGED failing
    /\ HandlerFrame

\* The research context was built and its stage closed, or something on the
\* way failed, the stage is failed and the handler returns.
Research(w) ==
    /\ wpc[w] = "research"
    /\ \E v \in Terminal :
         /\ stage' = [stage EXCEPT ![wjob[w]] = FinishStage(stage[wjob[w]], "research", v)]
         /\ WorkerGoes(w, IF v = "succeeded" THEN "model_start" ELSE "model_finish")
         /\ failing' = [failing EXCEPT ![w] = (v = "failed")]
    /\ HandlerFrame

ModelStart(w) ==
    /\ wpc[w] = "model_start"
    /\ stage' = [stage EXCEPT ![wjob[w]] = StartStage(stage[wjob[w]], "model")]
    /\ WorkerGoes(w, "calling")
    /\ UNCHANGED failing
    /\ HandlerFrame

\* The model answered and the answer satisfied the contract.
ModelAnswers(w) ==
    /\ wpc[w] = "calling"
    /\ WorkerGoes(w, "model_finish")
    /\ UNCHANGED <<stage, failing>>
    /\ HandlerFrame

\* Seeded fault: an error outcome skips the sweep of the unfinished stages.
ModelFinishNoSweep(w) ==
    /\ wpc[w] = "model_finish"
    /\ LET v == IF failing[w] THEN "failed" ELSE "succeeded" IN
       stage' = [stage EXCEPT ![wjob[w]] = FinishStage(stage[wjob[w]], "model", v)]
    /\ WorkerGoes(w, "persist_start")
    /\ UNCHANGED failing
    /\ HandlerFrame

\* After the handler: close the model stage ...
ModelFinish(w) ==
    /\ wpc[w] = "model_finish"
    /\ LET v == IF failing[w] THEN "failed" ELSE "succeeded" IN
       stage' = [stage EXCEPT ![wjob[w]] = FinishStage(stage[wjob[w]], "model", v)]
    /\ WorkerGoes(w, IF failing[w] THEN "fail_rest" ELSE "persist_start")
    /\ UNCHANGED failing
    /\ HandlerFrame

\* ... on an error fail what is still unfinished ...
FailRest(w) ==
    /\ wpc[w] = "fail_rest"
    /\ stage' = [stage EXCEPT ![wjob[w]] = FailUnfinishedStages(stage[wjob[w]])]
    /\ WorkerGoes(w, "persist_start")
    /\ UNCHANGED failing
    /\ HandlerFrame

\* ... then open the persist stage ...
PersistStart(w) ==
    /\ wpc[w] = "persist_start"
    /\ stage' = [stage EXCEPT ![wjob[w]] = StartStage(stage[wjob[w]], "persist")]
    /\ WorkerGoes(w, "finish")
    /\ UNCHANGED failing
    /\ HandlerFrame

\* ... and settle the job.
Settle(w, next) ==
    /\ wpc[w] = "finish"
    /\ FinishJob(wjob[w], IF failing[w] THEN "failed" ELSE "succeeded")
    /\ WorkerGoes(w, next)
    /\ wjob' = [wjob EXCEPT ![w] = None]
    /\ UNCHANGED <<crid, exchange, processVars, threadVars, failing, historyVars>>

Finish(w) == Settle(w, "head") /\ UNCHANGED boundVars

\* A transaction of the worker fails (the database stays locked beyond its busy
\* timeout).  Inside the handler that is one more internal_error; outside it the
\* exception ends the thread, and the job it held is left as it is.  At "handler"
\* that is the read-back at the end of claim(), after its commit.
TransactionFails(w) ==
    /\ wpc[w] \notin {"dead", "head", "get", "calling"}
    /\ dbErrors < MaxDbErrors
    /\ dbErrors' = dbErrors + 1
    /\ \/ /\ wpc[w] \in {"handler", "research", "model_start"}
          /\ WorkerGoes(w, "model_finish")
          /\ failing' = [failing EXCEPT ![w] = TRUE]
          /\ UNCHANGED <<wjob, abandoned>>
       \/ /\ wpc[w] \notin {"research", "model_start"}
          /\ WorkerGoes(w, "dead")
          /\ abandoned' = abandoned \cup {wjob[w]}
          /\ wjob' = [wjob EXCEPT ![w] = None]
          /\ UNCHANGED failing
    /\ UNCHANGED <<dbVars, processVars, threadVars, runs, accepted, saturated, stops>>

\* The read-back at the end of finish() fails, after its commit.
FinishUnread(w) ==
    /\ Settle(w, "dead")
    /\ dbErrors < MaxDbErrors
    /\ dbErrors' = dbErrors + 1
    /\ UNCHANGED stops

WorkerDbError(w) == TransactionFails(w) \/ FinishUnread(w)

-----------------------------------------------------------------------------
(* Request threads: AssistantPipeline.submit, and wait for the chat.        *)

ThreadGoes(t, next) == pc' = [pc EXCEPT ![t] = next]

\* The thread answers its client and is free again.
Answer(t) ==
    /\ pc' = [pc EXCEPT ![t] = "idle"]
    /\ req' = [req EXCEPT ![t] = None]
    /\ own' = [own EXCEPT ![t] = None]

\* A request arrives.  Clients retry with the same id at will; the chat
\* endpoint draws a fresh one for each call.
Submit(t, r) ==
    /\ phase = "up"
    /\ ~stop
    /\ pc[t] = "idle"
    /\ r \in ChatRequests => RowsOf(r) = {} /\ \A u \in Threads : req[u] # r
    /\ ThreadGoes(t, "lookup")
    /\ req' = [req EXCEPT ![t] = r]
    /\ UNCHANGED <<dbVars, processVars, own, workerVars, historyVars, boundVars>>

\* get_by_client_request_id: a known request gets its job back.
Lookup(t) ==
    /\ pc[t] = "lookup"
    /\ IF RowsOf(req[t]) # {}
       THEN Answer(t)
       ELSE /\ ThreadGoes(t, "capacity")
            /\ UNCHANGED <<req, own>>
    /\ UNCHANGED <<dbVars, processVars, workerVars, historyVars, boundVars>>

\* queue.full(): refuse before anything is written.
CheckCapacity(t) ==
    /\ pc[t] = "capacity"
    /\ IF Len(queue) >= Capacity
       THEN Answer(t)
       ELSE /\ ThreadGoes(t, "create")
            /\ UNCHANGED <<req, own>>
    /\ UNCHANGED <<dbVars, processVars, workerVars, historyVars, boundVars>>

InsertRow(t, j) ==
    /\ status[j] = "absent"
    /\ status' = [status EXCEPT ![j] = "queued"]
    /\ crid' = [crid EXCEPT ![j] = req[t]]
    /\ stage' = [stage EXCEPT ![j] = InitialStages(req[t])]
    /\ own' = [own EXCEPT ![t] = j]
    /\ ThreadGoes(t, "enqueue")
    /\ UNCHANGED req

\* Seeded fault: no UNIQUE constraint behind the earlier lookup.
CreateWithoutUnique(t) ==
    /\ pc[t] = "create"
    /\ \E j \in Jobs : InsertRow(t, j)
    /\ UNCHANGED <<exchange, processVars, workerVars, historyVars, boundVars>>

\* create(): insert the job and its stages in one transaction, or return the
\* row that holds this client_request_id already.
Create(t) ==
    /\ pc[t] = "create"
    /\ \/ /\ RowsOf(req[t]) # {}
          /\ Answer(t)
          /\ UNCHANGED <<status, crid, stage>>
       \/ /\ RowsOf(req[t]) = {}
          /\ \E j \in Jobs : InsertRow(t, j)
    /\ UNCHANGED <<exchange, processVars, workerVars, historyVars, boundVars>>

\* Seeded fault: a full queue is ignored and the client told "queued".
EnqueueBestEffort(t) ==
    /\ pc[t] = "enqueue"
    /\ queue' = IF Len(queue) < Capacity THEN Append(queue, own[t]) ELSE queue
    /\ ThreadGoes(t, "start")
    /\ UNCHANGED <<dbVars, phase, stop, current, req, own, workerVars, historyVars, boundVars>>

\* put_nowait, which raises when others filled the queue since full().
Enqueue(t) ==
    /\ pc[t] = "enqueue"
    /\ IF Len(queue) < Capacity
       THEN /\ queue' = Append(queue, own[t])
            /\ ThreadGoes(t, "start")
            /\ UNCHANGED saturated
       ELSE /\ saturated' = saturated \cup {own[t]}
            /\ ThreadGoes(t, "sat_finish")
            /\ UNCHANGED queue
    /\ UNCHANGED <<dbVars, phase, stop, current, req, own, workerVars, runs, accepted,
                   abandoned, boundVars>>

\* The refused job: finish(), which only settles a running job ...
SaturatedFinish(t) ==
    /\ pc[t] = "sat_finish"
    /\ FinishJob(own[t], "failed")
    /\ ThreadGoes(t, "sat_stages")
    /\ UNCHANGED <<crid, exchange, processVars, req, own, workerVars, historyVars, boundVars>>

\* ... and fail_unfinished_stages, before the client reads 429.
SaturatedStages(t) ==
    /\ pc[t] = "sat_stages"
    /\ stage' = [stage EXCEPT ![own[t]] = FailUnfinishedStages(stage[own[t]])]
    /\ Answer(t)
    /\ UNCHANGED <<status, crid, exchange, processVars, workerVars, historyVars, boundVars>>

\* submit() makes sure a worker runs and returns; a chat goes on to wait.
SubmitReturns(t) ==
    /\ pc[t] = "start"
    /\ StartWorker
    /\ accepted' = accepted \cup {own[t]}
    /\ IF req[t] \in ChatRequests
       THEN /\ ThreadGoes(t, "waiting")
            /\ UNCHANGED <<req, own>>
       ELSE Answer(t)
    /\ UNCHANGED <<dbVars, phase, queue, wjob, failing, runs, saturated, abandoned, boundVars>>

\* Seeded fault: an answer is saved whatever wait() came back with.
WaitEndsUnchecked(t) ==
    /\ pc[t] = "waiting"
    /\ ThreadGoes(t, "saving")
    /\ UNCHANGED <<dbVars, processVars, req, own, workerVars, historyVars, boundVars>>

\* wait(): the last poll finds the job succeeded, or it does not (failed, or
\* still open when the time is up) and the chat answers with an error.
WaitEnds(t) ==
    /\ pc[t] = "waiting"
    /\ IF status[own[t]] = "succeeded"
       THEN /\ ThreadGoes(t, "saving")
            /\ UNCHANGED <<req, own>>
       ELSE Answer(t)
    /\ UNCHANGED <<dbVars, processVars, workerVars, historyVars, boundVars>>

\* save_exchange: question and answer in one transaction.
SaveExchange(t) ==
    /\ pc[t] = "saving"
    /\ exchange' = exchange \cup {own[t]}
    /\ Answer(t)
    /\ UNCHANGED <<status, crid, stage, processVars, workerVars, historyVars, boundVars>>

\* A transaction of the request thread fails and the client reads 500.  At
\* "enqueue" it is the read-back at the end of create(), after its commit.
ThreadDbError(t) ==
    /\ pc[t] \in {"lookup", "create", "enqueue", "sat_finish", "sat_stages",
                  "waiting", "saving"}
    /\ dbErrors < MaxDbErrors
    /\ dbErrors' = dbErrors + 1
    /\ abandoned' = IF pc[t] \in {"enqueue", "sat_finish", "sat_stages"}
                    THEN abandoned \cup {own[t]} ELSE abandoned
    /\ Answer(t)
    /\ UNCHANGED <<dbVars, processVars, workerVars, runs, accepted, saturated, stops>>

-----------------------------------------------------------------------------
(* The process: import builds the pipeline, the lifespan starts and stops it.*)

\* Everything in memory is lost; the rows stay.
MemoryLost ==
    /\ phase' = "down"
    /\ queue' = <<>>
    /\ stop' = FALSE
    /\ current' = None
    /\ pc' = [t \in Threads |-> "idle"]
    /\ req' = [t \in Threads |-> None]
    /\ own' = [t \in Threads |-> None]
    /\ wpc' = [w \in Workers |-> "dead"]
    /\ wjob' = [w \in Workers |-> None]
    /\ failing' = [w \in Workers |-> FALSE]
    /\ UNCHANGED <<dbVars, historyVars, dbErrors>>

\* Seeded fault: the restart resumes what was open instead of failing it.
ConstructResuming ==
    /\ phase = "down"
    /\ phase' = "constructed"
    /\ status' = [j \in Jobs |-> IF j \in Orphans THEN "queued" ELSE status[j]]
    /\ queue' \in {q \in [1 .. Cardinality(Orphans) -> Orphans] :
                      \A j \in Orphans : \E i \in DOMAIN q : q[i] = j}
    /\ UNCHANGED <<crid, stage, exchange, stop, current, threadVars, workerVars,
                   historyVars, boundVars>>

\* AssistantPipeline.__init__: mark_orphans, one transaction over all rows.
Construct ==
    /\ phase = "down"
    /\ phase' = "constructed"
    /\ status' = [j \in Jobs |-> IF j \in Orphans THEN "failed" ELSE status[j]]
    /\ stage' = [j \in Jobs |-> IF j \in Orphans
                                THEN FailOpenStages(stage[j]) ELSE stage[j]]
    /\ UNCHANGED <<crid, exchange, queue, stop, current, threadVars, workerVars,
                   historyVars, boundVars>>

\* lifespan: start the worker, then serve.
LifespanStart ==
    /\ phase = "constructed"
    /\ phase' = "up"
    /\ StartWorker
    /\ UNCHANGED <<dbVars, queue, threadVars, wjob, failing, historyVars, boundVars>>

\* lifespan after the server has drained its requests: set stop and join the
\* worker for five seconds.
LifespanStop ==
    /\ phase = "up"
    /\ ~stop
    /\ \A t \in Threads : pc[t] = "idle"
    /\ stops < MaxStops
    /\ stops' = stops + 1
    /\ stop' = TRUE
    /\ UNCHANGED <<dbVars, phase, queue, current, threadVars, workerVars, historyVars, dbErrors>>

\* The process ends, with the daemon worker wherever the join left it.
Exit ==
    /\ stop
    /\ MemoryLost
    /\ UNCHANGED stops

\* Power loss, kill, or the out-of-memory killer.
Crash ==
    /\ phase # "down"
    /\ stops < MaxStops
    /\ stops' = stops + 1
    /\ MemoryLost

-----------------------------------------------------------------------------
WorkerStep(w) ==
    \/ LoopHead(w) \/ Get(w) \/ Claim(w)
    \/ HandlerStart(w) \/ HandlerGivesUp(w) \/ Research(w) \/ ModelStart(w)
    \/ ModelAnswers(w) \/ ModelFinish(w) \/ FailRest(w) \/ PersistStart(w)
    \/ Finish(w)

ThreadStep(t) ==
    \/ Lookup(t) \/ CheckCapacity(t) \/ Create(t) \/ Enqueue(t)
    \/ SaturatedFinish(t) \/ SaturatedStages(t) \/ SubmitReturns(t)
    \/ WaitEnds(t) \/ SaveExchange(t)

Restart == Construct \/ LifespanStart \/ Exit

Next ==
    \/ \E w \in Workers : WorkerStep(w) \/ WorkerDbError(w)
    \/ \E t \in Threads : ThreadStep(t) \/ ThreadDbError(t)
    \/ \E t \in Threads, r \in Requests : Submit(t, r)
    \/ Restart \/ LifespanStop \/ Crash

Spec == Init /\ [][Next]_vars

(* The scheduler runs every thread, the model clients time their calls out,*)
(* wait() gives up, a request that passed the checks is answered, and the   *)
(* supervisor restarts a stopped process.  Nobody is bound to submit, and   *)
(* nothing is assumed about crashes and failed transactions.                *)
Fairness ==
    /\ \A w \in Workers : WF_vars(WorkerStep(w))
    /\ \A t \in Threads : WF_vars(ThreadStep(t))
    /\ WF_vars(Restart)

FairSpec == Spec /\ Fairness

-----------------------------------------------------------------------------
\* A thread past create() has its row, a worker past queue.get() its job.
HasRow(t) == pc[t] \in {"enqueue", "sat_finish", "sat_stages", "start", "waiting", "saving"}
Holding(w) == wpc[w] \notin {"dead", "head", "get"}

DbTypeOK ==
    /\ status \in [Jobs -> JobStatuses]
    /\ crid \in [Jobs -> Requests \cup {None}]
    /\ stage \in [Jobs -> [Stages -> StageStatuses]]
    /\ exchange \subseteq Jobs

ProcessTypeOK ==
    /\ phase \in {"down", "constructed", "up"}
    /\ queue \in Seq(Jobs)
    /\ stop \in BOOLEAN
    /\ current \in Workers \cup {None}

ThreadTypeOK ==
    /\ pc \in [Threads -> ThreadPcs]
    /\ req \in [Threads -> Requests \cup {None}]
    /\ own \in [Threads -> Jobs \cup {None}]
    /\ \A t \in Threads : pc[t] # "idle" => req[t] # None
    /\ \A t \in Threads : HasRow(t) => own[t] # None

WorkerTypeOK ==
    /\ wpc \in [Workers -> WorkerPcs]
    /\ wjob \in [Workers -> Jobs \cup {None}]
    /\ failing \in [Workers -> BOOLEAN]
    /\ \A w \in Workers : Holding(w) => wjob[w] # None

HistoryTypeOK ==
    /\ runs \in [Jobs -> Nat]
    /\ accepted \subseteq Jobs
    /\ saturated \subseteq Jobs
    /\ abandoned \subseteq Jobs
    /\ stops \in 0 .. MaxStops
    /\ dbErrors \in 0 .. MaxDbErrors

\* The columns stay within their CHECK constraints, the counters within their
\* bounds, and no thread acts without the job or request it needs.
TypeOK == DbTypeOK /\ ProcessTypeOK /\ ThreadTypeOK /\ WorkerTypeOK /\ HistoryTypeOK

\* Two threads submitting one client_request_id at once, or a client retrying
\* it later, never leave two rows: the lookup in submit and the INSERT in
\* create are apart, and the UNIQUE column decides.
OneJobPerRequest ==
    \A i, j \in Jobs : crid[i] = crid[j] /\ crid[i] # None => i = j

\* The comment in finish(): the persist stage mirrors the job's terminal
\* status, in both directions and also after a restart.
PersistMirrorsJob ==
    \A j \in Jobs : \A v \in Terminal :
        stage[j]["persist"] = v <=> status[j] = v

\* A settled job leaves no stage pending or running, and a job that succeeded
\* failed in no stage, although the stages are closed in separate transactions.
SettledStages ==
    \A j \in Jobs :
        /\ status[j] \in Terminal => \A s \in Stages : stage[j][s] \notin Unfinished
        /\ status[j] = "succeeded" => \A s \in Stages : stage[j][s] # "failed"

\* No handler is entered twice for one job, over retries, queueing and
\* restarts: a model call is never repeated behind the operator's back.
AtMostOneRun == \A j \in Jobs : runs[j] <= 1

\* However many threads call start(), one worker thread lives.
AtMostOneWorker == \A v, w \in Workers : Alive(v) /\ Alive(w) => v = w

\* The queue never exceeds its capacity although full() and put_nowait are apart.
QueueBounded == Len(queue) <= Capacity

\* docs/ARCHITECTURE.md:46: queued and running jobs are failed closed on
\* restart, so a rebuilt process meets no open job.
RestartClosesAll == phase = "constructed" => \A j \in Jobs : status[j] \notin OpenStatuses

\* A submission refused with 429 after its row was written is never executed.
RefusedNeverRuns == \A j \in saturated : runs[j] = 0

\* A chat exchange is recorded only of a job that succeeded: a late answer to
\* a chat that was told 504 leaves none.
ExchangeIsAnswered == \A j \in exchange : status[j] = "succeeded"

InQueue(j) == \E i \in DOMAIN queue : queue[i] = j

\* In a serving process somebody is about to move every open job: it waits in
\* the queue, its submitter still has to enqueue or refuse it, or the worker
\* has it.  The exceptions are the jobs refused for a full queue and those a
\* failed transaction left behind.
OpenJobsAreHeld ==
    phase = "up" =>
        \A j \in Jobs :
            status[j] \in OpenStatuses /\ j \notin saturated \cup abandoned =>
                \/ status[j] = "queued" /\ InQueue(j)
                \/ status[j] = "queued" /\ \E t \in Threads : own[t] = j /\ pc[t] = "enqueue"
                \/ \E w \in Workers : wjob[w] = j

\* An accepted job settles, whatever crashes, if no transaction fails: no code
\* promises a restart after a failed one.
AcceptedSettles ==
    \A j \in Jobs : j \in accepted ~> status[j] \in Terminal \/ dbErrors > 0

\* submit() records error_code "queue_saturated" for a job it refuses (line
\* 2121), so once the client was told 429 the job must be failed.
RefusedIsClosed ==
    \A j \in saturated :
        (\A t \in Threads : own[t] # j) => status[j] = "failed"

\* The client's view: what polling the request's job answers.
RequestOutcome(r) ==
    IF RowsOf(r) = {} THEN "none" ELSE status[CHOOSE j \in Jobs : crid[j] = r]

Ledger == INSTANCE JobLedger WITH outcome <- [r \in Requests |-> RequestOutcome(r)]

\* The job service keeps the promise of JobLedger.
ImplementsLedger == Ledger!Spec
=============================================================================
