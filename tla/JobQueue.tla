------------------------------ MODULE JobQueue ------------------------------
(***************************************************************************)
(* The request queue of ds4-server: client threads own their job on the    *)
(* stack, a FIFO list under server.mu holds the jobs nobody runs yet,      *)
(* dispatch_jobs_locked binds them to resident slots, one worker thread    *)
(* per slot runs them, a client that sees its socket closed cancels its    *)
(* own job, and main drains everything at shutdown.                        *)
(*                                                                         *)
(* One action is one critical section of server.mu, job.mu or model_mu, or *)
(* one step between two of them.  generate_job_inner is one step here: the *)
(* ModelExecutor module opens it up.  A thread blocked in                  *)
(* pthread_cond_wait(&s->cv) is a member of `asleep` and does nothing      *)
(* until some broadcast empties that set, so a missing wake-up shows as a  *)
(* liveness failure.                                                       *)
(***************************************************************************)
EXTENDS FiniteSets, Naturals

CONSTANTS
    Jobs,       \* client connections: one connection, one request, one job
    Slots,      \* resident sessions, each with its worker thread
    Flaky,      \* the clients that may close their socket early
    Modes,      \* the values of server.batched_mode to consider
    None        \* the NULL pointer

ASSUME NoneAssumption == None \notin Jobs \cup Slots
ASSUME ModesAssumption == Modes # {} /\ Modes \subseteq BOOLEAN
ASSUME FlakyAssumption == Flaky \subseteq Jobs
ASSUME FiniteAssumption == IsFiniteSet(Jobs) /\ IsFiniteSet(Slots)
ASSUME SlotsAssumption == Slots # {}

VARIABLES
    queued,     \* the jobs on the s->head list
    ahead,      \* ahead[j]: the jobs in front of j on that list
    assigned,   \* slot->assigned
    busy,       \* slot->busy
    running,    \* slot->running, and the target of the session's cancel callback
    live,       \* the job whose tool calls are the slot's live binding
    worker,     \* control point of the slot's worker thread
    current,    \* the job that thread holds in its local j
    asleep,     \* worker threads blocked in pthread_cond_wait(&s->cv)
    client,     \* control point of the client thread
    needs,      \* the live binding the parsed request cannot do without
    done,       \* jobs with job.done
    cancelled,  \* jobs with job.cancelled
    detached,   \* jobs whose client thread has the local detached = true
    hungup,     \* clients whose socket reads EOF or an error
    stop,       \* g_stop_requested
    stopping,   \* s->stopping
    clients,    \* s->clients
    main,       \* control point of main()
    batched     \* server.batched_mode, set by --batched-sessions

queueVars  == <<queued, ahead, assigned, busy>>
workerVars == <<running, live, worker, current, asleep>>
clientVars == <<client, needs, done, cancelled, detached, hungup>>
mainVars   == <<stop, stopping, clients, main, batched>>
vars == <<queueVars, workerVars, clientVars, mainVars>>

WorkerSteps == {"idle", "start", "run", "leave", "complete", "release", "exited"}
ClientSteps == {"new", "read", "wait", "mark", "detach", "withdraw", "finish",
                "close", "gone"}
MainSteps   == {"accept", "join", "drain", "closed"}

(* Without --batched-sessions there is one worker, on slots[0].            *)
Resident == IF batched THEN Slots ELSE {CHOOSE s \in Slots : TRUE}

Init ==
    /\ queued = {}
    /\ ahead = [j \in Jobs |-> {}]
    /\ assigned = [s \in Slots |-> None]
    /\ busy = [s \in Slots |-> FALSE]
    /\ running = [s \in Slots |-> None]
    /\ live = [s \in Slots |-> None]
    /\ worker = [s \in Slots |-> "idle"]
    /\ current = [s \in Slots |-> None]
    /\ asleep = {}
    /\ client = [j \in Jobs |-> "new"]
    /\ needs = [j \in Jobs |-> None]
    /\ done = {} /\ cancelled = {} /\ detached = {} /\ hungup = {}
    /\ stop = FALSE /\ stopping = FALSE /\ clients = 0
    /\ main = "accept" /\ batched \in Modes

-----------------------------------------------------------------------------
(* The list and the dispatcher, always under server.mu.                    *)

(* job_required_slot_locked: the slots that hold the binding j cannot do   *)
(* without.  Call ids are unique, so there is at most one; a binding that  *)
(* has gone is not an obstacle (the job then answers 409).                 *)
RequiredSlots(j) == {s \in Slots : needs[j] # None /\ live[s] = needs[j]}

(* Fault: the scores ignore the required slot.                             *)
EligibleAnywhere(j, s) == TRUE

(* job_slot_score # INT_MIN.  The score itself (common token prefix) only  *)
(* ranks eligible slots; sessions are abstracted, so any of them can win.  *)
Eligible(j, s) == RequiredSlots(j) # {} => s \in RequiredSlots(j)

(* Fault: the loop takes any runnable job instead of the first.            *)
DispatchAnyOrder(q, front, idle) ==
    {m \in [idle -> q \cup {None}] :
        \A j \in q :
            LET mine  == {s \in idle : m[s] = j}
                avail == {s \in idle : m[s] \in {None, j} /\ Eligible(j, s)}
            IN  /\ mine \subseteq avail
                /\ \A s, t \in mine : s = t
                /\ avail # {} => mine # {}}

(* The outcomes of the dispatch_jobs_locked loop on the list q when the    *)
(* slots `idle` are neither busy nor assigned: m[s] is the job slot s      *)
(* gets.  The loop always takes the first job that still has an eligible   *)
(* slot, so a job is left behind only when the jobs in front of it took    *)
(* every slot it could use.                                                *)
DispatchOutcomes(q, front, idle) ==
    {m \in [idle -> q \cup {None}] :
        \A j \in q :
            LET mine  == {s \in idle : m[s] = j}
                avail == {s \in idle : m[s] \notin front[j] /\ Eligible(j, s)}
            IN  /\ mine \subseteq avail
                /\ \A s, t \in mine : s = t
                /\ avail # {} => mine # {}}

(* dispatch_jobs_locked on the list q with the slots' fields a and b:      *)
(* assigns, marks busy, unlinks, and wakes the workers when it assigned    *)
(* anything; `woken` says that the caller broadcasts s->cv anyway.         *)
Dispatch(q, front, a, b, woken) ==
    \E m \in DispatchOutcomes(q, front, {s \in Slots : a[s] = None /\ ~b[s]}) :
        LET given == {s \in DOMAIN m : m[s] # None}
            taken == {m[s] : s \in given}
        IN  /\ queued' = q \ taken
            /\ ahead' = [j \in Jobs |-> IF j \in taken THEN {} ELSE front[j] \ taken]
            /\ assigned' = [s \in Slots |-> IF s \in given THEN m[s] ELSE a[s]]
            /\ busy' = [s \in Slots |-> s \in given \/ b[s]]
            /\ asleep' = IF woken \/ given # {} THEN {} ELSE asleep

(* The same call in either mode: it returns at once unless batched_mode.   *)
DispatchIfBatched(q, front, a, b, woken) ==
    \/ batched /\ Dispatch(q, front, a, b, woken)
    \/ /\ ~batched
       /\ queued' = q /\ ahead' = front /\ assigned' = a /\ busy' = b
       /\ asleep' = IF woken THEN {} ELSE asleep

(* Unlinking job j from the list.                                          *)
Unlink(j) == [k \in Jobs |-> IF k = j THEN {} ELSE ahead[k] \ {j}]

-----------------------------------------------------------------------------
(* The client threads.                                                     *)

(* Fault: a failed pthread_create does not undo the count.                 *)
AcceptNotUndone(j) ==
    /\ main = "accept" /\ ~stop
    /\ client[j] = "new"
    /\ client' = [client EXCEPT ![j] = "read"] \/ UNCHANGED client
    /\ clients' = clients + 1
    /\ UNCHANGED <<queueVars, workerVars, needs, done, cancelled, detached,
                   hungup, stop, stopping, main, batched>>

(* main's accept loop: s->clients++ under mu, then the detached thread.  A *)
(* failed pthread_create undoes both and leaves no trace.                  *)
Accept(j) ==
    /\ main = "accept" /\ ~stop
    /\ client[j] = "new"
    /\ client' = [client EXCEPT ![j] = "read"]
    /\ clients' = clients + 1
    /\ UNCHANGED <<queueVars, workerVars, needs, done, cancelled, detached,
                   hungup, stop, stopping, main, batched>>

(* The peer closes its end.  The code looks for it only while the client   *)
(* thread waits for its job, so an earlier close is one that happens here. *)
HangUp(j) ==
    /\ client[j] = "wait"
    /\ j \in Flaky \ hungup
    /\ hungup' = hungup \cup {j}
    /\ UNCHANGED <<queueVars, workerVars, client, needs, done, cancelled,
                   detached, mainVars>>

(* client_main's request_free and the destruction of its stack job: the    *)
(* fields of j are gone.                                                   *)
DestroyJob(j) ==
    /\ client' = [client EXCEPT ![j] = "close"]
    /\ needs' = [needs EXCEPT ![j] = None]
    /\ done' = done \ {j}
    /\ cancelled' = cancelled \ {j}
    /\ detached' = detached \ {j}
    /\ hungup' = hungup \ {j}

(* client_main up to enqueue: a bad request, a request answered at once    *)
(* (OPTIONS, /v1/models, 400, 404, prompt over the context), or a peer     *)
(* that sends nothing until SO_RCVTIMEO.                                   *)
Refuse(j) ==
    /\ client[j] = "read"
    /\ DestroyJob(j)
    /\ UNCHANGED <<queueVars, workerVars, mainVars>>

(* The same, when parsing succeeds: a tool-result-only request is accepted *)
(* only if some slot holds its binding at this moment (the validate        *)
(* functions, under tool_mu).  Any other request needs no binding.         *)
Parse(j) ==
    /\ client[j] = "read" /\ needs[j] = None
    /\ \E k \in {live[s] : s \in Slots} \ {None} : needs' = [needs EXCEPT ![j] = k]
    /\ UNCHANGED <<queueVars, workerVars, client, done, cancelled, detached,
                   hungup, mainVars>>

(* Fault: enqueue links the job but wakes no worker.                       *)
EnqueueQuietly(j) ==
    /\ client[j] = "read"
    /\ \/ stopping /\ DestroyJob(j) /\ UNCHANGED <<queueVars, asleep>>
       \/ /\ ~stopping
          /\ client' = [client EXCEPT ![j] = "wait"]
          /\ DispatchIfBatched(queued \cup {j}, [ahead EXCEPT ![j] = queued],
                               assigned, busy, FALSE)
          /\ UNCHANGED <<needs, done, cancelled, detached, hungup>>
    /\ UNCHANGED <<running, live, worker, current, mainVars>>

(* enqueue, refused with 503 once the server is stopping.                  *)
Enqueue(j) ==
    /\ client[j] = "read"
    /\ \/ stopping /\ DestroyJob(j) /\ UNCHANGED <<queueVars, asleep>>
       \/ /\ ~stopping
          /\ client' = [client EXCEPT ![j] = "wait"]
          /\ DispatchIfBatched(queued \cup {j}, [ahead EXCEPT ![j] = queued],
                               assigned, busy, TRUE)
          /\ UNCHANGED <<needs, done, cancelled, detached, hungup>>
    /\ UNCHANGED <<running, live, worker, current, mainVars>>

(* wait_for_job_or_disconnect, the iteration that finds job.done: the      *)
(* client thread destroys the job.                                         *)
WaitDone(j) ==
    /\ client[j] = "wait" /\ j \in done
    /\ DestroyJob(j)
    /\ UNCHANGED <<queueVars, workerVars, mainVars>>

(* wait_for_job_or_disconnect, the iteration that reads done = false and   *)
(* then, job.mu released, finds the socket closed.                         *)
WaitDisconnected(j) ==
    /\ client[j] = "wait" /\ j \notin done /\ j \in hungup
    /\ client' = [client EXCEPT ![j] = "mark"]
    /\ UNCHANGED <<queueVars, workerVars, needs, done, cancelled, detached,
                   hungup, mainVars>>

(* server_cancel_job: job_mark_cancelled.                                  *)
CancelMark(j) ==
    /\ client[j] = "mark"
    /\ cancelled' = cancelled \cup {j}
    /\ client' = [client EXCEPT ![j] = "detach"]
    /\ UNCHANGED <<queueVars, workerVars, needs, done, detached, hungup, mainVars>>

(* server_cancel_job, the section under server.mu: take the job off the    *)
(* list or away from the slot that has not started it.                     *)
CancelDetach(j) ==
    /\ client[j] = "detach"
    /\ client' = [client EXCEPT ![j] = "withdraw"]
    /\ \/ /\ j \in queued
          /\ queued' = queued \ {j}
          /\ ahead' = Unlink(j)
          /\ asleep' = {}
          /\ detached' = detached \cup {j}
          /\ UNCHANGED <<assigned, busy>>
       \/ /\ j \notin queued /\ batched
          /\ \E s \in Slots :
                /\ assigned[s] = j
                /\ Dispatch(queued, ahead, [assigned EXCEPT ![s] = None],
                            [busy EXCEPT ![s] = FALSE], TRUE)
          /\ detached' = detached \cup {j}
       \/ /\ j \notin queued
          /\ \A s \in Slots : assigned[s] # j
          /\ asleep' = {}
          /\ UNCHANGED <<queueVars, detached>>
    /\ UNCHANGED <<running, live, worker, current, needs, done, cancelled,
                   hungup, mainVars>>

(* Fault: the client completes its job without having detached it.         *)
CancelAlwaysFinishes(j) ==
    /\ client[j] = "withdraw"
    /\ client' = [client EXCEPT ![j] = "finish"]
    /\ UNCHANGED <<queueVars, workerVars, needs, done, cancelled, detached,
                   hungup, mainVars>>

(* server_cancel_job, the section under model_mu: withdraw the pending     *)
(* decode of the slot running j (the executor's state, see ModelExecutor). *)
CancelWithdraw(j) ==
    /\ client[j] = "withdraw"
    /\ client' = [client EXCEPT ![j] = IF j \in detached THEN "finish" ELSE "wait"]
    /\ UNCHANGED <<queueVars, workerVars, needs, done, cancelled, detached,
                   hungup, mainVars>>

(* server_cancel_job: job_complete by the client itself, if it detached.   *)
CancelFinish(j) ==
    /\ client[j] = "finish"
    /\ done' = done \cup {j}
    /\ client' = [client EXCEPT ![j] = "wait"]
    /\ UNCHANGED <<queueVars, workerVars, needs, cancelled, detached, hungup,
                   mainVars>>

(* The end of client_main: close the socket, client_done.                  *)
ClientDone(j) ==
    /\ client[j] = "close"
    /\ client' = [client EXCEPT ![j] = "gone"]
    /\ clients' = IF clients > 0 THEN clients - 1 ELSE 0
    /\ UNCHANGED <<queueVars, workerVars, needs, done, cancelled, detached,
                   hungup, stop, stopping, main, batched>>

-----------------------------------------------------------------------------
(* The worker threads: slot_worker_main, and worker_main with its dequeue  *)
(* when the server is not batched.                                         *)

HasWork(s) == IF batched THEN assigned[s] # None ELSE queued # {}

WorkerSleep(s) ==
    /\ worker[s] = "idle" /\ s \notin asleep
    /\ ~HasWork(s) /\ (~stopping \/ queued # {})
    /\ asleep' = asleep \cup {s}
    /\ UNCHANGED <<queueVars, running, live, worker, current, clientVars, mainVars>>

(* Fault: a worker leaves on stopping although jobs still wait.            *)
WorkerExitEarly(s) ==
    /\ worker[s] = "idle" /\ s \notin asleep
    /\ ~HasWork(s) /\ stopping
    /\ worker' = [worker EXCEPT ![s] = "exited"]
    /\ UNCHANGED <<queueVars, running, live, current, asleep, clientVars, mainVars>>

WorkerExit(s) ==
    /\ worker[s] = "idle" /\ s \notin asleep
    /\ ~HasWork(s) /\ stopping /\ queued = {}
    /\ worker' = [worker EXCEPT ![s] = "exited"]
    /\ UNCHANGED <<queueVars, running, live, current, asleep, clientVars, mainVars>>

(* The slot's job, or the head of the list when the server is not batched. *)
WorkerTake(s) ==
    /\ worker[s] = "idle" /\ s \notin asleep
    /\ \/ /\ batched /\ assigned[s] # None
          /\ current' = [current EXCEPT ![s] = assigned[s]]
          /\ assigned' = [assigned EXCEPT ![s] = None]
          /\ UNCHANGED <<queued, ahead>>
       \/ /\ ~batched
          /\ \E j \in queued :
                /\ ahead[j] = {}
                /\ current' = [current EXCEPT ![s] = j]
                /\ queued' = queued \ {j}
                /\ ahead' = Unlink(j)
          /\ UNCHANGED assigned
    /\ worker' = [worker EXCEPT ![s] = "start"]
    /\ UNCHANGED <<busy, running, live, asleep, clientVars, mainVars>>

(* generate_job: publish running under model_mu and install the callback;  *)
(* a job that is already cancelled is not run.                             *)
GenerateStart(s) ==
    /\ worker[s] = "start"
    /\ running' = [running EXCEPT ![s] = current[s]]
    /\ worker' = [worker EXCEPT ![s] = IF current[s] \in cancelled THEN "leave"
                                                                  ELSE "run"]
    /\ UNCHANGED <<queueVars, live, current, asleep, clientVars, mainVars>>

(* generate_job_inner as the queue sees it: what it leaves as the slot's   *)
(* live binding.  A required binding that is not there is answered with    *)
(* 409 and changes nothing, as does a failed prefill; a cancelled request  *)
(* and a turn without tool calls clear it; tool calls replace it.  A write *)
(* to a closed socket marks the job cancelled.                             *)
GenerateInner(s) ==
    /\ worker[s] = "run"
    /\ LET j == current[s]
       IN  /\ \/ UNCHANGED <<live, cancelled>>
              \/ /\ needs[j] # None => live[s] = needs[j]
                 /\ \/ /\ j \notin cancelled
                       /\ \E b \in {None, j} : live' = [live EXCEPT ![s] = b]
                       /\ UNCHANGED cancelled
                    \/ /\ j \in cancelled \cup hungup
                       /\ live' = [live EXCEPT ![s] = None]
                       /\ cancelled' = cancelled \cup {j}
           /\ worker' = [worker EXCEPT ![s] = "leave"]
    /\ UNCHANGED <<queueVars, running, current, asleep, client, needs, done,
                   detached, hungup, mainVars>>

(* Faults: slot->running keeps pointing at the finished job; the slot is   *)
(* given back before the job is completed.                                 *)
GenerateLeaveRunning(s) ==
    /\ worker[s] = "leave"
    /\ worker' = [worker EXCEPT ![s] = "complete"]
    /\ UNCHANGED <<queueVars, running, live, current, asleep, clientVars, mainVars>>

GenerateLeaveNotBusy(s) ==
    /\ worker[s] = "leave"
    /\ running' = [running EXCEPT ![s] = None]
    /\ busy' = [busy EXCEPT ![s] = FALSE]
    /\ worker' = [worker EXCEPT ![s] = "complete"]
    /\ UNCHANGED <<queued, ahead, assigned, live, current, asleep, clientVars, mainVars>>

(* generate_job: remove the callback, then slot->running under model_mu.   *)
GenerateLeave(s) ==
    /\ worker[s] = "leave"
    /\ running' = [running EXCEPT ![s] = None]
    /\ worker' = [worker EXCEPT ![s] = "complete"]
    /\ UNCHANGED <<queueVars, live, current, asleep, clientVars, mainVars>>

(* job_complete by the worker; its local j is dead from here on.           *)
WorkerComplete(s) ==
    /\ worker[s] = "complete"
    /\ done' = done \cup {current[s]}
    /\ current' = [current EXCEPT ![s] = None]
    /\ worker' = [worker EXCEPT ![s] = IF batched THEN "release" ELSE "idle"]
    /\ UNCHANGED <<queueVars, running, live, asleep, client, needs, cancelled,
                   detached, hungup, mainVars>>

(* Fault: the slot is given back without dispatching.                      *)
WorkerReleaseOnly(s) ==
    /\ worker[s] = "release"
    /\ worker' = [worker EXCEPT ![s] = "idle"]
    /\ busy' = [busy EXCEPT ![s] = FALSE]
    /\ UNCHANGED <<queued, ahead, assigned, running, live, current, asleep,
                   clientVars, mainVars>>

(* slot_worker_main: busy = false, then dispatch.                          *)
WorkerRelease(s) ==
    /\ worker[s] = "release"
    /\ worker' = [worker EXCEPT ![s] = "idle"]
    /\ Dispatch(queued, ahead, assigned, [busy EXCEPT ![s] = FALSE], FALSE)
    /\ UNCHANGED <<running, live, current, clientVars, mainVars>>

-----------------------------------------------------------------------------
(* Shutdown.                                                               *)

(* stop_signal_handler.  A second signal is _exit(130): no behaviour after *)
(* it.                                                                     *)
StopSignal ==
    /\ ~stop
    /\ stop' = TRUE
    /\ UNCHANGED <<queueVars, workerVars, clientVars, stopping, clients, main, batched>>

(* Fault: stopping is set without waking the workers.                      *)
RequestWorkerStopQuietly ==
    /\ main = "accept" /\ stop
    /\ main' = "join"
    /\ stopping' = TRUE
    /\ DispatchIfBatched(queued, ahead, assigned, busy, FALSE)
    /\ UNCHANGED <<running, live, worker, current, clientVars, stop, clients, batched>>

(* main leaves the accept loop: server_request_worker_stop.                *)
RequestWorkerStop ==
    /\ main = "accept" /\ stop
    /\ main' = "join"
    /\ stopping' = TRUE
    /\ DispatchIfBatched(queued, ahead, assigned, busy, TRUE)
    /\ UNCHANGED <<running, live, worker, current, clientVars, stop, clients, batched>>

(* pthread_join of every worker.                                           *)
JoinWorkers ==
    /\ main = "join"
    /\ \A s \in Resident : worker[s] = "exited"
    /\ main' = "drain"
    /\ UNCHANGED <<queueVars, workerVars, clientVars, stop, stopping, clients, batched>>

(* Fault: main frees the server while client threads still use it.         *)
CloseResourcesEarly ==
    /\ main = "drain"
    /\ main' = "closed"
    /\ UNCHANGED <<queueVars, workerVars, clientVars, stop, stopping, clients, batched>>

(* Wait for s->clients == 0, persist the sessions, free everything.        *)
CloseResources ==
    /\ main = "drain" /\ clients = 0
    /\ main' = "closed"
    /\ UNCHANGED <<queueVars, workerVars, clientVars, stop, stopping, clients, batched>>

(* After main has returned nothing is left to run.                         *)
Terminated == main = "closed" /\ UNCHANGED vars

-----------------------------------------------------------------------------
(* What the network may do to a client thread, and what the thread does.   *)
Arrival(j) == Accept(j) \/ HangUp(j) \/ Parse(j)

ClientNext(j) ==
    \/ Refuse(j) \/ Enqueue(j) \/ WaitDone(j) \/ WaitDisconnected(j)
    \/ CancelMark(j) \/ CancelDetach(j) \/ CancelWithdraw(j) \/ CancelFinish(j)
    \/ ClientDone(j)

WorkerNext(s) ==
    /\ s \in Resident
    /\ \/ WorkerSleep(s) \/ WorkerExit(s) \/ WorkerTake(s)
       \/ GenerateStart(s) \/ GenerateInner(s) \/ GenerateLeave(s)
       \/ WorkerComplete(s) \/ WorkerRelease(s)

MainNext == RequestWorkerStop \/ JoinWorkers \/ CloseResources

Next ==
    \/ \E j \in Jobs : Arrival(j) \/ ClientNext(j)
    \/ \E s \in Slots : WorkerNext(s)
    \/ MainNext \/ StopSignal \/ Terminated

Spec == Init /\ [][Next]_vars

(* The scheduler runs every thread that can run, and what the threads call *)
(* returns: recv has SO_RCVTIMEO, a generation is bounded by max_tokens    *)
(* and by the context.  Nothing forces a client to connect or hang up, or  *)
(* anybody to stop the server.                                             *)
ThreadFairness ==
    /\ \A j \in Jobs : WF_vars(ClientNext(j))
    /\ \A s \in Slots : WF_vars(WorkerNext(s))
    /\ WF_vars(MainNext)

FairSpec == Spec /\ ThreadFairness
-----------------------------------------------------------------------------
(* Safety.                                                                 *)

(* Every variable has the type of the C field or local it stands for, and  *)
(* the client counter never exceeds the connections.                       *)
TypeOK ==
    /\ queued \in SUBSET Jobs
    /\ ahead \in [Jobs -> SUBSET Jobs]
    /\ assigned \in [Slots -> Jobs \cup {None}]
    /\ busy \in [Slots -> BOOLEAN]
    /\ running \in [Slots -> Jobs \cup {None}]
    /\ live \in [Slots -> Jobs \cup {None}]
    /\ worker \in [Slots -> WorkerSteps]
    /\ current \in [Slots -> Jobs \cup {None}]
    /\ asleep \in SUBSET Slots
    /\ client \in [Jobs -> ClientSteps]
    /\ needs \in [Jobs -> Jobs \cup {None}]
    /\ done \in SUBSET Jobs /\ cancelled \in SUBSET Jobs
    /\ detached \in SUBSET Jobs /\ hungup \in SUBSET Jobs
    /\ stop \in BOOLEAN /\ stopping \in BOOLEAN
    /\ clients \in 0 .. Cardinality(Jobs)
    /\ main \in MainSteps /\ batched \in Modes

(* The server data that still point at job j.                              *)
Reachable(j) ==
    \/ j \in queued
    \/ \E s \in Slots : j \in {assigned[s], current[s], running[s]}

(* The job lives on the client thread's stack: once that thread has left   *)
(* wait_for_job_or_disconnect and destroyed it, neither the list, nor a    *)
(* slot, nor a worker's local, nor slot->running and the session's cancel  *)
(* callback still points at it.                                            *)
JobOutlivesUse ==
    \A j \in Jobs : client[j] \in {"close", "gone"} => ~Reachable(j)

(* Who is going to call job_complete(j): the list, a slot, a worker, or    *)
(* the client thread that detached it.                                     *)
Owners(j) ==
    (IF j \in queued THEN {<<"list", None>>} ELSE {})
    \cup {<<"slot", s>> : s \in {t \in Slots : assigned[t] = j}}
    \cup {<<"worker", s>> : s \in {t \in Slots : current[t] = j}}
    \cup (IF j \in detached \ done THEN {<<"client", None>>} ELSE {})

(* A request somebody is waiting for has exactly one party that will       *)
(* complete it, and a completed one has none: the race of a disconnect     *)
(* with dispatch, with the worker taking the job and with the worker       *)
(* completing it neither loses a job nor answers it twice.                 *)
OneOwner ==
    \A j \in Jobs :
        client[j] \in {"wait", "mark", "detach", "withdraw", "finish"} =>
            Cardinality(Owners(j)) = (IF j \in done THEN 0 ELSE 1)

(* job_slot_score reads the session of every slot that is neither busy nor *)
(* assigned without holding inference_mu: no worker may be anywhere        *)
(* between taking a job and giving the slot back, on such a slot.          *)
IdleSlotUntouched ==
    batched => \A s \in Slots : ~busy[s] =>
        /\ assigned[s] = None /\ current[s] = None /\ running[s] = None
        /\ worker[s] \in {"idle", "exited"}

(* A request that needs no live binding waits only while every slot is     *)
(* taken: each place that frees a slot dispatches before it releases mu.   *)
NoIdleSlotWhileWaiting ==
    batched => \A j \in queued : needs[j] = None => \A s \in Slots : busy[s]

(* A request bound to a slot by its tool-call ids is never handed to, or   *)
(* started on, another slot while some slot still holds that binding.      *)
ContinuationOnItsSlot ==
    \A j \in Jobs, s, t \in Slots :
        /\ batched
        /\ needs[j] # None /\ live[t] = needs[j]
        /\ assigned[s] = j \/ (current[s] = j /\ worker[s] \in {"start", "run"})
        => s = t

(* A worker leaves only when nothing can come to it any more: while jobs   *)
(* wait or are assigned during shutdown, the threads that must run them    *)
(* are still there.                                                        *)
WorkersOutliveWork ==
    \A s \in Resident : worker[s] = "exited" => queued = {} /\ assigned[s] = None

(* main frees the server only after the last thread that uses it: no       *)
(* client thread and no worker is left, and no accepted request is         *)
(* unanswered.                                                             *)
CloseIsLast ==
    main = "closed" =>
        /\ \A j \in Jobs : client[j] \in {"new", "gone"}
        /\ \A s \in Resident : worker[s] = "exited"

-----------------------------------------------------------------------------
(* Action properties.                                                      *)

(* Overtaken(j): some job behind j left the list for a slot in this step.  *)
Overtaken(j) ==
    \E k \in Jobs : /\ j \in ahead[k] /\ k \in queued /\ k \notin queued'
                    /\ \E s \in Slots : assigned'[s] = k

(* "FIFO among jobs that can run now": a job is overtaken only while it    *)
(* waits for the one slot that holds its binding, and that slot is taken.  *)
OvertakenOnlyWhenBound ==
    [][\A j \in queued \cap queued' :
         Overtaken(j) => \E s \in RequiredSlots(j) : busy[s] \/ busy'[s]]_vars

-----------------------------------------------------------------------------
(* Liveness, under FairSpec.                                               *)

(* Every request that enqueue accepted is completed and its client thread  *)
(* ends, whatever hangs up and whenever the server is stopped.             *)
EveryJobAnswered ==
    \A j \in Jobs : client[j] = "wait" ~> client[j] = "gone"

(* After SIGINT or SIGTERM main drains and returns.                        *)
ShutdownCompletes == stop ~> main = "closed"
=============================================================================
