---------------------------- MODULE ModelExecutor ----------------------------
(***************************************************************************)
(* The model executor of ds4-server in batched mode: the slot threads, each *)
(* inside generate_job, take turns on one model.  A prompt is prefilled in *)
(* quanta (server_session_sync, server_prefill_enter and _leave) granted    *)
(* round robin; a generated token is handed to the decode thread, which     *)
(* evaluates the pending tokens of all slots as one batch.                  *)
(*                                                                          *)
(* One action is one critical section of model_mu, one hold of inference_mu *)
(* or one step between two of them.  A thread blocked in pthread_cond_wait  *)
(* (&s->model_cv) is a member of `asleep`; a broadcast empties that set.    *)
(***************************************************************************)
EXTENDS FiniteSets, Integers

CONSTANTS
    N,          \* server.slot_count
    Flaky,      \* the slots whose clients may disconnect
    MaxQuanta,  \* bound: prefill quanta in one server_session_sync
    MaxTokens   \* bound: tokens one decode loop may evaluate

ASSUME NAssumption == N \in Nat \ {0}
ASSUME FlakyAssumption == Flaky \subseteq 0 .. N - 1
ASSUME BoundsAssumption == MaxQuanta \in Nat \ {0} /\ MaxTokens \in Nat

Slots == 0 .. N - 1
Decoder == N            \* the decode thread, beside the slot threads
Nobody == N + 1         \* inference_mu is free
Threads == Slots \cup {Decoder}

VARIABLES
    pc,                 \* control point of the slot thread
    todo,               \* prefill quanta left in that sync
    budget,             \* tokens left in max_tokens
    recovered,          \* dsml_recovery_attempted
    errored,            \* finish is "error"
    cancelled,          \* job.cancelled of the slot's running job
    notified,           \* that job's client has been through model_mu in
                        \* server_cancel_job
    prefill_waiting,    \* slot->prefill_waiting
    last_prefill_slot,  \* s->last_prefill_slot
    passed,             \* history: slots granted a quantum while this one waited
    decode_pending,     \* slot->decode_pending
    decode_in_flight,   \* slot->decode_in_flight
    decode_done,        \* slot->decode_done and, once it is set, decode_rc
    unkept,             \* the session holds a token the decode loop has not counted
    pending_count,      \* s->decode_pending
    active_generations, \* s->active_generations
    model_busy,         \* s->model_busy
    inference,          \* the holder of inference_mu
    decoder,            \* control point of the decode thread
    members,            \* its local members[]
    batch_rc,           \* its local rc
    asleep,             \* threads blocked on model_cv
    stop,               \* g_stop_requested
    model_stopping      \* s->model_stopping

localVars   == <<todo, budget, recovered, errored>>
cancelVars  == <<cancelled, notified>>
jobVars     == <<pc, localVars, cancelVars>>
prefillVars == <<prefill_waiting, last_prefill_slot, passed>>
decodeVars  == <<decode_pending, decode_in_flight, decode_done,
                 unkept, pending_count>>
batchVars   == <<decoder, members, batch_rc>>
modelVars   == <<active_generations, model_busy, inference>>
stopVars    == <<stop, model_stopping>>
vars == <<jobVars, prefillVars, decodeVars, batchVars, modelVars, asleep, stopVars>>

SlotSteps == {"free", "peek", "loop", "pwait", "plock", "prefill", "pleave",
              "synced", "dloop", "dwait", "gleave", "after", "end"}
DecoderSteps == {"wait", "coalesce", "collect", "lock", "eval", "publish", "exited"}
Codes == {"ok", "error", "interrupted"}

Init ==
    /\ pc = [s \in Slots |-> "free"]
    /\ todo = [s \in Slots |-> 0]
    /\ budget = [s \in Slots |-> 0]
    /\ recovered = [s \in Slots |-> FALSE]
    /\ errored = [s \in Slots |-> FALSE]
    /\ cancelled = [s \in Slots |-> FALSE]
    /\ notified = [s \in Slots |-> FALSE]
    /\ prefill_waiting = [s \in Slots |-> FALSE]
    /\ last_prefill_slot = N - 1
    /\ passed = [s \in Slots |-> {}]
    /\ decode_pending = [s \in Slots |-> FALSE]
    /\ decode_in_flight = [s \in Slots |-> FALSE]
    /\ decode_done = [s \in Slots |-> "no"]
    /\ unkept = [s \in Slots |-> FALSE]
    /\ pending_count = 0 /\ active_generations = 0
    /\ model_busy = FALSE /\ inference = Nobody
    /\ decoder = "wait" /\ members = {} /\ batch_rc = "ok"
    /\ asleep = {} /\ stop = FALSE /\ model_stopping = FALSE

-----------------------------------------------------------------------------
(* The slot thread: generate_job and the start of a sync.                  *)

Goto(s, step) == pc' = [pc EXCEPT ![s] = step]

(* generate_job publishes slot->running; the request's prompt and budget   *)
(* are whatever the client sent.  A job whose client has cancelled it by   *)
(* then is not run.                                                        *)
GenerateJob(s) ==
    /\ pc[s] = "free" /\ ~model_stopping
    /\ \/ /\ \E q \in 1 .. MaxQuanta, b \in 0 .. MaxTokens :
                /\ todo' = [todo EXCEPT ![s] = q]
                /\ budget' = [budget EXCEPT ![s] = b]
          /\ Goto(s, "peek")
          /\ UNCHANGED cancelled
       \/ /\ s \in Flaky
          /\ cancelled' = [cancelled EXCEPT ![s] = TRUE]
          /\ Goto(s, "end")
          /\ UNCHANGED <<todo, budget>>
    /\ UNCHANGED <<recovered, errored, notified, prefillVars, decodeVars,
                   batchVars, modelVars, asleep, stopVars>>

(* server_session_sync reads the session's frontier under inference_mu.    *)
SyncPeek(s) ==
    /\ pc[s] = "peek" /\ inference = Nobody
    /\ Goto(s, "loop")
    /\ UNCHANGED <<localVars, cancelVars, prefillVars, decodeVars, batchVars,
                   modelVars, asleep, stopVars>>

(* The loop condition of server_session_sync and the first line of         *)
(* server_prefill_enter, both without a lock.                              *)
SyncInterrupted(s) ==
    /\ pc[s] = "loop" /\ (stop \/ cancelled[s])
    /\ Goto(s, "end")
    /\ UNCHANGED <<localVars, cancelVars, prefillVars, decodeVars, batchVars,
                   modelVars, asleep, stopVars>>

(* server_prefill_enter: announce the wait under model_mu.                 *)
PrefillAnnounce(s) ==
    /\ pc[s] = "loop" /\ ~stop /\ ~cancelled[s]
    /\ Goto(s, "pwait")
    /\ prefill_waiting' = [prefill_waiting EXCEPT ![s] = TRUE]
    /\ asleep' = {}
    /\ UNCHANGED <<localVars, cancelVars, last_prefill_slot, passed,
                   decodeVars, batchVars, modelVars, stopVars>>

(* Fault: the scan starts at slot 0 instead of after the last slot served. *)
DistanceFromZero(s) == s

(* server_next_prefill_slot_locked: the value of n at which its scan,      *)
(* modulo N from the slot after the last one served, looks at slot s.      *)
Distance(s) == IF s > last_prefill_slot THEN s - last_prefill_slot
                                        ELSE s - last_prefill_slot + N

(* Fault: the scan stops before it comes back to the last slot served.     *)
NextPrefillSlotShort(s) ==
    /\ prefill_waiting[s] /\ Distance(s) < N
    /\ \A t \in Slots : prefill_waiting[t] => Distance(s) <= Distance(t)

(* The first waiting slot of that scan.                                    *)
NextPrefillSlot(s) ==
    /\ prefill_waiting[s]
    /\ \A t \in Slots : prefill_waiting[t] => Distance(s) <= Distance(t)

(* Faults: prefill does not yield to pending tokens; it does not look at   *)
(* model_busy.                                                             *)
BlockedByModelOnly(s) == model_busy \/ ~NextPrefillSlot(s)
BlockedByDecodeOnly(s) == pending_count > 0 \/ ~NextPrefillSlot(s)

PrefillBlocked(s) == model_busy \/ pending_count > 0 \/ ~NextPrefillSlot(s)

(* server_prefill_enter, the wait.                                         *)
PrefillSleep(s) ==
    /\ pc[s] = "pwait" /\ s \notin asleep
    /\ ~stop /\ ~cancelled[s] /\ PrefillBlocked(s)
    /\ asleep' = asleep \cup {s}
    /\ UNCHANGED <<jobVars, prefillVars, decodeVars, batchVars, modelVars,
                   stopVars>>

(* server_prefill_enter, the way out without the model.                    *)
PrefillAbort(s) ==
    /\ pc[s] = "pwait" /\ s \notin asleep
    /\ stop \/ cancelled[s]
    /\ Goto(s, "end")
    /\ prefill_waiting' = [prefill_waiting EXCEPT ![s] = FALSE]
    /\ passed' = [passed EXCEPT ![s] = {}]
    /\ asleep' = {}
    /\ UNCHANGED <<localVars, cancelVars, last_prefill_slot, decodeVars,
                   batchVars, modelVars, stopVars>>

(* server_prefill_enter, the grant.  It broadcasts nothing.                *)
PrefillGrant(s) ==
    /\ pc[s] = "pwait" /\ s \notin asleep
    /\ ~stop /\ ~cancelled[s] /\ ~PrefillBlocked(s)
    /\ Goto(s, "plock")
    /\ prefill_waiting' = [prefill_waiting EXCEPT ![s] = FALSE]
    /\ last_prefill_slot' = s
    /\ passed' = [t \in Slots |-> IF prefill_waiting[t] /\ t # s
                                  THEN passed[t] \cup {s} ELSE {}]
    /\ model_busy' = TRUE
    /\ UNCHANGED <<localVars, cancelVars, decodeVars, batchVars,
                   active_generations, inference, asleep, stopVars>>

PrefillLock(s) ==
    /\ pc[s] = "plock" /\ inference = Nobody
    /\ inference' = s
    /\ Goto(s, "prefill")
    /\ UNCHANGED <<localVars, cancelVars, prefillVars, decodeVars, batchVars,
                   active_generations, model_busy, asleep, stopVars>>

(* ds4_session_sync returns (one quantum done, or todo = -1 when it       *)
(* failed, was interrupted by the cancel callback, or made no progress),   *)
(* and server_prefill_leave unlocks inference_mu.                          *)
PrefillEval(s) ==
    /\ pc[s] = "prefill"
    /\ inference' = Nobody
    /\ \E ok \in BOOLEAN :
        todo' = [todo EXCEPT ![s] = IF ok THEN todo[s] - 1 ELSE -1]
    /\ Goto(s, "pleave")
    /\ UNCHANGED <<budget, recovered, errored, cancelVars, prefillVars,
                   decodeVars, batchVars, active_generations, model_busy,
                   asleep, stopVars>>

(* server_prefill_leave under model_mu, and how server_session_sync reacts *)
(* to the outcome; a sync that fails ends the request with an error.       *)
PrefillLeave(s) ==
    /\ pc[s] = "pleave"
    /\ model_busy' = FALSE
    /\ asleep' = {}
    /\ \/ todo[s] < 0 /\ Goto(s, "end")
       \/ todo[s] = 0 /\ Goto(s, "synced")
       \/ todo[s] > 0 /\ Goto(s, "loop")
    /\ UNCHANGED <<localVars, cancelVars, prefillVars, decodeVars, batchVars,
                   active_generations, inference, stopVars>>

(* A cancellation seen after the prompt sync ends the request.             *)
SyncCancelled(s) ==
    /\ pc[s] = "synced" /\ ~recovered[s] /\ cancelled[s]
    /\ Goto(s, "end")
    /\ UNCHANGED <<localVars, cancelVars, prefillVars, decodeVars, batchVars,
                   modelVars, asleep, stopVars>>

-----------------------------------------------------------------------------
(* The slot thread: the decode loop.                                       *)

(* server_generation_enter.                                                *)
GenerationEnter(s) ==
    /\ pc[s] = "synced"
    /\ ~recovered[s] => ~cancelled[s]
    /\ active_generations' = active_generations + 1
    /\ asleep' = {}
    /\ Goto(s, "dloop")
    /\ UNCHANGED <<localVars, cancelVars, prefillVars, decodeVars, batchVars,
                   model_busy, inference, stopVars>>

(* The decode loop ends: stop, cancellation, budget, a stop token or stop  *)
(* sequence, a complete tool call, a failed write to the client (which     *)
(* marks the job cancelled).                                               *)
DecodeLoopEnds(s) ==
    /\ pc[s] = "dloop"
    /\ Goto(s, "gleave")
    /\ \E e \in BOOLEAN : errored' = [errored EXCEPT ![s] = e]
    /\ \/ UNCHANGED cancelled
       \/ s \in Flaky /\ cancelled' = [cancelled EXCEPT ![s] = TRUE] /\ errored'[s]
    /\ UNCHANGED <<todo, budget, recovered, notified, prefillVars, decodeVars,
                   batchVars, modelVars, asleep, stopVars>>

(* server_eval_token up to its wait, for a slot with no decode under way   *)
(* (otherwise it returns an error, which ends the loop).                   *)
EvalSubmit(s) ==
    /\ pc[s] = "dloop" /\ budget[s] > 0
    /\ ~stop /\ ~cancelled[s]
    /\ ~decode_pending[s] /\ ~decode_in_flight[s]
    /\ budget' = [budget EXCEPT ![s] = budget[s] - 1]
    /\ decode_done' = [decode_done EXCEPT ![s] = "no"]
    /\ decode_pending' = [decode_pending EXCEPT ![s] = TRUE]
    /\ pending_count' = pending_count + 1
    /\ asleep' = {}
    /\ Goto(s, "dwait")
    /\ UNCHANGED <<todo, recovered, errored, cancelVars, prefillVars,
                   decode_in_flight, unkept, batchVars, modelVars, stopVars>>

(* Fault: a token already in a batch is withdrawn too.                     *)
CanWithdrawInFlight(s) == decode_pending[s] \/ decode_in_flight[s]

(* server_cancel_pending_decode_locked, its guard.                         *)
CanWithdraw(s) == decode_pending[s] /\ ~decode_in_flight[s]

(* Fault: the flag is cleared and the counter is not.                      *)
WithdrawUncounted(s) ==
    /\ decode_pending' = [decode_pending EXCEPT ![s] = FALSE]
    /\ asleep' = {}
    /\ UNCHANGED pending_count

(* server_cancel_pending_decode_locked, its effect on the slot's token.    *)
WithdrawDecode(s) ==
    /\ decode_pending' = [decode_pending EXCEPT ![s] = FALSE]
    /\ pending_count' = pending_count - 1
    /\ asleep' = {}

(* server_eval_token, the wait, when there is nothing to do but sleep: an  *)
(* in-flight batch owns the session even if the job is cancelled.          *)
EvalSleep(s) ==
    /\ pc[s] = "dwait" /\ s \notin asleep
    /\ decode_done[s] = "no"
    /\ (cancelled[s] \/ stop) => ~CanWithdraw(s)
    /\ asleep' = asleep \cup {s}
    /\ UNCHANGED <<jobVars, prefillVars, decodeVars, batchVars, modelVars,
                   stopVars>>

(* server_eval_token withdraws its own token and returns INTERRUPTED.      *)
EvalWithdraw(s) ==
    /\ pc[s] = "dwait" /\ s \notin asleep
    /\ decode_done[s] = "no" /\ (cancelled[s] \/ stop) /\ CanWithdraw(s)
    /\ WithdrawDecode(s)
    /\ errored' = [errored EXCEPT ![s] = TRUE]
    /\ Goto(s, "gleave")
    /\ UNCHANGED <<todo, budget, recovered, cancelVars, prefillVars,
                   decode_in_flight, decode_done, unkept, batchVars, modelVars,
                   stopVars>>

(* Fault: any answer counts as a token.                                    *)
EvalReturnUnchecked(s) ==
    /\ pc[s] = "dwait" /\ s \notin asleep
    /\ decode_done[s] # "no"
    /\ decode_done' = [decode_done EXCEPT ![s] = "no"]
    /\ Goto(s, "dloop")
    /\ UNCHANGED <<localVars, cancelVars, prefillVars, decode_pending,
                   decode_in_flight, unkept, pending_count, batchVars, modelVars,
                   asleep, stopVars>>

(* server_eval_token collects its result; a stop turns success into        *)
(* INTERRUPTED, anything but success ends the loop.                        *)
EvalReturn(s) ==
    /\ pc[s] = "dwait" /\ s \notin asleep
    /\ decode_done[s] # "no"
    /\ decode_done' = [decode_done EXCEPT ![s] = "no"]
    /\ \/ /\ decode_done[s] = "ok" /\ ~stop
          /\ unkept' = [unkept EXCEPT ![s] = FALSE]
          /\ Goto(s, "dloop")
          /\ UNCHANGED errored
       \/ /\ decode_done[s] # "ok" \/ stop
          /\ errored' = [errored EXCEPT ![s] = TRUE]
          /\ Goto(s, "gleave")
          /\ UNCHANGED unkept
    /\ UNCHANGED <<todo, budget, recovered, cancelVars, prefillVars,
                   decode_pending, decode_in_flight, pending_count, batchVars,
                   modelVars, asleep, stopVars>>

(* server_generation_leave.                                                *)
GenerationLeave(s) ==
    /\ pc[s] = "gleave"
    /\ active_generations' = IF active_generations > 0 THEN active_generations - 1
                                                       ELSE active_generations
    /\ asleep' = {}
    /\ Goto(s, "after")
    /\ UNCHANGED <<localVars, cancelVars, prefillVars, decodeVars, batchVars,
                   model_busy, inference, stopVars>>

(* An invalid tool call, once per request and within the output budget: a  *)
(* tool error is appended to the session, and the decode loop runs again.  *)
Recover(s) ==
    /\ pc[s] = "after" /\ ~cancelled[s] /\ ~stop
    /\ ~errored[s] /\ ~recovered[s] /\ budget[s] > 0
    /\ recovered' = [recovered EXCEPT ![s] = TRUE]
    /\ todo' = [todo EXCEPT ![s] = 1]
    /\ Goto(s, "peek")
    /\ UNCHANGED <<budget, errored, cancelVars, prefillVars, decodeVars,
                   batchVars, modelVars, asleep, stopVars>>

Respond(s) ==
    /\ pc[s] = "after"
    /\ Goto(s, "end")
    /\ UNCHANGED <<localVars, cancelVars, prefillVars, decodeVars, batchVars,
                   modelVars, asleep, stopVars>>

(* The end of generate_job: slot->running = NULL under model_mu; the       *)
(* request's locals and its job are gone.                                  *)
GenerateEnd(s) ==
    /\ pc[s] = "end"
    /\ Goto(s, "free")
    /\ todo' = [todo EXCEPT ![s] = 0]
    /\ budget' = [budget EXCEPT ![s] = 0]
    /\ recovered' = [recovered EXCEPT ![s] = FALSE]
    /\ errored' = [errored EXCEPT ![s] = FALSE]
    /\ cancelled' = [cancelled EXCEPT ![s] = FALSE]
    /\ notified' = [notified EXCEPT ![s] = FALSE]
    /\ unkept' = [unkept EXCEPT ![s] = FALSE]
    /\ asleep' = {}
    /\ UNCHANGED <<prefillVars, decode_pending, decode_in_flight, decode_done,
                   pending_count, batchVars, modelVars, stopVars>>

-----------------------------------------------------------------------------
(* The client thread of the slot's job, in server_cancel_job.              *)

CancelMark(s) ==
    /\ s \in Flaky /\ pc[s] # "free" /\ ~cancelled[s]
    /\ cancelled' = [cancelled EXCEPT ![s] = TRUE]
    /\ UNCHANGED <<pc, todo, budget, recovered, errored, notified, prefillVars,
                   decodeVars, batchVars, modelVars, asleep, stopVars>>

(* The section under model_mu while slot->running is this job.  The client *)
(* repeats it every 100 ms until the job is done; the first time is the    *)
(* one that can change anything.                                           *)
CancelWithdraw(s) ==
    /\ pc[s] # "free" /\ cancelled[s] /\ ~notified[s]
    /\ notified' = [notified EXCEPT ![s] = TRUE]
    /\ \/ /\ CanWithdraw(s)
          /\ WithdrawDecode(s)
          /\ decode_done' = [decode_done EXCEPT ![s] = "interrupted"]
       \/ /\ ~CanWithdraw(s)
          /\ asleep' = {}
          /\ UNCHANGED <<decode_pending, pending_count, decode_done>>
    /\ UNCHANGED <<pc, todo, budget, recovered, errored, cancelled,
                   prefillVars, decode_in_flight, unkept, batchVars, modelVars,
                   stopVars>>

-----------------------------------------------------------------------------
(* The decode thread: decode_worker_main.                                  *)

DecoderGoto(step) == decoder' = step

DecoderSleep ==
    /\ Decoder \notin asleep
    /\ \/ decoder = "wait" /\ pending_count = 0 /\ ~model_stopping
       \/ /\ decoder = "coalesce" /\ ~model_stopping
          /\ pending_count < N /\ pending_count < active_generations
       \/ decoder = "collect" /\ model_busy
    /\ asleep' = asleep \cup {Decoder}
    /\ UNCHANGED <<jobVars, prefillVars, decodeVars, batchVars, modelVars,
                   stopVars>>

(* Fault: the decode thread exits when the signal arrives.                 *)
DecoderExitOnSignal ==
    /\ Decoder \notin asleep
    /\ decoder = "wait" \/ (decoder = "collect" /\ ~model_busy)
    /\ pending_count = 0 /\ stop
    /\ DecoderGoto("exited")
    /\ UNCHANGED <<jobVars, prefillVars, decodeVars, members, batch_rc, modelVars,
                   asleep, stopVars>>

DecoderExit ==
    /\ Decoder \notin asleep
    /\ decoder = "wait" \/ (decoder = "collect" /\ ~model_busy)
    /\ pending_count = 0 /\ model_stopping
    /\ DecoderGoto("exited")
    /\ UNCHANGED <<jobVars, prefillVars, decodeVars, members, batch_rc,
                   modelVars, asleep, stopVars>>

(* Some token is pending: give other generations a moment to add theirs.   *)
DecoderWake ==
    /\ Decoder \notin asleep
    /\ decoder = "wait" /\ pending_count > 0
    /\ DecoderGoto("coalesce")
    /\ UNCHANGED <<jobVars, prefillVars, decodeVars, members, batch_rc,
                   modelVars, asleep, stopVars>>

(* Every generation has submitted, or the server stops.                    *)
DecoderCoalesced ==
    /\ Decoder \notin asleep
    /\ decoder = "coalesce"
    /\ model_stopping \/ pending_count >= N \/ pending_count >= active_generations
    /\ DecoderGoto("collect")
    /\ UNCHANGED <<jobVars, prefillVars, decodeVars, members, batch_rc,
                   modelVars, asleep, stopVars>>

(* pthread_cond_timedwait returns ETIMEDOUT, or coalesce_us is 0.          *)
DecoderTimeout ==
    /\ decoder = "coalesce"
    /\ asleep' = asleep \ {Decoder}
    /\ DecoderGoto("collect")
    /\ UNCHANGED <<jobVars, prefillVars, decodeVars, members, batch_rc,
                   modelVars, stopVars>>

(* Take every pending token and the model.  All of them may have been      *)
(* withdrawn while the thread waited: then start over.                     *)
DecoderCollect ==
    /\ Decoder \notin asleep
    /\ decoder = "collect" /\ ~model_busy
    /\ ~(model_stopping /\ pending_count = 0)
    /\ members' = {s \in Slots : decode_pending[s]}
    /\ decode_pending' = [s \in Slots |-> FALSE]
    /\ decode_in_flight' = [s \in Slots |-> decode_pending[s] \/ decode_in_flight[s]]
    /\ pending_count' = pending_count - Cardinality(members')
    /\ \/ /\ members' = {} /\ DecoderGoto("wait")
          /\ UNCHANGED model_busy
       \/ /\ members' # {} /\ DecoderGoto("lock")
          /\ model_busy' = TRUE
    /\ UNCHANGED <<jobVars, prefillVars, decode_done, unkept, batch_rc,
                   active_generations, inference, asleep, stopVars>>

DecoderLock ==
    /\ decoder = "lock" /\ inference = Nobody
    /\ inference' = Decoder
    /\ DecoderGoto("eval")
    /\ UNCHANGED <<jobVars, prefillVars, decodeVars, members, batch_rc,
                   active_generations, model_busy, asleep, stopVars>>

(* ds4_sessions_eval_batch: on success every member's session has one more *)
(* token; on failure any of them may.                                      *)
DecoderEval ==
    /\ decoder = "eval"
    /\ inference' = Nobody
    /\ \/ batch_rc' = "ok" /\ unkept' = [s \in Slots |-> s \in members \/ unkept[s]]
       \/ /\ batch_rc' = "error"
          /\ \E part \in SUBSET members :
                unkept' = [s \in Slots |-> s \in part \/ unkept[s]]
    /\ DecoderGoto("publish")
    /\ UNCHANGED <<jobVars, prefillVars, decode_pending, decode_in_flight,
                   decode_done, pending_count, members, active_generations,
                   model_busy, asleep, stopVars>>

DecoderPublish ==
    /\ decoder = "publish"
    /\ model_busy' = FALSE
    /\ decode_in_flight' = [s \in Slots |-> s \notin members /\ decode_in_flight[s]]
    /\ decode_done' = [s \in Slots |-> IF s \in members THEN batch_rc ELSE decode_done[s]]
    /\ members' = {}
    /\ batch_rc' = "ok"
    /\ asleep' = {}
    /\ DecoderGoto("wait")
    /\ UNCHANGED <<jobVars, prefillVars, decode_pending, unkept, pending_count,
                   active_generations, inference, stopVars>>

-----------------------------------------------------------------------------
(* Shutdown.                                                               *)

(* stop_signal_handler: it sets the flag and wakes nobody.                 *)
StopSignal ==
    /\ ~stop
    /\ stop' = TRUE
    /\ UNCHANGED <<jobVars, prefillVars, decodeVars, batchVars, modelVars,
                   asleep, model_stopping>>

(* Fault: model_stopping is set without waking the decode thread.          *)
RequestDecodeStopQuietly ==
    /\ stop /\ ~model_stopping
    /\ \A s \in Slots : pc[s] = "free"
    /\ model_stopping' = TRUE
    /\ UNCHANGED <<jobVars, prefillVars, decodeVars, batchVars, modelVars, asleep, stop>>

(* server_request_decode_stop, after main has joined the slot threads.     *)
RequestDecodeStop ==
    /\ stop /\ ~model_stopping
    /\ \A s \in Slots : pc[s] = "free"
    /\ model_stopping' = TRUE
    /\ asleep' = {}
    /\ UNCHANGED <<jobVars, prefillVars, decodeVars, batchVars, modelVars,
                   stop>>

Terminated == decoder = "exited" /\ model_stopping /\ UNCHANGED vars

-----------------------------------------------------------------------------
(* What a slot thread does once it has a job.                              *)
SlotNext(s) ==
    \/ SyncPeek(s) \/ SyncInterrupted(s) \/ PrefillAnnounce(s)
    \/ PrefillSleep(s) \/ PrefillAbort(s) \/ PrefillGrant(s) \/ PrefillLock(s)
    \/ PrefillEval(s) \/ PrefillLeave(s) \/ SyncCancelled(s)
    \/ GenerationEnter(s) \/ DecodeLoopEnds(s) \/ EvalSubmit(s) \/ EvalSleep(s)
    \/ EvalWithdraw(s) \/ EvalReturn(s) \/ GenerationLeave(s)
    \/ Recover(s) \/ Respond(s) \/ GenerateEnd(s)

DecoderNext ==
    \/ DecoderSleep \/ DecoderExit \/ DecoderWake \/ DecoderCoalesced
    \/ DecoderTimeout \/ DecoderCollect \/ DecoderLock \/ DecoderEval
    \/ DecoderPublish

Next ==
    \/ \E s \in Slots : GenerateJob(s) \/ SlotNext(s) \/ CancelMark(s) \/ CancelWithdraw(s)
    \/ DecoderNext
    \/ StopSignal \/ RequestDecodeStop \/ Terminated

Spec == Init /\ [][Next]_vars

(* Every thread that can run runs, a thread that wants inference_mu for a  *)
(* moment gets it when it is released again and again (the owner of        *)
(* model_busy has it for the asking), and a client thread that has marked  *)
(* its job cancelled goes on to model_mu.  New jobs and the signal  *)
(* are free to happen or not.                                              *)
ThreadFairness ==
    /\ \A s \in Slots : WF_vars(SlotNext(s)) /\ SF_vars(SyncPeek(s))
    /\ \A s \in Flaky : WF_vars(CancelWithdraw(s))
    /\ WF_vars(DecoderNext)
    /\ WF_vars(RequestDecodeStop)

(* Clients do not disconnect for ever.                                     *)
FinitelyManyDisconnects ==
    <>[][\A s \in Slots : cancelled'[s] => cancelled[s]]_cancelled

FairSpec == Spec /\ ThreadFairness /\ FinitelyManyDisconnects

-----------------------------------------------------------------------------
(* Safety.                                                                 *)

(* Every variable has the type of the C field or local it stands for; the  *)
(* counters never go below zero.                                           *)
TypeOK ==
    /\ pc \in [Slots -> SlotSteps]
    /\ todo \in [Slots -> -1 .. MaxQuanta]
    /\ budget \in [Slots -> 0 .. MaxTokens]
    /\ recovered \in [Slots -> BOOLEAN]
    /\ errored \in [Slots -> BOOLEAN]
    /\ cancelled \in [Slots -> BOOLEAN]
    /\ notified \in [Slots -> BOOLEAN]
    /\ prefill_waiting \in [Slots -> BOOLEAN]
    /\ last_prefill_slot \in Slots
    /\ passed \in [Slots -> SUBSET Slots]
    /\ decode_pending \in [Slots -> BOOLEAN]
    /\ decode_in_flight \in [Slots -> BOOLEAN]
    /\ decode_done \in [Slots -> Codes \cup {"no"}]
    /\ unkept \in [Slots -> BOOLEAN]
    /\ pending_count \in Nat
    /\ active_generations \in Nat
    /\ model_busy \in BOOLEAN
    /\ inference \in Threads \cup {Nobody}
    /\ decoder \in DecoderSteps
    /\ members \in SUBSET Slots
    /\ batch_rc \in Codes
    /\ asleep \in SUBSET Threads
    /\ stop \in BOOLEAN
    /\ model_stopping \in BOOLEAN

(* The threads that own the model between taking model_busy and returning  *)
(* it.                                                                     *)
ModelOwners ==
    {s \in Slots : pc[s] \in {"plock", "prefill", "pleave"}}
    \cup {d \in {Decoder} : decoder \in {"lock", "eval", "publish"}}

(* model_busy is set exactly while one thread owns the model: a prefill    *)
(* quantum and a decode batch never overlap, and no path (abort, failure,  *)
(* cancellation) leaves the flag set behind it.                            *)
ModelExclusive ==
    /\ model_busy <=> ModelOwners # {}
    /\ \A a, b \in ModelOwners : a = b

(* s->decode_pending counts the slots with a pending token, whether they   *)
(* are withdrawn by the slot, withdrawn by a client or taken by the batch. *)
PendingCounted ==
    pending_count = Cardinality({s \in Slots : decode_pending[s]})

(* An in-flight batch owns the session until it completes: the slot's      *)
(* thread is still inside server_eval_token, cancelled or not, so the job  *)
(* on the client's stack and the session are not reused under the batch.   *)
InFlightHeld ==
    \A s \in Slots :
        /\ decode_in_flight[s] <=> s \in members
        /\ decode_in_flight[s] => pc[s] = "dwait" /\ ~decode_pending[s] /\ decode_done[s] = "no"
        /\ decode_pending[s] => pc[s] = "dwait" /\ decode_done[s] = "no"

(* When the decode loop samples its next token, the session holds exactly  *)
(* the tokens the loop has counted: a withdrawn token was not evaluated,   *)
(* an evaluated one was not reported as withdrawn.                         *)
SessionMatchesLoop ==
    \A s \in Slots : pc[s] = "dloop" => ~unkept[s]

(* The decode thread does not leave while a slot waits for its answer, nor *)
(* with tokens pending.                                                    *)
DecoderOutlivesRequests ==
    decoder = "exited" => \A s \in Slots : pc[s] = "free" /\ ~decode_pending[s]

(* s->active_generations counts the slots inside the decode loop, which is *)
(* what the coalescing wait and the mixed prefill quantum rely on.         *)
GenerationsCounted ==
    active_generations =
        Cardinality({s \in Slots : pc[s] \in {"dloop", "dwait", "gleave"}})

(* The two shared counters count what they are meant to count, through     *)
(* every submission, withdrawal, batch and end of a generation.            *)
CountersCorrect == PendingCounted /\ GenerationsCounted

-----------------------------------------------------------------------------
(* Action properties.                                                      *)

Granted(s) == pc[s] = "pwait" /\ pc'[s] = "plock"

(* Round robin: while a slot waits for a prefill quantum, no other slot    *)
(* gets two.                                                               *)
PrefillBypassedOnce ==
    [][\A s, t \in Slots :
         Granted(t) /\ prefill_waiting[s] /\ s # t => t \notin passed[s]]_vars

(* "Long prefills yield to active decoders": once a slot has submitted a   *)
(* token, no prefill quantum is granted before that token is taken.        *)
DecodersFirst ==
    [][\A s, t \in Slots : Granted(t) => ~decode_pending[s]]_vars

-----------------------------------------------------------------------------
(* Liveness, under FairSpec.                                               *)

(* Every request leaves the executor, whatever the other slots keep doing: *)
(* new requests may arrive forever, clients may disconnect at any point    *)
(* and the stop signal wakes nobody.                                       *)
EveryRequestEnds == \A s \in Slots : pc[s] # "free" ~> pc[s] = "free"

(* Once main asks for it, the decode thread exits.                         *)
DecoderStops == model_stopping ~> decoder = "exited"
=============================================================================
