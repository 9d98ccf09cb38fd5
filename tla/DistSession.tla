----------------------------- MODULE DistSession -----------------------------
(***************************************************************************)
(* Distributed inference: a coordinator evaluates the first layers of the  *)
(* model and sends the hidden state of each span through a route of one or *)
(* two workers that hold the remaining layers.  Every process keeps the KV *)
(* state of its layers and the token timeline it belongs to; a span is     *)
(* evaluated only if the hash of the worker's timeline is the one that the *)
(* coordinator expects.  Work to the head of a route travels on the        *)
(* control connection of that worker, work to the tail on a data           *)
(* connection that the head opens, and results travel back the same way.   *)
(*                                                                         *)
(* A call (ds4_session_sync or ds4_session_eval of a session of the        *)
(* coordinator) evaluates a span at a time, or a prompt of several spans   *)
(* by a pipeline of three threads; when it fails it replays the whole      *)
(* transcript once, by the same route or by another.                       *)
(*                                                                         *)
(* A span is one token, a hash is the sequence hashed, and a hidden state  *)
(* is the history it was computed from, None if two stages used different  *)
(* ones.  What is on a wire when its connection ends may still be read.    *)
(***************************************************************************)
EXTENDS FiniteSets, Integers, Sequences
SeqExt == INSTANCE SequencesExt

CONSTANTS
    Heads,      \* workers that hold the layers after the coordinator's
    Tails,      \* workers that hold the layers after those, if any remain
    Prompts,    \* prompts a caller may ask for
    Payloads,   \* histories of which a session was saved
    Tokens,     \* the vocabulary
    Samples,    \* tokens a caller may evaluate
    Rewinds,    \* the model's state can be cut with its timeline (GLM)
    Pipelines,  \* values of ~DS4_DIST_DISABLE_PREFILL_PIPELINE
    Window,     \* flow window: spans submitted and not answered
    Depth,      \* send depth: spans computed and not sent
    MaxLen,     \* bound on the timeline a token is added to
    MaxCalls,   \* bound on calls
    MaxFaults,  \* bound on failures
    None

ASSUME WorkerAssumption == Heads # {} /\ Heads \cap Tails = {}
ASSUME TokenAssumption ==
    /\ Prompts \cup Payloads \subseteq Seq(Tokens) \ {<<>>}
    /\ Samples \subseteq Tokens /\ None \notin Tokens
ASSUME BoundAssumption ==
    /\ {Window, Depth} \subseteq Nat \ {0}
    /\ {MaxLen, MaxCalls, MaxFaults} \subseteq Nat
    /\ Rewinds \in BOOLEAN /\ Pipelines \subseteq BOOLEAN /\ Pipelines # {}

VARIABLES
    pipelined,  \* whether long prompts are pipelined; configured
    tl, valid,  \* checkpoint and checkpoint_valid of the session
    logits,     \* the history that the session's logits belong to
    plan,       \* the route: ready, of the current generation, its workers,
                \* and whether its connection is the one its head has now
    box,        \* results left on the connection of a route that is not
    pc, call,   \* control point of the caller, and what it was asked
    req,        \* request_id
    pipe,       \* the pipelined prefill: its producer, sender and reader
    last,       \* how the last call ended
    reg,        \* workers the coordinator has an entry for
    conn,       \* control connections: open, shut (one end is done), off
    sess,       \* the session of each worker
    down, up,   \* work and results on the control connections of the heads
    fw,         \* forwarders: data connections of heads to tails
    late,       \* work that tails have read from data connections now closed
    calls, faults

sessionVars == <<tl, valid, logits>>
planVars == <<plan, box>>
callVars == <<pc, call, req, pipe, last>>
headVars == <<down, up>>
workerVars == <<reg, conn, sess, headVars, fw, late>>
counts == <<calls, faults>>
vars == <<pipelined, sessionVars, planVars, callVars, workerVars, counts>>

Workers == Heads \cup Tails

NoRoute == [ready |-> FALSE, fresh |-> FALSE, path |-> <<>>, alive |-> FALSE]
NoCall == [op |-> "none", tok |-> None, asked |-> <<>>, goal |-> <<>>,
           pos |-> 0, reset |-> FALSE, replay |-> FALSE]
NoPipe == [prod |-> "admit", slots |-> <<>>, first |-> 0, count |-> 0, sub |-> 0,
           comp |-> 0, done |-> FALSE, rrc |-> "ok", stop |-> FALSE, src |-> "ok",
           final |-> None]
NoLast == [ok |-> FALSE, op |-> "none", asked |-> <<>>]
NewSession == [kv |-> <<>>, valid |-> FALSE, hash |-> None]
NoForwarder == [st |-> "none", down |-> <<>>, up |-> <<>>, pend |-> <<>>]

Init ==
    /\ pipelined \in Pipelines
    /\ tl = <<>> /\ valid = FALSE /\ logits = None
    /\ plan = NoRoute /\ box = <<>>
    /\ pc = "idle" /\ call = NoCall /\ req = 1 /\ pipe = NoPipe /\ last = NoLast
    /\ reg = {} /\ conn = [w \in Workers |-> "off"]
    /\ sess = [w \in Workers |-> NewSession]
    /\ down = [h \in Heads |-> <<>>] /\ up = [h \in Heads |-> <<>>]
    /\ fw = [h \in Heads |-> [t \in Tails |-> NoForwarder]]
    /\ late = [t \in Tails |-> {}]
    /\ calls = 0 /\ faults = 0

-----------------------------------------------------------------------------
(* The coordinator's registry and routes.                                  *)

(* A worker connects and says HELLO: a new entry replaces the one it had.  *)
(* The code recognises it by host and layers, so that of two workers with  *)
(* the same layers on one host the last to connect would be the only one   *)
(* in the registry; here every worker is on a host of its own.             *)
Register(w) ==
    /\ conn[w] = "off"
    /\ conn' = [conn EXCEPT ![w] = "open"]
    /\ reg' = reg \cup {w}
    /\ plan' = [plan EXCEPT !.fresh = FALSE]
    /\ UNCHANGED <<pipelined, sessionVars, box, callVars, sess, headVars, fw, late, counts>>

(* The thread that polls a control connection sees its end.                *)
Unregister(w) ==
    /\ w \in reg /\ conn[w] # "open"
    /\ reg' = reg \ {w}
    /\ plan' = [plan EXCEPT !.fresh = FALSE]
    /\ UNCHANGED <<pipelined, sessionVars, box, callVars, conn, sess, headVars, fw, late, counts>>

(* Workers of one host, layers and port are one worker; among several that *)
(* hold the same layers the order is the one of a sort that may be any.    *)
Routes ==
    IF Tails = {} THEN {<<h>> : h \in reg \cap Heads}
    ELSE {<<h, t>> : h \in reg \cap Heads, t \in reg \cap Tails}

Planned == {[ready |-> TRUE, fresh |-> TRUE, path |-> r, alive |-> conn[r[1]] # "off"] : r \in Routes}

Current == plan.ready /\ plan.fresh

Shut(ws) == [w \in Workers |-> IF w \in ws /\ conn[w] = "open" THEN "shut" ELSE conn[w]]

(* shutdown of the connection that the route has to its head.              *)
ShutRoute == Shut(IF plan.alive THEN {plan.path[1]} ELSE {})

-----------------------------------------------------------------------------
(* Calls.                                                                  *)

Return(ok) ==
    /\ pc' = "idle" /\ call' = NoCall /\ pipe' = NoPipe
    /\ last' = [ok |-> ok, op |-> call.op, asked |-> call.asked]

(* The pipeline is used for more than one span.                            *)
Start(c) ==
    /\ call' = c /\ last' = NoLast
    /\ IF pipelined /\ Len(c.goal) - c.pos > 1
       THEN /\ pc' = "pipe"
            /\ pipe' = [NoPipe EXCEPT !.first = req, !.count = Len(c.goal) - c.pos]
       ELSE pc' = "span" /\ pipe' = NoPipe

(* dist_session_ensure_route at the start of a call: the route is kept     *)
(* while the registry is as it was when the route was made.                *)
Ensured == IF Current THEN {plan} ELSE Planned

EnsureRoute ==
    /\ plan' \in Ensured
    /\ box' = IF Current THEN box ELSE <<>>

NoRouteFor(op, asked) ==
    /\ Ensured = {}
    /\ plan' = NoRoute /\ box' = <<>>
    /\ last' = [ok |-> FALSE, op |-> op, asked |-> asked]
    /\ UNCHANGED <<pc, call, pipe>>

(* Fault: only the lengths are compared.                                   *)
ResumableByLength(p) == valid /\ Len(tl) <= Len(p)

Resumable(p) == valid /\ SeqExt!IsPrefix(tl, p)

CallSync(p) ==
    /\ pc = "idle" /\ calls < MaxCalls
    /\ calls' = calls + 1
    /\ \/ NoRouteFor("sync", p)
       \/ /\ EnsureRoute
          /\ Resumable(p) /\ Len(tl) = Len(p)
          /\ last' = [ok |-> TRUE, op |-> "sync", asked |-> p]
          /\ UNCHANGED <<pc, call, pipe>>
       \/ /\ EnsureRoute
          /\ ~(Resumable(p) /\ Len(tl) = Len(p))
          /\ Start([op |-> "sync", tok |-> None, asked |-> p, goal |-> p,
                    pos |-> IF Resumable(p) THEN Len(tl) ELSE 0,
                    reset |-> ~Resumable(p), replay |-> FALSE])
    /\ UNCHANGED <<pipelined, sessionVars, req, workerVars, faults>>

CallEval(t) ==
    LET asked == Append(tl, t) IN
    /\ pc = "idle" /\ calls < MaxCalls
    /\ valid /\ Len(tl) < MaxLen
    /\ calls' = calls + 1
    /\ \/ NoRouteFor("eval", asked)
       \/ /\ EnsureRoute
          /\ Start([op |-> "eval", tok |-> t, asked |-> asked, goal |-> asked,
                    pos |-> Len(tl), reset |-> FALSE, replay |-> FALSE])
    /\ UNCHANGED <<pipelined, sessionVars, req, workerVars, faults>>

(* The owner of the session cuts its timeline; a model whose state cannot  *)
(* be cut is left without a valid checkpoint.                              *)
Rewind ==
    /\ pc = "idle"
    /\ \E n \in 0 .. Len(tl) - 1 : tl' = SubSeq(tl, 1, n)
    /\ valid' = (valid /\ Rewinds)
    /\ last' = NoLast
    /\ UNCHANGED <<pipelined, logits, planVars, pc, call, req, pipe, workerVars, counts>>

-----------------------------------------------------------------------------
(* Evaluation of one span by the layers of one process.                    *)

(* A session without a valid checkpoint takes a span only at position 0.   *)
InPlace(s, n) == IF s.valid THEN Len(s.kv) = n ELSE n = 0

(* The coordinator's own layers: refused by the timeline, done, or failed. *)
Local(i, reset) ==
    LET s == IF reset THEN [kv |-> <<>>, valid |-> FALSE] ELSE [kv |-> tl, valid |-> valid]
    IN  IF ~InPlace(s, i) THEN {[kv |-> s.kv, valid |-> s.valid, ok |-> FALSE, fault |-> 0]}
        ELSE {[kv |-> Append(s.kv, call.goal[i + 1]), valid |-> TRUE, ok |-> TRUE, fault |-> 0]}
             \cup {[kv |-> s.kv, valid |-> FALSE, ok |-> FALSE, fault |-> 1] :
                        k \in {n \in {faults} : n < MaxFaults}}

LocalEval(o) == tl' = o.kv /\ valid' = o.valid /\ faults' = faults + o.fault

(* Fault: a reset leaves the hash of the session alone.                    *)
LoadedKeepsHash(s, m) ==
    IF m.reset THEN [s EXCEPT !.kv = <<>>, !.valid = FALSE]
    ELSE IF s.hash = None THEN [s EXCEPT !.hash = s.kv] ELSE s

(* A worker's: a session whose hash is not known hashes its own timeline,  *)
(* and work for another prefix is refused.                                 *)
Loaded(s, m) ==
    IF m.reset THEN [kv |-> <<>>, valid |-> FALSE, hash |-> <<>>]
    ELSE IF s.hash = None THEN [s EXCEPT !.hash = s.kv] ELSE s

Matches(s, m) == s.hash = m.prefix

Failed(s) == [s EXCEPT !.valid = FALSE, !.hash = None]

Evaluated(s, m) ==
    [kv |-> Append(s.kv, m.tok), valid |-> TRUE, hash |-> Append(m.prefix, m.tok)]

Remote(w, m) ==
    LET s == Loaded(sess[w], m)
    IN  IF ~Matches(s, m) THEN {[s |-> s, ok |-> FALSE, fault |-> 0]}
        ELSE IF ~InPlace(s, Len(m.prefix))
             THEN {[s |-> [s EXCEPT !.hash = None], ok |-> FALSE, fault |-> 0]}
        ELSE {[s |-> Evaluated(s, m), ok |-> TRUE, fault |-> 0]}
             \cup {[s |-> Failed(s), ok |-> FALSE, fault |-> 1] :
                        k \in {n \in {faults} : n < MaxFaults}}

RemoteEval(w, o) == sess' = [sess EXCEPT ![w] = o.s] /\ faults' = faults + o.fault

(* The history a hidden state stands for once a worker has added to it.    *)
Hidden(o, m) == IF m.hid = o.s.kv THEN m.hid ELSE None

ResultOf(o, m) ==
    [req |-> m.req, ok |-> o.ok, hash |-> IF o.ok THEN Append(m.prefix, m.tok) ELSE None,
     hid |-> IF o.ok THEN Hidden(o, m) ELSE None]

Error(r) == [req |-> r, ok |-> FALSE, hash |-> None, hid |-> None]

-----------------------------------------------------------------------------
(* The connection of a route, seen from the coordinator.                   *)

Work(i, reset, prefix, r, hid) ==
    [req |-> r, prefix |-> prefix, tok |-> call.goal[i + 1], reset |-> reset, hid |-> hid,
     next |-> IF Tails = {} THEN None ELSE plan.path[2]]

Ended == ~plan.alive \/ conn[plan.path[1]] # "open"

(* What is sent on a connection that has ended is lost.                    *)
Send(m) == down' = IF Ended THEN down ELSE [down EXCEPT ![plan.path[1]] = Append(@, m)]

Inbox == IF plan.alive THEN up[plan.path[1]] ELSE box

TakeResult ==
    IF plan.alive THEN up' = [up EXCEPT ![plan.path[1]] = Tail(@)] /\ box' = box
    ELSE box' = Tail(box) /\ up' = up

(* What dist_recv_result_alloc and its callers make of a result.           *)
Judge(r, id, hash) ==
    IF r.req # id THEN "broken"
    ELSE IF ~r.ok THEN "remote"
    ELSE IF r.hash # hash THEN "broken" ELSE "ok"

-----------------------------------------------------------------------------
(* One span at a time: dist_coordinator_eval_span.                         *)

Fail(rc) == pc' = rc /\ pipe' = NoPipe /\ UNCHANGED <<call, last>>

SpanSend ==
    /\ pc = "span"
    /\ LET i == call.pos
           reset == call.reset /\ i = 0
           prefix == IF reset THEN <<>> ELSE SubSeq(tl, 1, i)
       IN  \E o \in Local(i, reset) :
              /\ LocalEval(o)
              /\ IF o.ok THEN /\ Send(Work(i, reset, prefix, req, o.kv))
                              /\ pc' = "wait" /\ UNCHANGED <<call, pipe, last>>
                 ELSE Fail("broken") /\ UNCHANGED down
    /\ req' = req + 1
    /\ UNCHANGED <<pipelined, logits, planVars, reg, conn, sess, up, fw, late, calls>>

(* The result of the span, or the end of the connection.                   *)
SpanRecv ==
    /\ pc = "wait" /\ Inbox # <<>>
    /\ TakeResult
    /\ LET r == Head(Inbox)
           n == call.pos + 1
           rc == Judge(r, req - 1, tl)
       IN  IF rc # "ok" THEN Fail(rc) /\ UNCHANGED logits
           ELSE /\ logits' = r.hid
                /\ IF n = Len(call.goal) THEN Return(TRUE)
                   ELSE pc' = "span" /\ call' = [call EXCEPT !.pos = n] /\ UNCHANGED <<pipe, last>>
    /\ UNCHANGED <<pipelined, tl, valid, plan, req, reg, conn, sess, down, fw, late, counts>>

SpanEnd ==
    /\ pc = "wait" /\ Inbox = <<>> /\ Ended
    /\ Fail("broken")
    /\ UNCHANGED <<pipelined, sessionVars, planVars, req, workerVars, counts>>

-----------------------------------------------------------------------------
(* The pipelined prefill: dist_coordinator_prefill_prompt_pipelined, which *)
(* computes spans, and its two threads, which send them and read results.  *)

pipeRest == <<pipelined, plan, last, reg, sess, fw, late, calls>>

(* The flow window: room for another span, or a reader that has stopped.   *)
PipeAdmit ==
    /\ pc = "pipe" /\ pipe.prod = "admit"
    /\ pipe.done \/ pipe.sub < pipe.comp + Window
    /\ pipe' = [pipe EXCEPT !.prod = IF pipe.done THEN "cancel" ELSE "slot"]
    /\ UNCHANGED <<pipeRest, sessionVars, box, pc, call, req, conn, headVars, faults>>

(* Fault: a span is computed without waiting for a slot.                   *)
PipeSubmitNoWait ==
    /\ pc = "pipe" /\ pipe.prod = "slot"
    /\ LET i == call.pos + pipe.sub
           reset == call.reset /\ pipe.sub = 0
       IN  IF pipe.stop
           THEN pipe' = [pipe EXCEPT !.prod = "cancel"] /\ UNCHANGED <<tl, valid, req, faults>>
           ELSE \E o \in Local(i, reset) :
                   /\ LocalEval(o)
                   /\ IF ~o.ok THEN pipe' = [pipe EXCEPT !.prod = "cancel"] /\ UNCHANGED req
                      ELSE /\ pipe' = [pipe EXCEPT
                                !.slots = Append(@, Work(i, reset, SubSeq(call.goal, 1, i), req, o.kv)),
                                !.sub = @ + 1,
                                !.prod = IF pipe.sub + 1 = pipe.count THEN "finish" ELSE "admit"]
                           /\ req' = req + 1
    /\ UNCHANGED <<pipeRest, logits, box, pc, call, conn, headVars>>

(* A send slot, the coordinator's layers, and the span is queued.          *)
PipeSubmit ==
    /\ pc = "pipe" /\ pipe.prod = "slot"
    /\ pipe.stop \/ Len(pipe.slots) < Depth
    /\ LET i == call.pos + pipe.sub
           reset == call.reset /\ pipe.sub = 0
       IN  IF pipe.stop
           THEN pipe' = [pipe EXCEPT !.prod = "cancel"] /\ UNCHANGED <<tl, valid, req, faults>>
           ELSE \E o \in Local(i, reset) :
                   /\ LocalEval(o)
                   /\ IF ~o.ok THEN pipe' = [pipe EXCEPT !.prod = "cancel"] /\ UNCHANGED req
                      ELSE /\ pipe' = [pipe EXCEPT
                                !.slots = Append(@, Work(i, reset, SubSeq(call.goal, 1, i), req, o.kv)),
                                !.sub = @ + 1,
                                !.prod = IF pipe.sub + 1 = pipe.count THEN "finish" ELSE "admit"]
                           /\ req' = req + 1
    /\ UNCHANGED <<pipeRest, logits, box, pc, call, conn, headVars>>

(* The sender, which stops at the first span it cannot send.               *)
PipeSend ==
    /\ pc = "pipe" /\ ~pipe.stop /\ pipe.slots # <<>>
    /\ \/ /\ Send(Head(pipe.slots))
          /\ pipe' = [pipe EXCEPT !.slots = Tail(@)]
          /\ UNCHANGED conn
       \/ /\ Ended
          /\ pipe' = [pipe EXCEPT !.src = "broken", !.stop = TRUE]
          /\ conn' = ShutRoute /\ UNCHANGED down
    /\ UNCHANGED <<pipeRest, sessionVars, box, pc, call, req, up, faults>>

(* Fault: the reader leaves the connection open.                           *)
ReaderStopsOpen(rc) ==
    /\ pipe' = [pipe EXCEPT !.rrc = rc, !.done = TRUE]
    /\ UNCHANGED conn

(* The reader, which ends the connection at the first result it rejects.   *)
ReaderStops(rc) ==
    /\ pipe' = [pipe EXCEPT !.rrc = rc, !.done = TRUE]
    /\ conn' = ShutRoute

(* Fault: the logits kept are those of the first span.                     *)
PipeReadFirstLogits ==
    /\ pc = "pipe" /\ ~pipe.done /\ Inbox # <<>>
    /\ TakeResult
    /\ LET r == Head(Inbox)
           n == pipe.comp + 1
           rc == Judge(r, pipe.first + pipe.comp, SubSeq(call.goal, 1, call.pos + n))
       IN  IF rc # "ok" THEN ReaderStops(rc)
           ELSE /\ pipe' = [pipe EXCEPT !.comp = n, !.done = n = pipe.count,
                                        !.final = IF n = 1 THEN r.hid ELSE @]
                /\ UNCHANGED conn
    /\ UNCHANGED <<pipeRest, sessionVars, pc, call, req, down, faults>>

(* The logits of the last span are kept.                                   *)
PipeRead ==
    /\ pc = "pipe" /\ ~pipe.done /\ Inbox # <<>>
    /\ TakeResult
    /\ LET r == Head(Inbox)
           n == pipe.comp + 1
           rc == Judge(r, pipe.first + pipe.comp, SubSeq(call.goal, 1, call.pos + n))
       IN  IF rc # "ok" THEN ReaderStops(rc)
           ELSE /\ pipe' = [pipe EXCEPT !.comp = n, !.done = n = pipe.count,
                                        !.final = IF n = pipe.count THEN r.hid ELSE None]
                /\ UNCHANGED conn
    /\ UNCHANGED <<pipeRest, sessionVars, pc, call, req, down, faults>>

PipeReadEnd ==
    /\ pc = "pipe" /\ ~pipe.done /\ Inbox = <<>> /\ Ended
    /\ ReaderStops("broken")
    /\ UNCHANGED <<pipeRest, sessionVars, box, pc, call, req, headVars, faults>>

(* Fault: the sender is stopped, but nothing wakes the reader.             *)
PipeCancelQuietly ==
    /\ pc = "pipe" /\ pipe.prod = "cancel"
    /\ pipe' = [pipe EXCEPT !.prod = "join", !.stop = TRUE, !.src = "broken"]
    /\ UNCHANGED <<pipeRest, sessionVars, box, pc, call, req, conn, headVars, faults>>

(* dist_prefill_sender_cancel: the reader is woken by the end of the       *)
(* connection.                                                             *)
PipeCancel ==
    /\ pc = "pipe" /\ pipe.prod = "cancel"
    /\ pipe' = [pipe EXCEPT !.prod = "join", !.stop = TRUE, !.src = "broken"]
    /\ conn' = ShutRoute
    /\ UNCHANGED <<pipeRest, sessionVars, box, pc, call, req, headVars, faults>>

(* Both threads are joined.                                                *)
PipeJoin ==
    /\ pc = "pipe" /\ pipe.prod \in {"finish", "join"}
    /\ pipe.stop \/ pipe.slots = <<>>
    /\ pipe.done
    /\ LET rc == IF pipe.rrc # "ok" THEN pipe.rrc ELSE pipe.src
       IN  IF rc = "ok" THEN logits' = pipe.final /\ Return(TRUE)
           ELSE Fail(rc) /\ UNCHANGED logits
    /\ UNCHANGED <<pipelined, tl, valid, planVars, req, workerVars, counts>>

-----------------------------------------------------------------------------
(* Recovery: dist_coordinator_rebuild_from_transcript, once for a call.    *)

(* The transcript to replay.  A token that ds4_dist_session_eval was asked *)
(* for is added to the checkpoint of the session as it is now.             *)
Transcript == IF call.op = "eval" THEN Append(tl, call.tok) ELSE call.goal

Replay(goal) ==
    Start([call EXCEPT !.goal = goal, !.pos = 0, !.reset = TRUE, !.replay = TRUE])

(* A worker reported an error: the route is kept.                          *)
ReplayOnRoute ==
    /\ pc = "remote" /\ ~call.replay
    /\ Replay(Transcript)
    /\ UNCHANGED <<pipelined, sessionVars, planVars, req, workerVars, counts>>

(* The route failed: its workers are forgotten and disconnected.           *)
ForgetRoute ==
    LET ws == {w \in reg : \E i \in DOMAIN plan.path : plan.path[i] = w}
    IN  /\ pc = "broken" /\ ~call.replay
        /\ reg' = reg \ ws
        /\ conn' = Shut(ws \cup IF plan.alive THEN {plan.path[1]} ELSE {})
        /\ plan' = NoRoute /\ box' = <<>>
        /\ call' = [call EXCEPT !.goal = Transcript]
        /\ pc' = "reroute"
        /\ UNCHANGED <<pipelined, sessionVars, req, pipe, last, sess, headVars, fw, late, counts>>

Reroute ==
    /\ pc = "reroute"
    /\ \/ plan' \in Planned /\ Replay(call.goal)
       \/ Planned = {} /\ plan' = NoRoute /\ Return(FALSE)
    /\ UNCHANGED <<pipelined, sessionVars, box, req, workerVars, counts>>

ReplayFailed ==
    /\ pc \in {"remote", "broken"} /\ call.replay
    /\ plan' = [plan EXCEPT !.ready = FALSE]
    /\ Return(FALSE)
    /\ UNCHANGED <<pipelined, sessionVars, box, req, workerVars, counts>>

-----------------------------------------------------------------------------
(* ds4_dist_session_load_payload: a saved session is cut into the layers   *)
(* of the route.  The coordinator loads its own, then each worker is sent  *)
(* its own on a connection made for it; the logits come last.  A caller    *)
(* whose load fails invalidates the session.                               *)

LoadFailed ==
    /\ tl' = <<>> /\ valid' = FALSE
    /\ Return(FALSE)
    /\ UNCHANGED logits

CallLoad(p) ==
    /\ pc = "idle" /\ calls < MaxCalls
    /\ calls' = calls + 1
    /\ \/ NoRouteFor("load", p) /\ tl' = <<>> /\ valid' = FALSE
       \/ /\ EnsureRoute
          /\ pc' = "load" /\ pipe' = NoPipe /\ last' = NoLast
          /\ call' = [NoCall EXCEPT !.op = "load", !.asked = p, !.goal = p]
          /\ UNCHANGED <<tl, valid>>
    /\ UNCHANGED <<pipelined, logits, req, workerVars, faults>>

LoadLocal ==
    /\ pc = "load" /\ call.pos = 0
    /\ \/ /\ tl' = call.goal /\ valid' = TRUE
          /\ call' = [call EXCEPT !.pos = 1]
          /\ UNCHANGED <<logits, pc, pipe, last, faults>>
       \/ /\ faults < MaxFaults /\ faults' = faults + 1
          /\ LoadFailed
    /\ UNCHANGED <<pipelined, planVars, req, workerVars, calls>>

(* What a worker makes of its part: restored, or failed before or after    *)
(* the state of the session was touched.                                   *)
Restored(s, p) ==
    {[s |-> [kv |-> p, valid |-> TRUE, hash |-> p], ok |-> TRUE],
     [s |-> [s EXCEPT !.hash = None], ok |-> FALSE],
     [s |-> Failed(s), ok |-> FALSE]}

(* A worker that restored its part and whose answer is lost has it.        *)
LoadShard ==
    LET w == plan.path[call.pos] IN
    /\ pc = "load" /\ call.pos > 0
    /\ \/ \E o \in Restored(sess[w], call.goal), lost \in BOOLEAN :
            /\ sess' = [sess EXCEPT ![w] = o.s]
            /\ IF o.ok /\ ~lost
               THEN /\ UNCHANGED <<tl, valid, faults>>
                    /\ IF call.pos = Len(plan.path) THEN logits' = call.goal /\ Return(TRUE)
                       ELSE /\ call' = [call EXCEPT !.pos = @ + 1]
                            /\ UNCHANGED <<logits, pc, pipe, last>>
               ELSE /\ faults < MaxFaults /\ faults' = faults + 1
                    /\ LoadFailed
       \/ /\ conn[w] = "off"
          /\ LoadFailed /\ UNCHANGED <<sess, faults>>
    /\ UNCHANGED <<pipelined, planVars, req, reg, conn, headVars, fw, late, calls>>

-----------------------------------------------------------------------------
(* Workers.                                                                *)

coordVars == <<pipelined, sessionVars, callVars>>

(* A result for the coordinator on the control connection of a head.       *)
Reply(h, r) == up' = IF conn[h] = "open" THEN [up EXCEPT ![h] = Append(@, r)] ELSE up

Forward(h, t, f) == fw' = [fw EXCEPT ![h][t] = f]

(* A head takes its next work: it answers itself when it is the last stage *)
(* or fails; else the work goes on to the tail of the route.  A forwarder  *)
(* whose relay has ended takes nothing, and one whose connection broke     *)
(* takes it or ends the control connection.                                *)
HeadWork(h) ==
    /\ down[h] # <<>>
    /\ down' = [down EXCEPT ![h] = Tail(@)]
    /\ LET m == Head(down[h]) IN
       \E o \in Remote(h, m) :
          /\ RemoteEval(h, o)
          /\ \/ /\ ~o.ok \/ m.next = None
                /\ Reply(h, ResultOf(o, m)) /\ UNCHANGED <<fw, conn>>
             \/ /\ o.ok /\ m.next # None
                /\ LET t == m.next
                       f == fw[h][t]
                       sent == [f EXCEPT !.pend = Append(@, m.req),
                                         !.st = IF @ = "none" THEN "open" ELSE @,
                                         !.down = IF f.st = "dead" THEN @
                                                  ELSE Append(@, [m EXCEPT !.hid = Hidden(o, m)])]
                   IN  \/ /\ f.st # "closed"
                          /\ Forward(h, t, sent) /\ UNCHANGED <<up, conn>>
                       \/ /\ f.st = "none" /\ conn[t] = "off"
                          /\ Reply(h, Error(m.req)) /\ UNCHANGED <<fw, conn>>
                       \/ /\ f.st \in {"dead", "closed"}
                          /\ Reply(h, Error(m.req))
                          /\ conn' = Shut({h}) /\ UNCHANGED fw
    /\ UNCHANGED <<coordVars, planVars, reg, late, calls>>

(* The relay thread of a forwarder returns results in the order of the     *)
(* requests.  At the end of the data connection, and at a result of        *)
(* another request than the first one that is open, it answers for that    *)
(* request and ends the control connection.                                *)
Relay(h, t) ==
    LET f == fw[h][t] IN
    /\ f.up # <<>>
    /\ IF Head(f.up).req = Head(f.pend)
       THEN /\ Forward(h, t, [f EXCEPT !.up = Tail(@), !.pend = Tail(@)])
            /\ Reply(h, Head(f.up))
            /\ UNCHANGED <<conn, late>>
       ELSE /\ Forward(h, t, [f EXCEPT !.st = "closed", !.down = <<>>, !.up = <<>>, !.pend = <<>>])
            /\ Reply(h, Error(Head(f.pend)))
            /\ conn' = Shut({h})
            /\ late' = [late EXCEPT ![t] = @ \cup ({f.down} \ {<<>>})]
    /\ UNCHANGED <<coordVars, planVars, reg, sess, down, counts>>

RelayEnd(h, t) ==
    LET f == fw[h][t] IN
    /\ f.st = "dead" /\ f.up = <<>>
    /\ Forward(h, t, [f EXCEPT !.st = "closed", !.pend = <<>>])
    /\ IF f.pend # <<>> THEN Reply(h, Error(Head(f.pend))) ELSE UNCHANGED up
    /\ conn' = Shut({h})
    /\ UNCHANGED <<coordVars, planVars, reg, sess, down, late, counts>>

TailWork(h, t) ==
    LET f == fw[h][t]
        m == Head(f.down)
    IN  /\ f.down # <<>>
        /\ \E o \in Remote(t, m) :
              /\ RemoteEval(t, o)
              /\ Forward(h, t, [f EXCEPT !.down = Tail(@), !.up = Append(@, ResultOf(o, m))])
        /\ UNCHANGED <<coordVars, planVars, reg, conn, headVars, late, calls>>

(* The thread of a data connection that has ended still evaluates what it  *)
(* had read.                                                               *)
LateWork(t, q) ==
    /\ \E o \in Remote(t, Head(q)) : RemoteEval(t, o)
    /\ late' = [late EXCEPT ![t] = (@ \ {q}) \cup ({Tail(q)} \ {<<>>})]
    /\ UNCHANGED <<coordVars, planVars, reg, conn, headVars, fw, calls>>

(* A worker's control connection is gone: its forwarders are destroyed and *)
(* its sessions cleared.  The route may still read what was sent on it.    *)
LeftBehind(h) ==
    [t \in Tails |-> late[t] \cup ({fw[h][t].down} \ {<<>>})]

Gone(h) ==
    /\ down' = [down EXCEPT ![h] = <<>>] /\ up' = [up EXCEPT ![h] = <<>>]
    /\ fw' = [fw EXCEPT ![h] = [t \in Tails |-> NoForwarder]]
    /\ late' = LeftBehind(h)
    /\ IF plan.alive /\ plan.path[1] = h
       THEN plan' = [plan EXCEPT !.alive = FALSE] /\ box' = up[h]
       ELSE UNCHANGED planVars

Disconnect(w) ==
    /\ conn[w] = "shut"
    /\ conn' = [conn EXCEPT ![w] = "off"]
    /\ sess' = [sess EXCEPT ![w] = NewSession]
    /\ IF w \in Heads THEN Gone(w) ELSE UNCHANGED <<planVars, headVars, fw, late>>
    /\ UNCHANGED <<coordVars, reg, counts>>

-----------------------------------------------------------------------------
(* Failures.                                                               *)

Fault == faults < MaxFaults /\ faults' = faults + 1 /\ UNCHANGED calls

(* A control connection breaks; for a head this is what its death is too.  *)
BreakControl(w) ==
    /\ conn[w] = "open" /\ Fault
    /\ conn' = Shut({w})
    /\ UNCHANGED <<coordVars, planVars, reg, sess, headVars, fw, late>>

BreakData(h, t) ==
    /\ fw[h][t].st = "open" /\ Fault
    /\ Forward(h, t, [fw[h][t] EXCEPT !.st = "dead", !.down = <<>>])
    /\ late' = [late EXCEPT ![t] = @ \cup ({fw[h][t].down} \ {<<>>})]
    /\ UNCHANGED <<coordVars, planVars, reg, conn, sess, headVars>>

(* A tail is killed; it will start again.                                  *)
Die(t) ==
    /\ conn[t] # "off" /\ Fault
    /\ conn' = [conn EXCEPT ![t] = "off"]
    /\ sess' = [sess EXCEPT ![t] = NewSession]
    /\ fw' = [h \in Heads |-> IF fw[h][t].st = "open"
                              THEN [fw[h] EXCEPT ![t].st = "dead", ![t].down = <<>>] ELSE fw[h]]
    /\ late' = [late EXCEPT ![t] = {}]
    /\ UNCHANGED <<coordVars, planVars, reg, headVars>>

-----------------------------------------------------------------------------
Caller ==
    \/ \E p \in Prompts : CallSync(p)
    \/ \E t \in Samples : CallEval(t)
    \/ \E p \in Payloads : CallLoad(p)
    \/ Rewind

Coordinator == SpanSend \/ SpanRecv \/ SpanEnd \/ ReplayOnRoute \/ ForgetRoute \/ Reroute \/ ReplayFailed
               \/ LoadLocal \/ LoadShard

Producer == PipeAdmit \/ PipeSubmit \/ PipeCancel \/ PipeJoin
Reader == PipeRead \/ PipeReadEnd

Forwarder(h, t) == Relay(h, t) \/ RelayEnd(h, t)

Failures ==
    \/ \E w \in Workers : BreakControl(w)
    \/ \E h \in Heads, t \in Tails : BreakData(h, t)
    \/ \E t \in Tails : Die(t)

Next ==
    \/ Caller \/ Coordinator \/ Producer \/ PipeSend \/ Reader
    \/ \E w \in Workers : Register(w) \/ Unregister(w) \/ Disconnect(w)
    \/ \E h \in Heads : HeadWork(h)
    \/ \E h \in Heads, t \in Tails : Forwarder(h, t) \/ TailWork(h, t)
    \/ \E t \in Tails : \E q \in late[t] : LateWork(t, q)
    \/ Failures

(* Every thread of every process runs; callers and failures do as they     *)
(* like.                                                                   *)
Fairness ==
    /\ WF_vars(Coordinator) /\ WF_vars(Producer) /\ WF_vars(PipeSend) /\ WF_vars(Reader)
    /\ \A w \in Workers : WF_vars(Register(w)) /\ WF_vars(Unregister(w)) /\ WF_vars(Disconnect(w))
    /\ \A h \in Heads : WF_vars(HeadWork(h))
    /\ \A h \in Heads, t \in Tails : WF_vars(Forwarder(h, t)) /\ WF_vars(TailWork(h, t))

Spec == Init /\ [][Next]_vars

FairSpec == Spec /\ Fairness

-----------------------------------------------------------------------------
(* The properties.                                                         *)

Histories == Seq(Tokens)
Results == [req : Nat, ok : BOOLEAN, hash : Histories \cup {None}, hid : Histories \cup {None}]
Works == [req : Nat, prefix : Histories, tok : Tokens, reset : BOOLEAN,
          hid : Histories \cup {None}, next : Tails \cup {None}]
Rcs == {"ok", "remote", "broken"}

(* The types, and the bounds: at most Depth spans are computed and not     *)
(* sent, at most Window of them are not answered (ds4_dist_prefill_sender, *)
(* dist_prefill_reader_wait_flow_window).                                  *)
TypeOK ==
    /\ pipelined \in BOOLEAN
    /\ tl \in Histories /\ valid \in BOOLEAN /\ logits \in Histories \cup {None}
    /\ plan \in [ready : BOOLEAN, fresh : BOOLEAN, path : Seq(Workers), alive : BOOLEAN]
    /\ box \in Seq(Results)
    /\ pc \in {"idle", "span", "wait", "pipe", "remote", "broken", "reroute", "load"}
    /\ call \in [op : {"none", "sync", "eval", "load"}, tok : Tokens \cup {None}, asked : Histories,
                 goal : Histories, pos : Nat, reset : BOOLEAN, replay : BOOLEAN]
    /\ req \in Nat \ {0}
    /\ pipe \in [prod : {"admit", "slot", "finish", "cancel", "join"}, slots : Seq(Works),
                 first : Nat, count : Nat, sub : Nat, comp : Nat, done : BOOLEAN, rrc : Rcs,
                 stop : BOOLEAN, src : Rcs, final : Histories \cup {None}]
    /\ Len(pipe.slots) <= Depth /\ pipe.sub - pipe.comp <= Window
    /\ last \in [ok : BOOLEAN, op : {"none", "sync", "eval", "load"}, asked : Histories]
    /\ reg \subseteq Workers
    /\ conn \in [Workers -> {"open", "shut", "off"}]
    /\ sess \in [Workers -> [kv : Histories, valid : BOOLEAN, hash : Histories \cup {None}]]
    /\ down \in [Heads -> Seq(Works)] /\ up \in [Heads -> Seq(Results)]
    /\ fw \in [Heads -> [Tails -> [st : {"none", "open", "dead", "closed"}, down : Seq(Works),
                                   up : Seq(Results), pend : Seq(Nat)]]]
    /\ \A t \in Tails : late[t] \subseteq Seq(Works) \ {<<>>}
    /\ calls \in 0 .. MaxCalls /\ faults \in 0 .. MaxFaults

(* A hash that a worker keeps is the hash of its timeline, whatever failed *)
(* before it: it is what makes a worker refuse work that its KV state is   *)
(* not the prefix of (dist_worker_process_work_payload).                   *)
HashIsTimeline ==
    \A w \in Workers : sess[w].hash # None => sess[w].hash = sess[w].kv

(* Between calls nothing of an earlier call is on the control connection   *)
(* of a head, so that the next call cannot take a result of another one    *)
(* (a pipelined prefill that fails ends the connection it leaves spans on).*)
QuietBetweenCalls ==
    pc = "idle" => \A h \in Heads : conn[h] = "open" => down[h] = <<>> /\ up[h] = <<>>

(* A sync that succeeds leaves the session with the prompt it was asked    *)
(* for, replayed or not (ds4_dist_session_sync), and a load with the       *)
(* history that was saved (ds4_dist_session_load_payload).                 *)
SyncDelivers == pc = "idle" /\ last.ok /\ last.op \in {"sync", "load"} => valid /\ tl = last.asked

(* An eval that succeeds leaves the session with the token added once      *)
(* (ds4_dist_session_eval).                                                *)
EvalDelivers == pc = "idle" /\ last.ok /\ last.op = "eval" => valid /\ tl = last.asked

(* Logits that a call accepts were computed by all stages from one         *)
(* history, the timeline of the session (dist_coordinator_eval_remote_on_fd*)
(* and the pipelined prefill).                                             *)
LogitsOfTimeline == [][logits' # logits => logits' = tl']_vars

(* Whatever breaks, a call returns: no thread of the coordinator waits for *)
(* a result, a slot or room in the window that cannot come.                *)
CallReturns == pc # "idle" ~> pc = "idle"
=============================================================================
