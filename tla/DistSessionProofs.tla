-------------------------- MODULE DistSessionProofs --------------------------
(***************************************************************************)
(* The safety of DistSession for any workers, prompts, windows and         *)
(* failures.  IInv is the inductive invariant: what every message carries, *)
(* how far the call has come and what the session then holds, what a       *)
(* forwarder owes, and how many answers a connection still owes the call.  *)
(***************************************************************************)
EXTENDS DistSession, SequenceTheorems, TLAPS

(* Work carries the state of the history it extends, and an answer the     *)
(* state of the history it names.                                          *)
GoodWorks == {m \in Works : m.hid = Append(m.prefix, m.tok)}
GoodResults == {r \in Results : r.ok => r.hid = r.hash}

Plans == [ready : BOOLEAN, fresh : BOOLEAN, path : Seq(Workers), alive : BOOLEAN]
Ops == {"none", "sync", "eval", "load"}
Calls == [op : Ops, tok : Tokens \cup {None}, asked : Histories, goal : Histories, pos : Nat,
          reset : BOOLEAN, replay : BOOLEAN]
Pipes == [prod : {"admit", "slot", "finish", "cancel", "join"}, slots : Seq(GoodWorks),
          first : Nat, count : Nat, sub : Nat, comp : Nat, done : BOOLEAN, rrc : Rcs,
          stop : BOOLEAN, src : Rcs, final : Histories \cup {None}]
Lasts == [ok : BOOLEAN, op : Ops, asked : Histories]
Sessions == [kv : Histories, valid : BOOLEAN, hash : Histories \cup {None}]
Forwarders == [st : {"none", "open", "dead", "closed"}, down : Seq(GoodWorks),
               up : Seq(GoodResults), pend : Seq(Nat)]

CallerTypes ==
    /\ pipelined \in BOOLEAN
    /\ tl \in Histories /\ valid \in BOOLEAN /\ logits \in Histories \cup {None}
    /\ plan \in Plans
    /\ pc \in {"idle", "span", "wait", "pipe", "remote", "broken", "reroute", "load"}
    /\ call \in Calls /\ req \in Nat \ {0} /\ pipe \in Pipes /\ last \in Lasts
    /\ calls \in 0 .. MaxCalls /\ faults \in 0 .. MaxFaults

WorkerTypes ==
    /\ reg \in SUBSET Workers /\ conn \in [Workers -> {"open", "shut", "off"}]
    /\ sess \in [Workers -> Sessions]
    /\ box \in Seq(GoodResults)
    /\ down \in [Heads -> Seq(GoodWorks)] /\ up \in [Heads -> Seq(GoodResults)]
    /\ fw \in [Heads -> [Tails -> Forwarders]]
    /\ late \in [Tails -> SUBSET (Seq(GoodWorks) \ {<<>>})]

(* A route is a head, and a tail where the model has layers for one.       *)
IsRoute(r) ==
    /\ r \in Seq(Workers) /\ r[1] \in Heads
    /\ Len(r) = IF Tails = {} THEN 1 ELSE 2
    /\ Tails # {} => r[2] \in Tails

RouteInv ==
    /\ plan.path # <<>> => IsRoute(plan.path)
    /\ plan.ready \/ plan.alive => plan.path # <<>>
    /\ pc \in {"span", "wait", "pipe", "load", "remote"} => plan.path # <<>>
    /\ plan.alive => conn[plan.path[1]] # "off"

(* How much of its goal a call has evaluated.                              *)
SpanInv ==
    /\ pc \in {"span", "wait"} => call.pos < Len(call.goal)
    /\ pc = "span" /\ ~(call.reset /\ call.pos = 0) =>
         valid /\ tl = SubSeq(call.goal, 1, call.pos)
    /\ pc = "wait" => valid /\ tl = SubSeq(call.goal, 1, call.pos + 1)

PipeInv ==
    pc = "pipe" =>
        /\ pipe.count = Len(call.goal) - call.pos
        /\ call.reset => call.pos = 0
        /\ pipe.prod \in {"admit", "slot"} =>
             /\ pipe.sub < pipe.count
             /\ ~(call.reset /\ pipe.sub = 0) =>
                  valid /\ tl = SubSeq(call.goal, 1, call.pos + pipe.sub)
        /\ pipe.prod = "finish" => pipe.sub = pipe.count /\ valid /\ tl = call.goal
        /\ pipe.prod = "join" => pipe.src # "ok"
        /\ pipe.src # "ok" => pipe.stop
        /\ ~pipe.done => pipe.comp < pipe.count
        /\ pipe.done /\ pipe.rrc = "ok" => pipe.comp = pipe.count /\ pipe.final = call.goal

WindowInv ==
    /\ pc # "pipe" => pipe = NoPipe
    /\ Len(pipe.slots) <= Depth /\ pipe.sub - pipe.comp <= Window
    /\ pipe.prod = "slot" => pipe.sub - pipe.comp < Window

LoadInv ==
    /\ pc = "load" =>
        /\ call.op = "load" /\ call.pos <= Len(plan.path)
        /\ call.pos > 0 => valid /\ tl = call.goal
    /\ call.op # "eval" => call.goal = call.asked
    /\ call.op = "eval" => call.tok \in Tokens
    /\ pc # "idle" /\ call.op # "eval" => call.goal # <<>>
    /\ pc = "reroute" => call.goal # <<>>

(* A forwarder owes an answer for each piece of work and each result it    *)
(* has; at the end of its data connection nothing is left to evaluate.     *)
Owes(d, u, p) == Len(d) + Len(u) <= Len(p)

Owing(f) ==
    /\ Owes(f.down, f.up, f.pend)
    /\ f.st \in {"dead", "closed"} => f.down = <<>>
    /\ f.st = "closed" => f.up = <<>>

ForwarderInv == \A h \in Heads, t \in Tails : Owing(fw[h][t])

(* The caller's side and the workers' side.                                *)
CallerInv ==
    /\ CallerTypes /\ RouteInv /\ SpanInv /\ PipeInv /\ WindowInv /\ LoadInv /\ SyncDelivers

WorkerInv == WorkerTypes /\ HashIsTimeline /\ ForwarderInv

IInv == CallerInv /\ WorkerInv

-----------------------------------------------------------------------------
(* Sequences.                                                              *)
LEMMA ExtendPrefix ==
    ASSUME NEW S, NEW g \in Seq(S), NEW n \in Nat, n < Len(g)
    PROVE  /\ SubSeq(g, 1, n) \in Seq(S) /\ Len(SubSeq(g, 1, n)) = n /\ g[n + 1] \in S
           /\ Append(SubSeq(g, 1, n), g[n + 1]) = SubSeq(g, 1, n + 1)
<1>1. \A i \in 1 .. n + 1 : g[i] \in S
  BY ElementOfSeq
<1>2. /\ SubSeq(g, 1, n) \in Seq(S) /\ Len(SubSeq(g, 1, n)) = n
      /\ \A i \in 1 .. n : SubSeq(g, 1, n)[i] = g[i]
  BY <1>1, SubSeqProperties, LenProperties
<1>3. /\ SubSeq(g, 1, n + 1) \in Seq(S) /\ Len(SubSeq(g, 1, n + 1)) = n + 1
      /\ \A i \in 1 .. n + 1 : SubSeq(g, 1, n + 1)[i] = g[i]
  BY <1>1, SubSeqProperties, LenProperties
<1> DEFINE p == SubSeq(g, 1, n)
           q == SubSeq(g, 1, n + 1)
<1> HIDE DEF p, q
<1>4. g[n + 1] \in S
  BY <1>1
<1>5. /\ Append(p, g[n + 1]) \in Seq(S) /\ Len(Append(p, g[n + 1])) = n + 1
      /\ \A i \in 1 .. n + 1 : Append(p, g[n + 1])[i] = IF i <= n THEN p[i] ELSE g[n + 1]
  BY <1>2, <1>4, AppendProperties DEF p
<1>6. \A i \in 1 .. n + 1 : Append(p, g[n + 1])[i] = q[i]
  BY <1>2, <1>3, <1>5 DEF p, q
<1>7. Append(p, g[n + 1]) = q
  BY <1>3, <1>5, <1>6, SeqEqual DEF q
<1> QED
  BY <1>2, <1>4, <1>7 DEF p, q

LEMMA ResumablePrefix ==
    ASSUME tl \in Histories, NEW p \in Histories, Resumable(p)
    PROVE  Len(tl) <= Len(p) /\ tl = SubSeq(p, 1, Len(tl))
<1>1. Len(tl) <= Len(p) /\ SubSeq(tl, 1, Len(tl)) = SubSeq(p, 1, Len(tl))
  BY DEF Resumable, SeqExt!IsPrefix
<1> QED
  BY <1>1, SubSeqFull DEF Histories

-----------------------------------------------------------------------------
(* The initial values of the records.                                      *)
LEMMA NoValues ==
    /\ NoRoute \in Plans /\ NoCall \in Calls /\ NoPipe \in Pipes /\ NoLast \in Lasts
    /\ NewSession \in Sessions /\ NoForwarder \in Forwarders
<1>1. \A S : <<>> \in Seq(S)
  BY EmptySeq
<1> QED
  BY <1>1 DEF NoRoute, NoCall, NoPipe, NoLast, NewSession, NoForwarder, Plans, Calls, Ops, Pipes,
     Rcs, Lasts, Sessions, Forwarders, Histories

(* The coordinator's own layers.                                           *)
LEMMA LocalOutcome ==
    ASSUME CallerTypes, NEW i \in Nat, i < Len(call.goal), NEW reset \in BOOLEAN,
           NEW o \in Local(i, reset)
    PROVE  /\ o.kv \in Histories /\ o.valid \in BOOLEAN /\ o.ok \in BOOLEAN
           /\ faults + o.fault \in 0 .. MaxFaults
           /\ o.ok => o.valid /\ o.kv = Append(IF reset THEN <<>> ELSE tl, call.goal[i + 1])
           /\ o.ok /\ (reset \/ ~valid) => i = 0
           /\ o.ok /\ ~reset /\ valid => Len(tl) = i
<1>1. call.goal \in Histories /\ tl \in Histories /\ valid \in BOOLEAN
  BY DEF CallerTypes, Calls
<1>2. call.goal[i + 1] \in Tokens
  BY <1>1, ExtendPrefix DEF Histories
<1>3. <<>> \in Histories /\ \A h \in Histories : Append(h, call.goal[i + 1]) \in Histories
  BY <1>2, EmptySeq, AppendProperties DEF Histories
<1>4. faults \in 0 .. MaxFaults /\ MaxFaults \in Nat
  BY BoundAssumption DEF CallerTypes
<1> HIDE DEF Histories
<1> DEFINE s == IF reset THEN [kv |-> <<>>, valid |-> FALSE] ELSE [kv |-> tl, valid |-> valid]
<1>5. s.kv = (IF reset THEN <<>> ELSE tl) /\ s.valid \in BOOLEAN /\ (s.valid <=> ~reset /\ valid)
  BY <1>1
<1>6. s.kv \in Histories
  BY <1>1, <1>3, <1>5
<1>7. \/ o = [kv |-> s.kv, valid |-> s.valid, ok |-> FALSE, fault |-> 0]
      \/ o = [kv |-> Append(s.kv, call.goal[i + 1]), valid |-> TRUE, ok |-> TRUE, fault |-> 0]
         /\ InPlace(s, i)
      \/ o = [kv |-> s.kv, valid |-> FALSE, ok |-> FALSE, fault |-> 1] /\ faults < MaxFaults
  BY DEF Local
<1> HIDE DEF s
<1>8. CASE o = [kv |-> s.kv, valid |-> s.valid, ok |-> FALSE, fault |-> 0]
  BY <1>4, <1>5, <1>6, <1>8
<1>9. CASE o = [kv |-> Append(s.kv, call.goal[i + 1]), valid |-> TRUE, ok |-> TRUE, fault |-> 0]
           /\ InPlace(s, i)
  BY <1>3, <1>4, <1>5, <1>6, <1>9 DEF InPlace
<1>10. CASE o = [kv |-> s.kv, valid |-> FALSE, ok |-> FALSE, fault |-> 1] /\ faults < MaxFaults
  BY <1>4, <1>5, <1>6, <1>10
<1> QED
  BY <1>7, <1>8, <1>9, <1>10

(* A worker's: a worker that evaluates work holds the history the work     *)
(* extends, so the answer and the work passed on stand for that history.   *)
LEMMA RemoteOutcome ==
    ASSUME WorkerTypes, HashIsTimeline, faults \in 0 .. MaxFaults,
           NEW w \in Workers, NEW m \in GoodWorks, NEW o \in Remote(w, m)
    PROVE  /\ o.s \in Sessions /\ (o.s.hash # None => o.s.hash = o.s.kv)
           /\ o.ok \in BOOLEAN /\ faults + o.fault \in 0 .. MaxFaults
           /\ ResultOf(o, m) \in GoodResults
           /\ o.ok => Hidden(o, m) = m.hid
<1>1. sess[w] \in Sessions /\ (sess[w].hash # None => sess[w].hash = sess[w].kv)
  BY DEF WorkerTypes, HashIsTimeline
<1>2. /\ m.prefix \in Histories /\ m.tok \in Tokens /\ m.reset \in BOOLEAN /\ m.req \in Nat
      /\ m.hid = Append(m.prefix, m.tok)
  BY DEF GoodWorks, Works
<1>3. <<>> \in Histories /\ Append(m.prefix, m.tok) \in Histories
  BY <1>2, EmptySeq, AppendProperties DEF Histories
<1>4. faults \in 0 .. MaxFaults /\ MaxFaults \in Nat
  BY BoundAssumption
<1> DEFINE s == Loaded(sess[w], m)
<1> HIDE DEF Histories
<1>5. s \in Sessions /\ s.hash = s.kv
  BY <1>1, <1>2, <1>3 DEF Loaded, Sessions
<1> HIDE DEF s
<1>6. \/ o = [s |-> s, ok |-> FALSE, fault |-> 0]
      \/ o = [s |-> [s EXCEPT !.hash = None], ok |-> FALSE, fault |-> 0]
      \/ o = [s |-> Evaluated(s, m), ok |-> TRUE, fault |-> 0] /\ s.hash = m.prefix
      \/ o = [s |-> Failed(s), ok |-> FALSE, fault |-> 1] /\ faults < MaxFaults
  BY DEF Remote, s, Matches
<1>7. /\ o.s \in Sessions /\ (o.s.hash # None => o.s.hash = o.s.kv)
      /\ o.ok \in BOOLEAN /\ faults + o.fault \in 0 .. MaxFaults
      /\ o.ok => o.s.kv = Append(m.prefix, m.tok)
  <2>1. CASE o = [s |-> s, ok |-> FALSE, fault |-> 0]
    BY <1>4, <1>5, <2>1
  <2>2. CASE o = [s |-> [s EXCEPT !.hash = None], ok |-> FALSE, fault |-> 0]
    BY <1>4, <1>5, <2>2 DEF Sessions
  <2>3. CASE o = [s |-> Evaluated(s, m), ok |-> TRUE, fault |-> 0] /\ s.hash = m.prefix
    <3>1. o.s = [kv |-> Append(m.prefix, m.tok), valid |-> TRUE, hash |-> Append(m.prefix, m.tok)]
      BY <1>5, <2>3 DEF Evaluated
    <3>2. o.s \in Sessions
      BY <1>3, <3>1 DEF Sessions
    <3> QED
      BY <1>4, <2>3, <3>1, <3>2
  <2>4. CASE o = [s |-> Failed(s), ok |-> FALSE, fault |-> 1] /\ faults < MaxFaults
    <3>1. o.s \in Sessions /\ o.s.hash = None
      BY <1>5, <2>4 DEF Sessions, Failed
    <3> QED
      BY <1>4, <2>4, <3>1
  <2> QED
    BY <1>6, <2>1, <2>2, <2>3, <2>4
<1>8. o.ok => Hidden(o, m) = m.hid
  BY <1>2, <1>7 DEF Hidden
<1>9. ResultOf(o, m) \in GoodResults
  BY <1>2, <1>3, <1>7, <1>8 DEF ResultOf, GoodResults, Results
<1> QED
  BY <1>7, <1>8, <1>9

-----------------------------------------------------------------------------
(* The caller's side.                                                      *)
LEMMA PlannedRoutes ==
    ASSUME WorkerTypes, NEW r \in Planned
    PROVE  r \in Plans /\ IsRoute(r.path) /\ r.path # <<>> /\ (r.alive => conn[r.path[1]] # "off")
<1>1. PICK p \in Routes : r = [ready |-> TRUE, fresh |-> TRUE, path |-> p, alive |-> conn[p[1]] # "off"]
  BY DEF Planned
<1>2. IsRoute(p)
  <2>1. CASE Tails = {}
    <3>1. PICK h \in reg \cap Heads : p = <<h>>
      BY <2>1 DEF Routes
    <3> QED
      BY <2>1, <3>1 DEF IsRoute, Workers
  <2>2. CASE Tails # {}
    <3>1. PICK h \in reg \cap Heads, t \in reg \cap Tails : p = <<h, t>>
      BY <2>2 DEF Routes
    <3> QED
      BY <2>2, <3>1 DEF IsRoute, Workers
  <2> QED
    BY <2>1, <2>2
<1>3. p # <<>> /\ p \in Seq(Workers)
  BY <1>2, EmptySeq DEF IsRoute
<1> QED
  BY <1>1, <1>2, <1>3 DEF Plans

(* dist_session_ensure_route leaves a route.                               *)
LEMMA EnsuredRoutes ==
    ASSUME CallerTypes, WorkerTypes, RouteInv, NEW r \in Ensured
    PROVE  r \in Plans /\ IsRoute(r.path) /\ r.path # <<>> /\ (r.alive => conn[r.path[1]] # "off")
<1>1. CASE Current
  BY <1>1 DEF Ensured, Current, CallerTypes, RouteInv
<1>2. CASE ~Current
  BY <1>2, PlannedRoutes DEF Ensured
<1> QED
  BY <1>1, <1>2

(* What a call starts from.                                                *)
Startable(c) ==
    /\ c \in Calls /\ c.pos < Len(c.goal)
    /\ c.reset => c.pos = 0
    /\ ~c.reset => valid /\ tl = SubSeq(c.goal, 1, c.pos)
    /\ c.op # "eval" => c.goal = c.asked
    /\ c.op = "eval" => c.tok \in Tokens

LEMMA StartKeeps ==
    ASSUME CallerTypes, NEW c, Startable(c), Start(c), UNCHANGED <<tl, valid>>
    PROVE  /\ call' \in Calls /\ pipe' \in Pipes /\ last' \in Lasts /\ pc' \in {"span", "pipe"}
           /\ SpanInv' /\ PipeInv' /\ WindowInv' /\ LoadInv' /\ SyncDelivers'
<1>1. /\ c.pos \in Nat /\ Len(c.goal) \in Nat /\ c.goal # <<>> /\ c.goal \in Histories
      /\ c.pos < Len(c.goal) /\ c.reset \in BOOLEAN
  BY LenProperties, EmptySeq DEF Startable, Calls, Histories
<1>2. call' = c /\ last' = NoLast /\ last' \in Lasts /\ ~last'.ok
  BY NoValues DEF Start, NoLast
<1>3. /\ \/ pc' = "span" /\ pipe' = NoPipe
         \/ pc' = "pipe" /\ pipe' = [NoPipe EXCEPT !.first = req, !.count = Len(c.goal) - c.pos]
  BY DEF Start
<1>4. Depth \in Nat /\ Window \in Nat /\ Window > 0 /\ req \in Nat /\ Len(<<>>) = 0
  BY BoundAssumption, EmptySeq DEF CallerTypes
<1>5. LoadInv' /\ SyncDelivers'
  BY <1>1, <1>2, <1>3 DEF LoadInv, SyncDelivers, Startable
<1>6. SpanInv'
  BY <1>1, <1>2, <1>3 DEF SpanInv, Startable
<1>7. CASE pc' = "span" /\ pipe' = NoPipe
  <2>1. PipeInv' /\ WindowInv'
    BY <1>4, <1>7 DEF PipeInv, WindowInv, NoPipe
  <2> QED
    BY <1>2, <1>5, <1>6, <1>7, <2>1, NoValues DEF Startable
<1>8. CASE pc' = "pipe" /\ pipe' = [NoPipe EXCEPT !.first = req, !.count = Len(c.goal) - c.pos]
  <2>1. pipe' \in Pipes
    <3>1. Len(c.goal) - c.pos \in Nat
      BY <1>1
    <3>2. \A p \in Pipes : \A f, n \in Nat : [p EXCEPT !.first = f, !.count = n] \in Pipes
      BY DEF Pipes
    <3> QED
      BY <1>4, <1>8, <3>1, <3>2, NoValues
  <2>2. /\ pipe'.prod = "admit" /\ pipe'.slots = <<>> /\ pipe'.count = Len(c.goal) - c.pos
        /\ pipe'.sub = 0 /\ pipe'.comp = 0 /\ ~pipe'.done /\ pipe'.src = "ok"
    BY <1>8 DEF NoPipe
  <2>3. PipeInv'
    BY <1>1, <1>2, <1>8, <2>2 DEF PipeInv, Startable
  <2>4. WindowInv'
    BY <1>4, <1>8, <2>2 DEF WindowInv
  <2> QED
    BY <1>2, <1>5, <1>6, <1>8, <2>1, <2>3, <2>4 DEF Startable
<1> QED
  BY <1>3, <1>7, <1>8

(* A call that returns, and one that fails and may be replayed.            *)
LEMMA ReturnKeeps ==
    ASSUME CallerTypes, LoadInv, NEW ok \in BOOLEAN, Return(ok),
           ok /\ call.op \in {"sync", "load"} => valid' /\ tl' = call.goal
    PROVE  /\ call' \in Calls /\ pipe' \in Pipes /\ last' \in Lasts /\ pc' = "idle"
           /\ SpanInv' /\ PipeInv' /\ WindowInv' /\ LoadInv' /\ SyncDelivers'
<1>1. /\ pc' = "idle" /\ call' = NoCall /\ pipe' = NoPipe
      /\ last' = [ok |-> ok, op |-> call.op, asked |-> call.asked]
  BY DEF Return
<1>2. Depth \in Nat /\ Window \in Nat /\ Len(<<>>) = 0
  BY BoundAssumption, EmptySeq
<1>3. last' \in Lasts
  BY <1>1 DEF CallerTypes, Calls, Lasts
<1>4. LoadInv' /\ SpanInv' /\ PipeInv'
  BY <1>1 DEF LoadInv, SpanInv, PipeInv, NoCall
<1>5. WindowInv'
  BY <1>1, <1>2 DEF WindowInv, NoPipe
<1>6. SyncDelivers'
  BY <1>1 DEF SyncDelivers, LoadInv
<1> QED
  BY <1>1, <1>3, <1>4, <1>5, <1>6, NoValues

LEMMA FailKeeps ==
    ASSUME CallerTypes, LoadInv, pc # "idle", NEW rc \in {"remote", "broken"}, Fail(rc)
    PROVE  /\ call' \in Calls /\ pipe' \in Pipes /\ last' \in Lasts /\ pc' \in {"remote", "broken"}
           /\ SpanInv' /\ PipeInv' /\ WindowInv' /\ LoadInv' /\ SyncDelivers'
<1>1. pc' = rc /\ pipe' = NoPipe /\ call' = call /\ last' = last
  BY DEF Fail
<1>2. Depth \in Nat /\ Window \in Nat /\ Len(<<>>) = 0
  BY BoundAssumption, EmptySeq
<1>3. LoadInv' /\ SpanInv' /\ PipeInv' /\ SyncDelivers'
  BY <1>1 DEF LoadInv, SpanInv, PipeInv, SyncDelivers
<1>4. WindowInv'
  BY <1>1, <1>2 DEF WindowInv, NoPipe
<1> QED
  BY <1>1, <1>3, <1>4, NoValues DEF CallerTypes

LEMMA RouteKeeps ==
    ASSUME WorkerTypes,
           \/ /\ UNCHANGED conn /\ plan' \in Plans /\ IsRoute(plan'.path) /\ plan'.path # <<>>
              /\ plan'.alive => conn[plan'.path[1]] # "off"
           \/ plan' = NoRoute /\ pc' \in {"idle", "reroute"}
    PROVE  plan' \in Plans /\ RouteInv'
<1>1. CASE plan' = NoRoute /\ pc' \in {"idle", "reroute"}
  <2>1. plan'.path = <<>> /\ ~plan'.ready /\ ~plan'.alive
    BY <1>1 DEF NoRoute
  <2> QED
    BY <1>1, <2>1, NoValues DEF RouteInv
<1>2. CASE /\ UNCHANGED conn /\ plan' \in Plans /\ IsRoute(plan'.path) /\ plan'.path # <<>>
           /\ plan'.alive => conn[plan'.path[1]] # "off"
  <2>1. RouteInv' <=> /\ plan'.path # <<>> => IsRoute(plan'.path)
                      /\ plan'.ready \/ plan'.alive => plan'.path # <<>>
                      /\ pc' \in {"span", "wait", "pipe", "load", "remote"} => plan'.path # <<>>
                      /\ plan'.alive => conn'[plan'.path[1]] # "off"
    BY DEF RouteInv, IsRoute
  <2> QED
    BY <1>2, <2>1
<1> QED
  BY <1>1, <1>2

(* A call that does not start: it has no route, or nothing to do.          *)
LEMMA IdleKeeps ==
    ASSUME CallerInv, WorkerTypes, pc = "idle", UNCHANGED <<pc, call, pipe, conn>>,
           pipelined' \in BOOLEAN, tl' \in Histories, valid' \in BOOLEAN, UNCHANGED <<logits, req>>,
           plan' \in Plans, RouteInv', last' \in Lasts,
           calls' \in 0 .. MaxCalls, faults' \in 0 .. MaxFaults, SyncDelivers'
    PROVE  CallerInv'
<1>1. CallerTypes'
  BY DEF CallerInv, CallerTypes
<1>2. SpanInv' /\ PipeInv'
  BY DEF CallerInv, SpanInv, PipeInv
<1>3. WindowInv' /\ LoadInv'
  BY DEF CallerInv, WindowInv, LoadInv
<1> QED
  BY <1>1, <1>2, <1>3 DEF CallerInv

LEMMA SyncKeeps ==
    ASSUME CallerInv, WorkerTypes, NEW p \in Prompts, CallSync(p)
    PROVE  CallerInv'
<1> p \in Histories /\ p # <<>> /\ Len(p) \in Nat /\ Len(tl) \in Nat /\ tl \in Histories
  BY TokenAssumption, LenProperties DEF CallerInv, CallerTypes, Histories
<1>1. /\ pc = "idle" /\ calls' \in 0 .. MaxCalls
      /\ UNCHANGED <<pipelined, tl, valid, logits, req, conn, faults>>
  BY BoundAssumption DEF CallSync, CallerInv, CallerTypes, sessionVars, workerVars
<1>2. CASE NoRouteFor("sync", p)
  <2>1. plan' = NoRoute /\ last' = [ok |-> FALSE, op |-> "sync", asked |-> p] /\ UNCHANGED <<pc, call, pipe>>
    BY <1>2 DEF NoRouteFor
  <2>2. plan' \in Plans /\ RouteInv'
    BY <1>1, <2>1, RouteKeeps
  <2>3. last' \in Lasts /\ SyncDelivers'
    BY <2>1 DEF Lasts, Ops, SyncDelivers
  <2> QED
    BY <1>1, <2>1, <2>2, <2>3, IdleKeeps DEF CallerInv, CallerTypes
<1>3. ASSUME EnsureRoute
      PROVE  plan' \in Plans /\ RouteInv'
  <2>1. plan' \in Ensured
    BY <1>3 DEF EnsureRoute
  <2>2. plan' \in Plans /\ IsRoute(plan'.path) /\ plan'.path # <<>>
        /\ (plan'.alive => conn[plan'.path[1]] # "off")
    BY <2>1, EnsuredRoutes DEF CallerInv
  <2> QED
    BY <1>1, <2>2, RouteKeeps
<1>4. CASE /\ EnsureRoute /\ Resumable(p) /\ Len(tl) = Len(p)
           /\ last' = [ok |-> TRUE, op |-> "sync", asked |-> p] /\ UNCHANGED <<pc, call, pipe>>
  <2>1. tl = p /\ valid
    <3>1. tl = SubSeq(p, 1, Len(p)) /\ valid
      BY <1>4, ResumablePrefix DEF Resumable
    <3> QED
      BY <3>1, SubSeqFull DEF Histories
  <2>2. last' \in Lasts /\ SyncDelivers'
    BY <1>1, <1>4, <2>1 DEF Lasts, Ops, SyncDelivers
  <2> QED
    BY <1>1, <1>3, <1>4, <2>2, IdleKeeps DEF CallerInv, CallerTypes
<1> DEFINE c == [op |-> "sync", tok |-> None, asked |-> p, goal |-> p,
                 pos |-> IF Resumable(p) THEN Len(tl) ELSE 0,
                 reset |-> ~Resumable(p), replay |-> FALSE]
<1>5. CASE EnsureRoute /\ ~(Resumable(p) /\ Len(tl) = Len(p)) /\ Start(c)
  <2>1. Len(p) > 0
    BY EmptySeq DEF Histories
  <2>2. Resumable(p) => Len(tl) < Len(p) /\ tl = SubSeq(p, 1, Len(tl)) /\ valid
    BY <1>5, ResumablePrefix DEF Resumable
  <2>3. c \in Calls
    BY DEF Calls, Ops
  <2>4. /\ c.pos = (IF Resumable(p) THEN Len(tl) ELSE 0) /\ (c.reset <=> ~Resumable(p))
        /\ c.goal = p /\ c.asked = p /\ c.op = "sync"
    OBVIOUS
  <2> HIDE DEF c
  <2>5. Startable(c)
    BY <2>1, <2>2, <2>3, <2>4 DEF Startable
  <2>6. /\ call' \in Calls /\ pipe' \in Pipes /\ last' \in Lasts /\ pc' \in {"span", "pipe"}
        /\ SpanInv' /\ PipeInv' /\ WindowInv' /\ LoadInv' /\ SyncDelivers'
    BY <1>1, <1>5, <2>5, StartKeeps DEF CallerInv
  <2>7. CallerTypes'
    BY <1>1, <1>3, <1>5, <2>6 DEF CallerInv, CallerTypes
  <2> QED
    BY <1>3, <1>5, <2>6, <2>7 DEF CallerInv
<1> QED
  BY <1>2, <1>4, <1>5 DEF CallSync

LEMMA EvalKeeps ==
    ASSUME CallerInv, WorkerTypes, NEW t \in Samples, CallEval(t)
    PROVE  CallerInv'
<1> DEFINE asked == Append(tl, t)
<1>0. t \in Tokens /\ tl \in Histories /\ Len(tl) \in Nat
  BY TokenAssumption, LenProperties DEF CallerInv, CallerTypes, Histories
<1>1. /\ pc = "idle" /\ valid /\ calls' \in 0 .. MaxCalls
      /\ UNCHANGED <<pipelined, tl, valid, logits, req, conn, faults>>
  BY BoundAssumption DEF CallEval, CallerInv, CallerTypes, sessionVars, workerVars
<1>2. /\ asked \in Histories /\ Len(asked) = Len(tl) + 1
      /\ \A i \in 1 .. Len(tl) : asked[i] = tl[i]
  BY <1>0, AppendProperties DEF Histories
<1>3. tl = SubSeq(asked, 1, Len(tl))
  <2>1. \A i \in 1 .. Len(tl) : asked[i] \in Tokens
    BY <1>0, <1>2, ElementOfSeq DEF Histories
  <2> HIDE DEF asked
  <2>2. /\ SubSeq(asked, 1, Len(tl)) \in Seq(Tokens) /\ Len(SubSeq(asked, 1, Len(tl))) = Len(tl)
        /\ \A i \in 1 .. Len(tl) : SubSeq(asked, 1, Len(tl))[i] = asked[i]
    BY <1>0, <2>1, SubSeqProperties
  <2> QED
    BY <1>0, <1>2, <2>2, SeqEqual DEF Histories
<1>4. CASE NoRouteFor("eval", asked)
  <2>1. plan' = NoRoute /\ last' = [ok |-> FALSE, op |-> "eval", asked |-> asked] /\ UNCHANGED <<pc, call, pipe>>
    BY <1>4 DEF NoRouteFor
  <2>2. plan' \in Plans /\ RouteInv'
    BY <1>1, <2>1, RouteKeeps
  <2>3. last' \in Lasts /\ SyncDelivers'
    BY <1>2, <2>1 DEF Lasts, Ops, SyncDelivers
  <2> QED
    BY <1>1, <2>1, <2>2, <2>3, IdleKeeps DEF CallerInv, CallerTypes
<1> DEFINE c == [op |-> "eval", tok |-> t, asked |-> asked, goal |-> asked,
                 pos |-> Len(tl), reset |-> FALSE, replay |-> FALSE]
<1>5. CASE EnsureRoute /\ Start(c)
  <2>1. plan' \in Ensured
    BY <1>5 DEF EnsureRoute
  <2>2. plan' \in Plans /\ IsRoute(plan'.path) /\ plan'.path # <<>>
        /\ (plan'.alive => conn[plan'.path[1]] # "off")
    BY <2>1, EnsuredRoutes DEF CallerInv
  <2>3. plan' \in Plans /\ RouteInv'
    BY <1>1, <2>2, RouteKeeps
  <2> HIDE DEF asked
  <2>4. Startable(c)
    BY <1>0, <1>1, <1>2, <1>3 DEF Startable, Calls, Ops
  <2> HIDE DEF c
  <2>6. /\ call' \in Calls /\ pipe' \in Pipes /\ last' \in Lasts /\ pc' \in {"span", "pipe"}
        /\ SpanInv' /\ PipeInv' /\ WindowInv' /\ LoadInv' /\ SyncDelivers'
    BY <1>1, <1>5, <2>4, StartKeeps DEF CallerInv
  <2>7. CallerTypes'
    BY <1>1, <2>3, <2>6 DEF CallerInv, CallerTypes
  <2> QED
    BY <2>3, <2>6, <2>7 DEF CallerInv
<1> QED
  BY <1>4, <1>5 DEF CallEval

(* A step that keeps the route; connections may be shut.                   *)
LEMMA SameRoute ==
    ASSUME RouteInv, CallerTypes, UNCHANGED plan,
           \A w \in Workers : conn'[w] = "off" => conn[w] = "off",
           pc' \in {"span", "wait", "pipe", "load", "remote"} => plan.path # <<>>
    PROVE  plan' \in Plans /\ RouteInv'
<1>1. plan.alive => plan.path[1] \in Workers
  BY DEF RouteInv, IsRoute, Workers
<1>2. RouteInv' <=> /\ plan'.path # <<>> => IsRoute(plan'.path)
                    /\ plan'.ready \/ plan'.alive => plan'.path # <<>>
                    /\ pc' \in {"span", "wait", "pipe", "load", "remote"} => plan'.path # <<>>
                    /\ plan'.alive => conn'[plan'.path[1]] # "off"
  BY DEF RouteInv, IsRoute
<1> QED
  BY <1>1, <1>2 DEF RouteInv, CallerTypes

LEMMA RewindKeeps ==
    ASSUME CallerInv, WorkerTypes, Rewind
    PROVE  CallerInv'
<1>1. /\ pc = "idle" /\ last' = NoLast
      /\ UNCHANGED <<pipelined, logits, plan, pc, call, req, pipe, conn, calls, faults>>
  BY DEF Rewind, planVars, workerVars, counts
<1>2. tl' \in Histories /\ valid' \in BOOLEAN
  <2>1. PICK n \in 0 .. Len(tl) - 1 : tl' = SubSeq(tl, 1, n)
    BY DEF Rewind
  <2>2. tl \in Seq(Tokens) /\ Len(tl) \in Nat /\ n \in Nat /\ n < Len(tl)
    BY LenProperties DEF CallerInv, CallerTypes, Histories
  <2> QED
    BY <2>1, <2>2, ExtendPrefix, BoundAssumption DEF Rewind, CallerInv, CallerTypes, Histories
<1>3. plan' \in Plans /\ RouteInv'
  BY <1>1, SameRoute DEF CallerInv
<1>4. last' \in Lasts /\ SyncDelivers'
  BY <1>1, NoValues DEF SyncDelivers, NoLast
<1> QED
  BY <1>1, <1>2, <1>3, <1>4, IdleKeeps DEF CallerInv, CallerTypes

LEMMA SpanSendKeeps ==
    ASSUME CallerInv, WorkerTypes, SpanSend
    PROVE  CallerInv'
<1> DEFINE i == call.pos
           reset == call.reset /\ i = 0
<1>1. /\ pc = "span" /\ req' = req + 1
      /\ UNCHANGED <<pipelined, logits, plan, conn, calls>>
  BY DEF SpanSend, planVars
<1>2. i \in Nat /\ i < Len(call.goal) /\ call.goal \in Histories /\ reset \in BOOLEAN
  BY <1>1 DEF CallerInv, SpanInv, CallerTypes, Calls
<1>3. PICK o \in Local(i, reset) :
        /\ LocalEval(o)
        /\ IF o.ok THEN pc' = "wait" /\ UNCHANGED <<call, pipe, last>> ELSE Fail("broken")
  BY DEF SpanSend
<1> HIDE DEF i, reset
<1>4. /\ o.kv \in Histories /\ o.valid \in BOOLEAN /\ o.ok \in BOOLEAN
      /\ faults + o.fault \in 0 .. MaxFaults
      /\ o.ok => o.valid /\ o.kv = Append(IF reset THEN <<>> ELSE tl, call.goal[i + 1])
      /\ o.ok /\ (reset \/ ~valid) => i = 0
  BY <1>2, LocalOutcome DEF CallerInv
<1>5. /\ tl' \in Histories /\ valid' \in BOOLEAN /\ faults' \in 0 .. MaxFaults
      /\ tl' = o.kv /\ valid' = o.valid
  BY <1>3, <1>4 DEF LocalEval
<1>6. plan' \in Plans /\ RouteInv'
  BY <1>1, SameRoute DEF CallerInv, RouteInv
<1>7. req' \in Nat \ {0}
  BY <1>1 DEF CallerInv, CallerTypes
<1>8. CASE o.ok
  <2>1. pc' = "wait" /\ UNCHANGED <<call, pipe, last>>
    BY <1>3, <1>8
  <2>2. (IF reset THEN <<>> ELSE tl) = SubSeq(call.goal, 1, i)
    <3>1. CASE reset
      BY <1>2, <1>4, <1>8, <3>1, SubSeqEmpty
    <3>2. CASE ~reset
      BY <1>1, <3>2 DEF CallerInv, SpanInv, i, reset
    <3> QED
      BY <3>1, <3>2
  <2>3. tl' = SubSeq(call.goal, 1, i + 1) /\ valid'
    <3>1. Append(SubSeq(call.goal, 1, i), call.goal[i + 1]) = SubSeq(call.goal, 1, i + 1)
      BY <1>2, ExtendPrefix DEF Histories
    <3> QED
      BY <1>4, <1>5, <1>8, <2>2, <3>1
  <2>4. SpanInv'
    BY <1>2, <2>1, <2>3 DEF SpanInv, i
  <2>5. PipeInv' /\ LoadInv' /\ SyncDelivers'
    BY <1>1, <2>1 DEF CallerInv, PipeInv, LoadInv, SyncDelivers
  <2>6. WindowInv'
    BY <1>1, <2>1 DEF CallerInv, WindowInv
  <2>7. CallerTypes'
    BY <1>1, <1>5, <1>6, <1>7, <2>1 DEF CallerInv, CallerTypes
  <2> QED
    BY <1>6, <2>4, <2>5, <2>6, <2>7 DEF CallerInv
<1>9. CASE ~o.ok
  <2>1. Fail("broken")
    BY <1>3, <1>9
  <2>2. /\ call' \in Calls /\ pipe' \in Pipes /\ last' \in Lasts /\ pc' \in {"remote", "broken"}
        /\ SpanInv' /\ PipeInv' /\ WindowInv' /\ LoadInv' /\ SyncDelivers'
    BY <1>1, <2>1, FailKeeps DEF CallerInv
  <2>3. CallerTypes'
    BY <1>1, <1>5, <1>6, <1>7, <2>2 DEF CallerInv, CallerTypes
  <2> QED
    BY <1>6, <2>2, <2>3 DEF CallerInv
<1> QED
  BY <1>4, <1>8, <1>9

LEMMA InboxTyped ==
    ASSUME CallerTypes, WorkerTypes, RouteInv
    PROVE  /\ Inbox \in Seq(GoodResults)
           /\ Inbox # <<>> => Head(Inbox) \in GoodResults
<1>1. Inbox \in Seq(GoodResults)
  BY DEF Inbox, RouteInv, IsRoute, WorkerTypes
<1> QED
  BY <1>1, HeadTailProperties

(* A result that is accepted stands for the history it was computed from.  *)
LEMMA Accepted ==
    ASSUME NEW r \in GoodResults, NEW id, NEW hash, Judge(r, id, hash) = "ok"
    PROVE  r.hid = hash
  BY DEF Judge, GoodResults, Results

LEMMA SpanRecvKeeps ==
    ASSUME CallerInv, WorkerTypes, SpanRecv
    PROVE  CallerInv' /\ (logits' # logits => logits' = tl')
<1> DEFINE r == Head(Inbox)
           n == call.pos + 1
           rc == Judge(r, req - 1, tl)
<1>1. /\ pc = "wait" /\ Inbox # <<>>
      /\ UNCHANGED <<pipelined, tl, valid, plan, req, conn, calls, faults>>
  BY DEF SpanRecv, counts
<1>2. IF rc # "ok" THEN Fail(rc) /\ UNCHANGED logits
      ELSE /\ logits' = r.hid
           /\ IF n = Len(call.goal) THEN Return(TRUE)
              ELSE pc' = "span" /\ call' = [call EXCEPT !.pos = n] /\ UNCHANGED <<pipe, last>>
  BY DEF SpanRecv
<1>3. /\ call.pos \in Nat /\ call.pos < Len(call.goal) /\ call.goal \in Histories /\ n \in Nat
      /\ valid /\ tl = SubSeq(call.goal, 1, n) /\ tl \in Histories /\ Len(call.goal) \in Nat
  BY <1>1, LenProperties DEF CallerInv, SpanInv, CallerTypes, Calls, Histories
<1>4. r \in GoodResults
  BY <1>1, InboxTyped DEF CallerInv
<1>5. rc \in {"ok", "remote", "broken"}
  BY DEF Judge
<1> HIDE DEF r, n, rc
<1>6. plan' \in Plans /\ RouteInv'
  BY <1>1, SameRoute DEF CallerInv, RouteInv
<1>7. CASE rc # "ok"
  <2>1. Fail(rc) /\ UNCHANGED logits
    BY <1>2, <1>7
  <2>2. /\ call' \in Calls /\ pipe' \in Pipes /\ last' \in Lasts /\ pc' \in {"remote", "broken"}
        /\ SpanInv' /\ PipeInv' /\ WindowInv' /\ LoadInv' /\ SyncDelivers'
    BY <1>1, <1>5, <1>7, <2>1, FailKeeps DEF CallerInv
  <2>3. CallerTypes'
    BY <1>1, <1>6, <2>1, <2>2 DEF CallerInv, CallerTypes
  <2> QED
    BY <1>6, <2>1, <2>2, <2>3 DEF CallerInv
<1>8. CASE rc = "ok"
  <2>1. logits' = tl'
    BY <1>1, <1>2, <1>3, <1>4, <1>8, Accepted DEF rc
  <2>2. CASE n = Len(call.goal)
    <3>1. Return(TRUE) /\ tl = call.goal
      BY <1>2, <1>3, <1>8, <2>2, SubSeqFull DEF Histories
    <3>2. /\ call' \in Calls /\ pipe' \in Pipes /\ last' \in Lasts /\ pc' = "idle"
          /\ SpanInv' /\ PipeInv' /\ WindowInv' /\ LoadInv' /\ SyncDelivers'
      BY <1>1, <1>3, <3>1, ReturnKeeps DEF CallerInv
    <3>3. CallerTypes'
      BY <1>1, <1>3, <1>6, <2>1, <3>2 DEF CallerInv, CallerTypes
    <3> QED
      BY <1>6, <2>1, <3>2, <3>3 DEF CallerInv
  <2>3. CASE n # Len(call.goal)
    <3>1. pc' = "span" /\ call' = [call EXCEPT !.pos = n] /\ UNCHANGED <<pipe, last>>
      BY <1>2, <1>8, <2>3
    <3>2. /\ call' \in Calls /\ call'.pos = n /\ call'.goal = call.goal /\ call'.asked = call.asked
          /\ call'.op = call.op /\ call'.tok = call.tok
      BY <1>3, <3>1 DEF CallerInv, CallerTypes, Calls
    <3>3. SpanInv'
      BY <1>1, <1>3, <2>3, <3>1, <3>2 DEF SpanInv, n
    <3>4. PipeInv' /\ LoadInv' /\ SyncDelivers'
      BY <1>1, <3>1, <3>2 DEF CallerInv, PipeInv, LoadInv, SyncDelivers
    <3>5. WindowInv'
      BY <1>1, <3>1 DEF CallerInv, WindowInv
    <3>6. CallerTypes'
      BY <1>1, <1>3, <1>6, <2>1, <3>1, <3>2 DEF CallerInv, CallerTypes
    <3> QED
      BY <1>6, <2>1, <3>3, <3>4, <3>5, <3>6 DEF CallerInv
  <2> QED
    BY <2>2, <2>3
<1> QED
  BY <1>7, <1>8

LEMMA SpanEndKeeps ==
    ASSUME CallerInv, WorkerTypes, SpanEnd
    PROVE  CallerInv'
<1>1. /\ pc = "wait" /\ Fail("broken")
      /\ UNCHANGED <<pipelined, tl, valid, logits, plan, req, conn, calls, faults>>
  BY DEF SpanEnd, sessionVars, planVars, workerVars, counts
<1>2. plan' \in Plans /\ RouteInv'
  BY <1>1, SameRoute DEF CallerInv, RouteInv
<1>3. /\ call' \in Calls /\ pipe' \in Pipes /\ last' \in Lasts /\ pc' \in {"remote", "broken"}
      /\ SpanInv' /\ PipeInv' /\ WindowInv' /\ LoadInv' /\ SyncDelivers'
  BY <1>1, FailKeeps DEF CallerInv
<1>4. CallerTypes'
  BY <1>1, <1>2, <1>3 DEF CallerInv, CallerTypes
<1> QED
  BY <1>2, <1>3, <1>4 DEF CallerInv

(* The pipeline.                                                           *)
LEMMA ShutOnly ==
    ASSUME WorkerTypes, NEW ws, conn' = Shut(ws) \/ conn' = conn
    PROVE  \A w \in Workers : conn'[w] = "off" => conn[w] = "off"
  BY DEF Shut, WorkerTypes

(* What the pipeline keeps in the steps that neither start nor end it.     *)
LEMMA PipeKeeps ==
    ASSUME CallerInv, WorkerTypes, pc = "pipe", UNCHANGED <<pipelined, plan, last, calls, pc, call, logits>>,
           \A w \in Workers : conn'[w] = "off" => conn[w] = "off",
           tl' \in Histories, valid' \in BOOLEAN, req' \in Nat \ {0}, faults' \in 0 .. MaxFaults,
           pipe' \in Pipes, PipeInv', WindowInv'
    PROVE  CallerInv'
<1>1. plan' \in Plans /\ RouteInv'
  BY SameRoute DEF CallerInv, RouteInv
<1>2. CallerTypes'
  BY <1>1 DEF CallerInv, CallerTypes
<1>3. SpanInv' /\ LoadInv' /\ SyncDelivers'
  BY DEF CallerInv, SpanInv, LoadInv, SyncDelivers
<1> QED
  BY <1>1, <1>2, <1>3 DEF CallerInv

LEMMA PipeAdmitKeeps ==
    ASSUME CallerInv, WorkerTypes, PipeAdmit
    PROVE  CallerInv'
<1>1. /\ pc = "pipe" /\ pipe.prod = "admit" /\ (pipe.done \/ pipe.sub < pipe.comp + Window)
      /\ pipe' = [pipe EXCEPT !.prod = IF pipe.done THEN "cancel" ELSE "slot"]
      /\ UNCHANGED <<pipelined, plan, last, calls, pc, call, tl, valid, logits, req, conn, faults>>
  BY DEF PipeAdmit, pipeRest, sessionVars
<1>2. pipe \in Pipes /\ Window \in Nat
  BY BoundAssumption DEF CallerInv, CallerTypes
<1>3. /\ pipe' \in Pipes /\ pipe'.prod = (IF pipe.done THEN "cancel" ELSE "slot")
      /\ pipe'.slots = pipe.slots /\ pipe'.count = pipe.count /\ pipe'.sub = pipe.sub
      /\ pipe'.comp = pipe.comp /\ pipe'.done = pipe.done /\ pipe'.rrc = pipe.rrc
      /\ pipe'.stop = pipe.stop /\ pipe'.src = pipe.src /\ pipe'.final = pipe.final
  BY <1>1, <1>2 DEF Pipes
<1>4. PipeInv'
  BY <1>1, <1>3 DEF CallerInv, PipeInv
<1>5. WindowInv'
  BY <1>1, <1>2, <1>3 DEF CallerInv, WindowInv, Pipes
<1> QED
  BY <1>1, <1>3, <1>4, <1>5, PipeKeeps DEF CallerInv, CallerTypes

LEMMA PipeSubmitKeeps ==
    ASSUME CallerInv, WorkerTypes, PipeSubmit
    PROVE  CallerInv'
<1> DEFINE i == call.pos + pipe.sub
           reset == call.reset /\ pipe.sub = 0
           m(o) == Work(i, reset, SubSeq(call.goal, 1, i), req, o.kv)
<1>1. /\ pc = "pipe" /\ pipe.prod = "slot" /\ (pipe.stop \/ Len(pipe.slots) < Depth)
      /\ UNCHANGED <<pipelined, plan, last, calls, pc, call, logits, conn>>
  BY DEF PipeSubmit, pipeRest
<1>2. /\ pipe \in Pipes /\ Window \in Nat /\ Depth \in Nat /\ req \in Nat \ {0}
      /\ call.pos \in Nat /\ pipe.sub \in Nat /\ pipe.count \in Nat /\ call.goal \in Histories
      /\ i \in Nat /\ i < Len(call.goal) /\ reset \in BOOLEAN /\ Len(call.goal) \in Nat
      /\ tl \in Histories /\ valid \in BOOLEAN
  <2>1. /\ pipe \in Pipes /\ call \in Calls /\ req \in Nat \ {0} /\ tl \in Histories /\ valid \in BOOLEAN
        /\ Window \in Nat /\ Depth \in Nat
    BY BoundAssumption DEF CallerInv, CallerTypes
  <2>2. /\ call.pos \in Nat /\ pipe.sub \in Nat /\ pipe.count \in Nat /\ call.goal \in Histories
        /\ reset \in BOOLEAN
    BY <2>1 DEF Pipes, Calls
  <2>3. pipe.count = Len(call.goal) - call.pos /\ pipe.sub < pipe.count
    BY <1>1 DEF CallerInv, PipeInv
  <2>4. Len(call.goal) \in Nat
    BY <2>2, LenProperties DEF Histories
  <2> QED
    BY <2>1, <2>2, <2>3, <2>4
<1>3. ASSUME pipe' = [pipe EXCEPT !.prod = "cancel"]
      PROVE  pipe' \in Pipes /\ PipeInv' /\ WindowInv'
  <2>1. /\ pipe' \in Pipes /\ pipe'.prod = "cancel"
        /\ pipe'.slots = pipe.slots /\ pipe'.count = pipe.count /\ pipe'.sub = pipe.sub
        /\ pipe'.comp = pipe.comp /\ pipe'.done = pipe.done /\ pipe'.rrc = pipe.rrc
        /\ pipe'.stop = pipe.stop /\ pipe'.src = pipe.src /\ pipe'.final = pipe.final
    BY <1>2, <1>3 DEF Pipes
  <2> QED
    BY <1>1, <2>1 DEF CallerInv, PipeInv, WindowInv
<1>4. CASE pipe.stop /\ pipe' = [pipe EXCEPT !.prod = "cancel"] /\ UNCHANGED <<tl, valid, req, faults>>
  BY <1>1, <1>3, <1>4, PipeKeeps DEF CallerInv, CallerTypes
<1>5. ASSUME NEW o \in Local(i, reset), LocalEval(o), ~pipe.stop,
             IF ~o.ok THEN pipe' = [pipe EXCEPT !.prod = "cancel"] /\ UNCHANGED req
             ELSE /\ pipe' = [pipe EXCEPT
                       !.slots = Append(@, m(o)),
                       !.sub = @ + 1,
                       !.prod = IF pipe.sub + 1 = pipe.count THEN "finish" ELSE "admit"]
                  /\ req' = req + 1
      PROVE  CallerInv'
  <2> HIDE DEF i, reset
  <2>1. /\ o.kv \in Histories /\ o.valid \in BOOLEAN /\ o.ok \in BOOLEAN
        /\ faults + o.fault \in 0 .. MaxFaults
        /\ o.ok => o.valid /\ o.kv = Append(IF reset THEN <<>> ELSE tl, call.goal[i + 1])
        /\ o.ok /\ (reset \/ ~valid) => i = 0
    BY <1>2, LocalOutcome DEF CallerInv
  <2>2. /\ tl' \in Histories /\ valid' \in BOOLEAN /\ faults' \in 0 .. MaxFaults
        /\ tl' = o.kv /\ valid' = o.valid
    BY <1>5, <2>1 DEF LocalEval
  <2>3. CASE ~o.ok
    BY <1>1, <1>2, <1>3, <1>5, <2>2, <2>3, PipeKeeps
  <2>4. CASE o.ok
    <3>1. (IF reset THEN <<>> ELSE tl) = SubSeq(call.goal, 1, i)
      <4>1. CASE reset
        BY <1>2, <2>1, <2>4, <4>1, SubSeqEmpty
      <4>2. CASE ~reset
        BY <1>1, <4>2 DEF CallerInv, PipeInv, i, reset
      <4> QED
        BY <4>1, <4>2
    <3>2. /\ Append(SubSeq(call.goal, 1, i), call.goal[i + 1]) = SubSeq(call.goal, 1, i + 1)
          /\ SubSeq(call.goal, 1, i) \in Histories /\ call.goal[i + 1] \in Tokens
      BY <1>2, ExtendPrefix DEF Histories
    <3>3. tl' = SubSeq(call.goal, 1, i + 1) /\ valid' /\ o.kv = SubSeq(call.goal, 1, i + 1)
      BY <2>1, <2>2, <2>4, <3>1, <3>2
    <3>4. m(o) \in GoodWorks
      <4>1. Tails # {} => plan.path[2] \in Tails
        BY <1>1 DEF CallerInv, RouteInv, IsRoute
      <4> HIDE DEF Histories
      <4> QED
        BY <1>2, <2>1, <3>2, <3>3, <4>1 DEF Work, GoodWorks, Works
    <3> HIDE DEF m
    <3>5. /\ Append(pipe.slots, m(o)) \in Seq(GoodWorks) /\ Len(pipe.slots) \in Nat
          /\ Len(Append(pipe.slots, m(o))) = Len(pipe.slots) + 1
      BY <1>2, <3>4, AppendProperties, LenProperties DEF Pipes
    <3>6. /\ pipe' = [pipe EXCEPT !.slots = Append(pipe.slots, m(o)), !.sub = pipe.sub + 1,
                          !.prod = IF pipe.sub + 1 = pipe.count THEN "finish" ELSE "admit"]
          /\ req' = req + 1
      BY <1>5, <2>4 DEF Pipes
    <3> DEFINE sl == Append(pipe.slots, m(o))
               next == IF pipe.sub + 1 = pipe.count THEN "finish" ELSE "admit"
    <3>7. /\ pipe' \in Pipes /\ pipe'.prod = next /\ pipe'.slots = sl /\ pipe'.sub = pipe.sub + 1
          /\ pipe'.count = pipe.count
          /\ pipe'.comp = pipe.comp /\ pipe'.done = pipe.done /\ pipe'.rrc = pipe.rrc
          /\ pipe'.stop = pipe.stop /\ pipe'.src = pipe.src /\ pipe'.final = pipe.final
      <4>1. sl \in Seq(GoodWorks) /\ next \in {"finish", "admit"} /\ pipe.sub + 1 \in Nat
        BY <1>2, <3>5
      <4>2. pipe' = [pipe EXCEPT !.slots = sl, !.sub = pipe.sub + 1, !.prod = next]
        BY <3>6
      <4> HIDE DEF sl, next
      <4> QED
        BY <1>2, <4>1, <4>2 DEF Pipes
    <3>8. SubSeq(call.goal, 1, Len(call.goal)) = call.goal
      BY <1>2, SubSeqFull DEF Histories
    <3>9. pipe.count = Len(call.goal) - call.pos /\ pipe.sub < pipe.count
      BY <1>1 DEF CallerInv, PipeInv
    <3>10. i = call.pos + pipe.sub
      BY DEF i
    <3>11. PipeInv'
      <4>1. i + 1 = call.pos + pipe'.sub /\ (pipe'.sub = pipe'.count => i + 1 = Len(call.goal))
        <5>1. pipe'.sub = pipe.sub + 1 /\ pipe'.count = pipe.count
          BY <3>7
        <5> QED
          BY <1>2, <3>9, <3>10, <5>1
      <4>2. /\ call'.pos = call.pos /\ call'.goal = call.goal /\ pc' = "pipe"
            /\ call'.reset = call.reset
        BY <1>1
      <4> HIDE DEF sl
      <4> QED
        BY <1>1, <1>2, <3>3, <3>7, <3>8, <3>9, <4>1, <4>2 DEF CallerInv, PipeInv
    <3>12. WindowInv'
      <4>1. Len(pipe'.slots) <= Depth
        BY <1>1, <1>2, <1>5, <3>5, <3>7 DEF sl
      <4>2. pipe'.sub - pipe'.comp <= Window
        BY <1>1, <1>2, <3>7 DEF CallerInv, WindowInv, Pipes
      <4> QED
        BY <1>1, <3>7, <4>1, <4>2 DEF WindowInv
    <3> QED
      BY <1>1, <1>2, <2>2, <3>6, <3>7, <3>11, <3>12, PipeKeeps
  <2> QED
    BY <2>1, <2>3, <2>4
<1> QED
  BY <1>4, <1>5 DEF PipeSubmit

LEMMA PipeSendKeeps ==
    ASSUME CallerInv, WorkerTypes, PipeSend
    PROVE  CallerInv'
<1>1. /\ pc = "pipe" /\ ~pipe.stop /\ pipe.slots # <<>>
      /\ UNCHANGED <<pipelined, plan, last, calls, pc, call, tl, valid, logits, req, faults>>
  BY DEF PipeSend, pipeRest, sessionVars
<1>2. /\ pipe \in Pipes /\ Tail(pipe.slots) \in Seq(GoodWorks)
      /\ Len(Tail(pipe.slots)) = Len(pipe.slots) - 1 /\ Len(pipe.slots) \in Nat /\ Depth \in Nat
  BY <1>1, HeadTailProperties, LenProperties, BoundAssumption DEF CallerInv, CallerTypes, Pipes
<1>3. CASE pipe' = [pipe EXCEPT !.slots = Tail(@)] /\ UNCHANGED conn
  <2>1. /\ pipe' \in Pipes /\ pipe'.prod = pipe.prod
        /\ pipe'.slots = Tail(pipe.slots) /\ pipe'.count = pipe.count /\ pipe'.sub = pipe.sub
        /\ pipe'.comp = pipe.comp /\ pipe'.done = pipe.done /\ pipe'.rrc = pipe.rrc
        /\ pipe'.stop = pipe.stop /\ pipe'.src = pipe.src /\ pipe'.final = pipe.final
    BY <1>2, <1>3 DEF Pipes
  <2>2. PipeInv'
    BY <1>1, <2>1 DEF CallerInv, PipeInv
  <2>3. WindowInv'
    BY <1>1, <1>2, <2>1 DEF CallerInv, WindowInv
  <2> QED
    BY <1>1, <1>3, <2>1, <2>2, <2>3, PipeKeeps DEF CallerInv, CallerTypes
<1>4. CASE pipe' = [pipe EXCEPT !.src = "broken", !.stop = TRUE] /\ conn' = ShutRoute
  <2>1. /\ pipe' \in Pipes /\ pipe'.prod = pipe.prod
        /\ pipe'.slots = pipe.slots /\ pipe'.count = pipe.count /\ pipe'.sub = pipe.sub
        /\ pipe'.comp = pipe.comp /\ pipe'.done = pipe.done /\ pipe'.rrc = pipe.rrc
        /\ pipe'.stop /\ pipe'.src = "broken" /\ pipe'.final = pipe.final
    BY <1>2, <1>4 DEF Pipes, Rcs
  <2>2. PipeInv' /\ WindowInv'
    BY <1>1, <2>1 DEF CallerInv, PipeInv, WindowInv
  <2>3. \A w \in Workers : conn'[w] = "off" => conn[w] = "off"
    BY <1>4, ShutOnly DEF ShutRoute
  <2> QED
    BY <1>1, <2>1, <2>2, <2>3, PipeKeeps DEF CallerInv, CallerTypes
<1> QED
  BY <1>3, <1>4 DEF PipeSend

(* The reader stops: the pipeline is done and will not succeed.            *)
LEMMA ReaderStopsKeeps ==
    ASSUME CallerInv, WorkerTypes, pc = "pipe", NEW rc \in {"remote", "broken"}, ReaderStops(rc),
           UNCHANGED <<pipelined, plan, last, calls, pc, call, tl, valid, logits, req, faults>>
    PROVE  CallerInv'
<1>1. pipe' = [pipe EXCEPT !.rrc = rc, !.done = TRUE] /\ conn' = ShutRoute
  BY DEF ReaderStops
<1>2. /\ pipe' \in Pipes /\ pipe'.prod = pipe.prod
      /\ pipe'.slots = pipe.slots /\ pipe'.count = pipe.count /\ pipe'.sub = pipe.sub
      /\ pipe'.comp = pipe.comp /\ pipe'.done /\ pipe'.rrc = rc
      /\ pipe'.stop = pipe.stop /\ pipe'.src = pipe.src /\ pipe'.final = pipe.final
  BY <1>1 DEF CallerInv, CallerTypes, Pipes, Rcs
<1>3. PipeInv' /\ WindowInv'
  BY <1>2 DEF CallerInv, PipeInv, WindowInv
<1>4. \A w \in Workers : conn'[w] = "off" => conn[w] = "off"
  BY <1>1, ShutOnly DEF ShutRoute
<1> QED
  BY <1>2, <1>3, <1>4, PipeKeeps DEF CallerInv, CallerTypes

LEMMA PipeReadKeeps ==
    ASSUME CallerInv, WorkerTypes, PipeRead
    PROVE  CallerInv'
<1> DEFINE r == Head(Inbox)
           n == pipe.comp + 1
           rc == Judge(r, pipe.first + pipe.comp, SubSeq(call.goal, 1, call.pos + n))
<1>1. /\ pc = "pipe" /\ ~pipe.done /\ Inbox # <<>>
      /\ UNCHANGED <<pipelined, plan, last, calls, pc, call, tl, valid, logits, req, faults>>
  BY DEF PipeRead, pipeRest, sessionVars
<1>2. IF rc # "ok" THEN ReaderStops(rc)
      ELSE /\ pipe' = [pipe EXCEPT !.comp = n, !.done = n = pipe.count,
                                   !.final = IF n = pipe.count THEN r.hid ELSE None]
           /\ UNCHANGED conn
  BY DEF PipeRead
<1>3. r \in GoodResults
  BY <1>1, InboxTyped DEF CallerInv
<1>4. rc \in {"ok", "remote", "broken"}
  BY DEF Judge
<1>5. /\ pipe \in Pipes /\ pipe.comp \in Nat /\ n \in Nat /\ call.pos \in Nat /\ call.goal \in Histories
      /\ pipe.sub \in Nat /\ Window \in Nat
  BY BoundAssumption DEF CallerInv, CallerTypes, Pipes, Calls
<1>6. CASE rc # "ok"
  BY <1>1, <1>2, <1>4, <1>6, ReaderStopsKeeps
<1>7. CASE rc = "ok"
  <2>1. r.hid = SubSeq(call.goal, 1, call.pos + n) /\ r.hid \in Histories \cup {None}
    BY <1>3, <1>7, Accepted DEF GoodResults, Results
  <2> DEFINE final == IF n = pipe.count THEN r.hid ELSE None
             done == n = pipe.count
  <2>2. pipe' = [pipe EXCEPT !.comp = n, !.done = done, !.final = final] /\ UNCHANGED conn
    BY <1>2, <1>7
  <2>3. final \in Histories \cup {None} /\ done \in BOOLEAN
    BY <2>1
  <2> HIDE DEF final, done, r, rc
  <2>4. /\ pipe' \in Pipes /\ pipe'.prod = pipe.prod
        /\ pipe'.slots = pipe.slots /\ pipe'.count = pipe.count /\ pipe'.sub = pipe.sub
        /\ pipe'.comp = n /\ pipe'.done = done /\ pipe'.rrc = pipe.rrc
        /\ pipe'.stop = pipe.stop /\ pipe'.src = pipe.src /\ pipe'.final = final
    BY <1>5, <2>2, <2>3 DEF Pipes
  <2>5. n = pipe.count => final = call.goal
    <3>1. SubSeq(call.goal, 1, Len(call.goal)) = call.goal /\ Len(call.goal) \in Nat
      BY <1>5, SubSeqFull, LenProperties DEF Histories
    <3>2. n = pipe.count => call.pos + n = Len(call.goal)
      BY <1>1, <1>5, <3>1 DEF CallerInv, PipeInv
    <3> QED
      BY <2>1, <3>1, <3>2 DEF final
  <2>6. PipeInv'
    <3>1. pipe.comp < pipe.count /\ pipe.count \in Nat
      BY <1>1, <1>5 DEF CallerInv, PipeInv, Pipes
    <3>2. (done <=> n = pipe.count) /\ (~done => n < pipe.count)
      BY <1>5, <3>1 DEF done
    <3> HIDE DEF n
    <3> QED
      BY <1>1, <2>4, <2>5, <3>2 DEF CallerInv, PipeInv
  <2>7. WindowInv'
    BY <1>1, <1>5, <2>4 DEF CallerInv, WindowInv
  <2> QED
    BY <1>1, <2>2, <2>4, <2>6, <2>7, PipeKeeps DEF CallerInv, CallerTypes
<1> QED
  BY <1>6, <1>7

LEMMA PipeReadEndKeeps ==
    ASSUME CallerInv, WorkerTypes, PipeReadEnd
    PROVE  CallerInv'
  BY ReaderStopsKeeps DEF PipeReadEnd, pipeRest, sessionVars

LEMMA PipeCancelKeeps ==
    ASSUME CallerInv, WorkerTypes, PipeCancel
    PROVE  CallerInv'
<1>1. /\ pc = "pipe" /\ pipe' = [pipe EXCEPT !.prod = "join", !.stop = TRUE, !.src = "broken"]
      /\ conn' = ShutRoute
      /\ UNCHANGED <<pipelined, plan, last, calls, pc, call, tl, valid, logits, req, faults>>
  BY DEF PipeCancel, pipeRest, sessionVars
<1>2. /\ pipe' \in Pipes /\ pipe'.prod = "join"
      /\ pipe'.slots = pipe.slots /\ pipe'.count = pipe.count /\ pipe'.sub = pipe.sub
      /\ pipe'.comp = pipe.comp /\ pipe'.done = pipe.done /\ pipe'.rrc = pipe.rrc
      /\ pipe'.stop /\ pipe'.src = "broken" /\ pipe'.final = pipe.final
  BY <1>1 DEF CallerInv, CallerTypes, Pipes, Rcs
<1>3. PipeInv' /\ WindowInv'
  BY <1>1, <1>2 DEF CallerInv, PipeInv, WindowInv
<1>4. \A w \in Workers : conn'[w] = "off" => conn[w] = "off"
  BY <1>1, ShutOnly DEF ShutRoute
<1> QED
  BY <1>1, <1>2, <1>3, <1>4, PipeKeeps DEF CallerInv, CallerTypes

LEMMA PipeJoinKeeps ==
    ASSUME CallerInv, WorkerTypes, PipeJoin
    PROVE  CallerInv' /\ (logits' # logits => logits' = tl')
<1> DEFINE rc == IF pipe.rrc # "ok" THEN pipe.rrc ELSE pipe.src
<1>1. /\ pc = "pipe" /\ pipe.prod \in {"finish", "join"} /\ pipe.done
      /\ UNCHANGED <<pipelined, tl, valid, plan, req, conn, calls, faults>>
  BY DEF PipeJoin, planVars, workerVars, counts
<1>2. IF rc = "ok" THEN logits' = pipe.final /\ Return(TRUE) ELSE Fail(rc) /\ UNCHANGED logits
  BY DEF PipeJoin
<1>3. rc \in {"ok", "remote", "broken"}
  BY DEF CallerInv, CallerTypes, Pipes, Rcs
<1>4. plan' \in Plans /\ RouteInv'
  BY <1>1, SameRoute DEF CallerInv, RouteInv
<1>5. CASE rc = "ok"
  <2>1. valid /\ tl = call.goal /\ pipe.final = call.goal
    BY <1>1, <1>5 DEF CallerInv, PipeInv
  <2>2. /\ call' \in Calls /\ pipe' \in Pipes /\ last' \in Lasts /\ pc' = "idle"
        /\ SpanInv' /\ PipeInv' /\ WindowInv' /\ LoadInv' /\ SyncDelivers'
    BY <1>1, <1>2, <1>5, <2>1, ReturnKeeps DEF CallerInv
  <2>3. logits' = tl'
    BY <1>1, <1>2, <1>5, <2>1
  <2>4. CallerTypes'
    BY <1>1, <1>4, <2>2, <2>3 DEF CallerInv, CallerTypes
  <2> QED
    BY <1>4, <2>2, <2>3, <2>4 DEF CallerInv
<1>6. CASE rc # "ok"
  <2>1. Fail(rc) /\ UNCHANGED logits
    BY <1>2, <1>6
  <2>2. /\ call' \in Calls /\ pipe' \in Pipes /\ last' \in Lasts /\ pc' \in {"remote", "broken"}
        /\ SpanInv' /\ PipeInv' /\ WindowInv' /\ LoadInv' /\ SyncDelivers'
    BY <1>1, <1>3, <1>6, <2>1, FailKeeps DEF CallerInv
  <2>3. CallerTypes'
    BY <1>1, <1>4, <2>1, <2>2 DEF CallerInv, CallerTypes
  <2> QED
    BY <1>4, <2>1, <2>2, <2>3 DEF CallerInv
<1> QED
  BY <1>5, <1>6

(* Recovery.                                                               *)
LEMMA TranscriptTyped ==
    ASSUME CallerTypes, LoadInv, pc # "idle"
    PROVE  /\ Transcript \in Histories /\ Transcript # <<>> /\ Len(Transcript) > 0
           /\ call.op # "eval" => Transcript = call.asked
<1>1. CASE call.op = "eval"
  <2>1. tl \in Histories /\ call.tok \in Tokens
    BY <1>1 DEF CallerTypes, LoadInv
  <2>2. Append(tl, call.tok) \in Histories /\ Append(tl, call.tok) # <<>>
    BY <2>1, AppendProperties DEF Histories
  <2> QED
    BY <1>1, <2>2, EmptySeq DEF Transcript, Histories
<1>2. CASE call.op # "eval"
  BY <1>2, EmptySeq DEF Transcript, LoadInv, CallerTypes, Calls, Histories
<1> QED
  BY <1>1, <1>2

LEMMA ReplayStartable ==
    ASSUME CallerTypes, LoadInv, NEW g \in Histories, Len(g) > 0,
           call.op # "eval" => g = call.asked
    PROVE  Startable([call EXCEPT !.goal = g, !.pos = 0, !.reset = TRUE, !.replay = TRUE])
<1> DEFINE c == [call EXCEPT !.goal = g, !.pos = 0, !.reset = TRUE, !.replay = TRUE]
<1>1. /\ c \in Calls /\ c.goal = g /\ c.pos = 0 /\ c.reset /\ c.op = call.op
      /\ c.asked = call.asked /\ c.tok = call.tok
  BY DEF CallerTypes, Calls
<1> HIDE DEF c
<1>2. Startable(c)
  BY <1>1 DEF Startable, LoadInv
<1> QED
  BY <1>2 DEF c

LEMMA ReplayOnRouteKeeps ==
    ASSUME CallerInv, WorkerTypes, ReplayOnRoute
    PROVE  CallerInv'
<1> DEFINE c == [call EXCEPT !.goal = Transcript, !.pos = 0, !.reset = TRUE, !.replay = TRUE]
<1>1. /\ pc = "remote" /\ Start(c)
      /\ UNCHANGED <<pipelined, tl, valid, logits, plan, req, conn, calls, faults>>
  BY DEF ReplayOnRoute, Replay, sessionVars, planVars, workerVars, counts
<1>2. Startable(c)
  BY <1>1, TranscriptTyped, ReplayStartable DEF CallerInv
<1> HIDE DEF c
<1>3. /\ call' \in Calls /\ pipe' \in Pipes /\ last' \in Lasts /\ pc' \in {"span", "pipe"}
      /\ SpanInv' /\ PipeInv' /\ WindowInv' /\ LoadInv' /\ SyncDelivers'
  BY <1>1, <1>2, StartKeeps DEF CallerInv
<1>4. plan' \in Plans /\ RouteInv'
  BY <1>1, SameRoute DEF CallerInv, RouteInv
<1>5. CallerTypes'
  BY <1>1, <1>3, <1>4 DEF CallerInv, CallerTypes
<1> QED
  BY <1>3, <1>4, <1>5 DEF CallerInv

LEMMA ForgetRouteKeeps ==
    ASSUME CallerInv, WorkerTypes, ForgetRoute
    PROVE  CallerInv'
<1>1. /\ pc = "broken" /\ pc' = "reroute" /\ plan' = NoRoute
      /\ call' = [call EXCEPT !.goal = Transcript]
      /\ UNCHANGED <<pipelined, tl, valid, logits, req, pipe, last, calls, faults>>
  BY DEF ForgetRoute, sessionVars, counts
<1>2. /\ Transcript \in Histories /\ Transcript # <<>>
      /\ call.op # "eval" => Transcript = call.asked
  BY <1>1, TranscriptTyped DEF CallerInv
<1>3. /\ call' \in Calls /\ call'.goal = Transcript /\ call'.op = call.op /\ call'.tok = call.tok
      /\ call'.asked = call.asked
  BY <1>1, <1>2 DEF CallerInv, CallerTypes, Calls
<1>4. plan' \in Plans /\ RouteInv'
  BY <1>1, RouteKeeps
<1>5. SpanInv' /\ PipeInv' /\ SyncDelivers'
  BY <1>1 DEF SpanInv, PipeInv, SyncDelivers
<1>6. LoadInv'
  BY <1>1, <1>2, <1>3 DEF CallerInv, LoadInv
<1>7. WindowInv'
  BY <1>1 DEF CallerInv, WindowInv
<1>8. CallerTypes'
  BY <1>1, <1>3, <1>4 DEF CallerInv, CallerTypes
<1> QED
  BY <1>4, <1>5, <1>6, <1>7, <1>8 DEF CallerInv

LEMMA RerouteKeeps ==
    ASSUME CallerInv, WorkerTypes, Reroute
    PROVE  CallerInv'
<1> DEFINE c == [call EXCEPT !.goal = call.goal, !.pos = 0, !.reset = TRUE, !.replay = TRUE]
<1>1. /\ pc = "reroute" /\ UNCHANGED <<pipelined, tl, valid, logits, req, conn, calls, faults>>
  BY DEF Reroute, sessionVars, workerVars, counts
<1>2. CASE plan' \in Planned /\ Start(c)
  <2>1. call.goal \in Histories /\ Len(call.goal) > 0 /\ (call.op # "eval" => call.goal = call.asked)
    BY <1>1, EmptySeq DEF CallerInv, LoadInv, CallerTypes, Calls, Histories
  <2>2. Startable(c)
    BY <2>1, ReplayStartable DEF CallerInv
  <2> HIDE DEF c
  <2>3. /\ call' \in Calls /\ pipe' \in Pipes /\ last' \in Lasts /\ pc' \in {"span", "pipe"}
        /\ SpanInv' /\ PipeInv' /\ WindowInv' /\ LoadInv' /\ SyncDelivers'
    BY <1>1, <1>2, <2>2, StartKeeps DEF CallerInv
  <2>4. plan' \in Plans /\ IsRoute(plan'.path) /\ plan'.path # <<>>
        /\ (plan'.alive => conn[plan'.path[1]] # "off")
    BY <1>2, PlannedRoutes
  <2>5. plan' \in Plans /\ RouteInv'
    BY <1>1, <2>4, RouteKeeps
  <2>6. CallerTypes'
    BY <1>1, <2>3, <2>5 DEF CallerInv, CallerTypes
  <2> QED
    BY <2>3, <2>5, <2>6 DEF CallerInv
<1>3. CASE plan' = NoRoute /\ Return(FALSE)
  <2>1. /\ call' \in Calls /\ pipe' \in Pipes /\ last' \in Lasts /\ pc' = "idle"
        /\ SpanInv' /\ PipeInv' /\ WindowInv' /\ LoadInv' /\ SyncDelivers'
    BY <1>3, ReturnKeeps DEF CallerInv
  <2>2. plan' \in Plans /\ RouteInv'
    BY <1>3, <2>1, RouteKeeps
  <2>3. CallerTypes'
    BY <1>1, <2>1, <2>2 DEF CallerInv, CallerTypes
  <2> QED
    BY <2>1, <2>2, <2>3 DEF CallerInv
<1> QED
  BY <1>2, <1>3 DEF Reroute, Replay

LEMMA ReplayFailedKeeps ==
    ASSUME CallerInv, WorkerTypes, ReplayFailed
    PROVE  CallerInv'
<1>1. /\ Return(FALSE) /\ plan' = [plan EXCEPT !.ready = FALSE]
      /\ UNCHANGED <<pipelined, tl, valid, logits, req, conn, calls, faults>>
  BY DEF ReplayFailed, sessionVars, workerVars, counts
<1>2. /\ call' \in Calls /\ pipe' \in Pipes /\ last' \in Lasts /\ pc' = "idle"
      /\ SpanInv' /\ PipeInv' /\ WindowInv' /\ LoadInv' /\ SyncDelivers'
  BY <1>1, ReturnKeeps DEF CallerInv
<1>3. plan' \in Plans /\ plan'.path = plan.path /\ plan'.alive = plan.alive /\ ~plan'.ready
  BY <1>1 DEF CallerInv, CallerTypes, Plans
<1>4. RouteInv'
  BY <1>1, <1>2, <1>3 DEF CallerInv, RouteInv, IsRoute
<1>5. CallerTypes'
  BY <1>1, <1>2, <1>3 DEF CallerInv, CallerTypes
<1> QED
  BY <1>2, <1>4, <1>5 DEF CallerInv

(* Loading a saved session.                                                *)
LEMMA CallLoadKeeps ==
    ASSUME CallerInv, WorkerTypes, NEW p \in Payloads, CallLoad(p)
    PROVE  CallerInv'
<1>0. p \in Histories /\ p # <<>> /\ <<>> \in Histories
  BY TokenAssumption, EmptySeq DEF Histories
<1>1. /\ pc = "idle" /\ calls' \in 0 .. MaxCalls
      /\ UNCHANGED <<pipelined, logits, req, conn, faults>>
  BY BoundAssumption DEF CallLoad, CallerInv, CallerTypes, workerVars
<1>2. CASE NoRouteFor("load", p) /\ tl' = <<>> /\ valid' = FALSE
  <2>1. plan' = NoRoute /\ last' = [ok |-> FALSE, op |-> "load", asked |-> p] /\ UNCHANGED <<pc, call, pipe>>
    BY <1>2 DEF NoRouteFor
  <2>2. plan' \in Plans /\ RouteInv'
    BY <1>1, <2>1, RouteKeeps
  <2>3. last' \in Lasts /\ SyncDelivers'
    BY <1>0, <2>1 DEF Lasts, Ops, SyncDelivers
  <2> QED
    BY <1>0, <1>1, <1>2, <2>1, <2>2, <2>3, IdleKeeps DEF CallerInv, CallerTypes
<1>3. CASE /\ EnsureRoute /\ pc' = "load" /\ pipe' = NoPipe /\ last' = NoLast
           /\ call' = [NoCall EXCEPT !.op = "load", !.asked = p, !.goal = p]
           /\ UNCHANGED <<tl, valid>>
  <2>1. plan' \in Ensured
    BY <1>3 DEF EnsureRoute
  <2>2. plan' \in Plans /\ IsRoute(plan'.path) /\ plan'.path # <<>>
        /\ (plan'.alive => conn[plan'.path[1]] # "off")
    BY <2>1, EnsuredRoutes DEF CallerInv
  <2>3. plan' \in Plans /\ RouteInv'
    BY <1>1, <2>2, RouteKeeps
  <2>4. /\ call' \in Calls /\ call'.op = "load" /\ call'.asked = p /\ call'.goal = p /\ call'.pos = 0
    BY <1>0, <1>3 DEF NoCall, Calls, Ops
  <2>5. SpanInv' /\ PipeInv' /\ SyncDelivers'
    BY <1>3 DEF SpanInv, PipeInv, SyncDelivers
  <2>6. Len(plan'.path) \in Nat
    BY <2>2 DEF IsRoute
  <2>7. LoadInv'
    BY <1>0, <1>3, <2>4, <2>6 DEF LoadInv
  <2>8. WindowInv'
    BY <1>3, BoundAssumption, EmptySeq DEF WindowInv, NoPipe
  <2>9. CallerTypes'
    BY <1>1, <1>3, <2>3, <2>4, NoValues DEF CallerInv, CallerTypes
  <2> QED
    BY <2>3, <2>5, <2>7, <2>8, <2>9 DEF CallerInv
<1> QED
  BY <1>2, <1>3 DEF CallLoad

LEMMA LoadFailedKeeps ==
    ASSUME CallerInv, WorkerTypes, LoadFailed, faults' \in 0 .. MaxFaults,
           UNCHANGED <<pipelined, plan, req, conn, calls>>
    PROVE  CallerInv'
<1>1. tl' = <<>> /\ valid' = FALSE /\ Return(FALSE) /\ UNCHANGED logits
  BY DEF LoadFailed
<1>2. /\ call' \in Calls /\ pipe' \in Pipes /\ last' \in Lasts /\ pc' = "idle"
      /\ SpanInv' /\ PipeInv' /\ WindowInv' /\ LoadInv' /\ SyncDelivers'
  BY <1>1, ReturnKeeps DEF CallerInv
<1>3. plan' \in Plans /\ RouteInv'
  BY <1>1, <1>2, SameRoute DEF CallerInv
<1>4. CallerTypes'
  BY <1>1, <1>2, <1>3, EmptySeq DEF CallerInv, CallerTypes, Histories
<1> QED
  BY <1>2, <1>3, <1>4 DEF CallerInv

LEMMA LoadLocalKeeps ==
    ASSUME CallerInv, WorkerTypes, LoadLocal
    PROVE  CallerInv'
<1>1. pc = "load" /\ call.pos = 0 /\ UNCHANGED <<pipelined, plan, req, conn, calls>>
  BY DEF LoadLocal, planVars, workerVars
<1>2. CASE /\ tl' = call.goal /\ valid' = TRUE /\ call' = [call EXCEPT !.pos = 1]
           /\ UNCHANGED <<logits, pc, pipe, last, faults>>
  <2>1. /\ call' \in Calls /\ call'.pos = 1 /\ call'.goal = call.goal /\ call'.asked = call.asked
        /\ call'.op = call.op /\ call'.tok = call.tok
    BY <1>2 DEF CallerInv, CallerTypes, Calls
  <2>2. plan' \in Plans /\ RouteInv'
    BY <1>1, <1>2, SameRoute DEF CallerInv, RouteInv
  <2>3. IsRoute(plan.path) /\ 1 <= Len(plan.path)
    BY <1>1 DEF CallerInv, RouteInv, IsRoute
  <2>4. LoadInv'
    BY <1>1, <1>2, <2>1, <2>3 DEF CallerInv, LoadInv
  <2>5. SpanInv' /\ PipeInv' /\ SyncDelivers'
    BY <1>1, <1>2 DEF SpanInv, PipeInv, SyncDelivers
  <2>6. WindowInv'
    BY <1>1, <1>2 DEF CallerInv, WindowInv
  <2>7. CallerTypes'
    BY <1>1, <1>2, <2>1, <2>2 DEF CallerInv, CallerTypes, Calls
  <2> QED
    BY <2>2, <2>4, <2>5, <2>6, <2>7 DEF CallerInv
<1>3. CASE faults < MaxFaults /\ faults' = faults + 1 /\ LoadFailed
  <2>1. faults' \in 0 .. MaxFaults
    BY <1>3, BoundAssumption DEF CallerInv, CallerTypes
  <2> QED
    BY <1>1, <1>3, <2>1, LoadFailedKeeps
<1> QED
  BY <1>2, <1>3 DEF LoadLocal

LEMMA LoadShardKeeps ==
    ASSUME CallerInv, WorkerTypes, LoadShard
    PROVE  CallerInv' /\ (logits' # logits => logits' = tl')
<1>1. pc = "load" /\ call.pos > 0 /\ UNCHANGED <<pipelined, plan, req, conn, calls>>
  BY DEF LoadShard, planVars
<1>2. /\ call.pos \in Nat /\ Len(plan.path) \in Nat /\ call.pos <= Len(plan.path) /\ call.goal \in Histories
      /\ valid /\ tl = call.goal /\ faults \in 0 .. MaxFaults
  BY <1>1 DEF CallerInv, CallerTypes, Calls, LoadInv, RouteInv, IsRoute
<1>3. CASE faults < MaxFaults /\ faults' = faults + 1 /\ LoadFailed
  <2>1. faults' \in 0 .. MaxFaults
    BY <1>2, <1>3, BoundAssumption
  <2> QED
    BY <1>1, <1>3, <2>1, LoadFailedKeeps DEF LoadFailed
<1>4. CASE LoadFailed /\ UNCHANGED faults
  BY <1>1, <1>2, <1>4, LoadFailedKeeps DEF LoadFailed
<1>5. CASE /\ UNCHANGED <<tl, valid, faults>>
           /\ call.pos = Len(plan.path) /\ logits' = call.goal /\ Return(TRUE)
  <2>1. /\ call' \in Calls /\ pipe' \in Pipes /\ last' \in Lasts /\ pc' = "idle"
        /\ SpanInv' /\ PipeInv' /\ WindowInv' /\ LoadInv' /\ SyncDelivers'
    BY <1>2, <1>5, ReturnKeeps DEF CallerInv
  <2>2. plan' \in Plans /\ RouteInv'
    BY <1>1, <2>1, SameRoute DEF CallerInv
  <2>3. CallerTypes'
    BY <1>1, <1>2, <1>5, <2>1, <2>2 DEF CallerInv, CallerTypes
  <2> QED
    BY <1>2, <1>5, <2>1, <2>2, <2>3 DEF CallerInv
<1>6. CASE /\ UNCHANGED <<tl, valid, faults>> /\ call.pos # Len(plan.path)
           /\ call' = [call EXCEPT !.pos = @ + 1] /\ UNCHANGED <<logits, pc, pipe, last>>
  <2>1. /\ call' \in Calls /\ call'.pos = call.pos + 1 /\ call'.goal = call.goal
        /\ call'.asked = call.asked /\ call'.op = call.op /\ call'.tok = call.tok
    BY <1>2, <1>6 DEF CallerInv, CallerTypes, Calls
  <2>2. plan' \in Plans /\ RouteInv'
    BY <1>1, <1>6, SameRoute DEF CallerInv, RouteInv
  <2>3. LoadInv'
    BY <1>1, <1>2, <1>6, <2>1 DEF CallerInv, LoadInv
  <2>4. SpanInv' /\ PipeInv' /\ SyncDelivers'
    BY <1>1, <1>6 DEF SpanInv, PipeInv, SyncDelivers
  <2>5. WindowInv'
    BY <1>1, <1>6 DEF CallerInv, WindowInv
  <2>6. CallerTypes'
    BY <1>1, <1>6, <2>1, <2>2 DEF CallerInv, CallerTypes
  <2> QED
    BY <1>6, <2>2, <2>3, <2>4, <2>5, <2>6 DEF CallerInv
<1> QED
  BY <1>3, <1>4, <1>5, <1>6 DEF LoadShard

-----------------------------------------------------------------------------
(* The workers' side.                                                      *)
(* What the steps of the workers and of the network leave of the route.    *)
RouteFrame ==
    /\ plan' \in Plans /\ plan'.path = plan.path /\ plan'.ready = plan.ready
    /\ plan'.alive => plan.alive /\ conn'[plan.path[1]] # "off"
    /\ faults' \in 0 .. MaxFaults

(* What a forwarder owes when it takes work, passes it on and relays.      *)
LEMMA OwesMore ==
    ASSUME NEW S, NEW R, NEW d \in Seq(S), NEW u \in Seq(R), NEW p \in Seq(Nat), NEW m \in S,
           NEW n \in Nat, Owes(d, u, p)
    PROVE  Owes(d, u, Append(p, n)) /\ Owes(Append(d, m), u, Append(p, n))
<1>1. /\ Len(Append(d, m)) = Len(d) + 1 /\ Len(Append(p, n)) = Len(p) + 1
      /\ Len(d) \in Nat /\ Len(u) \in Nat /\ Len(p) \in Nat
  BY AppendProperties, LenProperties
<1> QED
  BY <1>1 DEF Owes

LEMMA OwesAnswer ==
    ASSUME NEW S, NEW R, NEW d \in Seq(S), NEW u \in Seq(R), NEW p \in Seq(Nat), NEW r \in R,
           d # <<>>, Owes(d, u, p)
    PROVE  Owes(Tail(d), Append(u, r), p)
<1>1. /\ Len(Tail(d)) = Len(d) - 1 /\ Len(Append(u, r)) = Len(u) + 1
      /\ Len(d) \in Nat /\ Len(u) \in Nat /\ Len(p) \in Nat
  BY AppendProperties, LenProperties, HeadTailProperties
<1> QED
  BY <1>1 DEF Owes

LEMMA OwesLess ==
    ASSUME NEW S, NEW R, NEW d \in Seq(S), NEW u \in Seq(R), NEW p \in Seq(Nat),
           u # <<>>, Owes(d, u, p)
    PROVE  p # <<>> /\ Owes(d, Tail(u), Tail(p))
<1>1. /\ Len(Tail(u)) = Len(u) - 1 /\ Len(u) \in Nat \ {0}
      /\ Len(d) \in Nat /\ Len(p) \in Nat /\ Len(<<>>) = 0
  BY LenProperties, HeadTailProperties, EmptySeq
<1>2. p # <<>>
  BY <1>1 DEF Owes
<1>3. Len(Tail(p)) = Len(p) - 1
  BY <1>2, HeadTailProperties
<1> QED
  BY <1>1, <1>2, <1>3 DEF Owes

LEMMA OwesNothing ==
    ASSUME NEW S, NEW R, NEW d \in Seq(S), NEW u \in Seq(R), NEW p \in Seq(Nat), Owes(d, u, p)
    PROVE  Owes(<<>>, u, p) /\ Owes(<<>>, <<>>, p) /\ Owes(<<>>, <<>>, <<>>)
<1>1. Len(d) \in Nat /\ Len(u) \in Nat /\ Len(p) \in Nat /\ Len(<<>>) = 0
  BY LenProperties, EmptySeq
<1> QED
  BY <1>1 DEF Owes

LEMMA GoodError == \A n \in Nat : Error(n) \in GoodResults
  BY DEF Error, GoodResults, Results

LEMMA ReplyTyped ==
    ASSUME WorkerTypes, NEW h \in Heads, NEW r \in GoodResults, Reply(h, r)
    PROVE  up' \in [Heads -> Seq(GoodResults)]
<1>1. Append(up[h], r) \in Seq(GoodResults)
  BY AppendProperties DEF WorkerTypes
<1> QED
  BY <1>1 DEF Reply, WorkerTypes

LEMMA ForwardTyped ==
    ASSUME WorkerTypes, ForwarderInv, NEW h \in Heads, NEW t \in Tails, NEW f \in Forwarders, Owing(f),
           Forward(h, t, f)
    PROVE  fw' \in [Heads -> [Tails -> Forwarders]] /\ ForwarderInv'
<1>1. /\ fw' \in [Heads -> [Tails -> Forwarders]]
      /\ \A g \in Heads, u \in Tails : fw'[g][u] = IF g = h /\ u = t THEN f ELSE fw[g][u]
  BY DEF Forward, WorkerTypes
<1>2. ASSUME NEW g \in Heads, NEW u \in Tails PROVE Owing(fw'[g][u])
  BY <1>1 DEF ForwarderInv
<1> QED
  BY <1>1, <1>2 DEF ForwarderInv, Owing

LEMMA SessionTyped ==
    ASSUME WorkerTypes, HashIsTimeline, NEW w \in Workers, NEW s \in Sessions,
           s.hash # None => s.hash = s.kv, sess' = [sess EXCEPT ![w] = s]
    PROVE  sess' \in [Workers -> Sessions] /\ HashIsTimeline'
<1>1. /\ sess' \in [Workers -> Sessions]
      /\ \A v \in Workers : sess'[v] = IF v = w THEN s ELSE sess[v]
  BY DEF WorkerTypes
<1> QED
  BY <1>1 DEF HashIsTimeline

LEMMA NewSessionTyped ==
    ASSUME WorkerTypes, HashIsTimeline, NEW w \in Workers, sess' = [sess EXCEPT ![w] = NewSession]
    PROVE  sess' \in [Workers -> Sessions] /\ HashIsTimeline'
<1>1. NewSession \in Sessions /\ NewSession.hash = None
  BY NoValues DEF NewSession
<1> QED
  BY <1>1, SessionTyped

LEMMA RouteHead ==
    ASSUME RouteInv, plan.alive
    PROVE  plan.path[1] \in Heads /\ plan.path[1] \in Workers /\ plan.path[1] \notin Tails
  BY WorkerAssumption DEF RouteInv, IsRoute, Workers

(* Steps that leave the route alone.                                       *)
LEMMA FrameSame ==
    ASSUME CallerTypes, RouteInv, UNCHANGED plan, faults' \in 0 .. MaxFaults,
           \A w \in Heads : conn'[w] = "off" => conn[w] = "off"
    PROVE  RouteFrame
<1>1. plan.alive => conn'[plan.path[1]] # "off"
  BY RouteHead DEF RouteInv
<1> QED
  BY <1>1 DEF RouteFrame, CallerTypes

LEMMA RegisterKeeps ==
    ASSUME CallerInv, WorkerInv, NEW w \in Workers, Register(w) \/ Unregister(w)
    PROVE  WorkerInv' /\ RouteFrame
<1>1. /\ plan' = [plan EXCEPT !.fresh = FALSE] /\ conn' \in [Workers -> {"open", "shut", "off"}]
      /\ reg' \in SUBSET Workers /\ \A v \in Workers : conn'[v] = "off" => conn[v] = "off"
      /\ UNCHANGED <<box, sess, down, up, fw, late, calls, faults>>
  BY DEF Register, Unregister, headVars, counts, WorkerInv, WorkerTypes
<1>2. plan' \in Plans /\ plan'.path = plan.path /\ plan'.alive = plan.alive /\ plan'.ready = plan.ready
  BY <1>1 DEF CallerInv, CallerTypes, Plans
<1>3. RouteFrame
  BY <1>1, <1>2, RouteHead DEF RouteFrame, CallerInv, CallerTypes, RouteInv
<1>4. WorkerTypes' /\ HashIsTimeline'
  BY <1>1 DEF WorkerInv, WorkerTypes, HashIsTimeline
<1>5. ForwarderInv'
  BY <1>1 DEF WorkerInv, ForwarderInv, Owing
<1> QED
  BY <1>3, <1>4, <1>5 DEF WorkerInv

LEMMA HeadWorkKeeps ==
    ASSUME CallerInv, WorkerInv, NEW h \in Heads, HeadWork(h)
    PROVE  WorkerInv' /\ RouteFrame
<1> USE DEF WorkerInv
<1> DEFINE m == Head(down[h])
<1>1. /\ down[h] # <<>> /\ down' = [down EXCEPT ![h] = Tail(@)]
      /\ UNCHANGED <<plan, box, reg, late, calls>>
  BY DEF HeadWork, planVars
<1>2. m \in GoodWorks /\ Tail(down[h]) \in Seq(GoodWorks)
  BY <1>1, HeadTailProperties DEF WorkerTypes
<1>3. m.req \in Nat /\ m.next \in Tails \cup {None}
  BY <1>2 DEF GoodWorks, Works
<1>4. PICK o \in Remote(h, m) :
        /\ RemoteEval(h, o)
        /\ \/ Reply(h, ResultOf(o, m)) /\ UNCHANGED <<fw, conn>>
           \/ /\ o.ok /\ m.next # None
              /\ LET t == m.next
                     f == fw[h][t]
                     sent == [f EXCEPT !.pend = Append(@, m.req),
                                       !.st = IF @ = "none" THEN "open" ELSE @,
                                       !.down = IF f.st = "dead" THEN @
                                                ELSE Append(@, [m EXCEPT !.hid = Hidden(o, m)])]
                 IN  \/ /\ f.st # "closed"
                        /\ Forward(h, t, sent) /\ UNCHANGED <<up, conn>>
                     \/ /\ Reply(h, Error(m.req)) /\ UNCHANGED <<fw, conn>>
                     \/ /\ Reply(h, Error(m.req))
                        /\ conn' = Shut({h}) /\ UNCHANGED fw
  BY DEF HeadWork
<1> HIDE DEF m
<1>5. h \in Workers
  BY DEF Workers
<1>6. /\ o.s \in Sessions /\ (o.s.hash # None => o.s.hash = o.s.kv)
      /\ o.ok \in BOOLEAN /\ faults + o.fault \in 0 .. MaxFaults
      /\ ResultOf(o, m) \in GoodResults
      /\ o.ok => Hidden(o, m) = m.hid
  BY <1>2, <1>5, RemoteOutcome DEF CallerInv, CallerTypes
<1>7. sess' \in [Workers -> Sessions] /\ HashIsTimeline' /\ faults' \in 0 .. MaxFaults
  BY <1>4, <1>5, <1>6, SessionTyped DEF RemoteEval
<1>8. down' \in [Heads -> Seq(GoodWorks)]
  BY <1>1, <1>2 DEF WorkerTypes
<1>9. ASSUME UNCHANGED fw PROVE ForwarderInv'
  BY <1>9 DEF ForwarderInv, Owing
<1>10. CASE Reply(h, ResultOf(o, m)) /\ UNCHANGED <<fw, conn>>
  <2>1. up' \in [Heads -> Seq(GoodResults)]
    BY <1>6, <1>10, ReplyTyped
  <2>2. WorkerTypes'
    BY <1>1, <1>7, <1>8, <1>10, <2>1 DEF WorkerTypes
  <2> QED
    BY <1>1, <1>7, <1>9, <1>10, <2>2, FrameSame DEF CallerInv
<1>11. CASE Reply(h, Error(m.req)) /\ UNCHANGED fw /\ (conn' = conn \/ conn' = Shut({h}))
  <2>1. up' \in [Heads -> Seq(GoodResults)]
    BY <1>3, <1>11, ReplyTyped, GoodError
  <2>2. /\ conn' \in [Workers -> {"open", "shut", "off"}]
        /\ \A w \in Heads : conn'[w] = "off" => conn[w] = "off"
    BY <1>11 DEF Shut, WorkerTypes, Workers
  <2>3. WorkerTypes'
    BY <1>1, <1>7, <1>8, <1>11, <2>1, <2>2 DEF WorkerTypes
  <2> QED
    BY <1>1, <1>7, <1>9, <1>11, <2>2, <2>3, FrameSame DEF CallerInv
<1> DEFINE t == m.next
           f == fw[h][t]
           x == [m EXCEPT !.hid = Hidden(o, m)]
           sent == [f EXCEPT !.pend = Append(@, m.req),
                             !.st = IF @ = "none" THEN "open" ELSE @,
                             !.down = IF f.st = "dead" THEN @ ELSE Append(@, x)]
<1>12. CASE o.ok /\ m.next # None /\ f.st # "closed" /\ Forward(h, t, sent) /\ UNCHANGED <<up, conn>>
  <2>1. t \in Tails /\ f \in Forwarders /\ Owing(f)
    BY <1>3, <1>12 DEF WorkerTypes, ForwarderInv
  <2>2. x = m
    BY <1>2, <1>6, <1>12 DEF GoodWorks, Works
  <2>3. /\ Append(f.pend, m.req) \in Seq(Nat) /\ Len(Append(f.pend, m.req)) = Len(f.pend) + 1
        /\ Append(f.down, x) \in Seq(GoodWorks) /\ Len(Append(f.down, x)) = Len(f.down) + 1
        /\ Len(f.down) \in Nat /\ Len(f.up) \in Nat /\ Len(f.pend) \in Nat
    BY <1>2, <1>3, <2>1, <2>2, AppendProperties, LenProperties DEF Forwarders
  <2> DEFINE p == Append(f.pend, m.req)
             d == IF f.st = "dead" THEN f.down ELSE Append(f.down, x)
             st == IF f.st = "none" THEN "open" ELSE f.st
  <2>4. sent = [f EXCEPT !.pend = p, !.st = st, !.down = d]
    BY <2>1 DEF Forwarders
  <2>5. p \in Seq(Nat) /\ d \in Seq(GoodWorks) /\ st \in {"none", "open", "dead", "closed"}
    BY <2>1, <2>3 DEF Forwarders
  <2>6. /\ Len(p) = Len(f.pend) + 1 /\ Len(d) <= Len(f.down) + 1 /\ Len(d) \in Nat
        /\ st # "closed" /\ (st = "dead" => d = f.down /\ f.st = "dead")
    BY <1>12, <2>3
  <2> HIDE DEF p, d, st, f, sent
  <2>7. /\ sent \in Forwarders /\ sent.down = d /\ sent.up = f.up /\ sent.pend = p /\ sent.st = st
    BY <2>1, <2>4, <2>5 DEF Forwarders
  <2>8. Owing(sent)
    <3>1. /\ Owes(f.down, f.up, f.pend)
          /\ f.st = "dead" => f.down = <<>>
      BY <2>1 DEF Owing
    <3>2. Owes(d, f.up, p)
      <4>1. f.down \in Seq(GoodWorks) /\ f.up \in Seq(GoodResults) /\ f.pend \in Seq(Nat) /\ x \in GoodWorks
        BY <1>2, <2>1, <2>2 DEF Forwarders
      <4> HIDE DEF x
      <4> QED
        BY <1>3, <3>1, <4>1, OwesMore DEF d, p
    <3> QED
      BY <2>6, <2>7, <3>1, <3>2 DEF Owing
  <2>9. fw' \in [Heads -> [Tails -> Forwarders]] /\ ForwarderInv'
    BY <1>12, <2>1, <2>7, <2>8, ForwardTyped
  <2>10. WorkerTypes'
    BY <1>1, <1>7, <1>8, <1>12, <2>9 DEF WorkerTypes
  <2> QED
    BY <1>1, <1>7, <1>12, <2>9, <2>10, FrameSame DEF CallerInv
<1> QED
  BY <1>4, <1>10, <1>11, <1>12

LEMMA RelayKeeps ==
    ASSUME CallerInv, WorkerInv, NEW h \in Heads, NEW t \in Tails, Relay(h, t)
    PROVE  WorkerInv' /\ RouteFrame
<1> USE DEF WorkerInv
<1> DEFINE f == fw[h][t]
           g == [f EXCEPT !.up = Tail(@), !.pend = Tail(@)]
           c == [f EXCEPT !.st = "closed", !.down = <<>>, !.up = <<>>, !.pend = <<>>]
<1>1. /\ f.up # <<>> /\ UNCHANGED <<plan, box, reg, sess, down, faults>>
      /\ IF Head(f.up).req = Head(f.pend)
         THEN Forward(h, t, g) /\ Reply(h, Head(f.up)) /\ UNCHANGED <<conn, late>>
         ELSE /\ Forward(h, t, c) /\ Reply(h, Error(Head(f.pend))) /\ conn' = Shut({h})
              /\ late' = [late EXCEPT ![t] = @ \cup ({f.down} \ {<<>>})]
  BY DEF Relay, planVars, counts
<1>2. f \in Forwarders /\ Owing(f)
  BY DEF WorkerTypes, ForwarderInv
<1> HIDE DEF f
<1>3. /\ f.up \in Seq(GoodResults) /\ f.pend \in Seq(Nat) /\ f.down \in Seq(GoodWorks)
      /\ Len(f.up) \in Nat \ {0} /\ Len(f.pend) \in Nat /\ Len(f.down) \in Nat
  BY <1>1, <1>2, LenProperties, EmptySeq DEF Forwarders
<1>4. f.pend # <<>> /\ Owes(f.down, Tail(f.up), Tail(f.pend))
  BY <1>1, <1>2, <1>3, OwesLess DEF Owing
<1>5. /\ Head(f.up) \in GoodResults /\ Tail(f.up) \in Seq(GoodResults) /\ Len(Tail(f.up)) = Len(f.up) - 1
      /\ Head(f.pend) \in Nat /\ Tail(f.pend) \in Seq(Nat) /\ Len(Tail(f.pend)) = Len(f.pend) - 1
  BY <1>1, <1>3, <1>4, HeadTailProperties
<1>6. CASE Head(f.up).req = Head(f.pend)
  <2>1. g = [f EXCEPT !.up = Tail(f.up), !.pend = Tail(f.pend)]
    BY <1>2 DEF Forwarders
  <2>2. Forward(h, t, g) /\ Reply(h, Head(f.up)) /\ UNCHANGED <<conn, late>>
    BY <1>1, <1>6
  <2> HIDE DEF g
  <2>3. /\ g \in Forwarders /\ g.down = f.down /\ g.up = Tail(f.up) /\ g.pend = Tail(f.pend) /\ g.st = f.st
    BY <1>2, <1>5, <2>1 DEF Forwarders
  <2>4. Owing(g)
    <3>1. f.st # "closed" /\ (f.st \in {"dead", "closed"} => f.down = <<>>)
      BY <1>1, <1>2 DEF Owing
    <3> QED
      BY <1>4, <2>3, <3>1 DEF Owing
  <2>5. fw' \in [Heads -> [Tails -> Forwarders]] /\ ForwarderInv'
    BY <2>2, <2>3, <2>4, ForwardTyped
  <2>6. up' \in [Heads -> Seq(GoodResults)]
    BY <1>5, <2>2, ReplyTyped
  <2>7. WorkerTypes' /\ HashIsTimeline'
    BY <1>1, <2>2, <2>5, <2>6 DEF WorkerTypes, HashIsTimeline
  <2> QED
    BY <1>1, <2>2, <2>5, <2>7, FrameSame DEF CallerInv, CallerTypes
<1>7. CASE Head(f.up).req # Head(f.pend)
  <2>1. /\ c \in Forwarders /\ c.down = <<>> /\ c.up = <<>> /\ c.pend = <<>> /\ c.st = "closed"
    BY <1>2, EmptySeq DEF Forwarders
  <2>2. /\ Forward(h, t, c) /\ Reply(h, Error(Head(f.pend))) /\ conn' = Shut({h})
        /\ late' = [late EXCEPT ![t] = @ \cup ({f.down} \ {<<>>})]
    BY <1>1, <1>7
  <2> HIDE DEF c
  <2>3. Owing(c)
    <3>1. Owes(<<>>, <<>>, <<>>)
      BY EmptySeq DEF Owes
    <3> QED
      BY <2>1, <3>1 DEF Owing
  <2>4. fw' \in [Heads -> [Tails -> Forwarders]] /\ ForwarderInv'
    BY <2>1, <2>2, <2>3, ForwardTyped
  <2>5. up' \in [Heads -> Seq(GoodResults)]
    BY <1>5, <2>2, ReplyTyped, GoodError
  <2>6. late' \in [Tails -> SUBSET (Seq(GoodWorks) \ {<<>>})]
    BY <1>3, <2>2 DEF WorkerTypes
  <2>7. /\ conn' \in [Workers -> {"open", "shut", "off"}]
        /\ \A w \in Heads : conn'[w] = "off" => conn[w] = "off"
    BY <2>2 DEF Shut, WorkerTypes, Workers
  <2>8. WorkerTypes' /\ HashIsTimeline'
    BY <1>1, <2>4, <2>5, <2>6, <2>7 DEF WorkerTypes, HashIsTimeline
  <2> QED
    BY <1>1, <2>4, <2>7, <2>8, FrameSame DEF CallerInv, CallerTypes
<1> QED
  BY <1>6, <1>7

LEMMA RelayEndKeeps ==
    ASSUME CallerInv, WorkerInv, NEW h \in Heads, NEW t \in Tails, RelayEnd(h, t)
    PROVE  WorkerInv' /\ RouteFrame
<1> USE DEF WorkerInv
<1> DEFINE f == fw[h][t]
           g == [f EXCEPT !.st = "closed", !.pend = <<>>]
<1>1. /\ f.st = "dead" /\ f.up = <<>> /\ Forward(h, t, g) /\ conn' = Shut({h})
      /\ IF f.pend # <<>> THEN Reply(h, Error(Head(f.pend))) ELSE UNCHANGED up
      /\ UNCHANGED <<plan, box, reg, sess, down, late, faults>>
  BY DEF RelayEnd, planVars, counts
<1>2. f \in Forwarders /\ Owing(f)
  BY DEF WorkerTypes, ForwarderInv
<1> HIDE DEF f
<1>3. g \in Forwarders /\ g.down = f.down /\ g.up = f.up /\ g.pend = <<>> /\ g.st = "closed"
  BY <1>2, EmptySeq DEF Forwarders
<1> HIDE DEF g
<1>4. Owing(g)
  <2>1. Owes(<<>>, <<>>, <<>>)
    BY EmptySeq DEF Owes
  <2> QED
    BY <1>1, <1>2, <1>3, <2>1 DEF Owing
<1>5. fw' \in [Heads -> [Tails -> Forwarders]] /\ ForwarderInv'
  BY <1>1, <1>3, <1>4, ForwardTyped
<1>6. up' \in [Heads -> Seq(GoodResults)]
  <2>1. f.pend # <<>> => Head(f.pend) \in Nat
    BY <1>2, HeadTailProperties DEF Forwarders
  <2>2. CASE f.pend # <<>>
    BY <1>1, <2>1, <2>2, ReplyTyped, GoodError
  <2>3. CASE f.pend = <<>>
    BY <1>1, <2>3 DEF WorkerTypes
  <2> QED
    BY <2>2, <2>3
<1>7. /\ conn' \in [Workers -> {"open", "shut", "off"}]
      /\ \A w \in Heads : conn'[w] = "off" => conn[w] = "off"
  BY <1>1 DEF Shut, WorkerTypes, Workers
<1>8. WorkerTypes' /\ HashIsTimeline'
  BY <1>1, <1>5, <1>6, <1>7 DEF WorkerTypes, HashIsTimeline
<1> QED
  BY <1>1, <1>5, <1>7, <1>8, FrameSame DEF CallerInv, CallerTypes

LEMMA TailWorkKeeps ==
    ASSUME CallerInv, WorkerInv, NEW h \in Heads, NEW t \in Tails, TailWork(h, t)
    PROVE  WorkerInv' /\ RouteFrame
<1> USE DEF WorkerInv
<1> DEFINE f == fw[h][t]
           m == Head(f.down)
           g(o) == [f EXCEPT !.down = Tail(@), !.up = Append(@, ResultOf(o, m))]
<1>1. f.down # <<>> /\ UNCHANGED <<plan, box, reg, conn, down, up, late>>
  BY DEF TailWork, planVars, headVars
<1>2. PICK o \in Remote(t, m) : RemoteEval(t, o) /\ Forward(h, t, g(o))
  BY DEF TailWork
<1>3. f \in Forwarders /\ Owing(f) /\ t \in Workers
  BY DEF WorkerTypes, ForwarderInv, Workers
<1> HIDE DEF f
<1>4. /\ m \in GoodWorks /\ Tail(f.down) \in Seq(GoodWorks) /\ Len(Tail(f.down)) = Len(f.down) - 1
      /\ f.up \in Seq(GoodResults) /\ Len(f.down) \in Nat /\ Len(f.up) \in Nat /\ Len(f.pend) \in Nat
  BY <1>1, <1>3, HeadTailProperties, LenProperties DEF Forwarders
<1> HIDE DEF m
<1>5. /\ o.s \in Sessions /\ (o.s.hash # None => o.s.hash = o.s.kv)
      /\ faults + o.fault \in 0 .. MaxFaults /\ ResultOf(o, m) \in GoodResults
  BY <1>3, <1>4, RemoteOutcome DEF CallerInv, CallerTypes
<1>6. sess' \in [Workers -> Sessions] /\ HashIsTimeline' /\ faults' \in 0 .. MaxFaults
  BY <1>2, <1>3, <1>5, SessionTyped DEF RemoteEval
<1>7. /\ Append(f.up, ResultOf(o, m)) \in Seq(GoodResults)
      /\ Len(Append(f.up, ResultOf(o, m))) = Len(f.up) + 1
  BY <1>4, <1>5, AppendProperties
<1>8. g(o) = [f EXCEPT !.down = Tail(f.down), !.up = Append(f.up, ResultOf(o, m))]
  BY <1>3 DEF Forwarders
<1>9. /\ g(o) \in Forwarders /\ g(o).down = Tail(f.down) /\ g(o).up = Append(f.up, ResultOf(o, m))
      /\ g(o).pend = f.pend /\ g(o).st = f.st
  <2> DEFINE u == Append(f.up, ResultOf(o, m))
  <2>1. u \in Seq(GoodResults) /\ g(o) = [f EXCEPT !.down = Tail(f.down), !.up = u]
    BY <1>7, <1>8
  <2> HIDE DEF u, g
  <2>2. /\ g(o) \in Forwarders /\ g(o).down = Tail(f.down) /\ g(o).up = u
        /\ g(o).pend = f.pend /\ g(o).st = f.st
    BY <1>3, <1>4, <2>1 DEF Forwarders
  <2> QED
    BY <2>2 DEF u
<1> HIDE DEF g
<1>10. Owing(g(o))
  <2>1. Owes(f.down, f.up, f.pend) /\ f.st \notin {"dead", "closed"}
    BY <1>1, <1>3 DEF Owing
  <2>2. Owes(Tail(f.down), Append(f.up, ResultOf(o, m)), f.pend)
    BY <1>1, <1>3, <1>4, <1>5, <2>1, OwesAnswer DEF Forwarders
  <2> QED
    BY <1>9, <2>1, <2>2 DEF Owing
<1>11. fw' \in [Heads -> [Tails -> Forwarders]] /\ ForwarderInv'
  BY <1>2, <1>9, <1>10, ForwardTyped
<1>12. WorkerTypes'
  BY <1>1, <1>6, <1>11 DEF WorkerTypes
<1> QED
  BY <1>1, <1>6, <1>11, <1>12, FrameSame DEF CallerInv

LEMMA LateWorkKeeps ==
    ASSUME CallerInv, WorkerInv, NEW t \in Tails, NEW q \in late[t], LateWork(t, q)
    PROVE  WorkerInv' /\ RouteFrame
<1> USE DEF WorkerInv
<1>1. /\ late' = [late EXCEPT ![t] = (@ \ {q}) \cup ({Tail(q)} \ {<<>>})]
      /\ UNCHANGED <<plan, box, reg, conn, down, up, fw>>
  BY DEF LateWork, planVars, headVars
<1>2. PICK o \in Remote(t, Head(q)) : RemoteEval(t, o)
  BY DEF LateWork
<1>3. q \in Seq(GoodWorks) /\ q # <<>> /\ t \in Workers
  BY DEF WorkerTypes, Workers
<1>4. Head(q) \in GoodWorks /\ Tail(q) \in Seq(GoodWorks)
  BY <1>3, HeadTailProperties
<1>5. /\ o.s \in Sessions /\ (o.s.hash # None => o.s.hash = o.s.kv)
      /\ faults + o.fault \in 0 .. MaxFaults
  BY <1>3, <1>4, RemoteOutcome DEF CallerInv, CallerTypes
<1>6. sess' \in [Workers -> Sessions] /\ HashIsTimeline' /\ faults' \in 0 .. MaxFaults
  BY <1>2, <1>3, <1>5, SessionTyped DEF RemoteEval
<1>7. late' \in [Tails -> SUBSET (Seq(GoodWorks) \ {<<>>})]
  BY <1>1, <1>4 DEF WorkerTypes
<1>8. WorkerTypes'
  BY <1>1, <1>6, <1>7 DEF WorkerTypes
<1>9. ForwarderInv'
  BY <1>1 DEF ForwarderInv, Owing
<1> QED
  BY <1>1, <1>6, <1>8, <1>9, FrameSame DEF CallerInv

LEMMA DisconnectKeeps ==
    ASSUME CallerInv, WorkerInv, NEW w \in Workers, Disconnect(w)
    PROVE  WorkerInv' /\ RouteFrame
<1> USE DEF WorkerInv
<1>1. /\ conn' = [conn EXCEPT ![w] = "off"] /\ sess' = [sess EXCEPT ![w] = NewSession]
      /\ UNCHANGED <<reg, faults>>
      /\ IF w \in Heads THEN Gone(w) ELSE UNCHANGED <<planVars, headVars, fw, late>>
  BY DEF Disconnect, counts
<1>2. sess' \in [Workers -> Sessions] /\ HashIsTimeline'
  BY <1>1, NewSessionTyped
<1>3. /\ conn' \in [Workers -> {"open", "shut", "off"}]
      /\ \A v \in Workers : conn'[v] = IF v = w THEN "off" ELSE conn[v]
  BY <1>1 DEF WorkerTypes
<1>4. CASE w \notin Heads
  <2>1. UNCHANGED <<plan, box, down, up, fw, late>>
    BY <1>1, <1>4 DEF planVars, headVars
  <2>2. WorkerTypes'
    BY <1>1, <1>2, <1>3, <2>1 DEF WorkerTypes
  <2>3. ForwarderInv'
    BY <2>1 DEF ForwarderInv, Owing
  <2>4. \A v \in Heads : conn'[v] = "off" => conn[v] = "off"
    BY <1>3, <1>4 DEF Workers
  <2> QED
    BY <1>1, <1>2, <2>1, <2>2, <2>3, <2>4, FrameSame DEF CallerInv, CallerTypes
<1>5. CASE w \in Heads
  <2>1. /\ down' = [down EXCEPT ![w] = <<>>] /\ up' = [up EXCEPT ![w] = <<>>]
        /\ fw' = [fw EXCEPT ![w] = [t \in Tails |-> NoForwarder]]
        /\ late' = LeftBehind(w)
        /\ IF plan.alive /\ plan.path[1] = w
           THEN plan' = [plan EXCEPT !.alive = FALSE] /\ box' = up[w]
           ELSE UNCHANGED <<plan, box>>
    BY <1>1, <1>5 DEF Gone, planVars
  <2>2. /\ down' \in [Heads -> Seq(GoodWorks)] /\ up' \in [Heads -> Seq(GoodResults)]
        /\ box' \in Seq(GoodResults)
    BY <1>5, <2>1, EmptySeq DEF WorkerTypes
  <2>3. /\ fw' \in [Heads -> [Tails -> Forwarders]]
        /\ \A h \in Heads, t \in Tails : fw'[h][t] = IF h = w THEN NoForwarder ELSE fw[h][t]
    BY <1>5, <2>1, NoValues DEF WorkerTypes
  <2>4. late' \in [Tails -> SUBSET (Seq(GoodWorks) \ {<<>>})]
    <3>1. \A t \in Tails : fw[w][t].down \in Seq(GoodWorks)
      BY <1>5 DEF WorkerTypes, Forwarders
    <3> QED
      BY <2>1, <3>1 DEF LeftBehind, WorkerTypes
  <2>5. WorkerTypes'
    BY <1>1, <1>2, <1>3, <2>2, <2>3, <2>4 DEF WorkerTypes
  <2>6. Owing(NoForwarder)
    <3>1. Owes(<<>>, <<>>, <<>>)
      BY EmptySeq DEF Owes
    <3> QED
      BY <3>1 DEF Owing, NoForwarder
  <2>7. \A h \in Heads, t \in Tails : Owing(fw'[h][t])
    BY <2>3, <2>6 DEF ForwarderInv
  <2>8. ForwarderInv'
    BY <2>7 DEF ForwarderInv, Owing
  <2>9. RouteFrame
    <3>1. CASE plan.alive /\ plan.path[1] = w
      <4>1. plan' \in Plans /\ plan'.path = plan.path /\ plan'.ready = plan.ready /\ ~plan'.alive
        BY <2>1, <3>1 DEF CallerInv, CallerTypes, Plans
      <4> QED
        BY <1>1, <4>1 DEF RouteFrame, CallerInv, CallerTypes
    <3>2. CASE ~(plan.alive /\ plan.path[1] = w)
      <4>1. plan.alive => conn'[plan.path[1]] # "off"
        BY <1>3, <3>2, RouteHead DEF CallerInv, RouteInv
      <4> QED
        BY <1>1, <2>1, <3>2, <4>1 DEF RouteFrame, CallerInv, CallerTypes
    <3> QED
      BY <3>1, <3>2
  <2> QED
    BY <1>2, <2>5, <2>8, <2>9
<1> QED
  BY <1>4, <1>5

LEMMA FailuresKeep ==
    ASSUME CallerInv, WorkerInv, Failures
    PROVE  WorkerInv' /\ RouteFrame
<1> USE DEF WorkerInv
<1>0. ASSUME Fault PROVE faults' \in 0 .. MaxFaults
  BY <1>0, BoundAssumption DEF Fault, CallerInv, CallerTypes
<1>1. ASSUME NEW w \in Workers, BreakControl(w) PROVE WorkerInv' /\ RouteFrame
  <2>1. /\ Fault /\ conn' = Shut({w})
        /\ UNCHANGED <<plan, box, reg, sess, down, up, fw, late>>
    BY <1>1 DEF BreakControl, planVars, headVars
  <2>2. /\ conn' \in [Workers -> {"open", "shut", "off"}]
        /\ \A v \in Heads : conn'[v] = "off" => conn[v] = "off"
    BY <2>1 DEF Shut, WorkerTypes, Workers
  <2>3. WorkerTypes' /\ HashIsTimeline'
    BY <2>1, <2>2 DEF WorkerTypes, HashIsTimeline
  <2>4. ForwarderInv'
    BY <2>1 DEF ForwarderInv, Owing
  <2> QED
    BY <1>0, <2>1, <2>2, <2>3, <2>4, FrameSame DEF CallerInv
<1>2. ASSUME NEW h \in Heads, NEW t \in Tails, BreakData(h, t) PROVE WorkerInv' /\ RouteFrame
  <2> DEFINE f == fw[h][t]
             g == [f EXCEPT !.st = "dead", !.down = <<>>]
  <2>1. /\ Fault /\ Forward(h, t, g)
        /\ late' = [late EXCEPT ![t] = @ \cup ({f.down} \ {<<>>})]
        /\ UNCHANGED <<plan, box, reg, conn, sess, down, up>>
    BY <1>2 DEF BreakData, planVars, headVars
  <2>2. f \in Forwarders /\ Owing(f)
    BY DEF WorkerTypes, ForwarderInv
  <2> HIDE DEF f
  <2>3. /\ g \in Forwarders /\ g.down = <<>> /\ g.up = f.up /\ g.pend = f.pend /\ g.st = "dead"
        /\ Len(f.down) \in Nat /\ Len(f.up) \in Nat /\ Len(f.pend) \in Nat /\ f.down \in Seq(GoodWorks)
    BY <2>2, EmptySeq, LenProperties DEF Forwarders
  <2> HIDE DEF g
  <2>4. Owing(g)
    <3>1. Owes(<<>>, f.up, f.pend)
      BY <2>2, OwesNothing DEF Owing, Forwarders
    <3> QED
      BY <2>3, <3>1 DEF Owing
  <2>5. fw' \in [Heads -> [Tails -> Forwarders]] /\ ForwarderInv'
    BY <2>1, <2>3, <2>4, ForwardTyped
  <2>6. late' \in [Tails -> SUBSET (Seq(GoodWorks) \ {<<>>})]
    BY <2>1, <2>3 DEF WorkerTypes
  <2>7. WorkerTypes' /\ HashIsTimeline'
    BY <2>1, <2>5, <2>6 DEF WorkerTypes, HashIsTimeline
  <2> QED
    BY <1>0, <2>1, <2>5, <2>7, FrameSame DEF CallerInv
<1>3. ASSUME NEW t \in Tails, Die(t) PROVE WorkerInv' /\ RouteFrame
  <2>1. /\ Fault /\ conn' = [conn EXCEPT ![t] = "off"] /\ sess' = [sess EXCEPT ![t] = NewSession]
        /\ fw' = [h \in Heads |-> IF fw[h][t].st = "open"
                                  THEN [fw[h] EXCEPT ![t].st = "dead", ![t].down = <<>>] ELSE fw[h]]
        /\ late' = [late EXCEPT ![t] = {}]
        /\ UNCHANGED <<plan, box, reg, down, up>>
    BY <1>3 DEF Die, planVars, headVars
  <2>2. t \in Workers
    BY DEF Workers
  <2>3. sess' \in [Workers -> Sessions] /\ HashIsTimeline'
    BY <2>1, <2>2, NewSessionTyped
  <2>4. /\ conn' \in [Workers -> {"open", "shut", "off"}]
        /\ \A v \in Heads : conn'[v] = "off" => conn[v] = "off"
    BY <2>1, <2>2, WorkerAssumption DEF WorkerTypes, Workers
  <2>5. late' \in [Tails -> SUBSET (Seq(GoodWorks) \ {<<>>})]
    BY <2>1 DEF WorkerTypes
  <2>6. ASSUME NEW f \in Forwarders, Owing(f)
        PROVE  LET g == [f EXCEPT !.st = "dead", !.down = <<>>] IN g \in Forwarders /\ Owing(g)
    <3> DEFINE g == [f EXCEPT !.st = "dead", !.down = <<>>]
    <3>1. /\ g \in Forwarders /\ g.down = <<>> /\ g.up = f.up /\ g.pend = f.pend /\ g.st = "dead"
          /\ Len(f.down) \in Nat /\ Len(f.up) \in Nat /\ Len(f.pend) \in Nat
      BY EmptySeq, LenProperties DEF Forwarders
    <3> HIDE DEF g
    <3>2. g \in Forwarders /\ Owing(g)
      <4>1. Owes(<<>>, f.up, f.pend)
        BY <2>6, OwesNothing DEF Owing, Forwarders
      <4> QED
        BY <3>1, <4>1 DEF Owing
    <3> QED
      BY <3>2 DEF g
  <2>7. ASSUME NEW h \in Heads, NEW u \in Tails
        PROVE  fw'[h][u] = fw[h][u] \/ fw'[h][u] = [fw[h][u] EXCEPT !.st = "dead", !.down = <<>>]
    <3>1. fw[h] \in [Tails -> Forwarders]
      BY DEF WorkerTypes
    <3> QED
      BY <2>1, <3>1
  <2>8. \A h \in Heads, u \in Tails : fw'[h][u] \in Forwarders /\ Owing(fw'[h][u])
    <3> SUFFICES ASSUME NEW h \in Heads, NEW u \in Tails
                 PROVE  fw'[h][u] \in Forwarders /\ Owing(fw'[h][u])
      OBVIOUS
    <3>1. fw[h][u] \in Forwarders /\ Owing(fw[h][u])
      BY DEF WorkerTypes, ForwarderInv
    <3> QED
      BY <2>6, <2>7, <3>1
  <2>9. fw' \in [Heads -> [Tails -> Forwarders]]
    <3>1. \A h \in Heads : fw[h] \in [Tails -> Forwarders] /\ fw'[h] = [u \in Tails |-> fw'[h][u]]
      BY <2>1 DEF WorkerTypes
    <3>2. fw' = [h \in Heads |-> fw'[h]]
      BY <2>1
    <3> QED
      BY <2>8, <3>1, <3>2
  <2>10. ForwarderInv'
    BY <2>8 DEF ForwarderInv, Owing
  <2>11. WorkerTypes'
    BY <2>1, <2>3, <2>4, <2>5, <2>9 DEF WorkerTypes
  <2> QED
    BY <1>0, <2>1, <2>3, <2>4, <2>10, <2>11, FrameSame DEF CallerInv
<1> QED
  BY <1>1, <1>2, <1>3 DEF Failures

(* The two halves of Next.                                                 *)
CallerStep == Caller \/ Coordinator \/ Producer \/ PipeSend \/ Reader

WorkerStep ==
    \/ \E w \in Workers : Register(w) \/ Unregister(w) \/ Disconnect(w)
    \/ \E h \in Heads : HeadWork(h)
    \/ \E h \in Heads, t \in Tails : Forwarder(h, t) \/ TailWork(h, t)
    \/ \E t \in Tails : \E q \in late[t] : LateWork(t, q)
    \/ Failures

LEMMA NextSplit == Next => CallerStep \/ WorkerStep
  BY DEF Next, CallerStep, WorkerStep

(* The steps of the workers keep the caller's side.                        *)
LEMMA WorkerStepKeeps ==
    ASSUME CallerInv, WorkerInv, WorkerStep
    PROVE  CallerInv' /\ WorkerInv' /\ RouteFrame /\ UNCHANGED <<coordVars, calls>>
<1>1. WorkerInv' /\ RouteFrame
  BY RegisterKeeps, DisconnectKeeps, HeadWorkKeeps, RelayKeeps, RelayEndKeeps, TailWorkKeeps,
     LateWorkKeeps, FailuresKeep DEF WorkerStep, Forwarder
<1>2. UNCHANGED <<coordVars, calls>>
  BY DEF WorkerStep, Forwarder, Failures, Register, Unregister, Disconnect, HeadWork, Relay, RelayEnd,
     TailWork, LateWork, BreakControl, BreakData, Die, Fault, coordVars, counts
<1>3. UNCHANGED <<pipelined, tl, valid, logits, pc, call, req, pipe, last, calls>>
  BY <1>2 DEF coordVars, sessionVars, callVars
<1>4. CallerTypes'
  BY <1>1, <1>3 DEF RouteFrame, CallerInv, CallerTypes
<1>5. RouteInv'
  <2>1. RouteInv' <=> /\ plan'.path # <<>> => IsRoute(plan'.path)
                      /\ plan'.ready \/ plan'.alive => plan'.path # <<>>
                      /\ pc' \in {"span", "wait", "pipe", "load", "remote"} => plan'.path # <<>>
                      /\ plan'.alive => conn'[plan'.path[1]] # "off"
    BY DEF RouteInv, IsRoute
  <2>2. /\ plan'.path = plan.path /\ plan'.ready = plan.ready
        /\ plan'.alive => plan.alive /\ conn'[plan.path[1]] # "off"
    BY <1>1 DEF RouteFrame
  <2> QED
    BY <1>3, <2>1, <2>2 DEF CallerInv, RouteInv
<1>6. SpanInv' /\ PipeInv' /\ SyncDelivers'
  BY <1>3 DEF CallerInv, SpanInv, PipeInv, SyncDelivers
<1>7. WindowInv'
  BY <1>3 DEF CallerInv, WindowInv
<1>8. LoadInv'
  <2>1. plan'.path = plan.path
    BY <1>1 DEF RouteFrame
  <2> QED
    BY <1>3, <2>1 DEF CallerInv, LoadInv
<1> QED
  BY <1>1, <1>2, <1>4, <1>5, <1>6, <1>7, <1>8 DEF CallerInv

LEMMA CallerStepKeepsCaller ==
    ASSUME CallerInv, WorkerTypes, CallerStep
    PROVE  CallerInv'
  BY SyncKeeps, EvalKeeps, CallLoadKeeps, RewindKeeps, SpanSendKeeps, SpanRecvKeeps, SpanEndKeeps,
     ReplayOnRouteKeeps, ForgetRouteKeeps, RerouteKeeps, ReplayFailedKeeps, LoadLocalKeeps,
     LoadShardKeeps, PipeAdmitKeeps, PipeSubmitKeeps, PipeCancelKeeps, PipeJoinKeeps, PipeSendKeeps,
     PipeReadKeeps, PipeReadEndKeeps DEF CallerStep, Caller, Coordinator, Producer, Reader

(* The steps of the caller keep the workers' side: work that is sent is    *)
(* good, and a session that is loaded has the hash of what it was given.   *)
LEMMA SendTyped ==
    ASSUME CallerInv, WorkerTypes, NEW m \in GoodWorks, Send(m)
    PROVE  down' \in [Heads -> Seq(GoodWorks)]
<1>1. CASE Ended
  BY <1>1 DEF Send, WorkerTypes
<1>2. CASE ~Ended
  <2>1. plan.path[1] \in Heads
    BY <1>2, RouteHead DEF Ended, CallerInv
  <2>2. Append(down[plan.path[1]], m) \in Seq(GoodWorks)
    BY <2>1, AppendProperties DEF WorkerTypes
  <2> QED
    BY <1>2, <2>1, <2>2 DEF Send, WorkerTypes
<1> QED
  BY <1>1, <1>2

LEMMA TakeTyped ==
    ASSUME CallerInv, WorkerTypes, Inbox # <<>>, TakeResult
    PROVE  up' \in [Heads -> Seq(GoodResults)] /\ box' \in Seq(GoodResults)
<1>1. CASE plan.alive
  <2>1. plan.path[1] \in Heads
    BY <1>1, RouteHead DEF CallerInv
  <2>2. Tail(up[plan.path[1]]) \in Seq(GoodResults)
    BY <1>1, <2>1, HeadTailProperties DEF WorkerTypes, Inbox
  <2> QED
    BY <1>1, <2>1, <2>2 DEF TakeResult, WorkerTypes
<1>2. CASE ~plan.alive
  <2>1. Tail(box) \in Seq(GoodResults)
    BY <1>2, HeadTailProperties DEF WorkerTypes, Inbox
  <2> QED
    BY <1>2, <2>1 DEF TakeResult, WorkerTypes
<1> QED
  BY <1>1, <1>2

(* The work of a span names the history it extends.                        *)
LEMMA SpanWork ==
    ASSUME CallerInv, WorkerTypes, pc = "span", NEW o \in Local(call.pos, call.reset /\ call.pos = 0), o.ok,
           NEW prefix, prefix = IF call.reset /\ call.pos = 0 THEN <<>> ELSE SubSeq(tl, 1, call.pos)
    PROVE  Work(call.pos, call.reset /\ call.pos = 0, prefix, req, o.kv) \in GoodWorks
<1> DEFINE i == call.pos
           reset == call.reset /\ i = 0
<1>1. /\ i \in Nat /\ i < Len(call.goal) /\ call.goal \in Histories /\ reset \in BOOLEAN
      /\ req \in Nat /\ tl \in Histories
  BY DEF CallerInv, SpanInv, CallerTypes, Calls
<1> HIDE DEF i, reset
<1>2. /\ o.kv \in Histories
      /\ o.kv = Append(IF reset THEN <<>> ELSE tl, call.goal[i + 1])
  BY <1>1, LocalOutcome DEF CallerInv, i, reset
<1>3. call.goal[i + 1] \in Tokens /\ Len(SubSeq(call.goal, 1, i)) = i
  BY <1>1, ExtendPrefix DEF Histories
<1>4. ~reset => tl = SubSeq(call.goal, 1, i)
  BY DEF CallerInv, SpanInv, i, reset
<1>5. ~reset => prefix = tl
  <2> SUFFICES ASSUME ~reset PROVE prefix = tl
    OBVIOUS
  <2>1. Len(tl) = i /\ prefix = SubSeq(tl, 1, Len(tl))
    BY <1>3, <1>4 DEF i, reset
  <2> QED
    BY <1>1, <2>1, SubSeqFull DEF Histories
<1>6. prefix \in Histories /\ o.kv = Append(prefix, call.goal[i + 1])
  <2>1. CASE reset
    BY <1>2, <2>1, EmptySeq DEF Histories, i, reset
  <2>2. CASE ~reset
    BY <1>1, <1>2, <1>5, <2>2
  <2> QED
    BY <2>1, <2>2
<1>7. Tails # {} => plan.path[2] \in Tails
  BY DEF CallerInv, RouteInv, IsRoute
<1>8. Work(i, reset, prefix, req, o.kv) \in GoodWorks
  BY <1>1, <1>2, <1>3, <1>6, <1>7 DEF Work, GoodWorks, Works
<1> QED
  BY <1>8 DEF i, reset

LEMMA CallerStepKeepsWorkers ==
    ASSUME CallerInv, WorkerInv, CallerStep
    PROVE  WorkerInv'
<1> USE DEF WorkerInv
<1>1. UNCHANGED <<fw, late>>
  BY DEF CallerStep, Caller, CallSync, CallEval, CallLoad, Rewind, Coordinator, SpanSend, SpanRecv,
     SpanEnd, ReplayOnRoute, ForgetRoute, Reroute, ReplayFailed, LoadLocal, LoadShard, Producer,
     PipeAdmit, PipeSubmit, PipeCancel, PipeJoin, PipeSend, Reader, PipeRead, PipeReadEnd, pipeRest,
     workerVars
<1>2. ForwarderInv'
  BY <1>1 DEF ForwarderInv, Owing
<1>3. <<>> \in Seq(GoodResults)
  BY EmptySeq
<1>4. \A ws : Shut(ws) \in [Workers -> {"open", "shut", "off"}]
  BY DEF Shut, WorkerTypes
<1>5. ASSUME UNCHANGED <<sess, reg, down, up>>, conn' \in [Workers -> {"open", "shut", "off"}],
             box' \in Seq(GoodResults)
      PROVE  WorkerInv'
  BY <1>1, <1>2, <1>5 DEF WorkerTypes, HashIsTimeline
<1>6. CASE Caller
  <2>1. UNCHANGED <<sess, reg, down, up, conn>> /\ (box' = box \/ box' = <<>>)
    BY <1>6 DEF Caller, CallSync, CallEval, CallLoad, Rewind, NoRouteFor, EnsureRoute, workerVars,
       headVars, planVars
  <2> QED
    BY <1>3, <1>5, <2>1 DEF WorkerTypes
<1>7. CASE SpanEnd \/ ReplayOnRoute \/ Reroute \/ ReplayFailed \/ LoadLocal \/ PipeJoin
  <2>1. UNCHANGED <<sess, reg, down, up, conn, box>>
    BY <1>7 DEF SpanEnd, ReplayOnRoute, Reroute, ReplayFailed, LoadLocal, PipeJoin, workerVars, headVars,
       planVars
  <2> QED
    BY <1>5, <2>1 DEF WorkerTypes
<1>8. CASE PipeAdmit \/ PipeSubmit \/ PipeCancel \/ PipeReadEnd
  <2>1. UNCHANGED <<sess, reg, down, up, box>> /\ (conn' = conn \/ \E ws : conn' = Shut(ws))
    BY <1>8 DEF PipeAdmit, PipeSubmit, PipeCancel, PipeReadEnd, ReaderStops, ShutRoute, pipeRest, headVars
  <2> QED
    BY <1>4, <1>5, <2>1 DEF WorkerTypes
<1>9. CASE ForgetRoute
  <2>1. /\ UNCHANGED <<sess, down, up>> /\ box' = <<>> /\ reg' \in SUBSET Workers
        /\ \E ws : conn' = Shut(ws)
    BY <1>9 DEF ForgetRoute, headVars, WorkerTypes
  <2> QED
    BY <1>1, <1>2, <1>3, <1>4, <2>1 DEF WorkerTypes, HashIsTimeline
<1>10. CASE SpanSend
  <2>1. UNCHANGED <<sess, reg, conn, up, box>>
    BY <1>10 DEF SpanSend, planVars
  <2>2. down' \in [Heads -> Seq(GoodWorks)]
    <3> DEFINE i == call.pos
               reset == call.reset /\ i = 0
               prefix == IF reset THEN <<>> ELSE SubSeq(tl, 1, i)
    <3>1. PICK o \in Local(i, reset) :
            (o.ok /\ Send(Work(i, reset, prefix, req, o.kv))) \/ UNCHANGED down
      BY <1>10 DEF SpanSend
    <3>2. CASE o.ok /\ Send(Work(i, reset, prefix, req, o.kv))
      <4>1. Work(i, reset, prefix, req, o.kv) \in GoodWorks
        BY <1>10, <3>2, SpanWork DEF SpanSend
      <4> QED
        BY <3>2, <4>1, SendTyped
    <3> QED
      BY <3>1, <3>2 DEF WorkerTypes
  <2> QED
    BY <1>1, <1>2, <2>1, <2>2 DEF WorkerTypes, HashIsTimeline
<1>11. CASE PipeSend
  <2>1. UNCHANGED <<sess, reg, up, box>> /\ (conn' = conn \/ \E ws : conn' = Shut(ws))
    BY <1>11 DEF PipeSend, pipeRest, ShutRoute
  <2>2. down' \in [Heads -> Seq(GoodWorks)]
    <3>1. Send(Head(pipe.slots)) \/ UNCHANGED down
      BY <1>11 DEF PipeSend
    <3>2. Head(pipe.slots) \in GoodWorks
      BY <1>11, HeadTailProperties DEF PipeSend, CallerInv, CallerTypes, Pipes
    <3> QED
      BY <3>1, <3>2, SendTyped DEF WorkerTypes
  <2> QED
    BY <1>1, <1>2, <1>4, <2>1, <2>2 DEF WorkerTypes, HashIsTimeline
<1>12. CASE SpanRecv \/ PipeRead
  <2>1. UNCHANGED <<sess, reg, down>> /\ (conn' = conn \/ \E ws : conn' = Shut(ws))
    BY <1>12 DEF SpanRecv, PipeRead, ReaderStops, ShutRoute, pipeRest
  <2>2. up' \in [Heads -> Seq(GoodResults)] /\ box' \in Seq(GoodResults)
    BY <1>12, TakeTyped DEF SpanRecv, PipeRead
  <2> QED
    BY <1>1, <1>2, <1>4, <2>1, <2>2 DEF WorkerTypes, HashIsTimeline
<1>13. CASE LoadShard
  <2> DEFINE w == plan.path[call.pos]
  <2>1. /\ UNCHANGED <<reg, conn, down, up, box>>
        /\ UNCHANGED sess \/ \E o \in Restored(sess[w], call.goal) : sess' = [sess EXCEPT ![w] = o.s]
    BY <1>13 DEF LoadShard, planVars, headVars
  <2>2. w \in Workers /\ call.goal \in Histories
    <3>1. /\ pc = "load" /\ call.pos > 0 /\ call.pos \in Nat /\ call.pos <= Len(plan.path)
          /\ plan.path \in Seq(Workers) /\ call.goal \in Histories /\ Len(plan.path) \in Nat
      BY <1>13 DEF LoadShard, CallerInv, LoadInv, RouteInv, IsRoute, CallerTypes, Calls
    <3> QED
      BY <3>1, ElementOfSeq
  <2>3. ASSUME NEW o \in Restored(sess[w], call.goal)
        PROVE  o.s \in Sessions /\ (o.s.hash # None => o.s.hash = o.s.kv)
    <3>1. sess[w] \in Sessions
      BY <2>2 DEF WorkerTypes
    <3>2. \/ o = [s |-> [kv |-> call.goal, valid |-> TRUE, hash |-> call.goal], ok |-> TRUE]
          \/ o = [s |-> [sess[w] EXCEPT !.hash = None], ok |-> FALSE]
          \/ o = [s |-> Failed(sess[w]), ok |-> FALSE]
      BY <2>3 DEF Restored
    <3> HIDE DEF w
    <3>3. CASE o = [s |-> [kv |-> call.goal, valid |-> TRUE, hash |-> call.goal], ok |-> TRUE]
      BY <2>2, <3>3 DEF Sessions
    <3>4. CASE o = [s |-> [sess[w] EXCEPT !.hash = None], ok |-> FALSE]
      BY <3>1, <3>4 DEF Sessions
    <3>5. CASE o = [s |-> Failed(sess[w]), ok |-> FALSE]
      BY <3>1, <3>5 DEF Sessions, Failed
    <3> QED
      BY <3>2, <3>3, <3>4, <3>5
  <2>4. sess' \in [Workers -> Sessions] /\ HashIsTimeline'
    <3>1. CASE UNCHANGED sess
      BY <3>1 DEF WorkerTypes, HashIsTimeline
    <3>2. ASSUME NEW o \in Restored(sess[w], call.goal), sess' = [sess EXCEPT ![w] = o.s]
          PROVE  sess' \in [Workers -> Sessions] /\ HashIsTimeline'
      BY <2>2, <2>3, <3>2, SessionTyped
    <3> QED
      BY <2>1, <3>1, <3>2
  <2> QED
    BY <1>1, <1>2, <2>1, <2>4 DEF WorkerTypes
<1> QED
  BY <1>6, <1>7, <1>8, <1>9, <1>10, <1>11, <1>12, <1>13 DEF CallerStep, Coordinator, Producer, Reader

-----------------------------------------------------------------------------
(* The theorems.                                                           *)
LEMMA InitInv == Init => IInv
<1> SUFFICES ASSUME Init PROVE IInv
  OBVIOUS
<1>1. /\ pipelined \in BOOLEAN /\ tl = <<>> /\ valid = FALSE /\ logits = None
      /\ plan = NoRoute /\ box = <<>> /\ pc = "idle" /\ call = NoCall /\ req = 1 /\ pipe = NoPipe
      /\ last = NoLast /\ reg = {} /\ conn = [w \in Workers |-> "off"]
      /\ sess = [w \in Workers |-> NewSession]
      /\ down = [h \in Heads |-> <<>>] /\ up = [h \in Heads |-> <<>>]
      /\ fw = [h \in Heads |-> [t \in Tails |-> NoForwarder]]
      /\ late = [t \in Tails |-> {}] /\ calls = 0 /\ faults = 0
  BY BoundAssumption DEF Init
<1>2. \A S : <<>> \in Seq(S)
  BY EmptySeq
<1>3. CallerTypes
  <2>1. {MaxLen, MaxCalls, MaxFaults} \subseteq Nat /\ tl \in Histories
    BY <1>1, <1>2, BoundAssumption DEF Histories
  <2>2. calls \in 0 .. MaxCalls /\ faults \in 0 .. MaxFaults /\ req \in Nat \ {0}
    BY <1>1, <2>1
  <2> QED
    BY <1>1, <2>1, <2>2, NoValues DEF CallerTypes
<1>4. WorkerTypes
  BY <1>1, <1>2, NoValues DEF WorkerTypes
<1>5. HashIsTimeline
  BY <1>1 DEF HashIsTimeline, NewSession
<1>6. ForwarderInv
  <2>1. Len(<<>>) = 0
    BY EmptySeq
  <2>2. Owing(NoForwarder)
    BY <2>1 DEF Owing, Owes, NoForwarder
  <2> QED
    BY <1>1, <2>2 DEF ForwarderInv
<1>7. RouteInv /\ SpanInv /\ PipeInv /\ LoadInv /\ SyncDelivers
  BY <1>1 DEF RouteInv, SpanInv, PipeInv, LoadInv, SyncDelivers, NoRoute, NoCall, NoLast
<1>8. WindowInv
  <2>1. Len(<<>>) = 0 /\ Depth \in Nat \ {0} /\ Window \in Nat \ {0}
    BY EmptySeq, BoundAssumption
  <2> QED
    BY <1>1, <2>1 DEF WindowInv, NoPipe
<1> QED
  BY <1>3, <1>4, <1>5, <1>6, <1>7, <1>8 DEF IInv, CallerInv, WorkerInv

LEMMA StepInv == IInv /\ [Next]_vars => IInv'
<1> SUFFICES ASSUME IInv, [Next]_vars PROVE IInv'
  OBVIOUS
<1>1. CASE CallerStep
  BY <1>1, CallerStepKeepsCaller, CallerStepKeepsWorkers DEF IInv, WorkerInv
<1>2. CASE WorkerStep
  BY <1>2, WorkerStepKeeps DEF IInv
<1>3. CASE UNCHANGED vars
  <2>1. /\ UNCHANGED <<pipelined, tl, valid, logits, plan, box, pc, call, req, pipe, last, calls, faults>>
        /\ UNCHANGED <<reg, conn, sess, down, up, fw, late>>
    BY <1>3 DEF vars, sessionVars, planVars, callVars, workerVars, headVars, counts
  <2>2. CallerTypes' /\ SpanInv' /\ PipeInv' /\ LoadInv' /\ SyncDelivers'
    BY <2>1 DEF IInv, CallerInv, CallerTypes, SpanInv, PipeInv, LoadInv, SyncDelivers
  <2>3. RouteInv'
    BY <2>1 DEF IInv, CallerInv, RouteInv, IsRoute
  <2>4. WindowInv'
    BY <2>1 DEF IInv, CallerInv, WindowInv
  <2>5. WorkerTypes' /\ HashIsTimeline'
    BY <2>1 DEF IInv, WorkerInv, WorkerTypes, HashIsTimeline
  <2>6. ForwarderInv'
    BY <2>1 DEF IInv, WorkerInv, ForwarderInv, Owing
  <2> QED
    BY <2>2, <2>3, <2>4, <2>5, <2>6 DEF IInv, CallerInv, WorkerInv
<1> QED
  BY <1>1, <1>2, <1>3, NextSplit

(* Every reachable state satisfies the inductive invariant.                *)
THEOREM Invariance == Spec => []IInv
  BY InitInv, StepInv, PTL DEF Spec

(* The types, and the two bounds of the pipelined prefill: at most Depth   *)
(* spans computed and not sent, at most Window of them not answered        *)
(* (ds4_dist_prefill_sender, dist_prefill_reader_wait_flow_window).        *)
THEOREM TypesCorrect == Spec => []TypeOK
<1>1. IInv => TypeOK
  <2> SUFFICES ASSUME IInv PROVE TypeOK
    OBVIOUS
  <2>1. Seq(GoodWorks) \subseteq Seq(Works) /\ Seq(GoodResults) \subseteq Seq(Results)
    BY SeqMonotonic DEF GoodWorks, GoodResults
  <2>2. CallerTypes /\ WorkerTypes /\ WindowInv
    BY DEF IInv, CallerInv, WorkerInv
  <2>3. pipe \in [prod : {"admit", "slot", "finish", "cancel", "join"}, slots : Seq(Works),
                  first : Nat, count : Nat, sub : Nat, comp : Nat, done : BOOLEAN, rrc : Rcs,
                  stop : BOOLEAN, src : Rcs, final : Histories \cup {None}]
    BY <2>1, <2>2 DEF CallerTypes, Pipes
  <2>4. fw \in [Heads -> [Tails -> [st : {"none", "open", "dead", "closed"}, down : Seq(Works),
                                    up : Seq(Results), pend : Seq(Nat)]]]
    <3>1. Forwarders \subseteq [st : {"none", "open", "dead", "closed"}, down : Seq(Works),
                                up : Seq(Results), pend : Seq(Nat)]
      BY <2>1 DEF Forwarders
    <3> QED
      BY <2>2, <3>1 DEF WorkerTypes
  <2>5. /\ box \in Seq(Results) /\ down \in [Heads -> Seq(Works)] /\ up \in [Heads -> Seq(Results)]
        /\ \A t \in Tails : late[t] \subseteq Seq(Works) \ {<<>>}
    BY <2>1, <2>2 DEF WorkerTypes
  <2>6. Len(pipe.slots) <= Depth /\ pipe.sub - pipe.comp <= Window
    BY <2>2 DEF WindowInv
  <2>7. /\ pipelined \in BOOLEAN
        /\ tl \in Histories /\ valid \in BOOLEAN /\ logits \in Histories \cup {None}
        /\ plan \in [ready : BOOLEAN, fresh : BOOLEAN, path : Seq(Workers), alive : BOOLEAN]
        /\ pc \in {"idle", "span", "wait", "pipe", "remote", "broken", "reroute", "load"}
        /\ call \in [op : {"none", "sync", "eval", "load"}, tok : Tokens \cup {None}, asked : Histories,
                     goal : Histories, pos : Nat, reset : BOOLEAN, replay : BOOLEAN]
        /\ req \in Nat \ {0}
        /\ last \in [ok : BOOLEAN, op : {"none", "sync", "eval", "load"}, asked : Histories]
        /\ calls \in 0 .. MaxCalls /\ faults \in 0 .. MaxFaults
    BY <2>2 DEF CallerTypes, Plans, Calls, Lasts, Ops
  <2>8. /\ reg \subseteq Workers /\ conn \in [Workers -> {"open", "shut", "off"}]
        /\ sess \in [Workers -> [kv : Histories, valid : BOOLEAN, hash : Histories \cup {None}]]
    BY <2>2 DEF WorkerTypes, Sessions
  <2> QED
    BY <2>3, <2>4, <2>5, <2>6, <2>7, <2>8 DEF TypeOK
<1> QED
  BY <1>1, Invariance, PTL

(* The hash that a worker keeps is the hash of its KV state, whatever      *)
(* failed before, so that it refuses work its state is not the prefix of   *)
(* (dist_worker_process_work_payload).                                     *)
THEOREM HashesFollowTimelines == Spec => []HashIsTimeline
<1>1. IInv => HashIsTimeline
  BY DEF IInv, WorkerInv
<1> QED
  BY <1>1, Invariance, PTL

(* A sync or a load that reports success leaves the session with what was  *)
(* asked for, replayed or not (ds4_dist_session_sync,                      *)
(* ds4_dist_session_load_payload).                                         *)
THEOREM SyncsDeliver == Spec => []SyncDelivers
<1>1. IInv => SyncDelivers
  BY DEF IInv, CallerInv
<1> QED
  BY <1>1, Invariance, PTL

(* Logits are replaced only by logits that every stage computed from the   *)
(* timeline the session then has (dist_coordinator_eval_remote_on_fd, the  *)
(* pipelined prefill and ds4_dist_session_load_payload).                   *)
THEOREM LogitsBelongToTimeline == Spec => LogitsOfTimeline
<1>1. IInv /\ [Next]_vars => [logits' # logits => logits' = tl']_vars
  <2> SUFFICES ASSUME IInv, Next PROVE logits' # logits => logits' = tl'
    OBVIOUS
  <2>1. CASE SpanRecv \/ PipeJoin \/ LoadShard
    BY <2>1, SpanRecvKeeps, PipeJoinKeeps, LoadShardKeeps DEF IInv, WorkerInv
  <2>2. CASE ~(SpanRecv \/ PipeJoin \/ LoadShard) /\ CallerStep
    BY <2>2 DEF CallerStep, Caller, CallSync, CallEval, CallLoad, Rewind, Coordinator, SpanSend, SpanEnd,
       ReplayOnRoute, ForgetRoute, Reroute, ReplayFailed, LoadLocal, LoadFailed, Producer, PipeAdmit,
       PipeSubmit, PipeCancel, PipeSend, Reader, PipeRead, PipeReadEnd, sessionVars
  <2>3. CASE WorkerStep
    BY <2>3, WorkerStepKeeps DEF IInv, coordVars, sessionVars
  <2> QED
    BY <2>1, <2>2, <2>3, NextSplit
<1> QED
  BY <1>1, Invariance, PTL DEF Spec, LogitsOfTimeline

-----------------------------------------------------------------------------
(* What the control connections carry.                                     *)

(* The answers that the call still expects on the connection of its route. *)
Expected ==
    IF pc = "wait" THEN 1
    ELSE IF pc = "pipe" THEN pipe.sub - Len(pipe.slots) - pipe.comp ELSE 0

OnRoute(h) == plan.alive /\ plan.path[1] = h

NextHop == IF Tails = {} THEN None ELSE plan.path[2]

(* The requests that the head of the route waits for its tail to answer.   *)
Pend(h) == IF Tails = {} THEN <<>> ELSE fw[h][plan.path[2]].pend

Carries(d, u, p, n) == Len(d) + Len(u) + Len(p) = n

AllFor(s, t) == \A i \in 1 .. Len(s) : s[i].next = t

Unused(h) == down[h] = <<>> /\ up[h] = <<>> /\ \A t \in Tails : fw[h][t].pend = <<>>

(* One piece of work, one request open at the tail or one result for each  *)
(* answer expected; the pipeline has not failed.                           *)
InUse(h) ==
    /\ Carries(down[h], up[h], Pend(h), Expected)
    /\ AllFor(down[h], NextHop)
    /\ \A t \in Tails : t # NextHop => fw[h][t].pend = <<>>
    /\ pc = "pipe" => ~pipe.stop /\ pipe.rrc = "ok"

(* A connection that has not been ended carries what the call expects on   *)
(* it, and nothing if the call does not use it.                            *)
FlowInv ==
    /\ \A h \in Heads : conn[h] # "shut" => IF OnRoute(h) THEN InUse(h) ELSE Unused(h)
    /\ AllFor(pipe.slots, NextHop)

LEMMA CarriesMore ==
    ASSUME NEW S, NEW R, NEW d \in Seq(S), NEW u \in Seq(R), NEW p \in Seq(Nat), NEW n \in Int,
           Carries(d, u, p, n)
    PROVE  /\ \A m \in S : Carries(Append(d, m), u, p, n + 1)
           /\ u # <<>> => Carries(d, Tail(u), p, n - 1)
           /\ d # <<>> => \A r \in R : Carries(Tail(d), Append(u, r), p, n)
           /\ d # <<>> => \A k \in Nat : Carries(Tail(d), u, Append(p, k), n)
           /\ p # <<>> => \A r \in R : Carries(d, Append(u, r), Tail(p), n)
           /\ n = 0 => d = <<>> /\ u = <<>> /\ p = <<>>
<1>1. /\ Len(d) \in Nat /\ Len(u) \in Nat /\ Len(p) \in Nat
      /\ d # <<>> => Len(Tail(d)) = Len(d) - 1
      /\ u # <<>> => Len(Tail(u)) = Len(u) - 1
      /\ p # <<>> => Len(Tail(p)) = Len(p) - 1
      /\ Len(d) = 0 => d = <<>>
      /\ Len(u) = 0 => u = <<>>
      /\ Len(p) = 0 => p = <<>>
  BY LenProperties, HeadTailProperties, EmptySeq
<1>2. /\ \A m \in S : Len(Append(d, m)) = Len(d) + 1
      /\ \A r \in R : Len(Append(u, r)) = Len(u) + 1
      /\ \A k \in Nat : Len(Append(p, k)) = Len(p) + 1
  BY AppendProperties
<1>3. Len(d) + Len(u) + Len(p) = n
  BY DEF Carries
<1>4. \A m \in S : Carries(Append(d, m), u, p, n + 1)
  BY <1>1, <1>2, <1>3 DEF Carries
<1>5. u # <<>> => Carries(d, Tail(u), p, n - 1)
  BY <1>1, <1>3 DEF Carries
<1>6. ASSUME d # <<>>, NEW r \in R PROVE Carries(Tail(d), Append(u, r), p, n)
  <2>1. Len(Tail(d)) = Len(d) - 1 /\ Len(Append(u, r)) = Len(u) + 1
    BY <1>1, <1>2, <1>6
  <2>2. (Len(d) - 1) + (Len(u) + 1) + Len(p) = n
    BY <1>1, <1>3
  <2>3. Len(Tail(d)) + Len(Append(u, r)) + Len(p) = n
    BY ONLY <2>1, <2>2, Zenon
  <2> QED
    BY <2>3 DEF Carries
<1>7. ASSUME d # <<>>, NEW k \in Nat PROVE Carries(Tail(d), u, Append(p, k), n)
  <2>1. Len(Tail(d)) = Len(d) - 1 /\ Len(Append(p, k)) = Len(p) + 1
    BY <1>1, <1>2, <1>7
  <2>2. (Len(d) - 1) + Len(u) + (Len(p) + 1) = n
    BY <1>1, <1>3
  <2>3. Len(Tail(d)) + Len(u) + Len(Append(p, k)) = n
    BY ONLY <2>1, <2>2, Zenon
  <2> QED
    BY <2>3 DEF Carries
<1>8. ASSUME p # <<>>, NEW r \in R PROVE Carries(d, Append(u, r), Tail(p), n)
  <2>1. Len(Tail(p)) = Len(p) - 1 /\ Len(Append(u, r)) = Len(u) + 1
    BY <1>1, <1>2, <1>8
  <2>2. Len(d) + (Len(u) + 1) + (Len(p) - 1) = n
    BY <1>1, <1>3
  <2>3. Len(d) + Len(Append(u, r)) + Len(Tail(p)) = n
    BY ONLY <2>1, <2>2, Zenon
  <2> QED
    BY <2>3 DEF Carries
<1>9. n = 0 => d = <<>> /\ u = <<>> /\ p = <<>>
  BY <1>1, <1>3
<1> QED
  BY <1>4, <1>5, <1>6, <1>7, <1>8, <1>9

LEMMA CarriesNothing == Carries(<<>>, <<>>, <<>>, 0) /\ \A t : AllFor(<<>>, t)
<1>1. Len(<<>>) = 0
  BY EmptySeq
<1> QED
  BY <1>1 DEF Carries, AllFor

LEMMA AllForMore ==
    ASSUME NEW S, NEW s \in Seq(S), NEW t, AllFor(s, t)
    PROVE  /\ \A m \in S : m.next = t => AllFor(Append(s, m), t)
           /\ s # <<>> => Head(s).next = t /\ AllFor(Tail(s), t)
<1>1. ASSUME NEW m \in S, m.next = t PROVE AllFor(Append(s, m), t)
  <2>1. /\ Len(Append(s, m)) = Len(s) + 1 /\ Len(s) \in Nat
        /\ \A i \in 1 .. Len(s) : Append(s, m)[i] = s[i]
        /\ Append(s, m)[Len(s) + 1] = m
    BY AppendProperties, LenProperties
  <2> QED
    BY <1>1, <2>1 DEF AllFor
<1>2. ASSUME s # <<>> PROVE Head(s).next = t /\ AllFor(Tail(s), t)
  <2>1. /\ Len(s) \in Nat \ {0} /\ Head(s) = s[1] /\ Len(Tail(s)) = Len(s) - 1
        /\ \A i \in 1 .. Len(Tail(s)) : Tail(s)[i] = s[i + 1]
    BY <1>2, HeadTailProperties, LenProperties, EmptySeq
  <2> QED
    BY <2>1 DEF AllFor
<1> QED
  BY <1>1, <1>2

LEMMA FlowTypes ==
    ASSUME IInv
    PROVE  /\ Expected \in Int
           /\ \A h \in Heads : /\ down[h] \in Seq(GoodWorks) /\ up[h] \in Seq(GoodResults)
                               /\ OnRoute(h) => Pend(h) \in Seq(Nat)
                               /\ OnRoute(h) /\ Tails # {} => plan.path[2] \in Tails
                               /\ \A t \in Tails : fw[h][t] \in Forwarders
<1>1. CallerTypes /\ WorkerTypes /\ RouteInv
  BY DEF IInv, CallerInv, WorkerInv
<1>2. pipe.sub \in Nat /\ pipe.comp \in Nat /\ Len(pipe.slots) \in Nat
  BY <1>1, LenProperties DEF CallerTypes, Pipes
<1>3. Expected \in Int
  BY <1>2 DEF Expected
<1>4. ASSUME NEW h \in Heads
      PROVE  /\ down[h] \in Seq(GoodWorks) /\ up[h] \in Seq(GoodResults)
             /\ \A t \in Tails : fw[h][t] \in Forwarders
  BY <1>1 DEF WorkerTypes
<1>5. ASSUME NEW h \in Heads, OnRoute(h)
      PROVE  Pend(h) \in Seq(Nat) /\ (Tails # {} => plan.path[2] \in Tails)
  <2>1. Tails # {} => plan.path[2] \in Tails
    BY <1>1, <1>5 DEF RouteInv, IsRoute, OnRoute
  <2> QED
    BY <1>4, <2>1, EmptySeq DEF Pend, Forwarders
<1> QED
  BY <1>3, <1>4, <1>5

(* A connection on which nothing is expected carries nothing, whatever the *)
(* route.                                                                  *)
LEMMA AtRest ==
    ASSUME IInv, FlowInv, NEW h \in Heads, conn[h] # "shut", OnRoute(h) => Expected = 0
    PROVE  Unused(h)
<1>1. CASE OnRoute(h)
  <2>1. down[h] = <<>> /\ up[h] = <<>> /\ Pend(h) = <<>>
    BY <1>1, FlowTypes, CarriesMore DEF FlowInv, InUse
  <2>2. ASSUME NEW t \in Tails PROVE fw[h][t].pend = <<>>
    BY <1>1, <2>1 DEF FlowInv, InUse, Pend, NextHop
  <2> QED
    BY <2>1, <2>2 DEF Unused
<1>2. CASE ~OnRoute(h)
  BY <1>2 DEF FlowInv
<1> QED
  BY <1>1, <1>2

(* Steps that start or end a call, change the route or end a connection    *)
(* leave the connections at rest.                                          *)
LEMMA FlowRests ==
    ASSUME IInv, IInv', FlowInv, UNCHANGED <<down, up, fw>>,
           \A h \in Heads : conn'[h] # "shut" => conn'[h] = conn[h],
           \A h \in Heads : OnRoute(h) /\ conn'[h] # "shut" => Expected = 0,
           Expected' = 0, pc' = "pipe" => ~pipe'.stop /\ pipe'.rrc = "ok", pipe'.slots = <<>>
    PROVE  FlowInv'
<1>1. ASSUME NEW h \in Heads, conn'[h] # "shut" PROVE (IF OnRoute(h) THEN InUse(h) ELSE Unused(h))'
  <2>1. Unused(h) /\ Unused(h)'
    BY <1>1, AtRest DEF Unused
  <2>2. CASE OnRoute(h)'
    <3>1. Tails # {} => plan'.path[2] \in Tails
      BY <2>2, FlowTypes DEF IInv, CallerInv, RouteInv, IsRoute, OnRoute
    <3>2. Pend(h)' = <<>>
      BY <2>1, <3>1 DEF Pend, Unused
    <3>3. /\ Carries(down[h], up[h], Pend(h), Expected)' /\ AllFor(down[h], NextHop)'
      BY <2>1, <3>2, CarriesNothing DEF Unused, Carries, AllFor
    <3> QED
      BY <2>1, <2>2, <3>3 DEF InUse, Unused
  <2> QED
    BY <2>1, <2>2
<1>2. AllFor(pipe.slots, NextHop)'
  BY CarriesNothing DEF AllFor
<1> QED
  BY <1>1, <1>2 DEF FlowInv

(* Steps that leave the connections and what is expected of them alone.    *)
LEMMA FlowStays ==
    ASSUME IInv, FlowInv, UNCHANGED <<down, up>>, plan'.path = plan.path, plan'.alive = plan.alive,
           \A h \in Heads, t \in Tails : fw'[h][t].pend = fw[h][t].pend,
           \A h \in Heads : conn'[h] # "shut" => conn'[h] = conn[h],
           \A h \in Heads : OnRoute(h) /\ conn'[h] # "shut" =>
                /\ Expected' = Expected
                /\ pc' = "pipe" => pc = "pipe" /\ (pipe'.stop <=> pipe.stop) /\ pipe'.rrc = pipe.rrc,
           AllFor(pipe'.slots, NextHop)
    PROVE  FlowInv'
<1>1. NextHop' = NextHop /\ \A h \in Heads : OnRoute(h)' <=> OnRoute(h)
  BY DEF NextHop, OnRoute
<1>2. ASSUME NEW h \in Heads, conn'[h] # "shut" PROVE (IF OnRoute(h) THEN InUse(h) ELSE Unused(h))'
  <2>1. CASE OnRoute(h)
    <3>1. Pend(h)' = Pend(h)
      BY <2>1, FlowTypes DEF Pend
    <3>2. InUse(h)
      BY <1>2, <2>1 DEF FlowInv
    <3>3. Carries(down[h], up[h], Pend(h), Expected)' /\ AllFor(down[h], NextHop)'
      BY <1>1, <1>2, <2>1, <3>1, <3>2 DEF InUse, Carries, AllFor
    <3> QED
      BY <1>1, <1>2, <2>1, <3>2, <3>3 DEF InUse
  <2>2. CASE ~OnRoute(h)
    BY <1>1, <1>2, <2>2 DEF FlowInv, Unused
  <2> QED
    BY <2>1, <2>2
<1>3. AllFor(pipe.slots, NextHop)'
  BY <1>1 DEF AllFor
<1> QED
  BY <1>2, <1>3 DEF FlowInv

(* A call that starts, or has left the connection, expects nothing.        *)
Resting == Expected = 0 /\ (pc = "pipe" => ~pipe.stop /\ pipe.rrc = "ok") /\ pipe.slots = <<>>

LEMMA StartRests ==
    ASSUME NEW c, Start(c)
    PROVE  Resting'
<1>1. CASE pc' = "pipe" /\ pipe' = [NoPipe EXCEPT !.first = req, !.count = Len(c.goal) - c.pos]
  <2>1. /\ pipe'.sub = 0 /\ pipe'.comp = 0 /\ pipe'.slots = <<>> /\ ~pipe'.stop /\ pipe'.rrc = "ok"
    BY <1>1 DEF NoPipe
  <2>2. Len(pipe'.slots) = 0
    BY <2>1, EmptySeq
  <2> QED
    BY <1>1, <2>1, <2>2 DEF Resting, Expected
<1>2. CASE pc' = "span" /\ pipe' = NoPipe
  BY <1>2 DEF Resting, Expected, NoPipe
<1> QED
  BY <1>1, <1>2 DEF Start

LEMMA LeavesRest ==
    ASSUME IInv', pc' \notin {"wait", "pipe"}
    PROVE  Resting'
<1>1. pipe' = NoPipe
  BY DEF IInv, CallerInv, WindowInv
<1> QED
  BY <1>1 DEF Resting, Expected, NoPipe

LEMMA CallsFlow ==
    ASSUME IInv, IInv', FlowInv, Caller
    PROVE  FlowInv'
<1>1. UNCHANGED <<down, up, fw, conn>> /\ pc = "idle"
  BY DEF Caller, CallSync, CallEval, CallLoad, Rewind, workerVars, headVars
<1>2. pc' \in {"idle", "load"} \/ \E c : Start(c)
  BY <1>1 DEF Caller, CallSync, CallEval, CallLoad, Rewind, NoRouteFor
<1>3. Resting'
  <2>1. CASE pc' \in {"idle", "load"}
    BY <2>1, LeavesRest
  <2> QED
    BY <1>2, <2>1, StartRests
<1>4. Expected = 0
  BY <1>1 DEF Expected
<1> QED
  BY <1>1, <1>3, <1>4, FlowRests DEF Resting

LEMMA ShutFlow ==
    ASSUME IInv, NEW ws, conn' = Shut(ws)
    PROVE  /\ \A w \in Workers : conn'[w] # "shut" => conn'[w] = conn[w]
           /\ \A w \in Workers : w \in ws /\ conn'[w] # "shut" => conn'[w] = "off"
  BY DEF IInv, WorkerInv, WorkerTypes, Shut

LEMMA RecoveryFlows ==
    ASSUME IInv, IInv', FlowInv, ReplayOnRoute \/ ForgetRoute \/ Reroute \/ ReplayFailed
    PROVE  FlowInv'
<1>1. UNCHANGED <<down, up, fw>> /\ pc \in {"remote", "broken", "reroute"}
  BY DEF ReplayOnRoute, ForgetRoute, Reroute, ReplayFailed, workerVars, headVars
<1>2. \A h \in Heads : conn'[h] # "shut" => conn'[h] = conn[h]
  <2>1. conn' = conn \/ \E ws : conn' = Shut(ws)
    BY DEF ReplayOnRoute, ForgetRoute, Reroute, ReplayFailed, workerVars
  <2> QED
    BY <2>1, ShutFlow DEF Workers
<1>3. pc' \in {"idle", "reroute"} \/ \E c : Start(c)
  BY DEF ReplayOnRoute, ForgetRoute, Reroute, ReplayFailed, Replay, Return
<1>4. Resting'
  <2>1. CASE pc' \in {"idle", "reroute"}
    BY <2>1, LeavesRest
  <2> QED
    BY <1>3, <2>1, StartRests
<1>5. Expected = 0
  BY <1>1 DEF Expected
<1> QED
  BY <1>1, <1>2, <1>4, <1>5, FlowRests DEF Resting

LEMMA LoadFlows ==
    ASSUME IInv, IInv', FlowInv, LoadLocal \/ LoadShard
    PROVE  FlowInv'
<1>1. UNCHANGED <<down, up, fw, conn>> /\ pc = "load"
  BY DEF LoadLocal, LoadShard, workerVars, headVars
<1>2. pc' \in {"idle", "load"}
  BY <1>1 DEF LoadLocal, LoadShard, LoadFailed, Return
<1>3. Resting'
  BY <1>2, LeavesRest
<1>4. Expected = 0
  BY <1>1 DEF Expected
<1> QED
  BY <1>1, <1>3, <1>4, FlowRests DEF Resting

(* The connection has ended.                                               *)
LEMMA EndedUnused ==
    ASSUME IInv, Ended, NEW h \in Heads, OnRoute(h)
    PROVE  conn[h] = "shut"
<1>1. conn[h] \in {"open", "shut", "off"} /\ conn[h] # "off"
  BY DEF IInv, WorkerInv, WorkerTypes, CallerInv, RouteInv, OnRoute, Workers
<1> QED
  BY <1>1 DEF Ended, OnRoute

LEMMA SpanEndFlows ==
    ASSUME IInv, IInv', FlowInv, SpanEnd
    PROVE  FlowInv'
<1>1. UNCHANGED <<down, up, fw, conn>> /\ pc' = "broken" /\ Ended
  BY DEF SpanEnd, workerVars, headVars, Fail
<1>2. Resting'
  BY <1>1, LeavesRest
<1> QED
  BY <1>1, <1>2, EndedUnused, FlowRests DEF Resting

(* Work is sent: one more answer is expected.                              *)
LEMMA SendFlows ==
    ASSUME IInv, FlowInv, NEW m \in GoodWorks, m.next = NextHop, Send(m), UNCHANGED <<plan, conn, up, fw>>,
           Expected' = Expected + 1, AllFor(pipe'.slots, NextHop),
           pc' = "pipe" => pc = "pipe" /\ (pipe'.stop <=> pipe.stop) /\ pipe'.rrc = pipe.rrc
    PROVE  FlowInv'
<1>1. NextHop' = NextHop /\ \A h \in Heads : (OnRoute(h)' <=> OnRoute(h)) /\ Pend(h)' = Pend(h)
  BY DEF NextHop, OnRoute, Pend
<1>2. ASSUME NEW h \in Heads, conn'[h] # "shut" PROVE (IF OnRoute(h) THEN InUse(h) ELSE Unused(h))'
  <2>1. CASE OnRoute(h)
    <3>1. /\ InUse(h) /\ down[h] \in Seq(GoodWorks) /\ up[h] \in Seq(GoodResults)
          /\ Pend(h) \in Seq(Nat) /\ Expected \in Int
      BY <1>2, <2>1, FlowTypes DEF FlowInv
    <3>2. down'[h] = Append(down[h], m)
      BY <1>2, <2>1, EndedUnused DEF Send, OnRoute, IInv, WorkerInv, WorkerTypes
    <3>3. Carries(Append(down[h], m), up[h], Pend(h), Expected + 1)
      BY <3>1, CarriesMore DEF InUse
    <3>4. AllFor(Append(down[h], m), NextHop)
      BY <3>1, AllForMore DEF InUse
    <3>5. Carries(down[h], up[h], Pend(h), Expected)' /\ AllFor(down[h], NextHop)'
      BY <1>1, <3>2, <3>3, <3>4 DEF Carries, AllFor
    <3> QED
      BY <1>1, <2>1, <3>1, <3>5 DEF InUse
  <2>2. CASE ~OnRoute(h)
    <3>1. down'[h] = down[h]
      BY <2>2 DEF Send, OnRoute, Ended, IInv, WorkerInv, WorkerTypes
    <3> QED
      BY <1>1, <1>2, <2>2, <3>1 DEF FlowInv, Unused
  <2> QED
    BY <2>1, <2>2
<1>3. AllFor(pipe.slots, NextHop)'
  BY <1>1 DEF AllFor
<1> QED
  BY <1>2, <1>3 DEF FlowInv

(* A result is taken: one answer less is expected, or the connection of    *)
(* the route is ended.                                                     *)
LEMMA TakeFlows ==
    ASSUME IInv, FlowInv, Inbox # <<>>, TakeResult, UNCHANGED <<plan, down, fw>>,
           \A h \in Heads : conn'[h] # "shut" => conn'[h] = conn[h],
           \A h \in Heads : OnRoute(h) /\ conn'[h] # "shut" =>
                /\ Expected' = Expected - 1
                /\ pc' = "pipe" => pc = "pipe" /\ (pipe'.stop <=> pipe.stop) /\ pipe'.rrc = pipe.rrc,
           AllFor(pipe'.slots, NextHop)
    PROVE  FlowInv'
<1>1. NextHop' = NextHop /\ \A h \in Heads : (OnRoute(h)' <=> OnRoute(h)) /\ Pend(h)' = Pend(h)
  BY DEF NextHop, OnRoute, Pend
<1>2. ASSUME NEW h \in Heads, conn'[h] # "shut" PROVE (IF OnRoute(h) THEN InUse(h) ELSE Unused(h))'
  <2>1. CASE OnRoute(h)
    <3>1. /\ InUse(h) /\ down[h] \in Seq(GoodWorks) /\ up[h] \in Seq(GoodResults)
          /\ Pend(h) \in Seq(Nat) /\ Expected \in Int
      BY <1>2, <2>1, FlowTypes DEF FlowInv
    <3>2. up[h] # <<>> /\ up'[h] = Tail(up[h])
      BY <2>1 DEF TakeResult, Inbox, OnRoute, IInv, WorkerInv, WorkerTypes
    <3>3. Carries(down[h], Tail(up[h]), Pend(h), Expected - 1)
      BY <3>1, <3>2, CarriesMore DEF InUse
    <3>4. Carries(down[h], up[h], Pend(h), Expected)' /\ AllFor(down[h], NextHop)'
      BY <1>1, <1>2, <2>1, <3>1, <3>2, <3>3 DEF InUse, Carries, AllFor
    <3> QED
      BY <1>1, <1>2, <2>1, <3>1, <3>4 DEF InUse
  <2>2. CASE ~OnRoute(h)
    <3>1. up'[h] = up[h]
      BY <2>2 DEF TakeResult, OnRoute, IInv, WorkerInv, WorkerTypes
    <3> QED
      BY <1>1, <1>2, <2>2, <3>1 DEF FlowInv, Unused
  <2> QED
    BY <2>1, <2>2
<1>3. AllFor(pipe.slots, NextHop)'
  BY <1>1 DEF AllFor
<1> QED
  BY <1>2, <1>3 DEF FlowInv

LEMMA SpanSendFlows ==
    ASSUME IInv, IInv', FlowInv, SpanSend
    PROVE  FlowInv'
<1> DEFINE i == call.pos
           reset == call.reset /\ i = 0
           prefix == IF reset THEN <<>> ELSE SubSeq(tl, 1, i)
<1>1. pc = "span" /\ UNCHANGED <<plan, conn, up, fw>> /\ Expected = 0
  BY DEF SpanSend, planVars, Expected
<1>2. PICK o \in Local(i, reset) :
        \/ o.ok /\ Send(Work(i, reset, prefix, req, o.kv)) /\ pc' = "wait" /\ UNCHANGED pipe
        \/ pc' = "broken" /\ UNCHANGED down
  BY DEF SpanSend, Fail
<1>3. CASE o.ok /\ Send(Work(i, reset, prefix, req, o.kv)) /\ pc' = "wait" /\ UNCHANGED pipe
  <2>1. Work(i, reset, prefix, req, o.kv) \in GoodWorks
    BY <1>1, <1>3, SpanWork DEF IInv, WorkerInv
  <2>2. Work(i, reset, prefix, req, o.kv).next = NextHop
    BY DEF Work, NextHop
  <2>3. Expected' = Expected + 1 /\ AllFor(pipe'.slots, NextHop)
    BY <1>1, <1>3 DEF Expected, FlowInv
  <2> HIDE DEF i, reset, prefix
  <2> QED
    BY <1>1, <1>3, <2>1, <2>2, <2>3, SendFlows
<1>4. CASE pc' = "broken" /\ UNCHANGED down
  BY <1>1, <1>4, LeavesRest, FlowRests DEF Resting
<1> QED
  BY <1>2, <1>3, <1>4

LEMMA SpanRecvFlows ==
    ASSUME IInv, IInv', FlowInv, SpanRecv
    PROVE  FlowInv'
<1>1. /\ pc = "wait" /\ Inbox # <<>> /\ TakeResult /\ UNCHANGED <<plan, down, fw, conn>>
      /\ pc' \in {"remote", "broken", "idle", "span"}
  BY DEF SpanRecv, Fail, Return, Judge
<1>2. Expected = 1 /\ Resting'
  BY <1>1, LeavesRest DEF Expected
<1>3. AllFor(pipe'.slots, NextHop)
  BY <1>2, CarriesNothing DEF Resting
<1> QED
  BY <1>1, <1>2, <1>3, TakeFlows DEF Resting

LEMMA RouteShut ==
    ASSUME IInv, conn' = ShutRoute
    PROVE  \A h \in Heads : /\ conn'[h] # "shut" => conn'[h] = conn[h]
                            /\ OnRoute(h) => conn'[h] = "shut"
<1> SUFFICES ASSUME NEW h \in Heads
             PROVE  (conn'[h] # "shut" => conn'[h] = conn[h]) /\ (OnRoute(h) => conn'[h] = "shut")
  OBVIOUS
<1>1. h \in Workers /\ conn[h] \in {"open", "shut", "off"} /\ (OnRoute(h) => conn[h] # "off")
  BY DEF IInv, WorkerInv, WorkerTypes, CallerInv, RouteInv, OnRoute, Workers
<1>2. OnRoute(h) => h \in IF plan.alive THEN {plan.path[1]} ELSE {}
  BY DEF OnRoute
<1> QED
  BY <1>1, <1>2 DEF ShutRoute, Shut

LEMMA PipeAdmitFlows ==
    ASSUME IInv, FlowInv, PipeAdmit
    PROVE  FlowInv'
<1>1. /\ pc = "pipe" /\ UNCHANGED <<pc, plan, conn, down, up, fw>>
      /\ pipe' = [pipe EXCEPT !.prod = IF pipe.done THEN "cancel" ELSE "slot"] /\ pipe \in Pipes
  BY DEF PipeAdmit, pipeRest, headVars, IInv, CallerInv, CallerTypes
<1>2. /\ pipe'.slots = pipe.slots /\ pipe'.sub = pipe.sub /\ pipe'.comp = pipe.comp
      /\ pipe'.stop = pipe.stop /\ pipe'.done = pipe.done /\ pipe'.rrc = pipe.rrc
  BY <1>1 DEF Pipes
<1>3. Expected' = Expected /\ AllFor(pipe'.slots, NextHop)
  BY <1>1, <1>2 DEF Expected, FlowInv
<1> QED
  BY <1>1, <1>2, <1>3, FlowStays

LEMMA PipeSubmitFlows ==
    ASSUME IInv, IInv', FlowInv, PipeSubmit
    PROVE  FlowInv'
<1> DEFINE i == call.pos + pipe.sub
           reset == call.reset /\ pipe.sub = 0
<1>1. pc = "pipe" /\ UNCHANGED <<pc, plan, conn, down, up, fw>> /\ pipe \in Pipes /\ pipe' \in Pipes
  BY DEF PipeSubmit, pipeRest, headVars, IInv, CallerInv, CallerTypes
<1>2. \/ pipe' = [pipe EXCEPT !.prod = "cancel"]
      \/ \E m : /\ m.next = NextHop
                /\ pipe' = [pipe EXCEPT !.slots = Append(@, m), !.sub = @ + 1,
                                        !.prod = IF pipe.sub + 1 = pipe.count THEN "finish" ELSE "admit"]
  <2>1. \/ pipe' = [pipe EXCEPT !.prod = "cancel"]
        \/ \E o \in Local(i, reset) :
              pipe' = [pipe EXCEPT !.slots = Append(@, Work(i, reset, SubSeq(call.goal, 1, i), req, o.kv)),
                                   !.sub = @ + 1,
                                   !.prod = IF pipe.sub + 1 = pipe.count THEN "finish" ELSE "admit"]
    BY DEF PipeSubmit
  <2>2. ASSUME NEW o PROVE Work(i, reset, SubSeq(call.goal, 1, i), req, o.kv).next = NextHop
    BY DEF Work, NextHop
  <2> HIDE DEF i, reset
  <2> QED
    BY <2>1, <2>2
<1> HIDE DEF i, reset
<1>3. CASE pipe' = [pipe EXCEPT !.prod = "cancel"]
  <2>1. /\ pipe'.slots = pipe.slots /\ pipe'.sub = pipe.sub /\ pipe'.comp = pipe.comp
        /\ pipe'.stop = pipe.stop /\ pipe'.done = pipe.done /\ pipe'.rrc = pipe.rrc
    BY <1>1, <1>3 DEF Pipes
  <2>2. Expected' = Expected /\ AllFor(pipe'.slots, NextHop)
    BY <1>1, <2>1 DEF Expected, FlowInv
  <2> QED
    BY <1>1, <2>1, <2>2, FlowStays
<1>4. ASSUME NEW m, m.next = NextHop,
             pipe' = [pipe EXCEPT !.slots = Append(@, m), !.sub = @ + 1,
                                  !.prod = IF pipe.sub + 1 = pipe.count THEN "finish" ELSE "admit"]
      PROVE  FlowInv'
  <2>1. /\ pipe'.slots = Append(pipe.slots, m) /\ pipe'.sub = pipe.sub + 1 /\ pipe'.comp = pipe.comp
        /\ pipe'.stop = pipe.stop /\ pipe'.done = pipe.done /\ pipe'.rrc = pipe.rrc
    BY <1>1, <1>4 DEF Pipes
  <2>2. PICK s \in Seq(GoodWorks) : s = pipe.slots
    BY <1>1 DEF Pipes
  <2>3. s \in Seq(GoodWorks \cup {m}) /\ m \in GoodWorks \cup {m}
    BY <2>2, SeqMonotonic
  <2>4. Len(Append(s, m)) = Len(s) + 1 /\ Len(s) \in Nat
    BY <2>3, AppendProperties, LenProperties
  <2>5. AllFor(Append(s, m), NextHop)
    BY <1>4, <2>2, <2>3, AllForMore DEF FlowInv
  <2>6. pipe.sub \in Nat /\ pipe.comp \in Nat
    BY <1>1 DEF Pipes
  <2>7. Expected = pipe.sub - Len(s) - pipe.comp /\ Expected' = (pipe.sub + 1) - (Len(s) + 1) - pipe.comp
    BY <1>1, <2>1, <2>2, <2>4 DEF Expected
  <2>8. Expected' = Expected /\ AllFor(pipe'.slots, NextHop)
    BY <2>1, <2>2, <2>4, <2>5, <2>6, <2>7, SMTT(40)
  <2> QED
    BY <1>1, <2>1, <2>8, FlowStays
<1> QED
  BY <1>2, <1>3, <1>4

LEMMA PipeSendFlows ==
    ASSUME IInv, FlowInv, PipeSend
    PROVE  FlowInv'
<1>1. pc = "pipe" /\ UNCHANGED <<pc, plan, up, fw>> /\ pipe \in Pipes /\ pipe.slots # <<>>
  BY DEF PipeSend, pipeRest, IInv, CallerInv, CallerTypes
<1>2. PICK s \in Seq(GoodWorks) : s = pipe.slots
  BY <1>1 DEF Pipes
<1>3. /\ Head(s) \in GoodWorks /\ Len(Tail(s)) = Len(s) - 1 /\ Len(s) \in Nat
      /\ Head(s).next = NextHop /\ AllFor(Tail(s), NextHop)
  BY <1>1, <1>2, HeadTailProperties, LenProperties, AllForMore DEF FlowInv
<1>4. CASE Send(Head(pipe.slots)) /\ pipe' = [pipe EXCEPT !.slots = Tail(@)] /\ UNCHANGED conn
  <2>1. /\ pipe'.slots = Tail(s) /\ pipe'.sub = pipe.sub /\ pipe'.comp = pipe.comp
        /\ pipe'.stop = pipe.stop /\ pipe'.rrc = pipe.rrc
        /\ pipe.sub \in Nat /\ pipe.comp \in Nat
    BY <1>1, <1>2, <1>4 DEF Pipes
  <2>2. Expected = pipe.sub - Len(s) - pipe.comp /\ Expected' = pipe.sub - (Len(s) - 1) - pipe.comp
    BY <1>1, <1>2, <1>3, <2>1 DEF Expected
  <2>3. Expected' = Expected + 1
    BY <1>3, <2>1, <2>2, SMTT(40)
  <2> QED
    BY <1>1, <1>2, <1>3, <1>4, <2>1, <2>3, SendFlows
<1>5. CASE conn' = ShutRoute /\ UNCHANGED down /\ pipe' = [pipe EXCEPT !.src = "broken", !.stop = TRUE]
  <2>1. pipe'.slots = pipe.slots
    BY <1>1, <1>5 DEF Pipes
  <2> QED
    BY <1>1, <1>5, <2>1, RouteShut, FlowStays DEF FlowInv
<1> QED
  BY <1>4, <1>5 DEF PipeSend

LEMMA PipeReadFlows ==
    ASSUME IInv, FlowInv, PipeRead
    PROVE  FlowInv'
<1> DEFINE r == Head(Inbox)
           n == pipe.comp + 1
           rc == Judge(r, pipe.first + pipe.comp, SubSeq(call.goal, 1, call.pos + n))
<1>1. /\ pc = "pipe" /\ UNCHANGED <<pc, plan, down, fw>> /\ pipe \in Pipes /\ ~pipe.done
      /\ Inbox # <<>> /\ TakeResult
  BY DEF PipeRead, pipeRest, IInv, CallerInv, CallerTypes
<1>2. \/ ReaderStops(rc)
      \/ /\ pipe' = [pipe EXCEPT !.comp = n, !.done = n = pipe.count,
                                 !.final = IF n = pipe.count THEN r.hid ELSE None]
         /\ UNCHANGED conn
  BY DEF PipeRead
<1>3. CASE ReaderStops(rc)
  <2>1. pipe'.slots = pipe.slots /\ conn' = ShutRoute
    BY <1>1, <1>3 DEF ReaderStops, Pipes
  <2> QED
    BY <1>1, <2>1, RouteShut, TakeFlows DEF FlowInv
<1>4. CASE /\ pipe' = [pipe EXCEPT !.comp = n, !.done = n = pipe.count,
                                   !.final = IF n = pipe.count THEN r.hid ELSE None]
           /\ UNCHANGED conn
  <2> HIDE DEF r
  <2>1. /\ pipe'.slots = pipe.slots /\ pipe'.sub = pipe.sub /\ pipe'.comp = pipe.comp + 1
        /\ pipe'.stop = pipe.stop /\ pipe'.rrc = pipe.rrc /\ pipe.sub \in Nat /\ pipe.comp \in Nat
    BY <1>1, <1>4 DEF Pipes
  <2>2. PICK s \in Seq(GoodWorks) : s = pipe.slots
    BY <1>1 DEF Pipes
  <2>3. Len(s) \in Nat
    BY LenProperties
  <2>4. Expected = pipe.sub - Len(s) - pipe.comp /\ Expected' = pipe.sub - Len(s) - (pipe.comp + 1)
    BY <1>1, <2>1, <2>2 DEF Expected
  <2>5. Expected' = Expected - 1
    BY <2>1, <2>3, <2>4
  <2> QED
    BY <1>1, <1>4, <2>1, <2>5, TakeFlows DEF FlowInv
<1> QED
  BY <1>2, <1>3, <1>4

LEMMA PipeStopsFlows ==
    ASSUME IInv, FlowInv, PipeReadEnd \/ PipeCancel
    PROVE  FlowInv'
<1>1. /\ UNCHANGED <<pc, plan, down, up, fw>> /\ pipe \in Pipes /\ conn' = ShutRoute
      /\ \/ pipe' = [pipe EXCEPT !.prod = "join", !.stop = TRUE, !.src = "broken"]
         \/ pipe' = [pipe EXCEPT !.rrc = "broken", !.done = TRUE]
  BY DEF PipeReadEnd, PipeCancel, ReaderStops, pipeRest, headVars, IInv, CallerInv, CallerTypes
<1>2. pipe'.slots = pipe.slots
  BY <1>1 DEF Pipes
<1> QED
  BY <1>1, <1>2, RouteShut, FlowStays DEF FlowInv

LEMMA PipeJoinFlows ==
    ASSUME IInv, IInv', FlowInv, PipeJoin
    PROVE  FlowInv'
<1>1. /\ pc = "pipe" /\ pipe.prod \in {"finish", "join"} /\ (pipe.stop \/ pipe.slots = <<>>) /\ pipe.done
      /\ UNCHANGED <<plan, down, up, fw, conn>> /\ pc' \in {"idle", "remote", "broken"} /\ pipe \in Pipes
  BY DEF PipeJoin, planVars, workerVars, headVars, Return, Fail, IInv, CallerInv, CallerTypes, Pipes, Rcs
<1>2. ASSUME NEW h \in Heads, OnRoute(h), conn'[h] # "shut" PROVE Expected = 0
  <2>1. ~pipe.stop /\ pipe.rrc = "ok"
    BY <1>1, <1>2 DEF FlowInv, InUse
  <2>2. /\ pipe.slots = <<>> /\ pipe.prod = "finish" /\ pipe.sub = pipe.count /\ pipe.comp = pipe.count
        /\ pipe.count \in Nat
    BY <1>1, <2>1 DEF IInv, CallerInv, PipeInv, Pipes
  <2>3. Len(pipe.slots) = 0
    BY <2>2, EmptySeq
  <2> QED
    BY <1>1, <2>2, <2>3 DEF Expected
<1>3. Resting'
  BY <1>1, LeavesRest
<1> QED
  BY <1>1, <1>2, <1>3, FlowRests DEF Resting

LEMMA CallerStepFlows ==
    ASSUME IInv, IInv', FlowInv, CallerStep
    PROVE  FlowInv'
  BY CallsFlow, SpanSendFlows, SpanRecvFlows, SpanEndFlows, RecoveryFlows, LoadFlows, PipeAdmitFlows,
     PipeSubmitFlows, PipeStopsFlows, PipeJoinFlows, PipeSendFlows, PipeReadFlows
     DEF CallerStep, Coordinator, Producer, Reader

(* The workers.  A head takes work.                                        *)
LEMMA HeadFlows ==
    ASSUME IInv, FlowInv, NEW h \in Heads, UNCHANGED <<plan, pc, pipe>>,
           \A g \in Heads : conn'[g] # "shut" => conn'[g] = conn[g],
           \A g \in Heads : g # h => /\ down'[g] = down[g] /\ up'[g] = up[g]
                                     /\ \A t \in Tails : fw'[g][t].pend = fw[g][t].pend,
           conn'[h] # "shut" => (IF OnRoute(h) THEN InUse(h) ELSE Unused(h))'
    PROVE  FlowInv'
<1>1. /\ NextHop' = NextHop /\ Expected' = Expected /\ \A g \in Heads : OnRoute(g)' <=> OnRoute(g)
  BY DEF NextHop, OnRoute, Expected
<1>2. ASSUME NEW g \in Heads, conn'[g] # "shut", g # h PROVE (IF OnRoute(g) THEN InUse(g) ELSE Unused(g))'
  <2>1. CASE OnRoute(g)
    <3>1. InUse(g) /\ Pend(g)' = Pend(g)
      BY <1>2, <2>1, FlowTypes DEF FlowInv, Pend
    <3>2. Carries(down[g], up[g], Pend(g), Expected)' /\ AllFor(down[g], NextHop)'
      BY <1>1, <1>2, <3>1 DEF InUse, Carries, AllFor
    <3> QED
      BY <1>1, <1>2, <2>1, <3>1, <3>2 DEF InUse
  <2>2. CASE ~OnRoute(g)
    BY <1>1, <1>2, <2>2 DEF FlowInv, Unused
  <2> QED
    BY <2>1, <2>2
<1>3. AllFor(pipe.slots, NextHop)'
  BY <1>1 DEF AllFor, FlowInv
<1> QED
  BY <1>2, <1>3 DEF FlowInv

LEMMA OpenInUse ==
    ASSUME IInv, FlowInv, NEW h \in Heads, conn[h] # "shut", ~Unused(h)
    PROVE  conn[h] = "open" /\ OnRoute(h) /\ InUse(h)
<1>1. OnRoute(h) /\ InUse(h)
  BY DEF FlowInv
<1>2. conn[h] \in {"open", "shut", "off"} /\ conn[h] # "off"
  BY <1>1 DEF IInv, WorkerInv, WorkerTypes, CallerInv, RouteInv, OnRoute, Workers
<1> QED
  BY <1>1, <1>2

LEMMA HeadWorkFlows ==
    ASSUME IInv, FlowInv, NEW h \in Heads, HeadWork(h)
    PROVE  FlowInv'
<1>0. WorkerTypes /\ HashIsTimeline /\ faults \in 0 .. MaxFaults
  BY DEF IInv, WorkerInv, CallerInv, CallerTypes
<1> DEFINE m == Head(down[h])
<1>1. /\ down[h] # <<>> /\ down' = [down EXCEPT ![h] = Tail(@)]
      /\ UNCHANGED <<plan, pc, pipe>>
  BY DEF HeadWork, planVars, coordVars, callVars
<1>2. m \in GoodWorks /\ m.req \in Nat
  <2>1. m \in GoodWorks
    BY <1>0, <1>1, HeadTailProperties DEF WorkerTypes
  <2> QED
    BY <2>1 DEF GoodWorks, Works
<1>3. PICK o \in Remote(h, m) :
        \/ Reply(h, ResultOf(o, m)) /\ UNCHANGED <<fw, conn>>
        \/ /\ m.next # None
           /\ LET t == m.next
                  f == fw[h][t]
                  sent == [f EXCEPT !.pend = Append(@, m.req),
                                    !.st = IF @ = "none" THEN "open" ELSE @,
                                    !.down = IF f.st = "dead" THEN @
                                             ELSE Append(@, [m EXCEPT !.hid = Hidden(o, m)])]
              IN  \/ Forward(h, t, sent) /\ UNCHANGED <<up, conn>>
                  \/ Reply(h, Error(m.req)) /\ UNCHANGED <<fw, conn>>
                  \/ Reply(h, Error(m.req)) /\ conn' = Shut({h}) /\ UNCHANGED fw
  BY DEF HeadWork
<1>4. ResultOf(o, m) \in GoodResults /\ Error(m.req) \in GoodResults
  BY <1>0, <1>2, RemoteOutcome, GoodError DEF Workers
<1>5. \/ \E r \in GoodResults : Reply(h, r) /\ UNCHANGED <<fw, conn>>
      \/ \E r \in GoodResults : Reply(h, r) /\ UNCHANGED fw /\ conn' = Shut({h})
      \/ /\ m.next # None /\ UNCHANGED <<up, conn>>
         /\ \E sent : /\ Forward(h, m.next, sent)
                      /\ fw[h][m.next] \in Forwarders => sent.pend = Append(fw[h][m.next].pend, m.req)
  <2>1. CASE Reply(h, ResultOf(o, m)) /\ UNCHANGED <<fw, conn>>
    BY <1>4, <2>1
  <2>2. CASE Reply(h, Error(m.req)) /\ UNCHANGED <<fw, conn>>
    BY <1>4, <2>2
  <2>3. CASE Reply(h, Error(m.req)) /\ conn' = Shut({h}) /\ UNCHANGED fw
    BY <1>4, <2>3
  <2> DEFINE f == fw[h][m.next]
             sent == [f EXCEPT !.pend = Append(@, m.req),
                               !.st = IF @ = "none" THEN "open" ELSE @,
                               !.down = IF f.st = "dead" THEN @
                                        ELSE Append(@, [m EXCEPT !.hid = Hidden(o, m)])]
  <2>4. CASE m.next # None /\ Forward(h, m.next, sent) /\ UNCHANGED <<up, conn>>
    <3>1. f \in Forwarders => sent.pend = Append(f.pend, m.req)
      BY DEF Forwarders
    <3> QED
      BY <2>4, <3>1
  <2> QED
    BY <1>3, <2>1, <2>2, <2>3, <2>4
<1> HIDE DEF m
<1>6. /\ \A g \in Heads : conn'[g] # "shut" => conn'[g] = conn[g]
      /\ \A g \in Heads : g # h => /\ down'[g] = down[g] /\ up'[g] = up[g]
                                   /\ \A t \in Tails : fw'[g][t].pend = fw[g][t].pend
  <2>1. \A g \in Heads : conn'[g] # "shut" => conn'[g] = conn[g]
    BY <1>5, ShutFlow DEF Workers
  <2>2. \A g \in Heads : g # h => down'[g] = down[g] /\ up'[g] = up[g] /\ fw'[g] = fw[g]
    BY <1>0, <1>1, <1>5 DEF Reply, Forward, WorkerTypes
  <2> QED
    BY <2>1, <2>2
<1>7. ASSUME conn'[h] # "shut" PROVE (IF OnRoute(h) THEN InUse(h) ELSE Unused(h))'
  <2>1. conn[h] = "open" /\ OnRoute(h) /\ InUse(h) /\ OnRoute(h)'
    BY <1>1, <1>6, <1>7, OpenInUse DEF Unused, OnRoute
  <2>2. /\ NextHop' = NextHop /\ Expected' = Expected
    BY <1>1 DEF NextHop, Expected
  <2>3. down'[h] = Tail(down[h]) /\ m.next = NextHop /\ AllFor(Tail(down[h]), NextHop)
    BY <1>0, <1>1, <2>1, FlowTypes, AllForMore DEF InUse, WorkerTypes, m
  <2>4. /\ down[h] \in Seq(GoodWorks) /\ up[h] \in Seq(GoodResults)
        /\ Pend(h) \in Seq(Nat) /\ Expected \in Int
        /\ Tails # {} => plan.path[2] \in Tails /\ fw[h][plan.path[2]] \in Forwarders
    BY <2>1, FlowTypes
  <2>5. ASSUME NEW r \in GoodResults, Reply(h, r), UNCHANGED fw PROVE InUse(h)'
    <3>1. up'[h] = Append(up[h], r) /\ Pend(h)' = Pend(h)
      BY <1>0, <1>1, <2>1, <2>5 DEF Reply, WorkerTypes, Pend
    <3>2. Carries(Tail(down[h]), Append(up[h], r), Pend(h), Expected)
      BY <1>1, <2>1, <2>4, CarriesMore DEF InUse
    <3>3. Carries(down[h], up[h], Pend(h), Expected)' /\ AllFor(down[h], NextHop)'
      BY <2>2, <2>3, <3>1, <3>2 DEF Carries, AllFor
    <3> QED
      BY <1>1, <2>1, <2>2, <2>5, <3>3 DEF InUse
  <2>6. ASSUME m.next # None, UNCHANGED up, NEW sent, Forward(h, m.next, sent),
               fw[h][m.next] \in Forwarders => sent.pend = Append(fw[h][m.next].pend, m.req)
        PROVE  InUse(h)'
    <3>1. Tails # {} /\ m.next = plan.path[2] /\ m.next \in Tails
      BY <2>3, <2>4, <2>6 DEF NextHop
    <3>2. /\ fw'[h][m.next] = sent
          /\ \A t \in Tails : t # m.next => fw'[h][t] = fw[h][t]
      BY <1>0, <2>6, <3>1 DEF Forward, WorkerTypes
    <3>3. Pend(h)' = Append(Pend(h), m.req)
      BY <1>1, <2>4, <2>6, <3>1, <3>2 DEF Pend
    <3>4. Carries(Tail(down[h]), up[h], Append(Pend(h), m.req), Expected)
      BY <1>1, <1>2, <2>1, <2>4, CarriesMore DEF InUse
    <3>5. Carries(down[h], up[h], Pend(h), Expected)' /\ AllFor(down[h], NextHop)'
      BY <2>2, <2>3, <2>6, <3>3, <3>4 DEF Carries, AllFor
    <3> QED
      BY <1>1, <2>1, <2>2, <2>3, <3>2, <3>5 DEF InUse
  <2>7. ~(conn' = Shut({h}))
    BY <1>7, <2>1 DEF Shut, Workers
  <2> QED
    BY <1>5, <2>1, <2>5, <2>6, <2>7
<1> QED
  BY <1>1, <1>6, <1>7, HeadFlows

LEMMA RelayFlows ==
    ASSUME IInv, FlowInv, NEW h \in Heads, NEW t \in Tails, Relay(h, t)
    PROVE  FlowInv'
<1>0. WorkerTypes
  BY DEF IInv, WorkerInv
<1> DEFINE f == fw[h][t]
           g == [f EXCEPT !.up = Tail(@), !.pend = Tail(@)]
           c == [f EXCEPT !.st = "closed", !.down = <<>>, !.up = <<>>, !.pend = <<>>]
<1>1. /\ f.up # <<>> /\ UNCHANGED <<plan, pc, pipe, down>>
      /\ IF Head(f.up).req = Head(f.pend)
         THEN Forward(h, t, g) /\ Reply(h, Head(f.up)) /\ UNCHANGED conn
         ELSE Forward(h, t, c) /\ Reply(h, Error(Head(f.pend))) /\ conn' = Shut({h})
  BY DEF Relay, planVars, coordVars, callVars
<1>2. f \in Forwarders /\ Owes(f.down, f.up, f.pend)
  BY DEF IInv, WorkerInv, WorkerTypes, ForwarderInv, Owing
<1> HIDE DEF f
<1>3. f.up \in Seq(GoodResults) /\ f.pend \in Seq(Nat) /\ f.down \in Seq(GoodWorks)
  BY <1>2 DEF Forwarders
<1>4. f.pend # <<>>
  BY <1>1, <1>2, <1>3, OwesLess
<1>5. Head(f.up) \in GoodResults
  BY <1>1, <1>3, HeadTailProperties
<1>6. g.pend = Tail(f.pend)
  BY <1>2 DEF Forwarders
<1> HIDE DEF g, c
<1>7. /\ \A v \in Tails : v # t => fw'[h][v] = fw[h][v]
      /\ \A k \in Heads : k # h => fw'[k] = fw[k] /\ up'[k] = up[k]
  <2>1. ASSUME NEW x, NEW y, Forward(h, t, x), Reply(h, y)
        PROVE  /\ \A v \in Tails : v # t => fw'[h][v] = fw[h][v]
               /\ \A k \in Heads : k # h => fw'[k] = fw[k] /\ up'[k] = up[k]
    BY <1>0, <2>1 DEF Forward, Reply, WorkerTypes
  <2> QED
    BY <1>1, <2>1
<1>8. \A k \in Heads : conn'[k] # "shut" => conn'[k] = conn[k]
  BY <1>1, ShutFlow DEF Workers
<1>9. ASSUME conn'[h] # "shut" PROVE (IF OnRoute(h) THEN InUse(h) ELSE Unused(h))'
  <2>1. conn[h] = "open" /\ OnRoute(h) /\ InUse(h) /\ OnRoute(h)'
    BY <1>1, <1>4, <1>8, <1>9, OpenInUse DEF Unused, OnRoute, f
  <2>2. Forward(h, t, g) /\ Reply(h, Head(f.up)) /\ UNCHANGED conn
    BY <1>1, <1>9, <2>1, ShutFlow DEF Workers
  <2>3. NextHop' = NextHop /\ Expected' = Expected /\ NextHop = plan.path[2] /\ NextHop = t
    BY <1>1, <1>4, <2>1 DEF NextHop, Expected, InUse, f
  <2>4. Pend(h) = f.pend /\ Pend(h)' = Tail(f.pend) /\ up'[h] = Append(up[h], Head(f.up))
    BY <1>0, <1>1, <1>6, <2>1, <2>2, <2>3 DEF Pend, f, Forward, Reply, WorkerTypes
  <2>5. down[h] \in Seq(GoodWorks) /\ up[h] \in Seq(GoodResults) /\ Expected \in Int
    BY FlowTypes
  <2>6. Carries(down[h], up[h], f.pend, Expected)
    BY <2>1, <2>4 DEF InUse
  <2>7. Carries(down[h], Append(up[h], Head(f.up)), Tail(f.pend), Expected)
    BY <1>3, <1>4, <1>5, <2>5, <2>6, CarriesMore
  <2>8. Carries(down[h], up[h], Pend(h), Expected)' /\ AllFor(down[h], NextHop)'
    BY <1>1, <2>1, <2>3, <2>4, <2>7 DEF Carries, AllFor, InUse
  <2> QED
    BY <1>1, <1>7, <2>1, <2>3, <2>8 DEF InUse
<1> QED
  BY <1>1, <1>7, <1>8, <1>9, HeadFlows

LEMMA RelayEndFlows ==
    ASSUME IInv, FlowInv, NEW h \in Heads, NEW t \in Tails, RelayEnd(h, t)
    PROVE  FlowInv'
<1>0. WorkerTypes
  BY DEF IInv, WorkerInv
<1> DEFINE f == fw[h][t]
           g == [f EXCEPT !.st = "closed", !.pend = <<>>]
<1>1. /\ Forward(h, t, g) /\ conn' = Shut({h}) /\ UNCHANGED <<plan, pc, pipe, down>>
      /\ IF f.pend # <<>> THEN Reply(h, Error(Head(f.pend))) ELSE UNCHANGED up
  BY DEF RelayEnd, planVars, coordVars, callVars
<1>2. f \in Forwarders
  BY <1>0 DEF WorkerTypes
<1>3. /\ fw'[h][t].pend = <<>> /\ (\A v \in Tails : v # t => fw'[h][v] = fw[h][v])
      /\ \A k \in Heads : k # h => fw'[k] = fw[k] /\ up'[k] = up[k]
  BY <1>0, <1>1, <1>2 DEF Forward, Reply, WorkerTypes, Forwarders
<1>4. \A k \in Heads : conn'[k] # "shut" => conn'[k] = conn[k]
  BY <1>1, ShutFlow DEF Workers
<1>5. ASSUME conn'[h] # "shut" PROVE (IF OnRoute(h) THEN InUse(h) ELSE Unused(h))'
  <2>1. conn[h] = "off"
    BY <1>1, <1>4, <1>5, ShutFlow DEF Workers
  <2>2. ~OnRoute(h) /\ Unused(h)
    BY <2>1, OpenInUse DEF IInv, CallerInv, RouteInv, OnRoute
  <2>3. UNCHANGED up
    BY <1>1, <2>2 DEF Unused
  <2> QED
    BY <1>1, <1>3, <2>2, <2>3 DEF Unused, OnRoute
<1> QED
  BY <1>1, <1>3, <1>4, <1>5, HeadFlows

(* Steps that evaluate work, break a data connection or end a control      *)
(* connection leave what a head owes alone.                                *)
LEMMA PendStays ==
    ASSUME IInv, FlowInv, UNCHANGED <<pc, pipe, down, up>>, plan'.path = plan.path, plan'.alive = plan.alive,
           \A h \in Heads, t \in Tails : fw'[h][t].pend = fw[h][t].pend,
           \A h \in Heads : conn'[h] # "shut" => conn'[h] = conn[h]
    PROVE  FlowInv'
<1>1. Expected' = Expected
  BY DEF Expected
<1>2. AllFor(pipe'.slots, NextHop)
  BY DEF FlowInv
<1> QED
  BY <1>1, <1>2, FlowStays

LEMMA OtherWorkersFlow ==
    ASSUME IInv, FlowInv,
           \/ \E w \in Workers : Unregister(w)
           \/ \E h \in Heads, t \in Tails : TailWork(h, t)
           \/ \E t \in Tails : \E q \in late[t] : LateWork(t, q)
           \/ Failures
    PROVE  FlowInv'
<1>0. WorkerTypes /\ plan \in Plans
  BY DEF IInv, WorkerInv, CallerInv, CallerTypes
<1>1. CASE \E w \in Workers : Unregister(w)
  <2>1. plan' = [plan EXCEPT !.fresh = FALSE] /\ UNCHANGED <<pc, pipe, down, up, fw, conn>>
    BY <1>1 DEF Unregister, callVars, headVars
  <2>2. plan'.path = plan.path /\ plan'.alive = plan.alive
    BY <1>0, <2>1 DEF Plans
  <2> QED
    BY <2>1, <2>2, PendStays
<1>2. ASSUME NEW h \in Heads, NEW t \in Tails, TailWork(h, t) PROVE FlowInv'
  <2> DEFINE f == fw[h][t]
  <2>1. UNCHANGED <<pc, pipe, plan, down, up, conn>>
    BY <1>2 DEF TailWork, coordVars, callVars, planVars, headVars
  <2>2. PICK r : Forward(h, t, [f EXCEPT !.down = Tail(@), !.up = Append(@, r)])
    BY <1>2 DEF TailWork
  <2>3. f \in Forwarders
    BY <1>0 DEF WorkerTypes
  <2>4. \A g \in Heads, u \in Tails : fw'[g][u].pend = fw[g][u].pend
    BY <1>0, <2>2, <2>3 DEF Forward, WorkerTypes, Forwarders
  <2> QED
    BY <2>1, <2>4, PendStays
<1>3. CASE \E t \in Tails : \E q \in late[t] : LateWork(t, q)
  <2>1. UNCHANGED <<pc, pipe, plan, down, up, conn, fw>>
    BY <1>3 DEF LateWork, coordVars, callVars, planVars, headVars
  <2> QED
    BY <2>1, PendStays
<1>4. ASSUME NEW w \in Workers, BreakControl(w) PROVE FlowInv'
  <2>1. UNCHANGED <<pc, pipe, plan, down, up, fw>> /\ conn' = Shut({w})
    BY <1>4 DEF BreakControl, coordVars, callVars, planVars, headVars
  <2>2. \A h \in Heads : conn'[h] # "shut" => conn'[h] = conn[h]
    BY <2>1, ShutFlow DEF Workers
  <2> QED
    BY <2>1, <2>2, PendStays
<1>5. ASSUME NEW h \in Heads, NEW t \in Tails, BreakData(h, t) PROVE FlowInv'
  <2> DEFINE f == fw[h][t]
  <2>1. /\ UNCHANGED <<pc, pipe, plan, down, up, conn>>
        /\ Forward(h, t, [f EXCEPT !.st = "dead", !.down = <<>>])
    BY <1>5 DEF BreakData, coordVars, callVars, planVars, headVars
  <2>2. f \in Forwarders
    BY <1>0 DEF WorkerTypes
  <2>3. \A g \in Heads, u \in Tails : fw'[g][u].pend = fw[g][u].pend
    BY <1>0, <2>1, <2>2 DEF Forward, WorkerTypes, Forwarders
  <2> QED
    BY <2>1, <2>3, PendStays
<1>6. ASSUME NEW t \in Tails, Die(t) PROVE FlowInv'
  <2>1. /\ UNCHANGED <<pc, pipe, plan, down, up>> /\ conn' = [conn EXCEPT ![t] = "off"]
        /\ fw' = [h \in Heads |-> IF fw[h][t].st = "open"
                                  THEN [fw[h] EXCEPT ![t].st = "dead", ![t].down = <<>>] ELSE fw[h]]
    BY <1>6 DEF Die, coordVars, callVars, planVars, headVars
  <2>2. \A h \in Heads : conn'[h] = conn[h]
    BY <1>0, <2>1, WorkerAssumption DEF WorkerTypes, Workers
  <2>3. ASSUME NEW g \in Heads, NEW u \in Tails PROVE fw'[g][u].pend = fw[g][u].pend
    <3>1. fw[g] \in [Tails -> Forwarders] /\ fw[g][u] \in Forwarders
      BY <1>0 DEF WorkerTypes
    <3>2. fw'[g][u] = fw[g][u] \/ fw'[g][u] = [fw[g][u] EXCEPT !.st = "dead", !.down = <<>>]
      BY <2>1, <3>1
    <3> QED
      BY <3>1, <3>2 DEF Forwarders
  <2> QED
    BY <2>1, <2>2, <2>3, PendStays
<1> QED
  BY <1>1, <1>2, <1>3, <1>4, <1>5, <1>6 DEF Failures

(* A worker that registers starts with an unused connection.               *)
LEMMA RegisterFlows ==
    ASSUME IInv, FlowInv, NEW w \in Workers, Register(w)
    PROVE  FlowInv'
<1>0. WorkerTypes /\ plan \in Plans
  BY DEF IInv, WorkerInv, CallerInv, CallerTypes
<1>1. /\ plan' = [plan EXCEPT !.fresh = FALSE] /\ UNCHANGED <<pc, pipe, down, up, fw>>
      /\ conn[w] = "off" /\ conn' = [conn EXCEPT ![w] = "open"]
  BY DEF Register, callVars, headVars
<1>2. plan'.path = plan.path /\ plan'.alive = plan.alive
  BY <1>0, <1>1 DEF Plans
<1>3. NextHop' = NextHop /\ Expected' = Expected /\ \A h \in Heads : OnRoute(h)' <=> OnRoute(h)
  BY <1>1, <1>2 DEF NextHop, OnRoute, Expected
<1>4. ASSUME NEW h \in Heads, conn'[h] # "shut" PROVE (IF OnRoute(h) THEN InUse(h) ELSE Unused(h))'
  <2>1. conn[h] # "shut"
    BY <1>0, <1>1, <1>4 DEF WorkerTypes, Workers
  <2>2. CASE OnRoute(h)
    <3>1. InUse(h) /\ Pend(h)' = Pend(h)
      BY <1>1, <1>2, <2>1, <2>2 DEF FlowInv, Pend
    <3>2. Carries(down[h], up[h], Pend(h), Expected)' /\ AllFor(down[h], NextHop)'
      BY <1>1, <1>3, <3>1 DEF InUse, Carries, AllFor
    <3> QED
      BY <1>1, <1>3, <2>2, <3>1, <3>2 DEF InUse
  <2>3. CASE ~OnRoute(h)
    BY <1>1, <1>3, <2>1, <2>3 DEF FlowInv, Unused
  <2> QED
    BY <2>2, <2>3
<1>5. AllFor(pipe.slots, NextHop)'
  BY <1>1, <1>3 DEF AllFor, FlowInv
<1> QED
  BY <1>4, <1>5 DEF FlowInv

(* A worker that disconnects leaves nothing behind, and the route is not   *)
(* on its next connection.                                                 *)
LEMMA DisconnectFlows ==
    ASSUME IInv, FlowInv, NEW w \in Workers, Disconnect(w)
    PROVE  FlowInv'
<1>0. WorkerTypes /\ plan \in Plans
  BY DEF IInv, WorkerInv, CallerInv, CallerTypes
<1>1. /\ conn' = [conn EXCEPT ![w] = "off"] /\ UNCHANGED <<pc, pipe>>
      /\ IF w \in Heads THEN Gone(w) ELSE UNCHANGED <<plan, down, up, fw>>
  BY DEF Disconnect, coordVars, callVars, planVars, headVars
<1>2. CASE w \notin Heads
  <2>1. \A h \in Heads : conn'[h] = conn[h]
    BY <1>0, <1>1, <1>2 DEF WorkerTypes, Workers
  <2> QED
    BY <1>1, <1>2, <2>1, PendStays
<1>3. CASE w \in Heads
  <2>1. /\ down' = [down EXCEPT ![w] = <<>>] /\ up' = [up EXCEPT ![w] = <<>>]
        /\ fw' = [fw EXCEPT ![w] = [t \in Tails |-> NoForwarder]]
        /\ IF OnRoute(w) THEN plan' = [plan EXCEPT !.alive = FALSE] ELSE UNCHANGED plan
    BY <1>1, <1>3 DEF Gone, planVars, OnRoute
  <2>2. /\ plan'.path = plan.path /\ ~OnRoute(w)'
        /\ \A h \in Heads : h # w => (OnRoute(h)' <=> OnRoute(h))
    BY <1>0, <2>1 DEF Plans, OnRoute
  <2>3. NextHop' = NextHop /\ Expected' = Expected
    BY <1>1, <2>2 DEF NextHop, Expected
  <2>4. Unused(w)'
    BY <1>0, <1>3, <2>1 DEF Unused, NoForwarder, WorkerTypes
  <2>5. ASSUME NEW h \in Heads, h # w, conn'[h] # "shut"
        PROVE  (IF OnRoute(h) THEN InUse(h) ELSE Unused(h))'
    <3>1. conn[h] # "shut" /\ down'[h] = down[h] /\ up'[h] = up[h] /\ fw'[h] = fw[h]
      BY <1>0, <1>1, <2>1, <2>5 DEF WorkerTypes, Workers
    <3>2. CASE OnRoute(h)
      <4>1. InUse(h) /\ Pend(h)' = Pend(h)
        BY <2>2, <3>1, <3>2 DEF FlowInv, Pend
      <4>2. Carries(down[h], up[h], Pend(h), Expected)' /\ AllFor(down[h], NextHop)'
        BY <2>3, <3>1, <4>1 DEF InUse, Carries, AllFor
      <4> QED
        BY <1>1, <2>2, <2>3, <2>5, <3>1, <3>2, <4>1, <4>2 DEF InUse
    <3>3. CASE ~OnRoute(h)
      BY <2>2, <2>5, <3>1, <3>3 DEF FlowInv, Unused
    <3> QED
      BY <3>2, <3>3
  <2>6. AllFor(pipe.slots, NextHop)'
    BY <1>1, <2>3 DEF AllFor, FlowInv
  <2> QED
    BY <2>2, <2>4, <2>5, <2>6 DEF FlowInv
<1> QED
  BY <1>2, <1>3

LEMMA WorkerStepFlows ==
    ASSUME IInv, FlowInv, WorkerStep
    PROVE  FlowInv'
  BY RegisterFlows, DisconnectFlows, HeadWorkFlows, RelayFlows, RelayEndFlows, OtherWorkersFlow
     DEF WorkerStep, Forwarder

LEMMA InitFlow == Init => FlowInv
<1> SUFFICES ASSUME Init PROVE FlowInv
  OBVIOUS
<1>1. \A h \in Heads : Unused(h) /\ ~OnRoute(h)
  BY DEF Init, Unused, OnRoute, NoForwarder, NoRoute
<1>2. pipe.slots = <<>>
  BY DEF Init, NoPipe
<1> QED
  BY <1>1, <1>2, CarriesNothing DEF FlowInv

LEMMA StepFlow == IInv /\ IInv' /\ FlowInv /\ [Next]_vars => FlowInv'
<1> SUFFICES ASSUME IInv, IInv', FlowInv, [Next]_vars PROVE FlowInv'
  OBVIOUS
<1>1. CASE UNCHANGED vars
  BY <1>1, PendStays DEF vars, planVars, callVars, workerVars, headVars
<1> QED
  BY <1>1, CallerStepFlows, WorkerStepFlows, NextSplit

(* Each answer that a call expects is owed to it exactly once, and by the  *)
(* connection of its route alone, as long as that has not been ended.      *)
THEOREM AnswersAccounted == Spec => []FlowInv
  BY InitFlow, StepFlow, Invariance, PTL DEF Spec

(* Between calls no work and no result of an earlier call is left on a     *)
(* connection that a next call may use: a call that fails with spans under *)
(* way has ended the connection they are on (dist_prefill_sender_cancel,   *)
(* dist_prefill_reader and dist_coordinator_forget_route).                 *)
THEOREM CallsStartQuiet == Spec => []QuietBetweenCalls
<1>1. IInv /\ FlowInv => QuietBetweenCalls
  <2> SUFFICES ASSUME IInv, FlowInv, pc = "idle", NEW h \in Heads, conn[h] = "open"
               PROVE  down[h] = <<>> /\ up[h] = <<>>
    BY DEF QuietBetweenCalls
  <2>1. Expected = 0
    BY DEF Expected
  <2> QED
    BY <2>1, AtRest DEF Unused
<1> QED
  BY <1>1, Invariance, AnswersAccounted, PTL
=============================================================================
