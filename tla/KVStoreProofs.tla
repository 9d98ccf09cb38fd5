---------------------------- MODULE KVStoreProofs ----------------------------
(***************************************************************************)
(* What is proved of KVStore for every number of processes, texts, sizes   *)
(* and configurations.  What a lookup, a load and a crash can leave behind *)
(* is proved for any number of processes that share the directory and for  *)
(* an unlink that may fail (IInv).  The budget and what a store promises   *)
(* are about a process that has the directory for itself and can remove    *)
(* its files, as KVStore says of them: the assumptions Alone and           *)
(* ~UnlinkMayFail of their theorems (AloneInv).                            *)
(***************************************************************************)
EXTENDS KVStore, SumTheorems, FiniteSetTheorems, TLAPS

StoreSteps == {"check", "match", "replace", "trailer", "stage", "create", "finish", "stored"}
LoadSteps == {"open", "hit"}

(* kc->entry is an array of sizes, by text.                                *)
ViewType ==
    /\ DOMAIN view = Procs
    /\ \A p \in Procs : \A t \in DOMAIN view[p] : view[p][t] \in Nat

(* The locals of the call a process is in.                                 *)
CallInv ==
    \A p \in Procs :
        /\ pc[p] \in StoreSteps \cup LoadSteps => key[p] \in Texts
        /\ pc[p] \in {"closed", "idle"} => key[p] = None
        /\ pc[p] # "closed" => config[p] \in Configs

(* A temporary file is the one of the store in progress, written for the   *)
(* configuration of its process.                                           *)
TempInv ==
    \A p \in Procs :
        IF pc[p] = "finish" THEN temp[p] \in Entries /\ temp[p].config = config[p]
                            ELSE temp[p] = None

(* A store is for a checkpoint of min_tokens at least, which its temporary *)
(* file holds.                                                             *)
LengthInv ==
    \A p \in Procs :
        /\ pc[p] \in StoreSteps \/ (pc[p] = "evict" /\ key[p] # None) =>
            length[p] \in Lengths /\ min[p] <= length[p]
        /\ pc[p] = "finish" => temp[p].tokens = length[p]

WholeInv == \A t \in Texts : files[t] # None => files[t].whole

HitInv == \A p \in Procs : pc[p] = "hit" => loaded[p] \in Entries

IInv ==
    /\ TypeOK
    /\ ViewType
    /\ CallInv
    /\ TempInv
    /\ LengthInv
    /\ WholeInv
    /\ HitInv
    /\ LoadedMatches

(* One process at most has the directory open.                             *)
Alone == \A p, q \in Procs : p = q

(* The bytes ds4_kvstore_evict is to leave room for.                       *)
Extra(p) == IF key[p] = None THEN 0 ELSE FileBytes(key[p], est[p])

(* While the eviction loop runs, its entries are the files, its total is   *)
(* what they take, and its target leaves room for the file to be stored.   *)
EvictInv ==
    \A p \in Procs : pc[p] = "evict" =>
        /\ view[p] = [t \in Present |-> FileBytes(t, files[t].trailer)]
        /\ total[p] = SumFunction(view[p])
        /\ Extra(p) \in Nat /\ target[p] = Budget - Extra(p)

(* From the moment kv_cache_existing_compatible has accepted a file to the *)
(* return of the store, the file stays and stays usable.                   *)
KeptInv ==
    \A p \in Procs : pc[p] \in {"match", "trailer", "stored"} =>
        files[key[p]] # None /\ Compatible(config[p], files[key[p]])

AloneInv ==
    /\ EvictInv
    /\ KeptInv
    /\ CheckpointsWithinBudget

-----------------------------------------------------------------------------
(* Sizes.                                                                  *)

LEMMA PresentCounts ==
    ASSUME TypeOK, NEW f, f = [t \in Present |-> FileBytes(t, files[t].trailer)]
    PROVE  Counts(Present, f) /\ SumFunction(f) = SumFunctionOnSet(f, Present) /\ SumFunction(f) \in Nat
<1>1. IsFiniteSet(Present)
  BY SizeAssumption, FS_Subset DEF Present
<1>2. \A t \in Present : files[t].trailer \in Nat /\ Bytes[t] \in Nat
  BY SizeAssumption DEF Present, TypeOK, Entries
<1>3. \A t \in Present : f[t] \in Nat
  BY <1>2 DEF FileBytes
<1>4. Counts(Present, f)
  BY <1>1, <1>3 DEF Counts
<1>5. SumFunction(f) = SumFunctionOnSet(f, Present)
  BY DEF SumFunction
<1> QED
  BY <1>4, <1>5, SumType

(* What fits is within the budget.                                         *)
LEMMA FitsBudget ==
    ASSUME NEW t \in Texts, NEW n \in Trailers, Fits(t, n)
    PROVE  FileBytes(t, n) \in Nat /\ FileBytes(t, n) <= Budget /\ Budget - FileBytes(t, n) \in 0 .. Budget
<1>1. Bytes[t] \in Nat /\ n \in Nat /\ Budget \in Nat
  BY SizeAssumption
<1> DEFINE b == FileBytes(t, n)
<1>2. b \in Nat
  BY <1>1 DEF FileBytes
<1>3. b + (b \div 100) + (IF b % 100 # 0 THEN 1 ELSE 0) <= Budget
  BY DEF Fits, Required
<1> HIDE DEF b
<1>4. b <= Budget
  BY <1>1, <1>2, <1>3
<1> QED
  BY <1>1, <1>2, <1>4 DEF b

-----------------------------------------------------------------------------
(* IInv: any number of processes.                                          *)

LEMMA InitIInv == Init => IInv
<1> SUFFICES ASSUME Init PROVE IInv
  OBVIOUS
<1>1. TypeOK
  BY SizeAssumption DEF Init, TypeOK, Entries, Steps
<1>2. ViewType /\ CallInv /\ TempInv /\ LengthInv /\ WholeInv /\ HitInv /\ LoadedMatches
  BY DEF Init, ViewType, CallInv, TempInv, LengthInv, WholeInv, HitInv, LoadedMatches, StoreSteps, LoadSteps, Entries
<1> QED
  BY <1>1, <1>2 DEF IInv

LEMMA EvictStartTypes ==
    ASSUME IInv, NEW p \in Procs, NEW extra, EvictStart(p, extra), Budget - extra \in 0 .. Budget
    PROVE  /\ total' \in [Procs -> Nat]
           /\ target' \in [Procs -> 0 .. Budget]
           /\ \A q \in Procs : DOMAIN view'[q] \subseteq Texts
           /\ DOMAIN view' = Procs
           /\ \A q \in Procs : \A t \in DOMAIN view'[q] : view'[q][t] \in Nat
           /\ pc' = [pc EXCEPT ![p] = "evict"]
<1> DEFINE f == [t \in Present |-> FileBytes(t, files[t].trailer)]
<1>1. Counts(Present, f) /\ SumFunction(f) \in Nat
  BY PresentCounts DEF IInv
<1>2. /\ view' = [view EXCEPT ![p] = f]
      /\ total' = [total EXCEPT ![p] = SumFunction(f)]
      /\ target' = [target EXCEPT ![p] = Budget - extra]
      /\ pc' = [pc EXCEPT ![p] = "evict"]
  BY DEF EvictStart, Goto
<1>3. DOMAIN f = Present /\ Present \subseteq Texts /\ \A t \in Present : f[t] \in Nat
  BY <1>1 DEF Present, Counts
<1> HIDE DEF f
<1>4. total' \in [Procs -> Nat] /\ target' \in [Procs -> 0 .. Budget]
  BY <1>1, <1>2 DEF IInv, TypeOK
<1>5. /\ DOMAIN view' = Procs
      /\ \A q \in Procs : view'[q] = IF q = p THEN f ELSE view[q]
  BY <1>2 DEF IInv, ViewType
<1>6. \A q \in Procs : DOMAIN view'[q] \subseteq Texts
  BY <1>3, <1>5 DEF IInv, TypeOK
<1>7. \A q \in Procs : \A t \in DOMAIN view'[q] : view'[q][t] \in Nat
  BY <1>3, <1>5 DEF IInv, ViewType
<1> QED
  BY <1>2, <1>4, <1>5, <1>6, <1>7

LEMMA TypeStep == IInv /\ Next => TypeOK' /\ ViewType'
<1> SUFFICES ASSUME IInv, Next PROVE TypeOK' /\ ViewType'
  OBVIOUS
<1> USE DEF IInv
<1>0. PICK p \in Procs :
        \/ Open(p) \/ Evict(p) \/ EvictDone(p)
        \/ \E t \in Texts : StoreBegin(p, t) \/ LoadFind(p, t) \/ PrefillEnd(p, t)
        \/ StoreCheck(p) \/ StoreMatch(p) \/ StoreReplace(p) \/ StoreTrailer(p)
        \/ StoreStage(p) \/ StoreCreate(p) \/ StoreFinish(p) \/ StoreReturn(p)
        \/ LoadOpen(p) \/ LoadReturn(p)
        \/ Stop(p)
  BY DEF Next
<1>1. CASE Open(p)
  <2>1. EvictStart(p, 0) /\ Budget - 0 \in 0 .. Budget
    BY <1>1, SizeAssumption DEF Open
  <2>2. config' \in [Procs -> Configs \cup {None}]
    BY <1>1 DEF Open, TypeOK
  <2>3. min' \in [Procs -> Nat]
    BY <1>1, SizeAssumption DEF Open, TypeOK
  <2>4. UNCHANGED <<files, temp, key, prompt, length, est, loaded, restored>>
    BY <1>1 DEF Open, fileVars, callVars, loadVars
  <2>5. pc' \in [Procs -> Steps]
    BY <2>1 DEF EvictStart, Goto, TypeOK, Steps
  <2>6. /\ total' \in [Procs -> Nat] /\ target' \in [Procs -> 0 .. Budget]
        /\ \A q \in Procs : DOMAIN view'[q] \subseteq Texts
        /\ ViewType'
    BY <2>1, EvictStartTypes DEF ViewType
  <2> QED
    BY <2>2, <2>3, <2>4, <2>5, <2>6 DEF TypeOK
<1>2. CASE Evict(p)
  <2>1. PICK v \in DOMAIN view[p] :
          /\ view' = [view EXCEPT ![p] = [t \in DOMAIN view[p] \ {v} |-> view[p][t]]]
          /\ \/ /\ files[v] # None
                /\ files' = [files EXCEPT ![v] = None]
                /\ total' = [total EXCEPT ![p] = IF total[p] >= view[p][v]
                                                 THEN total[p] - view[p][v] ELSE 0]
             \/ /\ total' = [total EXCEPT ![p] = 0]
                /\ UNCHANGED files
    BY <1>2 DEF Evict
  <2>2. total[p] \in Nat /\ view[p][v] \in Nat /\ v \in Texts
    BY DEF TypeOK, ViewType
  <2>3. total' \in [Procs -> Nat]
    BY <2>1, <2>2 DEF TypeOK
  <2>4. files' \in [Texts -> Entries \cup {None}]
    BY <2>1, <2>2 DEF TypeOK
  <2>5. ViewType' /\ \A q \in Procs : DOMAIN view'[q] \subseteq Texts
    BY <2>1 DEF TypeOK, ViewType
  <2> QED
    BY <1>2, <2>3, <2>4, <2>5 DEF Evict, TypeOK, optVars, callVars, loadVars
<1>3. CASE EvictDone(p)
  <2>1. ViewType' /\ \A q \in Procs : DOMAIN view'[q] \subseteq Texts
    BY <1>3 DEF EvictDone, TypeOK, ViewType
  <2>2. total' \in [Procs -> Nat] /\ target' \in [Procs -> 0 .. Budget]
    BY <1>3, SizeAssumption DEF EvictDone, TypeOK
  <2> QED
    BY <1>3, <2>1, <2>2 DEF EvictDone, TypeOK, Goto, fileVars, optVars, callVars, loadVars, Steps
<1>4. ASSUME NEW t \in Texts, StoreBegin(p, t) PROVE TypeOK' /\ ViewType'
  BY <1>4 DEF StoreBegin, TypeOK, ViewType, Goto, fileVars, optVars, evictVars, loadVars, Steps
<1>5. ASSUME NEW t \in Texts, LoadFind(p, t) PROVE TypeOK' /\ ViewType'
  BY <1>5, PrefixAssumption DEF LoadFind, Usable, TypeOK, ViewType, Goto, fileVars, optVars, evictVars, loadVars, Steps
<1>6. ASSUME NEW t \in Texts, PrefillEnd(p, t) PROVE TypeOK' /\ ViewType'
  BY <1>6 DEF PrefillEnd, TypeOK, ViewType, optVars, callVars, evictVars
<1>7. CASE StoreCheck(p) \/ StoreMatch(p)
  BY <1>7 DEF StoreCheck, StoreMatch, TypeOK, ViewType, Goto, fileVars, optVars, callVars, evictVars, loadVars, Steps
<1>8. CASE StoreReplace(p)
  BY <1>8 DEF StoreReplace, TypeOK, ViewType, Goto, optVars, callVars, evictVars, loadVars, Steps
<1>9. CASE StoreTrailer(p)
  <2>1. files' \in [Texts -> Entries \cup {None}]
    BY <1>9 DEF StoreTrailer, TypeOK, CallInv, StoreSteps, Entries
  <2> QED
    BY <1>9, <2>1 DEF StoreTrailer, TypeOK, ViewType, Goto, optVars, callVars, evictVars, loadVars, Steps
<1>10. CASE StoreStage(p)
  <2>1. CASE Return(p) /\ UNCHANGED evictVars
    BY <1>10, <2>1, SizeAssumption
    DEF StoreStage, Return, TypeOK, ViewType, Goto, fileVars, optVars, callVars, evictVars, loadVars, Steps
  <2>2. CASE /\ Fits(key[p], est[p])
             /\ EvictStart(p, FileBytes(key[p], est[p]))
             /\ UNCHANGED callVars
    <3>1. Budget - FileBytes(key[p], est[p]) \in 0 .. Budget
      BY <1>10, <2>2, FitsBudget DEF StoreStage, CallInv, StoreSteps, TypeOK
    <3> QED
      BY <1>10, <2>2, <3>1, EvictStartTypes
      DEF StoreStage, TypeOK, ViewType, fileVars, optVars, callVars, loadVars, Steps
  <2> QED
    BY <1>10, <2>1, <2>2 DEF StoreStage
<1>11. CASE StoreCreate(p)
  <2> DEFINE new == [config |-> config[p], tokens |-> length[p], trailer |-> est[p], whole |-> FALSE]
  <2>0. new \in Entries
    BY <1>11 DEF StoreCreate, TypeOK, CallInv, LengthInv, StoreSteps, Entries
  <2> HIDE DEF new
  <2>1. temp' \in [Procs -> Entries \cup {None}]
    BY <1>11, <2>0 DEF StoreCreate, TypeOK, new
  <2>2. /\ pc' \in [Procs -> Steps]
        /\ key' \in [Procs -> Texts \cup {None}] /\ prompt' \in [Procs -> Texts \cup {None}]
    BY <1>11 DEF StoreCreate, Return, TypeOK, Goto, callVars, Steps
  <2>3. length' \in [Procs -> Lengths \cup {0}] /\ est' \in [Procs -> Trailers]
    BY <1>11, SizeAssumption DEF StoreCreate, Return, TypeOK, callVars
  <2>4. UNCHANGED <<files, config, min, view, total, target, loaded, restored>>
    BY <1>11 DEF StoreCreate, optVars, evictVars, loadVars
  <2> QED
    BY <2>1, <2>2, <2>3, <2>4 DEF TypeOK, ViewType
<1>12. CASE StoreFinish(p)
  <2>1. temp[p] \in Entries /\ key[p] \in Texts
    BY <1>12 DEF StoreFinish, TempInv, CallInv, StoreSteps
  <2>2. temp' \in [Procs -> Entries \cup {None}]
    BY <1>12 DEF StoreFinish, TypeOK
  <2>3. CASE Return(p) /\ UNCHANGED files
    BY <1>12, <2>2, <2>3, SizeAssumption
    DEF StoreFinish, Return, TypeOK, ViewType, Goto, optVars, callVars, evictVars, loadVars, Steps
  <2>4. ASSUME NEW n \in Trailers,
               files' = [files EXCEPT ![key[p]] = [temp[p] EXCEPT !.trailer = n, !.whole = TRUE]],
               Goto(p, "stored"), UNCHANGED callVars
        PROVE  TypeOK' /\ ViewType'
    <3>1. [temp[p] EXCEPT !.trailer = n, !.whole = TRUE] \in Entries
      BY <2>1 DEF Entries
    <3>2. files' \in [Texts -> Entries \cup {None}]
      BY <2>1, <2>4, <3>1 DEF TypeOK
    <3> QED
      BY <1>12, <2>2, <2>4, <3>2
      DEF StoreFinish, TypeOK, ViewType, Goto, optVars, callVars, evictVars, loadVars, Steps
  <2> QED
    BY <1>12, <2>3, <2>4 DEF StoreFinish
<1>13. CASE StoreReturn(p)
  BY <1>13, SizeAssumption
  DEF StoreReturn, Return, TypeOK, ViewType, Goto, fileVars, optVars, callVars, evictVars, loadVars, Steps
<1>14. CASE LoadOpen(p)
  <2>1. key[p] \in Texts /\ files[key[p]] \in Entries \cup {None}
    BY <1>14 DEF LoadOpen, TypeOK, CallInv, LoadSteps
  <2>2. files' \in [Texts -> Entries \cup {None}] /\ loaded' \in [Procs -> Entries \cup {None}]
    BY <1>14, <2>1 DEF LoadOpen, TypeOK
  <2>3. /\ Return(p) \/ (Goto(p, "hit") /\ UNCHANGED callVars)
        /\ UNCHANGED <<temp, optVars, evictVars, restored>>
    BY <1>14, Zenon DEF LoadOpen
  <2>4. /\ pc' \in [Procs -> Steps]
        /\ key' \in [Procs -> Texts \cup {None}] /\ prompt' \in [Procs -> Texts \cup {None}]
    BY <2>3 DEF Return, TypeOK, Goto, callVars, Steps
  <2>5. length' \in [Procs -> Lengths \cup {0}] /\ est' \in [Procs -> Trailers]
    BY <2>3, SizeAssumption DEF Return, TypeOK, callVars
  <2>6. UNCHANGED <<temp, config, min, view, total, target, restored>>
    BY <2>3 DEF optVars, evictVars
  <2> QED
    BY <2>2, <2>4, <2>5, <2>6 DEF TypeOK, ViewType
<1>15. CASE LoadReturn(p)
  BY <1>15, SizeAssumption
  DEF LoadReturn, Return, TypeOK, ViewType, CallInv, LoadSteps, Goto, fileVars, optVars, callVars, evictVars, Steps
<1>16. CASE Stop(p)
  <2>1. ViewType' /\ \A q \in Procs : DOMAIN view'[q] \subseteq Texts
    BY <1>16 DEF Stop, TypeOK, ViewType
  <2>2. total' \in [Procs -> Nat] /\ target' \in [Procs -> 0 .. Budget] /\ est' \in [Procs -> Trailers]
    BY <1>16, SizeAssumption DEF Stop, TypeOK
  <2> QED
    BY <1>16, <2>1, <2>2 DEF Stop, TypeOK, Steps
<1> QED
  BY <1>0, <1>1, <1>2, <1>3, <1>4, <1>5, <1>6, <1>7, <1>8, <1>9, <1>10, <1>11, <1>12, <1>13, <1>14, <1>15, <1>16

LEMMA CallStep == IInv /\ Next => CallInv' /\ TempInv'
<1> SUFFICES ASSUME IInv, Next PROVE CallInv' /\ TempInv'
  OBVIOUS
<1> USE DEF IInv, TypeOK, CallInv, TempInv, StoreSteps, LoadSteps, Goto, Return, fileVars, optVars, callVars, evictVars, loadVars
<1>0. PICK p \in Procs :
        \/ Open(p) \/ Evict(p) \/ EvictDone(p)
        \/ \E t \in Texts : StoreBegin(p, t) \/ LoadFind(p, t) \/ PrefillEnd(p, t)
        \/ StoreCheck(p) \/ StoreMatch(p) \/ StoreReplace(p) \/ StoreTrailer(p)
        \/ StoreStage(p) \/ StoreCreate(p) \/ StoreFinish(p) \/ StoreReturn(p)
        \/ LoadOpen(p) \/ LoadReturn(p)
        \/ Stop(p)
  BY DEF Next
<1>1. CASE Open(p) \/ Evict(p) \/ EvictDone(p)
  BY <1>1 DEF Open, Evict, EvictDone, EvictStart
<1>2. ASSUME NEW t \in Texts, StoreBegin(p, t) \/ LoadFind(p, t) \/ PrefillEnd(p, t)
      PROVE  CallInv' /\ TempInv'
  BY <1>2, PrefixAssumption DEF StoreBegin, LoadFind, Usable, PrefillEnd
<1>3. CASE StoreCheck(p) \/ StoreMatch(p) \/ StoreReplace(p) \/ StoreTrailer(p)
  BY <1>3 DEF StoreCheck, StoreMatch, StoreReplace, StoreTrailer
<1>4. CASE StoreStage(p)
  BY <1>4 DEF StoreStage, EvictStart
<1>5. CASE StoreCreate(p)
  <2> DEFINE new == [config |-> config[p], tokens |-> length[p], trailer |-> est[p], whole |-> FALSE]
  <2>1. new \in Entries /\ new.config = config[p]
    BY <1>5 DEF StoreCreate, LengthInv, Entries
  <2>2. pc[p] = "create" /\ UNCHANGED config
    BY <1>5 DEF StoreCreate
  <2>3. \/ Return(p) /\ UNCHANGED temp
        \/ temp' = [temp EXCEPT ![p] = new] /\ Goto(p, "finish") /\ UNCHANGED callVars
    BY <1>5 DEF StoreCreate
  <2> HIDE DEF new
  <2>4. CASE Return(p) /\ UNCHANGED temp
    BY <2>2, <2>4
  <2>5. CASE temp' = [temp EXCEPT ![p] = new] /\ Goto(p, "finish") /\ UNCHANGED callVars
    BY <2>1, <2>2, <2>5
  <2> QED
    BY <2>3, <2>4, <2>5
<1>6. CASE StoreFinish(p)
  <2>1. pc[p] = "finish" /\ UNCHANGED config /\ temp' = [temp EXCEPT ![p] = None]
    BY <1>6 DEF StoreFinish
  <2>2. Return(p) \/ (Goto(p, "stored") /\ UNCHANGED callVars)
    BY <1>6, Zenon DEF StoreFinish
  <2> QED
    BY <2>1, <2>2, SMTT(40)
<1>7. CASE StoreReturn(p)
  BY <1>7 DEF StoreReturn
<1>8. CASE LoadOpen(p) \/ LoadReturn(p)
  BY <1>8 DEF LoadOpen, LoadReturn
<1>9. CASE Stop(p)
  BY <1>9 DEF Stop
<1> QED
  BY <1>0, <1>1, <1>2, <1>3, <1>4, <1>5, <1>6, <1>7, <1>8, <1>9

LEMMA LengthStep == IInv /\ Next => LengthInv'
<1> SUFFICES ASSUME IInv, Next PROVE LengthInv'
  OBVIOUS
<1> USE DEF IInv, TypeOK, LengthInv, StoreSteps, Goto, Return, fileVars, optVars, callVars, evictVars, loadVars
<1>0. PICK p \in Procs :
        \/ Open(p) \/ Evict(p) \/ EvictDone(p)
        \/ \E t \in Texts : StoreBegin(p, t) \/ LoadFind(p, t) \/ PrefillEnd(p, t)
        \/ StoreCheck(p) \/ StoreMatch(p) \/ StoreReplace(p) \/ StoreTrailer(p)
        \/ StoreStage(p) \/ StoreCreate(p) \/ StoreFinish(p) \/ StoreReturn(p)
        \/ LoadOpen(p) \/ LoadReturn(p)
        \/ Stop(p)
  BY DEF Next
<1>1. CASE Open(p)
  BY <1>1 DEF Open, EvictStart, CallInv
<1>2. CASE Evict(p) \/ EvictDone(p)
  BY <1>2 DEF Evict, EvictDone
<1>3. ASSUME NEW t \in Texts, StoreBegin(p, t) \/ LoadFind(p, t) \/ PrefillEnd(p, t)
      PROVE  LengthInv'
  <2>1. CASE StoreBegin(p, t)
    <3>1. PICK n \in Lengths : n >= min[p] /\ length' = [length EXCEPT ![p] = n]
      BY <2>1 DEF StoreBegin
    <3>2. n \in Nat /\ min[p] \in Nat /\ min[p] <= n
      BY <3>1, SizeAssumption
    <3> QED
      BY <2>1, <3>1, <3>2 DEF StoreBegin
  <2> QED
    BY <1>3, <2>1 DEF LoadFind, PrefillEnd
<1>4. CASE StoreCheck(p) \/ StoreMatch(p) \/ StoreReplace(p) \/ StoreTrailer(p)
  BY <1>4 DEF StoreCheck, StoreMatch, StoreReplace, StoreTrailer
<1>5. CASE StoreStage(p)
  BY <1>5 DEF StoreStage, EvictStart
<1>6. CASE StoreCreate(p)
  <2> DEFINE new == [config |-> config[p], tokens |-> length[p], trailer |-> est[p], whole |-> FALSE]
  <2>1. new.tokens = length[p]
    OBVIOUS
  <2>2. pc[p] = "create" /\ UNCHANGED optVars
    BY <1>6 DEF StoreCreate
  <2>3. \/ Return(p) /\ UNCHANGED temp
        \/ temp' = [temp EXCEPT ![p] = new] /\ Goto(p, "finish") /\ UNCHANGED callVars
    BY <1>6 DEF StoreCreate
  <2> HIDE DEF new
  <2>4. CASE Return(p) /\ UNCHANGED temp
    BY <2>2, <2>4
  <2>5. CASE temp' = [temp EXCEPT ![p] = new] /\ Goto(p, "finish") /\ UNCHANGED callVars
    BY <2>1, <2>2, <2>5
  <2> QED
    BY <2>3, <2>4, <2>5
<1>7. CASE StoreFinish(p)
  <2>1. pc[p] = "finish" /\ UNCHANGED optVars /\ temp' = [temp EXCEPT ![p] = None]
    BY <1>7 DEF StoreFinish
  <2>2. Return(p) \/ (Goto(p, "stored") /\ UNCHANGED callVars)
    BY <1>7, Zenon DEF StoreFinish
  <2> QED
    BY <2>1, <2>2, SMTT(40)
<1>8. CASE StoreReturn(p) \/ LoadOpen(p) \/ LoadReturn(p)
  BY <1>8 DEF StoreReturn, LoadOpen, LoadReturn
<1>9. CASE Stop(p)
  BY <1>9 DEF Stop
<1> QED
  BY <1>0, <1>1, <1>2, <1>3, <1>4, <1>5, <1>6, <1>7, <1>8, <1>9

(* Rewriting the tool map in place changes nothing else of a file.         *)
LEMMA TrailerRewritten ==
    ASSUME IInv, NEW p \in Procs, StoreTrailer(p), NEW t \in Texts
    PROVE  /\ files[t] = None => files'[t] = None
           /\ files[t] # None => /\ files'[t] # None
                                /\ files'[t].whole = files[t].whole
                                /\ files'[t].config = files[t].config
                                /\ files'[t].tokens = files[t].tokens
<1>1. key[p] \in Texts /\ files \in [Texts -> Entries \cup {None}]
  BY DEF StoreTrailer, IInv, TypeOK, CallInv, StoreSteps
<1>2. CASE files' = files
  BY <1>2
<1>3. CASE files' # files
  <2>1. PICK n \in Trailers : files' = [files EXCEPT ![key[p]].trailer = n]
    BY <1>3 DEF StoreTrailer
  <2> DEFINE e == files[key[p]]
             d == [e EXCEPT !.trailer = n]
  <2>2. e \in Entries
    BY <1>1, <1>3 DEF StoreTrailer
  <2>3. d \in Entries /\ d.whole = e.whole /\ d.config = e.config /\ d.tokens = e.tokens
    BY <2>2 DEF Entries
  <2>4. files'[t] = IF t = key[p] THEN d ELSE files[t]
    BY <1>1, <2>1
  <2> HIDE DEF d
  <2> QED
    BY <2>2, <2>3, <2>4, NoneAssumption
<1> QED
  BY <1>2, <1>3

LEMMA FileStep == IInv /\ Next => WholeInv' /\ HitInv' /\ LoadedMatches'
<1> SUFFICES ASSUME IInv, Next PROVE WholeInv' /\ HitInv' /\ LoadedMatches'
  OBVIOUS
<1> USE DEF IInv, TypeOK, WholeInv, HitInv, LoadedMatches, Goto, Return, fileVars, optVars, callVars, evictVars, loadVars
<1>0. PICK p \in Procs :
        \/ Open(p) \/ Evict(p) \/ EvictDone(p)
        \/ \E t \in Texts : StoreBegin(p, t) \/ LoadFind(p, t) \/ PrefillEnd(p, t)
        \/ StoreCheck(p) \/ StoreMatch(p) \/ StoreReplace(p) \/ StoreTrailer(p)
        \/ StoreStage(p) \/ StoreCreate(p) \/ StoreFinish(p) \/ StoreReturn(p)
        \/ LoadOpen(p) \/ LoadReturn(p)
        \/ Stop(p)
  BY DEF Next
<1>1. CASE Open(p) \/ EvictDone(p)
  BY <1>1 DEF Open, EvictDone, EvictStart
<1>2. CASE Evict(p)
  BY <1>2 DEF Evict
<1>3. ASSUME NEW t \in Texts, StoreBegin(p, t) \/ LoadFind(p, t) \/ PrefillEnd(p, t)
      PROVE  WholeInv' /\ HitInv' /\ LoadedMatches'
  BY <1>3 DEF StoreBegin, LoadFind, PrefillEnd
<1>4. CASE StoreCheck(p) \/ StoreMatch(p) \/ StoreReplace(p)
  BY <1>4 DEF StoreCheck, StoreMatch, StoreReplace
<1>5. CASE StoreTrailer(p)
  <2>1. \A t \in Texts : /\ files[t] = None => files'[t] = None
                         /\ files[t] # None => files'[t].whole = files[t].whole
    BY <1>5, TrailerRewritten
  <2> QED
    BY <1>5, <2>1 DEF StoreTrailer
<1>6. CASE StoreStage(p) \/ StoreCreate(p) \/ StoreReturn(p)
  BY <1>6 DEF StoreStage, EvictStart, StoreCreate, StoreReturn
<1>7. CASE StoreFinish(p)
  <2>1. temp[p] \in Entries
    BY <1>7 DEF StoreFinish, TempInv
  <2>2. \A t \in Texts : files'[t] = files[t] \/ files'[t].whole = TRUE
    <3>1. ASSUME NEW n \in Trailers PROVE [temp[p] EXCEPT !.trailer = n, !.whole = TRUE].whole = TRUE
      BY <2>1 DEF Entries
    <3> QED
      BY <1>7, <3>1 DEF StoreFinish
  <2> QED
    BY <1>7, <2>2 DEF StoreFinish
<1>8. CASE LoadOpen(p)
  BY <1>8 DEF LoadOpen, CallInv, LoadSteps
<1>9. CASE LoadReturn(p)
  BY <1>9 DEF LoadReturn
<1>10. CASE Stop(p)
  BY <1>10 DEF Stop
<1> QED
  BY <1>0, <1>1, <1>2, <1>3, <1>4, <1>5, <1>6, <1>7, <1>8, <1>9, <1>10

LEMMA StutterIInv == IInv /\ UNCHANGED vars => IInv'
BY DEF IInv, TypeOK, ViewType, CallInv, TempInv, LengthInv, WholeInv, HitInv, LoadedMatches,
       vars, fileVars, optVars, callVars, evictVars, loadVars

LEMMA StepIInv == IInv /\ [Next]_vars => IInv'
<1>1. IInv /\ Next => IInv'
  BY TypeStep, CallStep, LengthStep, FileStep DEF IInv
<1> QED
  BY <1>1, StutterIInv

(* IInv holds in every reachable state, for any number of processes and    *)
(* with an unlink that may fail.                                           *)
THEOREM Invariance == Spec => []IInv
BY InitIInv, StepIInv, PTL DEF Spec

(* Every variable keeps the type of the file, field or local it stands     *)
(* for; in particular the target of ds4_kvstore_evict is never negative.   *)
THEOREM TypesCorrect == Spec => []TypeOK
<1>1. IInv => TypeOK
  BY DEF IInv
<1> QED
  BY <1>1, Invariance, PTL

(* A session is only restored from a checkpoint of its own model and of a  *)
(* context that is not larger, whatever other processes do between the     *)
(* lookup and ds4_kvstore_try_load_text.                                   *)
THEOREM LoadsMatch == Spec => []LoadedMatches
<1>1. IInv => LoadedMatches
  BY DEF IInv
<1> QED
  BY <1>1, Invariance, PTL

(* Under the name of a checkpoint there is only ever a complete file, and  *)
(* a process that goes on leaves no temporary file, wherever a store fails *)
(* or a process is killed.                                                 *)
THEOREM FilesAreWhole == Spec => []NoPartialFiles
<1>1. IInv => NoPartialFiles
  BY DEF IInv, TempInv, WholeInv, NoPartialFiles
<1> QED
  BY <1>1, Invariance, PTL

-----------------------------------------------------------------------------
(* AloneInv: one process, and files that can be removed.                   *)

(* What CheckpointsWithinBudget sums over.                                 *)
Counted(p) == {t \in Texts : files[t] # None \/ (t = key[p] /\ pc[p] \in {"create", "finish"})}

LEMMA BytesCount ==
    ASSUME NEW S \in SUBSET Texts
    PROVE  Counts(S, Bytes) /\ SumFunctionOnSet(Bytes, S) \in Nat
<1>1. Counts(S, Bytes)
  BY SizeAssumption, FS_Subset DEF Counts
<1> QED
  BY <1>1, SumType

(* A directory that loses files does not grow.                             *)
LEMMA FewerBytes ==
    ASSUME NEW S \in SUBSET Texts, NEW T \in SUBSET S, SumFunctionOnSet(Bytes, S) <= Budget
    PROVE  SumFunctionOnSet(Bytes, T) <= Budget
<1>1. SumFunctionOnSet(Bytes, T) <= SumFunctionOnSet(Bytes, S)
  <2>1. Counts(S, Bytes) /\ Counts(T, Bytes) /\ \A x \in T : Bytes[x] <= Bytes[x]
    BY BytesCount, SizeAssumption
  <2> QED
    BY <2>1, SumLe
<1> QED
  BY <1>1, BytesCount, SizeAssumption

LEMMA InitAlone == Init => AloneInv
BY DEF Init, AloneInv, EvictInv, KeptInv, CheckpointsWithinBudget

(* The loop of ds4_kvstore_evict ends with room for the file to be stored. *)
LEMMA RoomMade ==
    ASSUME IInv, NEW p \in Procs, pc[p] = "evict",
           view[p] = [t \in Present |-> FileBytes(t, files[t].trailer)],
           total[p] = SumFunction(view[p]),
           Extra(p) \in Nat, target[p] = Budget - Extra(p),
           total[p] <= target[p] \/ DOMAIN view[p] = {}
    PROVE  SumFunctionOnSet(Bytes, {t \in Texts : t \in Present \/ t = key[p]}) <= Budget
<1> DEFINE S == {t \in Texts : t \in Present \/ t = key[p]}
           f == view[p]
<1>1. Counts(Present, f) /\ total[p] = SumFunctionOnSet(f, Present) /\ total[p] \in Nat
  BY PresentCounts DEF IInv
<1>2. Present \in SUBSET Texts
  BY DEF Present
<1>3. SumFunctionOnSet(Bytes, Present) <= total[p]
  <2>1. \A t \in Present : Bytes[t] <= f[t]
    <3>1. \A t \in Present : files[t].trailer \in Nat /\ Bytes[t] \in Nat
      BY SizeAssumption DEF Present, IInv, TypeOK, Entries
    <3> QED
      BY <3>1 DEF FileBytes
  <2>2. Counts(Present, Bytes)
    BY <1>2, BytesCount
  <2> HIDE DEF f
  <2>3. SumFunctionOnSet(Bytes, Present) <= SumFunctionOnSet(f, Present)
    BY <1>1, <2>1, <2>2, SumLe
  <2> QED
    BY <1>1, <2>3
<1>4. total[p] <= target[p]
  <2>1. target[p] \in 0 .. Budget
    BY DEF IInv, TypeOK
  <2>2. CASE DOMAIN view[p] = {}
    <3>1. Present = {}
      BY <2>2
    <3>2. total[p] = 0
      BY <1>1, <3>1, SumEmpty
    <3> QED
      BY <2>1, <3>2
  <2> QED
    BY <2>2
<1>5. SumFunctionOnSet(Bytes, Present) \in Nat /\ Budget \in Nat
  BY <1>2, BytesCount, SizeAssumption
<1>6. SumFunctionOnSet(Bytes, Present) + Extra(p) <= Budget
  <2>1. target[p] \in 0 .. Budget
    BY DEF IInv, TypeOK
  <2> QED
    BY <1>1, <1>3, <1>4, <1>5, <2>1
<1>7. CASE key[p] \in Texts /\ key[p] \notin Present
  <2>1. S = Present \cup {key[p]}
    BY <1>2, <1>7
  <2>2. S \in SUBSET Texts
    OBVIOUS
  <2> HIDE DEF S
  <2>3. /\ Bytes[key[p]] \in Nat
        /\ SumFunctionOnSet(Bytes, S) = Bytes[key[p]] + SumFunctionOnSet(Bytes, Present)
    BY <1>7, <2>1, <2>2, BytesCount, SumAdd
  <2>4. Bytes[key[p]] <= Extra(p)
    <3>1. est[p] \in Nat
      BY SizeAssumption DEF IInv, TypeOK
    <3>2. Extra(p) = Bytes[key[p]] + est[p]
      BY <1>7, ConfigAssumption DEF Extra, FileBytes
    <3> QED
      BY <2>3, <3>1, <3>2
  <2>5. SumFunctionOnSet(Bytes, S) <= Budget
    BY <1>5, <1>6, <2>3, <2>4
  <2> QED
    BY <2>5 DEF S
<1>8. CASE ~(key[p] \in Texts /\ key[p] \notin Present)
  <2>1. S = Present
    BY <1>2, <1>8
  <2> HIDE DEF S
  <2>2. SumFunctionOnSet(Bytes, S) <= Budget
    BY <1>5, <1>6, <2>1
  <2> QED
    BY <2>2 DEF S
<1> QED
  BY <1>7, <1>8

LEMMA EvictInvStep ==
    ASSUME IInv, AloneInv, Alone, ~UnlinkMayFail, Next
    PROVE  EvictInv'
<1>0. PICK p \in Procs :
        \/ Open(p) \/ Evict(p) \/ EvictDone(p)
        \/ \E t \in Texts : StoreBegin(p, t) \/ LoadFind(p, t) \/ PrefillEnd(p, t)
        \/ StoreCheck(p) \/ StoreMatch(p) \/ StoreReplace(p) \/ StoreTrailer(p)
        \/ StoreStage(p) \/ StoreCreate(p) \/ StoreFinish(p) \/ StoreReturn(p)
        \/ LoadOpen(p) \/ LoadReturn(p)
        \/ Stop(p)
  BY DEF Next
<1>a. \A q \in Procs : q = p
  BY DEF Alone
<1>b. pc \in [Procs -> Steps] /\ Budget \in Nat
  BY SizeAssumption DEF IInv, TypeOK
<1> DEFINE Sizes == [t \in Present |-> FileBytes(t, files[t].trailer)]
<1>1. CASE Open(p)
  <2>1. key[p] = None
    BY <1>1 DEF Open, IInv, CallInv
  <2>2. /\ view'[p] = Sizes /\ total'[p] = SumFunction(Sizes) /\ target'[p] = Budget - 0
        /\ files' = files /\ key' = key
    BY <1>1 DEF Open, EvictStart, IInv, TypeOK, ViewType, fileVars, optVars, callVars
  <2>3. Extra(p)' = 0
    BY <2>1, <2>2 DEF Extra
  <2>4. Present' = Present /\ Sizes' = Sizes
    BY <2>2 DEF Present
  <2> HIDE DEF Sizes
  <2>5. view'[p] = Sizes' /\ total'[p] = SumFunction(view'[p]) /\ Extra(p)' \in Nat /\ target'[p] = Budget - Extra(p)'
    BY <2>2, <2>3, <2>4
  <2> QED
    BY <1>a, <2>5 DEF EvictInv, Sizes
<1>2. CASE Evict(p)
  <2>1. /\ pc[p] = "evict"
        /\ view[p] = Sizes /\ total[p] = SumFunction(view[p])
        /\ Extra(p) \in Nat /\ target[p] = Budget - Extra(p)
    BY <1>2 DEF Evict, AloneInv, EvictInv
  <2>2. PICK v \in DOMAIN view[p] :
          /\ view' = [view EXCEPT ![p] = [t \in DOMAIN view[p] \ {v} |-> view[p][t]]]
          /\ files' = [files EXCEPT ![v] = None]
          /\ total' = [total EXCEPT ![p] = IF total[p] >= view[p][v]
                                           THEN total[p] - view[p][v] ELSE 0]
    <3>1. \A v \in DOMAIN view[p] : files[v] # None
      BY <2>1 DEF Present
    <3> QED
      BY <1>2, <3>1 DEF Evict
  <2>3. DOMAIN view[p] = Present /\ v \in Present
    BY <2>1
  <2>4. Present' = Present \ {v}
    BY <2>2, <2>3 DEF Present, IInv, TypeOK
  <2>5. view'[p] = [t \in Present \ {v} |-> view[p][t]]
    BY <2>2, <2>3 DEF IInv, ViewType
  <2>6. view'[p] = Sizes'
    <3>1. \A t \in Present \ {v} : files'[t] = files[t]
      BY <2>2, <2>4 DEF Present, IInv, TypeOK
    <3>2. \A t \in Present \ {v} : view[p][t] = FileBytes(t, files'[t].trailer)
      BY <2>1, <3>1
    <3>3. Sizes' = [t \in Present \ {v} |-> FileBytes(t, files'[t].trailer)]
      BY <2>4 DEF FileBytes
    <3> QED
      BY <2>5, <3>2, <3>3
  <2>7. total'[p] = SumFunction(view'[p])
    <3> DEFINE f == view[p]
               g == view'[p]
    <3>1. Counts(Present, f) /\ SumFunction(f) = SumFunctionOnSet(f, Present) /\ SumFunction(f) \in Nat
      BY <2>1, PresentCounts DEF IInv
    <3>2. \A t \in Present \ {v} : f[t] = g[t]
      BY <2>5
    <3>3. SumFunction(g) = SumFunctionOnSet(g, Present \ {v})
      BY <2>5 DEF SumFunction
    <3>4. total'[p] = IF total[p] >= f[v] THEN total[p] - f[v] ELSE 0
      BY <2>2 DEF IInv, TypeOK
    <3>5. total[p] = SumFunction(f)
      BY <2>1
    <3> HIDE DEF f, g
    <3>6. /\ Counts(Present \ {v}, f) /\ f[v] \in Nat
          /\ SumFunctionOnSet(f, Present) = f[v] + SumFunctionOnSet(f, Present \ {v})
      BY <2>3, <3>1, SumRemove
    <3>7. SumFunctionOnSet(f, Present \ {v}) = SumFunctionOnSet(g, Present \ {v})
      BY <3>2, <3>6, SumSame
    <3>8. SumFunctionOnSet(f, Present \ {v}) \in Nat
      BY <3>6, SumType
    <3>9. total'[p] = SumFunctionOnSet(f, Present \ {v})
      BY <3>1, <3>4, <3>5, <3>6, <3>8
    <3>10. total'[p] = SumFunction(g)
      BY <3>3, <3>7, <3>9
    <3> QED
      BY <3>10 DEF g
  <2>8. Extra(p)' = Extra(p) /\ target' = target
    BY <1>2 DEF Evict, Extra, optVars, callVars
  <2> HIDE DEF Sizes
  <2>9. view'[p] = Sizes' /\ total'[p] = SumFunction(view'[p]) /\ Extra(p)' \in Nat /\ target'[p] = Budget - Extra(p)'
    BY <2>1, <2>6, <2>7, <2>8
  <2> QED
    BY <1>a, <2>9 DEF EvictInv, Sizes
<1>3. CASE StoreStage(p)
  <2>1. CASE Return(p) /\ UNCHANGED evictVars
    <3>1. pc'[p] = "idle"
      BY <1>b, <2>1 DEF Return, Goto
    <3> QED
      BY <1>a, <3>1 DEF EvictInv
  <2>2. CASE /\ Fits(key[p], est[p])
             /\ EvictStart(p, FileBytes(key[p], est[p]))
             /\ UNCHANGED callVars
    <3>1. key[p] \in Texts /\ est[p] \in Trailers /\ key[p] # None
      BY <1>3, ConfigAssumption DEF StoreStage, IInv, CallInv, StoreSteps, TypeOK
    <3>2. FileBytes(key[p], est[p]) \in Nat
      BY <2>2, <3>1, FitsBudget
    <3>3. /\ view'[p] = Sizes /\ total'[p] = SumFunction(Sizes)
          /\ target'[p] = Budget - FileBytes(key[p], est[p])
          /\ files' = files /\ key' = key /\ est' = est
      BY <1>3, <2>2 DEF StoreStage, EvictStart, IInv, TypeOK, ViewType, fileVars, optVars, callVars
    <3>4. Extra(p)' = FileBytes(key[p], est[p])
      BY <3>1, <3>3 DEF Extra, FileBytes
    <3>5. Present' = Present /\ Sizes' = Sizes
      BY <3>3 DEF Present
    <3> HIDE DEF Sizes
    <3>6. view'[p] = Sizes' /\ total'[p] = SumFunction(view'[p]) /\ Extra(p)' \in Nat /\ target'[p] = Budget - Extra(p)'
      BY <3>2, <3>3, <3>4, <3>5
    <3> QED
      BY <1>a, <3>6 DEF EvictInv, Sizes
  <2> QED
    BY <1>3, <2>1, <2>2 DEF StoreStage
<1>4. CASE /\ ~Open(p) /\ ~Evict(p) /\ ~StoreStage(p)
  <2>1. pc'[p] # "evict"
    BY <1>0, <1>4, <1>b DEF EvictDone, StoreBegin, LoadFind, PrefillEnd, StoreCheck, StoreMatch, StoreReplace,
       StoreTrailer, StoreCreate, StoreFinish, StoreReturn, LoadOpen, LoadReturn, Stop, Goto, Return
  <2> QED
    BY <1>a, <2>1 DEF EvictInv
<1> QED
  BY <1>1, <1>2, <1>3, <1>4

LEMMA KeptInvStep ==
    ASSUME IInv, AloneInv, Alone, Next
    PROVE  KeptInv'
<1>0. PICK p \in Procs :
        \/ Open(p) \/ Evict(p) \/ EvictDone(p)
        \/ \E t \in Texts : StoreBegin(p, t) \/ LoadFind(p, t) \/ PrefillEnd(p, t)
        \/ StoreCheck(p) \/ StoreMatch(p) \/ StoreReplace(p) \/ StoreTrailer(p)
        \/ StoreStage(p) \/ StoreCreate(p) \/ StoreFinish(p) \/ StoreReturn(p)
        \/ LoadOpen(p) \/ LoadReturn(p)
        \/ Stop(p)
  BY DEF Next
<1>a. \A q \in Procs : q = p
  BY DEF Alone
<1>b. pc \in [Procs -> Steps]
  BY DEF IInv, TypeOK
<1> DEFINE Kept == files[key[p]] # None /\ Compatible(config[p], files[key[p]])
<1> SUFFICES pc'[p] \in {"match", "trailer", "stored"} => Kept'
  BY <1>a DEF KeptInv
<1>1. CASE StoreCheck(p)
  <2>1. files' = files /\ key' = key /\ config' = config
    BY <1>1 DEF StoreCheck, fileVars, optVars, callVars
  <2>2. Kept' <=> Kept
    BY <2>1 DEF Compatible
  <2>3. pc'[p] \in {"match", "trailer", "stored"} => Kept
    BY <1>1, <1>b DEF StoreCheck, Goto
  <2> QED
    BY <2>2, <2>3
<1>2. CASE StoreMatch(p)
  <2>1. files' = files /\ key' = key /\ config' = config
    BY <1>2 DEF StoreMatch, fileVars, optVars, callVars
  <2>2. Kept' <=> Kept
    BY <2>1 DEF Compatible
  <2>3. Kept
    BY <1>2 DEF StoreMatch, AloneInv, KeptInv
  <2> QED
    BY <2>2, <2>3
<1>3. CASE StoreTrailer(p)
  <2>1. key[p] \in Texts /\ Kept
    BY <1>3 DEF StoreTrailer, AloneInv, KeptInv, IInv, CallInv, StoreSteps
  <2>2. files'[key[p]] # None /\ files'[key[p]].config = files[key[p]].config
    BY <1>3, <2>1, TrailerRewritten
  <2>3. key' = key /\ config' = config
    BY <1>3 DEF StoreTrailer, optVars, callVars
  <2> QED
    BY <2>1, <2>2, <2>3 DEF Compatible
<1>4. CASE StoreFinish(p)
  <2>1. key[p] \in Texts /\ temp[p] \in Entries /\ temp[p].config = config[p] /\ config[p] \in Configs
    BY <1>4 DEF StoreFinish, IInv, CallInv, TempInv, StoreSteps
  <2>2. config' = config /\ config[p].ctx \in Nat
    BY <1>4, <2>1, ConfigAssumption DEF StoreFinish, optVars
  <2>3. CASE Return(p)
    BY <1>b, <2>3 DEF Return, Goto
  <2>4. ASSUME NEW n \in Trailers, key' = key,
               files' = [files EXCEPT ![key[p]] = [temp[p] EXCEPT !.trailer = n, !.whole = TRUE]]
        PROVE  Kept'
    <3> DEFINE e == [temp[p] EXCEPT !.trailer = n, !.whole = TRUE]
    <3>1. e \in Entries /\ e.config = config[p]
      BY <2>1 DEF Entries
    <3>2. files'[key'[p]] = e
      BY <2>1, <2>4 DEF IInv, TypeOK
    <3> HIDE DEF e
    <3> QED
      BY <2>2, <3>1, <3>2, NoneAssumption DEF Compatible
  <2> QED
    BY <1>4, <2>3, <2>4 DEF StoreFinish, optVars, callVars
<1>5. CASE ~StoreCheck(p) /\ ~StoreMatch(p) /\ ~StoreTrailer(p) /\ ~StoreFinish(p)
  BY <1>0, <1>5, <1>b
  DEF Open, Evict, EvictStart, EvictDone, StoreBegin, LoadFind, PrefillEnd, StoreReplace, StoreStage, StoreCreate,
      StoreReturn, LoadOpen, LoadReturn, Stop, Goto, Return
<1> QED
  BY <1>1, <1>2, <1>3, <1>4, <1>5

LEMMA BudgetStep ==
    ASSUME IInv, AloneInv, Alone, Next
    PROVE  CheckpointsWithinBudget'
<1>0. PICK p \in Procs :
        \/ Open(p) \/ Evict(p) \/ EvictDone(p)
        \/ \E t \in Texts : StoreBegin(p, t) \/ LoadFind(p, t) \/ PrefillEnd(p, t)
        \/ StoreCheck(p) \/ StoreMatch(p) \/ StoreReplace(p) \/ StoreTrailer(p)
        \/ StoreStage(p) \/ StoreCreate(p) \/ StoreFinish(p) \/ StoreReturn(p)
        \/ LoadOpen(p) \/ LoadReturn(p)
        \/ Stop(p)
  BY DEF Next
<1>a. \A q \in Procs : q = p
  BY DEF Alone
<1>b. pc \in [Procs -> Steps] /\ files \in [Texts -> Entries \cup {None}]
  BY DEF IInv, TypeOK
<1> SUFFICES ASSUME pc'[p] \notin {"closed", "evict"}
             PROVE  SumFunctionOnSet(Bytes, Counted(p)') <= Budget
  BY <1>a DEF CheckpointsWithinBudget, Counted
<1>1. CASE EvictDone(p)
  <2> DEFINE S == {t \in Texts : t \in Present \/ t = key[p]}
  <2>1. SumFunctionOnSet(Bytes, S) <= Budget
    BY <1>1, RoomMade DEF EvictDone, AloneInv, EvictInv
  <2>2. Counted(p)' \subseteq S
    BY <1>1 DEF EvictDone, Counted, Present, fileVars, optVars, callVars
  <2>3. S \in SUBSET Texts
    OBVIOUS
  <2> HIDE DEF S
  <2> QED
    BY <2>1, <2>2, <2>3, FewerBytes
<1>2. CASE ~EvictDone(p)
  <2>1. pc[p] \notin {"closed", "evict"}
    BY <1>0, <1>2, <1>b
    DEF Open, EvictStart, Evict, StoreBegin, LoadFind, PrefillEnd, StoreCheck, StoreMatch, StoreReplace, StoreTrailer,
        StoreStage, StoreCreate, StoreFinish, StoreReturn, LoadOpen, LoadReturn, Stop, Goto
  <2>2. SumFunctionOnSet(Bytes, Counted(p)) <= Budget
    BY <2>1 DEF AloneInv, CheckpointsWithinBudget, Counted
  <2>3. Counted(p)' \subseteq Counted(p)
    <3>1. ASSUME NEW t \in Texts, StoreBegin(p, t) \/ LoadFind(p, t) \/ PrefillEnd(p, t)
          PROVE  Counted(p)' \subseteq Counted(p)
      BY <1>b, <3>1 DEF StoreBegin, LoadFind, PrefillEnd, Counted, Goto, fileVars, optVars, callVars
    <3>2. CASE StoreCheck(p) \/ StoreMatch(p)
      BY <1>b, <3>2 DEF StoreCheck, StoreMatch, Counted, Goto, fileVars, optVars, callVars
    <3>3. CASE StoreReplace(p)
      BY <1>b, <3>3 DEF StoreReplace, Counted, Goto, optVars, callVars
    <3>4. CASE StoreTrailer(p)
      <4>1. \A t \in Texts : files[t] = None => files'[t] = None
        BY <3>4, TrailerRewritten
      <4> QED
        BY <1>b, <3>4, <4>1 DEF StoreTrailer, Counted, Goto
    <3>5. CASE StoreStage(p)
      BY <1>b, <3>5 DEF StoreStage, EvictStart, Return, Counted, Goto, fileVars, optVars
    <3>6. CASE StoreCreate(p)
      BY <1>b, <3>6 DEF StoreCreate, Return, Counted, Goto, optVars, callVars
    <3>7. CASE StoreFinish(p)
      <4>1. pc[p] = "finish" /\ pc'[p] \in {"idle", "stored"}
        BY <1>b, <3>7 DEF StoreFinish, Return, Goto
      <4>2. \A t \in Texts : t # key[p] /\ files[t] = None => files'[t] = None
        BY <1>b, <3>7 DEF StoreFinish
      <4> QED
        BY <4>1, <4>2 DEF Counted
    <3>8. CASE StoreReturn(p) \/ LoadReturn(p)
      BY <1>b, <3>8 DEF StoreReturn, LoadReturn, Return, Counted, Goto, fileVars, optVars
    <3>9. CASE LoadOpen(p)
      <4>1. \A t \in Texts : files[t] = None => files'[t] = None
        BY <1>b, <3>9 DEF LoadOpen
      <4>2. pc'[p] \in {"idle", "hit"}
        BY <1>b, <3>9 DEF LoadOpen, Return, Goto
      <4> QED
        BY <4>1, <4>2 DEF Counted
    <3>10. ~Open(p) /\ ~Evict(p) /\ ~Stop(p)
      BY <1>b, <2>1 DEF Open, Evict, Stop
    <3> QED
      BY <1>0, <1>2, <3>1, <3>2, <3>3, <3>4, <3>5, <3>6, <3>7, <3>8, <3>9, <3>10
  <2>4. Counted(p) \in SUBSET Texts
    BY DEF Counted
  <2> QED
    BY <2>2, <2>3, <2>4, FewerBytes
<1> QED
  BY <1>1, <1>2

LEMMA StutterAlone == AloneInv /\ UNCHANGED vars => AloneInv'
<1> SUFFICES ASSUME AloneInv, UNCHANGED vars PROVE AloneInv'
  OBVIOUS
<1> USE DEF vars, fileVars, optVars, callVars, evictVars, loadVars
<1>1. EvictInv'
  BY DEF AloneInv, EvictInv, Present, Extra, FileBytes
<1>2. KeptInv'
  BY DEF AloneInv, KeptInv, Compatible
<1>3. CheckpointsWithinBudget'
  BY DEF AloneInv, CheckpointsWithinBudget
<1> QED
  BY <1>1, <1>2, <1>3 DEF AloneInv

(* With one process and files that can be removed, AloneInv holds in every *)
(* reachable state.                                                        *)
THEOREM AloneInvariance ==
    ASSUME Alone, ~UnlinkMayFail
    PROVE  Spec => []AloneInv
<1>1. IInv /\ AloneInv /\ [Next]_vars => AloneInv'
  <2>1. IInv /\ AloneInv /\ Next => AloneInv'
    BY EvictInvStep, KeptInvStep, BudgetStep DEF AloneInv
  <2> QED
    BY <2>1, StutterAlone
<1> QED
  BY <1>1, InitAlone, Invariance, PTL DEF Spec

(* The checkpoints stay within the budget from the moment                  *)
(* ds4_kvstore_open has returned, the file being written included: the     *)
(* eviction loop counts exactly what is in the directory and leaves room   *)
(* for the new file, and nothing else adds one.                            *)
THEOREM BudgetKept ==
    ASSUME Alone, ~UnlinkMayFail
    PROVE  Spec => []CheckpointsWithinBudget
<1>1. AloneInv => CheckpointsWithinBudget
  BY DEF AloneInv
<1> QED
  BY <1>1, AloneInvariance, PTL

(* A store that returns true leaves a checkpoint that a lookup of the same *)
(* process finds for that text, whether it wrote the file or               *)
(* kv_cache_existing_compatible accepted the one it found, unless the file *)
(* it found is shorter than the min_tokens of this process.                *)
THEOREM StoresAreUsable ==
    ASSUME Alone, ~UnlinkMayFail
    PROVE  Spec => []StoredIsUsable
<1>1. IInv /\ AloneInv => StoredIsUsable
  <2> SUFFICES ASSUME IInv, AloneInv, NEW p \in Procs, pc[p] = "stored"
               PROVE  \/ key[p] \in Usable(p, key[p])
                      \/ /\ files[key[p]] # None /\ Compatible(config[p], files[key[p]])
                         /\ files[key[p]].tokens < min[p] /\ min[p] <= length[p]
    BY DEF StoredIsUsable
  <2>1. key[p] \in Texts /\ min[p] <= length[p] /\ min[p] \in Nat
    BY DEF IInv, CallInv, LengthInv, StoreSteps, TypeOK
  <2>2. files[key[p]] # None /\ Compatible(config[p], files[key[p]])
    BY DEF AloneInv, KeptInv
  <2>3. files[key[p]].tokens \in Nat
    BY <2>1, <2>2, SizeAssumption DEF IInv, TypeOK, Entries
  <2> QED
    BY <2>1, <2>2, <2>3, PrefixAssumption DEF Usable
<1> QED
  BY <1>1, Invariance, AloneInvariance, PTL

(* Every process has the min_tokens m, and no file is shorter.             *)
LongFiles(m) ==
    /\ \A t \in Texts : files[t] # None => files[t].tokens >= m
    /\ \A p \in Procs : pc[p] # "closed" => min[p] = m

LEMMA LongFilesStep ==
    ASSUME NEW m \in Nat, Mins = {m}, IInv, LongFiles(m), Next
    PROVE  LongFiles(m)'
<1>0. PICK p \in Procs :
        \/ Open(p) \/ Evict(p) \/ EvictDone(p)
        \/ \E t \in Texts : StoreBegin(p, t) \/ LoadFind(p, t) \/ PrefillEnd(p, t)
        \/ StoreCheck(p) \/ StoreMatch(p) \/ StoreReplace(p) \/ StoreTrailer(p)
        \/ StoreStage(p) \/ StoreCreate(p) \/ StoreFinish(p) \/ StoreReturn(p)
        \/ LoadOpen(p) \/ LoadReturn(p)
        \/ Stop(p)
  BY DEF Next
<1>b. pc \in [Procs -> Steps] /\ files \in [Texts -> Entries \cup {None}] /\ min \in [Procs -> Nat]
  BY DEF IInv, TypeOK
<1>1. \A q \in Procs : pc'[q] # "closed" => min'[q] = m
  <2>1. CASE Open(p)
    BY <1>b, <2>1 DEF Open, EvictStart, Goto, LongFiles
  <2>2. CASE Stop(p)
    BY <1>b, <2>2 DEF Stop, LongFiles
  <2>3. CASE ~Open(p) /\ ~Stop(p)
    <3>1. min' = min
      BY <1>0, <2>3
      DEF Evict, EvictDone, StoreBegin, LoadFind, PrefillEnd, StoreCheck, StoreMatch, StoreReplace, StoreTrailer,
          StoreStage, StoreCreate, StoreFinish, StoreReturn, LoadOpen, LoadReturn, optVars
    <3>2. pc[p] # "closed" /\ \A q \in Procs \ {p} : pc'[q] = pc[q]
      BY <1>0, <1>b, <2>3
      DEF Evict, EvictDone, StoreBegin, LoadFind, PrefillEnd, StoreCheck, StoreMatch, StoreReplace, StoreTrailer,
          StoreStage, StoreCreate, StoreFinish, StoreReturn, LoadOpen, LoadReturn, EvictStart, Return, Goto
    <3> QED
      BY <3>1, <3>2 DEF LongFiles
  <2> QED
    BY <2>1, <2>2, <2>3
<1>2. \A t \in Texts : files'[t] # None => files'[t].tokens >= m
  <2>1. CASE StoreTrailer(p)
    BY <2>1, TrailerRewritten DEF LongFiles
  <2>2. CASE StoreFinish(p)
    <3>1. /\ key[p] \in Texts /\ temp[p] \in Entries
          /\ temp[p].tokens >= m
      <4>1. pc[p] = "finish"
        BY <2>2 DEF StoreFinish
      <4>2. key[p] \in Texts /\ temp[p] \in Entries /\ temp[p].tokens = length[p] /\ min[p] <= length[p]
        BY <4>1 DEF IInv, CallInv, TempInv, LengthInv, StoreSteps
      <4>3. min[p] = m
        BY <4>1 DEF LongFiles
      <4> QED
        BY <4>2, <4>3
    <3>2. CASE files' = files
      BY <3>2 DEF LongFiles
    <3>3. ASSUME NEW n \in Trailers,
                 files' = [files EXCEPT ![key[p]] = [temp[p] EXCEPT !.trailer = n, !.whole = TRUE]]
          PROVE  \A t \in Texts : files'[t] # None => files'[t].tokens >= m
      <4> DEFINE e == [temp[p] EXCEPT !.trailer = n, !.whole = TRUE]
      <4>1. e.tokens = temp[p].tokens
        BY <3>1 DEF Entries
      <4>2. \A t \in Texts : files'[t] = IF t = key[p] THEN e ELSE files[t]
        BY <1>b, <3>3
      <4> HIDE DEF e
      <4> QED
        BY <3>1, <4>1, <4>2 DEF LongFiles
    <3> QED
      BY <2>2, <3>2, <3>3 DEF StoreFinish
  <2>3. CASE ~StoreTrailer(p) /\ ~StoreFinish(p)
    <3>1. \A t \in Texts : files'[t] = files[t] \/ files'[t] = None
      BY <1>0, <1>b, <2>3
      DEF Open, Evict, EvictDone, StoreBegin, LoadFind, PrefillEnd, StoreCheck, StoreMatch, StoreReplace,
          StoreStage, StoreCreate, StoreReturn, LoadOpen, LoadReturn, Stop, fileVars
    <3> QED
      BY <3>1 DEF LongFiles
  <2> QED
    BY <2>1, <2>2, <2>3
<1> QED
  BY <1>1, <1>2 DEF LongFiles

(* No exception is left when min_tokens is the same from one start to the  *)
(* next and what the directory held at first was stored under it too:      *)
(* every store that returns true leaves a checkpoint that                  *)
(* ds4_kvstore_find_text_prefix finds.  Only a file that is left by a      *)
(* process with a smaller min_tokens can be kept and not be found.         *)
THEOREM StoresAreFound ==
    ASSUME Alone, ~UnlinkMayFail, NEW m \in Nat, Mins = {m}
    PROVE  Spec /\ LongFiles(m) => []StoredIsFound
<1>1. LongFiles(m) /\ IInv /\ [Next]_vars => LongFiles(m)'
  <2>1. LongFiles(m) /\ IInv /\ Next => LongFiles(m)'
    BY LongFilesStep
  <2>2. LongFiles(m) /\ UNCHANGED vars => LongFiles(m)'
    BY DEF LongFiles, vars, fileVars, optVars
  <2> QED
    BY <2>1, <2>2
<1>2. IInv /\ LongFiles(m) /\ StoredIsUsable => StoredIsFound
  <2> SUFFICES ASSUME IInv, LongFiles(m), StoredIsUsable, NEW p \in Procs, pc[p] = "stored"
               PROVE  key[p] \in Usable(p, key[p])
    BY DEF StoredIsFound
  <2>1. key[p] \in Texts /\ min[p] = m
    BY DEF IInv, CallInv, StoreSteps, LongFiles
  <2>2. files[key[p]] # None => ~(files[key[p]].tokens < min[p])
    <3> SUFFICES ASSUME files[key[p]] # None PROVE ~(files[key[p]].tokens < min[p])
      OBVIOUS
    <3>1. files[key[p]].tokens \in Nat /\ files[key[p]].tokens >= m
      BY <2>1, SizeAssumption DEF IInv, TypeOK, Entries, LongFiles
    <3> QED
      BY <2>1, <3>1
  <2> QED
    BY <2>2 DEF StoredIsUsable
<1> QED
  BY <1>1, <1>2, Invariance, StoresAreUsable, PTL DEF Spec
=============================================================================
