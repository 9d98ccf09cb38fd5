--------------------------- MODULE JobQueueProofs ---------------------------
(***************************************************************************)
(* The safety of JobQueue for any number of clients and slots.  IInv is    *)
(* the inductive invariant: where a job can be at each control point of    *)
(* its client thread and of the workers, what busy and assigned mean, the  *)
(* order of the list, and what is known about bindings.                    *)
(***************************************************************************)
EXTENDS JobQueue, FiniteSetTheorems, TLAPS

(* The control points between enqueue and the destruction of the job.      *)
Waiting == {"wait", "mark", "detach", "withdraw", "finish"}

(* The control points of a worker that holds a job.                        *)
Holding == {"start", "run", "leave", "complete"}

(* No slot has been given j, and no worker holds it.                       *)
Unplaced(j) == \A s \in Slots : assigned[s] # j /\ current[s] # j

(* A job is in at most one place, and in none once it is done or its       *)
(* client has taken it back.                                               *)
PlaceInv ==
    /\ \A j \in queued : Unplaced(j) /\ j \notin detached \cup done
    /\ \A s \in Slots : assigned[s] # None => assigned[s] \notin detached \cup done
    /\ \A s \in Slots : current[s] # None => current[s] \notin detached \cup done
    /\ \A s, t \in Slots : assigned[s] # None /\ assigned[s] = assigned[t] => s = t
    /\ \A s, t \in Slots : current[s] # None /\ current[s] = current[t] => s = t
    /\ \A s, t \in Slots : assigned[s] # None => assigned[s] # current[t]

(* A job that is waited for and not done is somewhere, and nothing is left *)
(* of a job that is not waited for.                                        *)
ClientInv ==
    \A j \in Jobs :
        /\ client[j] \in Waiting /\ j \notin done \cup detached \cup queued => ~Unplaced(j)
        /\ client[j] \notin Waiting =>
             Unplaced(j) /\ j \notin queued \cup done \cup detached \cup cancelled
        /\ client[j] \in {"new", "close", "gone"} => needs[j] = None
        /\ j \in detached => client[j] \in {"withdraw", "finish", "wait"}
        /\ j \in detached => (client[j] = "wait" <=> j \in done)
        /\ client[j] = "finish" => j \in detached

(* What the fields of a slot say about its worker.                         *)
SlotInv ==
    \A s \in Slots :
        /\ current[s] # None <=> worker[s] \in Holding
        /\ running[s] # None => running[s] = current[s] /\ worker[s] \in {"run", "leave"}
        /\ batched => (busy[s] <=> assigned[s] # None \/ worker[s] \in Holding \cup {"release"})
        /\ assigned[s] # None => batched /\ worker[s] = "idle"
        /\ worker[s] = "release" => batched
        /\ worker[s] = "exited" => stopping /\ queued = {}

(* The list is an order: nobody is in front of himself, nor two jobs in    *)
(* front of each other.                                                    *)
OrderInv ==
    /\ \A j \in Jobs : ahead[j] \subseteq queued
    /\ \A j \in Jobs \ queued : ahead[j] = {}
    /\ \A j, k \in Jobs : j \in ahead[k] => k \notin ahead[j]

(* A job that has not been run is nobody's binding yet.                    *)
Unrun(j) ==
    \/ client[j] \in {"new", "read"}
    \/ j \in queued
    \/ \E s \in Slots : assigned[s] = j \/ (current[s] = j /\ worker[s] \in {"start", "run"})

BindingInv ==
    /\ \A j \in Jobs : Unrun(j) =>
         (\A s \in Slots : live[s] # j) /\ (\A k \in Jobs : needs[k] # j)
    /\ \A s, t \in Slots : live[s] # None /\ live[s] = live[t] => s = t

(* s->clients counts the client threads.                                   *)
Connected == {j \in Jobs : client[j] \notin {"new", "gone"}}

MainInv ==
    /\ clients = Cardinality(Connected)
    /\ main # "accept" => stopping
    /\ main \in {"drain", "closed"} => \A s \in Resident : worker[s] = "exited"
    /\ main = "closed" => clients = 0

IInv ==
    /\ TypeOK
    /\ PlaceInv /\ ClientInv /\ SlotInv /\ OrderInv /\ BindingInv /\ MainInv
    /\ NoIdleSlotWhileWaiting /\ ContinuationOnItsSlot

-----------------------------------------------------------------------------
(* What dispatch_jobs_locked does to the list q and the fields a and b of  *)
(* the slots: some jobs leave the list, each for a free slot that it may   *)
(* use, and a job stays only if the jobs in front of it took every free    *)
(* slot that it may use.                                                   *)
DispatchEffect(q, front, a, b) ==
    /\ queued' \subseteq q
    /\ ahead' = [j \in Jobs |-> IF j \in q \ queued' THEN {} ELSE front[j] \ (q \ queued')]
    /\ assigned' \in [Slots -> Jobs \cup {None}]
    /\ busy' \in [Slots -> BOOLEAN]
    /\ asleep' \in SUBSET Slots
    /\ \A s \in Slots :
         \/ assigned'[s] = a[s] /\ busy'[s] = b[s]
         \/ /\ batched /\ a[s] = None /\ ~b[s] /\ busy'[s]
            /\ assigned'[s] \in q \ queued' /\ Eligible(assigned'[s], s)
    /\ \A j \in q \ queued' : \E s \in Slots : assigned'[s] = j
    /\ \A s, t \in Slots : assigned'[s] \in q /\ assigned'[s] = assigned'[t] => s = t
    /\ batched => \A j \in queued' : \A s \in Slots :
         a[s] = None /\ ~b[s] /\ Eligible(j, s) => assigned'[s] \in front[j]

LEMMA DispatchDoes ==
    ASSUME NEW q \in SUBSET Jobs, NEW front \in [Jobs -> SUBSET Jobs],
           NEW a \in [Slots -> Jobs \cup {None}], NEW b \in [Slots -> BOOLEAN],
           NEW woken, asleep \in SUBSET Slots,
           \A s \in Slots : a[s] \notin q,
           DispatchIfBatched(q, front, a, b, woken)
    PROVE  DispatchEffect(q, front, a, b)
<1> None \notin Jobs
  BY NoneAssumption
<1>1. CASE ~batched
  BY <1>1 DEF DispatchIfBatched, DispatchEffect
<1>2. CASE batched
  <2> DEFINE idle == {s \in Slots : a[s] = None /\ ~b[s]}
  <2>1. PICK m \in DispatchOutcomes(q, front, idle) :
          LET given == {s \in DOMAIN m : m[s] # None}
              taken == {m[s] : s \in given}
          IN  /\ queued' = q \ taken
              /\ ahead' = [j \in Jobs |-> IF j \in taken THEN {} ELSE front[j] \ taken]
              /\ assigned' = [s \in Slots |-> IF s \in given THEN m[s] ELSE a[s]]
              /\ busy' = [s \in Slots |-> s \in given \/ b[s]]
              /\ asleep' = IF woken \/ given # {} THEN {} ELSE asleep
    BY <1>2 DEF DispatchIfBatched, Dispatch
  <2> DEFINE given == {s \in idle : m[s] # None}
             taken == {m[s] : s \in given}
  <2>2. m \in [idle -> q \cup {None}]
    BY DEF DispatchOutcomes
  <2>3. \A j \in q :
            LET mine  == {s \in idle : m[s] = j}
                avail == {s \in idle : m[s] \notin front[j] /\ Eligible(j, s)}
            IN  /\ mine \subseteq avail
                /\ \A s, t \in mine : s = t
                /\ avail # {} => mine # {}
    BY DEF DispatchOutcomes
  <2>4. /\ queued' = q \ taken
        /\ ahead' = [j \in Jobs |-> IF j \in taken THEN {} ELSE front[j] \ taken]
        /\ assigned' = [s \in Slots |-> IF s \in given THEN m[s] ELSE a[s]]
        /\ busy' = [s \in Slots |-> s \in given \/ b[s]]
        /\ asleep' \in SUBSET Slots
    BY <2>1, <2>2
  <2>5. taken \subseteq q /\ given \subseteq Slots
    BY <2>2
  <2>6. q \ queued' = taken
    BY <2>4, <2>5
  <2>7. /\ assigned' \in [Slots -> Jobs \cup {None}]
        /\ busy' \in [Slots -> BOOLEAN]
    <3>1. \A s \in given : m[s] \in Jobs
      BY <2>2
    <3> HIDE DEF given
    <3> QED
      BY <2>4, <3>1
  <2>8. \A s \in given : m[s] \in taken /\ Eligible(m[s], s) /\ a[s] = None /\ ~b[s]
    BY <2>2, <2>3, <2>5
  <2>9. ASSUME NEW s \in Slots, assigned'[s] \in q PROVE s \in given /\ m[s] = assigned'[s]
    BY <2>4, <2>9
  <2>10. \A s, t \in given : m[s] = m[t] => s = t
    BY <2>2, <2>3, <2>5
  <2>11. ASSUME NEW j \in queued', NEW s \in Slots, a[s] = None, ~b[s], Eligible(j, s)
         PROVE  assigned'[s] \in front[j]
    <3>1. {t \in idle : m[t] = j} = {}
      BY <2>4, <2>11
    <3>2. s \in idle /\ m[s] \in front[j]
      BY <2>3, <2>4, <2>11, <3>1
    <3>3. m[s] # None
      BY <3>2, <2>4, <2>11
    <3> QED
      BY <2>4, <3>2, <3>3
  <2>12. \A j \in taken : \E s \in Slots : assigned'[s] = j
    BY <2>4, <2>5
  <2>13. \A s \in Slots :
           \/ assigned'[s] = a[s] /\ busy'[s] = b[s]
           \/ /\ batched /\ a[s] = None /\ ~b[s] /\ busy'[s]
              /\ assigned'[s] \in taken /\ Eligible(assigned'[s], s)
    <3> SUFFICES ASSUME NEW s \in Slots
                 PROVE  \/ assigned'[s] = a[s] /\ busy'[s] = b[s]
                        \/ /\ batched /\ a[s] = None /\ ~b[s] /\ busy'[s]
                           /\ assigned'[s] \in taken /\ Eligible(assigned'[s], s)
      OBVIOUS
    <3>1. CASE s \in given
      <4>1. assigned'[s] = m[s] /\ busy'[s]
        BY <2>4, <3>1
      <4> QED
        BY <4>1, <3>1, <2>8, <1>2
    <3>2. CASE s \notin given
      <4>1. assigned'[s] = a[s] /\ busy'[s] = (s \in given \/ b[s])
        BY <2>4, <3>2
      <4>2. b[s] \in BOOLEAN
        OBVIOUS
      <4> HIDE DEF given
      <4> QED
        BY <4>1, <4>2, <3>2
    <3> QED
      BY <3>1, <3>2
  <2>14. \A s, t \in Slots : assigned'[s] \in q /\ assigned'[s] = assigned'[t] => s = t
    BY <2>9, <2>10
  <2>15. ahead' = [j \in Jobs |-> IF j \in q \ queued' THEN {} ELSE front[j] \ (q \ queued')]
    BY <2>4, <2>6
  <2>16. queued' \subseteq q
    BY <2>4
  <2> HIDE DEF given, taken, idle
  <2> QED
    BY <2>4, <2>6, <2>7, <2>11, <2>12, <2>13, <2>14, <2>15, <2>16 DEF DispatchEffect
<1> QED
  BY <1>1, <1>2

(* The calls of dispatch_jobs_locked, after r, the slots whose job has     *)
(* ended or was taken back, are free again.                                *)
Hands(q, front, r) ==
    /\ queued' \subseteq q
    /\ ahead' = [j \in Jobs |-> IF j \in q \ queued' THEN {} ELSE front[j] \ (q \ queued')]
    /\ assigned' \in [Slots -> Jobs \cup {None}]
    /\ busy' \in [Slots -> BOOLEAN]
    /\ asleep' \in SUBSET Slots
    /\ \A s \in Slots :
         \/ s \in r /\ assigned'[s] = None /\ ~busy'[s]
         \/ s \notin r /\ assigned'[s] = assigned[s] /\ (busy'[s] <=> busy[s])
         \/ /\ batched /\ busy'[s] /\ assigned'[s] \in q \ queued' /\ Eligible(assigned'[s], s)
            /\ s \in r \/ (assigned[s] = None /\ ~busy[s])
    /\ \A j \in q \ queued' : \E s \in Slots : assigned'[s] = j
    /\ \A s, t \in Slots : assigned'[s] \in q /\ assigned'[s] = assigned'[t] => s = t
    /\ batched => \A j \in queued' : \A s \in Slots :
         (s \in r \/ (assigned[s] = None /\ ~busy[s])) /\ Eligible(j, s) => assigned'[s] \in front[j]

LEMMA EnqueueHands ==
    ASSUME TypeOK, PlaceInv, ClientInv, NEW j \in Jobs, Enqueue(j), ~stopping
    PROVE  Hands(queued \cup {j}, [ahead EXCEPT ![j] = queued], {})
<1>1. DispatchIfBatched(queued \cup {j}, [ahead EXCEPT ![j] = queued], assigned, busy, TRUE)
  BY DEF Enqueue
<1>2. \A s \in Slots : assigned[s] \notin queued \cup {j}
  BY DEF Enqueue, PlaceInv, ClientInv, Waiting, Unplaced
<1>3. /\ queued \cup {j} \in SUBSET Jobs
      /\ [ahead EXCEPT ![j] = queued] \in [Jobs -> SUBSET Jobs]
      /\ assigned \in [Slots -> Jobs \cup {None}] /\ busy \in [Slots -> BOOLEAN]
      /\ asleep \in SUBSET Slots
  BY DEF TypeOK
<1>4. DispatchEffect(queued \cup {j}, [ahead EXCEPT ![j] = queued], assigned, busy)
  BY <1>1, <1>2, <1>3, DispatchDoes
<1> QED
  BY <1>4 DEF DispatchEffect, Hands

LEMMA FreedHands ==
    ASSUME TypeOK, PlaceInv, batched, NEW s \in Slots, NEW woken,
           Dispatch(queued, ahead, [assigned EXCEPT ![s] = None], [busy EXCEPT ![s] = FALSE], woken)
    PROVE  Hands(queued, ahead, {s})
<1> DEFINE a == [assigned EXCEPT ![s] = None]
           b == [busy EXCEPT ![s] = FALSE]
<1>1. DispatchIfBatched(queued, ahead, a, b, woken)
  BY DEF DispatchIfBatched
<1>2. \A t \in Slots : a[t] \notin queued
  BY NoneAssumption DEF TypeOK, PlaceInv, Unplaced
<1>3. /\ queued \in SUBSET Jobs /\ ahead \in [Jobs -> SUBSET Jobs]
      /\ a \in [Slots -> Jobs \cup {None}] /\ b \in [Slots -> BOOLEAN]
      /\ asleep \in SUBSET Slots
  BY DEF TypeOK
<1>4. \A t \in Slots : /\ a[t] = IF t = s THEN None ELSE assigned[t]
                       /\ b[t] <=> t # s /\ busy[t]
  BY DEF TypeOK
<1> HIDE DEF a, b
<1>5. DispatchEffect(queued, ahead, a, b)
  BY <1>1, <1>2, <1>3, DispatchDoes
<1> QED
  BY <1>4, <1>5 DEF DispatchEffect, Hands

LEMMA ReleaseHands ==
    ASSUME TypeOK, PlaceInv, SlotInv, NEW s \in Slots, WorkerRelease(s)
    PROVE  batched /\ Hands(queued, ahead, {s})
<1>1. batched /\ assigned[s] = None
  BY DEF WorkerRelease, SlotInv
<1>2. [assigned EXCEPT ![s] = None] = assigned
  BY <1>1 DEF TypeOK
<1>3. Dispatch(queued, ahead, [assigned EXCEPT ![s] = None], [busy EXCEPT ![s] = FALSE], FALSE)
  BY <1>2 DEF WorkerRelease
<1> QED
  BY <1>1, <1>3, FreedHands

LEMMA StopHands ==
    ASSUME TypeOK, PlaceInv, RequestWorkerStop
    PROVE  Hands(queued, ahead, {})
<1>1. DispatchIfBatched(queued, ahead, assigned, busy, TRUE)
  BY DEF RequestWorkerStop
<1>2. \A t \in Slots : assigned[t] \notin queued
  BY DEF TypeOK, PlaceInv, Unplaced
<1>3. DispatchEffect(queued, ahead, assigned, busy)
  BY <1>1, <1>2, DispatchDoes DEF TypeOK
<1> QED
  BY <1>3 DEF DispatchEffect, Hands

(* s->clients is within the number of connections.                         *)
LEMMA ConnectedCount ==
    /\ IsFiniteSet(Connected) /\ Cardinality(Connected) \in Nat
    /\ Cardinality(Connected) <= Cardinality(Jobs) /\ Cardinality(Jobs) \in Nat
  BY FiniteAssumption, FS_Subset, FS_CardinalityType DEF Connected

(* The types of what a dispatch changes.                                   *)
QueueTypes ==
    /\ queued \in SUBSET Jobs /\ ahead \in [Jobs -> SUBSET Jobs]
    /\ assigned \in [Slots -> Jobs \cup {None}] /\ busy \in [Slots -> BOOLEAN]
    /\ asleep \in SUBSET Slots

LEMMA HandsTypes ==
    ASSUME NEW q \in SUBSET Jobs, NEW front \in [Jobs -> SUBSET Jobs], NEW r,
           Hands(q, front, r)
    PROVE  QueueTypes'
  BY DEF Hands, QueueTypes

-----------------------------------------------------------------------------
(* Type correctness is preserved.                                          *)
LEMMA TypeStep ==
    ASSUME TypeOK, PlaceInv, ClientInv, SlotInv, MainInv, Next
    PROVE  TypeOK'
<1> USE ConnectedCount, NoneAssumption DEF TypeOK, queueVars, workerVars, clientVars, mainVars,
        WorkerSteps, ClientSteps, MainSteps
<1>1. ASSUME NEW j \in Jobs, Accept(j) PROVE TypeOK'
  <2>1. j \notin Connected /\ IsFiniteSet(Connected)
    BY <1>1, ConnectedCount DEF Accept, Connected
  <2>2. Cardinality(Connected \cup {j}) = Cardinality(Connected) + 1
    BY <2>1, FS_AddElement
  <2>3. Connected \cup {j} \subseteq Jobs
    BY DEF Connected
  <2>4. Cardinality(Connected \cup {j}) <= Cardinality(Jobs)
    BY <2>3, FiniteAssumption, FS_Subset
  <2>5. clients' \in 0 .. Cardinality(Jobs)
    BY <1>1, <2>2, <2>4 DEF Accept, MainInv
  <2> QED
    BY <1>1, <2>5 DEF Accept
<1>2. ASSUME NEW j \in Jobs, HangUp(j) PROVE TypeOK'
  BY <1>2 DEF HangUp
<1>3. ASSUME NEW j \in Jobs, Parse(j) PROVE TypeOK'
  BY <1>3 DEF Parse
<1>4. ASSUME NEW j \in Jobs, Refuse(j) PROVE TypeOK'
  BY <1>4 DEF Refuse, DestroyJob
<1>5. ASSUME NEW j \in Jobs, Enqueue(j) PROVE TypeOK'
  <2>1. CASE stopping
    BY <1>5, <2>1 DEF Enqueue, DestroyJob
  <2>2. CASE ~stopping
    <3>1. [ahead EXCEPT ![j] = queued] \in [Jobs -> SUBSET Jobs] /\ queued \cup {j} \in SUBSET Jobs
      OBVIOUS
    <3>2. QueueTypes'
      BY <1>5, <2>2, <3>1, EnqueueHands, HandsTypes
    <3>3. /\ client' = [client EXCEPT ![j] = "wait"]
          /\ UNCHANGED <<running, live, worker, current, needs, done, cancelled, detached,
                         hungup, mainVars>>
      BY <1>5, <2>2 DEF Enqueue
    <3> QED
      BY <3>2, <3>3 DEF QueueTypes
  <2> QED
    BY <2>1, <2>2
<1>6. ASSUME NEW j \in Jobs, WaitDone(j) PROVE TypeOK'
  BY <1>6 DEF WaitDone, DestroyJob
<1>7. ASSUME NEW j \in Jobs, WaitDisconnected(j) PROVE TypeOK'
  BY <1>7 DEF WaitDisconnected
<1>8. ASSUME NEW j \in Jobs, CancelMark(j) PROVE TypeOK'
  BY <1>8 DEF CancelMark
<1>9. ASSUME NEW j \in Jobs, CancelDetach(j) PROVE TypeOK'
  <2>1. QueueTypes' /\ detached' \in SUBSET Jobs
    <3>1. CASE j \in queued
      <4>1. /\ queued' = queued \ {j} /\ ahead' = Unlink(j) /\ asleep' = {}
            /\ detached' = detached \cup {j} /\ UNCHANGED <<assigned, busy>>
        BY <1>9, <3>1 DEF CancelDetach
      <4>2. Unlink(j) \in [Jobs -> SUBSET Jobs]
        BY DEF Unlink
      <4> QED
        BY <4>1, <4>2 DEF QueueTypes
    <3>2. CASE j \notin queued /\ \A s \in Slots : assigned[s] # j
      BY <1>9, <3>2 DEF CancelDetach, QueueTypes
    <3>3. ASSUME j \notin queued, batched, detached' = detached \cup {j},
                 NEW s \in Slots, assigned[s] = j,
                 Dispatch(queued, ahead, [assigned EXCEPT ![s] = None],
                          [busy EXCEPT ![s] = FALSE], TRUE)
          PROVE  QueueTypes' /\ detached' \in SUBSET Jobs
      BY <3>3, FreedHands, HandsTypes
    <3> QED
      BY <1>9, <3>1, <3>2, <3>3 DEF CancelDetach
  <2> QED
    BY <1>9, <2>1 DEF CancelDetach, QueueTypes
<1>10. ASSUME NEW j \in Jobs, CancelWithdraw(j) PROVE TypeOK'
  BY <1>10 DEF CancelWithdraw
<1>11. ASSUME NEW j \in Jobs, CancelFinish(j) PROVE TypeOK'
  BY <1>11 DEF CancelFinish
<1>12. ASSUME NEW j \in Jobs, ClientDone(j) PROVE TypeOK'
  BY <1>12 DEF ClientDone
<1>13. ASSUME NEW s \in Slots, WorkerSleep(s) PROVE TypeOK'
  BY <1>13 DEF WorkerSleep
<1>14. ASSUME NEW s \in Slots, WorkerExit(s) PROVE TypeOK'
  BY <1>14 DEF WorkerExit
<1>15. ASSUME NEW s \in Slots, WorkerTake(s) PROVE TypeOK'
  <2>1. CASE batched
    BY <1>15, <2>1 DEF WorkerTake
  <2>2. CASE ~batched
    BY <1>15, <2>2 DEF WorkerTake, Unlink
  <2> QED
    BY <2>1, <2>2
<1>16. ASSUME NEW s \in Slots, GenerateStart(s) PROVE TypeOK'
  BY <1>16 DEF GenerateStart
<1>17. ASSUME NEW s \in Slots, GenerateInner(s) PROVE TypeOK'
  BY <1>17 DEF GenerateInner
<1>18. ASSUME NEW s \in Slots, GenerateLeave(s) PROVE TypeOK'
  BY <1>18 DEF GenerateLeave
<1>19. ASSUME NEW s \in Slots, WorkerComplete(s) PROVE TypeOK'
  <2>1. current[s] \in Jobs
    BY <1>19 DEF WorkerComplete, SlotInv, Holding
  <2> QED
    BY <1>19, <2>1 DEF WorkerComplete
<1>20. ASSUME NEW s \in Slots, WorkerRelease(s) PROVE TypeOK'
  <2>1. QueueTypes'
    BY <1>20, ReleaseHands, HandsTypes
  <2> QED
    BY <1>20, <2>1 DEF WorkerRelease, QueueTypes
<1>21. CASE RequestWorkerStop
  <2>1. QueueTypes'
    BY <1>21, StopHands, HandsTypes
  <2> QED
    BY <1>21, <2>1 DEF RequestWorkerStop, QueueTypes
<1>22. CASE JoinWorkers
  BY <1>22 DEF JoinWorkers
<1>23. CASE CloseResources
  BY <1>23 DEF CloseResources
<1>24. CASE StopSignal
  BY <1>24 DEF StopSignal
<1>25. CASE Terminated
  BY <1>25 DEF Terminated, vars
<1> QED
  BY <1>1, <1>2, <1>3, <1>4, <1>5, <1>6, <1>7, <1>8, <1>9, <1>10, <1>11,
     <1>12, <1>13, <1>14, <1>15, <1>16, <1>17, <1>18, <1>19, <1>20, <1>21,
     <1>22, <1>23, <1>24, <1>25 DEF Next, Arrival, ClientNext, WorkerNext,
     MainNext

(* A job stays in one place.                                                *)
LEMMA PlaceStep ==
    ASSUME TypeOK, PlaceInv, ClientInv, SlotInv, Next
    PROVE  PlaceInv'
<1> USE NoneAssumption DEF TypeOK, PlaceInv, Unplaced, queueVars, workerVars, clientVars,
        mainVars
<1>1. ASSUME NEW j \in Jobs, Accept(j) PROVE PlaceInv'
  BY <1>1 DEF Accept
<1>2. ASSUME NEW j \in Jobs, HangUp(j) PROVE PlaceInv'
  BY <1>2 DEF HangUp
<1>3. ASSUME NEW j \in Jobs, Parse(j) PROVE PlaceInv'
  BY <1>3 DEF Parse
<1>4. ASSUME NEW j \in Jobs, Refuse(j) PROVE PlaceInv'
  BY <1>4 DEF Refuse, DestroyJob
<1>5. ASSUME NEW j \in Jobs, Enqueue(j) PROVE PlaceInv'
  <2>1. CASE stopping
    BY <1>5, <2>1 DEF Enqueue, DestroyJob
  <2>2. CASE ~stopping
    <3>1. Hands(queued \cup {j}, [ahead EXCEPT ![j] = queued], {})
      BY <1>5, <2>2, EnqueueHands
    <3>2. /\ client[j] = "read" /\ client' = [client EXCEPT ![j] = "wait"]
          /\ UNCHANGED <<running, live, worker, current, needs, done, cancelled, detached,
                         hungup, mainVars>>
      BY <1>5, <2>2 DEF Enqueue
    <3> QED
      BY <3>1, <3>2, <2>2 DEF Hands, ClientInv, Waiting
  <2> QED
    BY <2>1, <2>2
<1>6. ASSUME NEW j \in Jobs, WaitDone(j) PROVE PlaceInv'
  BY <1>6 DEF WaitDone, DestroyJob
<1>7. ASSUME NEW j \in Jobs, WaitDisconnected(j) PROVE PlaceInv'
  BY <1>7 DEF WaitDisconnected
<1>8. ASSUME NEW j \in Jobs, CancelMark(j) PROVE PlaceInv'
  BY <1>8 DEF CancelMark
<1>9. ASSUME NEW j \in Jobs, CancelDetach(j) PROVE PlaceInv'
  <2>1. /\ client[j] = "detach" /\ client' = [client EXCEPT ![j] = "withdraw"]
        /\ UNCHANGED <<running, live, worker, current, needs, done, cancelled, hungup, mainVars>>
    BY <1>9 DEF CancelDetach
  <2>2. CASE j \in queued
    <3>1. /\ queued' = queued \ {j} /\ ahead' = Unlink(j) /\ detached' = detached \cup {j}
          /\ UNCHANGED <<assigned, busy>>
      BY <1>9, <2>2 DEF CancelDetach
    <3> QED
      BY <2>1, <2>2, <3>1 DEF Unlink, ClientInv, Waiting
  <2>3. CASE j \notin queued /\ \A s \in Slots : assigned[s] # j
    <3>1. UNCHANGED <<queueVars, detached>>
      BY <1>9, <2>3 DEF CancelDetach
    <3> QED
      BY <2>1, <2>3, <3>1 DEF ClientInv, Waiting
  <2>4. ASSUME j \notin queued, batched, NEW s \in Slots, assigned[s] = j,
               detached' = detached \cup {j},
               Dispatch(queued, ahead, [assigned EXCEPT ![s] = None],
                        [busy EXCEPT ![s] = FALSE], TRUE)
        PROVE  PlaceInv'
    <3>1. Hands(queued, ahead, {s})
      BY <2>4, FreedHands
    <3> QED
      BY <2>1, <2>4, <3>1 DEF Hands, ClientInv, Waiting
  <2> QED
    BY <1>9, <2>2, <2>3, <2>4 DEF CancelDetach
<1>10. ASSUME NEW j \in Jobs, CancelWithdraw(j) PROVE PlaceInv'
  BY <1>10 DEF CancelWithdraw
<1>11. ASSUME NEW j \in Jobs, CancelFinish(j) PROVE PlaceInv'
  BY <1>11 DEF CancelFinish, ClientInv
<1>12. ASSUME NEW j \in Jobs, ClientDone(j) PROVE PlaceInv'
  BY <1>12 DEF ClientDone
<1>13. ASSUME NEW s \in Slots, WorkerSleep(s) PROVE PlaceInv'
  BY <1>13 DEF WorkerSleep
<1>14. ASSUME NEW s \in Slots, WorkerExit(s) PROVE PlaceInv'
  BY <1>14 DEF WorkerExit
<1>15. ASSUME NEW s \in Slots, WorkerTake(s) PROVE PlaceInv'
  BY <1>15, SMTT(40) DEF WorkerTake
<1>16. ASSUME NEW s \in Slots, GenerateStart(s) PROVE PlaceInv'
  BY <1>16 DEF GenerateStart
<1>17. ASSUME NEW s \in Slots, GenerateInner(s) PROVE PlaceInv'
  BY <1>17 DEF GenerateInner
<1>18. ASSUME NEW s \in Slots, GenerateLeave(s) PROVE PlaceInv'
  BY <1>18 DEF GenerateLeave
<1>19. ASSUME NEW s \in Slots, WorkerComplete(s) PROVE PlaceInv'
  BY <1>19 DEF WorkerComplete
<1>20. ASSUME NEW s \in Slots, WorkerRelease(s) PROVE PlaceInv'
  <2>1. batched /\ Hands(queued, ahead, {s})
    BY <1>20, ReleaseHands
  <2>2. /\ worker[s] = "release" /\ worker' = [worker EXCEPT ![s] = "idle"]
        /\ UNCHANGED <<running, live, current, clientVars, mainVars>>
    BY <1>20 DEF WorkerRelease
  <2> QED
    BY <2>1, <2>2 DEF Hands, ClientInv, Waiting
<1>21. CASE RequestWorkerStop
  <2>1. Hands(queued, ahead, {})
    BY <1>21, StopHands
  <2>2. /\ main' = "join" /\ stopping'
        /\ UNCHANGED <<running, live, worker, current, clientVars, stop, clients, batched>>
    BY <1>21 DEF RequestWorkerStop
  <2> QED
    BY <2>1, <2>2 DEF Hands, ClientInv, Waiting
<1>22. CASE JoinWorkers
  BY <1>22 DEF JoinWorkers
<1>23. CASE CloseResources
  BY <1>23 DEF CloseResources
<1>24. CASE StopSignal
  BY <1>24 DEF StopSignal
<1>25. CASE Terminated
  BY <1>25 DEF Terminated, vars
<1> QED
  BY <1>1, <1>2, <1>3, <1>4, <1>5, <1>6, <1>7, <1>8, <1>9, <1>10, <1>11,
     <1>12, <1>13, <1>14, <1>15, <1>16, <1>17, <1>18, <1>19, <1>20, <1>21,
     <1>22, <1>23, <1>24, <1>25 DEF Next, Arrival, ClientNext, WorkerNext,
     MainNext

(* The client of a job knows where it can be.                               *)
LEMMA ClientStep ==
    ASSUME TypeOK, PlaceInv, ClientInv, SlotInv, Next
    PROVE  ClientInv'
<1> USE NoneAssumption DEF TypeOK, ClientInv, Waiting, Unplaced, queueVars, workerVars, clientVars,
        mainVars
<1>1. ASSUME NEW j \in Jobs, Accept(j) PROVE ClientInv'
  BY <1>1 DEF Accept
<1>2. ASSUME NEW j \in Jobs, HangUp(j) PROVE ClientInv'
  BY <1>2 DEF HangUp
<1>3. ASSUME NEW j \in Jobs, Parse(j) PROVE ClientInv'
  BY <1>3 DEF Parse
<1>4. ASSUME NEW j \in Jobs, Refuse(j) PROVE ClientInv'
  BY <1>4 DEF Refuse, DestroyJob
<1>5. ASSUME NEW j \in Jobs, Enqueue(j) PROVE ClientInv'
  <2>1. CASE stopping
    BY <1>5, <2>1 DEF Enqueue, DestroyJob
  <2>2. CASE ~stopping
    <3>1. Hands(queued \cup {j}, [ahead EXCEPT ![j] = queued], {})
      BY <1>5, <2>2, EnqueueHands
    <3>2. /\ client[j] = "read" /\ client' = [client EXCEPT ![j] = "wait"]
          /\ UNCHANGED <<running, live, worker, current, needs, done, cancelled, detached,
                         hungup, mainVars>>
      BY <1>5, <2>2 DEF Enqueue
    <3> QED
      BY <3>1, <3>2, <2>2 DEF Hands, PlaceInv, SlotInv
  <2> QED
    BY <2>1, <2>2
<1>6. ASSUME NEW j \in Jobs, WaitDone(j) PROVE ClientInv'
  BY <1>6 DEF WaitDone, DestroyJob, PlaceInv
<1>7. ASSUME NEW j \in Jobs, WaitDisconnected(j) PROVE ClientInv'
  BY <1>7 DEF WaitDisconnected
<1>8. ASSUME NEW j \in Jobs, CancelMark(j) PROVE ClientInv'
  BY <1>8 DEF CancelMark
<1>9. ASSUME NEW j \in Jobs, CancelDetach(j) PROVE ClientInv'
  <2>1. /\ client[j] = "detach" /\ client' = [client EXCEPT ![j] = "withdraw"]
        /\ UNCHANGED <<running, live, worker, current, needs, done, cancelled, hungup, mainVars>>
    BY <1>9 DEF CancelDetach
  <2>2. CASE j \in queued
    <3>1. /\ queued' = queued \ {j} /\ ahead' = Unlink(j) /\ detached' = detached \cup {j}
          /\ UNCHANGED <<assigned, busy>>
      BY <1>9, <2>2 DEF CancelDetach
    <3> QED
      BY <2>1, <2>2, <3>1 DEF Unlink, PlaceInv, SlotInv
  <2>3. CASE j \notin queued /\ \A s \in Slots : assigned[s] # j
    <3>1. UNCHANGED <<queueVars, detached>>
      BY <1>9, <2>3 DEF CancelDetach
    <3> QED
      BY <2>1, <2>3, <3>1 DEF PlaceInv, SlotInv
  <2>4. ASSUME j \notin queued, batched, NEW s \in Slots, assigned[s] = j,
               detached' = detached \cup {j},
               Dispatch(queued, ahead, [assigned EXCEPT ![s] = None],
                        [busy EXCEPT ![s] = FALSE], TRUE)
        PROVE  ClientInv'
    <3>1. Hands(queued, ahead, {s})
      BY <2>4, FreedHands
    <3> QED
      BY <2>1, <2>4, <3>1 DEF Hands, PlaceInv, SlotInv
  <2> QED
    BY <1>9, <2>2, <2>3, <2>4 DEF CancelDetach
<1>10. ASSUME NEW j \in Jobs, CancelWithdraw(j) PROVE ClientInv'
  BY <1>10 DEF CancelWithdraw
<1>11. ASSUME NEW j \in Jobs, CancelFinish(j) PROVE ClientInv'
  BY <1>11 DEF CancelFinish
<1>12. ASSUME NEW j \in Jobs, ClientDone(j) PROVE ClientInv'
  BY <1>12 DEF ClientDone
<1>13. ASSUME NEW s \in Slots, WorkerSleep(s) PROVE ClientInv'
  BY <1>13 DEF WorkerSleep
<1>14. ASSUME NEW s \in Slots, WorkerExit(s) PROVE ClientInv'
  BY <1>14 DEF WorkerExit
<1>15. ASSUME NEW s \in Slots, WorkerTake(s) PROVE ClientInv'
  <2>1. current[s] = None
    BY <1>15 DEF WorkerTake, SlotInv, Holding
  <2>2. CASE batched
    <3>1. /\ current' = [current EXCEPT ![s] = assigned[s]] /\ assigned[s] # None
          /\ assigned' = [assigned EXCEPT ![s] = None]
          /\ UNCHANGED <<queued, clientVars>>
      BY <1>15, <2>2 DEF WorkerTake
    <3>2. \A j \in Jobs : Unplaced(j)' <=> Unplaced(j)
      BY <2>1, <3>1
    <3> QED
      BY <3>1, <3>2
  <2>3. CASE ~batched
    <3>1. PICK k \in queued :
            /\ current' = [current EXCEPT ![s] = k] /\ queued' = queued \ {k}
            /\ UNCHANGED <<assigned, clientVars>>
      BY <1>15, <2>3 DEF WorkerTake
    <3>2. \A j \in Jobs \ {k} : Unplaced(j)' <=> Unplaced(j)
      BY <2>1, <3>1
    <3>3. ~Unplaced(k)' /\ client[k] \in Waiting /\ k \notin detached
      BY <3>1 DEF PlaceInv
    <3> QED
      BY <3>1, <3>2, <3>3
  <2> QED
    BY <2>2, <2>3
<1>16. ASSUME NEW s \in Slots, GenerateStart(s) PROVE ClientInv'
  BY <1>16 DEF GenerateStart
<1>17. ASSUME NEW s \in Slots, GenerateInner(s) PROVE ClientInv'
  BY <1>17 DEF GenerateInner
<1>18. ASSUME NEW s \in Slots, GenerateLeave(s) PROVE ClientInv'
  BY <1>18 DEF GenerateLeave
<1>19. ASSUME NEW s \in Slots, WorkerComplete(s) PROVE ClientInv'
  <2> DEFINE k == current[s]
  <2>1. k \in Jobs /\ client[k] \in Waiting /\ k \notin detached
    BY <1>19 DEF WorkerComplete, SlotInv, Holding, PlaceInv
  <2>2. /\ done' = done \cup {k} /\ current' = [current EXCEPT ![s] = None]
        /\ UNCHANGED <<queued, assigned, client, needs, cancelled, detached>>
    BY <1>19 DEF WorkerComplete
  <2>3. \A j \in Jobs \ {k} : Unplaced(j)' <=> Unplaced(j)
    BY <2>2
  <2> HIDE DEF k
  <2> QED
    BY <2>1, <2>2, <2>3
<1>20. ASSUME NEW s \in Slots, WorkerRelease(s) PROVE ClientInv'
  <2>1. batched /\ Hands(queued, ahead, {s})
    BY <1>20, ReleaseHands
  <2>2. /\ worker[s] = "release" /\ worker' = [worker EXCEPT ![s] = "idle"]
        /\ UNCHANGED <<running, live, current, clientVars, mainVars>>
    BY <1>20 DEF WorkerRelease
  <2> QED
    BY <2>1, <2>2 DEF Hands, PlaceInv, SlotInv
<1>21. CASE RequestWorkerStop
  <2>1. Hands(queued, ahead, {})
    BY <1>21, StopHands
  <2>2. /\ main' = "join" /\ stopping'
        /\ UNCHANGED <<running, live, worker, current, clientVars, stop, clients, batched>>
    BY <1>21 DEF RequestWorkerStop
  <2> QED
    BY <2>1, <2>2 DEF Hands, PlaceInv, SlotInv
<1>22. CASE JoinWorkers
  BY <1>22 DEF JoinWorkers
<1>23. CASE CloseResources
  BY <1>23 DEF CloseResources
<1>24. CASE StopSignal
  BY <1>24 DEF StopSignal
<1>25. CASE Terminated
  BY <1>25 DEF Terminated, vars
<1> QED
  BY <1>1, <1>2, <1>3, <1>4, <1>5, <1>6, <1>7, <1>8, <1>9, <1>10, <1>11,
     <1>12, <1>13, <1>14, <1>15, <1>16, <1>17, <1>18, <1>19, <1>20, <1>21,
     <1>22, <1>23, <1>24, <1>25 DEF Next, Arrival, ClientNext, WorkerNext,
     MainNext

(* The fields of a slot say what its worker does.                           *)
LEMMA SlotStep ==
    ASSUME TypeOK, PlaceInv, ClientInv, SlotInv, OrderInv, Next
    PROVE  SlotInv'
<1> USE NoneAssumption DEF TypeOK, SlotInv, Holding, queueVars, workerVars, clientVars, mainVars
<1>1. ASSUME NEW j \in Jobs, Accept(j) PROVE SlotInv'
  BY <1>1 DEF Accept
<1>2. ASSUME NEW j \in Jobs, HangUp(j) PROVE SlotInv'
  BY <1>2 DEF HangUp
<1>3. ASSUME NEW j \in Jobs, Parse(j) PROVE SlotInv'
  BY <1>3 DEF Parse
<1>4. ASSUME NEW j \in Jobs, Refuse(j) PROVE SlotInv'
  BY <1>4 DEF Refuse, DestroyJob
<1>5. ASSUME NEW j \in Jobs, Enqueue(j) PROVE SlotInv'
  <2>1. CASE stopping
    BY <1>5, <2>1 DEF Enqueue, DestroyJob
  <2>2. CASE ~stopping
    <3>1. Hands(queued \cup {j}, [ahead EXCEPT ![j] = queued], {})
      BY <1>5, <2>2, EnqueueHands
    <3>2. /\ client[j] = "read" /\ client' = [client EXCEPT ![j] = "wait"]
          /\ UNCHANGED <<running, live, worker, current, needs, done, cancelled, detached,
                         hungup, mainVars>>
      BY <1>5, <2>2 DEF Enqueue
    <3> QED
      BY <3>1, <3>2, <2>2 DEF Hands, PlaceInv, Unplaced, WorkerSteps
  <2> QED
    BY <2>1, <2>2
<1>6. ASSUME NEW j \in Jobs, WaitDone(j) PROVE SlotInv'
  BY <1>6 DEF WaitDone, DestroyJob
<1>7. ASSUME NEW j \in Jobs, WaitDisconnected(j) PROVE SlotInv'
  BY <1>7 DEF WaitDisconnected
<1>8. ASSUME NEW j \in Jobs, CancelMark(j) PROVE SlotInv'
  BY <1>8 DEF CancelMark
<1>9. ASSUME NEW j \in Jobs, CancelDetach(j) PROVE SlotInv'
  <2>1. /\ client[j] = "detach" /\ client' = [client EXCEPT ![j] = "withdraw"]
        /\ UNCHANGED <<running, live, worker, current, needs, done, cancelled, hungup, mainVars>>
    BY <1>9 DEF CancelDetach
  <2>2. CASE j \in queued
    <3>1. /\ queued' = queued \ {j} /\ ahead' = Unlink(j) /\ detached' = detached \cup {j}
          /\ UNCHANGED <<assigned, busy>>
      BY <1>9, <2>2 DEF CancelDetach
    <3> QED
      BY <2>1, <2>2, <3>1 DEF Unlink, PlaceInv, Unplaced, WorkerSteps
  <2>3. CASE j \notin queued /\ \A s \in Slots : assigned[s] # j
    <3>1. UNCHANGED <<queueVars, detached>>
      BY <1>9, <2>3 DEF CancelDetach
    <3> QED
      BY <2>1, <2>3, <3>1 DEF PlaceInv, Unplaced, WorkerSteps
  <2>4. ASSUME j \notin queued, batched, NEW s \in Slots, assigned[s] = j,
               detached' = detached \cup {j},
               Dispatch(queued, ahead, [assigned EXCEPT ![s] = None],
                        [busy EXCEPT ![s] = FALSE], TRUE)
        PROVE  SlotInv'
    <3>1. Hands(queued, ahead, {s})
      BY <2>4, FreedHands
    <3> QED
      BY <2>1, <2>4, <3>1 DEF Hands, PlaceInv, Unplaced, WorkerSteps
  <2> QED
    BY <1>9, <2>2, <2>3, <2>4 DEF CancelDetach
<1>10. ASSUME NEW j \in Jobs, CancelWithdraw(j) PROVE SlotInv'
  BY <1>10 DEF CancelWithdraw
<1>11. ASSUME NEW j \in Jobs, CancelFinish(j) PROVE SlotInv'
  BY <1>11 DEF CancelFinish
<1>12. ASSUME NEW j \in Jobs, ClientDone(j) PROVE SlotInv'
  BY <1>12 DEF ClientDone
<1>13. ASSUME NEW s \in Slots, WorkerSleep(s) PROVE SlotInv'
  BY <1>13 DEF WorkerSleep
<1>14. ASSUME NEW s \in Slots, WorkerExit(s) PROVE SlotInv'
  BY <1>14 DEF WorkerExit, HasWork
<1>15. ASSUME NEW s \in Slots, WorkerTake(s) PROVE SlotInv'
  BY <1>15 DEF WorkerTake
<1>16. ASSUME NEW s \in Slots, GenerateStart(s) PROVE SlotInv'
  BY <1>16 DEF GenerateStart
<1>17. ASSUME NEW s \in Slots, GenerateInner(s) PROVE SlotInv'
  BY <1>17 DEF GenerateInner
<1>18. ASSUME NEW s \in Slots, GenerateLeave(s) PROVE SlotInv'
  BY <1>18 DEF GenerateLeave
<1>19. ASSUME NEW s \in Slots, WorkerComplete(s) PROVE SlotInv'
  BY <1>19 DEF WorkerComplete
<1>20. ASSUME NEW s \in Slots, WorkerRelease(s) PROVE SlotInv'
  <2>1. batched /\ Hands(queued, ahead, {s})
    BY <1>20, ReleaseHands
  <2>2. /\ worker[s] = "release" /\ worker' = [worker EXCEPT ![s] = "idle"]
        /\ UNCHANGED <<running, live, current, clientVars, mainVars>>
    BY <1>20 DEF WorkerRelease
  <2> QED
    BY <2>1, <2>2 DEF Hands, PlaceInv, Unplaced, WorkerSteps
<1>21. CASE RequestWorkerStop
  <2>1. Hands(queued, ahead, {})
    BY <1>21, StopHands
  <2>2. /\ main' = "join" /\ stopping'
        /\ UNCHANGED <<running, live, worker, current, clientVars, stop, clients, batched>>
    BY <1>21 DEF RequestWorkerStop
  <2> QED
    BY <2>1, <2>2 DEF Hands, PlaceInv, Unplaced, WorkerSteps
<1>22. CASE JoinWorkers
  BY <1>22 DEF JoinWorkers
<1>23. CASE CloseResources
  BY <1>23 DEF CloseResources
<1>24. CASE StopSignal
  BY <1>24 DEF StopSignal
<1>25. CASE Terminated
  BY <1>25 DEF Terminated, vars
<1> QED
  BY <1>1, <1>2, <1>3, <1>4, <1>5, <1>6, <1>7, <1>8, <1>9, <1>10, <1>11,
     <1>12, <1>13, <1>14, <1>15, <1>16, <1>17, <1>18, <1>19, <1>20, <1>21,
     <1>22, <1>23, <1>24, <1>25 DEF Next, Arrival, ClientNext, WorkerNext,
     MainNext

(* The list stays an order.                                                 *)
LEMMA OrderStep ==
    ASSUME TypeOK, PlaceInv, ClientInv, SlotInv, OrderInv, Next
    PROVE  OrderInv'
<1> USE NoneAssumption DEF TypeOK, OrderInv, queueVars, workerVars, clientVars, mainVars
<1>1. ASSUME NEW j \in Jobs, Accept(j) PROVE OrderInv'
  BY <1>1 DEF Accept
<1>2. ASSUME NEW j \in Jobs, HangUp(j) PROVE OrderInv'
  BY <1>2 DEF HangUp
<1>3. ASSUME NEW j \in Jobs, Parse(j) PROVE OrderInv'
  BY <1>3 DEF Parse
<1>4. ASSUME NEW j \in Jobs, Refuse(j) PROVE OrderInv'
  BY <1>4 DEF Refuse, DestroyJob
<1>5. ASSUME NEW j \in Jobs, Enqueue(j) PROVE OrderInv'
  <2>1. CASE stopping
    BY <1>5, <2>1 DEF Enqueue, DestroyJob
  <2>2. CASE ~stopping
    <3>1. Hands(queued \cup {j}, [ahead EXCEPT ![j] = queued], {})
      BY <1>5, <2>2, EnqueueHands
    <3>2. /\ client[j] = "read" /\ client' = [client EXCEPT ![j] = "wait"]
          /\ UNCHANGED <<running, live, worker, current, needs, done, cancelled, detached,
                         hungup, mainVars>>
      BY <1>5, <2>2 DEF Enqueue
    <3> QED
      BY <3>1, <3>2, <2>2 DEF Hands, PlaceInv, ClientInv, Waiting
  <2> QED
    BY <2>1, <2>2
<1>6. ASSUME NEW j \in Jobs, WaitDone(j) PROVE OrderInv'
  BY <1>6 DEF WaitDone, DestroyJob
<1>7. ASSUME NEW j \in Jobs, WaitDisconnected(j) PROVE OrderInv'
  BY <1>7 DEF WaitDisconnected
<1>8. ASSUME NEW j \in Jobs, CancelMark(j) PROVE OrderInv'
  BY <1>8 DEF CancelMark
<1>9. ASSUME NEW j \in Jobs, CancelDetach(j) PROVE OrderInv'
  <2>1. /\ client[j] = "detach" /\ client' = [client EXCEPT ![j] = "withdraw"]
        /\ UNCHANGED <<running, live, worker, current, needs, done, cancelled, hungup, mainVars>>
    BY <1>9 DEF CancelDetach
  <2>2. CASE j \in queued
    <3>1. /\ queued' = queued \ {j} /\ ahead' = Unlink(j) /\ detached' = detached \cup {j}
          /\ UNCHANGED <<assigned, busy>>
      BY <1>9, <2>2 DEF CancelDetach
    <3> QED
      BY <2>1, <2>2, <3>1 DEF Unlink, PlaceInv, ClientInv, Waiting
  <2>3. CASE j \notin queued /\ \A s \in Slots : assigned[s] # j
    <3>1. UNCHANGED <<queueVars, detached>>
      BY <1>9, <2>3 DEF CancelDetach
    <3> QED
      BY <2>1, <2>3, <3>1 DEF PlaceInv, ClientInv, Waiting
  <2>4. ASSUME j \notin queued, batched, NEW s \in Slots, assigned[s] = j,
               detached' = detached \cup {j},
               Dispatch(queued, ahead, [assigned EXCEPT ![s] = None],
                        [busy EXCEPT ![s] = FALSE], TRUE)
        PROVE  OrderInv'
    <3>1. Hands(queued, ahead, {s})
      BY <2>4, FreedHands
    <3> QED
      BY <2>1, <2>4, <3>1 DEF Hands, PlaceInv, ClientInv, Waiting
  <2> QED
    BY <1>9, <2>2, <2>3, <2>4 DEF CancelDetach
<1>10. ASSUME NEW j \in Jobs, CancelWithdraw(j) PROVE OrderInv'
  BY <1>10 DEF CancelWithdraw
<1>11. ASSUME NEW j \in Jobs, CancelFinish(j) PROVE OrderInv'
  BY <1>11 DEF CancelFinish
<1>12. ASSUME NEW j \in Jobs, ClientDone(j) PROVE OrderInv'
  BY <1>12 DEF ClientDone
<1>13. ASSUME NEW s \in Slots, WorkerSleep(s) PROVE OrderInv'
  BY <1>13 DEF WorkerSleep
<1>14. ASSUME NEW s \in Slots, WorkerExit(s) PROVE OrderInv'
  BY <1>14 DEF WorkerExit
<1>15. ASSUME NEW s \in Slots, WorkerTake(s) PROVE OrderInv'
  BY <1>15 DEF WorkerTake, Unlink
<1>16. ASSUME NEW s \in Slots, GenerateStart(s) PROVE OrderInv'
  BY <1>16 DEF GenerateStart
<1>17. ASSUME NEW s \in Slots, GenerateInner(s) PROVE OrderInv'
  BY <1>17 DEF GenerateInner
<1>18. ASSUME NEW s \in Slots, GenerateLeave(s) PROVE OrderInv'
  BY <1>18 DEF GenerateLeave
<1>19. ASSUME NEW s \in Slots, WorkerComplete(s) PROVE OrderInv'
  BY <1>19 DEF WorkerComplete
<1>20. ASSUME NEW s \in Slots, WorkerRelease(s) PROVE OrderInv'
  <2>1. batched /\ Hands(queued, ahead, {s})
    BY <1>20, ReleaseHands
  <2>2. /\ worker[s] = "release" /\ worker' = [worker EXCEPT ![s] = "idle"]
        /\ UNCHANGED <<running, live, current, clientVars, mainVars>>
    BY <1>20 DEF WorkerRelease
  <2> QED
    BY <2>1, <2>2 DEF Hands, PlaceInv, ClientInv, Waiting
<1>21. CASE RequestWorkerStop
  <2>1. Hands(queued, ahead, {})
    BY <1>21, StopHands
  <2>2. /\ main' = "join" /\ stopping'
        /\ UNCHANGED <<running, live, worker, current, clientVars, stop, clients, batched>>
    BY <1>21 DEF RequestWorkerStop
  <2> QED
    BY <2>1, <2>2 DEF Hands, PlaceInv, ClientInv, Waiting
<1>22. CASE JoinWorkers
  BY <1>22 DEF JoinWorkers
<1>23. CASE CloseResources
  BY <1>23 DEF CloseResources
<1>24. CASE StopSignal
  BY <1>24 DEF StopSignal
<1>25. CASE Terminated
  BY <1>25 DEF Terminated, vars
<1> QED
  BY <1>1, <1>2, <1>3, <1>4, <1>5, <1>6, <1>7, <1>8, <1>9, <1>10, <1>11,
     <1>12, <1>13, <1>14, <1>15, <1>16, <1>17, <1>18, <1>19, <1>20, <1>21,
     <1>22, <1>23, <1>24, <1>25 DEF Next, Arrival, ClientNext, WorkerNext,
     MainNext

(* Bindings stay unique, and name only jobs that have been run.             *)
LEMMA BindingStep ==
    ASSUME TypeOK, PlaceInv, ClientInv, SlotInv, OrderInv, BindingInv, Next
    PROVE  BindingInv'
<1> USE NoneAssumption DEF TypeOK, BindingInv, Unrun, queueVars, workerVars, clientVars, mainVars
<1>1. ASSUME NEW j \in Jobs, Accept(j) PROVE BindingInv'
  BY <1>1 DEF Accept
<1>2. ASSUME NEW j \in Jobs, HangUp(j) PROVE BindingInv'
  BY <1>2 DEF HangUp
<1>3. ASSUME NEW j \in Jobs, Parse(j) PROVE BindingInv'
  BY <1>3 DEF Parse
<1>4. ASSUME NEW j \in Jobs, Refuse(j) PROVE BindingInv'
  BY <1>4 DEF Refuse, DestroyJob
<1>5. ASSUME NEW j \in Jobs, Enqueue(j) PROVE BindingInv'
  <2>1. CASE stopping
    BY <1>5, <2>1 DEF Enqueue, DestroyJob
  <2>2. CASE ~stopping
    <3>1. Hands(queued \cup {j}, [ahead EXCEPT ![j] = queued], {})
      BY <1>5, <2>2, EnqueueHands
    <3>2. /\ client[j] = "read" /\ client' = [client EXCEPT ![j] = "wait"]
          /\ UNCHANGED <<running, live, worker, current, needs, done, cancelled, detached,
                         hungup, mainVars>>
      BY <1>5, <2>2 DEF Enqueue
    <3> QED
      BY <3>1, <3>2, <2>2 DEF Hands, ClientInv, Waiting, Unplaced
  <2> QED
    BY <2>1, <2>2
<1>6. ASSUME NEW j \in Jobs, WaitDone(j) PROVE BindingInv'
  BY <1>6 DEF WaitDone, DestroyJob
<1>7. ASSUME NEW j \in Jobs, WaitDisconnected(j) PROVE BindingInv'
  BY <1>7 DEF WaitDisconnected
<1>8. ASSUME NEW j \in Jobs, CancelMark(j) PROVE BindingInv'
  BY <1>8 DEF CancelMark
<1>9. ASSUME NEW j \in Jobs, CancelDetach(j) PROVE BindingInv'
  <2>1. /\ client[j] = "detach" /\ client' = [client EXCEPT ![j] = "withdraw"]
        /\ UNCHANGED <<running, live, worker, current, needs, done, cancelled, hungup, mainVars>>
    BY <1>9 DEF CancelDetach
  <2>2. CASE j \in queued
    <3>1. /\ queued' = queued \ {j} /\ ahead' = Unlink(j) /\ detached' = detached \cup {j}
          /\ UNCHANGED <<assigned, busy>>
      BY <1>9, <2>2 DEF CancelDetach
    <3> QED
      BY <2>1, <2>2, <3>1 DEF Unlink, ClientInv, Waiting, Unplaced
  <2>3. CASE j \notin queued /\ \A s \in Slots : assigned[s] # j
    <3>1. UNCHANGED <<queueVars, detached>>
      BY <1>9, <2>3 DEF CancelDetach
    <3> QED
      BY <2>1, <2>3, <3>1 DEF ClientInv, Waiting, Unplaced
  <2>4. ASSUME j \notin queued, batched, NEW s \in Slots, assigned[s] = j,
               detached' = detached \cup {j},
               Dispatch(queued, ahead, [assigned EXCEPT ![s] = None],
                        [busy EXCEPT ![s] = FALSE], TRUE)
        PROVE  BindingInv'
    <3>1. Hands(queued, ahead, {s})
      BY <2>4, FreedHands
    <3> QED
      BY <2>1, <2>4, <3>1 DEF Hands, ClientInv, Waiting, Unplaced
  <2> QED
    BY <1>9, <2>2, <2>3, <2>4 DEF CancelDetach
<1>10. ASSUME NEW j \in Jobs, CancelWithdraw(j) PROVE BindingInv'
  BY <1>10 DEF CancelWithdraw
<1>11. ASSUME NEW j \in Jobs, CancelFinish(j) PROVE BindingInv'
  BY <1>11 DEF CancelFinish
<1>12. ASSUME NEW j \in Jobs, ClientDone(j) PROVE BindingInv'
  BY <1>12 DEF ClientDone
<1>13. ASSUME NEW s \in Slots, WorkerSleep(s) PROVE BindingInv'
  BY <1>13 DEF WorkerSleep
<1>14. ASSUME NEW s \in Slots, WorkerExit(s) PROVE BindingInv'
  BY <1>14 DEF WorkerExit
<1>15. ASSUME NEW s \in Slots, WorkerTake(s) PROVE BindingInv'
  BY <1>15 DEF WorkerTake
<1>16. ASSUME NEW s \in Slots, GenerateStart(s) PROVE BindingInv'
  BY <1>16 DEF GenerateStart
<1>17. ASSUME NEW s \in Slots, GenerateInner(s) PROVE BindingInv'
  <2> PICK k \in Jobs : k = current[s]
    BY <1>17 DEF GenerateInner, SlotInv, Holding
  <2>1. worker[s] = "run" /\ Unrun(k)
    BY <1>17 DEF GenerateInner
  <2>2. /\ live' = live \/ \E b \in {None, k} : live' = [live EXCEPT ![s] = b]
        /\ worker' = [worker EXCEPT ![s] = "leave"]
        /\ UNCHANGED <<queued, assigned, current, client, needs>>
    BY <1>17 DEF GenerateInner
  <2>3. ~Unrun(k)'
    BY <2>1, <2>2 DEF PlaceInv, ClientInv, Waiting, Unplaced
  <2>4. \A j \in Jobs : Unrun(j)' => Unrun(j)
    BY <2>2
  <2> HIDE DEF Unrun
  <2>5. ASSUME NEW j \in Jobs, Unrun(j)'
        PROVE  (\A t \in Slots : live'[t] # j) /\ (\A i \in Jobs : needs'[i] # j)
    BY <2>1, <2>2, <2>3, <2>4, <2>5
  <2>6. \A t, u \in Slots : live'[t] # None /\ live'[t] = live'[u] => t = u
    BY <2>1, <2>2
  <2> QED
    BY <2>5, <2>6
<1>18. ASSUME NEW s \in Slots, GenerateLeave(s) PROVE BindingInv'
  BY <1>18 DEF GenerateLeave
<1>19. ASSUME NEW s \in Slots, WorkerComplete(s) PROVE BindingInv'
  BY <1>19 DEF WorkerComplete
<1>20. ASSUME NEW s \in Slots, WorkerRelease(s) PROVE BindingInv'
  <2>1. batched /\ Hands(queued, ahead, {s})
    BY <1>20, ReleaseHands
  <2>2. /\ worker[s] = "release" /\ worker' = [worker EXCEPT ![s] = "idle"]
        /\ UNCHANGED <<running, live, current, clientVars, mainVars>>
    BY <1>20 DEF WorkerRelease
  <2> QED
    BY <2>1, <2>2 DEF Hands, ClientInv, Waiting, Unplaced
<1>21. CASE RequestWorkerStop
  <2>1. Hands(queued, ahead, {})
    BY <1>21, StopHands
  <2>2. /\ main' = "join" /\ stopping'
        /\ UNCHANGED <<running, live, worker, current, clientVars, stop, clients, batched>>
    BY <1>21 DEF RequestWorkerStop
  <2> QED
    BY <2>1, <2>2 DEF Hands, ClientInv, Waiting, Unplaced
<1>22. CASE JoinWorkers
  BY <1>22 DEF JoinWorkers
<1>23. CASE CloseResources
  BY <1>23 DEF CloseResources
<1>24. CASE StopSignal
  BY <1>24 DEF StopSignal
<1>25. CASE Terminated
  BY <1>25 DEF Terminated, vars
<1> QED
  BY <1>1, <1>2, <1>3, <1>4, <1>5, <1>6, <1>7, <1>8, <1>9, <1>10, <1>11,
     <1>12, <1>13, <1>14, <1>15, <1>16, <1>17, <1>18, <1>19, <1>20, <1>21,
     <1>22, <1>23, <1>24, <1>25 DEF Next, Arrival, ClientNext, WorkerNext,
     MainNext

(* The counter of clients and the state of shutdown.                        *)
LEMMA MainStep ==
    ASSUME TypeOK, PlaceInv, ClientInv, SlotInv, MainInv, Next
    PROVE  MainInv'
<1> USE NoneAssumption DEF TypeOK, MainInv, Connected, Resident, queueVars, workerVars, clientVars,
        mainVars
<1>1. ASSUME NEW j \in Jobs, Accept(j) PROVE MainInv'
  <2>1. j \notin Connected /\ IsFiniteSet(Connected)
    BY <1>1, ConnectedCount DEF Accept
  <2>2. Connected' = Connected \cup {j}
    BY <1>1 DEF Accept
  <2>3. Cardinality(Connected \cup {j}) = Cardinality(Connected) + 1
    BY <2>1, FS_AddElement
  <2> QED
    BY <1>1, <2>2, <2>3 DEF Accept
<1>2. ASSUME NEW j \in Jobs, HangUp(j) PROVE MainInv'
  BY <1>2 DEF HangUp
<1>3. ASSUME NEW j \in Jobs, Parse(j) PROVE MainInv'
  BY <1>3 DEF Parse
<1>4. ASSUME NEW j \in Jobs, Refuse(j) PROVE MainInv'
  BY <1>4 DEF Refuse, DestroyJob
<1>5. ASSUME NEW j \in Jobs, Enqueue(j) PROVE MainInv'
  <2>1. Connected' = Connected
    BY <1>5 DEF Enqueue, DestroyJob
  <2>2. UNCHANGED <<worker, mainVars>>
    BY <1>5 DEF Enqueue
  <2> HIDE DEF Connected
  <2> QED
    BY <2>1, <2>2
<1>6. ASSUME NEW j \in Jobs, WaitDone(j) PROVE MainInv'
  BY <1>6 DEF WaitDone, DestroyJob
<1>7. ASSUME NEW j \in Jobs, WaitDisconnected(j) PROVE MainInv'
  BY <1>7 DEF WaitDisconnected
<1>8. ASSUME NEW j \in Jobs, CancelMark(j) PROVE MainInv'
  BY <1>8 DEF CancelMark
<1>9. ASSUME NEW j \in Jobs, CancelDetach(j) PROVE MainInv'
  <2>1. Connected' = Connected /\ UNCHANGED <<worker, mainVars>>
    BY <1>9 DEF CancelDetach
  <2> HIDE DEF Connected
  <2> QED
    BY <2>1
<1>10. ASSUME NEW j \in Jobs, CancelWithdraw(j) PROVE MainInv'
  BY <1>10 DEF CancelWithdraw
<1>11. ASSUME NEW j \in Jobs, CancelFinish(j) PROVE MainInv'
  BY <1>11 DEF CancelFinish
<1>12. ASSUME NEW j \in Jobs, ClientDone(j) PROVE MainInv'
  <2>1. j \in Connected /\ IsFiniteSet(Connected) /\ Cardinality(Connected) \in Nat
    BY <1>12, ConnectedCount DEF ClientDone
  <2>2. Connected' = Connected \ {j}
    BY <1>12 DEF ClientDone
  <2> HIDE DEF Connected
  <2>3. Cardinality(Connected \ {j}) = Cardinality(Connected) - 1 /\ Cardinality(Connected \ {j}) \in Nat
    BY <2>1, FS_RemoveElement, FS_CardinalityType
  <2>4. clients' = Cardinality(Connected')
    BY <1>12, <2>2, <2>3 DEF ClientDone
  <2> QED
    BY <1>12, <2>2, <2>3, <2>4 DEF ClientDone
<1>13. ASSUME NEW s \in Slots, WorkerSleep(s) PROVE MainInv'
  BY <1>13 DEF WorkerSleep
<1>14. ASSUME NEW s \in Slots, WorkerExit(s) PROVE MainInv'
  BY <1>14 DEF WorkerExit
<1>15. ASSUME NEW s \in Slots, WorkerTake(s) PROVE MainInv'
  BY <1>15 DEF WorkerTake
<1>16. ASSUME NEW s \in Slots, GenerateStart(s) PROVE MainInv'
  BY <1>16 DEF GenerateStart
<1>17. ASSUME NEW s \in Slots, GenerateInner(s) PROVE MainInv'
  BY <1>17 DEF GenerateInner
<1>18. ASSUME NEW s \in Slots, GenerateLeave(s) PROVE MainInv'
  BY <1>18 DEF GenerateLeave
<1>19. ASSUME NEW s \in Slots, WorkerComplete(s) PROVE MainInv'
  BY <1>19 DEF WorkerComplete
<1>20. ASSUME NEW s \in Slots, WorkerRelease(s) PROVE MainInv'
  <2>1. worker[s] = "release" /\ worker' = [worker EXCEPT ![s] = "idle"]
    BY <1>20 DEF WorkerRelease
  <2>2. Connected' = Connected /\ UNCHANGED mainVars
    BY <1>20 DEF WorkerRelease
  <2> HIDE DEF Connected
  <2> QED
    BY <2>1, <2>2
<1>21. CASE RequestWorkerStop
  <2>1. Connected' = Connected /\ stopping' /\ main' = "join" /\ UNCHANGED clients
    BY <1>21 DEF RequestWorkerStop
  <2> HIDE DEF Connected
  <2> QED
    BY <2>1
<1>22. CASE JoinWorkers
  BY <1>22 DEF JoinWorkers
<1>23. CASE CloseResources
  BY <1>23 DEF CloseResources
<1>24. CASE StopSignal
  BY <1>24 DEF StopSignal
<1>25. CASE Terminated
  BY <1>25 DEF Terminated, vars
<1> QED
  BY <1>1, <1>2, <1>3, <1>4, <1>5, <1>6, <1>7, <1>8, <1>9, <1>10, <1>11,
     <1>12, <1>13, <1>14, <1>15, <1>16, <1>17, <1>18, <1>19, <1>20, <1>21,
     <1>22, <1>23, <1>24, <1>25 DEF Next, Arrival, ClientNext, WorkerNext,
     MainNext

(* Each place that frees a slot dispatches.                                 *)
LEMMA IdleStep ==
    ASSUME TypeOK, PlaceInv, ClientInv, SlotInv, OrderInv, NoIdleSlotWhileWaiting, Next
    PROVE  NoIdleSlotWhileWaiting'
<1> USE NoneAssumption DEF TypeOK, NoIdleSlotWhileWaiting, queueVars, workerVars, clientVars,
        mainVars
<1>1. ASSUME NEW j \in Jobs, Accept(j) PROVE NoIdleSlotWhileWaiting'
  BY <1>1 DEF Accept
<1>2. ASSUME NEW j \in Jobs, HangUp(j) PROVE NoIdleSlotWhileWaiting'
  BY <1>2 DEF HangUp
<1>3. ASSUME NEW j \in Jobs, Parse(j) PROVE NoIdleSlotWhileWaiting'
  BY <1>3 DEF Parse
<1>4. ASSUME NEW j \in Jobs, Refuse(j) PROVE NoIdleSlotWhileWaiting'
  BY <1>4 DEF Refuse, DestroyJob, ClientInv, Waiting
<1>5. ASSUME NEW j \in Jobs, Enqueue(j) PROVE NoIdleSlotWhileWaiting'
  <2>1. CASE stopping
    BY <1>5, <2>1 DEF Enqueue, DestroyJob, ClientInv, Waiting
  <2>2. CASE ~stopping
    <3>1. Hands(queued \cup {j}, [ahead EXCEPT ![j] = queued], {})
      BY <1>5, <2>2, EnqueueHands
    <3>2. /\ client[j] = "read" /\ client' = [client EXCEPT ![j] = "wait"]
          /\ UNCHANGED <<running, live, worker, current, needs, done, cancelled, detached,
                         hungup, mainVars>>
      BY <1>5, <2>2 DEF Enqueue
    <3> QED
      BY <3>1, <3>2, <2>2 DEF Hands, Eligible, RequiredSlots, SlotInv
  <2> QED
    BY <2>1, <2>2
<1>6. ASSUME NEW j \in Jobs, WaitDone(j) PROVE NoIdleSlotWhileWaiting'
  BY <1>6 DEF WaitDone, DestroyJob, PlaceInv
<1>7. ASSUME NEW j \in Jobs, WaitDisconnected(j) PROVE NoIdleSlotWhileWaiting'
  BY <1>7 DEF WaitDisconnected
<1>8. ASSUME NEW j \in Jobs, CancelMark(j) PROVE NoIdleSlotWhileWaiting'
  BY <1>8 DEF CancelMark
<1>9. ASSUME NEW j \in Jobs, CancelDetach(j) PROVE NoIdleSlotWhileWaiting'
  <2>1. /\ client[j] = "detach" /\ client' = [client EXCEPT ![j] = "withdraw"]
        /\ UNCHANGED <<running, live, worker, current, needs, done, cancelled, hungup, mainVars>>
    BY <1>9 DEF CancelDetach
  <2>2. CASE j \in queued
    <3>1. /\ queued' = queued \ {j} /\ ahead' = Unlink(j) /\ detached' = detached \cup {j}
          /\ UNCHANGED <<assigned, busy>>
      BY <1>9, <2>2 DEF CancelDetach
    <3> QED
      BY <2>1, <2>2, <3>1 DEF Unlink, Eligible, RequiredSlots, SlotInv
  <2>3. CASE j \notin queued /\ \A s \in Slots : assigned[s] # j
    <3>1. UNCHANGED <<queueVars, detached>>
      BY <1>9, <2>3 DEF CancelDetach
    <3> QED
      BY <2>1, <2>3, <3>1 DEF Eligible, RequiredSlots, SlotInv
  <2>4. ASSUME j \notin queued, batched, NEW s \in Slots, assigned[s] = j,
               detached' = detached \cup {j},
               Dispatch(queued, ahead, [assigned EXCEPT ![s] = None],
                        [busy EXCEPT ![s] = FALSE], TRUE)
        PROVE  NoIdleSlotWhileWaiting'
    <3>1. Hands(queued, ahead, {s})
      BY <2>4, FreedHands
    <3> QED
      BY <2>1, <2>4, <3>1 DEF Hands, Eligible, RequiredSlots, SlotInv
  <2> QED
    BY <1>9, <2>2, <2>3, <2>4 DEF CancelDetach
<1>10. ASSUME NEW j \in Jobs, CancelWithdraw(j) PROVE NoIdleSlotWhileWaiting'
  BY <1>10 DEF CancelWithdraw
<1>11. ASSUME NEW j \in Jobs, CancelFinish(j) PROVE NoIdleSlotWhileWaiting'
  BY <1>11 DEF CancelFinish
<1>12. ASSUME NEW j \in Jobs, ClientDone(j) PROVE NoIdleSlotWhileWaiting'
  BY <1>12 DEF ClientDone
<1>13. ASSUME NEW s \in Slots, WorkerSleep(s) PROVE NoIdleSlotWhileWaiting'
  BY <1>13 DEF WorkerSleep
<1>14. ASSUME NEW s \in Slots, WorkerExit(s) PROVE NoIdleSlotWhileWaiting'
  BY <1>14 DEF WorkerExit
<1>15. ASSUME NEW s \in Slots, WorkerTake(s) PROVE NoIdleSlotWhileWaiting'
  BY <1>15 DEF WorkerTake
<1>16. ASSUME NEW s \in Slots, GenerateStart(s) PROVE NoIdleSlotWhileWaiting'
  BY <1>16 DEF GenerateStart
<1>17. ASSUME NEW s \in Slots, GenerateInner(s) PROVE NoIdleSlotWhileWaiting'
  BY <1>17 DEF GenerateInner
<1>18. ASSUME NEW s \in Slots, GenerateLeave(s) PROVE NoIdleSlotWhileWaiting'
  BY <1>18 DEF GenerateLeave
<1>19. ASSUME NEW s \in Slots, WorkerComplete(s) PROVE NoIdleSlotWhileWaiting'
  BY <1>19 DEF WorkerComplete
<1>20. ASSUME NEW s \in Slots, WorkerRelease(s) PROVE NoIdleSlotWhileWaiting'
  <2>1. batched /\ Hands(queued, ahead, {s})
    BY <1>20, ReleaseHands
  <2>2. /\ worker[s] = "release" /\ worker' = [worker EXCEPT ![s] = "idle"]
        /\ UNCHANGED <<running, live, current, clientVars, mainVars>>
    BY <1>20 DEF WorkerRelease
  <2> QED
    BY <2>1, <2>2 DEF Hands, Eligible, RequiredSlots, SlotInv
<1>21. CASE RequestWorkerStop
  <2>1. Hands(queued, ahead, {})
    BY <1>21, StopHands
  <2>2. /\ main' = "join" /\ stopping'
        /\ UNCHANGED <<running, live, worker, current, clientVars, stop, clients, batched>>
    BY <1>21 DEF RequestWorkerStop
  <2> QED
    BY <2>1, <2>2 DEF Hands, Eligible, RequiredSlots, SlotInv
<1>22. CASE JoinWorkers
  BY <1>22 DEF JoinWorkers
<1>23. CASE CloseResources
  BY <1>23 DEF CloseResources
<1>24. CASE StopSignal
  BY <1>24 DEF StopSignal
<1>25. CASE Terminated
  BY <1>25 DEF Terminated, vars
<1> QED
  BY <1>1, <1>2, <1>3, <1>4, <1>5, <1>6, <1>7, <1>8, <1>9, <1>10, <1>11,
     <1>12, <1>13, <1>14, <1>15, <1>16, <1>17, <1>18, <1>19, <1>20, <1>21,
     <1>22, <1>23, <1>24, <1>25 DEF Next, Arrival, ClientNext, WorkerNext,
     MainNext

(* A job that is bound to a slot goes to that slot.                         *)
LEMMA BoundStep ==
    ASSUME TypeOK, PlaceInv, ClientInv, SlotInv, OrderInv, BindingInv, ContinuationOnItsSlot, Next
    PROVE  ContinuationOnItsSlot'
<1> USE NoneAssumption DEF TypeOK, ContinuationOnItsSlot, queueVars, workerVars, clientVars,
        mainVars
<1>1. ASSUME NEW j \in Jobs, Accept(j) PROVE ContinuationOnItsSlot'
  BY <1>1 DEF Accept
<1>2. ASSUME NEW j \in Jobs, HangUp(j) PROVE ContinuationOnItsSlot'
  BY <1>2 DEF HangUp
<1>3. ASSUME NEW j \in Jobs, Parse(j) PROVE ContinuationOnItsSlot'
  BY <1>3 DEF Parse, ClientInv, Waiting, Unplaced
<1>4. ASSUME NEW j \in Jobs, Refuse(j) PROVE ContinuationOnItsSlot'
  BY <1>4 DEF Refuse, DestroyJob
<1>5. ASSUME NEW j \in Jobs, Enqueue(j) PROVE ContinuationOnItsSlot'
  <2>1. CASE stopping
    BY <1>5, <2>1 DEF Enqueue, DestroyJob
  <2>2. CASE ~stopping
    <3>1. Hands(queued \cup {j}, [ahead EXCEPT ![j] = queued], {})
      BY <1>5, <2>2, EnqueueHands
    <3>2. /\ client[j] = "read" /\ client' = [client EXCEPT ![j] = "wait"]
          /\ UNCHANGED <<running, live, worker, current, needs, done, cancelled, detached,
                         hungup, mainVars>>
      BY <1>5, <2>2 DEF Enqueue
    <3> QED
      BY <3>1, <3>2, <2>2 DEF Hands, Eligible, RequiredSlots, BindingInv
  <2> QED
    BY <2>1, <2>2
<1>6. ASSUME NEW j \in Jobs, WaitDone(j) PROVE ContinuationOnItsSlot'
  BY <1>6 DEF WaitDone, DestroyJob
<1>7. ASSUME NEW j \in Jobs, WaitDisconnected(j) PROVE ContinuationOnItsSlot'
  BY <1>7 DEF WaitDisconnected
<1>8. ASSUME NEW j \in Jobs, CancelMark(j) PROVE ContinuationOnItsSlot'
  BY <1>8 DEF CancelMark
<1>9. ASSUME NEW j \in Jobs, CancelDetach(j) PROVE ContinuationOnItsSlot'
  <2>1. /\ client[j] = "detach" /\ client' = [client EXCEPT ![j] = "withdraw"]
        /\ UNCHANGED <<running, live, worker, current, needs, done, cancelled, hungup, mainVars>>
    BY <1>9 DEF CancelDetach
  <2>2. CASE j \in queued
    <3>1. /\ queued' = queued \ {j} /\ ahead' = Unlink(j) /\ detached' = detached \cup {j}
          /\ UNCHANGED <<assigned, busy>>
      BY <1>9, <2>2 DEF CancelDetach
    <3> QED
      BY <2>1, <2>2, <3>1 DEF Unlink, Eligible, RequiredSlots, BindingInv
  <2>3. CASE j \notin queued /\ \A s \in Slots : assigned[s] # j
    <3>1. UNCHANGED <<queueVars, detached>>
      BY <1>9, <2>3 DEF CancelDetach
    <3> QED
      BY <2>1, <2>3, <3>1 DEF Eligible, RequiredSlots, BindingInv
  <2>4. ASSUME j \notin queued, batched, NEW s \in Slots, assigned[s] = j,
               detached' = detached \cup {j},
               Dispatch(queued, ahead, [assigned EXCEPT ![s] = None],
                        [busy EXCEPT ![s] = FALSE], TRUE)
        PROVE  ContinuationOnItsSlot'
    <3>1. Hands(queued, ahead, {s})
      BY <2>4, FreedHands
    <3> QED
      BY <2>1, <2>4, <3>1 DEF Hands, Eligible, RequiredSlots, BindingInv
  <2> QED
    BY <1>9, <2>2, <2>3, <2>4 DEF CancelDetach
<1>10. ASSUME NEW j \in Jobs, CancelWithdraw(j) PROVE ContinuationOnItsSlot'
  BY <1>10 DEF CancelWithdraw
<1>11. ASSUME NEW j \in Jobs, CancelFinish(j) PROVE ContinuationOnItsSlot'
  BY <1>11 DEF CancelFinish
<1>12. ASSUME NEW j \in Jobs, ClientDone(j) PROVE ContinuationOnItsSlot'
  BY <1>12 DEF ClientDone
<1>13. ASSUME NEW s \in Slots, WorkerSleep(s) PROVE ContinuationOnItsSlot'
  BY <1>13 DEF WorkerSleep
<1>14. ASSUME NEW s \in Slots, WorkerExit(s) PROVE ContinuationOnItsSlot'
  BY <1>14 DEF WorkerExit
<1>15. ASSUME NEW s \in Slots, WorkerTake(s) PROVE ContinuationOnItsSlot'
  BY <1>15 DEF WorkerTake
<1>16. ASSUME NEW s \in Slots, GenerateStart(s) PROVE ContinuationOnItsSlot'
  BY <1>16 DEF GenerateStart
<1>17. ASSUME NEW s \in Slots, GenerateInner(s) PROVE ContinuationOnItsSlot'
  <2> DEFINE k == current[s]
  <2>1. k \in Jobs /\ Unrun(k)
    BY <1>17 DEF GenerateInner, SlotInv, Holding, Unrun
  <2>2. /\ live' = live \/ \E b \in {None, k} : live' = [live EXCEPT ![s] = b]
        /\ worker' = [worker EXCEPT ![s] = "leave"]
        /\ UNCHANGED <<assigned, current, needs, batched>>
    BY <1>17 DEF GenerateInner
  <2>3. \A j \in Jobs : needs[j] # k
    BY <2>1 DEF BindingInv
  <2> HIDE DEF k
  <2> QED
    BY <2>1, <2>2, <2>3
<1>18. ASSUME NEW s \in Slots, GenerateLeave(s) PROVE ContinuationOnItsSlot'
  BY <1>18 DEF GenerateLeave
<1>19. ASSUME NEW s \in Slots, WorkerComplete(s) PROVE ContinuationOnItsSlot'
  BY <1>19 DEF WorkerComplete
<1>20. ASSUME NEW s \in Slots, WorkerRelease(s) PROVE ContinuationOnItsSlot'
  <2>1. batched /\ Hands(queued, ahead, {s})
    BY <1>20, ReleaseHands
  <2>2. /\ worker[s] = "release" /\ worker' = [worker EXCEPT ![s] = "idle"]
        /\ UNCHANGED <<running, live, current, clientVars, mainVars>>
    BY <1>20 DEF WorkerRelease
  <2> QED
    BY <2>1, <2>2 DEF Hands, Eligible, RequiredSlots, BindingInv
<1>21. CASE RequestWorkerStop
  <2>1. Hands(queued, ahead, {})
    BY <1>21, StopHands
  <2>2. /\ main' = "join" /\ stopping'
        /\ UNCHANGED <<running, live, worker, current, clientVars, stop, clients, batched>>
    BY <1>21 DEF RequestWorkerStop
  <2> QED
    BY <2>1, <2>2 DEF Hands, Eligible, RequiredSlots, BindingInv
<1>22. CASE JoinWorkers
  BY <1>22 DEF JoinWorkers
<1>23. CASE CloseResources
  BY <1>23 DEF CloseResources
<1>24. CASE StopSignal
  BY <1>24 DEF StopSignal
<1>25. CASE Terminated
  BY <1>25 DEF Terminated, vars
<1> QED
  BY <1>1, <1>2, <1>3, <1>4, <1>5, <1>6, <1>7, <1>8, <1>9, <1>10, <1>11,
     <1>12, <1>13, <1>14, <1>15, <1>16, <1>17, <1>18, <1>19, <1>20, <1>21,
     <1>22, <1>23, <1>24, <1>25 DEF Next, Arrival, ClientNext, WorkerNext,
     MainNext

-----------------------------------------------------------------------------
LEMMA InitInv == Init => IInv
<1> SUFFICES ASSUME Init PROVE IInv
  OBVIOUS
<1> USE NoneAssumption, ModesAssumption DEF Init
<1>1. Connected = {}
  BY DEF Connected
<1>2. clients = Cardinality(Connected) /\ clients \in 0 .. Cardinality(Jobs)
  BY <1>1, FS_EmptySet, FS_CardinalityType, FiniteAssumption
<1>3. TypeOK
  BY <1>2 DEF TypeOK, WorkerSteps, ClientSteps, MainSteps
<1>4. PlaceInv /\ OrderInv
  BY DEF PlaceInv, OrderInv
<1>5. ClientInv
  BY DEF ClientInv, Waiting, Unplaced
<1>6. SlotInv
  BY DEF SlotInv, Holding
<1>7. BindingInv
  BY DEF BindingInv
<1>8. MainInv
  BY <1>2 DEF MainInv
<1>9. NoIdleSlotWhileWaiting /\ ContinuationOnItsSlot
  BY DEF NoIdleSlotWhileWaiting, ContinuationOnItsSlot
<1> QED
  BY <1>3, <1>4, <1>5, <1>6, <1>7, <1>8, <1>9 DEF IInv

LEMMA StepInv == IInv /\ [Next]_vars => IInv'
<1>1. ASSUME IInv, Next PROVE IInv'
  BY <1>1, TypeStep, PlaceStep, ClientStep, SlotStep, OrderStep, BindingStep, MainStep, IdleStep,
     BoundStep DEF IInv
<1>2. ASSUME IInv, UNCHANGED vars PROVE IInv'
  <2> USE <1>2 DEF vars, queueVars, workerVars, clientVars, mainVars, IInv
  <2>1. TypeOK'
    BY DEF TypeOK
  <2>2. PlaceInv' /\ ClientInv'
    BY DEF PlaceInv, ClientInv, Unplaced
  <2>3. SlotInv' /\ OrderInv'
    BY DEF SlotInv, OrderInv
  <2>4. BindingInv'
    BY DEF BindingInv, Unrun
  <2>5. MainInv'
    BY DEF MainInv, Connected, Resident
  <2>6. NoIdleSlotWhileWaiting' /\ ContinuationOnItsSlot'
    BY DEF NoIdleSlotWhileWaiting, ContinuationOnItsSlot
  <2> QED
    BY <2>1, <2>2, <2>3, <2>4, <2>5, <2>6
<1> QED
  BY <1>1, <1>2

(* IInv holds in every state the queue can reach, whatever the number of   *)
(* clients and slots, batched or not.                                      *)
THEOREM Invariance == Spec => []IInv
  BY InitInv, StepInv, PTL DEF Spec

(* Every field and control point keeps its type, and s->clients never      *)
(* exceeds the connections.                                                *)
THEOREM TypesCorrect == Spec => []TypeOK
<1>1. IInv => TypeOK
  BY DEF IInv
<1> QED
  BY <1>1, Invariance, PTL

(* No pointer to a job outlives the stack frame of its client thread, for  *)
(* every order of disconnect, dispatch, take and completion.               *)
THEOREM NoDanglingJob == Spec => []JobOutlivesUse
<1>1. IInv => JobOutlivesUse
  <2> SUFFICES ASSUME IInv, NEW j \in Jobs, client[j] \in {"close", "gone"} PROVE ~Reachable(j)
    BY DEF JobOutlivesUse
  <2>1. Unplaced(j) /\ j \notin queued
    BY DEF IInv, ClientInv, Waiting
  <2>2. \A s \in Slots : running[s] # j
    BY <2>1, NoneAssumption DEF IInv, SlotInv, Unplaced
  <2> QED
    BY <2>1, <2>2 DEF Reachable, Unplaced
<1> QED
  BY <1>1, Invariance, PTL

(* A request that is waited for has exactly one party that will call       *)
(* job_complete, and a completed one has none.                             *)
THEOREM ExactlyOneOwner == Spec => []OneOwner
<1>1. IInv => OneOwner
  <2> SUFFICES ASSUME IInv, NEW j \in Jobs, client[j] \in Waiting
               PROVE  Cardinality(Owners(j)) = (IF j \in done THEN 0 ELSE 1)
    BY DEF OneOwner, Waiting
  <2> USE NoneAssumption DEF IInv, PlaceInv
  <2>0. Cardinality({}) = 0 /\ \A x : Cardinality({x}) = 1
    BY FS_EmptySet, FS_Singleton
  <2>1. CASE j \in done
    <3>1. Unplaced(j) /\ j \notin queued
      BY <2>1 DEF Unplaced
    <3>2. Owners(j) = {}
      BY <2>1, <3>1 DEF Owners, Unplaced
    <3> QED
      BY <2>0, <2>1, <3>2
  <2>2. CASE j \notin done /\ j \in queued
    <3>1. Unplaced(j) /\ j \notin detached
      BY <2>2
    <3>2. Owners(j) = {<<"list", None>>}
      BY <2>2, <3>1 DEF Owners, Unplaced
    <3> QED
      BY <2>0, <2>2, <3>2
  <2>3. CASE j \notin done /\ j \in detached
    <3>1. Unplaced(j) /\ j \notin queued
      BY <2>3 DEF Unplaced
    <3>2. Owners(j) = {<<"client", None>>}
      BY <2>3, <3>1 DEF Owners, Unplaced
    <3> QED
      BY <2>0, <2>3, <3>2
  <2>4. CASE j \notin done \cup detached \cup queued
    <3>1. ~Unplaced(j)
      BY <2>4 DEF ClientInv
    <3>2. PICK s \in Slots : assigned[s] = j \/ current[s] = j
      BY <3>1 DEF Unplaced
    <3>3. CASE assigned[s] = j
      <4>1. {t \in Slots : assigned[t] = j} = {s} /\ {t \in Slots : current[t] = j} = {}
        BY <3>3
      <4>2. Owners(j) = {<<"slot", s>>}
        BY <2>4, <4>1 DEF Owners
      <4> QED
        BY <2>0, <2>4, <4>2
    <3>4. CASE current[s] = j
      <4>1. {t \in Slots : assigned[t] = j} = {} /\ {t \in Slots : current[t] = j} = {s}
        BY <3>4
      <4>2. Owners(j) = {<<"worker", s>>}
        BY <2>4, <4>1 DEF Owners
      <4> QED
        BY <2>0, <2>4, <4>2
    <3> QED
      BY <3>2, <3>3, <3>4
  <2> QED
    BY <2>1, <2>2, <2>3, <2>4
<1> QED
  BY <1>1, Invariance, PTL

(* job_slot_score reads the session of a slot that is not busy without     *)
(* inference_mu, and no worker is on that session.                         *)
THEOREM ScoresReadIdleSessions == Spec => []IdleSlotUntouched
<1>1. IInv => IdleSlotUntouched
  BY DEF IInv, TypeOK, WorkerSteps, SlotInv, Holding, IdleSlotUntouched
<1> QED
  BY <1>1, Invariance, PTL

(* Every place that frees a slot dispatches before it releases server.mu.  *)
THEOREM NobodyWaitsBesideIdleSlot == Spec => []NoIdleSlotWhileWaiting
<1>1. IInv => NoIdleSlotWhileWaiting
  BY DEF IInv
<1> QED
  BY <1>1, Invariance, PTL

(* dispatch_jobs_locked never sends a continuation away from the slot that *)
(* holds its live tool calls.                                              *)
THEOREM ContinuationsBound == Spec => []ContinuationOnItsSlot
<1>1. IInv => ContinuationOnItsSlot
  BY DEF IInv
<1> QED
  BY <1>1, Invariance, PTL

(* A worker thread returns only after the last job it could be given.      *)
THEOREM WorkersStay == Spec => []WorkersOutliveWork
<1>1. IInv => WorkersOutliveWork
  <2>1. Resident \subseteq Slots
    BY SlotsAssumption DEF Resident
  <2> QED
    BY <2>1 DEF IInv, SlotInv, WorkersOutliveWork
<1> QED
  BY <1>1, Invariance, PTL

(* server_close_resources runs after the last thread that uses the server. *)
THEOREM ClosedLast == Spec => []CloseIsLast
<1>1. IInv => CloseIsLast
  <2> SUFFICES ASSUME IInv, main = "closed"
               PROVE  /\ \A j \in Jobs : client[j] \in {"new", "gone"}
                      /\ \A s \in Resident : worker[s] = "exited"
    BY DEF CloseIsLast
  <2>1. Cardinality(Connected) = 0
    BY DEF IInv, MainInv
  <2>2. Connected = {}
    BY <2>1, ConnectedCount, FS_EmptySet
  <2> QED
    BY <2>2 DEF Connected, IInv, MainInv
<1> QED
  BY <1>1, Invariance, PTL

-----------------------------------------------------------------------------
(* A job that stays on the list while a job behind it gets a slot waits    *)
(* for the slot of its binding, and that slot is taken.                    *)
LEMMA HandsInOrder ==
    ASSUME IInv, NEW q, NEW front, NEW r \in SUBSET Slots, Hands(q, front, r),
           queued \subseteq q, \A j \in queued : front[j] = ahead[j],
           NEW j \in queued, j \in queued', Overtaken(j)
    PROVE  \E t \in RequiredSlots(j) : busy[t] \/ busy'[t]
<1> USE NoneAssumption DEF IInv, TypeOK
<1>1. PICK k \in Jobs : /\ j \in ahead[k] /\ k \in queued /\ k \notin queued'
                        /\ \E s \in Slots : assigned'[s] = k
  BY DEF Overtaken
<1>2. PICK s \in Slots : assigned'[s] = k
  BY <1>1
<1>3. k \notin ahead[j]
  BY <1>1 DEF OrderInv
<1>4. batched /\ (s \in r \/ (assigned[s] = None /\ ~busy[s]))
  BY <1>1, <1>2 DEF Hands, PlaceInv, Unplaced
<1>5. ~Eligible(j, s)
  BY <1>2, <1>3, <1>4 DEF Hands
<1>6. PICK t \in RequiredSlots(j) : TRUE
  BY <1>5 DEF Eligible
<1>7. t \in Slots /\ Eligible(j, t)
  BY <1>6 DEF Eligible, RequiredSlots
<1>8. ASSUME ~busy[t], ~busy'[t] PROVE FALSE
  <2>1. assigned[t] = None
    BY <1>4, <1>7, <1>8 DEF SlotInv
  <2>2. assigned'[t] \in ahead[j]
    BY <1>4, <1>7, <1>8, <2>1 DEF Hands
  <2>3. assigned'[t] = None
    BY <1>7, <1>8, <2>1 DEF Hands
  <2> QED
    BY <2>2, <2>3
<1> QED
  BY <1>6, <1>8

(* "FIFO among jobs that can run now", for every dispatch the server makes *)
(* and every other step.                                                   *)
THEOREM FifoAmongRunnable == Spec => OvertakenOnlyWhenBound
<1> DEFINE Fair == \A j \in queued \cap queued' :
                     Overtaken(j) => \E s \in RequiredSlots(j) : busy[s] \/ busy'[s]
<1>1. ASSUME IInv, Next PROVE Fair
  <2> SUFFICES ASSUME NEW j \in queued, j \in queued', Overtaken(j)
               PROVE  \E s \in RequiredSlots(j) : busy[s] \/ busy'[s]
    OBVIOUS
  <2>1. PICK k \in Jobs : k \in queued /\ k \notin queued' /\ \E s \in Slots : assigned'[s] = k
    BY DEF Overtaken
  <2>2. ASSUME UNCHANGED queued PROVE FALSE
    BY <2>1, <2>2
  <2>3. ASSUME UNCHANGED assigned PROVE FALSE
    BY <1>1, <2>1, <2>3 DEF IInv, PlaceInv, Unplaced
  <2>4. TypeOK /\ PlaceInv /\ ClientInv /\ SlotInv
    BY <1>1 DEF IInv
  <2>5. ASSUME NEW i \in Jobs, Arrival(i) PROVE FALSE
    BY <2>2, <2>5 DEF Arrival, Accept, HangUp, Parse, queueVars
  <2>6. ASSUME NEW i \in Jobs, Enqueue(i)
        PROVE  \E s \in RequiredSlots(j) : busy[s] \/ busy'[s]
    <3>1. ~stopping
      BY <2>2, <2>6 DEF Enqueue, queueVars
    <3>2. Hands(queued \cup {i}, [ahead EXCEPT ![i] = queued], {})
      BY <2>4, <2>6, <3>1, EnqueueHands
    <3>3. i \notin queued
      BY <2>4, <2>6 DEF Enqueue, ClientInv, Waiting
    <3>4. \A k2 \in queued : [ahead EXCEPT ![i] = queued][k2] = ahead[k2]
      BY <2>4, <3>3 DEF TypeOK
    <3>5. {} \in SUBSET Slots /\ queued \subseteq queued \cup {i}
      OBVIOUS
    <3> DEFINE front == [ahead EXCEPT ![i] = queued]
    <3> HIDE DEF front
    <3> QED
      BY <1>1, <3>2, <3>4, <3>5, HandsInOrder DEF front
  <2>7. ASSUME NEW i \in Jobs, CancelDetach(i)
        PROVE  \E s \in RequiredSlots(j) : busy[s] \/ busy'[s]
    <3>1. PICK s \in Slots :
            /\ batched
            /\ Dispatch(queued, ahead, [assigned EXCEPT ![s] = None], [busy EXCEPT ![s] = FALSE], TRUE)
      BY <2>2, <2>3, <2>7 DEF CancelDetach, queueVars
    <3>2. Hands(queued, ahead, {s})
      BY <2>4, <3>1, FreedHands
    <3> QED
      BY <1>1, <3>2, HandsInOrder
  <2>8. ASSUME NEW i \in Jobs, ClientNext(i)
        PROVE  \E s \in RequiredSlots(j) : busy[s] \/ busy'[s]
    BY <2>2, <2>6, <2>7, <2>8 DEF ClientNext, Refuse, WaitDone, WaitDisconnected, CancelMark,
       CancelWithdraw, CancelFinish, ClientDone, queueVars
  <2>9. ASSUME NEW s \in Slots, WorkerTake(s) PROVE FALSE
    BY <2>2, <2>3, <2>9 DEF WorkerTake
  <2>10. ASSUME NEW s \in Slots, WorkerRelease(s)
         PROVE  \E t \in RequiredSlots(j) : busy[t] \/ busy'[t]
    <3>1. Hands(queued, ahead, {s})
      BY <2>4, <2>10, ReleaseHands
    <3> QED
      BY <1>1, <3>1, HandsInOrder
  <2>11. ASSUME NEW s \in Slots, WorkerNext(s)
         PROVE  \E t \in RequiredSlots(j) : busy[t] \/ busy'[t]
    BY <2>2, <2>9, <2>10, <2>11 DEF WorkerNext, WorkerSleep, WorkerExit, GenerateStart,
       GenerateInner, GenerateLeave, WorkerComplete, queueVars
  <2>12. CASE RequestWorkerStop
    <3>1. Hands(queued, ahead, {})
      BY <2>4, <2>12, StopHands
    <3> QED
      BY <1>1, <3>1, HandsInOrder
  <2>13. CASE JoinWorkers \/ CloseResources \/ StopSignal \/ Terminated
    BY <2>2, <2>13 DEF JoinWorkers, CloseResources, StopSignal, Terminated, vars, queueVars
  <2> QED
    BY <1>1, <2>5, <2>8, <2>11, <2>12, <2>13 DEF Next, MainNext
<1>2. IInv /\ [Next]_vars => [Fair]_vars
  BY <1>1
<1> QED
  BY <1>2, Invariance, PTL DEF Spec, OvertakenOnlyWhenBound
=============================================================================
