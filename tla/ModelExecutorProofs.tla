------------------------ MODULE ModelExecutorProofs ------------------------
(***************************************************************************)
(* The safety of ModelExecutor for any number of slots, any prompt length  *)
(* and any token budget.  IInv is the inductive invariant: the properties  *)
(* the runs check, and the facts about intermediate control points that    *)
(* they rest on.                                                           *)
(***************************************************************************)
EXTENDS ModelExecutor, FiniteSetTheorems, TLAPS

(* A slot thread inside a sync has at least one quantum to go.             *)
TodoInv == \A s \in Slots :
    pc[s] \in {"peek", "loop", "pwait", "plock", "prefill"} => todo[s] \in 1 .. MaxQuanta

(* members[] is empty except between collecting a batch and publishing it. *)
BatchHeld == members # {} => decoder \in {"lock", "eval", "publish"}

(* Where a token the loop has not counted can be: in a batch that is about *)
(* to be published, in an answer not yet read, or in a request that ends.  *)
UnkeptInv == \A s \in Slots : unkept[s] =>
    \/ pc[s] = "dwait" /\ decode_done[s] # "no"
    \/ decoder = "publish" /\ s \in members
    \/ pc[s] \in {"gleave", "after"} /\ errored[s]
    \/ pc[s] = "end"

(* model_stopping is set when no slot thread runs, and ends the decoder.   *)
StopInv ==
    /\ model_stopping => \A s \in Slots : pc[s] = "free"
    /\ decoder = "exited" => model_stopping

(* The slots served while s waits come after s in the current scan.        *)
RobinInv == \A s \in Slots :
    /\ prefill_waiting[s] => \A t \in passed[s] : Distance(s) < Distance(t)
    /\ ~prefill_waiting[s] => passed[s] = {}

IInv ==
    /\ TypeOK /\ TodoInv
    /\ ModelExclusive
    /\ PendingCounted /\ GenerationsCounted
    /\ BatchHeld /\ InFlightHeld /\ UnkeptInv
    /\ StopInv
    /\ RobinInv

-----------------------------------------------------------------------------
(* Thread identifiers are distinct and the slots are finitely many.        *)
LEMMA ThreadIds ==
    /\ IsFiniteSet(Slots)
    /\ Decoder \notin Slots /\ Nobody \notin Slots /\ Nobody # Decoder
    /\ N - 1 \in Slots
<1>1. N \in Nat /\ N > 0
  BY NAssumption
<1>2. IsFiniteSet(0 .. N - 1)
  BY <1>1, FS_Interval
<1> QED
  BY <1>1, <1>2 DEF Slots, Decoder, Nobody

(* Any set of slots has a size.                                            *)
LEMMA SlotCount ==
    ASSUME NEW A, A \subseteq Slots
    PROVE  Cardinality(A) \in Nat /\ IsFiniteSet(A)
  BY ThreadIds, FS_Subset, FS_CardinalityType

(* One slot more is one more, for the counters kept beside the slots.      *)
LEMMA OneMore ==
    ASSUME NEW A, A \subseteq Slots, NEW s \in Slots \ A, NEW B, B = A \cup {s}
    PROVE  /\ Cardinality(A) \in Nat
           /\ Cardinality(B) = Cardinality(A) + 1
  BY SlotCount, FS_AddElement

(* Every initial state satisfies the inductive invariant.                  *)
LEMMA InitInv == Init => IInv
<1> SUFFICES ASSUME Init PROVE IInv
  OBVIOUS
<1> USE ThreadIds DEF Init
<1>1. TypeOK
  <2>1. 0 \in -1 .. MaxQuanta /\ 0 \in 0 .. MaxTokens
    BY BoundsAssumption
  <2> QED
    BY <2>1 DEF TypeOK, SlotSteps, DecoderSteps, Codes, Threads
<1>2. TodoInv /\ BatchHeld /\ InFlightHeld /\ UnkeptInv /\ StopInv /\ RobinInv
  BY DEF TodoInv, BatchHeld, InFlightHeld, UnkeptInv, StopInv, RobinInv
<1>3. ModelExclusive
  BY DEF ModelExclusive, ModelOwners
<1>4. PendingCounted
  <2>1. {s \in Slots : decode_pending[s]} = {}
    OBVIOUS
  <2> QED
    BY <2>1, FS_EmptySet DEF PendingCounted
<1>5. GenerationsCounted
  <2>1. {s \in Slots : pc[s] \in {"dloop", "dwait", "gleave"}} = {}
    OBVIOUS
  <2> QED
    BY <2>1, FS_EmptySet DEF GenerationsCounted
<1> QED
  BY <1>1, <1>2, <1>3, <1>4, <1>5 DEF IInv

-----------------------------------------------------------------------------
(* Type correctness is preserved; the counters do not pass zero because    *)
(* they count slots.                                                       *)
LEMMA TypeStep ==
    ASSUME TypeOK, TodoInv, PendingCounted, Next
    PROVE  TypeOK'
<1> USE ThreadIds, BoundsAssumption DEF TypeOK, localVars, cancelVars, jobVars,
        prefillVars, decodeVars, batchVars, modelVars, stopVars, Goto, DecoderGoto
<1>w. ASSUME NEW s \in Slots, CanWithdraw(s) PROVE pending_count - 1 \in Nat
  <2> DEFINE P == {t \in Slots : decode_pending[t]}
  <2>1. Cardinality(P) = Cardinality(P \ {s}) + 1 /\ Cardinality(P \ {s}) \in Nat
    BY <1>w, OneMore DEF CanWithdraw
  <2> QED
    BY <2>1 DEF PendingCounted
<1>1. ASSUME NEW s \in Slots, GenerateJob(s) PROVE TypeOK'
  <2>1. cancelled' \in [Slots -> BOOLEAN]
    BY <1>1 DEF GenerateJob
  <2>2. /\ pc' \in [Slots -> SlotSteps] /\ todo' \in [Slots -> -1 .. MaxQuanta]
        /\ budget' \in [Slots -> 0 .. MaxTokens]
    BY <1>1 DEF GenerateJob, SlotSteps
  <2> QED
    BY <1>1, <2>1, <2>2, Zenon DEF GenerateJob
<1>2. ASSUME NEW s \in Slots, CancelMark(s) PROVE TypeOK'
  BY <1>2 DEF CancelMark
<1>3. ASSUME NEW s \in Slots, CancelWithdraw(s) PROVE TypeOK'
  <2>1. pending_count' \in Nat /\ decode_pending' \in [Slots -> BOOLEAN]
    BY <1>3, <1>w DEF CancelWithdraw, WithdrawDecode
  <2>2. decode_done' \in [Slots -> Codes \cup {"no"}] /\ asleep' \in SUBSET Threads
    BY <1>3 DEF CancelWithdraw, WithdrawDecode, Codes
  <2> QED
    BY <1>3, <2>1, <2>2 DEF CancelWithdraw
<1>4. ASSUME NEW s \in Slots, SyncPeek(s) PROVE TypeOK'
  BY <1>4 DEF SyncPeek, SlotSteps
<1>5. ASSUME NEW s \in Slots, SyncInterrupted(s) PROVE TypeOK'
  BY <1>5 DEF SyncInterrupted, SlotSteps
<1>6. ASSUME NEW s \in Slots, PrefillAnnounce(s) PROVE TypeOK'
  BY <1>6 DEF PrefillAnnounce, SlotSteps
<1>7. ASSUME NEW s \in Slots, PrefillSleep(s) PROVE TypeOK'
  BY <1>7 DEF PrefillSleep, Threads
<1>8. ASSUME NEW s \in Slots, PrefillAbort(s) PROVE TypeOK'
  BY <1>8 DEF PrefillAbort, SlotSteps
<1>9. ASSUME NEW s \in Slots, PrefillGrant(s) PROVE TypeOK'
  BY <1>9 DEF PrefillGrant, SlotSteps
<1>10. ASSUME NEW s \in Slots, PrefillLock(s) PROVE TypeOK'
  BY <1>10 DEF PrefillLock, SlotSteps, Threads
<1>11. ASSUME NEW s \in Slots, PrefillEval(s) PROVE TypeOK'
  BY <1>11 DEF PrefillEval, SlotSteps, Threads, TodoInv
<1>12. ASSUME NEW s \in Slots, PrefillLeave(s) PROVE TypeOK'
  <2>1. pc' \in [Slots -> SlotSteps]
    BY <1>12 DEF PrefillLeave, SlotSteps
  <2> QED
    BY <1>12, <2>1 DEF PrefillLeave
<1>13. ASSUME NEW s \in Slots, SyncCancelled(s) PROVE TypeOK'
  BY <1>13 DEF SyncCancelled, SlotSteps
<1>14. ASSUME NEW s \in Slots, GenerationEnter(s) PROVE TypeOK'
  BY <1>14 DEF GenerationEnter, SlotSteps
<1>15. ASSUME NEW s \in Slots, DecodeLoopEnds(s) PROVE TypeOK'
  <2>1. errored' \in [Slots -> BOOLEAN] /\ cancelled' \in [Slots -> BOOLEAN]
    BY <1>15, ZenonT(40) DEF DecodeLoopEnds
  <2>2. pc' \in [Slots -> SlotSteps]
    BY <1>15 DEF DecodeLoopEnds, SlotSteps
  <2> QED
    BY <1>15, <2>1, <2>2, Zenon DEF DecodeLoopEnds
<1>16. ASSUME NEW s \in Slots, EvalSubmit(s) PROVE TypeOK'
  BY <1>16 DEF EvalSubmit, SlotSteps, Codes
<1>17. ASSUME NEW s \in Slots, EvalSleep(s) PROVE TypeOK'
  BY <1>17 DEF EvalSleep, CanWithdraw, Threads
<1>18. ASSUME NEW s \in Slots, EvalWithdraw(s) PROVE TypeOK'
  <2>1. pending_count' \in Nat /\ decode_pending' \in [Slots -> BOOLEAN]
    BY <1>18, <1>w DEF EvalWithdraw, WithdrawDecode
  <2> QED
    BY <1>18, <2>1 DEF EvalWithdraw, WithdrawDecode, SlotSteps
<1>19. ASSUME NEW s \in Slots, EvalReturn(s) PROVE TypeOK'
  <2>1. errored' \in [Slots -> BOOLEAN] /\ unkept' \in [Slots -> BOOLEAN]
    BY <1>19 DEF EvalReturn
  <2>2. pc' \in [Slots -> SlotSteps] /\ decode_done' \in [Slots -> Codes \cup {"no"}]
    BY <1>19 DEF EvalReturn, SlotSteps
  <2> QED
    BY <1>19, <2>1, <2>2 DEF EvalReturn
<1>20. ASSUME NEW s \in Slots, GenerationLeave(s) PROVE TypeOK'
  BY <1>20 DEF GenerationLeave, SlotSteps
<1>21. ASSUME NEW s \in Slots, Recover(s) PROVE TypeOK'
  BY <1>21 DEF Recover, SlotSteps, TodoInv
<1>22. ASSUME NEW s \in Slots, Respond(s) PROVE TypeOK'
  BY <1>22 DEF Respond, SlotSteps
<1>23. ASSUME NEW s \in Slots, GenerateEnd(s) PROVE TypeOK'
  BY <1>23 DEF GenerateEnd, SlotSteps, TodoInv
<1>24. ASSUME DecoderSleep PROVE TypeOK'
  BY <1>24 DEF DecoderSleep, Threads
<1>25. ASSUME DecoderExit PROVE TypeOK'
  BY <1>25 DEF DecoderExit, DecoderSteps
<1>26. ASSUME DecoderWake PROVE TypeOK'
  BY <1>26 DEF DecoderWake, DecoderSteps
<1>27. ASSUME DecoderCoalesced PROVE TypeOK'
  BY <1>27 DEF DecoderCoalesced, DecoderSteps
<1>28. ASSUME DecoderTimeout PROVE TypeOK'
  BY <1>28 DEF DecoderTimeout, DecoderSteps
<1>29. ASSUME DecoderCollect PROVE TypeOK'
  <2>1. members' = {s \in Slots : decode_pending[s]} /\ pending_count' = 0
    BY <1>29, SlotCount DEF DecoderCollect, PendingCounted
  <2>2. decode_in_flight' \in [Slots -> BOOLEAN] /\ decode_pending' \in [Slots -> BOOLEAN]
    BY <1>29 DEF DecoderCollect
  <2>3. model_busy' \in BOOLEAN /\ decoder' \in DecoderSteps
    BY <1>29 DEF DecoderCollect, DecoderSteps
  <2> QED
    BY <1>29, <2>1, <2>2, <2>3 DEF DecoderCollect
<1>30. ASSUME DecoderLock PROVE TypeOK'
  BY <1>30 DEF DecoderLock, DecoderSteps, Threads
<1>31. ASSUME DecoderEval PROVE TypeOK'
  BY <1>31 DEF DecoderEval, DecoderSteps, Threads, Codes
<1>32. ASSUME DecoderPublish PROVE TypeOK'
  BY <1>32 DEF DecoderPublish, DecoderSteps, Codes
<1>33. ASSUME StopSignal PROVE TypeOK'
  BY <1>33 DEF StopSignal
<1>34. ASSUME RequestDecodeStop PROVE TypeOK'
  BY <1>34 DEF RequestDecodeStop
<1>35. ASSUME Terminated PROVE TypeOK'
  BY <1>35 DEF Terminated, vars
<1> QED
  BY <1>1, <1>2, <1>3, <1>4, <1>5, <1>6, <1>7, <1>8, <1>9, <1>10, <1>11, <1>12, <1>13, <1>14, <1>15, <1>16, <1>17, <1>18, <1>19, <1>20, <1>21, <1>22, <1>23, <1>24, <1>25, <1>26, <1>27, <1>28, <1>29, <1>30, <1>31, <1>32, <1>33, <1>34, <1>35 DEF Next, SlotNext, DecoderNext

(* A sync starts with at least one quantum and loops while some are left.  *)
LEMMA TodoStep ==
    ASSUME TypeOK, TodoInv, Next
    PROVE  TodoInv'
<1> USE ThreadIds, BoundsAssumption DEF TypeOK, TodoInv, localVars,
        cancelVars, jobVars, prefillVars, decodeVars, batchVars, modelVars,
        stopVars, Goto, DecoderGoto
<1>1. ASSUME NEW s \in Slots, GenerateJob(s) PROVE TodoInv'
  BY <1>1 DEF GenerateJob
<1>2. ASSUME NEW s \in Slots, PrefillEval(s) PROVE TodoInv'
  BY <1>2 DEF PrefillEval
<1>3. ASSUME NEW s \in Slots, PrefillLeave(s) PROVE TodoInv'
  BY <1>3 DEF PrefillLeave
<1>4. ASSUME NEW s \in Slots, Recover(s) PROVE TodoInv'
  BY <1>4 DEF Recover
<1>5. ASSUME NEW s \in Slots, GenerateEnd(s) PROVE TodoInv'
  BY <1>5 DEF GenerateEnd
<1>6. ASSUME NEW s \in Slots,
             \/ CancelMark(s) \/ CancelWithdraw(s) \/ SyncPeek(s)
             \/ SyncInterrupted(s) \/ PrefillAnnounce(s) \/ PrefillSleep(s)
             \/ PrefillAbort(s) \/ PrefillGrant(s) \/ PrefillLock(s)
             \/ SyncCancelled(s) \/ GenerationEnter(s) \/ DecodeLoopEnds(s)
             \/ EvalSubmit(s) \/ EvalSleep(s) \/ EvalWithdraw(s)
             \/ EvalReturn(s) \/ GenerationLeave(s) \/ Respond(s)
      PROVE  TodoInv'
  BY <1>6 DEF CancelMark, CancelWithdraw, WithdrawDecode, CanWithdraw,
         SyncPeek, SyncInterrupted, PrefillAnnounce, PrefillSleep,
         PrefillAbort, PrefillGrant, PrefillLock, SyncCancelled,
         GenerationEnter, DecodeLoopEnds, EvalSubmit, EvalSleep, EvalWithdraw,
         EvalReturn, GenerationLeave, Respond
<1>7. ASSUME \/ DecoderSleep \/ DecoderExit \/ DecoderWake
             \/ DecoderCoalesced \/ DecoderTimeout \/ DecoderCollect
             \/ DecoderLock \/ DecoderEval \/ DecoderPublish \/ StopSignal
             \/ RequestDecodeStop \/ Terminated
      PROVE  TodoInv'
  BY <1>7 DEF DecoderSleep, DecoderExit, DecoderWake, DecoderCoalesced,
         DecoderTimeout, DecoderCollect, DecoderLock, DecoderEval,
         DecoderPublish, StopSignal, RequestDecodeStop, Terminated, vars
<1> QED
  BY <1>1, <1>2, <1>3, <1>4, <1>5, <1>6, <1>7 DEF Next, SlotNext, DecoderNext

(* No slot thread starts once model_stopping is set.                       *)
LEMMA StopStep ==
    ASSUME TypeOK, StopInv, Next
    PROVE  StopInv'
<1> USE DEF TypeOK, StopInv, localVars, cancelVars, jobVars, prefillVars,
        decodeVars, batchVars, modelVars, stopVars, Goto, DecoderGoto
<1>1. ASSUME NEW s \in Slots, GenerateJob(s) PROVE StopInv'
  BY <1>1 DEF GenerateJob
<1>2. ASSUME DecoderExit PROVE StopInv'
  BY <1>2 DEF DecoderExit
<1>3. ASSUME RequestDecodeStop PROVE StopInv'
  BY <1>3 DEF RequestDecodeStop
<1>4. ASSUME NEW s \in Slots,
             \/ CancelMark(s) \/ CancelWithdraw(s) \/ SyncPeek(s)
             \/ SyncInterrupted(s) \/ PrefillAnnounce(s) \/ PrefillSleep(s)
             \/ PrefillAbort(s) \/ PrefillGrant(s) \/ PrefillLock(s)
             \/ PrefillEval(s) \/ PrefillLeave(s) \/ SyncCancelled(s)
             \/ GenerationEnter(s) \/ DecodeLoopEnds(s) \/ EvalSubmit(s)
             \/ EvalSleep(s) \/ EvalWithdraw(s) \/ EvalReturn(s)
             \/ GenerationLeave(s) \/ Recover(s) \/ Respond(s)
             \/ GenerateEnd(s)
      PROVE  StopInv'
  BY <1>4 DEF CancelMark, CancelWithdraw, WithdrawDecode, CanWithdraw,
         SyncPeek, SyncInterrupted, PrefillAnnounce, PrefillSleep,
         PrefillAbort, PrefillGrant, PrefillLock, PrefillEval, PrefillLeave,
         SyncCancelled, GenerationEnter, DecodeLoopEnds, EvalSubmit,
         EvalSleep, EvalWithdraw, EvalReturn, GenerationLeave, Recover,
         Respond, GenerateEnd
<1>5. ASSUME \/ DecoderSleep \/ DecoderWake \/ DecoderCoalesced
             \/ DecoderTimeout \/ DecoderCollect \/ DecoderLock
             \/ DecoderEval \/ DecoderPublish \/ StopSignal \/ Terminated
      PROVE  StopInv'
  BY <1>5 DEF DecoderSleep, DecoderWake, DecoderCoalesced, DecoderTimeout,
         DecoderCollect, DecoderLock, DecoderEval, DecoderPublish, StopSignal,
         Terminated, vars
<1> QED
  BY <1>1, <1>2, <1>3, <1>4, <1>5 DEF Next, SlotNext, DecoderNext

(* A batch is collected, evaluated and published before the next one.      *)
LEMMA BatchStep ==
    ASSUME TypeOK, BatchHeld, Next
    PROVE  BatchHeld'
<1> USE DEF TypeOK, BatchHeld, localVars, cancelVars, jobVars, prefillVars,
        decodeVars, batchVars, modelVars, stopVars, Goto, DecoderGoto
<1>1. ASSUME DecoderCollect PROVE BatchHeld'
  BY <1>1 DEF DecoderCollect
<1>2. ASSUME DecoderLock PROVE BatchHeld'
  BY <1>2 DEF DecoderLock
<1>3. ASSUME DecoderEval PROVE BatchHeld'
  BY <1>3 DEF DecoderEval
<1>4. ASSUME DecoderPublish PROVE BatchHeld'
  BY <1>4 DEF DecoderPublish
<1>5. ASSUME NEW s \in Slots,
             \/ GenerateJob(s) \/ CancelMark(s) \/ CancelWithdraw(s)
             \/ SyncPeek(s) \/ SyncInterrupted(s) \/ PrefillAnnounce(s)
             \/ PrefillSleep(s) \/ PrefillAbort(s) \/ PrefillGrant(s)
             \/ PrefillLock(s) \/ PrefillEval(s) \/ PrefillLeave(s)
             \/ SyncCancelled(s) \/ GenerationEnter(s) \/ DecodeLoopEnds(s)
             \/ EvalSubmit(s) \/ EvalSleep(s) \/ EvalWithdraw(s)
             \/ EvalReturn(s) \/ GenerationLeave(s) \/ Recover(s)
             \/ Respond(s) \/ GenerateEnd(s)
      PROVE  BatchHeld'
  BY <1>5 DEF GenerateJob, CancelMark, CancelWithdraw, WithdrawDecode,
         CanWithdraw, SyncPeek, SyncInterrupted, PrefillAnnounce,
         PrefillSleep, PrefillAbort, PrefillGrant, PrefillLock, PrefillEval,
         PrefillLeave, SyncCancelled, GenerationEnter, DecodeLoopEnds,
         EvalSubmit, EvalSleep, EvalWithdraw, EvalReturn, GenerationLeave,
         Recover, Respond, GenerateEnd
<1>6. ASSUME \/ DecoderSleep \/ DecoderExit \/ DecoderWake
             \/ DecoderCoalesced \/ DecoderTimeout \/ StopSignal
             \/ RequestDecodeStop \/ Terminated
      PROVE  BatchHeld'
  BY <1>6 DEF DecoderSleep, DecoderExit, DecoderWake, DecoderCoalesced,
         DecoderTimeout, StopSignal, RequestDecodeStop, Terminated, vars
<1> QED
  BY <1>1, <1>2, <1>3, <1>4, <1>5, <1>6 DEF Next, SlotNext, DecoderNext

(* Nobody but the batch itself ends the wait of a slot in it.              *)
LEMMA InFlightStep ==
    ASSUME TypeOK, BatchHeld, InFlightHeld, Next
    PROVE  InFlightHeld'
<1> USE DEF TypeOK, BatchHeld, InFlightHeld, localVars, cancelVars, jobVars,
        prefillVars, decodeVars, batchVars, modelVars, stopVars, Goto,
        DecoderGoto
<1>1. ASSUME NEW s \in Slots, EvalSubmit(s) PROVE InFlightHeld'
  BY <1>1 DEF EvalSubmit
<1>2. ASSUME NEW s \in Slots, EvalWithdraw(s) PROVE InFlightHeld'
  BY <1>2 DEF EvalWithdraw, WithdrawDecode, CanWithdraw
<1>3. ASSUME NEW s \in Slots, EvalReturn(s) PROVE InFlightHeld'
  BY <1>3 DEF EvalReturn
<1>4. ASSUME NEW s \in Slots, CancelWithdraw(s) PROVE InFlightHeld'
  BY <1>4 DEF CancelWithdraw, WithdrawDecode, CanWithdraw
<1>5. ASSUME DecoderCollect PROVE InFlightHeld'
  BY <1>5 DEF DecoderCollect
<1>6. ASSUME DecoderPublish PROVE InFlightHeld'
  BY <1>6 DEF DecoderPublish
<1>7. ASSUME NEW s \in Slots,
             \/ GenerateJob(s) \/ CancelMark(s) \/ SyncPeek(s)
             \/ SyncInterrupted(s) \/ PrefillAnnounce(s) \/ PrefillSleep(s)
             \/ PrefillAbort(s) \/ PrefillGrant(s) \/ PrefillLock(s)
             \/ PrefillEval(s) \/ PrefillLeave(s) \/ SyncCancelled(s)
             \/ GenerationEnter(s) \/ DecodeLoopEnds(s) \/ EvalSleep(s)
             \/ GenerationLeave(s) \/ Recover(s) \/ Respond(s)
             \/ GenerateEnd(s)
      PROVE  InFlightHeld'
  BY <1>7 DEF GenerateJob, CancelMark, SyncPeek, SyncInterrupted,
         PrefillAnnounce, PrefillSleep, PrefillAbort, PrefillGrant,
         PrefillLock, PrefillEval, PrefillLeave, SyncCancelled,
         GenerationEnter, DecodeLoopEnds, EvalSleep, CanWithdraw,
         GenerationLeave, Recover, Respond, GenerateEnd
<1>8. ASSUME \/ DecoderSleep \/ DecoderExit \/ DecoderWake
             \/ DecoderCoalesced \/ DecoderTimeout \/ DecoderLock
             \/ DecoderEval \/ StopSignal \/ RequestDecodeStop
             \/ Terminated
      PROVE  InFlightHeld'
  BY <1>8 DEF DecoderSleep, DecoderExit, DecoderWake, DecoderCoalesced,
         DecoderTimeout, DecoderLock, DecoderEval, StopSignal,
         RequestDecodeStop, Terminated, vars
<1> QED
  BY <1>1, <1>2, <1>3, <1>4, <1>5, <1>6, <1>7, <1>8 DEF Next, SlotNext,
         DecoderNext

(* A token reaches the session only in a batch, and the loop goes on only  *)
(* with the answer "ok".                                                   *)
LEMMA UnkeptStep ==
    ASSUME TypeOK, InFlightHeld, UnkeptInv, Next
    PROVE  UnkeptInv'
<1> USE DEF TypeOK, InFlightHeld, UnkeptInv, Codes, localVars, cancelVars,
        jobVars, prefillVars, decodeVars, batchVars, modelVars, stopVars,
        Goto, DecoderGoto
<1>1. ASSUME NEW s \in Slots, EvalSubmit(s) PROVE UnkeptInv'
  BY <1>1 DEF EvalSubmit
<1>2. ASSUME NEW s \in Slots, EvalWithdraw(s) PROVE UnkeptInv'
  BY <1>2 DEF EvalWithdraw, WithdrawDecode, CanWithdraw
<1>3. ASSUME NEW s \in Slots, EvalReturn(s) PROVE UnkeptInv'
  BY <1>3 DEF EvalReturn
<1>4. ASSUME NEW s \in Slots, CancelWithdraw(s) PROVE UnkeptInv'
  BY <1>4 DEF CancelWithdraw, WithdrawDecode, CanWithdraw
<1>5. ASSUME NEW s \in Slots, Recover(s) PROVE UnkeptInv'
  BY <1>5 DEF Recover
<1>6. ASSUME NEW s \in Slots, GenerateEnd(s) PROVE UnkeptInv'
  BY <1>6 DEF GenerateEnd
<1>7. ASSUME DecoderEval PROVE UnkeptInv'
  BY <1>7 DEF DecoderEval
<1>8. ASSUME DecoderPublish PROVE UnkeptInv'
  BY <1>8 DEF DecoderPublish
<1>9. ASSUME NEW s \in Slots,
             \/ GenerateJob(s) \/ CancelMark(s) \/ SyncPeek(s)
             \/ SyncInterrupted(s) \/ PrefillAnnounce(s) \/ PrefillSleep(s)
             \/ PrefillAbort(s) \/ PrefillGrant(s) \/ PrefillLock(s)
             \/ PrefillEval(s) \/ PrefillLeave(s) \/ SyncCancelled(s)
             \/ GenerationEnter(s) \/ DecodeLoopEnds(s) \/ EvalSleep(s)
             \/ GenerationLeave(s) \/ Respond(s)
      PROVE  UnkeptInv'
  BY <1>9 DEF GenerateJob, CancelMark, SyncPeek, SyncInterrupted,
         PrefillAnnounce, PrefillSleep, PrefillAbort, PrefillGrant,
         PrefillLock, PrefillEval, PrefillLeave, SyncCancelled,
         GenerationEnter, DecodeLoopEnds, EvalSleep, CanWithdraw,
         GenerationLeave, Respond
<1>10. ASSUME \/ DecoderSleep \/ DecoderExit \/ DecoderWake
              \/ DecoderCoalesced \/ DecoderTimeout \/ DecoderCollect
              \/ DecoderLock \/ StopSignal \/ RequestDecodeStop
              \/ Terminated
      PROVE  UnkeptInv'
  BY <1>10 DEF DecoderSleep, DecoderExit, DecoderWake, DecoderCoalesced,
         DecoderTimeout, DecoderCollect, DecoderLock, StopSignal,
         RequestDecodeStop, Terminated, vars
<1> QED
  BY <1>1, <1>2, <1>3, <1>4, <1>5, <1>6, <1>7, <1>8, <1>9, <1>10 DEF Next,
         SlotNext, DecoderNext

(* model_busy is taken when nobody owns the model, and given back by the   *)
(* one owner.                                                              *)
LEMMA ExclusiveStep ==
    ASSUME TypeOK, ModelExclusive, Next
    PROVE  ModelExclusive'
<1> USE ThreadIds DEF TypeOK, ModelExclusive, ModelOwners, localVars,
        cancelVars, jobVars, prefillVars, decodeVars, batchVars, modelVars,
        stopVars, Goto, DecoderGoto
<1>1. ASSUME NEW s \in Slots, PrefillGrant(s) PROVE ModelExclusive'
  <2>1. ModelOwners = {} /\ model_busy' = TRUE
    BY <1>1 DEF PrefillGrant, PrefillBlocked
  <2>2. ModelOwners' = {s}
    <3>1. \A t \in Slots : pc[t] \notin {"plock", "prefill", "pleave"}
      BY <2>1
    <3>2. pc' = [pc EXCEPT ![s] = "plock"] /\ decoder' = decoder
      BY <1>1 DEF PrefillGrant
    <3> QED
      BY <2>1, <3>1, <3>2
  <2> QED
    BY <2>1, <2>2 DEF ModelExclusive
<1>2. ASSUME NEW s \in Slots, PrefillLeave(s) PROVE ModelExclusive'
  BY <1>2 DEF PrefillLeave
<1>3. ASSUME DecoderCollect PROVE ModelExclusive'
  BY <1>3 DEF DecoderCollect
<1>4. ASSUME DecoderPublish PROVE ModelExclusive'
  BY <1>4 DEF DecoderPublish
<1>5. ASSUME NEW s \in Slots,
             \/ GenerateJob(s) \/ CancelMark(s) \/ CancelWithdraw(s)
             \/ SyncPeek(s) \/ SyncInterrupted(s) \/ PrefillAnnounce(s)
             \/ PrefillSleep(s) \/ PrefillAbort(s) \/ PrefillLock(s)
             \/ PrefillEval(s) \/ SyncCancelled(s) \/ GenerationEnter(s)
             \/ DecodeLoopEnds(s) \/ EvalSubmit(s) \/ EvalSleep(s)
             \/ EvalWithdraw(s) \/ EvalReturn(s) \/ GenerationLeave(s)
             \/ Recover(s) \/ Respond(s) \/ GenerateEnd(s)
      PROVE  ModelExclusive'
  BY <1>5 DEF GenerateJob, CancelMark, CancelWithdraw, WithdrawDecode,
         CanWithdraw, SyncPeek, SyncInterrupted, PrefillAnnounce,
         PrefillSleep, PrefillAbort, PrefillLock, PrefillEval, SyncCancelled,
         GenerationEnter, DecodeLoopEnds, EvalSubmit, EvalSleep, EvalWithdraw,
         EvalReturn, GenerationLeave, Recover, Respond, GenerateEnd
<1>6. ASSUME \/ DecoderSleep \/ DecoderExit \/ DecoderWake
             \/ DecoderCoalesced \/ DecoderTimeout \/ DecoderLock
             \/ DecoderEval \/ StopSignal \/ RequestDecodeStop
             \/ Terminated
      PROVE  ModelExclusive'
  BY <1>6 DEF DecoderSleep, DecoderExit, DecoderWake, DecoderCoalesced,
         DecoderTimeout, DecoderLock, DecoderEval, StopSignal,
         RequestDecodeStop, Terminated, vars
<1> QED
  BY <1>1, <1>2, <1>3, <1>4, <1>5, <1>6 DEF Next, SlotNext, DecoderNext

(* The counter moves with the set of slots that have a pending token.      *)
LEMMA PendingStep ==
    ASSUME TypeOK, PendingCounted, Next
    PROVE  PendingCounted'
<1> USE DEF TypeOK, PendingCounted, localVars, cancelVars, jobVars,
        prefillVars, decodeVars, batchVars, modelVars, stopVars, Goto,
        DecoderGoto
<1>w. ASSUME NEW s \in Slots, CanWithdraw(s), WithdrawDecode(s) PROVE PendingCounted'
  <2>1. /\ {t \in Slots : decode_pending[t]} = {t \in Slots : decode_pending'[t]} \cup {s}
        /\ s \notin {t \in Slots : decode_pending'[t]}
    BY <1>w DEF CanWithdraw, WithdrawDecode
  <2>2. pending_count' = pending_count - 1
    BY <1>w DEF WithdrawDecode
  <2> QED
    BY <2>1, <2>2, OneMore
<1>1. ASSUME NEW s \in Slots, EvalSubmit(s) PROVE PendingCounted'
  <2>1. /\ {t \in Slots : decode_pending'[t]} = {t \in Slots : decode_pending[t]} \cup {s}
        /\ s \notin {t \in Slots : decode_pending[t]}
    BY <1>1 DEF EvalSubmit
  <2>2. pending_count' = pending_count + 1
    BY <1>1 DEF EvalSubmit
  <2> QED
    BY <2>1, <2>2, OneMore
<1>2. ASSUME NEW s \in Slots, EvalWithdraw(s) PROVE PendingCounted'
  BY <1>2, <1>w DEF EvalWithdraw
<1>3. ASSUME NEW s \in Slots, CancelWithdraw(s) PROVE PendingCounted'
  BY <1>3, <1>w DEF CancelWithdraw
<1>4. ASSUME DecoderCollect PROVE PendingCounted'
  <2>1. {t \in Slots : decode_pending'[t]} = {}
    BY <1>4 DEF DecoderCollect
  <2>2. pending_count' = 0
    BY <1>4, SlotCount DEF DecoderCollect
  <2> QED
    BY <2>1, <2>2, FS_EmptySet
<1>5. ASSUME NEW s \in Slots,
             \/ GenerateJob(s) \/ CancelMark(s) \/ SyncPeek(s)
             \/ SyncInterrupted(s) \/ PrefillAnnounce(s) \/ PrefillSleep(s)
             \/ PrefillAbort(s) \/ PrefillGrant(s) \/ PrefillLock(s)
             \/ PrefillEval(s) \/ PrefillLeave(s) \/ SyncCancelled(s)
             \/ GenerationEnter(s) \/ DecodeLoopEnds(s) \/ EvalSleep(s)
             \/ EvalReturn(s) \/ GenerationLeave(s) \/ Recover(s)
             \/ Respond(s) \/ GenerateEnd(s)
      PROVE  PendingCounted'
  <2>1. UNCHANGED <<decode_pending, pending_count>>
    BY <1>5 DEF GenerateJob, CancelMark, SyncPeek, SyncInterrupted,
           PrefillAnnounce, PrefillSleep, PrefillAbort, PrefillGrant,
           PrefillLock, PrefillEval, PrefillLeave, SyncCancelled,
           GenerationEnter, DecodeLoopEnds, EvalSleep, CanWithdraw,
           EvalReturn, GenerationLeave, Recover, Respond, GenerateEnd
  <2> QED
    BY <2>1
<1>6. ASSUME \/ DecoderSleep \/ DecoderExit \/ DecoderWake
             \/ DecoderCoalesced \/ DecoderTimeout \/ DecoderLock
             \/ DecoderEval \/ DecoderPublish \/ StopSignal
             \/ RequestDecodeStop \/ Terminated
      PROVE  PendingCounted'
  <2>1. UNCHANGED <<decode_pending, pending_count>>
    BY <1>6 DEF DecoderSleep, DecoderExit, DecoderWake, DecoderCoalesced,
           DecoderTimeout, DecoderLock, DecoderEval, DecoderPublish,
           StopSignal, RequestDecodeStop, Terminated, vars
  <2> QED
    BY <2>1
<1> QED
  BY <1>1, <1>2, <1>3, <1>4, <1>5, <1>6 DEF Next, SlotNext, DecoderNext

(* The counter moves with the set of slots in the decode loop.             *)
LEMMA GenerationsStep ==
    ASSUME TypeOK, GenerationsCounted, Next
    PROVE  GenerationsCounted'
<1> USE DEF TypeOK, GenerationsCounted, localVars, cancelVars, jobVars,
        prefillVars, decodeVars, batchVars, modelVars, stopVars, Goto,
        DecoderGoto
<1> DEFINE InLoop == {s \in Slots : pc[s] \in {"dloop", "dwait", "gleave"}}
<1>1. ASSUME NEW s \in Slots, GenerationEnter(s) PROVE GenerationsCounted'
  <2>1. InLoop' = InLoop \cup {s} /\ s \notin InLoop
    BY <1>1 DEF GenerationEnter
  <2>2. active_generations' = active_generations + 1
    BY <1>1 DEF GenerationEnter
  <2> QED
    BY <2>1, <2>2, OneMore
<1>2. ASSUME NEW s \in Slots, GenerationLeave(s) PROVE GenerationsCounted'
  <2>1. InLoop = InLoop' \cup {s} /\ s \notin InLoop'
    BY <1>2 DEF GenerationLeave
  <2>2. Cardinality(InLoop) = Cardinality(InLoop') + 1 /\ Cardinality(InLoop') \in Nat
    BY <2>1, OneMore
  <2> QED
    BY <1>2, <2>2 DEF GenerationLeave
<1>3. ASSUME NEW s \in Slots,
             \/ GenerateJob(s) \/ CancelMark(s) \/ CancelWithdraw(s)
             \/ SyncPeek(s) \/ SyncInterrupted(s) \/ PrefillAnnounce(s)
             \/ PrefillSleep(s) \/ PrefillAbort(s) \/ PrefillGrant(s)
             \/ PrefillLock(s) \/ PrefillEval(s) \/ PrefillLeave(s)
             \/ SyncCancelled(s) \/ DecodeLoopEnds(s) \/ EvalSubmit(s)
             \/ EvalSleep(s) \/ EvalWithdraw(s) \/ EvalReturn(s)
             \/ Recover(s) \/ Respond(s) \/ GenerateEnd(s)
      PROVE  GenerationsCounted'
  <2>1. InLoop' = InLoop /\ active_generations' = active_generations
    BY <1>3 DEF GenerateJob, CancelMark, CancelWithdraw, WithdrawDecode,
           CanWithdraw, SyncPeek, SyncInterrupted, PrefillAnnounce,
           PrefillSleep, PrefillAbort, PrefillGrant, PrefillLock, PrefillEval,
           PrefillLeave, SyncCancelled, DecodeLoopEnds, EvalSubmit, EvalSleep,
           EvalWithdraw, EvalReturn, Recover, Respond, GenerateEnd
  <2> QED
    BY <2>1
<1>4. ASSUME \/ DecoderSleep \/ DecoderExit \/ DecoderWake
             \/ DecoderCoalesced \/ DecoderTimeout \/ DecoderCollect
             \/ DecoderLock \/ DecoderEval \/ DecoderPublish \/ StopSignal
             \/ RequestDecodeStop \/ Terminated
      PROVE  GenerationsCounted'
  <2>1. InLoop' = InLoop /\ active_generations' = active_generations
    BY <1>4 DEF DecoderSleep, DecoderExit, DecoderWake, DecoderCoalesced,
           DecoderTimeout, DecoderCollect, DecoderLock, DecoderEval,
           DecoderPublish, StopSignal, RequestDecodeStop, Terminated, vars
  <2> QED
    BY <2>1
<1> QED
  BY <1>1, <1>2, <1>3, <1>4 DEF Next, SlotNext, DecoderNext

(* A grant serves the first waiting slot of the scan, which the next scan  *)
(* visits last.                                                            *)
LEMMA RobinStep ==
    ASSUME TypeOK, RobinInv, Next
    PROVE  RobinInv'
<1> USE DEF TypeOK, RobinInv, Distance, localVars, cancelVars, jobVars,
        prefillVars, decodeVars, batchVars, modelVars, stopVars, Goto,
        DecoderGoto
<1>1. ASSUME NEW s \in Slots, PrefillAnnounce(s) PROVE RobinInv'
  BY <1>1 DEF PrefillAnnounce
<1>2. ASSUME NEW s \in Slots, PrefillAbort(s) PROVE RobinInv'
  BY <1>2 DEF PrefillAbort
<1>3. ASSUME NEW s \in Slots, PrefillGrant(s) PROVE RobinInv'
  <2>1. /\ last_prefill_slot' = s
        /\ prefill_waiting[s]
        /\ prefill_waiting' = [prefill_waiting EXCEPT ![s] = FALSE]
        /\ \A t \in Slots : prefill_waiting[t] => Distance(s) <= Distance(t)
        /\ passed' = [t \in Slots |-> IF prefill_waiting[t] /\ t # s
                                      THEN passed[t] \cup {s} ELSE {}]
    BY <1>3 DEF PrefillGrant, PrefillBlocked, NextPrefillSlot
  <2>2. ASSUME NEW t \in Slots, ~prefill_waiting'[t] PROVE passed'[t] = {}
    BY <2>1, <2>2
  <2>3. ASSUME NEW t \in Slots, prefill_waiting'[t], NEW u \in passed'[t]
        PROVE  Distance(t)' < Distance(u)'
    <3>1. t # s /\ prefill_waiting[t] /\ u \in passed[t] \cup {s}
      BY <2>1, <2>3
    <3>2. CASE u = s
      BY <2>1, <3>1, <3>2, NAssumption DEF Distance, Slots
    <3>3. CASE u \in passed[t]
      <4>1. Distance(s) <= Distance(t) /\ Distance(t) < Distance(u) /\ u \in Slots
        BY <2>1, <3>1, <3>3
      <4> QED
        BY <2>1, <3>1, <4>1, NAssumption DEF Distance, Slots
    <3> QED
      BY <3>1, <3>2, <3>3
  <2> QED
    BY <2>2, <2>3
<1>4. ASSUME NEW s \in Slots,
             \/ GenerateJob(s) \/ CancelMark(s) \/ CancelWithdraw(s)
             \/ SyncPeek(s) \/ SyncInterrupted(s) \/ PrefillSleep(s)
             \/ PrefillLock(s) \/ PrefillEval(s) \/ PrefillLeave(s)
             \/ SyncCancelled(s) \/ GenerationEnter(s) \/ DecodeLoopEnds(s)
             \/ EvalSubmit(s) \/ EvalSleep(s) \/ EvalWithdraw(s)
             \/ EvalReturn(s) \/ GenerationLeave(s) \/ Recover(s)
             \/ Respond(s) \/ GenerateEnd(s)
      PROVE  RobinInv'
  BY <1>4 DEF GenerateJob, CancelMark, CancelWithdraw, WithdrawDecode,
         CanWithdraw, SyncPeek, SyncInterrupted, PrefillSleep, PrefillLock,
         PrefillEval, PrefillLeave, SyncCancelled, GenerationEnter,
         DecodeLoopEnds, EvalSubmit, EvalSleep, EvalWithdraw, EvalReturn,
         GenerationLeave, Recover, Respond, GenerateEnd
<1>5. ASSUME \/ DecoderSleep \/ DecoderExit \/ DecoderWake
             \/ DecoderCoalesced \/ DecoderTimeout \/ DecoderCollect
             \/ DecoderLock \/ DecoderEval \/ DecoderPublish \/ StopSignal
             \/ RequestDecodeStop \/ Terminated
      PROVE  RobinInv'
  BY <1>5 DEF DecoderSleep, DecoderExit, DecoderWake, DecoderCoalesced,
         DecoderTimeout, DecoderCollect, DecoderLock, DecoderEval,
         DecoderPublish, StopSignal, RequestDecodeStop, Terminated, vars
<1> QED
  BY <1>1, <1>2, <1>3, <1>4, <1>5 DEF Next, SlotNext, DecoderNext

(* A slot moves from waiting to holding the model only by its own grant.   *)
LEMMA GrantIsGrant ==
    ASSUME TypeOK, Next, NEW t \in Slots, Granted(t)
    PROVE  PrefillGrant(t)
<1> USE DEF TypeOK, Granted, localVars, cancelVars, jobVars, prefillVars, decodeVars, batchVars, modelVars, stopVars, Goto, DecoderGoto
<1>1. ASSUME NEW s \in Slots, PrefillGrant(s) PROVE PrefillGrant(t)
  <2>1. s = t
    BY <1>1 DEF PrefillGrant
  <2> QED
    BY <1>1, <2>1
<1>2. ASSUME NEW s \in Slots,
             \/ GenerateJob(s) \/ CancelMark(s) \/ CancelWithdraw(s)
             \/ SyncPeek(s) \/ SyncInterrupted(s) \/ PrefillAnnounce(s)
             \/ PrefillSleep(s) \/ PrefillAbort(s) \/ PrefillLock(s)
             \/ PrefillEval(s) \/ PrefillLeave(s) \/ SyncCancelled(s)
             \/ GenerationEnter(s) \/ DecodeLoopEnds(s) \/ EvalSubmit(s)
             \/ EvalSleep(s) \/ EvalWithdraw(s) \/ EvalReturn(s)
             \/ GenerationLeave(s) \/ Recover(s) \/ Respond(s)
             \/ GenerateEnd(s)
      PROVE  FALSE
  BY <1>2 DEF GenerateJob, CancelMark, CancelWithdraw, WithdrawDecode,
         CanWithdraw, SyncPeek, SyncInterrupted, PrefillAnnounce,
         PrefillSleep, PrefillAbort, PrefillLock, PrefillEval, PrefillLeave,
         SyncCancelled, GenerationEnter, DecodeLoopEnds, EvalSubmit,
         EvalSleep, EvalWithdraw, EvalReturn, GenerationLeave, Recover,
         Respond, GenerateEnd
<1>3. ASSUME \/ DecoderSleep \/ DecoderExit \/ DecoderWake
             \/ DecoderCoalesced \/ DecoderTimeout \/ DecoderCollect
             \/ DecoderLock \/ DecoderEval \/ DecoderPublish \/ StopSignal
             \/ RequestDecodeStop \/ Terminated
      PROVE  FALSE
  BY <1>3 DEF DecoderSleep, DecoderExit, DecoderWake, DecoderCoalesced,
         DecoderTimeout, DecoderCollect, DecoderLock, DecoderEval,
         DecoderPublish, StopSignal, RequestDecodeStop, Terminated, vars
<1> QED
  BY <1>1, <1>2, <1>3 DEF Next, SlotNext, DecoderNext

-----------------------------------------------------------------------------
(* The inductive invariant is preserved by every step and every stutter.   *)
LEMMA StepInv == IInv /\ [Next]_vars => IInv'
<1> SUFFICES ASSUME IInv, [Next]_vars PROVE IInv'
  OBVIOUS
<1>1. CASE Next
  BY <1>1, TypeStep, TodoStep, StopStep, BatchStep, InFlightStep, UnkeptStep,
     ExclusiveStep, PendingStep, GenerationsStep, RobinStep DEF IInv
<1>2. CASE UNCHANGED vars
  <2> USE <1>2 DEF vars, localVars, cancelVars, jobVars, prefillVars,
          decodeVars, batchVars, modelVars, stopVars
  <2>1. TypeOK' /\ TodoInv' /\ ModelExclusive' /\ BatchHeld' /\ StopInv'
    BY DEF IInv, TypeOK, TodoInv, ModelExclusive, ModelOwners, BatchHeld, StopInv
  <2>2. PendingCounted' /\ GenerationsCounted'
    BY DEF IInv, PendingCounted, GenerationsCounted
  <2>3. InFlightHeld' /\ UnkeptInv' /\ RobinInv'
    BY DEF IInv, InFlightHeld, UnkeptInv, RobinInv, Distance
  <2> QED
    BY <2>1, <2>2, <2>3 DEF IInv
<1> QED
  BY <1>1, <1>2

(* IInv holds in every reachable state.                                    *)
THEOREM Invariance == Spec => []IInv
  BY InitInv, StepInv, PTL DEF Spec

(* Every field and local keeps its type, and neither s->decode_pending nor *)
(* s->active_generations goes below zero.                                  *)
THEOREM TypeCorrect == Spec => []TypeOK
<1>1. IInv => TypeOK
  BY DEF IInv
<1> QED
  BY <1>1, Invariance, PTL

(* A prefill quantum and a decode batch never overlap, and model_busy is   *)
(* never left set: server_prefill_enter/_leave and decode_worker_main.     *)
THEOREM ExclusiveModel == Spec => []ModelExclusive
<1>1. IInv => ModelExclusive
  BY DEF IInv
<1> QED
  BY <1>1, Invariance, PTL

(* s->decode_pending and s->active_generations count what they are meant   *)
(* to count, through every submission, withdrawal and batch.               *)
THEOREM CountersExact == Spec => []CountersCorrect
<1>1. IInv => CountersCorrect
  BY DEF IInv, CountersCorrect
<1> QED
  BY <1>1, Invariance, PTL

(* The thread of a slot whose token is in a batch waits in                 *)
(* server_eval_token until decode_worker_main publishes the result.        *)
THEOREM BatchOwnsSession == Spec => []InFlightHeld
<1>1. IInv => InFlightHeld
  BY DEF IInv
<1> QED
  BY <1>1, Invariance, PTL

(* The decode loop of generate_job_inner never samples from a session that *)
(* holds a token it was told had failed or had been withdrawn.             *)
THEOREM LoopInStep == Spec => []SessionMatchesLoop
<1>1. IInv => SessionMatchesLoop
  <2> SUFFICES ASSUME IInv, NEW s \in Slots, pc[s] = "dloop", unkept[s] PROVE FALSE
    BY DEF SessionMatchesLoop
  <2>1. decoder = "publish" /\ s \in members
    BY DEF IInv, UnkeptInv
  <2> QED
    BY <2>1 DEF IInv, InFlightHeld
<1> QED
  BY <1>1, Invariance, PTL

(* decode_worker_main returns only after the last slot thread is done.     *)
THEOREM DecoderLast == Spec => []DecoderOutlivesRequests
<1>1. IInv => DecoderOutlivesRequests
  BY DEF IInv, StopInv, InFlightHeld, DecoderOutlivesRequests
<1> QED
  BY <1>1, Invariance, PTL

(* Round robin for any number of slots: server_prefill_enter lets no slot  *)
(* have two quanta while another one waits.                                *)
THEOREM FairPrefill == Spec => PrefillBypassedOnce
<1>1. IInv /\ [Next]_vars =>
        [\A s, t \in Slots :
           Granted(t) /\ prefill_waiting[s] /\ s # t => t \notin passed[s]]_vars
  <2> SUFFICES ASSUME IInv, Next, NEW s \in Slots, NEW t \in Slots, Granted(t),
                      prefill_waiting[s], s # t
               PROVE  t \notin passed[s]
    OBVIOUS
  <2>1. PrefillGrant(t)
    BY GrantIsGrant DEF IInv
  <2>2. Distance(t) <= Distance(s)
    BY <2>1 DEF PrefillGrant, PrefillBlocked, NextPrefillSlot
  <2>3. ASSUME t \in passed[s] PROVE Distance(s) < Distance(t)
    BY <2>3 DEF IInv, RobinInv
  <2> QED
    BY <2>2, <2>3, NAssumption DEF IInv, TypeOK, Distance, Slots
<1> QED
  BY <1>1, Invariance, PTL DEF Spec, PrefillBypassedOnce

(* A token submitted to the decode thread is taken before any further      *)
(* prefill quantum is granted.                                             *)
THEOREM DecodeBeforePrefill == Spec => DecodersFirst
<1>1. IInv /\ [Next]_vars => [\A s, t \in Slots : Granted(t) => ~decode_pending[s]]_vars
  <2> SUFFICES ASSUME IInv, Next, NEW s \in Slots, NEW t \in Slots, Granted(t),
                      decode_pending[s]
               PROVE  FALSE
    OBVIOUS
  <2> DEFINE P == {u \in Slots : decode_pending[u]}
  <2>1. PrefillGrant(t)
    BY GrantIsGrant DEF IInv
  <2>2. pending_count = 0
    BY <2>1 DEF IInv, TypeOK, PrefillGrant, PrefillBlocked
  <2>3. Cardinality(P) = Cardinality(P \ {s}) + 1 /\ Cardinality(P \ {s}) \in Nat
    BY OneMore
  <2> QED
    <3>1. pending_count = Cardinality(P)
      BY DEF IInv, PendingCounted
    <3> QED
      BY <2>2, <2>3, <3>1
<1> QED
  BY <1>1, Invariance, PTL DEF Spec, DecodersFirst

=============================================================================
