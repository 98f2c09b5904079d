-------------------------- MODULE RunLifecycleRowProofs --------------------------
(***************************************************************************)
(* What happens to the run row, its head and the resume intents.  Each of  *)
(* the many actions is one of eleven kinds of row step, and the theorems   *)
(* about them, with the implementation of RunFence, follow from the kinds. *)
(***************************************************************************)
EXTENDS RunLifecycleProofs

RestOfRow == UNCHANGED <<dispatch, head, author, intent, attempt, ccmd>>

\* An intent under way stays under way and is not accepted again; no other moves.
Underway ==
  \A p \in Gen : \/ intent'[p] = intent[p]
                 \/ intent[p] \in Unsettled /\ intent'[p] \in Unsettled \ {"accepted"}

\* An attempt is attributed when an accepted answer is dispatched.
Attributed ==
  \A p \in Gen : \/ attempt'[p] = attempt[p]
                 \/ intent[p] = "accepted" /\ intent'[p] = "dispatch_started"

Kept ==
  /\ UNCHANGED <<dispatch, run, head, author>>
  /\ Underway
  /\ Attributed
  /\ run.terminal => UNCHANGED <<intent, attempt>>
  /\ ccmd' = ccmd \/ run.gen > 0

Launched ==
  /\ dispatch = "none"
  /\ dispatch' = "pending"
  /\ UNCHANGED <<run, head, author, intent, attempt, ccmd>>

Claimed ==
  /\ dispatch = "pending"
  /\ run.gen = 0
  /\ dispatch' = "claimed"
  /\ \E w \in Worker : Grant(w, 1)
  /\ UNCHANGED <<head, author, intent, attempt, ccmd>>

Aged ==
  /\ run.expiry # "null"
  /\ \E e \in {"edge", "past"} : run' = [run EXCEPT !.expiry = e]
  /\ RestOfRow

Renewed ==
  /\ \E w \in Worker : Active(w, run.gen) /\ co'[w]["beat"].pc = "scan"
  /\ run' = [run EXCEPT !.expiry = "live"]
  /\ RestOfRow

Reclaimed ==
  /\ ~run.terminal
  /\ run.expiry # "null"
  /\ \E w \in Worker : Grant(w, run.gen + 1)
  /\ RestOfRow

ByOwner == \E w \in Worker : Active(w, run.gen)

\* The answer to the current command was seen to be consumed.
Answered(phase, pause) ==
  /\ intent[head.cmd] = "native_observed"
  /\ intent' = [intent EXCEPT ![head.cmd] = "reconciled"]
  /\ head' = [phase |-> phase, pause |-> pause, cmd |-> head.cmd]

Paused ==
  /\ ByOwner
  /\ \/ /\ head.phase = "active"
        /\ head' = [phase |-> "waiting", pause |-> run.gen, cmd |-> head.cmd]
        /\ UNCHANGED intent
     \/ Answered("waiting", run.gen)
  /\ run' = Release
  /\ author' = run.gen
  /\ UNCHANGED <<dispatch, attempt, ccmd>>

Activated ==
  /\ ByOwner
  /\ Answered("active", head.pause)
  /\ author' = run.gen
  /\ UNCHANGED <<dispatch, run, attempt, ccmd>>

Terminated ==
  /\ \E w \in Worker : Active(w, run.gen) /\ CommitTerminal(w, run.gen)
  /\ UNCHANGED <<dispatch, attempt, ccmd>>

Accepted ==
  /\ ~run.terminal
  /\ head.phase = "waiting"
  /\ run.expiry = "null"
  /\ intent[head.pause] = "none"
  /\ intent' = [intent EXCEPT ![head.pause] = "accepted"]
  /\ head' = [phase |-> "resuming", pause |-> head.pause, cmd |-> head.pause]
  /\ \E w \in Worker : Grant(w, run.gen + 1)
  /\ author' = run.gen + 1
  /\ UNCHANGED <<dispatch, attempt, ccmd>>

Cancelled ==
  /\ ~run.terminal
  /\ ccmd = "persisted"
  /\ \E w \in Worker : CommitTerminal(w, run.gen + 1)
  /\ UNCHANGED <<dispatch, attempt>>

RowStep ==
  \/ Kept \/ Launched \/ Claimed \/ Aged \/ Renewed \/ Reclaimed
  \/ Paused \/ Activated \/ Terminated \/ Accepted \/ Cancelled

-----------------------------------------------------------------------------
(* Every action is a row step *)

LEMMA KeptAll == UNCHANGED dbVars => Kept
BY DEF dbVars, Kept, Underway, Attributed

\* One intent moves while it stays unsettled.
LEMMA UnderwayOne ==
  ASSUME CommandTypeOK, NEW p, NEW s \in Unsettled \ {"accepted"}, intent[p] \in Unsettled,
         intent' = [intent EXCEPT ![p] = s]
  PROVE  Underway
BY DEF CommandTypeOK, Underway

LEMMA ByFence ==
  ASSUME NEW w \in Worker, NEW g, Active(w, g)
  PROVE  g = run.gen /\ w = run.owner /\ ~run.terminal /\ ByOwner
BY DEF Active, Fence, ByOwner

LEMMA ReconcileRow ==
  ASSUME NEW w \in Worker, NEW g, NEW p, NEW phase, Reconcile(w, g, p, phase),
         UNCHANGED <<dispatch, attempt, ccmd>>
  PROVE  Paused \/ Activated
BY ByFence DEF Reconcile, CanReconcile, Answered, Paused, Activated

LEMMA LaunchRow == Launch => RowStep
BY DEF Launch, RowStep, Launched

LEMMA SubmitResumeRow == SubmitResume => RowStep
BY DEF SubmitResume, RowStep, Kept, Underway, Attributed

LEMMA SubmitCancelRow == SubmitCancel => RowStep
BY DEF SubmitCancel, RowStep, Kept, Underway, Attributed

LEMMA AgeRow == Age => RowStep
BY DEF Age, RowStep, Aged, RestOfRow

LEMMA CrashRow ==
  ASSUME NEW w \in Worker, Crash(w)
  PROVE  RowStep
BY KeptAll DEF Crash, RowStep

LEMMA ReceiveDispatchRow ==
  ASSUME NEW w \in Worker, ReceiveDispatch(w)
  PROVE  RowStep
BY KeptAll DEF ReceiveDispatch, RowStep

LEMMA ClaimWinRow ==
  ASSUME NEW w \in Worker, ClaimWin(w)
  PROVE  RowStep
BY DEF ClaimWin, RowStep, Claimed

LEMMA ClaimLoseRow ==
  ASSUME NEW w \in Worker, ClaimLose(w)
  PROVE  RowStep
BY KeptAll DEF ClaimLose, RowStep

LEMMA BuildOkRow ==
  ASSUME NEW w \in Worker, NEW c \in Coroutine, BuildOk(w, c)
  PROVE  RowStep
BY KeptAll DEF BuildOk, RowStep

LEMMA BuildFailRow ==
  ASSUME NEW w \in Worker, NEW c \in Coroutine, BuildFail(w, c)
  PROVE  RowStep
BY ByFence DEF BuildFail, RowStep, Terminated, Kept, Underway, Attributed

LEMMA StartSpawnRow ==
  ASSUME NEW w \in Worker, NEW c \in Coroutine, StartSpawn(w, c)
  PROVE  RowStep
BY KeptAll DEF StartSpawn, RowStep

LEMMA StartStaleRow ==
  ASSUME NEW w \in Worker, NEW c \in Coroutine, StartStale(w, c)
  PROVE  RowStep
BY KeptAll DEF StartStale, RowStep

LEMMA StartUnattributedRow ==
  ASSUME NEW w \in Worker, NEW c \in Coroutine, StartUnattributed(w, c)
  PROVE  RowStep
BY KeptAll DEF StartUnattributed, RowStep

LEMMA TaskGateRow ==
  ASSUME NEW w \in Worker, NEW g \in Gen, TaskGate(w, g)
  PROVE  RowStep
BY KeptAll DEF TaskGate, RowStep

LEMMA ConsumeRow ==
  ASSUME NEW w \in Worker, NEW g \in Gen, Consume(w, g)
  PROVE  RowStep
BY KeptAll DEF Consume, RowStep

LEMMA InterruptRow ==
  ASSUME NEW w \in Worker, NEW g \in Gen, Interrupt(w, g)
  PROVE  RowStep
BY KeptAll DEF Interrupt, RowStep

LEMMA FinishRow ==
  ASSUME NEW w \in Worker, NEW g \in Gen, Finish(w, g)
  PROVE  RowStep
BY KeptAll DEF Finish, RowStep

LEMMA NativeErrorRow ==
  ASSUME NEW w \in Worker, NEW g \in Gen, NativeError(w, g)
  PROVE  RowStep
BY KeptAll DEF NativeError, RowStep

LEMMA TaskDiesRow ==
  ASSUME NEW w \in Worker, NEW g \in Gen, TaskDies(w, g)
  PROVE  RowStep
BY KeptAll DEF TaskDies, RowStep

LEMMA SettleRow ==
  ASSUME NEW w \in Worker, NEW g \in Gen, Settle(w, g)
  PROVE  RowStep
BY KeptAll DEF Settle, RowStep

LEMMA RecordPauseRow ==
  ASSUME NEW w \in Worker, NEW g \in Gen, RecordPause(w, g)
  PROVE  RowStep
BY ByFence DEF RecordPause, RowStep, Paused, Kept, Underway, Attributed

LEMMA FinalizeRow ==
  ASSUME NEW w \in Worker, NEW g \in Gen, Finalize(w, g)
  PROVE  RowStep
BY ByFence DEF Finalize, RowStep, Terminated, Kept, Underway, Attributed

LEMMA SettleResumeRow ==
  ASSUME NEW w \in Worker, NEW g \in Gen, NEW p \in Gen, SettleResume(w, g, p)
  PROVE  RowStep
BY KeptAll DEF SettleResume, RowStep

LEMMA TaskObserveRow ==
  ASSUME CommandTypeOK, NEW w \in Worker, NEW g \in Gen, NEW p \in Gen, TaskObserve(w, g, p)
  PROVE  RowStep
<1>1. /\ UNCHANGED <<dispatch, run, head, author, ccmd>>
      /\ run.terminal => UNCHANGED <<intent, attempt>>
  BY ByFence DEF TaskObserve, Observe
<1>2. \/ UNCHANGED intent
      \/ \E q \in Gen0, s \in Unsettled \ {"accepted"} :
           intent[q] \in Unsettled /\ intent' = [intent EXCEPT ![q] = s]
  BY Literals DEF TaskObserve, Unsettled, Observe
<1>3. Underway
  BY <1>2, UnderwayOne DEF Underway
<1>4. UNCHANGED attempt
  BY DEF TaskObserve
<1>. QED BY <1>1, <1>3, <1>4 DEF RowStep, Kept, Attributed

LEMMA TaskReconcileRow ==
  ASSUME NEW w \in Worker, NEW g \in Gen, NEW p \in Gen, TaskReconcile(w, g, p)
  PROVE  RowStep
BY ReconcileRow DEF TaskReconcile, RowStep, Kept, Underway, Attributed

LEMMA TaskUnknownRow ==
  ASSUME CommandTypeOK, NEW w \in Worker, NEW g \in Gen, NEW p \in Gen, TaskUnknown(w, g, p)
  PROVE  RowStep
<1>1. /\ UNCHANGED <<dispatch, run, head, author, ccmd>>
      /\ run.terminal => UNCHANGED <<intent, attempt>>
  BY ByFence DEF TaskUnknown, ReconcileUnknown
<1>2. \/ UNCHANGED intent
      \/ \E q \in Gen0, s \in Unsettled \ {"accepted"} :
           intent[q] \in Unsettled /\ intent' = [intent EXCEPT ![q] = s]
  BY Literals DEF TaskUnknown, Unsettled, ReconcileUnknown
<1>3. Underway
  BY <1>2, UnderwayOne DEF Underway
<1>4. UNCHANGED attempt
  BY DEF TaskUnknown
<1>. QED BY <1>1, <1>3, <1>4 DEF RowStep, Kept, Attributed

LEMMA CtlResumeRow ==
  ASSUME NEW w \in Worker, NEW p \in Gen, CtlResume(w, p)
  PROVE  RowStep
BY DEF CtlResume, RowStep, Kept, Underway, Attributed

LEMMA AcceptRow ==
  ASSUME NEW w \in Worker, NEW c \in Coroutine, Accept(w, c)
  PROVE  RowStep
BY DEF Accept, RowStep, Accepted, NextGeneration

LEMMA RejoinRow ==
  ASSUME NEW w \in Worker, NEW c \in Coroutine, Rejoin(w, c)
  PROVE  RowStep
BY KeptAll DEF Rejoin, RowStep

LEMMA JoinRow ==
  ASSUME NEW w \in Worker, NEW c \in Coroutine, Join(w, c)
  PROVE  RowStep
BY KeptAll DEF Join, RowStep

LEMMA NoResumeRow ==
  ASSUME NEW w \in Worker, NEW c \in Coroutine, NoResume(w, c)
  PROVE  RowStep
BY DEF NoResume, RowStep, Kept, Underway, Attributed

LEMMA AdoptRow ==
  ASSUME NEW w \in Worker, NEW c \in Coroutine, Adopt(w, c)
  PROVE  RowStep
BY KeptAll DEF Adopt, RowStep

LEMMA ResumeReadRow ==
  ASSUME NEW w \in Worker, NEW c \in Coroutine, ResumeRead(w, c)
  PROVE  RowStep
BY DEF ResumeRead, RowStep, Kept, Underway, Attributed

LEMMA StartResumeRow ==
  ASSUME CommandTypeOK, CoTypeOK, NEW w \in Worker, NEW c \in Coroutine, StartResume(w, c)
  PROVE  RowStep
<1>1. /\ UNCHANGED <<dispatch, run, head, author, ccmd>>
      /\ run.terminal => UNCHANGED <<intent, attempt>>
  BY ByFence DEF StartResume
<1>2. \/ UNCHANGED intent
      \/ \E q \in Gen0, s \in Unsettled \ {"accepted"} :
           intent[q] \in Unsettled /\ intent' = [intent EXCEPT ![q] = s]
  BY CoFields DEF StartResume, Unsettled, Startable
<1>3. Underway
  BY <1>2, UnderwayOne DEF Underway
<1>4. Attributed
  <2>1. CASE UNCHANGED attempt
    BY <2>1 DEF Attributed
  <2>2. CASE ~UNCHANGED attempt
    <3>1. /\ intent[CoCmd(w, c)] = "accepted"
          /\ intent' = [intent EXCEPT ![CoCmd(w, c)] = "dispatch_started"]
          /\ attempt' = [attempt EXCEPT ![CoCmd(w, c)] = CoGen(w, c)]
      BY <2>2 DEF StartResume, Startable
    <3>. QED BY <3>1 DEF Attributed, CommandTypeOK
  <2>. QED BY <2>1, <2>2
<1>. QED BY <1>1, <1>3, <1>4 DEF RowStep, Kept

LEMMA ResumeSpawnRow ==
  ASSUME NEW w \in Worker, NEW c \in Coroutine, ResumeSpawn(w, c)
  PROVE  RowStep
BY DEF ResumeSpawn, RowStep, Kept, Underway, Attributed

LEMMA CoObserveRow ==
  ASSUME CommandTypeOK, CoTypeOK, NEW w \in Worker, NEW c \in Coroutine, CoObserve(w, c)
  PROVE  RowStep
<1>1. /\ UNCHANGED <<dispatch, run, head, author, ccmd>>
      /\ run.terminal => UNCHANGED <<intent, attempt>>
  BY ByFence DEF CoObserve, Observe
<1>2. \/ UNCHANGED intent
      \/ \E q \in Gen0, s \in Unsettled \ {"accepted"} :
           intent[q] \in Unsettled /\ intent' = [intent EXCEPT ![q] = s]
  BY CoFields DEF CoObserve, Unsettled, Observe
<1>3. Underway
  BY <1>2, UnderwayOne DEF Underway
<1>4. UNCHANGED attempt
  BY DEF CoObserve
<1>. QED BY <1>1, <1>3, <1>4 DEF RowStep, Kept, Attributed

LEMMA CoReconcileRow ==
  ASSUME NEW w \in Worker, NEW c \in Coroutine, CoReconcile(w, c)
  PROVE  RowStep
BY ReconcileRow DEF CoReconcile, RowStep, Kept, Underway, Attributed

LEMMA CoUnknownRow ==
  ASSUME CommandTypeOK, CoTypeOK, NEW w \in Worker, NEW c \in Coroutine, CoUnknown(w, c)
  PROVE  RowStep
<1>1. /\ UNCHANGED <<dispatch, run, head, author, ccmd>>
      /\ run.terminal => UNCHANGED <<intent, attempt>>
  BY ByFence DEF CoUnknown, ReconcileUnknown
<1>2. \/ UNCHANGED intent
      \/ \E q \in Gen0, s \in Unsettled \ {"accepted"} :
           intent[q] \in Unsettled /\ intent' = [intent EXCEPT ![q] = s]
  BY CoFields DEF CoUnknown, Unsettled, ReconcileUnknown
<1>3. Underway
  BY <1>2, UnderwayOne DEF Underway
<1>4. UNCHANGED attempt
  BY DEF CoUnknown
<1>. QED BY <1>1, <1>3, <1>4 DEF RowStep, Kept, Attributed

LEMMA BeatRenewRow ==
  ASSUME CoTypeOK, NEW w \in Worker, BeatRenew(w)
  PROVE  RowStep
<1>1. CASE UNCHANGED run
  BY <1>1 DEF BeatRenew, RowStep, Kept, Underway, Attributed
<1>2. CASE Active(w, reg[w]) /\ run' = [run EXCEPT !.expiry = "live"]
             /\ Goto(w, "beat", "scan", 0)
  <2>1. co'[w]["beat"].pc = "scan"
    BY <1>2, Literals DEF Goto, CoTypeOK
  <2>. QED BY <1>2, <2>1, ByFence DEF BeatRenew, RowStep, Renewed, RestOfRow
<1>. QED BY <1>1, <1>2 DEF BeatRenew

LEMMA BeatYieldRow ==
  ASSUME NEW w \in Worker, BeatYield(w)
  PROVE  RowStep
BY KeptAll DEF BeatYield, RowStep

LEMMA BeatReclaimRow ==
  ASSUME NEW w \in Worker, BeatReclaim(w)
  PROVE  RowStep
BY DEF BeatReclaim, RowStep, Reclaimable, NextGeneration, Reclaimed, RestOfRow

LEMMA BeatTakeOverRow ==
  ASSUME NEW w \in Worker, BeatTakeOver(w)
  PROVE  RowStep
BY KeptAll DEF BeatTakeOver, RowStep

LEMMA BeatReapplyRow ==
  ASSUME NEW w \in Worker, NEW p \in Gen, BeatReapply(w, p)
  PROVE  RowStep
BY KeptAll DEF BeatReapply, RowStep

LEMMA BeatReconcileRow ==
  ASSUME NEW w \in Worker, NEW p \in Gen, BeatReconcile(w, p)
  PROVE  RowStep
BY KeptAll DEF BeatReconcile, RowStep

LEMMA BeatRestRow ==
  ASSUME NEW w \in Worker, BeatRest(w)
  PROVE  RowStep
BY KeptAll DEF BeatRest, RowStep

LEMMA CancelCommitRow ==
  ASSUME NEW w \in Worker, NEW c \in Coroutine, CancelCommit(w, c)
  PROVE  RowStep
BY DEF CancelCommit, RowStep, Cancellable, NextGeneration, Cancelled

LEMMA CancelLocalRow ==
  ASSUME NEW w \in Worker, NEW c \in Coroutine, CancelLocal(w, c)
  PROVE  RowStep
BY KeptAll DEF CancelLocal, RowStep

LEMMA NextRow ==
  ASSUME TypeOK, [Next]_vars
  PROVE  RowStep
<1>. CommandTypeOK /\ CoTypeOK
  BY DEF TypeOK
<1>1. ASSUME UNCHANGED vars PROVE RowStep
  BY <1>1, KeptAll DEF vars, dbVars, RowStep
<1>2. CASE Launch \/ SubmitResume \/ SubmitCancel \/ Age \/ Rest
  BY <1>1, <1>2, LaunchRow, SubmitResumeRow, SubmitCancelRow, AgeRow DEF Rest
<1>3. ASSUME NEW w \in Worker, Crash(w) \/ Serve(w) \/ Beat(w)
      PROVE  RowStep
  <2>1. CASE Crash(w) \/ Serve(w)
    BY <2>1, CrashRow, ReceiveDispatchRow, ClaimWinRow, ClaimLoseRow DEF Serve
  <2>2. CASE Beat(w)
    BY <2>2, BeatRenewRow, BeatYieldRow, BeatReclaimRow, BeatTakeOverRow,
       BeatRestRow, BeatReapplyRow, BeatReconcileRow DEF Beat
  <2>. QED BY <1>3, <2>1, <2>2
<1>4. ASSUME NEW w \in Worker, NEW c \in Coroutine,
             Start(w, c) \/ Resume(w, c) \/ CancelCommit(w, c) \/ CancelLocal(w, c)
      PROVE  RowStep
  <2>1. CASE Start(w, c)
    BY <2>1, BuildOkRow, BuildFailRow, StartSpawnRow, StartStaleRow,
       StartUnattributedRow DEF Start
  <2>2. CASE Resume(w, c)
    BY <2>2, AcceptRow, AdoptRow, RejoinRow, JoinRow, NoResumeRow,
       ResumeReadRow, StartResumeRow, ResumeSpawnRow, CoObserveRow,
       CoReconcileRow, CoUnknownRow DEF Resume
  <2>. QED BY <1>4, <2>1, <2>2, CancelCommitRow, CancelLocalRow
<1>5. ASSUME NEW w \in Worker, NEW p \in Gen, CtlResume(w, p) PROVE RowStep
  BY <1>5, CtlResumeRow
<1>6. ASSUME NEW w \in Worker, NEW g \in Gen,
             Native(w, g) \/ Settling(w, g) \/ TaskDies(w, g)
      PROVE  RowStep
  <2>1. CASE Native(w, g)
    BY <2>1, ConsumeRow, InterruptRow, FinishRow, NativeErrorRow DEF Native
  <2>2. CASE Settling(w, g)
    BY <2>2, TaskGateRow, SettleRow, RecordPauseRow, FinalizeRow,
       SettleResumeRow, TaskObserveRow, TaskReconcileRow, TaskUnknownRow
       DEF Settling
  <2>. QED BY <1>6, <2>1, <2>2, TaskDiesRow
<1>. QED BY <1>1, <1>2, <1>3, <1>4, <1>5, <1>6 DEF Next

-----------------------------------------------------------------------------
(* The invariant of the row *)

\* Before the claim nobody owns the run, nothing waits and nobody can cancel it.
Unborn ==
  run.gen = 0 => /\ run.owner = NoWorker
                 /\ run.expiry = "null"
                 /\ ~run.terminal
                 /\ head.phase = "active"
                 /\ head.cmd = 0
                 /\ ccmd = "none"

TerminalHead == run.terminal <=> head.phase = "terminal"

RowInv == ClaimedIffLeased /\ UnleasedIffParked /\ Unborn /\ TerminalHead

LEMMA RowGen ==
  ASSUME TypeOK
  PROVE  run.gen \in Nat /\ run = [gen |-> run.gen, owner |-> run.owner,
                                   expiry |-> run.expiry, terminal |-> run.terminal]
BY MaxGenAssumption DEF TypeOK, RowTypeOK, RowType, Gen0

\* An active lease belongs to a worker, so the run exists.
LEMMA OwnerIsBorn ==
  ASSUME TypeOK, Unborn, ByOwner
  PROVE  run.gen > 0 /\ run.expiry # "null" /\ ~run.terminal
BY RowGen, NoWorkerAssumption DEF ByOwner, Active, Fence, Unborn

LEMMA RowInvInit == Init => RowInv
BY DEF Init, RowInv, ClaimedIffLeased, UnleasedIffParked, Unborn, TerminalHead

LEMMA RowInvStep ==
  ASSUME TypeOK, RowInv, RowStep
  PROVE  RowInv'
<1>. USE RowGen DEF RowInv, ClaimedIffLeased, UnleasedIffParked, Unborn, TerminalHead
<1>1. CASE Kept
  BY <1>1 DEF Kept
<1>2. CASE Launched
  BY <1>2 DEF Launched
<1>3. CASE Claimed
  BY <1>3 DEF Claimed, Grant
<1>4. CASE Aged \/ Renewed
  BY <1>4, OwnerIsBorn DEF Aged, Renewed, RestOfRow, ByOwner
<1>5. CASE Reclaimed
  BY <1>5 DEF Reclaimed, Grant, RestOfRow
<1>6. CASE Paused
  <2>1. head'.phase = "waiting"
    BY <1>6 DEF Paused, Answered
  <2>. QED BY <1>6, <2>1, OwnerIsBorn DEF Paused, Release
<1>7. CASE Activated
  <2>1. head'.phase = "active"
    BY <1>7 DEF Activated, Answered
  <2>2. head.phase \notin {"waiting", "terminal"}
    BY <1>7, OwnerIsBorn DEF Activated
  <2>. QED BY <1>7, <2>1, <2>2, OwnerIsBorn DEF Activated
<1>8. CASE Terminated
  <2>1. ByOwner
    BY <1>8 DEF Terminated, ByOwner
  <2>2. run.gen > 0 /\ run'.gen = run.gen /\ run'.expiry = "null" /\ run'.terminal
    BY <1>8, <2>1, OwnerIsBorn DEF Terminated, CommitTerminal
  <2>3. head'.phase = "terminal"
    BY <1>8 DEF Terminated, CommitTerminal, TypeOK, RowTypeOK, HeadType
  <2>. QED BY <1>8, <2>2, <2>3 DEF Terminated
<1>9. CASE Accepted
  BY <1>9 DEF Accepted, Grant
<1>10. CASE Cancelled
  <2>1. run'.gen = run.gen + 1 /\ run'.expiry = "null" /\ run'.terminal
    BY <1>10 DEF Cancelled, CommitTerminal
  <2>2. head'.phase = "terminal"
    BY <1>10 DEF Cancelled, CommitTerminal, TypeOK, RowTypeOK, HeadType
  <2>3. run.gen > 0
    BY <1>10 DEF Cancelled
  <2>. QED BY <1>10, <2>1, <2>2, <2>3 DEF Cancelled
<1>. QED BY <1>1, <1>2, <1>3, <1>4, <1>5, <1>6, <1>7, <1>8, <1>9, <1>10 DEF RowStep

LEMMA RowInvariant == Spec => []RowInv
<1>1. TypeOK /\ RowInv /\ [Next]_vars => RowInv'
  BY NextRow, RowInvStep
<1>. QED BY <1>1, RowInvInit, TypeCorrect, PTL DEF Spec

\* The dispatch intent is claimed exactly when the lease row exists, whatever
\* crashes, races and reclaims follow.
THEOREM ClaimIsAtomic == Spec => []ClaimedIffLeased
<1>1. RowInv => ClaimedIffLeased
  BY DEF RowInv
<1>. QED BY <1>1, RowInvariant, PTL

\* The lease is given back exactly by a pause or a terminal.
THEOREM LeaseFollowsHead == Spec => []UnleasedIffParked
<1>1. RowInv => UnleasedIffParked
  BY DEF RowInv
<1>. QED BY <1>1, RowInvariant, PTL

LEMMA RowStepFinal ==
  ASSUME TypeOK, RowInv, RowStep, run.terminal
  PROVE  UNCHANGED <<dispatch, run, head, intent, attempt>>
<1>1. run.gen > 0 /\ run.expiry = "null" /\ dispatch = "claimed"
  BY RowGen DEF RowInv, ClaimedIffLeased, UnleasedIffParked, Unborn, TerminalHead
<1>2. ~ByOwner
  BY DEF ByOwner, Active
<1>3. Kept
  BY <1>1, <1>2 DEF RowStep, Launched, Claimed, Aged, Renewed, Reclaimed, Paused,
     Activated, Terminated, Accepted, Cancelled, ByOwner
<1>. QED BY <1>3 DEF Kept

\* A terminal run never changes its row, head or intents again.
THEOREM TerminalStays == Spec => TerminalIsFinal
<1>1. TypeOK /\ RowInv /\ [Next]_vars
      => [run.terminal => UNCHANGED <<dispatch, run, head, intent, attempt>>]_vars
  BY NextRow, RowStepFinal
<1>. QED BY <1>1, RowInvariant, TypeCorrect, PTL DEF Spec, TerminalIsFinal

-----------------------------------------------------------------------------
(* The head and the resume intents *)

\* A pause is named by a generation that has passed, so the next pause always names
\* an intent nobody has touched; while one answer is under way no other is settled
\* by a terminal.
PausesPassed ==
  /\ head.pause <= run.gen
  /\ \A p \in Gen : intent[p] # "none" => p < run.gen

OneAnswer ==
  head.phase = "resuming" =>
    /\ head.cmd # 0
    /\ \A p \in Gen : p # head.cmd => intent[p] \in {"none", "reconciled"}

HeadInv == HeadMatchesIntents /\ PausesPassed /\ OneAnswer

LEMMA HeadTypes ==
  ASSUME TypeOK
  PROVE  /\ run.gen \in Gen0 /\ head.pause \in Gen0 /\ head.cmd \in Gen0
         /\ head = [phase |-> head.phase, pause |-> head.pause, cmd |-> head.cmd]
         /\ head.phase \in {"active", "waiting", "resuming", "terminal"}
         /\ intent \in [Gen -> IntentStatus]
BY DEF TypeOK, RowTypeOK, RowType, HeadType, CommandTypeOK

LEMMA Generations ==
  /\ Gen0 \subseteq Nat /\ Gen = Gen0 \ {0}
BY MaxGenAssumption DEF Gen, Gen0

LEMMA HeadInvInit == Init => HeadInv
BY DEF Init, HeadInv, HeadMatchesIntents, PausesPassed, OneAnswer, Unsettled

\* The row keeps its head, and its intents move only while under way.
LEMMA HeadKept ==
  ASSUME TypeOK, HeadInv, run'.terminal = run.terminal, run'.gen \in Nat,
         run'.gen >= run.gen, UNCHANGED head, Underway,
         run.terminal => UNCHANGED intent
  PROVE  HeadInv'
<1>. USE HeadTypes, Generations DEF HeadInv
<1>1. \A p \in Gen : intent[p] \notin Unsettled => intent'[p] = intent[p]
  BY DEF Underway
<1>2. \A p \in Gen : intent'[p] \in Unsettled <=> intent[p] \in Unsettled
  BY DEF Underway
<1>3. \A p \in Gen : intent'[p] # "none" => intent[p] # "none"
  BY DEF Underway, Unsettled
<1>4. PausesPassed'
  BY <1>3 DEF PausesPassed
<1>5. OneAnswer'
  BY <1>1 DEF OneAnswer, Unsettled
<1>6. HeadMatchesIntents'
  BY <1>1, <1>2 DEF HeadMatchesIntents, OneAnswer, Unsettled
<1>. QED BY <1>4, <1>5, <1>6

\* After a consumed answer every intent is settled, and no untouched one was touched.
LEMMA HeadAnswered ==
  ASSUME TypeOK, HeadInv, NEW phase, NEW pause, ~run.terminal, Answered(phase, pause)
  PROVE  \A p \in Gen : /\ intent'[p] \in {"none", "reconciled"}
                        /\ intent'[p] = "none" <=> intent[p] = "none"
<1>. USE HeadTypes, Generations
<1>1. CASE head.cmd = 0
  <2>1. head.phase # "resuming"
    BY <1>1 DEF HeadInv, OneAnswer
  <2>2. \A p \in Gen : intent'[p] = intent[p]
    BY <1>1 DEF Answered
  <2>. QED BY <2>1, <2>2 DEF HeadInv, HeadMatchesIntents
<1>2. CASE head.cmd # 0
  <2>1. head.phase = "resuming"
    BY <1>2 DEF Answered, HeadInv, HeadMatchesIntents
  <2>. QED BY <1>2, <2>1 DEF Answered, HeadInv, OneAnswer
<1>. QED BY <1>1, <1>2

LEMMA HeadTerminal ==
  ASSUME TypeOK, HeadInv, ~run.terminal, NEW w, NEW g \in Nat, g >= run.gen,
         CommitTerminal(w, g)
  PROVE  HeadInv'
<1>. USE HeadTypes, Generations DEF HeadInv
<1>1. /\ run'.gen = g /\ run'.terminal
      /\ head' = [phase |-> "terminal", pause |-> head.pause, cmd |-> head.cmd]
      /\ \A p \in Gen : intent'[p] = IF intent[p] = "none" THEN "none" ELSE "terminal"
  BY DEF CommitTerminal, SettledIntents
<1>2. PausesPassed'
  BY <1>1 DEF PausesPassed
<1>3. OneAnswer'
  BY <1>1 DEF OneAnswer
<1>4. HeadMatchesIntents'
  BY <1>1 DEF HeadMatchesIntents, Unsettled
<1>. QED BY <1>2, <1>3, <1>4

LEMMA HeadInvStep ==
  ASSUME TypeOK, RowInv, HeadInv, RowStep
  PROVE  HeadInv'
<1>. USE RowGen, HeadTypes, Generations
<1>1. CASE Kept \/ Launched \/ Claimed \/ Aged \/ Renewed \/ Reclaimed
  <2>1. UNCHANGED head /\ Underway /\ (run.terminal => UNCHANGED intent)
    BY <1>1 DEF Kept, Launched, Claimed, Aged, Renewed, Reclaimed, RestOfRow, Underway
  <2>2. run'.terminal = run.terminal /\ run'.gen \in Nat /\ run'.gen >= run.gen
    BY <1>1 DEF Kept, Launched, Claimed, Aged, Renewed, Reclaimed, Grant
  <2>. QED BY <2>1, <2>2, HeadKept
<1>2. CASE Paused
  <2>1. ~run.terminal /\ run.gen > 0 /\ run'.terminal = run.terminal /\ run'.gen = run.gen
    BY <1>2, OwnerIsBorn DEF Paused, Release, RowInv
  <2>2. /\ head' = [phase |-> "waiting", pause |-> run.gen, cmd |-> head.cmd]
        /\ \A p \in Gen : /\ intent'[p] \in {"none", "reconciled"}
                          /\ intent'[p] = "none" <=> intent[p] = "none"
    <3>1. CASE head.phase = "active" /\ UNCHANGED intent
      BY <1>2, <3>1 DEF Paused, Answered, HeadInv, HeadMatchesIntents
    <3>2. CASE Answered("waiting", run.gen)
      BY <2>1, <3>2, HeadAnswered DEF Answered
    <3>. QED BY <1>2, <3>1, <3>2 DEF Paused
  <2>3. PausesPassed'
    BY <2>1, <2>2 DEF PausesPassed, HeadInv
  <2>4. intent'[run.gen] = "none"
    BY <2>1, <2>2 DEF PausesPassed, HeadInv
  <2>5. HeadMatchesIntents'
    BY <2>1, <2>2, <2>4 DEF HeadMatchesIntents, Unsettled
  <2>. QED BY <2>2, <2>3, <2>5 DEF HeadInv, OneAnswer
<1>3. CASE Activated
  <2>1. ~run.terminal /\ UNCHANGED run
    BY <1>3, OwnerIsBorn DEF Activated, RowInv
  <2>2. /\ head' = [phase |-> "active", pause |-> head.pause, cmd |-> head.cmd]
        /\ \A p \in Gen : /\ intent'[p] \in {"none", "reconciled"}
                          /\ intent'[p] = "none" <=> intent[p] = "none"
    BY <1>3, <2>1, HeadAnswered DEF Activated, Answered
  <2>3. PausesPassed'
    BY <2>1, <2>2 DEF PausesPassed, HeadInv
  <2>4. HeadMatchesIntents'
    BY <2>1, <2>2 DEF HeadMatchesIntents, Unsettled
  <2>. QED BY <2>2, <2>3, <2>4 DEF HeadInv, OneAnswer
<1>4. CASE Terminated
  <2>1. ~run.terminal
    BY <1>4 DEF Terminated, Active
  <2>. QED BY <1>4, <2>1, HeadTerminal DEF Terminated
<1>5. CASE Accepted
  <2>1. run'.gen = run.gen + 1 /\ run'.terminal = run.terminal /\ ~run.terminal
    BY <1>5 DEF Accepted, Grant
  <2>2. head.pause \in Gen
    BY <1>5 DEF Accepted, HeadInv, HeadMatchesIntents
  <2>3. /\ head' = [phase |-> "resuming", pause |-> head.pause, cmd |-> head.pause]
        /\ intent'[head.pause] = "accepted"
        /\ \A p \in Gen : p # head.pause => intent'[p] = intent[p]
    BY <1>5, <2>2 DEF Accepted
  <2>4. \A p \in Gen : intent[p] \in {"none", "reconciled"}
    BY <1>5 DEF Accepted, HeadInv, HeadMatchesIntents
  <2>5. PausesPassed'
    BY <2>1, <2>2, <2>3 DEF PausesPassed, HeadInv
  <2>6. OneAnswer'
    BY <2>2, <2>3, <2>4 DEF OneAnswer
  <2>7. HeadMatchesIntents'
    BY <1>5, <2>1, <2>2, <2>3, <2>4 DEF HeadMatchesIntents, HeadInv, Accepted, Unsettled
  <2>. QED BY <2>5, <2>6, <2>7 DEF HeadInv
<1>6. CASE Cancelled
  BY <1>6, HeadTerminal DEF Cancelled
<1>. QED BY <1>1, <1>2, <1>3, <1>4, <1>5, <1>6 DEF RowStep

LEMMA HeadInvariant == Spec => []HeadInv
<1>1. TypeOK /\ RowInv /\ HeadInv /\ [Next]_vars => HeadInv'
  BY NextRow, HeadInvStep
<1>. QED BY <1>1, HeadInvInit, RowInvariant, TypeCorrect, PTL DEF Spec

\* The head and the resume intents of a run are consistent at every moment, so the
\* interaction state can always be rebuilt from the row, whichever workers pause,
\* resume, reconcile, fail and cancel the run and however late they do so.
THEOREM HeadIsReadable == Spec => []HeadMatchesIntents
<1>1. HeadInv => HeadMatchesIntents
  BY DEF HeadInv
<1>. QED BY <1>1, HeadInvariant, PTL

-----------------------------------------------------------------------------
(* The row implements RunFence *)

LEMMA FenceInitMaps == Init => Fencing!FenceInit
BY DEF Init, Fencing!FenceInit, Mode

\* Every kind of row step is a step of the fence or leaves it alone.
LEMMA FenceStep ==
  ASSUME TypeOK, RowInv, RowStep
  PROVE  [Fencing!FenceNext]_(Fencing!fenceVars)
<1>. USE RowGen
<1>a. run' = run /\ author' = author => UNCHANGED Fencing!fenceVars
  BY DEF Fencing!fenceVars, Mode
<1>1. CASE Kept \/ Launched
  BY <1>a, <1>1 DEF Kept, Launched
<1>2. CASE Claimed
  <2>1. PICK w \in Worker : Grant(w, 1)
    BY <1>2 DEF Claimed
  <2>2. Mode = "absent" /\ Mode' = "held"
    BY <1>2, <2>1 DEF Claimed, Grant, Mode, RowInv, Unborn
  <2>3. Fencing!Open(w)
    BY <1>2, <2>1, <2>2 DEF Claimed, Grant, Fencing!Open
  <2>. QED BY <2>3 DEF Fencing!FenceNext
<1>3. CASE Aged \/ Renewed
  <2>1. run.gen > 0 /\ run.expiry # "null" /\ run'.expiry # "null"
    BY <1>3, OwnerIsBorn DEF Aged, Renewed, RowInv, Unborn, ByOwner
  <2>2. Mode' = Mode /\ run'.gen = run.gen /\ run'.owner = run.owner /\ author' = author
    BY <1>3, <2>1 DEF Aged, Renewed, RestOfRow, Mode
  <2>. QED BY <2>2 DEF Fencing!fenceVars
<1>4. CASE Reclaimed
  <2>1. PICK w \in Worker : Grant(w, run.gen + 1)
    BY <1>4 DEF Reclaimed
  <2>2. Mode = "held" /\ Mode' = "held"
    BY <1>4, <2>1 DEF Reclaimed, Grant, Mode, RowInv, Unborn
  <2>3. Fencing!Replace(w)
    BY <1>4, <2>1, <2>2 DEF Reclaimed, RestOfRow, Grant, Fencing!Replace
  <2>. QED BY <2>3 DEF Fencing!FenceNext
<1>5. CASE Paused \/ Activated \/ Terminated
  <2>1. ByOwner
    BY <1>5 DEF Paused, Activated, Terminated, ByOwner
  <2>2. run.gen > 0 /\ Mode = "held"
    BY <2>1, OwnerIsBorn DEF RowInv, Mode
  <2>3. author' = run.gen /\ run'.gen = run.gen /\ run'.owner = run.owner
    BY <1>5 DEF Paused, Activated, Terminated, Release, CommitTerminal, Active, Fence
  <2>4. Mode' \in {"held", "parked", "closed"}
    BY <2>2, <2>3 DEF Mode
  <2>5. Fencing!Commit(Mode')
    BY <2>2, <2>3, <2>4 DEF Fencing!Commit
  <2>. QED BY <2>4, <2>5 DEF Fencing!FenceNext
<1>6. CASE Accepted
  <2>1. PICK w \in Worker : Grant(w, run.gen + 1)
    BY <1>6 DEF Accepted
  <2>2. Mode = "parked" /\ Mode' = "held"
    BY <1>6, <2>1 DEF Accepted, Grant, Mode, RowInv, Unborn
  <2>3. Fencing!TakeOver(w, "held")
    BY <1>6, <2>1, <2>2 DEF Accepted, Grant, Fencing!TakeOver
  <2>. QED BY <2>3 DEF Fencing!FenceNext
<1>7. CASE Cancelled
  <2>1. PICK w \in Worker : CommitTerminal(w, run.gen + 1)
    BY <1>7 DEF Cancelled
  <2>2. Mode \in {"held", "parked"} /\ Mode' = "closed"
    BY <1>7, <2>1 DEF Cancelled, CommitTerminal, Mode, RowInv, Unborn
  <2>3. Fencing!TakeOver(w, "closed")
    BY <2>1, <2>2 DEF CommitTerminal, Fencing!TakeOver
  <2>. QED BY <2>3 DEF Fencing!FenceNext
<1>. QED BY <1>1, <1>2, <1>3, <1>4, <1>5, <1>6, <1>7 DEF RowStep

\* The lease row of the service implements the abstract fence: a durable commit is
\* made by the holder of the epoch in force, and every change of holder is a new
\* epoch, for any number of workers, crashes and expiries.
THEOREM FenceImplemented == Spec => ImplementsRunFence
<1>1. TypeOK /\ RowInv /\ [Next]_vars => [Fencing!FenceNext]_(Fencing!fenceVars)
  BY NextRow, FenceStep
<1>. QED BY <1>1, FenceInitMaps, RowInvariant, TypeCorrect, PTL
     DEF Spec, ImplementsRunFence, Fencing!FenceSpec

\* Before the first epoch nothing is open, so nothing can be committed.
FenceInv ==
  /\ Fencing!FenceTypeOK
  /\ Fencing!CommitsAreCurrent
  /\ Mode = "absent" => author = 0

LEMMA FenceInvInit == Fencing!FenceInit => FenceInv
BY DEF Fencing!FenceInit, FenceInv, Fencing!FenceTypeOK, Fencing!CommitsAreCurrent

LEMMA FenceInvStep ==
  ASSUME FenceInv, [Fencing!FenceNext]_(Fencing!fenceVars)
  PROVE  FenceInv'
<1>. USE DEF FenceInv, Fencing!FenceTypeOK, Fencing!CommitsAreCurrent
<1>1. CASE UNCHANGED Fencing!fenceVars
  BY <1>1 DEF Fencing!fenceVars
<1>2. ASSUME NEW w \in Worker, Fencing!Open(w) PROVE FenceInv'
  BY <1>2 DEF Fencing!Open
<1>3. ASSUME NEW w \in Worker, Fencing!Replace(w) PROVE FenceInv'
  BY <1>3 DEF Fencing!Replace
<1>4. ASSUME NEW next \in {"held", "parked", "closed"}, Fencing!Commit(next) PROVE FenceInv'
  BY <1>4 DEF Fencing!Commit
<1>5. ASSUME NEW w \in Worker, NEW next \in {"held", "parked", "closed"},
             Fencing!TakeOver(w, next)
      PROVE  FenceInv'
  BY <1>5 DEF Fencing!TakeOver
<1>. QED BY <1>1, <1>2, <1>3, <1>4, <1>5 DEF Fencing!FenceNext

\* What the fence promises to whoever implements it, and so of the lease row: no
\* commit is attributed to a generation that has not begun, and the generation of a
\* parked or terminal row is the one that parked or ended the run, the attribution
\* the recovery code relies on.
THEOREM FenceIsCurrent ==
  /\ Fencing!FenceSpec => []Fencing!CommitsAreCurrent
  /\ Spec => []Fencing!CommitsAreCurrent
<1>1. FenceInv => Fencing!CommitsAreCurrent
  BY DEF FenceInv
<1>2. FenceInv /\ [Fencing!FenceNext]_(Fencing!fenceVars) => FenceInv'
  BY FenceInvStep
<1>3. Fencing!FenceSpec => []Fencing!CommitsAreCurrent
  BY <1>1, <1>2, FenceInvInit, PTL DEF Fencing!FenceSpec
<1>. QED BY <1>3, FenceImplemented, PTL DEF ImplementsRunFence
=============================================================================
