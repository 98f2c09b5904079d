------------------------ MODULE RunLifecycleProofs ------------------------
(***************************************************************************)
(* Type correctness of RunLifecycle and the one holder of a generation, for *)
(* every set of workers and every bound.  The first lemmas say what the     *)
(* helpers of the model write; then one lemma per action shows that it      *)
(* preserves TypeOK, part by part.                                          *)
(***************************************************************************)
EXTENDS RunLifecycle, TLAPS

\* Constants of the model and where they belong.
LEMMA Literals ==
  /\ 0 \in Gen0 /\ 1 \in Gen0 /\ Gen \subseteq Gen0
  /\ "serve" \in Coroutine /\ "beat" \in Coroutine /\ "ctl" \in Coroutine
BY MaxGenAssumption, SMT DEF Gen, Gen0, Coroutine

\* The generation of the next authority stays in range while the run is open.
LEMMA NextGenerationType ==
  ASSUME RowTypeOK, ~run.terminal
  PROVE  /\ NextGeneration \in Gen0
         /\ run.gen < MaxGen => NextGeneration <= MaxGen
BY MaxGenAssumption, SMT DEF RowTypeOK, RowType, NextGeneration, Gen, Gen0

\* Fields of the durable records.
LEMMA RowFields ==
  ASSUME RowTypeOK
  PROVE  run.gen \in Gen0 /\ head.pause \in Gen0 /\ head.cmd \in Gen0
BY SMT DEF RowTypeOK, RowType, HeadType

\* Writing a well-typed coroutine record keeps the coroutines well typed.
LEMMA CoUpdate ==
  ASSUME CoTypeOK,
         NEW w \in Worker, NEW c \in Coroutine, NEW r \in CoState,
         co' = [co EXCEPT ![w][c] = r]
  PROVE  CoTypeOK'
BY SMT DEF CoTypeOK

\* A coroutine goes on.
LEMMA GotoType ==
  ASSUME CoTypeOK,
         NEW w \in Worker, NEW c \in Coroutine, NEW pc \in CoPC, NEW g \in Gen0,
         Goto(w, c, pc, g)
  PROVE  CoTypeOK'
BY SMT DEF Goto, CoTypeOK, CoState

\* The idle coroutine.
LEMMA IdleType == Idle \in CoState
BY MaxGenAssumption, SMT DEF CoState, CoPC, Idle, Gen0

\* A coroutine returns to its pass or dies.
LEMMA ReturnType ==
  ASSUME CoTypeOK,
         NEW w \in Worker, NEW c \in Coroutine,
         Return(w, c) \/ Raise(w, c)
  PROVE  CoTypeOK'
<1>1. co[w][c].then \in CoPC
  BY SMT DEF CoTypeOK, CoState, CoPC
<1>3. [Idle EXCEPT !.pc = co[w][c].then] \in CoState
  BY <1>1, IdleType, SMT DEF CoState
<1>. QED BY <1>3, IdleType, CoUpdate DEF Return, Raise

\* What a coroutine carries.
LEMMA CoFields ==
  ASSUME CoTypeOK, NEW w \in Worker, NEW c \in Coroutine
  PROVE  /\ CoGen(w, c) \in Gen0
         /\ CoCmd(w, c) \in Gen0
BY SMT DEF CoTypeOK, CoState, CoGen, CoCmd

\* The three answers of the native thread.
LEMMA EvidenceType ==
  ASSUME NEW g
  PROVE  Evidence(g) \in {"rec_wait", "rec_act", "rec_unk"}
BY DEF Evidence

\* A change of the expiry alone keeps owner, generation and terminal flag.
LEMMA ExpiryType ==
  ASSUME RowTypeOK, NEW e \in {"null", "live", "edge", "past"},
         run' = [run EXCEPT !.expiry = e]
  PROVE  /\ run' \in RowType
         /\ run'.gen = run.gen /\ run'.owner = run.owner
         /\ run'.terminal = run.terminal
BY SMT DEF RowTypeOK, RowType

\* A grant installs exactly the owner and generation it was given.
LEMMA GrantType ==
  ASSUME RowTypeOK, NEW w \in Worker, NEW g \in Gen0, Grant(w, g)
  PROVE  /\ run' \in RowType
         /\ run'.gen = g /\ run'.owner = w
         /\ run'.terminal = run.terminal
BY SMT DEF RowTypeOK, RowType, Grant

\* A status written to one resume intent.
LEMMA IntentType ==
  ASSUME CommandTypeOK, NEW p \in Gen0, NEW s \in IntentStatus,
         intent' = [intent EXCEPT ![p] = s]
  PROVE  intent' \in [Gen -> IntentStatus]
BY Zenon DEF CommandTypeOK

\* A terminal commit closes the row under the generation it was given.
LEMMA CommitTerminalType ==
  ASSUME RowTypeOK, CommandTypeOK, NEW w \in Worker, NEW g \in Gen0,
         CommitTerminal(w, g)
  PROVE  /\ run' \in RowType
         /\ run'.gen = g /\ run'.owner = w /\ run'.terminal
         /\ head' \in HeadType
         /\ author' \in Gen0
         /\ intent' \in [Gen -> IntentStatus]
<1>1. run' \in RowType /\ run'.gen = g /\ run'.owner = w /\ run'.terminal
  BY SMT DEF CommitTerminal, RowType
<1>2. head' \in HeadType /\ author' \in Gen0
  BY SMT DEF RowTypeOK, CommitTerminal, HeadType
<1>3. intent' \in [Gen -> IntentStatus]
  BY SMT DEF CommandTypeOK, CommitTerminal, SettledIntents, IntentStatus
<1>. QED BY <1>1, <1>2, <1>3

\* Reconciling changes neither owner nor generation.
LEMMA ReconcileType ==
  ASSUME RowTypeOK, CommandTypeOK, NEW w \in Worker, NEW g \in Gen0, NEW p \in Gen0,
         NEW phase, Reconcile(w, g, p, phase)
  PROVE  /\ run' \in RowType
         /\ run'.gen = run.gen /\ run'.owner = run.owner
         /\ run'.terminal = run.terminal
         /\ head' \in HeadType
         /\ author' \in Gen0
         /\ intent' \in [Gen -> IntentStatus]
<1>1. intent' \in [Gen -> IntentStatus]
  <2>1. "reconciled" \in IntentStatus
    BY SMT DEF IntentStatus
  <2>. QED BY <2>1, IntentType DEF Reconcile
<1>2. head' \in HeadType /\ author' \in Gen0
  BY SMT DEF RowTypeOK, Reconcile, HeadType
<1>3. /\ run' \in RowType
      /\ run'.gen = run.gen /\ run'.owner = run.owner
      /\ run'.terminal = run.terminal
  BY ExpiryType, SMT DEF Reconcile, Release, RowTypeOK
<1>. QED BY <1>1, <1>2, <1>3

\* Observations and unknown evidence only move the intent.
LEMMA ObserveType ==
  ASSUME CommandTypeOK, NEW w, NEW g, NEW p \in Gen0,
         Observe(w, g, p) \/ ReconcileUnknown(w, g, p)
  PROVE  intent' \in [Gen -> IntentStatus]
<1>1. {"native_observed", "unknown"} \subseteq IntentStatus
  BY SMT DEF IntentStatus, Unsettled
<1>. QED BY <1>1, IntentType, SMT DEF Observe, ReconcileUnknown, CommandTypeOK

\* Closing a command.
LEMMA CloseCommandType ==
  ASSUME CommandTypeOK, NEW w, NEW c, CoCmd(w, c) \in Gen0, CloseCommand(w, c)
  PROVE  rcmd' \in [Gen -> {"none", "admitted", "persisted", "done"}]
<1>1. [rcmd EXCEPT ![CoCmd(w, c)] = "done"]
        \in [Gen -> {"none", "admitted", "persisted", "done"}]
  BY Zenon DEF CommandTypeOK
<1>. QED BY <1>1, Zenon DEF CommandTypeOK, CloseCommand

\* A status written to one resume command.
LEMMA CommandUpdate ==
  ASSUME CommandTypeOK, NEW p, NEW s \in {"none", "admitted", "persisted", "done"}
  PROVE  [rcmd EXCEPT ![p] = s] \in [Gen -> {"none", "admitted", "persisted", "done"}]
BY Zenon DEF CommandTypeOK

\* A task that goes on or is spawned.
LEMMA TaskUpdate ==
  ASSUME TaskTypeOK, NEW w \in Worker, NEW g \in Gen0, NEW pc \in TaskPC,
         ToTask(w, g, pc) \/ Spawn(w, g, pc)
  PROVE  /\ task' \in [Worker -> [Gen -> TaskPC]]
         /\ reg' \in [Worker -> Gen0]
<1>1. [task[w] EXCEPT ![g] = pc] \in [Gen -> TaskPC]
  <2>1. task[w] \in [Gen -> TaskPC]
    BY DEF TaskTypeOK
  <2>. QED BY <2>1, Zenon
<1>2. [task EXCEPT ![w][g] = pc] \in [Worker -> [Gen -> TaskPC]]
  BY <1>1, Zenon DEF TaskTypeOK
<1>3. [reg EXCEPT ![w] = g] \in [Worker -> Gen0]
  BY SMT DEF TaskTypeOK
<1>. QED BY <1>2, <1>3 DEF TaskTypeOK, ToTask, Spawn

\* A task that ends.
LEMMA EndTaskType ==
  ASSUME TaskTypeOK, NEW w \in Worker, NEW g \in Gen, EndTask(w, g)
  PROVE  /\ task' \in [Worker -> [Gen -> TaskPC]]
         /\ reg' \in [Worker -> Gen0]
<1>1. "none" \in TaskPC
  BY DEF TaskPC
<1>. QED BY <1>1, Literals, SMT DEF TaskTypeOK, EndTask, Unregister

\* The registered task is cancelled.
LEMMA CancelRegisteredType ==
  ASSUME TaskTypeOK, NEW w \in Worker, CancelRegistered(w)
  PROVE  /\ task' \in [Worker -> [Gen -> TaskPC]]
         /\ reg' \in [Worker -> Gen0]
<1>1. reg' \in [Worker -> Gen0]
  BY Literals, SMT DEF TaskTypeOK, CancelRegistered
<1>2. [g \in Gen |-> IF g = reg[w] THEN "none" ELSE task[w][g]] \in [Gen -> TaskPC]
  BY SMT DEF TaskTypeOK, TaskPC
<1>3. task' \in [Worker -> [Gen -> TaskPC]]
  BY <1>2, SMT DEF TaskTypeOK, CancelRegistered
<1>. QED BY <1>1, <1>3

\* The cached lease is dropped.
LEMMA DropLeaseType ==
  ASSUME TaskTypeOK, NEW w, DropLease(w)
  PROVE  leases' \in [Worker -> Gen0]
BY Literals, Zenon DEF TaskTypeOK, DropLease

\* The cached lease is released by its generation.
LEMMA ReleaseLeaseType ==
  ASSUME TaskTypeOK, NEW w \in Worker, NEW g, ReleaseLease(w, g)
  PROVE  leases' \in [Worker -> Gen0]
BY Literals, SMT DEF TaskTypeOK, ReleaseLease

\* A coroutine record built field by field.
LEMMA CoRecord ==
  ASSUME NEW pc \in CoPC, NEW g \in Gen0, NEW p \in Gen0, NEW t \in {"idle", "sweep"}
  PROVE  [pc |-> pc, gen |-> g, cmd |-> p, then |-> t] \in CoState
BY SMT DEF CoState

-----------------------------------------------------------------------------
(* One lemma per action *)

\* Launch keeps every part well typed.
LEMMA LaunchType ==
  ASSUME TypeOK, Launch
  PROVE  TypeOK'
<1>0. RowTypeOK /\ CommandTypeOK /\ TaskTypeOK /\ CoTypeOK /\ HistoryTypeOK
  BY DEF TypeOK
<1>1. RowTypeOK'
  BY <1>0, SMT DEF Launch, RowTypeOK
<1>2. (CommandTypeOK /\ TaskTypeOK /\ CoTypeOK /\ HistoryTypeOK)'
  BY <1>0, SMT DEF Launch, CommandTypeOK, TaskTypeOK, CoTypeOK, HistoryTypeOK,
     localVars, histVars
<1>. QED BY <1>1, <1>2 DEF TypeOK

\* SubmitResume keeps every part well typed.
LEMMA SubmitResumeType ==
  ASSUME TypeOK, SubmitResume
  PROVE  TypeOK'
<1>0. RowTypeOK /\ CommandTypeOK /\ TaskTypeOK /\ CoTypeOK /\ HistoryTypeOK
  BY DEF TypeOK
<1>1. CommandTypeOK'
  BY <1>0, CommandUpdate, SMT DEF SubmitResume, CommandTypeOK
<1>2. (RowTypeOK /\ TaskTypeOK /\ CoTypeOK /\ HistoryTypeOK)'
  BY <1>0, SMT DEF SubmitResume, RowTypeOK, TaskTypeOK, CoTypeOK, HistoryTypeOK,
     localVars, histVars
<1>. QED BY <1>1, <1>2 DEF TypeOK

\* SubmitCancel keeps every part well typed.
LEMMA SubmitCancelType ==
  ASSUME TypeOK, SubmitCancel
  PROVE  TypeOK'
<1>0. RowTypeOK /\ CommandTypeOK /\ TaskTypeOK /\ CoTypeOK /\ HistoryTypeOK
  BY DEF TypeOK
<1>1. CommandTypeOK'
  BY <1>0, SMT DEF SubmitCancel, CommandTypeOK
<1>2. (RowTypeOK /\ TaskTypeOK /\ CoTypeOK /\ HistoryTypeOK)'
  BY <1>0, SMT DEF SubmitCancel, RowTypeOK, TaskTypeOK, CoTypeOK, HistoryTypeOK,
     localVars, histVars
<1>. QED BY <1>1, <1>2 DEF TypeOK

\* Age keeps every part well typed.
LEMMA AgeType ==
  ASSUME TypeOK, Age
  PROVE  TypeOK'
<1>0. RowTypeOK /\ CommandTypeOK /\ TaskTypeOK /\ CoTypeOK /\ HistoryTypeOK
  BY DEF TypeOK
<1>1. RowTypeOK'
  BY <1>0, ExpiryType, SMT DEF Age, RowTypeOK
<1>2. (CommandTypeOK /\ TaskTypeOK /\ CoTypeOK /\ HistoryTypeOK)'
  BY <1>0, SMT DEF Age, CommandTypeOK, TaskTypeOK, CoTypeOK, HistoryTypeOK,
     localVars, histVars
<1>. QED BY <1>1, <1>2 DEF TypeOK

\* Rest keeps every part well typed.
LEMMA RestType ==
  ASSUME TypeOK, Rest
  PROVE  TypeOK'
<1>0. RowTypeOK /\ CommandTypeOK /\ TaskTypeOK /\ CoTypeOK /\ HistoryTypeOK
  BY DEF TypeOK
<1>1. (RowTypeOK /\ CommandTypeOK /\ TaskTypeOK /\ CoTypeOK /\ HistoryTypeOK)'
  BY <1>0, SMT DEF Rest, RowTypeOK, CommandTypeOK, TaskTypeOK, CoTypeOK,
     HistoryTypeOK, vars
<1>. QED BY <1>1 DEF TypeOK

\* Crash keeps every part well typed.
LEMMA CrashType ==
  ASSUME TypeOK, NEW w \in Worker, Crash(w)
  PROVE  TypeOK'
<1>0. RowTypeOK /\ CommandTypeOK /\ TaskTypeOK /\ CoTypeOK /\ HistoryTypeOK
  BY DEF TypeOK
<1>1. TaskTypeOK'
  BY <1>0, Literals, SMT DEF Crash, TaskTypeOK, TaskPC
<1>2. CoTypeOK'
  BY <1>0, IdleType, SMT DEF Crash, CoTypeOK
<1>3. HistoryTypeOK'
  BY <1>0, MaxFaultAssumption, SMT DEF Crash, histVars, HistoryTypeOK
<1>4. (RowTypeOK /\ CommandTypeOK)'
  BY <1>0, SMT DEF Crash, RowTypeOK, CommandTypeOK, dbVars
<1>. QED BY <1>1, <1>2, <1>3, <1>4 DEF TypeOK

\* ReceiveDispatch keeps every part well typed.
LEMMA ReceiveDispatchType ==
  ASSUME TypeOK, NEW w \in Worker, ReceiveDispatch(w)
  PROVE  TypeOK'
<1>0. RowTypeOK /\ CommandTypeOK /\ TaskTypeOK /\ CoTypeOK /\ HistoryTypeOK
  BY DEF TypeOK
<1>1. CoTypeOK'
  BY <1>0, Literals, GotoType, SMT DEF ReceiveDispatch, CoPC
<1>2. (RowTypeOK /\ CommandTypeOK /\ TaskTypeOK /\ HistoryTypeOK)'
  BY <1>0, SMT DEF ReceiveDispatch, RowTypeOK, CommandTypeOK, TaskTypeOK,
     HistoryTypeOK, dbVars, histVars
<1>. QED BY <1>1, <1>2 DEF TypeOK

\* ClaimWin keeps every part well typed.
LEMMA ClaimWinType ==
  ASSUME TypeOK, NEW w \in Worker, ClaimWin(w)
  PROVE  TypeOK'
<1>0. RowTypeOK /\ CommandTypeOK /\ TaskTypeOK /\ CoTypeOK /\ HistoryTypeOK
  BY DEF TypeOK
<1>1. RowTypeOK'
  BY <1>0, Literals, GrantType, MaxGenAssumption, SMT DEF ClaimWin, RowTypeOK
<1>2. TaskTypeOK'
  BY <1>0, Literals, SMT DEF ClaimWin, TaskTypeOK
<1>3. CoTypeOK'
  BY <1>0, Literals, GotoType, SMT DEF ClaimWin, CoPC
<1>4. (CommandTypeOK /\ HistoryTypeOK)'
  BY <1>0, SMT DEF ClaimWin, CommandTypeOK, HistoryTypeOK, histVars
<1>. QED BY <1>1, <1>2, <1>3, <1>4 DEF TypeOK

\* ClaimLose keeps every part well typed.
LEMMA ClaimLoseType ==
  ASSUME TypeOK, NEW w \in Worker, ClaimLose(w)
  PROVE  TypeOK'
<1>0. RowTypeOK /\ CommandTypeOK /\ TaskTypeOK /\ CoTypeOK /\ HistoryTypeOK
  BY DEF TypeOK
<1>1. CoTypeOK'
  BY <1>0, Literals, ReturnType, SMT DEF ClaimLose
<1>2. (RowTypeOK /\ CommandTypeOK /\ TaskTypeOK /\ HistoryTypeOK)'
  BY <1>0, SMT DEF ClaimLose, RowTypeOK, CommandTypeOK, TaskTypeOK, HistoryTypeOK,
     dbVars, histVars
<1>. QED BY <1>1, <1>2 DEF TypeOK

\* BeatRenew keeps every part well typed.
LEMMA BeatRenewType ==
  ASSUME TypeOK, NEW w \in Worker, BeatRenew(w)
  PROVE  TypeOK'
<1>0. RowTypeOK /\ CommandTypeOK /\ TaskTypeOK /\ CoTypeOK /\ HistoryTypeOK
  BY DEF TypeOK
<1>1. RowTypeOK'
  BY <1>0, ExpiryType, SMT DEF BeatRenew, RowTypeOK
<1>2. CoTypeOK'
  BY <1>0, Literals, GotoType, SMT DEF BeatRenew, CoPC, TaskTypeOK
<1>3. (CommandTypeOK /\ TaskTypeOK /\ HistoryTypeOK)'
  BY <1>0, SMT DEF BeatRenew, CommandTypeOK, TaskTypeOK, HistoryTypeOK, histVars
<1>. QED BY <1>1, <1>2, <1>3 DEF TypeOK

\* BeatYield keeps every part well typed.
LEMMA BeatYieldType ==
  ASSUME TypeOK, NEW w \in Worker, BeatYield(w)
  PROVE  TypeOK'
<1>0. RowTypeOK /\ CommandTypeOK /\ TaskTypeOK /\ CoTypeOK /\ HistoryTypeOK
  BY DEF TypeOK
<1>1. TaskTypeOK'
  BY <1>0, CancelRegisteredType, ReleaseLeaseType, SMT DEF BeatYield, TaskTypeOK
<1>2. CoTypeOK'
  BY <1>0, Literals, GotoType, SMT DEF BeatYield, CoPC
<1>3. (RowTypeOK /\ CommandTypeOK /\ HistoryTypeOK)'
  BY <1>0, SMT DEF BeatYield, RowTypeOK, CommandTypeOK, HistoryTypeOK, dbVars,
     histVars
<1>. QED BY <1>1, <1>2, <1>3 DEF TypeOK

\* BeatReclaim keeps every part well typed.
LEMMA BeatReclaimType ==
  ASSUME TypeOK, NEW w \in Worker, BeatReclaim(w)
  PROVE  TypeOK'
<1>0. RowTypeOK /\ CommandTypeOK /\ TaskTypeOK /\ CoTypeOK /\ HistoryTypeOK
  BY DEF TypeOK
<1>1. RowTypeOK'
  BY <1>0, NextGenerationType, GrantType, SMT DEF BeatReclaim, Reclaimable,
     RowTypeOK
<1>2. CoTypeOK'
  BY <1>0, Literals, NextGenerationType, GotoType, SMT DEF BeatReclaim,
     Reclaimable, CoPC
<1>3. (CommandTypeOK /\ TaskTypeOK /\ HistoryTypeOK)'
  BY <1>0, SMT DEF BeatReclaim, CommandTypeOK, TaskTypeOK, HistoryTypeOK, histVars
<1>. QED BY <1>1, <1>2, <1>3 DEF TypeOK

\* BeatTakeOver keeps every part well typed.
LEMMA BeatTakeOverType ==
  ASSUME TypeOK, NEW w \in Worker, BeatTakeOver(w)
  PROVE  TypeOK'
<1>0. RowTypeOK /\ CommandTypeOK /\ TaskTypeOK /\ CoTypeOK /\ HistoryTypeOK
  BY DEF TypeOK
<1>1. TaskTypeOK'
  BY <1>0, Literals, CancelRegisteredType, CoFields, SMT DEF BeatTakeOver,
     TaskTypeOK
<1>2. CoTypeOK'
  <2>1. CoGen(w, "beat") \in Gen0
    BY <1>0, CoFields, Literals
  <2>2. "build" \in CoPC /\ "sweep" \in CoPC
    BY DEF CoPC
  <2>3. [pc |-> "build", gen |-> CoGen(w, "beat"), cmd |-> 0, then |-> "sweep"] \in CoState
    BY <2>1, <2>2, CoRecord, Literals
  <2>4. [Idle EXCEPT !.pc = "sweep"] \in CoState
    BY <2>2, IdleType, SMT DEF CoState
  <2>. QED BY <1>0, <2>3, <2>4, CoUpdate, Literals DEF BeatTakeOver
<1>3. (RowTypeOK /\ CommandTypeOK /\ HistoryTypeOK)'
  BY <1>0, SMT DEF BeatTakeOver, RowTypeOK, CommandTypeOK, HistoryTypeOK, dbVars,
     histVars
<1>. QED BY <1>1, <1>2, <1>3 DEF TypeOK

\* BeatRest keeps every part well typed.
LEMMA BeatRestType ==
  ASSUME TypeOK, NEW w \in Worker, BeatRest(w)
  PROVE  TypeOK'
<1>0. RowTypeOK /\ CommandTypeOK /\ TaskTypeOK /\ CoTypeOK /\ HistoryTypeOK
  BY DEF TypeOK
<1>1. CoTypeOK'
  BY <1>0, Literals, ReturnType, SMT DEF BeatRest
<1>2. (RowTypeOK /\ CommandTypeOK /\ TaskTypeOK /\ HistoryTypeOK)'
  BY <1>0, SMT DEF BeatRest, RowTypeOK, CommandTypeOK, TaskTypeOK, HistoryTypeOK,
     dbVars, histVars
<1>. QED BY <1>1, <1>2 DEF TypeOK

\* BuildOk keeps every part well typed.
LEMMA BuildOkType ==
  ASSUME TypeOK, NEW w \in Worker, NEW c \in Coroutine, BuildOk(w, c)
  PROVE  TypeOK'
<1>0. RowTypeOK /\ CommandTypeOK /\ TaskTypeOK /\ CoTypeOK /\ HistoryTypeOK
  BY DEF TypeOK
<1>1. CoTypeOK'
  BY <1>0, GotoType, CoFields, SMT DEF BuildOk, CoPC
<1>2. (RowTypeOK /\ CommandTypeOK /\ TaskTypeOK /\ HistoryTypeOK)'
  BY <1>0, SMT DEF BuildOk, RowTypeOK, CommandTypeOK, TaskTypeOK, HistoryTypeOK,
     dbVars, histVars
<1>. QED BY <1>1, <1>2 DEF TypeOK

\* BuildFail keeps every part well typed.
LEMMA BuildFailType ==
  ASSUME TypeOK, NEW w \in Worker, NEW c \in Coroutine, BuildFail(w, c)
  PROVE  TypeOK'
<1>0. RowTypeOK /\ CommandTypeOK /\ TaskTypeOK /\ CoTypeOK /\ HistoryTypeOK
  BY DEF TypeOK
<1>1. RowTypeOK'
  BY <1>0, CommitTerminalType, CoFields, SMT DEF BuildFail, RowTypeOK
<1>2. CommandTypeOK'
  BY <1>0, CommitTerminalType, CloseCommandType, CoFields, SMT DEF BuildFail,
     CommandTypeOK
<1>3. TaskTypeOK'
  BY <1>0, DropLeaseType, SMT DEF BuildFail, TaskTypeOK
<1>4. CoTypeOK'
  BY <1>0, ReturnType, SMT DEF BuildFail
<1>5. (HistoryTypeOK)'
  BY <1>0, SMT DEF BuildFail, HistoryTypeOK, histVars
<1>. QED BY <1>1, <1>2, <1>3, <1>4, <1>5 DEF TypeOK

\* StartSpawn keeps every part well typed.
LEMMA StartSpawnType ==
  ASSUME TypeOK, NEW w \in Worker, NEW c \in Coroutine, StartSpawn(w, c)
  PROVE  TypeOK'
<1>0. RowTypeOK /\ CommandTypeOK /\ TaskTypeOK /\ CoTypeOK /\ HistoryTypeOK
  BY DEF TypeOK
<1>1. TaskTypeOK'
  BY <1>0, TaskUpdate, SMT DEF StartSpawn, TaskTypeOK, TaskPC
<1>2. CoTypeOK'
  BY <1>0, ReturnType, SMT DEF StartSpawn
<1>3. (RowTypeOK /\ CommandTypeOK /\ HistoryTypeOK)'
  BY <1>0, SMT DEF StartSpawn, RowTypeOK, CommandTypeOK, HistoryTypeOK, dbVars,
     histVars
<1>. QED BY <1>1, <1>2, <1>3 DEF TypeOK

\* StartStale keeps every part well typed.
LEMMA StartStaleType ==
  ASSUME TypeOK, NEW w \in Worker, NEW c \in Coroutine, StartStale(w, c)
  PROVE  TypeOK'
<1>0. RowTypeOK /\ CommandTypeOK /\ TaskTypeOK /\ CoTypeOK /\ HistoryTypeOK
  BY DEF TypeOK
<1>1. CoTypeOK'
  BY <1>0, ReturnType, SMT DEF StartStale
<1>2. (RowTypeOK /\ CommandTypeOK /\ TaskTypeOK /\ HistoryTypeOK)'
  BY <1>0, SMT DEF StartStale, RowTypeOK, CommandTypeOK, TaskTypeOK,
     HistoryTypeOK, dbVars, histVars
<1>. QED BY <1>1, <1>2 DEF TypeOK

\* StartUnattributed keeps every part well typed.
LEMMA StartUnattributedType ==
  ASSUME TypeOK, NEW w \in Worker, NEW c \in Coroutine, StartUnattributed(w, c)
  PROVE  TypeOK'
<1>0. RowTypeOK /\ CommandTypeOK /\ TaskTypeOK /\ CoTypeOK /\ HistoryTypeOK
  BY DEF TypeOK
<1>1. CoTypeOK'
  BY <1>0, ReturnType, SMT DEF StartUnattributed
<1>2. (RowTypeOK /\ CommandTypeOK /\ TaskTypeOK /\ HistoryTypeOK)'
  BY <1>0, SMT DEF StartUnattributed, RowTypeOK, CommandTypeOK, TaskTypeOK,
     HistoryTypeOK, dbVars, histVars
<1>. QED BY <1>1, <1>2 DEF TypeOK

\* Accept keeps every part well typed.
LEMMA AcceptType ==
  ASSUME TypeOK, NEW w \in Worker, NEW c \in Coroutine, Accept(w, c)
  PROVE  TypeOK'
<1>0. RowTypeOK /\ CommandTypeOK /\ TaskTypeOK /\ CoTypeOK /\ HistoryTypeOK
  BY DEF TypeOK
<1>1. RowTypeOK'
  BY <1>0, NextGenerationType, GrantType, SMT DEF Accept, RowTypeOK, HeadType
<1>2. CommandTypeOK'
  <2>1. CoCmd(w, c) \in Gen0 /\ "accepted" \in IntentStatus
    BY <1>0, CoFields DEF IntentStatus, Unsettled
  <2>2. intent' \in [Gen -> IntentStatus]
    BY <1>0, <2>1, IntentType DEF Accept
  <2>. QED BY <1>0, <2>2 DEF CommandTypeOK, Accept
<1>3. CoTypeOK'
  BY <1>0, NextGenerationType, GotoType, SMT DEF Accept, CoPC
<1>4. (TaskTypeOK /\ HistoryTypeOK)'
  BY <1>0, SMT DEF Accept, TaskTypeOK, HistoryTypeOK, histVars
<1>. QED BY <1>1, <1>2, <1>3, <1>4 DEF TypeOK

\* Adopt keeps every part well typed.
LEMMA AdoptType ==
  ASSUME TypeOK, NEW w \in Worker, NEW c \in Coroutine, Adopt(w, c)
  PROVE  TypeOK'
<1>0. RowTypeOK /\ CommandTypeOK /\ TaskTypeOK /\ CoTypeOK /\ HistoryTypeOK
  BY DEF TypeOK
<1>1. TaskTypeOK'
  BY <1>0, CoFields, SMT DEF Adopt, TaskTypeOK
<1>2. CoTypeOK'
  BY <1>0, GotoType, CoFields, SMT DEF Adopt, CoPC
<1>3. (RowTypeOK /\ CommandTypeOK /\ HistoryTypeOK)'
  BY <1>0, SMT DEF Adopt, RowTypeOK, CommandTypeOK, HistoryTypeOK, dbVars,
     histVars
<1>. QED BY <1>1, <1>2, <1>3 DEF TypeOK

\* Rejoin keeps every part well typed.
LEMMA RejoinType ==
  ASSUME TypeOK, NEW w \in Worker, NEW c \in Coroutine, Rejoin(w, c)
  PROVE  TypeOK'
<1>0. RowTypeOK /\ CommandTypeOK /\ TaskTypeOK /\ CoTypeOK /\ HistoryTypeOK
  BY DEF TypeOK
<1>1. CoTypeOK'
  BY <1>0, RowFields, GotoType, SMT DEF Rejoin, CoPC
<1>2. (RowTypeOK /\ CommandTypeOK /\ TaskTypeOK /\ HistoryTypeOK)'
  BY <1>0, SMT DEF Rejoin, RowTypeOK, CommandTypeOK, TaskTypeOK, HistoryTypeOK,
     dbVars, histVars
<1>. QED BY <1>1, <1>2 DEF TypeOK

\* Join keeps every part well typed.
LEMMA JoinType ==
  ASSUME TypeOK, NEW w \in Worker, NEW c \in Coroutine, Join(w, c)
  PROVE  TypeOK'
<1>0. RowTypeOK /\ CommandTypeOK /\ TaskTypeOK /\ CoTypeOK /\ HistoryTypeOK
  BY DEF TypeOK
<1>1. TaskTypeOK'
  BY <1>0, CoFields, SMT DEF Join, TaskTypeOK
<1>2. CoTypeOK'
  BY <1>0, GotoType, CoFields, SMT DEF Join, CoPC
<1>3. (RowTypeOK /\ CommandTypeOK /\ HistoryTypeOK)'
  BY <1>0, SMT DEF Join, RowTypeOK, CommandTypeOK, HistoryTypeOK, dbVars, histVars
<1>. QED BY <1>1, <1>2, <1>3 DEF TypeOK

\* NoResume keeps every part well typed.
LEMMA NoResumeType ==
  ASSUME TypeOK, NEW w \in Worker, NEW c \in Coroutine, NoResume(w, c)
  PROVE  TypeOK'
<1>0. RowTypeOK /\ CommandTypeOK /\ TaskTypeOK /\ CoTypeOK /\ HistoryTypeOK
  BY DEF TypeOK
<1>1. CommandTypeOK'
  BY <1>0, CloseCommandType, CoFields, SMT DEF NoResume, CommandTypeOK
<1>2. CoTypeOK'
  BY <1>0, ReturnType, SMT DEF NoResume
<1>3. (RowTypeOK /\ TaskTypeOK /\ HistoryTypeOK)'
  BY <1>0, SMT DEF NoResume, RowTypeOK, TaskTypeOK, HistoryTypeOK, histVars
<1>. QED BY <1>1, <1>2, <1>3 DEF TypeOK

\* ResumeRead keeps every part well typed.
LEMMA ResumeReadType ==
  ASSUME TypeOK, NEW w \in Worker, NEW c \in Coroutine, ResumeRead(w, c)
  PROVE  TypeOK'
<1>0. RowTypeOK /\ CommandTypeOK /\ TaskTypeOK /\ CoTypeOK /\ HistoryTypeOK
  BY DEF TypeOK
<1>1. CommandTypeOK'
  BY <1>0, CloseCommandType, CoFields, SMT DEF ResumeRead, CommandTypeOK
<1>2. CoTypeOK'
  <2>1. CoGen(w, c) \in Gen0
    BY <1>0, CoFields
  <2>2. Evidence(CoGen(w, c)) \in CoPC /\ "rstart" \in CoPC
    BY EvidenceType, Zenon DEF CoPC
  <2>. QED BY <1>0, <2>1, <2>2, GotoType, ReturnType DEF ResumeRead
<1>3. (RowTypeOK /\ TaskTypeOK /\ HistoryTypeOK)'
  BY <1>0, SMT DEF ResumeRead, RowTypeOK, TaskTypeOK, HistoryTypeOK, histVars
<1>. QED BY <1>1, <1>2, <1>3 DEF TypeOK

\* StartResume keeps every part well typed.
LEMMA StartResumeType ==
  ASSUME TypeOK, NEW w \in Worker, NEW c \in Coroutine, StartResume(w, c)
  PROVE  TypeOK'
<1>0. RowTypeOK /\ CommandTypeOK /\ TaskTypeOK /\ CoTypeOK /\ HistoryTypeOK
  BY DEF TypeOK
<1>1. CommandTypeOK'
  BY <1>0, CoFields, SMT DEF StartResume, CommandTypeOK, IntentStatus, Unsettled
<1>2. CoTypeOK'
  BY <1>0, ReturnType, GotoType, CoFields, SMT DEF StartResume, CoPC
<1>3. (RowTypeOK /\ TaskTypeOK /\ HistoryTypeOK)'
  BY <1>0, SMT DEF StartResume, RowTypeOK, TaskTypeOK, HistoryTypeOK, histVars
<1>. QED BY <1>1, <1>2, <1>3 DEF TypeOK

\* ResumeSpawn keeps every part well typed.
LEMMA ResumeSpawnType ==
  ASSUME TypeOK, NEW w \in Worker, NEW c \in Coroutine, ResumeSpawn(w, c)
  PROVE  TypeOK'
<1>0. RowTypeOK /\ CommandTypeOK /\ TaskTypeOK /\ CoTypeOK /\ HistoryTypeOK
  BY DEF TypeOK
<1>1. CommandTypeOK'
  BY <1>0, CloseCommandType, CoFields, SMT DEF ResumeSpawn, CommandTypeOK
<1>2. TaskTypeOK'
  BY <1>0, TaskUpdate, SMT DEF ResumeSpawn, TaskTypeOK, TaskPC
<1>3. CoTypeOK'
  BY <1>0, ReturnType, SMT DEF ResumeSpawn
<1>4. (RowTypeOK /\ HistoryTypeOK)'
  BY <1>0, SMT DEF ResumeSpawn, RowTypeOK, HistoryTypeOK, histVars
<1>. QED BY <1>1, <1>2, <1>3, <1>4 DEF TypeOK

\* CoObserve keeps every part well typed.
LEMMA CoObserveType ==
  ASSUME TypeOK, NEW w \in Worker, NEW c \in Coroutine, CoObserve(w, c)
  PROVE  TypeOK'
<1>0. RowTypeOK /\ CommandTypeOK /\ TaskTypeOK /\ CoTypeOK /\ HistoryTypeOK
  BY DEF TypeOK
<1>1. CommandTypeOK'
  BY <1>0, ObserveType, CoFields, SMT DEF CoObserve, CommandTypeOK
<1>2. CoTypeOK'
  BY <1>0, GotoType, CoFields, SMT DEF CoObserve, CoPC
<1>3. (RowTypeOK /\ TaskTypeOK /\ HistoryTypeOK)'
  BY <1>0, SMT DEF CoObserve, RowTypeOK, TaskTypeOK, HistoryTypeOK, histVars
<1>. QED BY <1>1, <1>2, <1>3 DEF TypeOK

\* CoReconcile keeps every part well typed.
LEMMA CoReconcileType ==
  ASSUME TypeOK, NEW w \in Worker, NEW c \in Coroutine, CoReconcile(w, c)
  PROVE  TypeOK'
<1>0. RowTypeOK /\ CommandTypeOK /\ TaskTypeOK /\ CoTypeOK /\ HistoryTypeOK
  BY DEF TypeOK
<1>1. RowTypeOK'
  BY <1>0, ReconcileType, CoFields, SMT DEF CoReconcile, RowTypeOK
<1>2. CommandTypeOK'
  BY <1>0, CloseCommandType, ReconcileType, CoFields, SMT DEF CoReconcile,
     CommandTypeOK
<1>3. CoTypeOK'
  BY <1>0, ReturnType, SMT DEF CoReconcile
<1>4. (TaskTypeOK /\ HistoryTypeOK)'
  BY <1>0, SMT DEF CoReconcile, TaskTypeOK, HistoryTypeOK, histVars
<1>. QED BY <1>1, <1>2, <1>3, <1>4 DEF TypeOK

\* CoUnknown keeps every part well typed.
LEMMA CoUnknownType ==
  ASSUME TypeOK, NEW w \in Worker, NEW c \in Coroutine, CoUnknown(w, c)
  PROVE  TypeOK'
<1>0. RowTypeOK /\ CommandTypeOK /\ TaskTypeOK /\ CoTypeOK /\ HistoryTypeOK
  BY DEF TypeOK
<1>1. CommandTypeOK'
  BY <1>0, ObserveType, CloseCommandType, CoFields, SMT DEF CoUnknown,
     CommandTypeOK
<1>2. CoTypeOK'
  BY <1>0, ReturnType, SMT DEF CoUnknown
<1>3. (RowTypeOK /\ TaskTypeOK /\ HistoryTypeOK)'
  BY <1>0, SMT DEF CoUnknown, RowTypeOK, TaskTypeOK, HistoryTypeOK, histVars
<1>. QED BY <1>1, <1>2, <1>3 DEF TypeOK

\* CancelCommit keeps every part well typed.
LEMMA CancelCommitType ==
  ASSUME TypeOK, NEW w \in Worker, NEW c \in Coroutine, CancelCommit(w, c)
  PROVE  TypeOK'
<1>0. RowTypeOK /\ CommandTypeOK /\ TaskTypeOK /\ CoTypeOK /\ HistoryTypeOK
  BY DEF TypeOK
<1>1. RowTypeOK'
  BY <1>0, NextGenerationType, CommitTerminalType, SMT DEF CancelCommit,
     Cancellable, RowTypeOK
<1>2. CommandTypeOK'
  BY <1>0, NextGenerationType, CommitTerminalType, SMT DEF CancelCommit,
     Cancellable, CommandTypeOK
<1>3. TaskTypeOK'
  BY <1>0, NextGenerationType, SMT DEF CancelCommit, Cancellable, TaskTypeOK
<1>4. CoTypeOK'
  <2>1. NextGeneration \in Gen0
    BY <1>0, NextGenerationType DEF CancelCommit, Cancellable
  <2>2. "cancelled" \in CoPC
    BY DEF CoPC
  <2>3. \A t \in {"idle", "sweep"} :
          [pc |-> "cancelled", gen |-> NextGeneration, cmd |-> 0, then |-> t] \in CoState
    BY <2>1, <2>2, CoRecord, Literals
  <2>. QED BY <1>0, <2>3, CoUpdate DEF CancelCommit
<1>5. (HistoryTypeOK)'
  BY <1>0, SMT DEF CancelCommit, HistoryTypeOK, histVars
<1>. QED BY <1>1, <1>2, <1>3, <1>4, <1>5 DEF TypeOK

\* CancelLocal keeps every part well typed.
LEMMA CancelLocalType ==
  ASSUME TypeOK, NEW w \in Worker, NEW c \in Coroutine, CancelLocal(w, c)
  PROVE  TypeOK'
<1>0. RowTypeOK /\ CommandTypeOK /\ TaskTypeOK /\ CoTypeOK /\ HistoryTypeOK
  BY DEF TypeOK
<1>1. TaskTypeOK'
  BY <1>0, CancelRegisteredType, DropLeaseType, SMT DEF CancelLocal, TaskTypeOK
<1>2. CoTypeOK'
  BY <1>0, ReturnType, SMT DEF CancelLocal
<1>3. (RowTypeOK /\ CommandTypeOK /\ HistoryTypeOK)'
  BY <1>0, SMT DEF CancelLocal, RowTypeOK, CommandTypeOK, HistoryTypeOK, dbVars,
     histVars
<1>. QED BY <1>1, <1>2, <1>3 DEF TypeOK

\* BeatReapply keeps every part well typed.
LEMMA BeatReapplyType ==
  ASSUME TypeOK, NEW w \in Worker, NEW p \in Gen, BeatReapply(w, p)
  PROVE  TypeOK'
<1>0. RowTypeOK /\ CommandTypeOK /\ TaskTypeOK /\ CoTypeOK /\ HistoryTypeOK
  BY DEF TypeOK
<1>1. CoTypeOK'
  <2>1. "begin" \in CoPC /\ p \in Gen0
    BY Literals DEF CoPC
  <2>2. [pc |-> "begin", gen |-> 0, cmd |-> p, then |-> "sweep"] \in CoState
    BY <2>1, CoRecord, Literals
  <2>. QED BY <1>0, <2>2, CoUpdate, Literals DEF BeatReapply
<1>2. (RowTypeOK /\ CommandTypeOK /\ TaskTypeOK /\ HistoryTypeOK)'
  BY <1>0, SMT DEF BeatReapply, RowTypeOK, CommandTypeOK, TaskTypeOK,
     HistoryTypeOK, dbVars, histVars
<1>. QED BY <1>1, <1>2 DEF TypeOK

\* BeatReconcile keeps every part well typed.
LEMMA BeatReconcileType ==
  ASSUME TypeOK, NEW w \in Worker, NEW p \in Gen, BeatReconcile(w, p)
  PROVE  TypeOK'
<1>0. RowTypeOK /\ CommandTypeOK /\ TaskTypeOK /\ CoTypeOK /\ HistoryTypeOK
  BY DEF TypeOK
<1>1. CoTypeOK'
  <2>1. "begin" \in CoPC /\ p \in Gen0
    BY Literals DEF CoPC
  <2>2. [pc |-> "begin", gen |-> 0, cmd |-> p, then |-> "idle"] \in CoState
    BY <2>1, CoRecord, Literals
  <2>. QED BY <1>0, <2>2, CoUpdate, Literals DEF BeatReconcile
<1>2. (RowTypeOK /\ CommandTypeOK /\ TaskTypeOK /\ HistoryTypeOK)'
  BY <1>0, SMT DEF BeatReconcile, RowTypeOK, CommandTypeOK, TaskTypeOK,
     HistoryTypeOK, dbVars, histVars
<1>. QED BY <1>1, <1>2 DEF TypeOK

\* CtlResume keeps every part well typed.
LEMMA CtlResumeType ==
  ASSUME TypeOK, NEW w \in Worker, NEW p \in Gen, CtlResume(w, p)
  PROVE  TypeOK'
<1>0. RowTypeOK /\ CommandTypeOK /\ TaskTypeOK /\ CoTypeOK /\ HistoryTypeOK
  BY DEF TypeOK
<1>1. CommandTypeOK'
  BY <1>0, SMT DEF CtlResume, CommandTypeOK
<1>2. CoTypeOK'
  <2>1. "begin" \in CoPC /\ p \in Gen0
    BY Literals DEF CoPC
  <2>2. [pc |-> "begin", gen |-> 0, cmd |-> p, then |-> "idle"] \in CoState
    BY <2>1, CoRecord, Literals
  <2>. QED BY <1>0, <2>2, CoUpdate, Literals DEF CtlResume
<1>3. (RowTypeOK /\ TaskTypeOK /\ HistoryTypeOK)'
  BY <1>0, SMT DEF CtlResume, RowTypeOK, TaskTypeOK, HistoryTypeOK, histVars
<1>. QED BY <1>1, <1>2, <1>3 DEF TypeOK

\* Consume keeps every part well typed.
LEMMA ConsumeType ==
  ASSUME TypeOK, NEW w \in Worker, NEW g \in Gen, Consume(w, g)
  PROVE  TypeOK'
<1>0. RowTypeOK /\ CommandTypeOK /\ TaskTypeOK /\ CoTypeOK /\ HistoryTypeOK
  BY DEF TypeOK
<1>1. TaskTypeOK'
  BY <1>0, Literals, TaskUpdate, SMT DEF Consume, TaskTypeOK, TaskPC
<1>2. HistoryTypeOK'
  BY <1>0, Literals, SMT DEF Consume, histVars, HistoryTypeOK
<1>3. (RowTypeOK /\ CommandTypeOK /\ CoTypeOK)'
  BY <1>0, SMT DEF Consume, RowTypeOK, CommandTypeOK, CoTypeOK, dbVars
<1>. QED BY <1>1, <1>2, <1>3 DEF TypeOK

\* Interrupt keeps every part well typed.
LEMMA InterruptType ==
  ASSUME TypeOK, NEW w \in Worker, NEW g \in Gen, Interrupt(w, g)
  PROVE  TypeOK'
<1>0. RowTypeOK /\ CommandTypeOK /\ TaskTypeOK /\ CoTypeOK /\ HistoryTypeOK
  BY DEF TypeOK
<1>1. TaskTypeOK'
  BY <1>0, Literals, TaskUpdate, SMT DEF Interrupt, TaskTypeOK, TaskPC
<1>2. HistoryTypeOK'
  BY <1>0, Literals, SMT DEF Interrupt, histVars, HistoryTypeOK
<1>3. (RowTypeOK /\ CommandTypeOK /\ CoTypeOK)'
  BY <1>0, SMT DEF Interrupt, RowTypeOK, CommandTypeOK, CoTypeOK, dbVars
<1>. QED BY <1>1, <1>2, <1>3 DEF TypeOK

\* Finish keeps every part well typed.
LEMMA FinishType ==
  ASSUME TypeOK, NEW w \in Worker, NEW g \in Gen, Finish(w, g)
  PROVE  TypeOK'
<1>0. RowTypeOK /\ CommandTypeOK /\ TaskTypeOK /\ CoTypeOK /\ HistoryTypeOK
  BY DEF TypeOK
<1>1. TaskTypeOK'
  BY <1>0, Literals, TaskUpdate, SMT DEF Finish, TaskTypeOK, TaskPC
<1>2. HistoryTypeOK'
  BY <1>0, Literals, SMT DEF Finish, histVars, HistoryTypeOK
<1>3. (RowTypeOK /\ CommandTypeOK /\ CoTypeOK)'
  BY <1>0, SMT DEF Finish, RowTypeOK, CommandTypeOK, CoTypeOK, dbVars
<1>. QED BY <1>1, <1>2, <1>3 DEF TypeOK

\* NativeError keeps every part well typed.
LEMMA NativeErrorType ==
  ASSUME TypeOK, NEW w \in Worker, NEW g \in Gen, NativeError(w, g)
  PROVE  TypeOK'
<1>0. RowTypeOK /\ CommandTypeOK /\ TaskTypeOK /\ CoTypeOK /\ HistoryTypeOK
  BY DEF TypeOK
<1>1. TaskTypeOK'
  BY <1>0, Literals, TaskUpdate, SMT DEF NativeError, TaskTypeOK, TaskPC
<1>2. (RowTypeOK /\ CommandTypeOK /\ CoTypeOK /\ HistoryTypeOK)'
  BY <1>0, SMT DEF NativeError, RowTypeOK, CommandTypeOK, CoTypeOK, HistoryTypeOK,
     dbVars, histVars
<1>. QED BY <1>1, <1>2 DEF TypeOK

\* TaskGate keeps every part well typed.
LEMMA TaskGateType ==
  ASSUME TypeOK, NEW w \in Worker, NEW g \in Gen, TaskGate(w, g)
  PROVE  TypeOK'
<1>0. RowTypeOK /\ CommandTypeOK /\ TaskTypeOK /\ CoTypeOK /\ HistoryTypeOK
  BY DEF TypeOK
<1>1. TaskTypeOK'
  BY <1>0, RowFields, EndTaskType, TaskUpdate, SMT DEF TaskGate, Active, Fence,
     TaskTypeOK, TaskPC
<1>2. HistoryTypeOK'
  BY <1>0, SMT DEF TaskGate, histVars, HistoryTypeOK
<1>3. (RowTypeOK /\ CommandTypeOK /\ CoTypeOK)'
  BY <1>0, SMT DEF TaskGate, RowTypeOK, CommandTypeOK, CoTypeOK, dbVars
<1>. QED BY <1>1, <1>2, <1>3 DEF TypeOK

\* Settle keeps every part well typed.
LEMMA SettleType ==
  ASSUME TypeOK, NEW w \in Worker, NEW g \in Gen, Settle(w, g)
  PROVE  TypeOK'
<1>0. RowTypeOK /\ CommandTypeOK /\ TaskTypeOK /\ CoTypeOK /\ HistoryTypeOK
  BY DEF TypeOK
<1>1. TaskTypeOK'
  BY <1>0, Literals, EndTaskType, TaskUpdate, SMT DEF Settle, TaskTypeOK, TaskPC
<1>2. (RowTypeOK /\ CommandTypeOK /\ CoTypeOK /\ HistoryTypeOK)'
  BY <1>0, SMT DEF Settle, RowTypeOK, CommandTypeOK, CoTypeOK, HistoryTypeOK,
     dbVars, histVars
<1>. QED BY <1>1, <1>2 DEF TypeOK

\* RecordPause keeps every part well typed.
LEMMA RecordPauseType ==
  ASSUME TypeOK, NEW w \in Worker, NEW g \in Gen, RecordPause(w, g)
  PROVE  TypeOK'
<1>0. RowTypeOK /\ CommandTypeOK /\ TaskTypeOK /\ CoTypeOK /\ HistoryTypeOK
  BY DEF TypeOK
<1>1. RowTypeOK'
  BY <1>0, RowFields, ExpiryType, SMT DEF RecordPause, Active, Release, Fence,
     RowTypeOK, HeadType
<1>2. TaskTypeOK'
  BY <1>0, EndTaskType, SMT DEF RecordPause, TaskTypeOK
<1>3. (CommandTypeOK /\ CoTypeOK /\ HistoryTypeOK)'
  BY <1>0, SMT DEF RecordPause, CommandTypeOK, CoTypeOK, HistoryTypeOK, histVars
<1>. QED BY <1>1, <1>2, <1>3 DEF TypeOK

\* Finalize keeps every part well typed.
LEMMA FinalizeType ==
  ASSUME TypeOK, NEW w \in Worker, NEW g \in Gen, Finalize(w, g)
  PROVE  TypeOK'
<1>0. RowTypeOK /\ CommandTypeOK /\ TaskTypeOK /\ CoTypeOK /\ HistoryTypeOK
  BY DEF TypeOK
<1>1. RowTypeOK'
  BY <1>0, RowFields, CommitTerminalType, SMT DEF Finalize, Active, Fence,
     RowTypeOK
<1>2. CommandTypeOK'
  BY <1>0, RowFields, CommitTerminalType, SMT DEF Finalize, Active, Fence,
     CommandTypeOK
<1>3. TaskTypeOK'
  BY <1>0, DropLeaseType, EndTaskType, ReleaseLeaseType, SMT DEF Finalize,
     TaskTypeOK
<1>4. (CoTypeOK /\ HistoryTypeOK)'
  BY <1>0, SMT DEF Finalize, CoTypeOK, HistoryTypeOK, histVars
<1>. QED BY <1>1, <1>2, <1>3, <1>4 DEF TypeOK

\* TaskDies keeps every part well typed.
LEMMA TaskDiesType ==
  ASSUME TypeOK, NEW w \in Worker, NEW g \in Gen, TaskDies(w, g)
  PROVE  TypeOK'
<1>0. RowTypeOK /\ CommandTypeOK /\ TaskTypeOK /\ CoTypeOK /\ HistoryTypeOK
  BY DEF TypeOK
<1>1. TaskTypeOK'
  BY <1>0, EndTaskType, SMT DEF TaskDies, TaskTypeOK
<1>2. HistoryTypeOK'
  BY <1>0, MaxFaultAssumption, SMT DEF TaskDies, histVars, HistoryTypeOK
<1>3. (RowTypeOK /\ CommandTypeOK /\ CoTypeOK)'
  BY <1>0, SMT DEF TaskDies, RowTypeOK, CommandTypeOK, CoTypeOK, dbVars
<1>. QED BY <1>1, <1>2, <1>3 DEF TypeOK

\* SettleResume keeps every part well typed.
LEMMA SettleResumeType ==
  ASSUME TypeOK, NEW w \in Worker, NEW g \in Gen, NEW p \in Gen, SettleResume(w, g, p)
  PROVE  TypeOK'
<1>0. RowTypeOK /\ CommandTypeOK /\ TaskTypeOK /\ CoTypeOK /\ HistoryTypeOK
  BY DEF TypeOK
<1>1. TaskTypeOK'
  BY <1>0, Literals, EvidenceType, EndTaskType, TaskUpdate, SMT DEF SettleResume,
     TaskTypeOK, TaskPC
<1>2. (RowTypeOK /\ CommandTypeOK /\ CoTypeOK /\ HistoryTypeOK)'
  BY <1>0, SMT DEF SettleResume, RowTypeOK, CommandTypeOK, CoTypeOK,
     HistoryTypeOK, dbVars, histVars
<1>. QED BY <1>1, <1>2 DEF TypeOK

\* TaskObserve keeps every part well typed.
LEMMA TaskObserveType ==
  ASSUME TypeOK, NEW w \in Worker, NEW g \in Gen, NEW p \in Gen, TaskObserve(w, g, p)
  PROVE  TypeOK'
<1>0. RowTypeOK /\ CommandTypeOK /\ TaskTypeOK /\ CoTypeOK /\ HistoryTypeOK
  BY DEF TypeOK
<1>1. CommandTypeOK'
  BY <1>0, Literals, ObserveType, SMT DEF TaskObserve, CommandTypeOK
<1>2. TaskTypeOK'
  BY <1>0, Literals, TaskUpdate, SMT DEF TaskObserve, TaskTypeOK, TaskPC
<1>3. (RowTypeOK /\ CoTypeOK /\ HistoryTypeOK)'
  BY <1>0, SMT DEF TaskObserve, RowTypeOK, CoTypeOK, HistoryTypeOK, histVars
<1>. QED BY <1>1, <1>2, <1>3 DEF TypeOK

\* TaskReconcile keeps every part well typed.
LEMMA TaskReconcileType ==
  ASSUME TypeOK, NEW w \in Worker, NEW g \in Gen, NEW p \in Gen, TaskReconcile(w, g, p)
  PROVE  TypeOK'
<1>0. RowTypeOK /\ CommandTypeOK /\ TaskTypeOK /\ CoTypeOK /\ HistoryTypeOK
  BY DEF TypeOK
<1>1. RowTypeOK'
  BY <1>0, Literals, ReconcileType, SMT DEF TaskReconcile, RowTypeOK
<1>2. CommandTypeOK'
  BY <1>0, Literals, ReconcileType, SMT DEF TaskReconcile, CommandTypeOK
<1>3. TaskTypeOK'
  BY <1>0, Literals, EndTaskType, TaskUpdate, SMT DEF TaskReconcile, TaskTypeOK,
     TaskPC
<1>4. (CoTypeOK /\ HistoryTypeOK)'
  BY <1>0, SMT DEF TaskReconcile, CoTypeOK, HistoryTypeOK, histVars
<1>. QED BY <1>1, <1>2, <1>3, <1>4 DEF TypeOK

\* TaskUnknown keeps every part well typed.
LEMMA TaskUnknownType ==
  ASSUME TypeOK, NEW w \in Worker, NEW g \in Gen, NEW p \in Gen, TaskUnknown(w, g, p)
  PROVE  TypeOK'
<1>0. RowTypeOK /\ CommandTypeOK /\ TaskTypeOK /\ CoTypeOK /\ HistoryTypeOK
  BY DEF TypeOK
<1>1. CommandTypeOK'
  BY <1>0, Literals, ObserveType, SMT DEF TaskUnknown, CommandTypeOK
<1>2. TaskTypeOK'
  BY <1>0, EndTaskType, SMT DEF TaskUnknown, TaskTypeOK
<1>3. (RowTypeOK /\ CoTypeOK /\ HistoryTypeOK)'
  BY <1>0, SMT DEF TaskUnknown, RowTypeOK, CoTypeOK, HistoryTypeOK, histVars
<1>. QED BY <1>1, <1>2, <1>3 DEF TypeOK

-----------------------------------------------------------------------------
\* Every step preserves the types of the row, the commands and the processes.
LEMMA TypeStep ==
  ASSUME TypeOK, [Next]_vars
  PROVE  TypeOK'
<1>1. CASE UNCHANGED vars
  BY <1>1 DEF vars, TypeOK, RowTypeOK, CommandTypeOK, TaskTypeOK, CoTypeOK,
     HistoryTypeOK
<1>2. CASE Launch \/ SubmitResume \/ SubmitCancel \/ Age \/ Rest
  BY <1>2, LaunchType, SubmitResumeType, SubmitCancelType, AgeType, RestType
<1>3. ASSUME NEW w \in Worker, Crash(w) \/ Serve(w) \/ Beat(w)
      PROVE  TypeOK'
  BY <1>3, CrashType, ReceiveDispatchType, ClaimWinType, ClaimLoseType,
     BeatRenewType, BeatYieldType, BeatReclaimType, BeatTakeOverType, BeatRestType,
     BeatReapplyType, BeatReconcileType DEF Serve, Beat
<1>4. ASSUME NEW w \in Worker, NEW c \in Coroutine,
             Start(w, c) \/ Resume(w, c) \/ CancelCommit(w, c) \/ CancelLocal(w, c)
      PROVE  TypeOK'
  <2>1. CASE Start(w, c)
    BY <2>1, BuildOkType, BuildFailType, StartSpawnType, StartStaleType,
       StartUnattributedType DEF Start
  <2>2. CASE Resume(w, c)
    BY <2>2, AcceptType, AdoptType, RejoinType, JoinType, NoResumeType,
       ResumeReadType, StartResumeType, ResumeSpawnType, CoObserveType,
       CoReconcileType, CoUnknownType DEF Resume
  <2>. QED BY <1>4, <2>1, <2>2, CancelCommitType, CancelLocalType
<1>5. ASSUME NEW w \in Worker, NEW p \in Gen, CtlResume(w, p)
      PROVE  TypeOK'
  BY <1>5, CtlResumeType
<1>6. ASSUME NEW w \in Worker, NEW g \in Gen,
             Native(w, g) \/ Settling(w, g) \/ TaskDies(w, g)
      PROVE  TypeOK'
  BY <1>6, ConsumeType, InterruptType, FinishType, NativeErrorType, TaskGateType,
     SettleType, RecordPauseType, FinalizeType, SettleResumeType, TaskObserveType,
     TaskReconcileType, TaskUnknownType, TaskDiesType DEF Native, Settling
<1>. QED BY <1>1, <1>2, <1>3, <1>4, <1>5, <1>6 DEF Next

\* The run row, its commands, the caches and coroutines of every worker keep their
\* types, and only a terminal may carry the generation beyond the bound.
THEOREM TypeCorrect == Spec => []TypeOK
<1>1. Init => TypeOK
  <2>. SUFFICES ASSUME Init PROVE TypeOK
    OBVIOUS
  <2>1. RowTypeOK /\ CommandTypeOK
    BY Literals, MaxGenAssumption DEF Init, RowTypeOK, RowType, HeadType,
       CommandTypeOK, IntentStatus
  <2>2. TaskTypeOK /\ CoTypeOK
    BY Literals, IdleType DEF Init, TaskTypeOK, TaskPC, CoTypeOK
  <2>3. HistoryTypeOK
    BY Literals, MaxFaultAssumption DEF Init, HistoryTypeOK
  <2>. QED BY <2>1, <2>2, <2>3 DEF TypeOK
<1>2. TypeOK /\ [Next]_vars => TypeOK'
  BY TypeStep
<1>. QED BY <1>1, <1>2, PTL DEF Spec

-----------------------------------------------------------------------------
(* One holder.  Two workers never act under the same generation.  The        *)
(* invariant is inductive with the types: the row's generation never falls,  *)
(* it changes owner only with a new generation, and a worker comes to hold   *)
(* only what it held before or what the row has just granted it.             *)

\* The generation of the row never falls, and keeps its owner while it lasts.
RunMonotone ==
  /\ run.gen <= run'.gen
  /\ run'.gen = run.gen => run'.owner = run.owner

\* Worker v may keep g after the step: nothing, its own, or freshly granted.
Own(v, g) == g = 0 \/ g \in Held(v) \/ (g = run'.gen /\ v = run'.owner)

LeasesOwn == \A v \in Worker : Own(v, leases'[v])
RegOwn    == \A v \in Worker : Own(v, reg'[v])
TaskOwn   == \A v \in Worker : \A g \in Gen : task'[v][g] # "none" => Own(v, g)
CoOwn     == \A v \in Worker : \A c \in Coroutine : Own(v, co'[v][c].gen)

HolderStep == RunMonotone /\ LeasesOwn /\ RegOwn /\ TaskOwn /\ CoOwn

\* What a worker holds it may keep.
LEMMA OwnHeld ==
  ASSUME NEW v \in Worker
  PROVE  /\ Own(v, 0)
         /\ Own(v, leases[v])
         /\ Own(v, reg[v])
         /\ \A g \in Gen : task[v][g] # "none" => Own(v, g)
         /\ \A c \in Coroutine : Own(v, co[v][c].gen)
BY DEF Own, Held, CoGens, CoGen, TaskGens

LEMMA OwnGranted ==
  ASSUME NEW w \in Worker, NEW g, Grant(w, g) \/ CommitTerminal(w, g)
  PROVE  Own(w, g)
BY DEF Own, Grant, CommitTerminal

LEMMA Frames ==
  /\ UNCHANGED leases => LeasesOwn
  /\ UNCHANGED reg => RegOwn
  /\ UNCHANGED task => TaskOwn
  /\ UNCHANGED co => CoOwn
BY OwnHeld, Zenon DEF LeasesOwn, RegOwn, TaskOwn, CoOwn

LEMMA LeaseOwn ==
  ASSUME TaskTypeOK, NEW w \in Worker, NEW h, Own(w, h)
  PROVE  leases' = [leases EXCEPT ![w] = h] => LeasesOwn
BY OwnHeld, SMT DEF TaskTypeOK, LeasesOwn

LEMMA LeaseLess ==
  ASSUME TaskTypeOK, NEW w \in Worker, NEW h, DropLease(w) \/ ReleaseLease(w, h)
  PROVE  LeasesOwn
BY OwnHeld, SMT DEF TaskTypeOK, LeasesOwn, DropLease, ReleaseLease

LEMMA SpawnOwn ==
  ASSUME TaskTypeOK, NEW w \in Worker, NEW h \in Gen0, NEW pc, Own(w, h), Spawn(w, h, pc)
  PROVE  RegOwn /\ TaskOwn
BY OwnHeld, SMT DEF TaskTypeOK, RegOwn, TaskOwn, Spawn

LEMMA ToTaskOwn ==
  ASSUME TaskTypeOK, NEW w \in Worker, NEW h \in Gen, NEW pc, task[w][h] # "none",
         ToTask(w, h, pc)
  PROVE  RegOwn /\ TaskOwn
BY OwnHeld, SMT DEF TaskTypeOK, RegOwn, TaskOwn, ToTask

LEMMA EndTaskOwn ==
  ASSUME TaskTypeOK, NEW w \in Worker, NEW h \in Gen, EndTask(w, h)
  PROVE  RegOwn /\ TaskOwn
BY OwnHeld, SMT DEF TaskTypeOK, RegOwn, TaskOwn, EndTask, Unregister

LEMMA CancelOwn ==
  ASSUME TaskTypeOK, NEW w \in Worker, CancelRegistered(w)
  PROVE  RegOwn /\ TaskOwn
BY OwnHeld, SMT DEF TaskTypeOK, RegOwn, TaskOwn, CancelRegistered

LEMMA CoWriteOwn ==
  ASSUME CoTypeOK, NEW w \in Worker, NEW c \in Coroutine, NEW r, Own(w, r.gen)
  PROVE  co' = [co EXCEPT ![w][c] = r] => CoOwn
BY OwnHeld, SMT DEF CoTypeOK, CoOwn

LEMMA GotoOwn ==
  ASSUME CoTypeOK, NEW w \in Worker, NEW c \in Coroutine, NEW pc, NEW h, Own(w, h),
         Goto(w, c, pc, h)
  PROVE  CoOwn
<1>. DEFINE r == [pc |-> pc, gen |-> h, cmd |-> co[w][c].cmd, then |-> co[w][c].then]
<1>1. Own(w, r.gen)
  OBVIOUS
<1>2. co' = [co EXCEPT ![w][c] = r]
  BY DEF Goto
<1>. HIDE DEF r
<1>. QED BY <1>1, <1>2, CoWriteOwn

LEMMA ReturnOwn ==
  ASSUME CoTypeOK, NEW w \in Worker, NEW c \in Coroutine, Return(w, c) \/ Raise(w, c)
  PROVE  CoOwn
<1>1. Idle.gen = 0 /\ [Idle EXCEPT !.pc = co[w][c].then].gen = 0
  BY DEF Idle
<1>2. Own(w, Idle.gen) /\ Own(w, [Idle EXCEPT !.pc = co[w][c].then].gen)
  BY <1>1, OwnHeld
<1>. QED BY <1>2, CoWriteOwn DEF Return, Raise

LEMMA RowGenNat == ASSUME RowTypeOK PROVE run.gen \in Nat
BY MaxGenAssumption DEF RowTypeOK, RowType, Gen0

\* Everything that may happen to the row.
LEMMA RunFrame ==
  ASSUME RowTypeOK, UNCHANGED run
  PROVE  RunMonotone
BY RowGenNat DEF RunMonotone

LEMMA RunGrant ==
  ASSUME RowTypeOK, NEW w \in Worker, NEW g \in Nat, g > run.gen,
         Grant(w, g) \/ CommitTerminal(w, g)
  PROVE  RunMonotone
BY RowGenNat DEF RunMonotone, Grant, CommitTerminal

LEMMA RunTerminal ==
  ASSUME RowTypeOK, NEW w \in Worker, NEW g, Active(w, g), CommitTerminal(w, g)
  PROVE  RunMonotone
BY RowGenNat DEF RunMonotone, CommitTerminal, Active, Fence

LEMMA RunKept ==
  ASSUME RowTypeOK, \/ run' = Release
                    \/ \E e \in {"live", "edge", "past"} : run' = [run EXCEPT !.expiry = e]
  PROVE  RunMonotone
<1>1. run' = run \/ (run'.gen = run.gen /\ run'.owner = run.owner)
  BY DEF Release, RowTypeOK, RowType
<1>. QED BY <1>1, RowGenNat DEF RunMonotone

LEMMA RunReconciled ==
  ASSUME RowTypeOK, NEW w, NEW g, NEW p, NEW phase, Reconcile(w, g, p, phase)
  PROVE  RunMonotone
BY RunFrame, RunKept DEF Reconcile

LEMMA NextGen == ASSUME RowTypeOK PROVE NextGeneration \in Nat /\ NextGeneration > run.gen
BY RowGenNat DEF NextGeneration

LEMMA CoGenType ==
  ASSUME CoTypeOK, NEW w \in Worker, NEW c \in Coroutine
  PROVE  CoGen(w, c) \in Gen0 /\ Own(w, CoGen(w, c))
BY OwnHeld DEF CoTypeOK, CoState, CoGen

LEMMA Names == {"serve", "beat", "ctl"} = Coroutine
BY DEF Coroutine

LEMMA OwnRow ==
  ASSUME NEW w \in Worker, UNCHANGED run, Active(w, run.gen)
  PROVE  Own(w, run.gen)
BY DEF Own, Active, Fence

-----------------------------------------------------------------------------
(* One lemma per action *)

LEMMA LaunchHolder ==
  ASSUME RowTypeOK, TaskTypeOK, CoTypeOK, Launch
  PROVE  HolderStep
<1>1. RunMonotone
  BY RunFrame DEF Launch
<1>2. LeasesOwn
  BY Frames DEF Launch, localVars
<1>3. RegOwn /\ TaskOwn
  BY Frames DEF Launch, localVars
<1>4. CoOwn
  BY Frames DEF Launch, localVars
<1>. QED BY <1>1, <1>2, <1>3, <1>4 DEF HolderStep

LEMMA SubmitResumeHolder ==
  ASSUME RowTypeOK, TaskTypeOK, CoTypeOK, SubmitResume
  PROVE  HolderStep
<1>1. RunMonotone
  BY RunFrame DEF SubmitResume
<1>2. LeasesOwn
  BY Frames DEF SubmitResume, localVars
<1>3. RegOwn /\ TaskOwn
  BY Frames DEF SubmitResume, localVars
<1>4. CoOwn
  BY Frames DEF SubmitResume, localVars
<1>. QED BY <1>1, <1>2, <1>3, <1>4 DEF HolderStep

LEMMA SubmitCancelHolder ==
  ASSUME RowTypeOK, TaskTypeOK, CoTypeOK, SubmitCancel
  PROVE  HolderStep
<1>1. RunMonotone
  BY RunFrame DEF SubmitCancel
<1>2. LeasesOwn
  BY Frames DEF SubmitCancel, localVars
<1>3. RegOwn /\ TaskOwn
  BY Frames DEF SubmitCancel, localVars
<1>4. CoOwn
  BY Frames DEF SubmitCancel, localVars
<1>. QED BY <1>1, <1>2, <1>3, <1>4 DEF HolderStep

LEMMA AgeHolder ==
  ASSUME RowTypeOK, TaskTypeOK, CoTypeOK, Age
  PROVE  HolderStep
<1>1. RunMonotone
  BY RunKept DEF Age
<1>2. LeasesOwn
  BY Frames DEF Age, localVars
<1>3. RegOwn /\ TaskOwn
  BY Frames DEF Age, localVars
<1>4. CoOwn
  BY Frames DEF Age, localVars
<1>. QED BY <1>1, <1>2, <1>3, <1>4 DEF HolderStep

LEMMA CrashHolder ==
  ASSUME RowTypeOK, TaskTypeOK, CoTypeOK, NEW w \in Worker, Crash(w)
  PROVE  HolderStep
<1>1. RunMonotone
  BY RunFrame DEF Crash, dbVars
<1>2. LeasesOwn
  BY OwnHeld, SMT DEF Crash, Idle, TaskTypeOK, CoTypeOK, LeasesOwn, RegOwn, TaskOwn, CoOwn
<1>3. RegOwn /\ TaskOwn
  BY OwnHeld, SMT DEF Crash, Idle, TaskTypeOK, CoTypeOK, LeasesOwn, RegOwn, TaskOwn, CoOwn
<1>4. CoOwn
  BY OwnHeld, SMT DEF Crash, Idle, TaskTypeOK, CoTypeOK, LeasesOwn, RegOwn, TaskOwn, CoOwn
<1>. QED BY <1>1, <1>2, <1>3, <1>4 DEF HolderStep

LEMMA ReceiveDispatchHolder ==
  ASSUME RowTypeOK, TaskTypeOK, CoTypeOK, NEW w \in Worker, ReceiveDispatch(w)
  PROVE  HolderStep
<1>1. RunMonotone
  BY RunFrame DEF ReceiveDispatch, dbVars
<1>2. LeasesOwn
  BY Frames DEF ReceiveDispatch
<1>3. RegOwn /\ TaskOwn
  BY Frames DEF ReceiveDispatch
<1>4. CoOwn
  BY GotoOwn, OwnHeld, Names DEF ReceiveDispatch
<1>. QED BY <1>1, <1>2, <1>3, <1>4 DEF HolderStep

LEMMA ClaimWinHolder ==
  ASSUME RowTypeOK, TaskTypeOK, CoTypeOK, NEW w \in Worker, ClaimWin(w)
  PROVE  HolderStep
<1>1. RunMonotone
  BY RunGrant DEF ClaimWin
<1>2. LeasesOwn
  BY LeaseOwn, OwnGranted DEF ClaimWin
<1>3. RegOwn /\ TaskOwn
  BY Frames DEF ClaimWin
<1>4. CoOwn
  BY GotoOwn, OwnGranted, Names DEF ClaimWin
<1>. QED BY <1>1, <1>2, <1>3, <1>4 DEF HolderStep

LEMMA ClaimLoseHolder ==
  ASSUME RowTypeOK, TaskTypeOK, CoTypeOK, NEW w \in Worker, ClaimLose(w)
  PROVE  HolderStep
<1>1. RunMonotone
  BY RunFrame DEF ClaimLose, dbVars
<1>2. LeasesOwn
  BY Frames DEF ClaimLose
<1>3. RegOwn /\ TaskOwn
  BY Frames DEF ClaimLose
<1>4. CoOwn
  BY ReturnOwn, Names DEF ClaimLose
<1>. QED BY <1>1, <1>2, <1>3, <1>4 DEF HolderStep

LEMMA BuildOkHolder ==
  ASSUME RowTypeOK, TaskTypeOK, CoTypeOK, NEW w \in Worker, NEW c \in Coroutine, BuildOk(w, c)
  PROVE  HolderStep
<1>1. RunMonotone
  BY RunFrame DEF BuildOk, dbVars
<1>2. LeasesOwn
  BY Frames DEF BuildOk
<1>3. RegOwn /\ TaskOwn
  BY Frames DEF BuildOk
<1>4. CoOwn
  BY GotoOwn, CoGenType DEF BuildOk
<1>. QED BY <1>1, <1>2, <1>3, <1>4 DEF HolderStep

LEMMA BuildFailHolder ==
  ASSUME RowTypeOK, TaskTypeOK, CoTypeOK, NEW w \in Worker, NEW c \in Coroutine, BuildFail(w, c)
  PROVE  HolderStep
<1>1. RunMonotone
  BY RunFrame, RunTerminal DEF BuildFail
<1>2. LeasesOwn
  BY Frames, LeaseLess DEF BuildFail
<1>3. RegOwn /\ TaskOwn
  BY Frames DEF BuildFail
<1>4. CoOwn
  BY ReturnOwn DEF BuildFail
<1>. QED BY <1>1, <1>2, <1>3, <1>4 DEF HolderStep

LEMMA StartSpawnHolder ==
  ASSUME RowTypeOK, TaskTypeOK, CoTypeOK, NEW w \in Worker, NEW c \in Coroutine, StartSpawn(w, c)
  PROVE  HolderStep
<1>1. RunMonotone
  BY RunFrame DEF StartSpawn, dbVars
<1>2. LeasesOwn
  BY Frames DEF StartSpawn
<1>3. RegOwn /\ TaskOwn
  BY SpawnOwn, CoGenType DEF StartSpawn
<1>4. CoOwn
  BY ReturnOwn DEF StartSpawn
<1>. QED BY <1>1, <1>2, <1>3, <1>4 DEF HolderStep

LEMMA StartStaleHolder ==
  ASSUME RowTypeOK, TaskTypeOK, CoTypeOK, NEW w \in Worker, NEW c \in Coroutine, StartStale(w, c)
  PROVE  HolderStep
<1>1. RunMonotone
  BY RunFrame DEF StartStale, dbVars
<1>2. LeasesOwn
  BY Frames DEF StartStale
<1>3. RegOwn /\ TaskOwn
  BY Frames DEF StartStale
<1>4. CoOwn
  BY ReturnOwn DEF StartStale
<1>. QED BY <1>1, <1>2, <1>3, <1>4 DEF HolderStep

LEMMA StartUnattributedHolder ==
  ASSUME RowTypeOK, TaskTypeOK, CoTypeOK, NEW w \in Worker, NEW c \in Coroutine, StartUnattributed(w, c)
  PROVE  HolderStep
<1>1. RunMonotone
  BY RunFrame DEF StartUnattributed, dbVars
<1>2. LeasesOwn
  BY Frames DEF StartUnattributed
<1>3. RegOwn /\ TaskOwn
  BY Frames DEF StartUnattributed
<1>4. CoOwn
  BY ReturnOwn DEF StartUnattributed
<1>. QED BY <1>1, <1>2, <1>3, <1>4 DEF HolderStep

LEMMA TaskGateHolder ==
  ASSUME RowTypeOK, TaskTypeOK, CoTypeOK, NEW w \in Worker, NEW g \in Gen, TaskGate(w, g)
  PROVE  HolderStep
<1>1. RunMonotone
  BY RunFrame DEF TaskGate, dbVars
<1>2. LeasesOwn
  BY Frames DEF TaskGate
<1>3. RegOwn /\ TaskOwn
  BY EndTaskOwn, ToTaskOwn DEF TaskGate
<1>4. CoOwn
  BY Frames DEF TaskGate
<1>. QED BY <1>1, <1>2, <1>3, <1>4 DEF HolderStep

LEMMA ConsumeHolder ==
  ASSUME RowTypeOK, TaskTypeOK, CoTypeOK, NEW w \in Worker, NEW g \in Gen, Consume(w, g)
  PROVE  HolderStep
<1>1. RunMonotone
  BY RunFrame DEF Consume, dbVars
<1>2. LeasesOwn
  BY Frames DEF Consume
<1>3. RegOwn /\ TaskOwn
  BY ToTaskOwn DEF Consume
<1>4. CoOwn
  BY Frames DEF Consume
<1>. QED BY <1>1, <1>2, <1>3, <1>4 DEF HolderStep

LEMMA InterruptHolder ==
  ASSUME RowTypeOK, TaskTypeOK, CoTypeOK, NEW w \in Worker, NEW g \in Gen, Interrupt(w, g)
  PROVE  HolderStep
<1>1. RunMonotone
  BY RunFrame DEF Interrupt, dbVars
<1>2. LeasesOwn
  BY Frames DEF Interrupt
<1>3. RegOwn /\ TaskOwn
  BY ToTaskOwn DEF Interrupt
<1>4. CoOwn
  BY Frames DEF Interrupt
<1>. QED BY <1>1, <1>2, <1>3, <1>4 DEF HolderStep

LEMMA FinishHolder ==
  ASSUME RowTypeOK, TaskTypeOK, CoTypeOK, NEW w \in Worker, NEW g \in Gen, Finish(w, g)
  PROVE  HolderStep
<1>1. RunMonotone
  BY RunFrame DEF Finish, dbVars
<1>2. LeasesOwn
  BY Frames DEF Finish
<1>3. RegOwn /\ TaskOwn
  BY ToTaskOwn DEF Finish
<1>4. CoOwn
  BY Frames DEF Finish
<1>. QED BY <1>1, <1>2, <1>3, <1>4 DEF HolderStep

LEMMA NativeErrorHolder ==
  ASSUME RowTypeOK, TaskTypeOK, CoTypeOK, NEW w \in Worker, NEW g \in Gen, NativeError(w, g)
  PROVE  HolderStep
<1>1. RunMonotone
  BY RunFrame DEF NativeError, dbVars
<1>2. LeasesOwn
  BY Frames DEF NativeError
<1>3. RegOwn /\ TaskOwn
  BY ToTaskOwn DEF NativeError
<1>4. CoOwn
  BY Frames DEF NativeError
<1>. QED BY <1>1, <1>2, <1>3, <1>4 DEF HolderStep

LEMMA TaskDiesHolder ==
  ASSUME RowTypeOK, TaskTypeOK, CoTypeOK, NEW w \in Worker, NEW g \in Gen, TaskDies(w, g)
  PROVE  HolderStep
<1>1. RunMonotone
  BY RunFrame DEF TaskDies, dbVars
<1>2. LeasesOwn
  BY Frames DEF TaskDies
<1>3. RegOwn /\ TaskOwn
  BY EndTaskOwn DEF TaskDies
<1>4. CoOwn
  BY Frames DEF TaskDies
<1>. QED BY <1>1, <1>2, <1>3, <1>4 DEF HolderStep

LEMMA SettleHolder ==
  ASSUME RowTypeOK, TaskTypeOK, CoTypeOK, NEW w \in Worker, NEW g \in Gen, Settle(w, g)
  PROVE  HolderStep
<1>1. RunMonotone
  BY RunFrame DEF Settle, dbVars
<1>2. LeasesOwn
  BY Frames DEF Settle
<1>3. RegOwn /\ TaskOwn
  BY EndTaskOwn, ToTaskOwn DEF Settle
<1>4. CoOwn
  BY Frames DEF Settle
<1>. QED BY <1>1, <1>2, <1>3, <1>4 DEF HolderStep

LEMMA RecordPauseHolder ==
  ASSUME RowTypeOK, TaskTypeOK, CoTypeOK, NEW w \in Worker, NEW g \in Gen, RecordPause(w, g)
  PROVE  HolderStep
<1>1. RunMonotone
  BY RunFrame, RunKept DEF RecordPause
<1>2. LeasesOwn
  BY Frames DEF RecordPause
<1>3. RegOwn /\ TaskOwn
  BY EndTaskOwn DEF RecordPause
<1>4. CoOwn
  BY Frames DEF RecordPause
<1>. QED BY <1>1, <1>2, <1>3, <1>4 DEF HolderStep

LEMMA FinalizeHolder ==
  ASSUME RowTypeOK, TaskTypeOK, CoTypeOK, NEW w \in Worker, NEW g \in Gen, Finalize(w, g)
  PROVE  HolderStep
<1>1. RunMonotone
  BY RunFrame, RunTerminal DEF Finalize
<1>2. LeasesOwn
  BY LeaseLess DEF Finalize
<1>3. RegOwn /\ TaskOwn
  BY EndTaskOwn DEF Finalize
<1>4. CoOwn
  BY Frames DEF Finalize
<1>. QED BY <1>1, <1>2, <1>3, <1>4 DEF HolderStep

LEMMA SettleResumeHolder ==
  ASSUME RowTypeOK, TaskTypeOK, CoTypeOK, NEW w \in Worker, NEW g \in Gen, NEW p \in Gen, SettleResume(w, g, p)
  PROVE  HolderStep
<1>1. RunMonotone
  BY RunFrame DEF SettleResume, dbVars
<1>2. LeasesOwn
  BY Frames DEF SettleResume
<1>3. RegOwn /\ TaskOwn
  BY EndTaskOwn, ToTaskOwn DEF SettleResume
<1>4. CoOwn
  BY Frames DEF SettleResume
<1>. QED BY <1>1, <1>2, <1>3, <1>4 DEF HolderStep

LEMMA TaskObserveHolder ==
  ASSUME RowTypeOK, TaskTypeOK, CoTypeOK, NEW w \in Worker, NEW g \in Gen, NEW p \in Gen, TaskObserve(w, g, p)
  PROVE  HolderStep
<1>1. RunMonotone
  BY RunFrame DEF TaskObserve
<1>2. LeasesOwn
  BY Frames DEF TaskObserve
<1>3. RegOwn /\ TaskOwn
  BY ToTaskOwn DEF TaskObserve
<1>4. CoOwn
  BY Frames DEF TaskObserve
<1>. QED BY <1>1, <1>2, <1>3, <1>4 DEF HolderStep

LEMMA TaskReconcileHolder ==
  ASSUME RowTypeOK, TaskTypeOK, CoTypeOK, NEW w \in Worker, NEW g \in Gen, NEW p \in Gen, TaskReconcile(w, g, p)
  PROVE  HolderStep
<1>1. RunMonotone
  BY RunFrame, RunReconciled DEF TaskReconcile
<1>2. LeasesOwn
  BY Frames DEF TaskReconcile
<1>3. RegOwn /\ TaskOwn
  BY EndTaskOwn, ToTaskOwn DEF TaskReconcile
<1>4. CoOwn
  BY Frames DEF TaskReconcile
<1>. QED BY <1>1, <1>2, <1>3, <1>4 DEF HolderStep

LEMMA TaskUnknownHolder ==
  ASSUME RowTypeOK, TaskTypeOK, CoTypeOK, NEW w \in Worker, NEW g \in Gen, NEW p \in Gen, TaskUnknown(w, g, p)
  PROVE  HolderStep
<1>1. RunMonotone
  BY RunFrame DEF TaskUnknown
<1>2. LeasesOwn
  BY Frames DEF TaskUnknown
<1>3. RegOwn /\ TaskOwn
  BY EndTaskOwn DEF TaskUnknown
<1>4. CoOwn
  BY Frames DEF TaskUnknown
<1>. QED BY <1>1, <1>2, <1>3, <1>4 DEF HolderStep

LEMMA CtlResumeHolder ==
  ASSUME RowTypeOK, TaskTypeOK, CoTypeOK, NEW w \in Worker, NEW p \in Gen, CtlResume(w, p)
  PROVE  HolderStep
<1>1. RunMonotone
  BY RunFrame DEF CtlResume
<1>2. LeasesOwn
  BY Frames DEF CtlResume
<1>3. RegOwn /\ TaskOwn
  BY Frames DEF CtlResume
<1>4. CoOwn
  <2>. DEFINE r == [pc |-> "begin", gen |-> 0, cmd |-> p, then |-> "idle"]
  <2>1. co' = [co EXCEPT ![w]["ctl"] = r]
    BY DEF CtlResume
  <2>2. Own(w, r.gen)
    BY OwnHeld
  <2>. HIDE DEF r
  <2>. QED BY <2>1, <2>2, CoWriteOwn, Names
<1>. QED BY <1>1, <1>2, <1>3, <1>4 DEF HolderStep

LEMMA AcceptHolder ==
  ASSUME RowTypeOK, TaskTypeOK, CoTypeOK, NEW w \in Worker, NEW c \in Coroutine, Accept(w, c)
  PROVE  HolderStep
<1>1. RunMonotone
  BY RunGrant, NextGen DEF Accept
<1>2. LeasesOwn
  BY Frames DEF Accept
<1>3. RegOwn /\ TaskOwn
  BY Frames DEF Accept
<1>4. CoOwn
  BY GotoOwn, OwnGranted DEF Accept
<1>. QED BY <1>1, <1>2, <1>3, <1>4 DEF HolderStep

LEMMA RejoinHolder ==
  ASSUME RowTypeOK, TaskTypeOK, CoTypeOK, NEW w \in Worker, NEW c \in Coroutine, Rejoin(w, c)
  PROVE  HolderStep
<1>1. RunMonotone
  BY RunFrame DEF Rejoin, dbVars
<1>2. LeasesOwn
  BY Frames DEF Rejoin
<1>3. RegOwn /\ TaskOwn
  BY Frames DEF Rejoin
<1>4. CoOwn
  BY GotoOwn, OwnRow DEF Rejoin, dbVars
<1>. QED BY <1>1, <1>2, <1>3, <1>4 DEF HolderStep

LEMMA JoinHolder ==
  ASSUME RowTypeOK, TaskTypeOK, CoTypeOK, NEW w \in Worker, NEW c \in Coroutine, Join(w, c)
  PROVE  HolderStep
<1>1. RunMonotone
  BY RunFrame DEF Join, dbVars
<1>2. LeasesOwn
  BY LeaseOwn, CoGenType DEF Join
<1>3. RegOwn /\ TaskOwn
  BY Frames DEF Join
<1>4. CoOwn
  BY GotoOwn, CoGenType DEF Join
<1>. QED BY <1>1, <1>2, <1>3, <1>4 DEF HolderStep

LEMMA NoResumeHolder ==
  ASSUME RowTypeOK, TaskTypeOK, CoTypeOK, NEW w \in Worker, NEW c \in Coroutine, NoResume(w, c)
  PROVE  HolderStep
<1>1. RunMonotone
  BY RunFrame DEF NoResume
<1>2. LeasesOwn
  BY Frames DEF NoResume
<1>3. RegOwn /\ TaskOwn
  BY Frames DEF NoResume
<1>4. CoOwn
  BY ReturnOwn DEF NoResume
<1>. QED BY <1>1, <1>2, <1>3, <1>4 DEF HolderStep

LEMMA AdoptHolder ==
  ASSUME RowTypeOK, TaskTypeOK, CoTypeOK, NEW w \in Worker, NEW c \in Coroutine, Adopt(w, c)
  PROVE  HolderStep
<1>1. RunMonotone
  BY RunFrame DEF Adopt, dbVars
<1>2. LeasesOwn
  BY LeaseOwn, CoGenType DEF Adopt
<1>3. RegOwn /\ TaskOwn
  BY Frames DEF Adopt
<1>4. CoOwn
  BY GotoOwn, CoGenType DEF Adopt
<1>. QED BY <1>1, <1>2, <1>3, <1>4 DEF HolderStep

LEMMA ResumeReadHolder ==
  ASSUME RowTypeOK, TaskTypeOK, CoTypeOK, NEW w \in Worker, NEW c \in Coroutine, ResumeRead(w, c)
  PROVE  HolderStep
<1>1. RunMonotone
  BY RunFrame DEF ResumeRead
<1>2. LeasesOwn
  BY Frames DEF ResumeRead
<1>3. RegOwn /\ TaskOwn
  BY Frames DEF ResumeRead
<1>4. CoOwn
  BY GotoOwn, CoGenType, ReturnOwn DEF ResumeRead
<1>. QED BY <1>1, <1>2, <1>3, <1>4 DEF HolderStep

LEMMA StartResumeHolder ==
  ASSUME RowTypeOK, TaskTypeOK, CoTypeOK, NEW w \in Worker, NEW c \in Coroutine, StartResume(w, c)
  PROVE  HolderStep
<1>1. RunMonotone
  BY RunFrame DEF StartResume
<1>2. LeasesOwn
  BY Frames DEF StartResume
<1>3. RegOwn /\ TaskOwn
  BY Frames DEF StartResume
<1>4. CoOwn
  BY GotoOwn, CoGenType, ReturnOwn DEF StartResume
<1>. QED BY <1>1, <1>2, <1>3, <1>4 DEF HolderStep

LEMMA ResumeSpawnHolder ==
  ASSUME RowTypeOK, TaskTypeOK, CoTypeOK, NEW w \in Worker, NEW c \in Coroutine, ResumeSpawn(w, c)
  PROVE  HolderStep
<1>1. RunMonotone
  BY RunFrame DEF ResumeSpawn
<1>2. LeasesOwn
  BY Frames DEF ResumeSpawn
<1>3. RegOwn /\ TaskOwn
  BY Frames, SpawnOwn, CoGenType DEF ResumeSpawn
<1>4. CoOwn
  BY ReturnOwn DEF ResumeSpawn
<1>. QED BY <1>1, <1>2, <1>3, <1>4 DEF HolderStep

LEMMA CoObserveHolder ==
  ASSUME RowTypeOK, TaskTypeOK, CoTypeOK, NEW w \in Worker, NEW c \in Coroutine, CoObserve(w, c)
  PROVE  HolderStep
<1>1. RunMonotone
  BY RunFrame DEF CoObserve
<1>2. LeasesOwn
  BY Frames DEF CoObserve
<1>3. RegOwn /\ TaskOwn
  BY Frames DEF CoObserve
<1>4. CoOwn
  BY GotoOwn, CoGenType DEF CoObserve
<1>. QED BY <1>1, <1>2, <1>3, <1>4 DEF HolderStep

LEMMA CoReconcileHolder ==
  ASSUME RowTypeOK, TaskTypeOK, CoTypeOK, NEW w \in Worker, NEW c \in Coroutine, CoReconcile(w, c)
  PROVE  HolderStep
<1>1. RunMonotone
  BY RunFrame, RunReconciled DEF CoReconcile
<1>2. LeasesOwn
  BY Frames DEF CoReconcile
<1>3. RegOwn /\ TaskOwn
  BY Frames DEF CoReconcile
<1>4. CoOwn
  BY ReturnOwn DEF CoReconcile
<1>. QED BY <1>1, <1>2, <1>3, <1>4 DEF HolderStep

LEMMA CoUnknownHolder ==
  ASSUME RowTypeOK, TaskTypeOK, CoTypeOK, NEW w \in Worker, NEW c \in Coroutine, CoUnknown(w, c)
  PROVE  HolderStep
<1>1. RunMonotone
  BY RunFrame DEF CoUnknown
<1>2. LeasesOwn
  BY Frames DEF CoUnknown
<1>3. RegOwn /\ TaskOwn
  BY Frames DEF CoUnknown
<1>4. CoOwn
  BY ReturnOwn DEF CoUnknown
<1>. QED BY <1>1, <1>2, <1>3, <1>4 DEF HolderStep

LEMMA BeatRenewHolder ==
  ASSUME RowTypeOK, TaskTypeOK, CoTypeOK, NEW w \in Worker, BeatRenew(w)
  PROVE  HolderStep
<1>1. RunMonotone
  BY RunFrame, RunKept DEF BeatRenew
<1>2. LeasesOwn
  BY Frames DEF BeatRenew
<1>3. RegOwn /\ TaskOwn
  BY Frames DEF BeatRenew
<1>4. CoOwn
  BY GotoOwn, OwnHeld, Names DEF BeatRenew
<1>. QED BY <1>1, <1>2, <1>3, <1>4 DEF HolderStep

LEMMA BeatYieldHolder ==
  ASSUME RowTypeOK, TaskTypeOK, CoTypeOK, NEW w \in Worker, BeatYield(w)
  PROVE  HolderStep
<1>1. RunMonotone
  BY RunFrame DEF BeatYield, dbVars
<1>2. LeasesOwn
  BY Frames, LeaseLess DEF BeatYield
<1>3. RegOwn /\ TaskOwn
  BY Frames, CancelOwn DEF BeatYield
<1>4. CoOwn
  BY GotoOwn, OwnHeld, Names DEF BeatYield
<1>. QED BY <1>1, <1>2, <1>3, <1>4 DEF HolderStep

LEMMA BeatReclaimHolder ==
  ASSUME RowTypeOK, TaskTypeOK, CoTypeOK, NEW w \in Worker, BeatReclaim(w)
  PROVE  HolderStep
<1>1. RunMonotone
  BY RunGrant, NextGen DEF BeatReclaim
<1>2. LeasesOwn
  BY Frames DEF BeatReclaim
<1>3. RegOwn /\ TaskOwn
  BY Frames DEF BeatReclaim
<1>4. CoOwn
  BY GotoOwn, OwnGranted, Names DEF BeatReclaim
<1>. QED BY <1>1, <1>2, <1>3, <1>4 DEF HolderStep

LEMMA BeatTakeOverHolder ==
  ASSUME RowTypeOK, TaskTypeOK, CoTypeOK, NEW w \in Worker, BeatTakeOver(w)
  PROVE  HolderStep
<1>1. RunMonotone
  BY RunFrame DEF BeatTakeOver, dbVars
<1>2. LeasesOwn
  BY LeaseOwn, CoGenType, Names DEF BeatTakeOver
<1>3. RegOwn /\ TaskOwn
  BY CancelOwn DEF BeatTakeOver
<1>4. CoOwn
  <2>. DEFINE r == [pc |-> "build", gen |-> CoGen(w, "beat"), cmd |-> 0, then |-> "sweep"]
              s == [Idle EXCEPT !.pc = "sweep"]
  <2>1. co' = [co EXCEPT ![w]["beat"] = r] \/ co' = [co EXCEPT ![w]["beat"] = s]
    BY DEF BeatTakeOver
  <2>2. Own(w, r.gen)
    BY CoGenType, Names
  <2>3. s.gen = 0
    BY DEF Idle
  <2>4. Own(w, s.gen)
    BY <2>3, OwnHeld
  <2>. HIDE DEF r, s
  <2>. QED BY <2>1, <2>2, <2>4, CoWriteOwn, Names
<1>. QED BY <1>1, <1>2, <1>3, <1>4 DEF HolderStep

LEMMA BeatReapplyHolder ==
  ASSUME RowTypeOK, TaskTypeOK, CoTypeOK, NEW w \in Worker, NEW p \in Gen, BeatReapply(w, p)
  PROVE  HolderStep
<1>1. RunMonotone
  BY RunFrame DEF BeatReapply, dbVars
<1>2. LeasesOwn
  BY Frames DEF BeatReapply
<1>3. RegOwn /\ TaskOwn
  BY Frames DEF BeatReapply
<1>4. CoOwn
  <2>. DEFINE r == [pc |-> "begin", gen |-> 0, cmd |-> p, then |-> "sweep"]
  <2>1. co' = [co EXCEPT ![w]["beat"] = r]
    BY DEF BeatReapply
  <2>2. Own(w, r.gen)
    BY OwnHeld
  <2>. HIDE DEF r
  <2>. QED BY <2>1, <2>2, CoWriteOwn, Names
<1>. QED BY <1>1, <1>2, <1>3, <1>4 DEF HolderStep

LEMMA BeatReconcileHolder ==
  ASSUME RowTypeOK, TaskTypeOK, CoTypeOK, NEW w \in Worker, NEW p \in Gen, BeatReconcile(w, p)
  PROVE  HolderStep
<1>1. RunMonotone
  BY RunFrame DEF BeatReconcile, dbVars
<1>2. LeasesOwn
  BY Frames DEF BeatReconcile
<1>3. RegOwn /\ TaskOwn
  BY Frames DEF BeatReconcile
<1>4. CoOwn
  <2>. DEFINE r == [pc |-> "begin", gen |-> 0, cmd |-> p, then |-> "idle"]
  <2>1. co' = [co EXCEPT ![w]["beat"] = r]
    BY DEF BeatReconcile
  <2>2. Own(w, r.gen)
    BY OwnHeld
  <2>. HIDE DEF r
  <2>. QED BY <2>1, <2>2, CoWriteOwn, Names
<1>. QED BY <1>1, <1>2, <1>3, <1>4 DEF HolderStep

LEMMA BeatRestHolder ==
  ASSUME RowTypeOK, TaskTypeOK, CoTypeOK, NEW w \in Worker, BeatRest(w)
  PROVE  HolderStep
<1>1. RunMonotone
  BY RunFrame DEF BeatRest, dbVars
<1>2. LeasesOwn
  BY Frames DEF BeatRest
<1>3. RegOwn /\ TaskOwn
  BY Frames DEF BeatRest
<1>4. CoOwn
  BY ReturnOwn, Names DEF BeatRest
<1>. QED BY <1>1, <1>2, <1>3, <1>4 DEF HolderStep

LEMMA CancelCommitHolder ==
  ASSUME RowTypeOK, TaskTypeOK, CoTypeOK, NEW w \in Worker, NEW c \in Coroutine, CancelCommit(w, c)
  PROVE  HolderStep
<1>1. RunMonotone
  BY RunGrant, NextGen DEF CancelCommit
<1>2. LeasesOwn
  BY LeaseOwn, OwnGranted DEF CancelCommit
<1>3. RegOwn /\ TaskOwn
  BY Frames DEF CancelCommit
<1>4. CoOwn
  <2>. DEFINE r == [pc |-> "cancelled", gen |-> NextGeneration, cmd |-> 0,
                    then |-> IF c = "beat" THEN "sweep" ELSE "idle"]
  <2>1. co' = [co EXCEPT ![w][c] = r]
    BY DEF CancelCommit
  <2>2. Own(w, r.gen)
    BY OwnGranted DEF CancelCommit
  <2>. HIDE DEF r
  <2>. QED BY <2>1, <2>2, CoWriteOwn
<1>. QED BY <1>1, <1>2, <1>3, <1>4 DEF HolderStep

LEMMA CancelLocalHolder ==
  ASSUME RowTypeOK, TaskTypeOK, CoTypeOK, NEW w \in Worker, NEW c \in Coroutine, CancelLocal(w, c)
  PROVE  HolderStep
<1>1. RunMonotone
  BY RunFrame DEF CancelLocal, dbVars
<1>2. LeasesOwn
  BY LeaseLess DEF CancelLocal
<1>3. RegOwn /\ TaskOwn
  BY CancelOwn DEF CancelLocal
<1>4. CoOwn
  BY ReturnOwn DEF CancelLocal
<1>. QED BY <1>1, <1>2, <1>3, <1>4 DEF HolderStep

-----------------------------------------------------------------------------
(* The invariant *)

\* Every step only lets a worker keep what it may keep.
LEMMA NextHolder ==
  ASSUME TypeOK, [Next]_vars
  PROVE  HolderStep
<1>. RowTypeOK /\ TaskTypeOK /\ CoTypeOK
  BY DEF TypeOK
<1>1. ASSUME UNCHANGED vars PROVE HolderStep
  <2>1. UNCHANGED <<run, leases, reg, task, co>>
    BY <1>1 DEF vars
  <2>. QED BY <2>1, RunFrame, Frames DEF HolderStep
<1>2. CASE Launch \/ SubmitResume \/ SubmitCancel \/ Age \/ Rest
  BY <1>1, <1>2, LaunchHolder, SubmitResumeHolder, SubmitCancelHolder, AgeHolder DEF Rest
<1>3. ASSUME NEW w \in Worker, Crash(w) \/ Serve(w) \/ Beat(w)
      PROVE  HolderStep
  <2>1. CASE Crash(w) \/ Serve(w)
    BY <2>1, CrashHolder, ReceiveDispatchHolder, ClaimWinHolder, ClaimLoseHolder DEF Serve
  <2>2. CASE Beat(w)
    BY <2>2, BeatRenewHolder, BeatYieldHolder, BeatReclaimHolder, BeatTakeOverHolder,
       BeatRestHolder, BeatReapplyHolder, BeatReconcileHolder DEF Beat
  <2>. QED BY <1>3, <2>1, <2>2
<1>4. ASSUME NEW w \in Worker, NEW c \in Coroutine,
             Start(w, c) \/ Resume(w, c) \/ CancelCommit(w, c) \/ CancelLocal(w, c)
      PROVE  HolderStep
  <2>1. CASE Start(w, c)
    BY <2>1, BuildOkHolder, BuildFailHolder, StartSpawnHolder, StartStaleHolder,
       StartUnattributedHolder DEF Start
  <2>2. CASE Resume(w, c)
    BY <2>2, AcceptHolder, AdoptHolder, RejoinHolder, JoinHolder, NoResumeHolder,
       ResumeReadHolder, StartResumeHolder, ResumeSpawnHolder, CoObserveHolder,
       CoReconcileHolder, CoUnknownHolder DEF Resume
  <2>. QED BY <1>4, <2>1, <2>2, CancelCommitHolder, CancelLocalHolder
<1>5. ASSUME NEW w \in Worker, NEW p \in Gen, CtlResume(w, p) PROVE HolderStep
  BY <1>5, CtlResumeHolder
<1>6. ASSUME NEW w \in Worker, NEW g \in Gen,
             Native(w, g) \/ Settling(w, g) \/ TaskDies(w, g)
      PROVE  HolderStep
  <2>1. CASE Native(w, g)
    BY <2>1, ConsumeHolder, InterruptHolder, FinishHolder, NativeErrorHolder DEF Native
  <2>2. CASE Settling(w, g)
    BY <2>2, TaskGateHolder, SettleHolder, RecordPauseHolder, FinalizeHolder,
       SettleResumeHolder, TaskObserveHolder, TaskReconcileHolder, TaskUnknownHolder
       DEF Settling
  <2>. QED BY <1>6, <2>1, <2>2, TaskDiesHolder
<1>. QED BY <1>1, <1>2, <1>3, <1>4, <1>5, <1>6 DEF Next

\* What a worker holds after the step it held before, or the row grants it.
LEMMA HeldOwn ==
  ASSUME HolderStep, NEW v \in Worker, NEW g \in Held(v)'
  PROVE  g \in Held(v) \/ (g = run'.gen /\ v = run'.owner)
<1>1. g # 0 /\ \/ g = leases'[v]
               \/ g = reg'[v]
               \/ \E c \in Coroutine : g = co'[v][c].gen
               \/ g \in Gen /\ task'[v][g] # "none"
  BY DEF Held, CoGens, CoGen, TaskGens
<1>2. Own(v, g)
  BY <1>1 DEF HolderStep, LeasesOwn, RegOwn, TaskOwn, CoOwn
<1>. QED BY <1>1, <1>2 DEF Own

LEMMA HeldType ==
  ASSUME TypeOK, NEW v \in Worker, NEW g \in Held(v)
  PROVE  g \in Nat
BY MaxGenAssumption
   DEF TypeOK, TaskTypeOK, CoTypeOK, CoState, Held, CoGens, CoGen, TaskGens, Gen, Gen0

LEMMA HolderPreserved ==
  ASSUME TypeOK, TypeOK', OneHolderPerGeneration, [Next]_vars
  PROVE  OneHolderPerGeneration'
<1>1. HolderStep
  BY NextHolder
<1>2. run.gen \in Nat /\ run'.gen \in Nat
  BY MaxGenAssumption DEF TypeOK, RowTypeOK, RowType, Gen0
<1>3. RunMonotone
  BY <1>1 DEF HolderStep
<1>4. ASSUME NEW w \in Worker, NEW g \in Held(w)'
      PROVE  g <= run'.gen /\ (g = run'.gen => run'.owner = w)
  <2>1. CASE g = run'.gen /\ w = run'.owner
    BY <1>2, <2>1
  <2>2. CASE g \in Held(w)
    <3>1. g \in Nat
      BY <2>2, HeldType
    <3>2. g <= run.gen /\ (g = run.gen => run.owner = w)
      BY <2>2 DEF OneHolderPerGeneration
    <3>. QED BY <1>2, <1>3, <3>1, <3>2 DEF RunMonotone
  <2>. QED BY <1>1, <2>1, <2>2, HeldOwn
<1>5. ASSUME NEW v \in Worker, NEW w \in Worker, v # w,
             NEW g \in Held(v)', g \in Held(w)'
      PROVE  FALSE
  <2>1. CASE g \in Held(v) /\ g \in Held(w)
    BY <1>5, <2>1 DEF OneHolderPerGeneration
  <2>2. CASE g = run'.gen
    BY <1>4, <1>5, <2>2
  <2>. QED BY <1>1, <1>5, <2>1, <2>2, HeldOwn
<1>6. \A v, w \in Worker : v # w => (Held(v) \cap Held(w) = {})'
  BY <1>5
<1>. QED BY <1>4, <1>6 DEF OneHolderPerGeneration

LEMMA HolderInit == Init => OneHolderPerGeneration
<1>. SUFFICES ASSUME Init PROVE OneHolderPerGeneration
  OBVIOUS
<1>1. \A w \in Worker : Held(w) = {}
  BY DEF Init, Held, CoGens, CoGen, TaskGens, Idle
<1>. QED BY <1>1 DEF OneHolderPerGeneration

\* No two workers ever act under the same generation of the run, and the one that
\* acts under the current generation is the owner of the lease row: for any number
\* of workers, generations, crashes and expiries.
THEOREM OneHolder == Spec => []OneHolderPerGeneration
<1>1. TypeOK /\ TypeOK' /\ OneHolderPerGeneration /\ [Next]_vars
      => OneHolderPerGeneration'
  BY HolderPreserved
<1>. QED BY <1>1, HolderInit, TypeCorrect, PTL DEF Spec
=============================================================================
