------------------------ MODULE RunLifecycleEntryProofs ------------------------
(***************************************************************************)
(* How the agent graph is entered.  Whatever the request loop, the control *)
(* listener and the scans of the heartbeat start in the meantime, at most  *)
(* one way into the graph is open under a generation, it closes when the   *)
(* graph is entered, and it never opens again.  The argument needs all the *)
(* parts of the run: who holds a generation (OneHolder), which answer the  *)
(* head names (HeadInv), and what the row grants (RowInv).                 *)
(***************************************************************************)
EXTENDS RunLifecycleRowProofs

\* The ways into the agent graph: a start or a resume that is about to spawn its
\* task, or the task that was spawned and has not passed the gate.
Way == Coroutine \cup {"task"}

Initial(v, k, g) ==
  \/ k = "task" /\ task[v][g] = "queued"
  \/ k \in Coroutine /\ co[v][k].gen = g /\ co[v][k].pc \in {"build", "sread"}

Resuming(v, k, g) ==
  \/ k = "task" /\ task[v][g] = "rqueued"
  \/ k \in Coroutine /\ co[v][k].gen = g /\ co[v][k].pc = "rspawn"

Enters(v, k, g) == Initial(v, k, g) \/ Resuming(v, k, g)

\* The heartbeat that has reclaimed generation g and has not acted on it yet.
Taken(v, g) == co[v]["beat"].pc = "taken" /\ co[v]["beat"].gen = g

\* A task beyond the gate.
Running == TaskPC \ {"none", "queued", "rqueued"}

\* Places of a resume before its attempt is recorded.
AskPC == {"begin", "adopt", "join", "rbuild", "rread", "rstart"}

\* One way into a generation is open at most, only until the graph is entered.
OneWay ==
  \A v \in Worker, g \in Gen :
    /\ \A j, k \in Way : Enters(v, j, g) /\ Enters(v, k, g) => j = k
    /\ \A k \in Way : Enters(v, k, g) => invoked[g] = 0

\* A run that was answered once is never started again, only resumed, and the
\* current generation enters the graph only for an answer no longer startable.
StartBeforeAnswer ==
  \A v \in Worker, k \in Way, g \in Gen :
    /\ g = run.gen /\ Initial(v, k, g) => head.cmd = 0
    /\ Resuming(v, k, g) => head.cmd # 0
    /\ g = run.gen /\ Resuming(v, k, g) => intent[head.cmd] # "accepted"

EnteredOnce ==
  \A g \in Gen :
    /\ g = run.gen /\ head.cmd # 0 /\ invoked[g] > 0 => intent[head.cmd] # "accepted"
    /\ g > run.gen => invoked[g] = 0
    /\ invoked[g] <= 1

\* A generation just reclaimed has not been started.
TakenIsFresh ==
  \A v \in Worker, g \in Gen :
    Taken(v, g) => /\ \A k \in Way : ~Initial(v, k, g)
                   /\ head.cmd = 0 => invoked[g] = 0

\* What runs, and what the thread says, was entered before.
EvidenceIsEntered ==
  /\ \A v \in Worker, g \in Gen : task[v][g] \in Running => invoked[g] > 0
  /\ native.leaf # 0 => invoked[native.leaf] > 0

\* Whoever starts knows its generation, whoever resumes its command.
Named ==
  \A v \in Worker, c \in Coroutine :
    /\ co[v][c].pc \in {"build", "sread", "rspawn", "taken"} => co[v][c].gen # 0
    /\ co[v][c].pc \in AskPC => co[v][c].cmd # 0

\* The answer to a pause is handed over by the one attempt recorded for it.
AttemptIsOne ==
  \A p \in Gen :
    /\ resumed[p] <= 1
    /\ resumed[p] > 0 => attempt[p] # 0 /\ invoked[attempt[p]] > 0
    /\ intent[p] \in {"none", "accepted"} => attempt[p] = 0

EntryInv ==
  /\ OneWay /\ StartBeforeAnswer /\ EnteredOnce /\ TakenIsFresh
  /\ EvidenceIsEntered /\ Named /\ AttemptIsOne

\* A heartbeat that is to yield a generation found it lost, and lost it stays.
YieldIsLate ==
  \A v \in Worker :
    co[v]["beat"].pc = "yield" =>
      /\ co[v]["beat"].gen # 0
      /\ ~(Fence(v, co[v]["beat"].gen) /\ run.expiry = "live")

-----------------------------------------------------------------------------
(* Quiet steps: what almost every action does *)

\* A coroutine that opens no way and takes no generation.
Quieter(old, new) ==
  /\ new.pc \in {"build", "sread"} => old.pc \in {"build", "sread"} /\ new.gen = old.gen
  /\ new.pc \in {"rspawn", "taken"} => new.pc = old.pc /\ new.gen = old.gen
  /\ new.pc \in AskPC => new.cmd # 0 \/ (old.pc \in AskPC /\ new.cmd = old.cmd)

\* It neither begins to yield nor stops without dying.
Steady(old, new) ==
  /\ new.pc = "yield" => new = old
  /\ old.pc = "yield" => new = old \/ new.pc = "idle"

CoQuiet == \A v \in Worker, c \in Coroutine : Quieter(co[v][c], co'[v][c])
Patient == \A v \in Worker, c \in Coroutine : Steady(co[v][c], co'[v][c])

TaskQuiet ==
  \A v \in Worker, g \in Gen :
    \/ task'[v][g] = task[v][g]
    \/ task'[v][g] = "none"
    \/ {task[v][g], task'[v][g]} \subseteq Running

\* The thread keeps its pause, loses it, or gets one from a running task.
NativeStep ==
  \/ native'.leaf \in {0, native.leaf}
  \/ native'.leaf \in Gen /\ \E v \in Worker : task[v][native'.leaf] \in Running

Quiet == CoQuiet /\ TaskQuiet /\ NativeStep /\ UNCHANGED histVars

LEMMA CoFrame == UNCHANGED co => CoQuiet /\ Patient
BY DEF CoQuiet, Patient, Quieter, Steady

LEMMA TaskFrame == UNCHANGED task => TaskQuiet
BY DEF TaskQuiet

LEMMA CoWrite ==
  ASSUME CoTypeOK, NEW w \in Worker, NEW c \in Coroutine, NEW r,
         co' = [co EXCEPT ![w][c] = r]
  PROVE  /\ Quieter(co[w][c], r) => CoQuiet
         /\ Steady(co[w][c], r) => Patient
         /\ \A v \in Worker, d \in Coroutine :
              co'[v][d] = IF v = w /\ d = c THEN r ELSE co[v][d]
<1>1. \A v \in Worker, d \in Coroutine :
        co'[v][d] = IF v = w /\ d = c THEN r ELSE co[v][d]
  BY DEF CoTypeOK
<1>2. ASSUME NEW v \in Worker, NEW d \in Coroutine
      PROVE  Quieter(co[v][d], co[v][d]) /\ Steady(co[v][d], co[v][d])
  BY DEF Quieter, Steady
<1>3. ASSUME Quieter(co[w][c], r) PROVE CoQuiet
  <2>1. ASSUME NEW v \in Worker, NEW d \in Coroutine
        PROVE  Quieter(co[v][d], co'[v][d])
    <3>1. CASE v = w /\ d = c
      BY <1>1, <1>3, <3>1
    <3>2. CASE ~(v = w /\ d = c)
      <4>1. co'[v][d] = co[v][d]
        BY <1>1, <3>2
      <4>. QED BY <1>2, <4>1
    <3>. QED BY <3>1, <3>2
  <2>. QED BY <2>1 DEF CoQuiet
<1>4. ASSUME Steady(co[w][c], r) PROVE Patient
  <2>1. ASSUME NEW v \in Worker, NEW d \in Coroutine
        PROVE  Steady(co[v][d], co'[v][d])
    <3>1. CASE v = w /\ d = c
      BY <1>1, <1>4, <3>1
    <3>2. CASE ~(v = w /\ d = c)
      <4>1. co'[v][d] = co[v][d]
        BY <1>1, <3>2
      <4>. QED BY <1>2, <4>1
    <3>. QED BY <3>1, <3>2
  <2>. QED BY <2>1 DEF Patient
<1>. QED BY <1>1, <1>3, <1>4

LEMMA GotoQuiet ==
  ASSUME CoTypeOK, NEW w \in Worker, NEW c \in Coroutine, NEW pc, NEW g,
         Goto(w, c, pc, g),
         pc \notin {"build", "sread", "rspawn", "taken"},
         pc \in AskPC => co[w][c].pc \in AskPC
  PROVE  /\ CoQuiet
         /\ pc # "yield" /\ ~At(w, c, "yield") => Patient
<1>. DEFINE r == [pc |-> pc, gen |-> g, cmd |-> co[w][c].cmd, then |-> co[w][c].then]
<1>1. co' = [co EXCEPT ![w][c] = r]
  BY DEF Goto
<1>2. Quieter(co[w][c], r)
  BY DEF Quieter
<1>3. pc # "yield" /\ ~At(w, c, "yield") => Steady(co[w][c], r)
  BY DEF Steady, At
<1>. HIDE DEF r
<1>. QED BY <1>1, <1>2, <1>3, CoWrite

LEMMA ReturnQuiet ==
  ASSUME CoTypeOK, NEW w \in Worker, NEW c \in Coroutine, Return(w, c) \/ Raise(w, c)
  PROVE  /\ CoQuiet
         /\ ~At(w, c, "yield") => Patient
<1>1. co[w][c].then \in {"idle", "sweep"}
  BY DEF CoTypeOK, CoState
<1>2. PICK r \in {Idle, [Idle EXCEPT !.pc = co[w][c].then]} : co' = [co EXCEPT ![w][c] = r]
  BY DEF Return, Raise
<1>3. r.pc \in {"idle", "sweep"}
  BY <1>1, <1>2 DEF Idle
<1>4. Quieter(co[w][c], r)
  BY <1>3 DEF Quieter, AskPC
<1>5. ~At(w, c, "yield") => Steady(co[w][c], r)
  BY <1>3 DEF Steady, At
<1>. QED BY <1>2, <1>4, <1>5, CoWrite

LEMMA AskQuiet ==
  ASSUME CoTypeOK, NEW w \in Worker, NEW c \in Coroutine, NEW p \in Gen, NEW t,
         co' = [co EXCEPT ![w][c] = [pc |-> "begin", gen |-> 0, cmd |-> p, then |-> t]],
         ~At(w, c, "yield")
  PROVE  CoQuiet /\ Patient
<1>. DEFINE r == [pc |-> "begin", gen |-> 0, cmd |-> p, then |-> t]
<1>1. Quieter(co[w][c], r) /\ Steady(co[w][c], r)
  BY Generations DEF Quieter, Steady, At
<1>2. co' = [co EXCEPT ![w][c] = r]
  OBVIOUS
<1>. HIDE DEF r
<1>. QED BY <1>1, <1>2, CoWrite

LEMMA TaskEnds ==
  ASSUME TaskTypeOK, NEW w \in Worker, NEW g \in Gen, EndTask(w, g)
  PROVE  TaskQuiet
BY DEF TaskTypeOK, EndTask, TaskQuiet

LEMMA TaskGoesOn ==
  ASSUME TaskTypeOK, NEW w \in Worker, NEW g \in Gen, NEW pc \in Running,
         task[w][g] \in Running, ToTask(w, g, pc)
  PROVE  TaskQuiet
BY DEF TaskTypeOK, ToTask, TaskQuiet

LEMMA TaskCancelled ==
  ASSUME TaskTypeOK, NEW w \in Worker, CancelRegistered(w)
  PROVE  TaskQuiet
BY DEF TaskTypeOK, CancelRegistered, TaskQuiet

\* The places of a task, told apart once.
LEMMA RunningPlaces ==
  {"run", "settle", "pausing", "fin", "resume", "rrun", "rsettle",
   "rec_wait", "rec_act", "rec_unk", "rcm_wait", "rcm_act"} = Running
BY DEF Running, TaskPC

-----------------------------------------------------------------------------
(* One lemma per quiet action *)

LEMMA LaunchQuiet ==
  ASSUME TaskTypeOK, CoTypeOK, HistoryTypeOK, Launch
  PROVE  Quiet /\ Patient
<1>1. CoQuiet /\ Patient
  BY CoFrame DEF Launch, localVars
<1>2. TaskQuiet
  BY TaskFrame DEF Launch, localVars
<1>3. NativeStep /\ UNCHANGED histVars
  BY DEF Launch, NativeStep, histVars
<1>. QED BY <1>1, <1>2, <1>3 DEF Quiet

LEMMA SubmitResumeQuiet ==
  ASSUME TaskTypeOK, CoTypeOK, HistoryTypeOK, SubmitResume
  PROVE  Quiet /\ Patient
<1>1. CoQuiet /\ Patient
  BY CoFrame DEF SubmitResume, localVars
<1>2. TaskQuiet
  BY TaskFrame DEF SubmitResume, localVars
<1>3. NativeStep /\ UNCHANGED histVars
  BY DEF SubmitResume, NativeStep, histVars
<1>. QED BY <1>1, <1>2, <1>3 DEF Quiet

LEMMA SubmitCancelQuiet ==
  ASSUME TaskTypeOK, CoTypeOK, HistoryTypeOK, SubmitCancel
  PROVE  Quiet /\ Patient
<1>1. CoQuiet /\ Patient
  BY CoFrame DEF SubmitCancel, localVars
<1>2. TaskQuiet
  BY TaskFrame DEF SubmitCancel, localVars
<1>3. NativeStep /\ UNCHANGED histVars
  BY DEF SubmitCancel, NativeStep, histVars
<1>. QED BY <1>1, <1>2, <1>3 DEF Quiet

LEMMA AgeQuiet ==
  ASSUME TaskTypeOK, CoTypeOK, HistoryTypeOK, Age
  PROVE  Quiet /\ Patient
<1>1. CoQuiet /\ Patient
  BY CoFrame DEF Age, localVars
<1>2. TaskQuiet
  BY TaskFrame DEF Age, localVars
<1>3. NativeStep /\ UNCHANGED histVars
  BY DEF Age, NativeStep, histVars
<1>. QED BY <1>1, <1>2, <1>3 DEF Quiet

LEMMA CrashQuiet ==
  ASSUME TaskTypeOK, CoTypeOK, HistoryTypeOK, NEW w \in Worker, Crash(w)
  PROVE  Quiet /\ Patient
<1>1. CoQuiet /\ Patient
  BY DEF Crash, CoTypeOK, CoQuiet, Patient, Quieter, Steady, Idle, AskPC
<1>2. TaskQuiet
  BY DEF Crash, TaskTypeOK, TaskQuiet
<1>3. NativeStep /\ UNCHANGED histVars
  BY DEF Crash, NativeStep, histVars
<1>. QED BY <1>1, <1>2, <1>3 DEF Quiet

LEMMA ReceiveDispatchQuiet ==
  ASSUME TaskTypeOK, CoTypeOK, HistoryTypeOK, NEW w \in Worker, ReceiveDispatch(w)
  PROVE  Quiet /\ Patient
<1>1. CoQuiet /\ Patient
  BY GotoQuiet, Literals DEF ReceiveDispatch, At, AskPC
<1>2. TaskQuiet
  BY TaskFrame DEF ReceiveDispatch
<1>3. NativeStep /\ UNCHANGED histVars
  BY DEF ReceiveDispatch, NativeStep, histVars
<1>. QED BY <1>1, <1>2, <1>3 DEF Quiet

LEMMA ClaimLoseQuiet ==
  ASSUME TaskTypeOK, CoTypeOK, HistoryTypeOK, NEW w \in Worker, ClaimLose(w)
  PROVE  Quiet /\ Patient
<1>1. CoQuiet /\ Patient
  BY ReturnQuiet, Literals DEF ClaimLose, At
<1>2. TaskQuiet
  BY TaskFrame DEF ClaimLose
<1>3. NativeStep /\ UNCHANGED histVars
  BY DEF ClaimLose, NativeStep, histVars
<1>. QED BY <1>1, <1>2, <1>3 DEF Quiet

LEMMA BuildFailQuiet ==
  ASSUME TaskTypeOK, CoTypeOK, HistoryTypeOK, NEW w \in Worker, NEW c \in Coroutine, BuildFail(w, c)
  PROVE  Quiet /\ Patient
<1>1. CoQuiet /\ Patient
  BY ReturnQuiet DEF BuildFail, At
<1>2. TaskQuiet
  BY TaskFrame DEF BuildFail
<1>3. NativeStep /\ UNCHANGED histVars
  BY DEF BuildFail, NativeStep, histVars
<1>. QED BY <1>1, <1>2, <1>3 DEF Quiet

LEMMA StartStaleQuiet ==
  ASSUME TaskTypeOK, CoTypeOK, HistoryTypeOK, NEW w \in Worker, NEW c \in Coroutine, StartStale(w, c)
  PROVE  Quiet /\ Patient
<1>1. CoQuiet /\ Patient
  BY ReturnQuiet DEF StartStale, At
<1>2. TaskQuiet
  BY TaskFrame DEF StartStale
<1>3. NativeStep /\ UNCHANGED histVars
  BY DEF StartStale, NativeStep, histVars
<1>. QED BY <1>1, <1>2, <1>3 DEF Quiet

LEMMA StartUnattributedQuiet ==
  ASSUME TaskTypeOK, CoTypeOK, HistoryTypeOK, NEW w \in Worker, NEW c \in Coroutine, StartUnattributed(w, c)
  PROVE  Quiet /\ Patient
<1>1. CoQuiet /\ Patient
  BY ReturnQuiet DEF StartUnattributed, At
<1>2. TaskQuiet
  BY TaskFrame DEF StartUnattributed
<1>3. NativeStep /\ UNCHANGED histVars
  BY DEF StartUnattributed, NativeStep, histVars
<1>. QED BY <1>1, <1>2, <1>3 DEF Quiet

LEMMA ConsumeQuiet ==
  ASSUME TaskTypeOK, CoTypeOK, HistoryTypeOK, NEW w \in Worker, NEW g \in Gen, Consume(w, g)
  PROVE  Quiet /\ Patient
<1>1. CoQuiet /\ Patient
  BY CoFrame DEF Consume
<1>2. TaskQuiet
  BY TaskGoesOn, RunningPlaces DEF Consume
<1>3. NativeStep /\ UNCHANGED histVars
  BY DEF Consume, NativeStep, HistoryTypeOK
<1>. QED BY <1>1, <1>2, <1>3 DEF Quiet

LEMMA InterruptQuiet ==
  ASSUME TaskTypeOK, CoTypeOK, HistoryTypeOK, NEW w \in Worker, NEW g \in Gen, Interrupt(w, g)
  PROVE  Quiet /\ Patient
<1>1. CoQuiet /\ Patient
  BY CoFrame DEF Interrupt
<1>2. TaskQuiet
  BY TaskGoesOn, RunningPlaces DEF Interrupt
<1>3. NativeStep /\ UNCHANGED histVars
  <2>1. native'.leaf = g
    BY DEF Interrupt, HistoryTypeOK
  <2>2. task[w][g] \in Running
    BY RunningPlaces DEF Interrupt
  <2>. QED BY <2>1, <2>2 DEF Interrupt, NativeStep
<1>. QED BY <1>1, <1>2, <1>3 DEF Quiet

LEMMA FinishQuiet ==
  ASSUME TaskTypeOK, CoTypeOK, HistoryTypeOK, NEW w \in Worker, NEW g \in Gen, Finish(w, g)
  PROVE  Quiet /\ Patient
<1>1. CoQuiet /\ Patient
  BY CoFrame DEF Finish
<1>2. TaskQuiet
  BY TaskGoesOn, RunningPlaces DEF Finish
<1>3. NativeStep /\ UNCHANGED histVars
  BY DEF Finish, NativeStep
<1>. QED BY <1>1, <1>2, <1>3 DEF Quiet

LEMMA NativeErrorQuiet ==
  ASSUME TaskTypeOK, CoTypeOK, HistoryTypeOK, NEW w \in Worker, NEW g \in Gen, NativeError(w, g)
  PROVE  Quiet /\ Patient
<1>1. CoQuiet /\ Patient
  BY CoFrame DEF NativeError
<1>2. TaskQuiet
  BY TaskGoesOn, RunningPlaces DEF NativeError
<1>3. NativeStep /\ UNCHANGED histVars
  BY DEF NativeError, NativeStep, histVars
<1>. QED BY <1>1, <1>2, <1>3 DEF Quiet

LEMMA TaskDiesQuiet ==
  ASSUME TaskTypeOK, CoTypeOK, HistoryTypeOK, NEW w \in Worker, NEW g \in Gen, TaskDies(w, g)
  PROVE  Quiet /\ Patient
<1>1. CoQuiet /\ Patient
  BY CoFrame DEF TaskDies
<1>2. TaskQuiet
  BY TaskEnds DEF TaskDies
<1>3. NativeStep /\ UNCHANGED histVars
  BY DEF TaskDies, NativeStep, histVars
<1>. QED BY <1>1, <1>2, <1>3 DEF Quiet

LEMMA SettleQuiet ==
  ASSUME TaskTypeOK, CoTypeOK, HistoryTypeOK, NEW w \in Worker, NEW g \in Gen, Settle(w, g)
  PROVE  Quiet /\ Patient
<1>1. CoQuiet /\ Patient
  BY CoFrame DEF Settle
<1>2. TaskQuiet
  BY TaskEnds, TaskGoesOn, RunningPlaces DEF Settle
<1>3. NativeStep /\ UNCHANGED histVars
  BY DEF Settle, NativeStep, histVars
<1>. QED BY <1>1, <1>2, <1>3 DEF Quiet

LEMMA RecordPauseQuiet ==
  ASSUME TaskTypeOK, CoTypeOK, HistoryTypeOK, NEW w \in Worker, NEW g \in Gen, RecordPause(w, g)
  PROVE  Quiet /\ Patient
<1>1. CoQuiet /\ Patient
  BY CoFrame DEF RecordPause
<1>2. TaskQuiet
  BY TaskEnds DEF RecordPause
<1>3. NativeStep /\ UNCHANGED histVars
  BY DEF RecordPause, NativeStep, histVars
<1>. QED BY <1>1, <1>2, <1>3 DEF Quiet

LEMMA FinalizeQuiet ==
  ASSUME TaskTypeOK, CoTypeOK, HistoryTypeOK, NEW w \in Worker, NEW g \in Gen, Finalize(w, g)
  PROVE  Quiet /\ Patient
<1>1. CoQuiet /\ Patient
  BY CoFrame DEF Finalize
<1>2. TaskQuiet
  BY TaskEnds DEF Finalize
<1>3. NativeStep /\ UNCHANGED histVars
  BY DEF Finalize, NativeStep, histVars
<1>. QED BY <1>1, <1>2, <1>3 DEF Quiet

LEMMA SettleResumeQuiet ==
  ASSUME TaskTypeOK, CoTypeOK, HistoryTypeOK, NEW w \in Worker, NEW g \in Gen, NEW p \in Gen, SettleResume(w, g, p)
  PROVE  Quiet /\ Patient
<1>1. CoQuiet /\ Patient
  BY CoFrame DEF SettleResume
<1>2. TaskQuiet
  BY TaskEnds, TaskGoesOn, RunningPlaces, EvidenceType DEF SettleResume
<1>3. NativeStep /\ UNCHANGED histVars
  BY DEF SettleResume, NativeStep, histVars
<1>. QED BY <1>1, <1>2, <1>3 DEF Quiet

LEMMA TaskObserveQuiet ==
  ASSUME TaskTypeOK, CoTypeOK, HistoryTypeOK, NEW w \in Worker, NEW g \in Gen, NEW p \in Gen, TaskObserve(w, g, p)
  PROVE  Quiet /\ Patient
<1>1. CoQuiet /\ Patient
  BY CoFrame DEF TaskObserve
<1>2. TaskQuiet
  BY TaskGoesOn, RunningPlaces DEF TaskObserve
<1>3. NativeStep /\ UNCHANGED histVars
  BY DEF TaskObserve, NativeStep, histVars
<1>. QED BY <1>1, <1>2, <1>3 DEF Quiet

LEMMA TaskReconcileQuiet ==
  ASSUME TaskTypeOK, CoTypeOK, HistoryTypeOK, NEW w \in Worker, NEW g \in Gen, NEW p \in Gen, TaskReconcile(w, g, p)
  PROVE  Quiet /\ Patient
<1>1. CoQuiet /\ Patient
  BY CoFrame DEF TaskReconcile
<1>2. TaskQuiet
  BY TaskEnds, TaskGoesOn, RunningPlaces DEF TaskReconcile
<1>3. NativeStep /\ UNCHANGED histVars
  BY DEF TaskReconcile, NativeStep, histVars
<1>. QED BY <1>1, <1>2, <1>3 DEF Quiet

LEMMA TaskUnknownQuiet ==
  ASSUME TaskTypeOK, CoTypeOK, HistoryTypeOK, NEW w \in Worker, NEW g \in Gen, NEW p \in Gen, TaskUnknown(w, g, p)
  PROVE  Quiet /\ Patient
<1>1. CoQuiet /\ Patient
  BY CoFrame DEF TaskUnknown
<1>2. TaskQuiet
  BY TaskEnds DEF TaskUnknown
<1>3. NativeStep /\ UNCHANGED histVars
  BY DEF TaskUnknown, NativeStep, histVars
<1>. QED BY <1>1, <1>2, <1>3 DEF Quiet

LEMMA CtlResumeQuiet ==
  ASSUME TaskTypeOK, CoTypeOK, HistoryTypeOK, NEW w \in Worker, NEW p \in Gen, CtlResume(w, p)
  PROVE  Quiet /\ Patient
<1>1. CoQuiet /\ Patient
  BY AskQuiet, Literals DEF CtlResume, At
<1>2. TaskQuiet
  BY TaskFrame DEF CtlResume
<1>3. NativeStep /\ UNCHANGED histVars
  BY DEF CtlResume, NativeStep, histVars
<1>. QED BY <1>1, <1>2, <1>3 DEF Quiet

LEMMA AcceptQuiet ==
  ASSUME TaskTypeOK, CoTypeOK, HistoryTypeOK, NEW w \in Worker, NEW c \in Coroutine, Accept(w, c)
  PROVE  Quiet /\ Patient
<1>1. CoQuiet /\ Patient
  BY GotoQuiet DEF Accept, At, AskPC
<1>2. TaskQuiet
  BY TaskFrame DEF Accept
<1>3. NativeStep /\ UNCHANGED histVars
  BY DEF Accept, NativeStep, histVars
<1>. QED BY <1>1, <1>2, <1>3 DEF Quiet

LEMMA RejoinQuiet ==
  ASSUME TaskTypeOK, CoTypeOK, HistoryTypeOK, NEW w \in Worker, NEW c \in Coroutine, Rejoin(w, c)
  PROVE  Quiet /\ Patient
<1>1. CoQuiet /\ Patient
  BY GotoQuiet DEF Rejoin, At, AskPC
<1>2. TaskQuiet
  BY TaskFrame DEF Rejoin
<1>3. NativeStep /\ UNCHANGED histVars
  BY DEF Rejoin, NativeStep, histVars
<1>. QED BY <1>1, <1>2, <1>3 DEF Quiet

LEMMA JoinQuiet ==
  ASSUME TaskTypeOK, CoTypeOK, HistoryTypeOK, NEW w \in Worker, NEW c \in Coroutine, Join(w, c)
  PROVE  Quiet /\ Patient
<1>1. CoQuiet /\ Patient
  BY GotoQuiet DEF Join, At, AskPC
<1>2. TaskQuiet
  BY TaskFrame DEF Join
<1>3. NativeStep /\ UNCHANGED histVars
  BY DEF Join, NativeStep, histVars
<1>. QED BY <1>1, <1>2, <1>3 DEF Quiet

LEMMA NoResumeQuiet ==
  ASSUME TaskTypeOK, CoTypeOK, HistoryTypeOK, NEW w \in Worker, NEW c \in Coroutine, NoResume(w, c)
  PROVE  Quiet /\ Patient
<1>1. CoQuiet /\ Patient
  BY ReturnQuiet DEF NoResume, At
<1>2. TaskQuiet
  BY TaskFrame DEF NoResume
<1>3. NativeStep /\ UNCHANGED histVars
  BY DEF NoResume, NativeStep, histVars
<1>. QED BY <1>1, <1>2, <1>3 DEF Quiet

LEMMA AdoptQuiet ==
  ASSUME TaskTypeOK, CoTypeOK, HistoryTypeOK, NEW w \in Worker, NEW c \in Coroutine, Adopt(w, c)
  PROVE  Quiet /\ Patient
<1>1. CoQuiet /\ Patient
  BY GotoQuiet DEF Adopt, At, AskPC
<1>2. TaskQuiet
  BY TaskFrame DEF Adopt
<1>3. NativeStep /\ UNCHANGED histVars
  BY DEF Adopt, NativeStep, histVars
<1>. QED BY <1>1, <1>2, <1>3 DEF Quiet

LEMMA ResumeReadQuiet ==
  ASSUME TaskTypeOK, CoTypeOK, HistoryTypeOK, NEW w \in Worker, NEW c \in Coroutine, ResumeRead(w, c)
  PROVE  Quiet /\ Patient
<1>1. CoQuiet /\ Patient
  <2>1. CASE Return(w, c) \/ Raise(w, c)
    BY <2>1, ReturnQuiet DEF ResumeRead, At
  <2>2. CASE Goto(w, c, "rstart", CoGen(w, c))
    BY <2>2, GotoQuiet DEF ResumeRead, At, AskPC
  <2>3. ASSUME NEW e \in {"rec_wait", "rec_act", "rec_unk"}, Goto(w, c, e, CoGen(w, c))
        PROVE  CoQuiet /\ Patient
    BY <2>3, GotoQuiet DEF ResumeRead, At, AskPC
  <2>. QED BY <2>1, <2>2, <2>3, EvidenceType DEF ResumeRead
<1>2. TaskQuiet
  BY TaskFrame DEF ResumeRead
<1>3. NativeStep /\ UNCHANGED histVars
  BY DEF ResumeRead, NativeStep, histVars
<1>. QED BY <1>1, <1>2, <1>3 DEF Quiet

LEMMA CoObserveQuiet ==
  ASSUME TaskTypeOK, CoTypeOK, HistoryTypeOK, NEW w \in Worker, NEW c \in Coroutine, CoObserve(w, c)
  PROVE  Quiet /\ Patient
<1>1. CoQuiet /\ Patient
  BY GotoQuiet DEF CoObserve, At, AskPC
<1>2. TaskQuiet
  BY TaskFrame DEF CoObserve
<1>3. NativeStep /\ UNCHANGED histVars
  BY DEF CoObserve, NativeStep, histVars
<1>. QED BY <1>1, <1>2, <1>3 DEF Quiet

LEMMA CoReconcileQuiet ==
  ASSUME TaskTypeOK, CoTypeOK, HistoryTypeOK, NEW w \in Worker, NEW c \in Coroutine, CoReconcile(w, c)
  PROVE  Quiet /\ Patient
<1>1. CoQuiet /\ Patient
  BY ReturnQuiet DEF CoReconcile, At
<1>2. TaskQuiet
  BY TaskFrame DEF CoReconcile
<1>3. NativeStep /\ UNCHANGED histVars
  BY DEF CoReconcile, NativeStep, histVars
<1>. QED BY <1>1, <1>2, <1>3 DEF Quiet

LEMMA CoUnknownQuiet ==
  ASSUME TaskTypeOK, CoTypeOK, HistoryTypeOK, NEW w \in Worker, NEW c \in Coroutine, CoUnknown(w, c)
  PROVE  Quiet /\ Patient
<1>1. CoQuiet /\ Patient
  BY ReturnQuiet DEF CoUnknown, At
<1>2. TaskQuiet
  BY TaskFrame DEF CoUnknown
<1>3. NativeStep /\ UNCHANGED histVars
  BY DEF CoUnknown, NativeStep, histVars
<1>. QED BY <1>1, <1>2, <1>3 DEF Quiet

LEMMA BeatReapplyQuiet ==
  ASSUME TaskTypeOK, CoTypeOK, HistoryTypeOK, NEW w \in Worker, NEW p \in Gen, BeatReapply(w, p)
  PROVE  Quiet /\ Patient
<1>1. CoQuiet /\ Patient
  BY AskQuiet, Literals DEF BeatReapply, At, InSweep, InScan
<1>2. TaskQuiet
  BY TaskFrame DEF BeatReapply
<1>3. NativeStep /\ UNCHANGED histVars
  BY DEF BeatReapply, NativeStep, histVars
<1>. QED BY <1>1, <1>2, <1>3 DEF Quiet

LEMMA BeatReconcileQuiet ==
  ASSUME TaskTypeOK, CoTypeOK, HistoryTypeOK, NEW w \in Worker, NEW p \in Gen, BeatReconcile(w, p)
  PROVE  Quiet /\ Patient
<1>1. CoQuiet /\ Patient
  BY AskQuiet, Literals DEF BeatReconcile, At, InSweep, InScan
<1>2. TaskQuiet
  BY TaskFrame DEF BeatReconcile
<1>3. NativeStep /\ UNCHANGED histVars
  BY DEF BeatReconcile, NativeStep, histVars
<1>. QED BY <1>1, <1>2, <1>3 DEF Quiet

LEMMA BeatRestQuiet ==
  ASSUME TaskTypeOK, CoTypeOK, HistoryTypeOK, NEW w \in Worker, BeatRest(w)
  PROVE  Quiet /\ Patient
<1>1. CoQuiet /\ Patient
  BY ReturnQuiet, Literals DEF BeatRest, At
<1>2. TaskQuiet
  BY TaskFrame DEF BeatRest
<1>3. NativeStep /\ UNCHANGED histVars
  BY DEF BeatRest, NativeStep, histVars
<1>. QED BY <1>1, <1>2, <1>3 DEF Quiet

LEMMA CancelCommitQuiet ==
  ASSUME TaskTypeOK, CoTypeOK, HistoryTypeOK, NEW w \in Worker, NEW c \in Coroutine, CancelCommit(w, c)
  PROVE  Quiet /\ Patient
<1>1. CoQuiet /\ Patient
  <2>. DEFINE r == [pc |-> "cancelled", gen |-> NextGeneration, cmd |-> 0,
                    then |-> IF c = "beat" THEN "sweep" ELSE "idle"]
  <2>1. co' = [co EXCEPT ![w][c] = r]
    BY DEF CancelCommit
  <2>2. Quieter(co[w][c], r) /\ Steady(co[w][c], r)
    BY DEF CancelCommit, InSweep, InScan, At, Quieter, Steady, AskPC
  <2>. HIDE DEF r
  <2>. QED BY <2>1, <2>2, CoWrite
<1>2. TaskQuiet
  BY TaskFrame DEF CancelCommit
<1>3. NativeStep /\ UNCHANGED histVars
  BY DEF CancelCommit, NativeStep, histVars
<1>. QED BY <1>1, <1>2, <1>3 DEF Quiet

LEMMA CancelLocalQuiet ==
  ASSUME TaskTypeOK, CoTypeOK, HistoryTypeOK, NEW w \in Worker, NEW c \in Coroutine, CancelLocal(w, c)
  PROVE  Quiet /\ Patient
<1>1. CoQuiet /\ Patient
  BY ReturnQuiet DEF CancelLocal, At
<1>2. TaskQuiet
  BY TaskCancelled DEF CancelLocal
<1>3. NativeStep /\ UNCHANGED histVars
  BY DEF CancelLocal, NativeStep, histVars
<1>. QED BY <1>1, <1>2, <1>3 DEF Quiet

LEMMA BuildOkQuiet ==
  ASSUME TaskTypeOK, CoTypeOK, HistoryTypeOK, NEW w \in Worker, NEW c \in Coroutine, BuildOk(w, c)
  PROVE  Quiet /\ Patient
<1>1. CoQuiet /\ Patient
  <2>1. CASE At(w, c, "rbuild") /\ Goto(w, c, "rread", CoGen(w, c))
    BY <2>1, GotoQuiet DEF At, AskPC
  <2>2. CASE At(w, c, "build") /\ Goto(w, c, "sread", CoGen(w, c))
    <3>. DEFINE r == [pc |-> "sread", gen |-> CoGen(w, c), cmd |-> co[w][c].cmd,
                      then |-> co[w][c].then]
    <3>1. co' = [co EXCEPT ![w][c] = r]
      BY <2>2 DEF Goto
    <3>2. Quieter(co[w][c], r) /\ Steady(co[w][c], r)
      BY <2>2 DEF At, CoGen, Quieter, Steady, AskPC
    <3>. HIDE DEF r
    <3>. QED BY <3>1, <3>2, CoWrite
  <2>. QED BY <2>1, <2>2 DEF BuildOk
<1>2. TaskQuiet
  BY TaskFrame DEF BuildOk
<1>3. NativeStep /\ UNCHANGED histVars
  BY DEF BuildOk, NativeStep, histVars
<1>. QED BY <1>1, <1>2, <1>3 DEF Quiet

-----------------------------------------------------------------------------
(* The other actions *)

\* A start or a resume leaves its task behind.
Spawned(w, c, g) ==
  /\ Enters(w, c, g)
  /\ task' = [task EXCEPT ![w][g] = IF co[w][c].pc = "rspawn" THEN "rqueued" ELSE "queued"]
  /\ Return(w, c)
  /\ UNCHANGED <<native, invoked, resumed>>

\* A spawned task passes the gate and enters the graph.
Gated(w, g) ==
  /\ task[w][g] \in {"queued", "rqueued"}
  /\ Active(w, g)
  /\ task' = [task EXCEPT ![w][g] = IF task[w][g] = "queued" THEN "run" ELSE "resume"]
  /\ invoked' = [invoked EXCEPT ![g] = IF invoked[g] = 2 THEN 2 ELSE invoked[g] + 1]
  /\ resumed' = IF task[w][g] = "queued" THEN resumed
                ELSE [p \in Gen |-> IF attempt[p] = g /\ resumed[p] < 2
                                    THEN resumed[p] + 1 ELSE resumed[p]]
  /\ UNCHANGED <<dbVars, co, native>>

\* The accepted answer is recorded as dispatched, before its task is spawned.
Dispatched(w, c) ==
  /\ co[w][c].pc = "rstart"
  /\ Active(w, co[w][c].gen)
  /\ Startable(co[w][c].cmd)
  /\ intent' = [intent EXCEPT ![co[w][c].cmd] = "dispatch_started"]
  /\ \E r : /\ r.pc = "rspawn" /\ r.gen = co[w][c].gen
            /\ co' = [co EXCEPT ![w][c] = r]
  /\ UNCHANGED <<run, head, task, native, invoked, resumed>>

LEMMA StartSpawnSpawned ==
  ASSUME CoTypeOK, NEW w \in Worker, NEW c \in Coroutine, StartSpawn(w, c)
  PROVE  Spawned(w, c, CoGen(w, c)) /\ Patient
<1>1. Patient
  BY ReturnQuiet DEF StartSpawn, At
<1>2. Enters(w, c, CoGen(w, c))
  BY DEF StartSpawn, At, CoGen, Enters, Initial
<1>3. task' = [task EXCEPT ![w][CoGen(w, c)] = "queued"] /\ co[w][c].pc = "sread"
  BY DEF StartSpawn, Spawn, At
<1>. QED BY <1>1, <1>2, <1>3 DEF StartSpawn, Spawned, histVars

LEMMA ResumeSpawnSpawned ==
  ASSUME CoTypeOK, NEW w \in Worker, NEW c \in Coroutine, ResumeSpawn(w, c)
  PROVE  (Quiet \/ Spawned(w, c, CoGen(w, c))) /\ Patient
<1>1. Patient
  BY ReturnQuiet DEF ResumeSpawn, At
<1>2. CASE leases[w] # CoGen(w, c)
  <2>1. Raise(w, c) /\ UNCHANGED <<task, native, histVars>>
    BY <1>2 DEF ResumeSpawn
  <2>. QED BY <1>1, <2>1, ReturnQuiet, TaskFrame DEF Quiet, NativeStep
<1>3. CASE leases[w] = CoGen(w, c)
  <2>1. Enters(w, c, CoGen(w, c))
    BY DEF ResumeSpawn, At, CoGen, Enters, Resuming
  <2>2. task' = [task EXCEPT ![w][CoGen(w, c)] = "rqueued"] /\ co[w][c].pc = "rspawn"
    BY <1>3 DEF ResumeSpawn, Spawn, At
  <2>. QED BY <1>1, <1>3, <2>1, <2>2 DEF ResumeSpawn, Spawned, histVars
<1>. QED BY <1>2, <1>3

LEMMA TaskGateGated ==
  ASSUME TaskTypeOK, NEW w \in Worker, NEW g \in Gen, TaskGate(w, g)
  PROVE  (Quiet \/ Gated(w, g)) /\ Patient
<1>1. CoQuiet /\ Patient
  BY CoFrame DEF TaskGate
<1>2. CASE EndTask(w, g) /\ UNCHANGED histVars
  BY <1>1, <1>2, TaskEnds DEF TaskGate, Quiet, NativeStep
<1>3. CASE ~(EndTask(w, g) /\ UNCHANGED histVars)
  BY <1>1, <1>3 DEF TaskGate, Gated, ToTask
<1>. QED BY <1>2, <1>3, <1>1

LEMMA StartResumeDispatched ==
  ASSUME CoTypeOK, NEW w \in Worker, NEW c \in Coroutine, StartResume(w, c)
  PROVE  (Quiet \/ Dispatched(w, c)) /\ Patient
<1>1. CASE Raise(w, c)
  BY <1>1, ReturnQuiet, TaskFrame DEF StartResume, At, Quiet, NativeStep, histVars
<1>2. CASE ~Raise(w, c)
  <2>. DEFINE r == [pc |-> "rspawn", gen |-> CoGen(w, c), cmd |-> co[w][c].cmd,
                    then |-> co[w][c].then]
  <2>1. co' = [co EXCEPT ![w][c] = r]
    BY <1>2 DEF StartResume, Goto
  <2>2. r.pc = "rspawn" /\ r.gen = CoGen(w, c)
    OBVIOUS
  <2>3. Steady(co[w][c], r)
    BY DEF StartResume, At, Steady
  <2>. HIDE DEF r
  <2>4. Patient
    BY <2>1, <2>3, CoWrite
  <2>5. Dispatched(w, c)
    BY <1>2, <2>1, <2>2 DEF StartResume, At, CoGen, CoCmd, Dispatched, histVars
  <2>. QED BY <2>4, <2>5
<1>. QED BY <1>1, <1>2

LEMMA ClaimWinPatient ==
  ASSUME CoTypeOK, NEW w \in Worker, ClaimWin(w)
  PROVE  Patient
<1>. DEFINE r == [pc |-> "build", gen |-> 1, cmd |-> co[w]["serve"].cmd,
                  then |-> co[w]["serve"].then]
<1>1. co' = [co EXCEPT ![w]["serve"] = r]
  BY DEF ClaimWin, Goto
<1>2. Steady(co[w]["serve"], r)
  BY DEF ClaimWin, At, Steady
<1>. HIDE DEF r
<1>. QED BY <1>1, <1>2, CoWrite, Literals

LEMMA BeatReclaimPatient ==
  ASSUME CoTypeOK, NEW w \in Worker, BeatReclaim(w)
  PROVE  Patient
<1>. DEFINE r == [pc |-> "taken", gen |-> NextGeneration, cmd |-> co[w]["beat"].cmd,
                  then |-> co[w]["beat"].then]
<1>1. co' = [co EXCEPT ![w]["beat"] = r]
  BY DEF BeatReclaim, Goto
<1>2. Steady(co[w]["beat"], r)
  BY DEF BeatReclaim, InScan, At, Steady
<1>. HIDE DEF r
<1>. QED BY <1>1, <1>2, CoWrite, Literals

LEMMA BeatTakeOverPatient ==
  ASSUME CoTypeOK, NEW w \in Worker, BeatTakeOver(w)
  PROVE  Patient
<1>. DEFINE r == [pc |-> "build", gen |-> CoGen(w, "beat"), cmd |-> 0, then |-> "sweep"]
            s == [Idle EXCEPT !.pc = "sweep"]
<1>1. co' = [co EXCEPT ![w]["beat"] = r] \/ co' = [co EXCEPT ![w]["beat"] = s]
  BY DEF BeatTakeOver
<1>2. r.pc = "build" /\ s.pc = "sweep"
  BY DEF Idle
<1>. HIDE DEF r, s
<1>3. Steady(co[w]["beat"], r) /\ Steady(co[w]["beat"], s)
  BY <1>2 DEF BeatTakeOver, At, Steady
<1>. QED BY <1>1, <1>3, CoWrite, Literals

LEMMA BeatRenewQuiet ==
  ASSUME CoTypeOK, NEW w \in Worker, BeatRenew(w)
  PROVE  Quiet
<1>1. CoQuiet
  BY GotoQuiet, Literals DEF BeatRenew, AskPC
<1>. QED BY <1>1, TaskFrame DEF BeatRenew, Quiet, NativeStep, histVars

LEMMA BeatYieldQuiet ==
  ASSUME CoTypeOK, TaskTypeOK, NEW w \in Worker, BeatYield(w)
  PROVE  Quiet
<1>1. CoQuiet
  BY GotoQuiet, Literals DEF BeatYield, AskPC
<1>2. TaskQuiet
  BY TaskFrame, TaskCancelled DEF BeatYield
<1>. QED BY <1>1, <1>2 DEF BeatYield, Quiet, NativeStep, histVars

EntryStep ==
  \/ Quiet
  \/ \E w \in Worker :
       \/ ClaimWin(w) \/ BeatReclaim(w) \/ BeatTakeOver(w)
       \/ \E c \in Coroutine : Dispatched(w, c) \/ Spawned(w, c, CoGen(w, c))
       \/ \E g \in Gen : Gated(w, g)

BeatStep == \E w \in Worker : BeatRenew(w) \/ BeatYield(w)

EntryOrBeat == EntryStep /\ (Patient \/ BeatStep)

LEMMA NextEntry ==
  ASSUME TypeOK, [Next]_vars
  PROVE  EntryOrBeat
<1>. TaskTypeOK /\ CoTypeOK /\ HistoryTypeOK
  BY DEF TypeOK
<1>q. Quiet /\ (Patient \/ BeatStep) => EntryOrBeat
  BY DEF EntryStep, EntryOrBeat
<1>1. ASSUME UNCHANGED vars PROVE EntryOrBeat
  <2>1. UNCHANGED <<co, task, native, invoked, resumed>>
    BY <1>1 DEF vars
  <2>2. Quiet /\ Patient
    BY <2>1, CoFrame, TaskFrame DEF Quiet, NativeStep, histVars
  <2>. QED BY <2>2, <1>q
<1>2. CASE Launch \/ SubmitResume \/ SubmitCancel \/ Age \/ Rest
  BY <1>1, <1>2, <1>q, LaunchQuiet, SubmitResumeQuiet, SubmitCancelQuiet, AgeQuiet DEF Rest
<1>3. ASSUME NEW w \in Worker, Crash(w) \/ Serve(w) \/ Beat(w)
      PROVE  EntryOrBeat
  <2>1. CASE Crash(w) \/ ReceiveDispatch(w) \/ ClaimLose(w)
    BY <2>1, <1>q, CrashQuiet, ReceiveDispatchQuiet, ClaimLoseQuiet
  <2>2. CASE ClaimWin(w) \/ BeatReclaim(w) \/ BeatTakeOver(w)
    BY <2>2, ClaimWinPatient, BeatReclaimPatient, BeatTakeOverPatient DEF EntryOrBeat, EntryStep
  <2>3. CASE BeatRenew(w) \/ BeatYield(w)
    BY <2>3, <1>q, BeatRenewQuiet, BeatYieldQuiet DEF BeatStep
  <2>4. CASE BeatRest(w) \/ \E p \in Gen : BeatReapply(w, p) \/ BeatReconcile(w, p)
    BY <2>4, <1>q, BeatRestQuiet, BeatReapplyQuiet, BeatReconcileQuiet
  <2>. QED BY <1>3, <2>1, <2>2, <2>3, <2>4 DEF Serve, Beat
<1>4. ASSUME NEW w \in Worker, NEW c \in Coroutine,
             Start(w, c) \/ Resume(w, c) \/ CancelCommit(w, c) \/ CancelLocal(w, c)
      PROVE  EntryOrBeat
  <2>1. CASE StartSpawn(w, c) \/ ResumeSpawn(w, c) \/ StartResume(w, c)
    BY <2>1, <1>q, StartSpawnSpawned, ResumeSpawnSpawned, StartResumeDispatched
       DEF EntryOrBeat, EntryStep
  <2>2. CASE BuildOk(w, c) \/ BuildFail(w, c) \/ StartStale(w, c) \/ StartUnattributed(w, c)
    BY <2>2, <1>q, BuildOkQuiet, BuildFailQuiet, StartStaleQuiet, StartUnattributedQuiet
  <2>3. CASE \/ Accept(w, c) \/ Adopt(w, c) \/ Rejoin(w, c) \/ Join(w, c)
             \/ NoResume(w, c) \/ ResumeRead(w, c)
    BY <2>3, <1>q, AcceptQuiet, AdoptQuiet, RejoinQuiet, JoinQuiet, NoResumeQuiet,
       ResumeReadQuiet
  <2>4. CASE CoObserve(w, c) \/ CoReconcile(w, c) \/ CoUnknown(w, c)
    BY <2>4, <1>q, CoObserveQuiet, CoReconcileQuiet, CoUnknownQuiet
  <2>5. CASE CancelCommit(w, c) \/ CancelLocal(w, c)
    BY <2>5, <1>q, CancelCommitQuiet, CancelLocalQuiet
  <2>. QED BY <1>4, <2>1, <2>2, <2>3, <2>4, <2>5 DEF Start, Resume
<1>5. ASSUME NEW w \in Worker, NEW p \in Gen, CtlResume(w, p) PROVE EntryOrBeat
  BY <1>5, <1>q, CtlResumeQuiet
<1>6. ASSUME NEW w \in Worker, NEW g \in Gen,
             Native(w, g) \/ Settling(w, g) \/ TaskDies(w, g)
      PROVE  EntryOrBeat
  <2>1. CASE Native(w, g) \/ TaskDies(w, g)
    BY <2>1, <1>q, ConsumeQuiet, InterruptQuiet, FinishQuiet, NativeErrorQuiet,
       TaskDiesQuiet DEF Native
  <2>2. CASE TaskGate(w, g)
    BY <2>2, <1>q, TaskGateGated DEF EntryOrBeat, EntryStep
  <2>3. CASE Settle(w, g) \/ RecordPause(w, g) \/ Finalize(w, g)
    BY <2>3, <1>q, SettleQuiet, RecordPauseQuiet, FinalizeQuiet
  <2>4. ASSUME NEW p \in Gen,
               \/ SettleResume(w, g, p) \/ TaskObserve(w, g, p)
               \/ TaskReconcile(w, g, p) \/ TaskUnknown(w, g, p)
        PROVE  EntryOrBeat
    BY <2>4, <1>q, SettleResumeQuiet, TaskObserveQuiet, TaskReconcileQuiet, TaskUnknownQuiet
  <2>. QED BY <1>6, <2>1, <2>2, <2>3, <2>4 DEF Settling
<1>. QED BY <1>1, <1>2, <1>3, <1>4, <1>5, <1>6 DEF Next

-----------------------------------------------------------------------------
(* What the head does meanwhile *)

\* Under one generation the command of the head stays, and is accepted no second
\* time; a run once answered stays answered; an answer is dispatched by one attempt.
HeadAdvance ==
  /\ run.gen <= run'.gen
  /\ head.cmd # 0 => head'.cmd # 0
  /\ run'.gen = run.gen =>
       /\ head'.cmd = head.cmd
       /\ head.cmd # 0 /\ intent'[head.cmd] = "accepted" => intent[head.cmd] = "accepted"
  /\ \A p \in Gen : intent'[p] \in {"none", "accepted"} => intent[p] \in {"none", "accepted"}
  /\ Attributed

LEMMA UnderwayStatus ==
  ASSUME Underway, NEW p \in Gen
  PROVE  /\ intent'[p] = "accepted" => intent[p] = "accepted"
         /\ intent'[p] = "none" => intent[p] = "none"
<1>1. "none" \notin Unsettled
  BY DEF Unsettled
<1>. QED BY <1>1 DEF Underway

LEMMA KeptAdvance ==
  ASSUME TypeOK, Kept
  PROVE  HeadAdvance
<1>1. run' = run /\ head' = head /\ Attributed
  BY DEF Kept
<1>2. run.gen <= run'.gen
  BY <1>1, RowGen
<1>3. head.cmd # 0 => head.cmd \in Gen
  BY HeadTypes, Generations
<1>4. head.cmd # 0 /\ intent'[head.cmd] = "accepted" => intent[head.cmd] = "accepted"
  BY <1>3, UnderwayStatus DEF Kept
<1>5. \A p \in Gen : intent'[p] \in {"none", "accepted"} => intent[p] \in {"none", "accepted"}
  BY UnderwayStatus DEF Kept
<1>. QED BY <1>1, <1>2, <1>4, <1>5 DEF HeadAdvance

LEMMA RowAdvance ==
  ASSUME TypeOK, RowInv, HeadInv, RowStep
  PROVE  HeadAdvance
<1>. USE RowGen, HeadTypes, Generations DEF HeadAdvance, Attributed
<1>1. CASE Kept
  BY <1>1, KeptAdvance
<1>2. CASE Launched \/ Claimed \/ Aged \/ Renewed \/ Reclaimed
  BY <1>2 DEF Launched, Claimed, Aged, Renewed, Reclaimed, RestOfRow, Grant
<1>3. CASE Paused \/ Activated
  <2>1. run'.gen = run.gen /\ UNCHANGED attempt /\ ~run.terminal
    BY <1>3, OwnerIsBorn DEF Paused, Activated, Release, RowInv
  <2>2. head'.cmd = head.cmd
    BY <1>3 DEF Paused, Activated, Answered
  <2>3. \A p \in Gen : intent'[p] = intent[p] \/ intent'[p] = "reconciled"
    BY <1>3 DEF Paused, Activated, Answered
  <2>. QED BY <2>1, <2>2, <2>3
<1>4. CASE Accepted
  <2>1. run'.gen = run.gen + 1 /\ head'.cmd = head.pause /\ UNCHANGED attempt
    BY <1>4 DEF Accepted, Grant
  <2>2. head.pause # 0 /\ intent[head.pause] = "none"
    BY <1>4 DEF Accepted, HeadInv, HeadMatchesIntents
  <2>3. \A p \in Gen : intent'[p] \in {"none", "accepted"} => intent[p] \in {"none", "accepted"}
    BY <1>4, <2>2 DEF Accepted
  <2>. QED BY <2>1, <2>2, <2>3
<1>5. CASE Terminated \/ Cancelled
  <2>1. PICK w \in Worker : \/ CommitTerminal(w, run.gen)
                            \/ CommitTerminal(w, run.gen + 1)
    BY <1>5 DEF Terminated, Cancelled
  <2>2. /\ run'.gen \in {run.gen, run.gen + 1} /\ head'.cmd = head.cmd
        /\ \A p \in Gen : intent'[p] \in {"none", "terminal"}
                          /\ (intent'[p] = "none" => intent[p] = "none")
    BY <2>1 DEF CommitTerminal, SettledIntents
  <2>3. UNCHANGED attempt
    BY <1>5 DEF Terminated, Cancelled
  <2>. QED BY <2>2, <2>3
<1>. QED BY <1>1, <1>2, <1>3, <1>4, <1>5 DEF RowStep

-----------------------------------------------------------------------------
(* The parts of EntryInv *)

LEMMA Ways == Coroutine \subseteq Way /\ "task" \in Way /\ "task" \notin Coroutine
BY DEF Way, Coroutine

LEMMA EntersHeld ==
  ASSUME NEW v \in Worker, NEW k \in Way, NEW g \in Gen, Enters(v, k, g)
  PROVE  g \in Held(v)
BY Generations DEF Enters, Initial, Resuming, Held, TaskGens, CoGens, CoGen

LEMMA TakenHeld ==
  ASSUME NEW v \in Worker, NEW g \in Gen, Taken(v, g)
  PROVE  g \in Held(v)
BY Generations, Literals DEF Taken, Held, CoGens, CoGen

\* Who may act in the model under a generation that has been granted.
LEMMA HeldPast ==
  ASSUME TypeOK, OneHolderPerGeneration, NEW v \in Worker, NEW g \in Held(v)
  PROVE  g <= run.gen
BY DEF OneHolderPerGeneration

LEMMA HeldAlone ==
  ASSUME OneHolderPerGeneration, NEW v \in Worker, NEW w \in Worker,
         NEW g \in Held(v), g \in Held(w)
  PROVE  v = w
BY DEF OneHolderPerGeneration

\* A step that opens no way: each way that is open was open, perhaps by another
\* door of the same worker.
NoneNew ==
  \A v \in Worker, g \in Gen :
    /\ (\E k \in Way : Initial(v, k, g)') => \E k \in Way : Initial(v, k, g)
    /\ (\E k \in Way : Resuming(v, k, g)') => \E k \in Way : Resuming(v, k, g)
    /\ Taken(v, g)' => Taken(v, g)

LEMMA EnteredKept ==
  ASSUME TypeOK, TypeOK', HeadAdvance, EnteredOnce, UNCHANGED invoked
  PROVE  EnteredOnce'
<1>. run.gen \in Nat /\ run'.gen \in Nat /\ Gen \subseteq Nat /\ invoked \in [Gen -> 0..2]
  BY HeadTypes, Generations DEF TypeOK, RowTypeOK, RowType, HistoryTypeOK
<1>. SUFFICES ASSUME NEW g \in Gen
              PROVE  /\ (g = run'.gen /\ head'.cmd # 0 /\ invoked[g] > 0
                          => intent'[head'.cmd] # "accepted")
                     /\ g > run'.gen => invoked[g] = 0
                     /\ invoked[g] <= 1
  BY DEF EnteredOnce
<1>1. g > run'.gen => invoked[g] = 0
  BY DEF HeadAdvance, EnteredOnce
<1>2. ASSUME g = run'.gen, head'.cmd # 0, invoked[g] > 0
      PROVE  intent'[head'.cmd] # "accepted"
  <2>1. run'.gen = run.gen
    BY <1>2 DEF HeadAdvance, EnteredOnce
  <2>. QED BY <1>2, <2>1 DEF HeadAdvance, EnteredOnce
<1>. QED BY <1>1, <1>2 DEF EnteredOnce

LEMMA AttemptKept ==
  ASSUME TypeOK, HeadAdvance, AttemptIsOne, UNCHANGED <<invoked, resumed>>
  PROVE  AttemptIsOne'
<1>. Gen \subseteq Nat /\ invoked \in [Gen -> 0..2] /\ resumed \in [Gen -> 0..2]
  BY Generations DEF TypeOK, HistoryTypeOK
<1>. SUFFICES ASSUME NEW p \in Gen
              PROVE  /\ resumed[p] <= 1
                     /\ resumed[p] > 0 => attempt'[p] # 0 /\ invoked[attempt'[p]] > 0
                     /\ intent'[p] \in {"none", "accepted"} => attempt'[p] = 0
  BY DEF AttemptIsOne
<1>1. CASE attempt'[p] = attempt[p]
  BY <1>1 DEF AttemptIsOne, HeadAdvance
<1>2. CASE intent[p] = "accepted" /\ intent'[p] = "dispatch_started"
  <2>1. resumed[p] = 0
    BY <1>2 DEF AttemptIsOne
  <2>. QED BY <1>2, <2>1
<1>. QED BY <1>1, <1>2 DEF HeadAdvance, Attributed

LEMMA NoneNewParts ==
  ASSUME TypeOK, TypeOK', OneHolderPerGeneration, HeadAdvance, NoneNew, EntryInv,
         UNCHANGED invoked
  PROVE  StartBeforeAnswer' /\ TakenIsFresh'
<1>. run.gen \in Nat /\ run'.gen \in Nat /\ Gen \subseteq Nat
  BY HeadTypes, Generations DEF TypeOK, RowTypeOK, RowType
<1>1. ASSUME NEW v \in Worker, NEW k \in Way, NEW g \in Gen, Initial(v, k, g)',
             g = run'.gen
      PROVE  head'.cmd = 0
  <2>1. PICK j \in Way : Initial(v, j, g)
    BY <1>1 DEF NoneNew
  <2>2. g <= run.gen
    BY <2>1, EntersHeld, HeldPast DEF Enters
  <2>3. run'.gen = run.gen
    BY <1>1, <2>2 DEF HeadAdvance
  <2>. QED BY <1>1, <2>1, <2>3 DEF HeadAdvance, EntryInv, StartBeforeAnswer
<1>2. ASSUME NEW v \in Worker, NEW k \in Way, NEW g \in Gen, Resuming(v, k, g)'
      PROVE  head'.cmd # 0 /\ (g = run'.gen => intent'[head'.cmd] # "accepted")
  <2>1. PICK j \in Way : Resuming(v, j, g)
    BY <1>2 DEF NoneNew
  <2>2. g <= run.gen
    BY <2>1, EntersHeld, HeldPast DEF Enters
  <2>3. g = run'.gen => run'.gen = run.gen
    BY <2>2 DEF HeadAdvance
  <2>4. head.cmd # 0 /\ (g = run.gen => intent[head.cmd] # "accepted")
    BY <2>1 DEF EntryInv, StartBeforeAnswer
  <2>. QED BY <2>3, <2>4 DEF HeadAdvance
<1>3. ASSUME NEW v \in Worker, NEW g \in Gen, Taken(v, g)'
      PROVE  /\ \A k \in Way : ~Initial(v, k, g)'
             /\ head'.cmd = 0 => invoked'[g] = 0
  <2>1. Taken(v, g)
    BY <1>3 DEF NoneNew
  <2>. QED BY <2>1 DEF NoneNew, HeadAdvance, EntryInv, TakenIsFresh
<1>. QED BY <1>1, <1>2, <1>3 DEF StartBeforeAnswer, TakenIsFresh

LEMMA NamedKept ==
  ASSUME CoQuiet, Named
  PROVE  Named'
BY DEF CoQuiet, Quieter, Named

\* Steps that let no task run and give the thread no pause from nowhere.
LEMMA EvidenceKept ==
  ASSUME TypeOK, EvidenceIsEntered, TaskQuiet, NativeStep, UNCHANGED invoked
  PROVE  EvidenceIsEntered'
<1>1. ASSUME NEW v \in Worker, NEW g \in Gen, task'[v][g] \in Running
      PROVE  invoked'[g] > 0
  BY <1>1 DEF TaskQuiet, EvidenceIsEntered, Running
<1>2. native'.leaf # 0 => invoked'[native'.leaf] > 0
  BY DEF NativeStep, EvidenceIsEntered
<1>. QED BY <1>1, <1>2 DEF EvidenceIsEntered

LEMMA QuietEnters ==
  ASSUME CoQuiet, TaskQuiet, NEW v \in Worker, NEW k \in Way, NEW g \in Gen
  PROVE  /\ Initial(v, k, g)' => Initial(v, k, g)
         /\ Resuming(v, k, g)' => Resuming(v, k, g)
<1>1. CASE k = "task"
  BY <1>1, Ways DEF TaskQuiet, Initial, Resuming, Running
<1>2. CASE k \in Coroutine
  BY <1>2, Ways DEF CoQuiet, Quieter, Initial, Resuming
<1>. QED BY <1>1, <1>2 DEF Way

LEMMA QuietTaken ==
  ASSUME CoQuiet, NEW v \in Worker, NEW g \in Gen, Taken(v, g)'
  PROVE  Taken(v, g)
BY Literals DEF CoQuiet, Quieter, Taken

LEMMA EntryQuiet ==
  ASSUME TypeOK, TypeOK', OneHolderPerGeneration, HeadAdvance, EntryInv, Quiet
  PROVE  EntryInv'
<1>. CoQuiet /\ TaskQuiet /\ NativeStep /\ UNCHANGED <<invoked, resumed>>
  BY DEF Quiet, histVars
<1>1. NoneNew
  BY QuietEnters, QuietTaken DEF NoneNew
<1>2. OneWay'
  BY QuietEnters DEF EntryInv, OneWay, Enters
<1>. QED BY <1>1, <1>2, NoneNewParts, EnteredKept, AttemptKept, NamedKept, EvidenceKept
     DEF EntryInv

-----------------------------------------------------------------------------
(* The steps that are not quiet *)

\* A way that a coroutine keeps open has a generation.
LEMMA CoEnters ==
  ASSUME TypeOK, Named, NEW w \in Worker, NEW c \in Coroutine, Enters(w, c, CoGen(w, c))
  PROVE  /\ CoGen(w, c) \in Gen
         /\ Initial(w, c, CoGen(w, c)) => co[w][c].pc \in {"build", "sread"}
         /\ Resuming(w, c, CoGen(w, c)) => co[w][c].pc = "rspawn"
<1>1. co[w][c].pc \in {"build", "sread", "rspawn"}
  BY Ways DEF Enters, Initial, Resuming
<1>2. CoGen(w, c) \in Gen0 /\ CoGen(w, c) # 0
  BY <1>1, CoFields DEF TypeOK, Named, CoGen
<1>. QED BY <1>2, Generations, Ways DEF Initial, Resuming

\* The same way goes on through another door.
LEMMA EntrySpawned ==
  ASSUME TypeOK, TypeOK', OneHolderPerGeneration, HeadAdvance, EntryInv,
         NEW w \in Worker, NEW c \in Coroutine, Spawned(w, c, CoGen(w, c))
  PROVE  EntryInv'
<1>. DEFINE g == CoGen(w, c)
<1>0. UNCHANGED <<native, invoked, resumed>> /\ Return(w, c) /\ Enters(w, c, g)
  BY DEF Spawned
<1>. TaskTypeOK /\ CoTypeOK /\ Named
  BY DEF TypeOK, EntryInv
<1>1. /\ g \in Gen
      /\ Initial(w, c, g) => co[w][c].pc # "rspawn"
      /\ Resuming(w, c, g) => co[w][c].pc = "rspawn"
  BY <1>0, CoEnters
<1>2. \A v \in Worker, h \in Gen :
        task'[v][h] = IF v = w /\ h = g
                      THEN IF co[w][c].pc = "rspawn" THEN "rqueued" ELSE "queued"
                      ELSE task[v][h]
  BY <1>1 DEF Spawned, TaskTypeOK
<1>3. CoQuiet
  BY <1>0, ReturnQuiet
<1>4. co'[w][c].pc \in {"idle", "sweep"}
  BY <1>0 DEF Return, Idle, CoTypeOK, CoState
<1>. HIDE DEF g
<1>5. ASSUME NEW v \in Worker, NEW k \in Way, NEW h \in Gen
      PROVE  /\ Initial(v, k, h)' => \/ Initial(v, k, h) /\ (v = w => k # c)
                                     \/ v = w /\ k = "task" /\ h = g /\ Initial(w, c, g)
             /\ Resuming(v, k, h)' => \/ Resuming(v, k, h) /\ (v = w => k # c)
                                      \/ v = w /\ k = "task" /\ h = g /\ Resuming(w, c, g)
  <2>1. CASE k = "task"
    <3>1. CASE v = w /\ h = g
      BY <1>0, <1>1, <1>2, <2>1, <3>1, Ways DEF Initial, Resuming, Enters
    <3>2. CASE ~(v = w /\ h = g)
      BY <1>2, <2>1, <3>2, Ways DEF Initial, Resuming
    <3>. QED BY <3>1, <3>2
  <2>2. CASE k \in Coroutine /\ ~(v = w /\ k = c)
    BY <1>3, <2>2, Ways DEF CoQuiet, Quieter, Initial, Resuming
  <2>3. CASE v = w /\ k = c
    BY <1>4, <2>3, Ways DEF Initial, Resuming
  <2>. QED BY <2>1, <2>2, <2>3 DEF Way
<1>6. NoneNew
  BY <1>3, <1>5, QuietTaken, Ways DEF NoneNew
<1>7. ASSUME NEW v \in Worker, NEW k \in Way, NEW h \in Gen, Enters(v, k, h)'
      PROVE  \/ Enters(v, k, h) /\ (v = w => k # c)
             \/ v = w /\ k = "task" /\ h = g
  BY <1>5, <1>7 DEF Enters
<1>8. OneWay'
  <2>1. ASSUME NEW v \in Worker, NEW h \in Gen, NEW j \in Way, NEW k \in Way,
               Enters(v, j, h)', Enters(v, k, h)', j # k
        PROVE  FALSE
    <3>1. ~(Enters(v, j, h) /\ Enters(v, k, h))
      BY <2>1 DEF EntryInv, OneWay
    <3>2. v = w /\ h = g
      BY <1>7, <2>1, <3>1
    <3>3. PICK i \in {j, k} : Enters(w, i, g) /\ i # c
      BY <1>7, <2>1, <3>2
    <3>. QED BY <1>0, <1>1, <3>3, Ways DEF EntryInv, OneWay
  <2>2. ASSUME NEW v \in Worker, NEW h \in Gen, NEW k \in Way, Enters(v, k, h)'
        PROVE  invoked[h] = 0
    BY <1>0, <1>1, <1>7, <2>2, Ways DEF EntryInv, OneWay
  <2>. QED BY <1>0, <2>1, <2>2 DEF OneWay
<1>9. EvidenceIsEntered'
  <2>1. \A v \in Worker, h \in Gen : task'[v][h] \in Running => task[v][h] \in Running
    BY <1>2 DEF Running
  <2>. QED BY <1>0, <2>1 DEF EntryInv, EvidenceIsEntered
<1>. QED BY <1>0, <1>3, <1>6, <1>8, <1>9, NoneNewParts, EnteredKept, AttemptKept, NamedKept
     DEF EntryInv

\* The one way closes, and the generation counts as entered.
LEMMA EntryGated ==
  ASSUME TypeOK, TypeOK', OneHolderPerGeneration, RowInv, EntryInv,
         NEW w \in Worker, NEW g \in Gen, Gated(w, g)
  PROVE  EntryInv'
<1>. TaskTypeOK /\ invoked \in [Gen -> 0..2] /\ resumed \in [Gen -> 0..2] /\ Gen \subseteq Nat
  BY Generations DEF TypeOK, HistoryTypeOK
<1>1. UNCHANGED <<dispatch, run, head, intent, attempt, co, native>>
  BY DEF Gated, dbVars
<1>2. /\ \A v \in Worker, h \in Gen :
           task'[v][h] = IF v = w /\ h = g
                         THEN IF task[w][g] = "queued" THEN "run" ELSE "resume"
                         ELSE task[v][h]
      /\ Enters(w, "task", g)
  BY DEF Gated, TaskTypeOK, Enters, Initial, Resuming
<1>3. invoked[g] = 0
  BY <1>2, Ways DEF EntryInv, OneWay
<1>4. \A h \in Gen : invoked'[h] = IF h = g THEN 1 ELSE invoked[h]
  BY <1>3 DEF Gated
<1>5. g = run.gen
  BY DEF Gated, Active, Fence
<1>6. ASSUME NEW v \in Worker, NEW k \in Way, NEW h \in Gen
      PROVE  /\ Initial(v, k, h)' => Initial(v, k, h)
             /\ Resuming(v, k, h)' => Resuming(v, k, h)
             /\ Enters(v, k, h)' => h # g
  <2>1. /\ Initial(v, k, h)' => Initial(v, k, h)
        /\ Resuming(v, k, h)' => Resuming(v, k, h)
    <3>1. CASE k = "task"
      BY <1>2, <3>1, Ways DEF Initial, Resuming
    <3>2. CASE k \in Coroutine
      BY <1>1, <3>2, Ways DEF Initial, Resuming
    <3>. QED BY <3>1, <3>2 DEF Way
  <2>2. ASSUME Enters(v, k, g)' PROVE FALSE
    <3>1. ~Enters(w, "task", g)'
      BY <1>2, Ways DEF Enters, Initial, Resuming
    <3>2. CASE v = w
      <4>1. Enters(w, k, g)
        <5>1. CASE k = "task"
          BY <2>2, <3>1, <3>2, <5>1
        <5>2. CASE k \in Coroutine
          BY <1>1, <2>2, <3>2, <5>2, Ways DEF Enters, Initial, Resuming
        <5>. QED BY <5>1, <5>2 DEF Way
      <4>2. k = "task"
        BY <1>2, <4>1, Ways DEF EntryInv, OneWay
      <4>. QED BY <2>2, <3>1, <3>2, <4>2
    <3>3. CASE v # w
      <4>1. Enters(v, k, g)
        <5>1. CASE k = "task"
          BY <1>2, <2>2, <3>3, <5>1, Ways DEF Enters, Initial, Resuming
        <5>2. CASE k \in Coroutine
          BY <1>1, <2>2, <5>2, Ways DEF Enters, Initial, Resuming
        <5>. QED BY <5>1, <5>2 DEF Way
      <4>2. g \in Held(v) /\ g \in Held(w)
        BY <1>2, <4>1, EntersHeld, Ways
      <4>. QED BY <3>3, <4>2, HeldAlone
    <3>. QED BY <3>2, <3>3
  <2>. QED BY <2>1, <2>2 DEF Enters
<1>7. OneWay'
  <2>1. ASSUME NEW v \in Worker, NEW h \in Gen, NEW k \in Way, Enters(v, k, h)'
        PROVE  Enters(v, k, h) /\ invoked'[h] = 0
    BY <1>4, <1>6, <2>1 DEF Enters, EntryInv, OneWay
  <2>. QED BY <2>1 DEF EntryInv, OneWay
<1>8. StartBeforeAnswer'
  BY <1>1, <1>6 DEF EntryInv, StartBeforeAnswer
<1>9. EnteredOnce'
  <2>1. head.cmd # 0 => intent[head.cmd] # "accepted"
    BY <1>2, <1>5, Ways DEF Enters, EntryInv, StartBeforeAnswer
  <2>2. run.gen \in Nat
    BY RowGen
  <2>. QED BY <1>1, <1>4, <1>5, <2>1, <2>2 DEF EntryInv, EnteredOnce
<1>10. TakenIsFresh'
  <2>1. ASSUME NEW v \in Worker, NEW h \in Gen, Taken(v, h)'
        PROVE  /\ Taken(v, h)
               /\ head.cmd = 0 => invoked'[h] = 0
    <3>1. Taken(v, h)
      BY <1>1, <2>1 DEF Taken
    <3>2. ASSUME h = g, head.cmd = 0 PROVE FALSE
      <4>1. v = w
        BY <1>2, <3>1, <3>2, TakenHeld, EntersHeld, HeldAlone, Ways
      <4>. QED BY <1>2, <3>1, <3>2, <4>1, Ways
           DEF Enters, EntryInv, TakenIsFresh, StartBeforeAnswer
    <3>. QED BY <1>4, <3>1, <3>2 DEF EntryInv, TakenIsFresh
  <2>. QED BY <1>1, <1>6, <2>1 DEF EntryInv, TakenIsFresh
<1>11. EvidenceIsEntered'
  <2>1. \A v \in Worker, h \in Gen : task'[v][h] \in Running => task[v][h] \in Running \/ h = g
    BY <1>2
  <2>2. \A v \in Worker, h \in Gen : task'[v][h] \in Running => invoked'[h] > 0
    BY <1>4, <2>1 DEF EntryInv, EvidenceIsEntered
  <2>3. native.leaf # 0 => native.leaf \in Gen
    BY Generations DEF TypeOK, HistoryTypeOK
  <2>4. ASSUME native.leaf # 0 PROVE invoked'[native.leaf] > 0
    <3>1. invoked[native.leaf] > 0
      BY <2>4 DEF EntryInv, EvidenceIsEntered
    <3>2. invoked'[native.leaf] = IF native.leaf = g THEN 1 ELSE invoked[native.leaf]
      BY <1>4, <2>3, <2>4
    <3>. QED BY <3>1, <3>2
  <2>. QED BY <1>1, <2>2, <2>4 DEF EvidenceIsEntered
<1>12. Named'
  BY <1>1 DEF EntryInv, Named
<1>13. AttemptIsOne'
  <2>1. ASSUME NEW p \in Gen
        PROVE  /\ resumed'[p] <= 1
               /\ resumed'[p] > 0 => attempt[p] # 0 /\ invoked'[attempt[p]] > 0
               /\ intent[p] \in {"none", "accepted"} => attempt[p] = 0
    <3>1. CASE attempt[p] = g
      <4>1. resumed[p] = 0
        BY <1>3, <3>1 DEF EntryInv, AttemptIsOne
      <4>2. resumed'[p] \in {0, 1}
        BY <4>1 DEF Gated
      <4>. QED BY <1>4, <3>1, <4>2, Generations DEF EntryInv, AttemptIsOne
    <3>2. CASE attempt[p] # g
      <4>1. resumed'[p] = resumed[p]
        BY <3>2 DEF Gated
      <4>2. attempt[p] \in Gen0
        BY DEF TypeOK, CommandTypeOK
      <4>. QED BY <1>4, <3>2, <4>1, <4>2, Generations DEF EntryInv, AttemptIsOne
    <3>. QED BY <3>1, <3>2
  <2>. QED BY <1>1, <2>1 DEF AttemptIsOne
<1>. QED BY <1>7, <1>8, <1>9, <1>10, <1>11, <1>12, <1>13 DEF EntryInv


\* The ways that are open after a step that wrote record r of one coroutine.
OpenAfter(w, c, r) ==
  \A v \in Worker, g \in Gen :
    /\ \A k \in Way :
         /\ Initial(v, k, g)' =>
              \/ Initial(v, k, g)
              \/ v = w /\ k = c /\ r.gen = g /\ r.pc \in {"build", "sread"}
         /\ Resuming(v, k, g)' =>
              \/ Resuming(v, k, g)
              \/ v = w /\ k = c /\ r.gen = g /\ r.pc = "rspawn"
    /\ Taken(v, g)' => \/ Taken(v, g) /\ ~(v = w /\ c = "beat")
                       \/ v = w /\ c = "beat" /\ r.pc = "taken" /\ r.gen = g

LEMMA OneMore ==
  ASSUME CoTypeOK, TaskQuiet, NEW w \in Worker, NEW c \in Coroutine, NEW r,
         co' = [co EXCEPT ![w][c] = r]
  PROVE  OpenAfter(w, c, r)
<1>1. \A v \in Worker, d \in Coroutine :
        co'[v][d] = IF v = w /\ d = c THEN r ELSE co[v][d]
  BY DEF CoTypeOK
<1>2. ASSUME NEW v \in Worker, NEW g \in Gen, NEW k \in Way
      PROVE  /\ Initial(v, k, g)' =>
                  \/ Initial(v, k, g)
                  \/ v = w /\ k = c /\ r.gen = g /\ r.pc \in {"build", "sread"}
             /\ Resuming(v, k, g)' =>
                  \/ Resuming(v, k, g)
                  \/ v = w /\ k = c /\ r.gen = g /\ r.pc = "rspawn"
  <2>1. CASE k = "task"
    BY <2>1, Ways DEF TaskQuiet, Initial, Resuming, Running
  <2>2. CASE k \in Coroutine
    BY <1>1, <2>2, Ways DEF Initial, Resuming
  <2>. QED BY <2>1, <2>2 DEF Way
<1>3. ASSUME NEW v \in Worker, NEW g \in Gen, Taken(v, g)'
      PROVE  \/ Taken(v, g) /\ ~(v = w /\ c = "beat")
             \/ v = w /\ c = "beat" /\ r.pc = "taken" /\ r.gen = g
  BY <1>1, <1>3, Literals DEF Taken
<1>. QED BY <1>2, <1>3 DEF OpenAfter

\* The names of what one coroutine now works on.
LEMMA NamedOne ==
  ASSUME CoTypeOK, Named, NEW w \in Worker, NEW c \in Coroutine, NEW r,
         co' = [co EXCEPT ![w][c] = r],
         r.pc \in {"build", "sread", "rspawn", "taken"} => r.gen # 0,
         r.pc \notin AskPC
  PROVE  Named'
<1>1. \A v \in Worker, d \in Coroutine :
        co'[v][d] = IF v = w /\ d = c THEN r ELSE co[v][d]
  BY DEF CoTypeOK
<1>. QED BY <1>1 DEF Named

\* The accepted answer opens the one way of the current generation.
LEMMA EntryDispatched ==
  ASSUME TypeOK, TypeOK', OneHolderPerGeneration, RowInv, HeadAdvance, EntryInv,
         NEW w \in Worker, NEW c \in Coroutine, Dispatched(w, c)
  PROVE  EntryInv'
<1>. DEFINE g == co[w][c].gen
            p == co[w][c].cmd
<1>. CoTypeOK /\ TaskQuiet /\ NativeStep /\ UNCHANGED <<run, head, task, native, invoked, resumed>>
  BY TaskFrame DEF TypeOK, Dispatched, NativeStep
<1>1. g = run.gen /\ g \in Gen
  BY ByFence, OwnerIsBorn, HeadTypes, Generations DEF Dispatched, RowInv
<1>2. head.cmd = p /\ p # 0 /\ intent[head.cmd] = "accepted"
  BY DEF Dispatched, Startable, EntryInv, Named, AskPC
<1>3. intent'[head.cmd] # "accepted"
  <2>1. head.cmd \in Gen
    BY <1>2, HeadTypes, Generations
  <2>. QED BY <1>2, <2>1, HeadTypes DEF Dispatched
<1>4. PICK r : r.pc = "rspawn" /\ r.gen = g /\ co' = [co EXCEPT ![w][c] = r]
  BY DEF Dispatched
<1>. HIDE DEF g, p
<1>5. /\ \A v \in Worker, k \in Way : ~Enters(v, k, g)
      /\ invoked[g] = 0
  <2>1. ~(invoked[g] > 0)
    BY <1>1, <1>2 DEF EntryInv, EnteredOnce
  <2>2. invoked[g] \in 0..2
    BY <1>1 DEF TypeOK, HistoryTypeOK
  <2>. QED BY <1>1, <1>2, <2>1, <2>2 DEF EntryInv, StartBeforeAnswer, Enters
<1>6. ASSUME NEW v \in Worker, NEW h \in Gen
      PROVE  /\ \A k \in Way :
                  /\ Initial(v, k, h)' => Initial(v, k, h)
                  /\ Resuming(v, k, h)' => Resuming(v, k, h) \/ (v = w /\ k = c /\ h = g)
             /\ Taken(v, h)' => Taken(v, h)
  <2>1. OpenAfter(w, c, r)
    BY <1>4, OneMore
  <2>. QED BY <1>4, <2>1 DEF OpenAfter
<1>7. OneWay'
  <2>1. ASSUME NEW v \in Worker, NEW h \in Gen, NEW k \in Way, Enters(v, k, h)'
        PROVE  \/ Enters(v, k, h) /\ h # g
               \/ v = w /\ k = c /\ h = g
    BY <1>5, <1>6, <2>1 DEF Enters
  <2>. QED BY <1>5, <2>1 DEF EntryInv, OneWay
<1>8. StartBeforeAnswer'
  BY <1>1, <1>2, <1>3, <1>5, <1>6 DEF EntryInv, StartBeforeAnswer
<1>9. TakenIsFresh'
  BY <1>6 DEF EntryInv, TakenIsFresh
<1>10. Named'
  BY <1>1, <1>4, NamedOne, Generations DEF EntryInv, AskPC
<1>. QED BY <1>7, <1>8, <1>9, <1>10, EnteredKept, AttemptKept, EvidenceKept DEF EntryInv

\* The claim of a launch: nobody holds anything yet.
LEMMA EntryClaimed ==
  ASSUME TypeOK, TypeOK', OneHolderPerGeneration, RowInv, HeadAdvance, EntryInv,
         NEW w \in Worker, ClaimWin(w)
  PROVE  EntryInv'
<1>. DEFINE r == [pc |-> "build", gen |-> 1, cmd |-> co[w]["serve"].cmd,
                  then |-> co[w]["serve"].then]
<1>. CoTypeOK /\ TaskQuiet /\ NativeStep /\ UNCHANGED <<head, task, native, invoked, resumed>>
  BY TaskFrame DEF TypeOK, ClaimWin, NativeStep, histVars
<1>1. run.gen = 0 /\ head.cmd = 0
  BY DEF ClaimWin, RowInv, Unborn
<1>2. co' = [co EXCEPT ![w]["serve"] = r] /\ r.pc = "build" /\ r.gen = 1
  BY DEF ClaimWin, Goto
<1>. HIDE DEF r
<1>3. ASSUME NEW v \in Worker, NEW g \in Gen
      PROVE  /\ \A k \in Way : ~Enters(v, k, g)
             /\ ~Taken(v, g)
             /\ invoked[g] = 0
  <2>1. g \notin Held(v)
    BY <1>1, HeldPast, Generations
  <2>2. invoked[g] = 0
    BY <1>1, Generations DEF EntryInv, EnteredOnce
  <2>. QED BY <2>1, <2>2, EntersHeld, TakenHeld
<1>4. ASSUME NEW v \in Worker, NEW g \in Gen
      PROVE  /\ \A k \in Way : /\ Initial(v, k, g)' => v = w /\ k = "serve"
                               /\ ~Resuming(v, k, g)'
             /\ ~Taken(v, g)'
  <2>1. "serve" \in Coroutine /\ "serve" # "beat"
    BY DEF Coroutine
  <2>2. /\ \A k \in Way :
             /\ Initial(v, k, g)' => Initial(v, k, g) \/ (v = w /\ k = "serve")
             /\ Resuming(v, k, g)' => Resuming(v, k, g)
        /\ Taken(v, g)' => Taken(v, g)
    <3>1. OpenAfter(w, "serve", r)
      BY <1>2, <2>1, OneMore
    <3>2. r.pc # "rspawn"
      BY <1>2
    <3>3. Taken(v, g)' => Taken(v, g)
      BY <2>1, <3>1 DEF OpenAfter
    <3>4. ASSUME NEW k \in Way
          PROVE  /\ Initial(v, k, g)' => Initial(v, k, g) \/ (v = w /\ k = "serve")
                 /\ Resuming(v, k, g)' => Resuming(v, k, g)
      BY <3>1, <3>2 DEF OpenAfter
    <3>. QED BY <3>3, <3>4
  <2>. QED BY <1>3, <2>2 DEF Enters
<1>5. OneWay' /\ StartBeforeAnswer' /\ TakenIsFresh'
  BY <1>1, <1>3, <1>4 DEF OneWay, StartBeforeAnswer, TakenIsFresh, Enters
<1>6. Named'
  <2>1. r.pc \notin AskPC /\ "serve" \in Coroutine /\ r.gen # 0
    BY <1>2 DEF AskPC, Coroutine
  <2>. QED BY <1>2, <2>1, NamedOne DEF EntryInv
<1>. QED BY <1>5, <1>6, EnteredKept, AttemptKept, EvidenceKept DEF EntryInv

\* A reclaim takes a generation nobody has held.
LEMMA EntryReclaimed ==
  ASSUME TypeOK, TypeOK', OneHolderPerGeneration, RowInv, HeadAdvance, EntryInv,
         NEW w \in Worker, BeatReclaim(w)
  PROVE  EntryInv'
<1>. DEFINE r == [pc |-> "taken", gen |-> run.gen + 1, cmd |-> co[w]["beat"].cmd,
                  then |-> co[w]["beat"].then]
<1>. CoTypeOK /\ TaskQuiet /\ NativeStep
     /\ UNCHANGED <<head, intent, task, native, invoked, resumed>>
  BY TaskFrame DEF TypeOK, BeatReclaim, NativeStep, histVars
<1>1. run'.gen = run.gen + 1 /\ run.gen \in Nat
  BY RowGen DEF BeatReclaim, Grant, NextGeneration
<1>2. co' = [co EXCEPT ![w]["beat"] = r] /\ r.pc = "taken" /\ r.gen = run.gen + 1
  BY DEF BeatReclaim, Goto, NextGeneration
<1>. HIDE DEF r
<1>3. ASSUME NEW v \in Worker, NEW k \in Way, NEW g \in Gen, Enters(v, k, g)
      PROVE  g <= run.gen
  BY <1>3, EntersHeld, HeldPast
<1>4. ASSUME NEW v \in Worker, NEW g \in Gen
      PROVE  /\ \A k \in Way : /\ Initial(v, k, g)' => Initial(v, k, g)
                               /\ Resuming(v, k, g)' => Resuming(v, k, g)
             /\ Taken(v, g)' => Taken(v, g) \/ g = run.gen + 1
  <2>1. OpenAfter(w, "beat", r)
    BY <1>2, OneMore, Literals
  <2>. QED BY <1>2, <2>1 DEF OpenAfter
<1>5. OneWay'
  BY <1>4 DEF EntryInv, OneWay, Enters
<1>6. StartBeforeAnswer'
  BY <1>1, <1>3, <1>4 DEF EntryInv, StartBeforeAnswer, Enters
<1>7. TakenIsFresh'
  <2>1. ASSUME NEW v \in Worker, NEW g \in Gen, Taken(v, g)'
        PROVE  /\ \A k \in Way : ~Initial(v, k, g)'
               /\ head.cmd = 0 => invoked[g] = 0
    <3>1. CASE Taken(v, g)
      BY <1>4, <3>1 DEF EntryInv, TakenIsFresh
    <3>2. CASE g = run.gen + 1
      BY <1>1, <1>3, <1>4, <3>2 DEF EntryInv, EnteredOnce, Enters
    <3>. QED BY <1>4, <2>1, <3>1, <3>2
  <2>. QED BY <2>1 DEF TakenIsFresh
<1>8. Named'
  <2>1. r.pc \notin AskPC /\ r.gen # 0
    BY <1>1, <1>2 DEF AskPC
  <2>. QED BY <1>2, <2>1, NamedOne, Literals DEF EntryInv
<1>. QED BY <1>5, <1>6, <1>7, <1>8, EnteredKept, AttemptKept, EvidenceKept DEF EntryInv

\* The generation just reclaimed is started, unless the run was answered once.
LEMMA EntryTakenOver ==
  ASSUME TypeOK, TypeOK', OneHolderPerGeneration, RowInv, HeadAdvance, EntryInv,
         NEW w \in Worker, BeatTakeOver(w)
  PROVE  EntryInv'
<1>. DEFINE g == CoGen(w, "beat")
            b == [pc |-> "build", gen |-> g, cmd |-> 0, then |-> "sweep"]
            s == [Idle EXCEPT !.pc = "sweep"]
            r == IF head.cmd = 0 THEN b ELSE s
<1>. CoTypeOK /\ TaskTypeOK /\ NativeStep
     /\ UNCHANGED <<run, head, intent, native, invoked, resumed>>
  BY DEF TypeOK, BeatTakeOver, NativeStep, dbVars, histVars
<1>. TaskQuiet
  BY TaskCancelled DEF BeatTakeOver
<1>1. Taken(w, g) /\ g \in Gen
  <2>1. co[w]["beat"].gen \in Gen0 /\ co[w]["beat"].gen # 0
    BY CoFields, Literals DEF BeatTakeOver, At, EntryInv, Named, CoGen
  <2>. QED BY <2>1, Generations DEF BeatTakeOver, At, Taken, CoGen
<1>2. co' = [co EXCEPT ![w]["beat"] = r]
  BY DEF BeatTakeOver, MayRestart
<1>3. /\ head.cmd = 0 => r.pc = "build" /\ r.gen = g
      /\ head.cmd # 0 => r.pc = "sweep"
  BY DEF Idle
<1>. HIDE DEF g, r
<1>4. ASSUME NEW v \in Worker, NEW h \in Gen
      PROVE  /\ \A k \in Way :
                  /\ Initial(v, k, h)' => \/ Initial(v, k, h)
                                          \/ v = w /\ k = "beat" /\ h = g /\ head.cmd = 0
                  /\ Resuming(v, k, h)' => Resuming(v, k, h)
             /\ Taken(v, h)' => Taken(v, h) /\ v # w
  <2>1. OpenAfter(w, "beat", r)
    BY <1>2, OneMore, Literals
  <2>. QED BY <1>3, <2>1 DEF OpenAfter
<1>5. head.cmd = 0 => invoked[g] = 0 /\ \A k \in Way : ~Enters(w, k, g)
  BY <1>1 DEF EntryInv, TakenIsFresh, StartBeforeAnswer, Enters
<1>6. OneWay'
  <2>1. ASSUME NEW v \in Worker, NEW h \in Gen, NEW k \in Way, Enters(v, k, h)'
        PROVE  \/ Enters(v, k, h)
               \/ v = w /\ k = "beat" /\ h = g /\ head.cmd = 0
    BY <1>4, <2>1 DEF Enters
  <2>. QED BY <1>5, <2>1 DEF EntryInv, OneWay
<1>7. StartBeforeAnswer'
  BY <1>4 DEF EntryInv, StartBeforeAnswer
<1>8. TakenIsFresh'
  BY <1>4 DEF EntryInv, TakenIsFresh
<1>9. Named'
  <2>1. r.pc \notin AskPC /\ (r.pc = "build" => r.gen # 0) /\ r.pc \in {"build", "sweep"}
    BY <1>1, <1>3, Generations DEF AskPC
  <2>. QED BY <1>2, <2>1, NamedOne, Literals DEF EntryInv
<1>. QED BY <1>6, <1>7, <1>8, <1>9, EnteredKept, AttemptKept, EvidenceKept DEF EntryInv

-----------------------------------------------------------------------------
(* The graph is entered once *)

LEMMA EntryInvInit == Init => EntryInv
<1>. SUFFICES ASSUME Init PROVE EntryInv
  OBVIOUS
<1>1. \A v \in Worker, g \in Gen : task[v][g] = "none" /\ g # 0
  BY Generations DEF Init
<1>2. \A v \in Worker, c \in Coroutine : co[v][c].pc = "idle"
  BY DEF Init, Idle
<1>3. \A g \in Gen : invoked[g] = 0 /\ resumed[g] = 0 /\ attempt[g] = 0
  BY DEF Init
<1>4. \A v \in Worker, k \in Way, g \in Gen : ~Initial(v, k, g) /\ ~Resuming(v, k, g)
  BY <1>1, <1>2, Ways DEF Initial, Resuming
<1>5. \A v \in Worker, g \in Gen : ~Taken(v, g)
  BY <1>2, Literals DEF Taken
<1>6. OneWay /\ StartBeforeAnswer /\ TakenIsFresh
  BY <1>4, <1>5 DEF OneWay, StartBeforeAnswer, TakenIsFresh, Enters
<1>7. EnteredOnce /\ AttemptIsOne
  BY <1>3 DEF EnteredOnce, AttemptIsOne
<1>8. EvidenceIsEntered
  BY <1>1 DEF Init, EvidenceIsEntered, Running
<1>9. Named
  BY <1>2 DEF Named, AskPC
<1>. QED BY <1>6, <1>7, <1>8, <1>9 DEF EntryInv

LEMMA EntryInvStep ==
  ASSUME TypeOK, TypeOK', OneHolderPerGeneration, RowInv, HeadInv, EntryInv, [Next]_vars
  PROVE  EntryInv'
<1>1. HeadAdvance
  BY NextRow, RowAdvance
<1>2. EntryStep
  BY NextEntry DEF EntryOrBeat
<1>. QED BY <1>1, <1>2, EntryQuiet, EntryClaimed, EntryReclaimed, EntryTakenOver,
          EntryDispatched, EntrySpawned, EntryGated DEF EntryStep

LEMMA EntryInvariant == Spec => []EntryInv
<1>1. TypeOK /\ TypeOK' /\ OneHolderPerGeneration /\ RowInv /\ HeadInv /\ EntryInv
      /\ [Next]_vars => EntryInv'
  BY EntryInvStep
<1>. QED BY <1>1, EntryInvInit, TypeCorrect, OneHolder, RowInvariant, HeadInvariant, PTL DEF Spec

\* A generation enters the agent graph at most once: _claim_and_start, the reapply
\* of a persisted command, the control listener and the restart after a reclaim
\* all spawn tasks, and no two of them under one generation pass the gate.
THEOREM OneInvocation == Spec => []OneInvocationPerGeneration
<1>1. EntryInv => OneInvocationPerGeneration
  BY DEF EntryInv, EnteredOnce, OneInvocationPerGeneration
<1>. QED BY <1>1, EntryInvariant, PTL

\* The decision a human took on a pause is handed to the graph at most once: the
\* attempt that start_resume records is the only one, and enters the graph once.
THEOREM OneResume == Spec => []OneResumePerPause
<1>1. EntryInv => OneResumePerPause
  BY DEF EntryInv, AttemptIsOne, OneResumePerPause
<1>. QED BY <1>1, EntryInvariant, PTL

\* _start_run never finds a pause of its own generation in the native thread: the
\* pause would have been raised by an invocation, and the generation had none.
THEOREM RecoveryDead == Spec => []RecoveryBranchIsDead
<1>1. ASSUME TypeOK, EntryInv PROVE RecoveryBranchIsDead
  <2>. SUFFICES ASSUME NEW w \in Worker, NEW c \in Coroutine, At(w, c, "sread"),
                       native.leaf = CoGen(w, c)
                PROVE  FALSE
    BY DEF RecoveryBranchIsDead
  <2>1. Initial(w, c, CoGen(w, c))
    BY Ways DEF At, Initial, CoGen
  <2>2. CoGen(w, c) \in Gen /\ CoGen(w, c) # 0
    BY <1>1, <2>1, CoEnters, Generations DEF Enters, EntryInv
  <2>3. invoked[CoGen(w, c)] = 0
    BY <1>1, <2>1, <2>2, Ways DEF EntryInv, OneWay, Enters
  <2>. QED BY <1>1, <2>2, <2>3 DEF EntryInv, EvidenceIsEntered
<1>. QED BY <1>1, EntryInvariant, TypeCorrect, PTL

-----------------------------------------------------------------------------
(* The heartbeat yields only what is lost *)

LEMMA YieldIsLateInit == Init => YieldIsLate
BY Literals DEF Init, YieldIsLate, Idle

\* What was lost is not granted again, and only its own heartbeat could renew it.
LEMMA LateStays ==
  ASSUME TypeOK, OneHolderPerGeneration, RowInv, RowStep, NEW v \in Worker, NEW g \in Gen,
         g \in Held(v), co'[v]["beat"].pc # "scan", (Fence(v, g) /\ run.expiry = "live")'
  PROVE  Fence(v, g) /\ run.expiry = "live"
<1>. g <= run.gen /\ run.gen \in Nat /\ g \in Nat /\ g # 0
  BY HeldPast, RowGen, Generations
<1>1. CASE Kept \/ Launched \/ Activated
  BY <1>1 DEF Kept, Launched, Activated, Fence
<1>2. CASE Claimed \/ Reclaimed \/ Accepted
  BY <1>2 DEF Claimed, Reclaimed, Accepted, Grant, Fence
<1>3. CASE Aged
  BY <1>3, RowGen DEF Aged, Fence
<1>4. CASE Paused \/ Terminated \/ Cancelled
  BY <1>4, RowGen DEF Paused, Release, Terminated, Cancelled, CommitTerminal
<1>5. CASE Renewed
  <2>1. PICK w \in Worker : Active(w, run.gen) /\ co'[w]["beat"].pc = "scan"
    BY <1>5 DEF Renewed
  <2>2. run'.owner = run.owner
    BY <1>5, RowGen DEF Renewed
  <2>. QED BY <2>1, <2>2 DEF Active, Fence
<1>. QED BY <1>1, <1>2, <1>3, <1>4, <1>5 DEF RowStep

LEMMA YieldIsLateStep ==
  ASSUME TypeOK, TypeOK', OneHolderPerGeneration, RowInv, YieldIsLate, [Next]_vars
  PROVE  YieldIsLate'
<1>. CoTypeOK /\ "beat" \in Coroutine
  BY Literals DEF TypeOK
<1>. SUFFICES ASSUME NEW v \in Worker, co'[v]["beat"].pc = "yield"
              PROVE  /\ co'[v]["beat"].gen # 0
                     /\ ~(Fence(v, co[v]["beat"].gen) /\ run.expiry = "live")'
  BY DEF YieldIsLate
<1>1. CASE co'[v]["beat"] = co[v]["beat"]
  <2>1. co[v]["beat"].gen # 0 /\ ~(Fence(v, co[v]["beat"].gen) /\ run.expiry = "live")
    BY <1>1 DEF YieldIsLate
  <2>2. co[v]["beat"].gen \in Gen /\ co[v]["beat"].gen \in Held(v)
    BY <2>1, CoFields, Generations DEF Held, CoGens, CoGen
  <2>3. PICK g \in Gen : g = co[v]["beat"].gen
    BY <2>2
  <2>4. ~(Fence(v, g) /\ run.expiry = "live")'
    BY <2>1, <2>2, <2>3, LateStays, NextRow
  <2>. QED BY <1>1, <2>1, <2>3, <2>4 DEF Fence
<1>2. CASE BeatRenew(v)
  <2>1. \A d \in Coroutine : d = "beat" => co'[v][d].pc = "scan" \/ co'[v][d].gen = reg[v]
    BY <1>2 DEF BeatRenew, Goto, CoTypeOK
  <2>2. Lapsed(v, reg[v]) /\ run' = run /\ reg[v] # 0 /\ co'[v]["beat"].gen = reg[v]
    BY <1>2, <2>1 DEF BeatRenew, Goto, CoTypeOK
  <2>3. run.terminal => run.expiry # "live"
    BY DEF RowInv, TerminalHead, UnleasedIffParked, Unborn, TypeOK, RowTypeOK, RowType, Gen0
  <2>. QED BY <2>2, <2>3 DEF Lapsed, Fence
<1>3. Patient => co'[v]["beat"] = co[v]["beat"]
  BY DEF Patient, Steady
<1>4. ASSUME NEW w \in Worker, w # v, BeatRenew(w) \/ BeatYield(w)
      PROVE  co'[v]["beat"] = co[v]["beat"]
  BY <1>4 DEF BeatRenew, BeatYield, Goto, CoTypeOK
<1>5. ~BeatYield(v)
  BY DEF BeatYield, Goto, CoTypeOK
<1>. QED BY <1>1, <1>2, <1>3, <1>4, <1>5, NextEntry DEF EntryOrBeat, BeatStep

LEMMA YieldInvariant == Spec => []YieldIsLate
<1>1. TypeOK /\ TypeOK' /\ OneHolderPerGeneration /\ RowInv /\ YieldIsLate
      /\ [Next]_vars => YieldIsLate'
  BY YieldIsLateStep
<1>. QED BY <1>1, YieldIsLateInit, TypeCorrect, OneHolder, RowInvariant, PTL DEF Spec

\* heartbeat_once awaits the database between the renewal that failed and the
\* cancellation of the task; what it cancels then never runs under a live lease.
THEOREM YieldIsSafe == Spec => YieldSparesCurrent
<1>1. ASSUME TypeOK, YieldIsLate, [Next]_vars, NEW w \in Worker, NEW g \in Gen,
             At(w, "beat", "yield"), co'[w]["beat"].pc = "scan", task[w][g] # "none",
             Fence(w, g), run.expiry = "live"
      PROVE  task'[w][g] # "none"
  <2>. CoTypeOK /\ TaskTypeOK /\ "beat" \in Coroutine
    BY <1>1, Literals DEF TypeOK
  <2>1. ~Patient
    BY <1>1 DEF Patient, Steady, At
  <2>2. ASSUME NEW v \in Worker, v # w, BeatRenew(v) \/ BeatYield(v) PROVE FALSE
    <3>1. co'[w]["beat"] = co[w]["beat"]
      BY <2>2 DEF BeatRenew, BeatYield, Goto, CoTypeOK
    <3>. QED BY <1>1, <3>1 DEF At
  <2>3. ~BeatRenew(w)
    BY <1>1 DEF BeatRenew, At
  <2>4. BeatYield(w)
    BY <1>1, <2>1, <2>2, <2>3, NextEntry DEF EntryOrBeat, BeatStep
  <2>5. CASE UNCHANGED task
    BY <1>1, <2>5
  <2>6. CASE StillRegistered(w, CoGen(w, "beat")) /\ CancelRegistered(w)
    <3>1. reg[w] # g
      BY <1>1, <2>6 DEF StillRegistered, YieldIsLate, At, CoGen
    <3>. QED BY <1>1, <2>6, <3>1 DEF CancelRegistered, TaskTypeOK
  <2>. QED BY <2>4, <2>5, <2>6 DEF BeatYield
<1>2. TypeOK /\ YieldIsLate /\ [Next]_vars =>
        [\A w \in Worker, g \in Gen :
           (At(w, "beat", "yield") /\ co'[w]["beat"].pc = "scan" /\ task[w][g] # "none"
             /\ Fence(w, g) /\ run.expiry = "live")
           => task'[w][g] # "none"]_vars
  BY <1>1
<1>. QED BY <1>2, YieldInvariant, TypeCorrect, PTL DEF Spec, YieldSparesCurrent
=============================================================================
