---------------------------- MODULE RunLifecycle ----------------------------
(***************************************************************************)
(* The life of ONE run of the execution service: the durable dispatch      *)
(* intent, the lease row that fences its executor, the interaction head    *)
(* (waiting for a human, resuming, ...), and the coroutines of every       *)
(* worker process that act on them.  PostgreSQL serialises transactions on *)
(* the run row, so each transaction is one action; a handler is split      *)
(* where the code awaits between two transactions.                         *)
(*                                                                         *)
(* A lease expiry is compared with the clock of whoever asks (a worker's   *)
(* for renew / reclaim / the entry gate, the database's for the fenced     *)
(* writes).  Instead of clocks the row keeps what those clocks can say:    *)
(*   "live"  every clock sees the lease unexpired,                         *)
(*   "edge"  the clocks may disagree: each check answers either way,       *)
(*   "past"  every clock sees it expired,                                  *)
(*   "null"  no lease: the run waits for a human, or is terminal.          *)
(*                                                                         *)
(* A definition Name_Slip just before a definition Name is a wrong version *)
(* of it (a forgotten guard, a step twice).  The model does not use it: it *)
(* shows that a property would notice the slip.                            *)
(***************************************************************************)
EXTENDS Naturals

CONSTANTS Worker,    \* worker processes (consumer names)
          NoWorker,  \* owner of a row that does not exist yet
          MaxGen,    \* bound on generations granted by claim, reclaim, resume
          MaxFault,  \* bound on crashes and on tasks killed by an exception
          Timely,    \* TRUE: a lease only ages while nobody works under it
          Skew,      \* TRUE: the clocks may disagree about an expiry
          Cancels    \* TRUE: the user may cancel the run

ASSUME NoWorkerAssumption == NoWorker \notin Worker
ASSUME MaxGenAssumption == MaxGen \in Nat \ {0}
ASSUME MaxFaultAssumption == MaxFault \in Nat
ASSUME SwitchAssumption == {Timely, Skew, Cancels} \subseteq BOOLEAN

VARIABLES
  dispatch,  \* run_dispatch.status of the run
  run,       \* the lease columns of the run row; gen = 0: no row
  head,      \* interaction phase, current pause, command of the intent
  intent,    \* resume_intent_status of the command that answers a pause
  attempt,   \* resume_attempt_generation of that command
  rcmd,      \* ledger status of that command
  ccmd,      \* ledger status of the run's cancel command
  native,    \* the LangGraph thread: pending interrupt, finished invocations
  leases,    \* RunSupervisor._leases, per worker (0: no entry)
  reg,       \* RunSupervisor._tasks / _task_leases (0: no entry)
  task,      \* agent tasks alive in a worker, by the generation they run under
  co,        \* the request loop, the heartbeat and the control listener
  invoked,   \* history: native invocations entered under a generation
  resumed,   \* history: native resumes entered for a pause
  author,    \* history: generation that made the last head or terminal commit
  faults     \* crashes and task deaths so far

dbVars    == <<dispatch, run, head, intent, attempt, rcmd, ccmd, author>>
localVars == <<leases, reg, task, co>>
histVars  == <<invoked, resumed>>
vars == <<dispatch, run, head, intent, attempt, rcmd, ccmd, native, leases,
          reg, task, co, invoked, resumed, author, faults>>

\* A cancellation takes one generation more; a pause is named by the generation
\* of the invocation that raised it.
Gen   == 1..(MaxGen + 1)
Gen0  == 0..(MaxGen + 1)
Coroutine == {"serve", "beat", "ctl"}

Unsettled == {"accepted", "dispatch_started", "native_observed", "unknown"}
IntentStatus == {"none", "reconciled", "terminal"} \cup Unsettled
TaskPC == {"none", "queued", "run", "settle", "pausing", "fin",
           "rqueued", "resume", "rrun", "rsettle",
           "rec_wait", "rec_act", "rec_unk", "rcm_wait", "rcm_act"}
CoPC == {"idle", "have", "build", "sread",
         "yield", "scan", "taken", "sweep",
         "begin", "join", "adopt", "rbuild", "rread", "rstart", "rspawn",
         "rec_wait", "rec_act", "rec_unk", "rcm_wait", "rcm_act", "cancelled"}

CoState == [pc : CoPC, gen : Gen0, cmd : Gen0, then : {"idle", "sweep"}]
Idle == [pc |-> "idle", gen |-> 0, cmd |-> 0, then |-> "idle"]

RowType == [gen : Gen0, owner : Worker \cup {NoWorker},
            expiry : {"null", "live", "edge", "past"}, terminal : BOOLEAN]
HeadType == [phase : {"active", "waiting", "resuming", "terminal"},
             pause : Gen0, cmd : Gen0]

RowTypeOK ==
  /\ dispatch \in {"none", "pending", "claimed"}
  /\ run \in RowType
  /\ run.terminal \/ run.gen <= MaxGen
  /\ head \in HeadType
  /\ author \in Gen0

CommandTypeOK ==
  /\ intent \in [Gen -> IntentStatus]
  /\ attempt \in [Gen -> Gen0]
  /\ rcmd \in [Gen -> {"none", "admitted", "persisted", "done"}]
  /\ ccmd \in {"none", "persisted", "done"}

TaskTypeOK ==
  /\ leases \in [Worker -> Gen0]
  /\ reg \in [Worker -> Gen0]
  /\ task \in [Worker -> [Gen -> TaskPC]]

CoTypeOK == co \in [Worker -> [Coroutine -> CoState]]

HistoryTypeOK ==
  /\ native \in [leaf : Gen0, done : SUBSET Gen]
  /\ invoked \in [Gen -> 0..2]
  /\ resumed \in [Gen -> 0..2]
  /\ faults \in 0..MaxFault

TypeOK ==
  RowTypeOK /\ CommandTypeOK /\ TaskTypeOK /\ CoTypeOK /\ HistoryTypeOK

Init ==
  /\ dispatch = "none"
  /\ run = [gen |-> 0, owner |-> NoWorker, expiry |-> "null", terminal |-> FALSE]
  /\ head = [phase |-> "active", pause |-> 0, cmd |-> 0]
  /\ intent = [p \in Gen |-> "none"]
  /\ attempt = [p \in Gen |-> 0]
  /\ rcmd = [p \in Gen |-> "none"]
  /\ ccmd = "none"
  /\ native = [leaf |-> 0, done |-> {}]
  /\ leases = [w \in Worker |-> 0]
  /\ reg = [w \in Worker |-> 0]
  /\ task = [w \in Worker |-> [g \in Gen |-> "none"]]
  /\ co = [w \in Worker |-> [c \in Coroutine |-> Idle]]
  /\ invoked = [g \in Gen |-> 0]
  /\ resumed = [p \in Gen |-> 0]
  /\ author = 0
  /\ faults = 0

-----------------------------------------------------------------------------
(* The lease row *)

Fence(w, g) == run.owner = w /\ run.gen = g

\* A check of the lease (owner, generation, unexpired, not terminal) may pass.
Active(w, g) == Fence(w, g) /\ ~run.terminal /\ run.expiry \in {"live", "edge"}

\* The same check may fail.
Lapsed(w, g) == ~(Fence(w, g) /\ ~run.terminal /\ run.expiry = "live")

\* Every change of authority is a new generation: reclaim, accepted resume, cancel.
NextGeneration_Same == run.gen
NextGeneration_Twice == run.gen + 2
NextGeneration == run.gen + 1

\* owner and generation move together, the lease starts afresh.
Grant(w, g) ==
  run' = [gen |-> g, owner |-> w, expiry |-> "live", terminal |-> run.terminal]

\* A pause gives the lease back, in the transaction that writes the head.
Release_Forgotten == run
Release == [run EXCEPT !.expiry = "null"]

\* A terminal settles every resume intent there is.
SettledIntents_Forgotten == intent
SettledIntents ==
  [p \in Gen |-> IF intent[p] = "none" THEN "none" ELSE "terminal"]

\* The commit of finalize_terminal: the row, the head and every resume intent
\* become terminal in one transaction, under generation g of worker w.
CommitTerminal(w, g) ==
  /\ run' = [gen |-> g, owner |-> w, expiry |-> "null", terminal |-> TRUE]
  /\ head' = [head EXCEPT !.phase = "terminal"]
  /\ intent' = SettledIntents
  /\ author' = g

-----------------------------------------------------------------------------
(* Coroutines: continue, return to the calling pass, or die of an exception *)

Goto(w, c, pc, g) ==
  co' = [co EXCEPT ![w][c] =
           [pc |-> pc, gen |-> g, cmd |-> co[w][c].cmd, then |-> co[w][c].then]]
Return(w, c) == co' = [co EXCEPT ![w][c] = [Idle EXCEPT !.pc = co[w][c].then]]
Raise(w, c)  == co' = [co EXCEPT ![w][c] = Idle]

At(w, c, pc) == co[w][c].pc = pc
CoGen(w, c)  == co[w][c].gen
CoCmd(w, c)  == co[w][c].cmd

\* _apply_recorded_control closes the command once the handler has returned;
\* the ledger refuses the update when the run is terminal.
CloseCommand(w, c) ==
  rcmd' = IF /\ ~run.terminal
             /\ CoCmd(w, c) # 0
             /\ c = "ctl" \/ co[w][c].then = "sweep"
          THEN [rcmd EXCEPT ![CoCmd(w, c)] = "done"] ELSE rcmd

\* _spawn_agent: register the task; the done callback and the heartbeat know
\* only the registered one.
Spawn(w, g, pc) ==
  /\ task' = [task EXCEPT ![w][g] = pc]
  /\ reg' = [reg EXCEPT ![w] = g]

\* _pop removes the registration only when it still is this task's.
Unregister(w, g) ==
  reg' = [reg EXCEPT ![w] = IF @ = g THEN 0 ELSE @]

EndTask(w, g) ==
  /\ task' = [task EXCEPT ![w][g] = "none"]
  /\ Unregister(w, g)

ToTask(w, g, pc) ==
  /\ task' = [task EXCEPT ![w][g] = pc]
  /\ UNCHANGED reg

\* Cancel the registered task, if there is one.
CancelRegistered(w) ==
  /\ task' = [task EXCEPT ![w] =
                [g \in Gen |-> IF g = reg[w] THEN "none" ELSE @[g]]]
  /\ reg' = [reg EXCEPT ![w] = 0]

DropLease(w)       == leases' = [leases EXCEPT ![w] = 0]
ReleaseLease(w, g) == leases' = [leases EXCEPT ![w] = IF @ = g THEN 0 ELSE @]

-----------------------------------------------------------------------------
(* The outside: the ingress admits a launch, a resume for the pause a human *)
(* sees, and a cancel; time passes.                                         *)

Launch ==
  /\ dispatch = "none"
  /\ dispatch' = "pending"
  /\ UNCHANGED <<run, head, intent, attempt, rcmd, ccmd, native, localVars,
                 histVars, author, faults>>

SubmitResume ==
  /\ run.gen < MaxGen
  /\ head.phase = "waiting"
  /\ rcmd[head.pause] = "none"
  /\ rcmd' = [rcmd EXCEPT ![head.pause] = "admitted"]
  /\ UNCHANGED <<dispatch, run, head, intent, attempt, ccmd, native, localVars,
                 histVars, author, faults>>

SubmitCancel ==
  /\ Cancels
  /\ run.gen > 0
  /\ ~run.terminal
  /\ ccmd = "none"
  /\ ccmd' = "persisted"
  /\ UNCHANGED <<dispatch, run, head, intent, attempt, rcmd, native, localVars,
                 histVars, author, faults>>

\* Somebody runs under the lease: a registered task, a coroutine of its owner, or
\* the owner's next heartbeat, due well before the expiry, has a resume to start.
Attended ==
  \E w \in Worker :
    /\ run.owner = w
    /\ \/ reg[w] = run.gen
       \/ \E c \in Coroutine : CoGen(w, c) = run.gen
       \/ leases[w] = run.gen /\ head.cmd # 0 /\ intent[head.cmd] = "accepted"

Age ==
  /\ Timely => ~Attended
  /\ \/ /\ run.expiry = "live"
        /\ run' = [run EXCEPT !.expiry = IF Skew THEN "edge" ELSE "past"]
     \/ /\ run.expiry = "edge"
        /\ run' = [run EXCEPT !.expiry = "past"]
  /\ UNCHANGED <<dispatch, head, intent, attempt, rcmd, ccmd, native, localVars,
                 histVars, author, faults>>

\* The process dies and starts again with empty memory; what it wrote stays.
Crash(w) ==
  /\ faults < MaxFault
  /\ faults' = faults + 1
  /\ leases' = [leases EXCEPT ![w] = 0]
  /\ reg' = [reg EXCEPT ![w] = 0]
  /\ task' = [task EXCEPT ![w] = [g \in Gen |-> "none"]]
  /\ co' = [co EXCEPT ![w] = [c \in Coroutine |-> Idle]]
  /\ UNCHANGED <<dbVars, native, histVars>>

-----------------------------------------------------------------------------
(* Request loop: _consume_request *)

\* get_pending_dispatch: the frame is only a notification, replayable and
\* possibly late; without a pending row it is dropped.
ReceiveDispatch(w) ==
  /\ At(w, "serve", "idle")
  /\ dispatch = "pending"
  /\ Goto(w, "serve", "have", 0)
  /\ UNCHANGED <<dbVars, native, leases, reg, task, histVars, faults>>

\* claim_dispatch: pending -> claimed and the lease row in one transaction.
ClaimWin_LeavesPending(w) ==
  /\ At(w, "serve", "have")
  /\ dispatch = "pending"
  /\ Grant(w, 1)
  /\ leases' = [leases EXCEPT ![w] = 1]
  /\ Goto(w, "serve", "build", 1)
  /\ UNCHANGED <<dispatch, head, intent, attempt, rcmd, ccmd, native, reg, task,
                 histVars, author, faults>>

ClaimWin(w) ==
  /\ At(w, "serve", "have")
  /\ dispatch = "pending"
  /\ run.gen = 0
  /\ dispatch' = "claimed"
  /\ Grant(w, 1)
  /\ leases' = [leases EXCEPT ![w] = 1]
  /\ Goto(w, "serve", "build", 1)
  /\ UNCHANGED <<head, intent, attempt, rcmd, ccmd, native, reg, task,
                 histVars, author, faults>>

ClaimLose(w) ==
  /\ At(w, "serve", "have")
  /\ dispatch # "pending"
  /\ Return(w, "serve")
  /\ UNCHANGED <<dbVars, native, leases, reg, task, histVars, faults>>

-----------------------------------------------------------------------------
(* Starting a run: _start_run, from the request loop or after a reclaim *)

BuildOk(w, c) ==
  /\ \/ At(w, c, "build") /\ Goto(w, c, "sread", CoGen(w, c))
     \/ At(w, c, "rbuild") /\ Goto(w, c, "rread", CoGen(w, c))
  /\ UNCHANGED <<dbVars, native, leases, reg, task, histVars, faults>>

\* _fail_terminal(build_lease): run.failed, only under the lease of the build.
BuildFail(w, c) ==
  /\ At(w, c, "build") \/ At(w, c, "rbuild")
  /\ \/ /\ Active(w, CoGen(w, c))
        /\ CommitTerminal(w, CoGen(w, c))
        /\ DropLease(w)
        /\ UNCHANGED rcmd
     \/ /\ Lapsed(w, CoGen(w, c))
        /\ CloseCommand(w, c)
        /\ UNCHANGED <<run, head, intent, author, leases>>
  /\ Return(w, c)
  /\ UNCHANGED <<dispatch, attempt, ccmd, native, reg, task, histVars, faults>>

\* The native thread is read before the spawn.  No pending interrupt: spawn.
StartSpawn(w, c) ==
  /\ At(w, c, "sread")
  /\ native.leaf = 0
  /\ leases[w] = CoGen(w, c)
  /\ Spawn(w, CoGen(w, c), "queued")
  /\ Return(w, c)
  /\ UNCHANGED <<dbVars, native, leases, histVars, faults>>

\* _spawn_agent refuses a lease that is no longer the cached one.
StartStale(w, c) ==
  /\ At(w, c, "sread")
  /\ native.leaf = 0
  /\ leases[w] # CoGen(w, c)
  /\ Raise(w, c)
  /\ UNCHANGED <<dbVars, native, leases, reg, task, histVars, faults>>

\* A pending interrupt of another generation: native_pause_generation_unattributed
\* leaves _start_run as an exception.
StartUnattributed(w, c) ==
  /\ At(w, c, "sread")
  /\ native.leaf \notin {0, CoGen(w, c)}
  /\ Raise(w, c)
  /\ UNCHANGED <<dbVars, native, leases, reg, task, histVars, faults>>

-----------------------------------------------------------------------------
(* Agent tasks: _guarded_body and invoke_once *)

TaskGate(w, g) ==
  /\ \/ /\ task[w][g] \in {"queued", "rqueued"}
        /\ Active(w, g)
        /\ ToTask(w, g, IF task[w][g] = "queued" THEN "run" ELSE "resume")
        /\ invoked' = [invoked EXCEPT ![g] = IF @ = 2 THEN 2 ELSE @ + 1]
        /\ resumed' = IF task[w][g] = "queued" THEN resumed
                      ELSE [p \in Gen |-> IF attempt[p] = g /\ resumed[p] < 2
                                          THEN resumed[p] + 1 ELSE resumed[p]]
     \/ /\ task[w][g] \in {"queued", "rqueued"}
        /\ Lapsed(w, g)
        /\ EndTask(w, g)
        /\ UNCHANGED histVars
  /\ UNCHANGED <<dbVars, native, leases, co, faults>>

\* Native progress.  Checkpoint writes are not fenced by the lease: a task that
\* lost it goes on until somebody cancels it or a fenced write refuses it.
Consume(w, g) ==
  /\ task[w][g] = "resume"
  /\ native' = [native EXCEPT !.leaf = 0]
  /\ ToTask(w, g, "rrun")
  /\ UNCHANGED <<dbVars, leases, co, histVars, faults>>

Interrupt(w, g) ==
  /\ g <= MaxGen
  /\ task[w][g] \in {"run", "rrun"}
  /\ native' = [native EXCEPT !.leaf = g]
  /\ ToTask(w, g, IF task[w][g] = "run" THEN "settle" ELSE "rsettle")
  /\ UNCHANGED <<dbVars, leases, co, histVars, faults>>

Finish(w, g) ==
  /\ task[w][g] \in {"run", "rrun"}
  /\ native' = [leaf |-> 0, done |-> native.done \cup {g}]
  /\ ToTask(w, g, IF task[w][g] = "run" THEN "settle" ELSE "rsettle")
  /\ UNCHANGED <<dbVars, leases, co, histVars, faults>>

NativeError(w, g) ==
  /\ task[w][g] \in {"run", "resume", "rrun"}
  /\ ToTask(w, g, "fin")
  /\ UNCHANGED <<dbVars, native, leases, co, histVars, faults>>

\* A storage error, a lost progress authority or a deferred terminal leaves the
\* task as an exception, without a terminal.
TaskDies(w, g) ==
  /\ task[w][g] # "none"
  /\ faults < MaxFault
  /\ faults' = faults + 1
  /\ EndTask(w, g)
  /\ UNCHANGED <<dbVars, native, leases, co, histVars>>

\* on_native_settled of an initial invocation: what does the thread say?
Settle(w, g) ==
  /\ task[w][g] = "settle"
  /\ \/ native.leaf = g /\ ToTask(w, g, "pausing")
     \/ native.leaf = 0 /\ g \in native.done /\ ToTask(w, g, "fin")
     \/ /\ native.leaf # g
        /\ ~(native.leaf = 0 /\ g \in native.done)
        /\ EndTask(w, g)
  /\ UNCHANGED <<dbVars, native, leases, co, histVars, faults>>

\* record_pause: head and lease release in one transaction.
RecordPause(w, g) ==
  /\ task[w][g] = "pausing"
  /\ \/ /\ Active(w, g)
        /\ head.phase = "active"
        /\ head' = [phase |-> "waiting", pause |-> g, cmd |-> head.cmd]
        /\ run' = Release
        /\ author' = g
     \/ /\ Lapsed(w, g)
        /\ UNCHANGED <<head, run, author>>
  /\ EndTask(w, g)
  /\ UNCHANGED <<dispatch, intent, attempt, rcmd, ccmd, native, leases, co,
                 histVars, faults>>

\* finalize_terminal under Execution authority, then the local teardown; a lost
\* terminal releases only what this generation cached.
Finalize(w, g) ==
  /\ task[w][g] = "fin"
  /\ \/ /\ Active(w, g)
        /\ CommitTerminal(w, g)
        /\ DropLease(w)
     \/ /\ Lapsed(w, g)
        /\ ReleaseLease(w, g)
        /\ UNCHANGED <<run, head, intent, author>>
  /\ EndTask(w, g)
  /\ UNCHANGED <<dispatch, attempt, rcmd, ccmd, native, co, histVars, faults>>

-----------------------------------------------------------------------------
(* What the native thread proves about attempt g: its successor pause is    *)
(* committed, it ran to a stable end, or neither.                           *)

Evidence(g) ==
  IF native.leaf = g THEN "rec_wait"
  ELSE IF native.leaf = 0 /\ g \in native.done THEN "rec_act"
  ELSE "rec_unk"

\* record_checkpoint_observation: a current lease advances the intent, any
\* other writer leaves an audit row only.
Observe(w, g, p) ==
  \/ /\ Active(w, g)
     /\ intent[p] \in Unsettled
     /\ intent' = [intent EXCEPT ![p] = "native_observed"]
  \/ /\ Lapsed(w, g) \/ intent[p] \notin Unsettled
     /\ UNCHANGED intent

\* reconcile_resume with a positive observation: the next pause (and release of
\* the lease), or an active head.
CanReconcile(w, g, p) ==
  Active(w, g) /\ head.cmd = p /\ intent[p] = "native_observed"

Reconcile_KeepsPause(w, g, p, phase) ==
  /\ CanReconcile(w, g, p)
  /\ intent' = [intent EXCEPT ![p] = "reconciled"]
  /\ head' = [phase |-> phase, pause |-> head.pause, cmd |-> p]
  /\ run' = IF phase = "waiting" THEN Release ELSE run
  /\ author' = g

Reconcile(w, g, p, phase) ==
  /\ CanReconcile(w, g, p)
  /\ intent' = [intent EXCEPT ![p] = "reconciled"]
  /\ \/ /\ phase = "waiting"
        /\ head' = [phase |-> "waiting", pause |-> g, cmd |-> p]
        /\ run' = Release
     \/ /\ phase = "active"
        /\ head' = [phase |-> "active", pause |-> head.pause, cmd |-> p]
        /\ UNCHANGED run
  /\ author' = g

\* reconcile_resume without one.
ReconcileUnknown(w, g, p) ==
  /\ Active(w, g)
  /\ head.cmd = p
  /\ intent[p] \in {"dispatch_started", "unknown"}
  /\ intent' = [intent EXCEPT ![p] = "unknown"]

CannotReconcile(w, g, p) ==
  Lapsed(w, g) \/ head.cmd # p \/ intent[p] # "native_observed"

-----------------------------------------------------------------------------
(* on_native_settled of a resumed task *)

SettleResume(w, g, p) ==
  /\ task[w][g] = "rsettle"
  /\ attempt[p] = g
  /\ IF intent[p] \in Unsettled THEN ToTask(w, g, Evidence(g)) ELSE EndTask(w, g)
  /\ UNCHANGED <<dbVars, native, leases, co, histVars, faults>>

TaskObserve(w, g, p) ==
  /\ task[w][g] \in {"rec_wait", "rec_act"}
  /\ attempt[p] = g
  /\ Observe(w, g, p)
  /\ ToTask(w, g, IF task[w][g] = "rec_wait" THEN "rcm_wait" ELSE "rcm_act")
  /\ UNCHANGED <<dispatch, run, head, attempt, rcmd, ccmd, author, native,
                 leases, co, histVars, faults>>

\* After an active reconcile the same task goes on to its terminal; a replayed
\* settlement answers with the evidence too.
TaskReconcile(w, g, p) ==
  /\ task[w][g] \in {"rcm_wait", "rcm_act"}
  /\ attempt[p] = g
  /\ \/ /\ Reconcile(w, g, p, IF task[w][g] = "rcm_wait" THEN "waiting" ELSE "active")
        /\ IF task[w][g] = "rcm_wait" THEN EndTask(w, g) ELSE ToTask(w, g, "fin")
     \/ /\ CannotReconcile(w, g, p)
        /\ IF task[w][g] = "rcm_act" /\ intent[p] \notin Unsettled
           THEN ToTask(w, g, "fin") ELSE EndTask(w, g)
        /\ UNCHANGED <<run, head, intent, author>>
  /\ UNCHANGED <<dispatch, attempt, rcmd, ccmd, native, leases, co, histVars,
                 faults>>

TaskUnknown(w, g, p) ==
  /\ task[w][g] = "rec_unk"
  /\ attempt[p] = g
  /\ \/ ReconcileUnknown(w, g, p)
     \/ /\ Lapsed(w, g) \/ intent[p] \notin {"dispatch_started", "unknown"}
        /\ UNCHANGED intent
  /\ EndTask(w, g)
  /\ UNCHANGED <<dispatch, run, head, attempt, rcmd, ccmd, author, native,
                 leases, co, histVars, faults>>

-----------------------------------------------------------------------------
(* Resuming: _resume_owned, from the control listener, the reapply scan or  *)
(* the interaction scan of the heartbeat                                    *)

\* A control frame: persisted in the ledger, acknowledged, then applied.
CtlResume(w, p) ==
  /\ At(w, "ctl", "idle")
  /\ rcmd[p] = "admitted"
  /\ ~run.terminal
  /\ rcmd' = [rcmd EXCEPT ![p] = "persisted"]
  /\ co' = [co EXCEPT ![w]["ctl"] = [pc |-> "begin", gen |-> 0, cmd |-> p, then |-> "idle"]]
  /\ UNCHANGED <<dispatch, run, head, intent, attempt, ccmd, author, native,
                 leases, reg, task, histVars, faults>>

\* accept_resume: only from a waiting head without a lease.
Accept(w, c) ==
  LET p == CoCmd(w, c) IN
  /\ At(w, c, "begin")
  /\ ~run.terminal
  /\ intent[p] = "none"
  /\ head.phase = "waiting" /\ head.pause = p /\ run.expiry = "null"
  /\ run.gen < MaxGen
  /\ intent' = [intent EXCEPT ![p] = "accepted"]
  /\ head' = [phase |-> "resuming", pause |-> head.pause, cmd |-> p]
  /\ Grant(w, NextGeneration)
  /\ author' = NextGeneration
  /\ Goto(w, c, "adopt", NextGeneration)
  /\ UNCHANGED <<dispatch, attempt, rcmd, ccmd, native, leases, reg, task,
                 histVars, faults>>

Continuable_Started(p) == intent[p] \in Unsettled \ {"accepted"}
Continuable(p) == intent[p] \in Unsettled

\* The acceptance was committed before: only the owner of a current lease goes
\* on, and only without a live task when the check has answered.
Rejoin(w, c) ==
  /\ At(w, c, "begin")
  /\ Continuable(CoCmd(w, c))
  /\ Active(w, run.gen)
  /\ Goto(w, c, "join", run.gen)
  /\ UNCHANGED <<dbVars, native, leases, reg, task, histVars, faults>>

Join(w, c) ==
  /\ At(w, c, "join")
  /\ reg[w] = 0
  /\ leases' = [leases EXCEPT ![w] = CoGen(w, c)]
  /\ Goto(w, c, "rbuild", CoGen(w, c))
  /\ UNCHANGED <<dbVars, native, reg, task, histVars, faults>>

NoResume(w, c) ==
  LET p == CoCmd(w, c) IN
  /\ \/ /\ At(w, c, "begin")
        /\ \/ run.terminal
           \/ intent[p] = "reconciled"
           \/ intent[p] \in Unsettled /\ Lapsed(w, run.gen)
     \/ At(w, c, "join") /\ reg[w] # 0
  /\ CloseCommand(w, c)
  /\ Return(w, c)
  /\ UNCHANGED <<dispatch, run, head, intent, attempt, ccmd, author, native,
                 leases, reg, task, histVars, faults>>

\* The awaiting handler resumes after the commit and caches the new lease.
Adopt(w, c) ==
  /\ At(w, c, "adopt")
  /\ leases' = [leases EXCEPT ![w] = CoGen(w, c)]
  /\ Goto(w, c, "rbuild", CoGen(w, c))
  /\ UNCHANGED <<dbVars, native, reg, task, histVars, faults>>

\* read_interaction: an accepted intent is prepared against the unchanged native
\* pause, a settled one is done, any other is observed by its own generation.
ResumeRead(w, c) ==
  LET p == CoCmd(w, c)
      g == CoGen(w, c) IN
  /\ At(w, c, "rread")
  /\ \/ /\ intent[p] = "accepted"
        /\ native.leaf = p
        /\ Goto(w, c, "rstart", g)
        /\ UNCHANGED rcmd
     \/ /\ intent[p] = "accepted"
        /\ native.leaf # p
        /\ Raise(w, c)
        /\ UNCHANGED rcmd
     \/ /\ intent[p] \in {"reconciled", "terminal"}
        /\ Return(w, c)
        /\ CloseCommand(w, c)
     \/ /\ intent[p] \in Unsettled \ {"accepted"}
        /\ IF attempt[p] = g THEN Goto(w, c, Evidence(g), g) ELSE Raise(w, c)
        /\ UNCHANGED rcmd
  /\ UNCHANGED <<dispatch, run, head, intent, attempt, ccmd, author, native,
                 leases, reg, task, histVars, faults>>

\* Only an accepted intent may be started: a second start of it is a conflict.
Startable_Again(p) == head.cmd = p /\ intent[p] \in Unsettled
Startable(p) == head.cmd = p /\ intent[p] = "accepted"

\* start_resume: the durable fact that precedes the native call.
StartResume(w, c) ==
  LET p == CoCmd(w, c)
      g == CoGen(w, c) IN
  /\ At(w, c, "rstart")
  /\ \/ /\ Active(w, g)
        /\ Startable(p)
        /\ intent' = [intent EXCEPT ![p] = "dispatch_started"]
        /\ attempt' = [attempt EXCEPT ![p] = g]
        /\ Goto(w, c, "rspawn", g)
     \/ /\ Lapsed(w, g) \/ ~Startable(p)
        /\ Raise(w, c)
        /\ UNCHANGED <<intent, attempt>>
  /\ UNCHANGED <<dispatch, run, head, rcmd, ccmd, author, native, leases, reg,
                 task, histVars, faults>>

ResumeSpawn(w, c) ==
  LET g == CoGen(w, c) IN
  /\ At(w, c, "rspawn")
  /\ \/ /\ leases[w] = g
        /\ Spawn(w, g, "rqueued")
        /\ Return(w, c)
        /\ CloseCommand(w, c)
     \/ /\ leases[w] # g
        /\ Raise(w, c)
        /\ UNCHANGED <<reg, task, rcmd>>
  /\ UNCHANGED <<dispatch, run, head, intent, attempt, ccmd, author, native,
                 leases, histVars, faults>>

CoObserve(w, c) ==
  /\ \/ At(w, c, "rec_wait") /\ Goto(w, c, "rcm_wait", CoGen(w, c))
     \/ At(w, c, "rec_act")  /\ Goto(w, c, "rcm_act", CoGen(w, c))
  /\ Observe(w, CoGen(w, c), CoCmd(w, c))
  /\ UNCHANGED <<dispatch, run, head, attempt, rcmd, ccmd, author, native,
                 leases, reg, task, histVars, faults>>

CoReconcile(w, c) ==
  LET p == CoCmd(w, c)
      g == CoGen(w, c) IN
  /\ At(w, c, "rcm_wait") \/ At(w, c, "rcm_act")
  /\ \/ /\ Reconcile(w, g, p, IF At(w, c, "rcm_wait") THEN "waiting" ELSE "active")
        /\ Return(w, c)
        /\ CloseCommand(w, c)
     \/ /\ CannotReconcile(w, g, p)
        /\ IF intent[p] \in Unsettled
           THEN Raise(w, c) /\ UNCHANGED rcmd
           ELSE Return(w, c) /\ CloseCommand(w, c)
        /\ UNCHANGED <<run, head, intent, author>>
  /\ UNCHANGED <<dispatch, attempt, ccmd, native, leases, reg, task, histVars,
                 faults>>

CoUnknown(w, c) ==
  LET p == CoCmd(w, c)
      g == CoGen(w, c) IN
  /\ At(w, c, "rec_unk")
  /\ \/ /\ ReconcileUnknown(w, g, p)
        /\ Return(w, c)
        /\ CloseCommand(w, c)
     \/ /\ Lapsed(w, g) \/ intent[p] \notin {"dispatch_started", "unknown"}
        /\ IF intent[p] \in Unsettled
           THEN Raise(w, c) /\ UNCHANGED rcmd
           ELSE Return(w, c) /\ CloseCommand(w, c)
        /\ UNCHANGED intent
  /\ UNCHANGED <<dispatch, run, head, attempt, ccmd, author, native, leases, reg,
                 task, histVars, faults>>

-----------------------------------------------------------------------------
(* heartbeat_once: renew, yield what was lost, reclaim and restart, then    *)
(* sweep: reapply persisted control, reconcile interactions.  A stage that  *)
(* has nothing to do is passed without a step.                              *)

Reclaimable == ~run.terminal /\ run.expiry \in {"edge", "past"} /\ run.gen < MaxGen
MustReclaim == Reclaimable /\ run.expiry = "past"

InScan(w)  == At(w, "beat", "scan") \/ (At(w, "beat", "idle") /\ reg[w] = 0)
InSweep(w) == At(w, "beat", "sweep") \/ (InScan(w) /\ ~MustReclaim)

BeatRenew(w) ==
  LET g == reg[w] IN
  /\ At(w, "beat", "idle")
  /\ g # 0
  /\ \/ /\ Active(w, g)
        /\ run' = [run EXCEPT !.expiry = "live"]
        /\ Goto(w, "beat", "scan", 0)
     \/ /\ Lapsed(w, g)
        /\ Goto(w, "beat", "yield", g)
        /\ UNCHANGED run
  /\ UNCHANGED <<dispatch, head, intent, attempt, rcmd, ccmd, author, native,
                 leases, reg, task, histVars, faults>>

StillRegistered_Any(w, g) == reg[w] # 0
StillRegistered(w, g) == reg[w] = g

\* Only the task observed before the renewal is cancelled, never a later one.
BeatYield(w) ==
  LET g == CoGen(w, "beat") IN
  /\ At(w, "beat", "yield")
  /\ IF StillRegistered(w, g)
     THEN CancelRegistered(w) /\ ReleaseLease(w, g)
     ELSE UNCHANGED <<task, reg, leases>>
  /\ Goto(w, "beat", "scan", 0)
  /\ UNCHANGED <<dbVars, native, histVars, faults>>

BeatReclaim(w) ==
  /\ InScan(w)
  /\ Reclaimable
  /\ Grant(w, NextGeneration)
  /\ Goto(w, "beat", "taken", NextGeneration)
  /\ UNCHANGED <<dispatch, head, intent, attempt, rcmd, ccmd, author, native,
                 leases, reg, task, histVars, faults>>

MayRestart_Never == head.phase = "waiting"
MayRestart == head.cmd = 0

\* The own task of an older generation is cancelled first.  A run with a resume
\* intent is never invoked again; any other run is started again.
BeatTakeOver(w) ==
  LET g == CoGen(w, "beat") IN
  /\ At(w, "beat", "taken")
  /\ CancelRegistered(w)
  /\ leases' = [leases EXCEPT ![w] = g]
  /\ co' = [co EXCEPT ![w]["beat"] =
              IF MayRestart
              THEN [pc |-> "build", gen |-> g, cmd |-> 0, then |-> "sweep"]
              ELSE [Idle EXCEPT !.pc = "sweep"]]
  /\ UNCHANGED <<dbVars, native, histVars, faults>>

\* list_pending_control_delivery: persisted commands of a run not yet terminal.
Pending(p) == rcmd[p] = "persisted" /\ ~run.terminal

BeatReapply(w, p) ==
  /\ InSweep(w)
  /\ Pending(p)
  /\ co' = [co EXCEPT ![w]["beat"] =
              [pc |-> "begin", gen |-> 0, cmd |-> p, then |-> "sweep"]]
  /\ UNCHANGED <<dbVars, native, leases, reg, task, histVars, faults>>

\* _reconcile_interactions: unsettled intents of runs this worker currently
\* owns, without a live task, attempted by no other generation.
Reconcilable(w, p) ==
  /\ intent[p] \in Unsettled
  /\ reg[w] = 0
  /\ attempt[p] \in {0, run.gen}

BeatReconcile(w, p) ==
  /\ InSweep(w)
  /\ ~Pending(p)
  /\ Reconcilable(w, p)
  /\ Active(w, run.gen)
  /\ co' = [co EXCEPT ![w]["beat"] = [pc |-> "begin", gen |-> 0, cmd |-> p, then |-> "idle"]]
  /\ UNCHANGED <<dbVars, native, leases, reg, task, histVars, faults>>

BeatRest(w) ==
  /\ At(w, "beat", "scan") \/ At(w, "beat", "sweep")
  /\ InSweep(w)
  /\ \A p \in Gen :
       /\ ~Pending(p)
       /\ Reconcilable(w, p) => Lapsed(w, run.gen)
  /\ run.terminal \/ ccmd # "persisted"
  /\ Raise(w, "beat")
  /\ UNCHANGED <<dbVars, native, leases, reg, task, histVars, faults>>

-----------------------------------------------------------------------------
(* Cancelling: _on_cancel takes the run over by its terminal commit *)

Cancellable_Always == ccmd = "persisted"
Cancellable == ccmd = "persisted" /\ ~run.terminal

CancelCommit(w, c) ==
  /\ \/ c = "ctl" /\ At(w, c, "idle")
     \/ c = "beat" /\ InSweep(w)
  /\ Cancellable
  /\ CommitTerminal(w, NextGeneration)
  /\ ccmd' = "done"
  /\ leases' = [leases EXCEPT ![w] = NextGeneration]
  /\ co' = [co EXCEPT ![w][c] = [pc |-> "cancelled", gen |-> NextGeneration, cmd |-> 0,
                                 then |-> IF c = "beat" THEN "sweep" ELSE "idle"]]
  /\ UNCHANGED <<dispatch, attempt, rcmd, native, reg, task, histVars, faults>>

CancelLocal(w, c) ==
  /\ At(w, c, "cancelled")
  /\ CancelRegistered(w)
  /\ DropLease(w)
  /\ Return(w, c)
  /\ UNCHANGED <<dbVars, native, histVars, faults>>

-----------------------------------------------------------------------------

Serve(w) == ReceiveDispatch(w) \/ ClaimWin(w) \/ ClaimLose(w)

Start(w, c) ==
  \/ BuildOk(w, c) \/ BuildFail(w, c)
  \/ StartSpawn(w, c) \/ StartStale(w, c) \/ StartUnattributed(w, c)

Resume(w, c) ==
  \/ Accept(w, c) \/ Adopt(w, c) \/ Rejoin(w, c) \/ Join(w, c) \/ NoResume(w, c)
  \/ ResumeRead(w, c) \/ StartResume(w, c) \/ ResumeSpawn(w, c)
  \/ CoObserve(w, c) \/ CoReconcile(w, c) \/ CoUnknown(w, c)

Native(w, g) ==
  Consume(w, g) \/ Interrupt(w, g) \/ Finish(w, g) \/ NativeError(w, g)

Settling(w, g) ==
  \/ TaskGate(w, g) \/ Settle(w, g) \/ RecordPause(w, g) \/ Finalize(w, g)
  \/ \E p \in Gen : \/ SettleResume(w, g, p) \/ TaskObserve(w, g, p)
                    \/ TaskReconcile(w, g, p) \/ TaskUnknown(w, g, p)

Beat(w) ==
  \/ BeatRenew(w) \/ BeatYield(w) \/ BeatReclaim(w) \/ BeatTakeOver(w)
  \/ BeatRest(w) \/ \E p \in Gen : BeatReapply(w, p) \/ BeatReconcile(w, p)

\* Nothing more happens to a terminal run; MaxGen stops the others.
Rest ==
  /\ run.terminal \/ run.gen = MaxGen
  /\ UNCHANGED vars

Next ==
  \/ Launch \/ SubmitResume \/ SubmitCancel \/ Age \/ Rest
  \/ \E w \in Worker :
       \/ Crash(w) \/ Serve(w) \/ Beat(w)
       \/ \E c \in Coroutine : \/ Start(w, c) \/ Resume(w, c)
                               \/ CancelCommit(w, c) \/ CancelLocal(w, c)
       \/ \E p \in Gen : CtlResume(w, p)
       \/ \E g \in Gen : Native(w, g) \/ Settling(w, g) \/ TaskDies(w, g)

Spec == Init /\ [][Next]_vars

\* Every coroutine and task of a worker that is up makes progress, an agent
\* invocation ends, and a lease nobody works under again and again expires.
Fairness ==
  /\ SF_vars(Age)
  /\ \A w \in Worker :
       /\ WF_vars(Serve(w))
       /\ WF_vars(Beat(w))
       /\ \A c \in Coroutine : WF_vars(Start(w, c) \/ Resume(w, c) \/ CancelLocal(w, c))
       /\ \A g \in Gen : WF_vars(Native(w, g) \/ Settling(w, g))

FairSpec == Spec /\ Fairness

-----------------------------------------------------------------------------
(* Safety *)

Native_PC == {"run", "resume", "rrun"}

\* Every generation a worker still acts under, in whatever place it keeps it.
CoGens(w)   == {CoGen(w, c) : c \in Coroutine}
TaskGens(w) == {g \in Gen : task[w][g] # "none"}
Held(w)     == ({leases[w], reg[w]} \cup CoGens(w) \cup TaskGens(w)) \ {0}

\* A generation lives in one process only: two workers never act under the same
\* fence, whatever was reclaimed, resumed, cancelled or restarted in between, and
\* whoever acts under the generation of the row is the owner the row names.
OneHolderPerGeneration ==
  /\ \A w \in Worker : \A g \in Held(w) :
       g <= run.gen /\ (g = run.gen => run.owner = w)
  /\ \A v, w \in Worker : v # w => Held(v) \cap Held(w) = {}

\* A generation enters the agent graph at most once, although the request loop,
\* the control listener and two scans of the heartbeat may all start a task.
OneInvocationPerGeneration == \A g \in Gen : invoked[g] <= 1

\* The human decision of a pause is handed to the graph at most once, through
\* crashes, replays of the command and changes of owner.
OneResumePerPause == \A p \in Gen : resumed[p] <= 1

\* The dispatch intent and the lease row move together: no crash leaves a claimed
\* dispatch that nobody can reclaim, nor a leased run that is claimed again.
ClaimedIffLeased == (dispatch = "claimed") <=> (run.gen > 0)

\* A row without a lease is either terminal or waits for a human, so a run that
\* still needs an executor can always be reclaimed and a waiting one never is.
UnleasedIffParked ==
  run.gen > 0 => (run.expiry = "null" <=> head.phase \in {"waiting", "terminal"})

\* The consistency InteractionState demands of head and intents when it is
\* rebuilt from the row: a violation would make the run unreadable.
HeadMatchesIntents ==
  /\ run.terminal <=> head.phase = "terminal"
  /\ head.phase = "resuming" =>
       head.cmd = head.pause /\ intent[head.cmd] \in Unsettled
  /\ head.phase \in {"active", "waiting"} =>
       \A p \in Gen : intent[p] \in {"none", "reconciled"}
  /\ head.phase = "waiting" => head.pause # 0 /\ intent[head.pause] = "none"
  /\ head.phase = "terminal" => \A p \in Gen : intent[p] \in {"none", "terminal"}
  /\ \A p \in Gen : intent[p] \in Unsettled => p = head.cmd

\* A start never finds a pause of its own generation: the branch of _start_run
\* that records a recovered pause is not modelled because nothing reaches it.
RecoveryBranchIsDead ==
  \A w \in Worker, c \in Coroutine :
    At(w, c, "sread") => native.leaf # CoGen(w, c)

\* A terminal run keeps its owner, generation, head and intents for ever, however
\* late a pause, a resume, a reclaim or a second terminal arrives.
TerminalIsFinal ==
  [][run.terminal => UNCHANGED <<dispatch, run, head, intent, attempt>>]_vars

\* The heartbeat that lost a lease cancels the task it looked at, never a task
\* that meanwhile runs under a valid lease of the same worker.
YieldSparesCurrent ==
  [][\A w \in Worker, g \in Gen :
       (At(w, "beat", "yield") /\ co'[w]["beat"].pc = "scan" /\ task[w][g] # "none"
         /\ Fence(w, g) /\ run.expiry = "live")
       => task'[w][g] # "none"]_vars

\* The lease row implements the abstract fence.
Mode ==
  IF run.gen = 0 THEN "absent"
  ELSE IF run.terminal THEN "closed"
  ELSE IF run.expiry = "null" THEN "parked" ELSE "held"

Fencing == INSTANCE RunFence WITH
  Holder <- Worker, Nobody <- NoWorker,
  epoch <- run.gen, holder <- run.owner, mode <- Mode, author <- author

ImplementsRunFence == Fencing!FenceSpec

-----------------------------------------------------------------------------
(* Liveness *)

\* The executor is gone and no later owner can go on: the thread holds a pause of
\* an older generation, the resume was dispatched under one, or a reconciled
\* resume left an active head without the task that was to finish it.
Stranded ==
  /\ ~run.terminal
  /\ \/ head.phase = "active" /\ native.leaf \in 1..(run.gen - 1)
     \/ head.phase = "resuming" /\ attempt[head.cmd] \in 1..(run.gen - 1)
     \/ /\ head.phase = "active" /\ head.cmd # 0
        /\ task[run.owner][run.gen] = "none"

\* Generations left for the owners that may still fail.
Spare == run.gen + MaxFault <= MaxGen

\* A launched run is claimed by some worker and comes to a terminal or to a
\* question for the human, whichever worker dies meanwhile, unless it is stranded.
LaunchSettles ==
  dispatch = "pending" ~> run.terminal \/ head.phase = "waiting" \/ Stranded

\* A persisted answer is consumed, reapplied after a crash if need be, unless
\* the run is stranded.
ResumeSettles ==
  \A p \in Gen :
    rcmd[p] = "persisted" /\ intent[p] # "none" /\ Spare
      ~> run.terminal \/ intent[p] = "reconciled" \/ Stranded

-----------------------------------------------------------------------------
(* What comments and documents say and the code does not do *)

\* supervisor_recovery.py: the window in which an old and a new owner both run is
\* one heartbeat.  The heartbeat fences registered tasks only, so every task that
\* runs natively without the current lease must still be the registered one.
StaleTaskIsRegistered ==
  \A w \in Worker, g \in Gen :
    task[w][g] \in Native_PC /\ g < run.gen => reg[w] = g

\* supervisor_execution.py: a native pause committed before the Run/Chat pause
\* transaction is recovered when the run is started again.
CommittedPauseIsRecovered ==
  \A w \in Worker, c \in Coroutine :
    At(w, c, "sread") /\ native.leaf # 0 => native.leaf = CoGen(w, c)

\* supervisor_execution.py asserts ("unexpected settled resume evidence") that the
\* resumed task which still holds the run is the first to settle its own resume.
SettledResumeIsObserved ==
  \A w \in Worker, g, p \in Gen :
    task[w][g] = "rsettle" /\ attempt[p] = g /\ Active(w, g) => intent[p] \in Unsettled
=============================================================================
