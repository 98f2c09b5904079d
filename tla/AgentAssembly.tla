---------------------------- MODULE AgentAssembly ----------------------------
(* Who owns an agent's resources inside one worker: worker/supervisor.py      *)
(* builds a handle in a manager task (_build_owned), hands it to the          *)
(* coroutine that asked or, if that one was cancelled meanwhile, closes it;   *)
(* the coroutine closes it or spawns the run task that will; drain waits at   *)
(* shutdown for run, assembly and cleanup tasks under one deadline.           *)
(*                                                                            *)
(* The jobs are coroutines of one run (a start, a resume, a probe), which may *)
(* overlap: RunLifecycle models when.  A step here lies between two awaits.   *)
EXTENDS Naturals

CONSTANTS Jobs, NoJob
ASSUME AssemblyAssumption == NoJob \notin Jobs

VARIABLES job, current, drain, errors, expired
asmVars == <<job, current, drain, errors, expired>>

\* current: the job whose run task _tasks holds.  errors: _assembly_errors or
\* _resource_cleanup_errors is not empty.  expired: the deadline has passed.
AsmTypeOK ==
    /\ \A j \in Jobs :
         /\ job[j].pc \in {"idle", "waiting", "holding", "done"}
         /\ job[j].mgr \in {"none", "building", "handle", "error", "finished", "settled"}
         /\ job[j].claimed \in {"open", "yes", "no"}
         /\ job[j].listed \in BOOLEAN /\ job[j].mapped \in BOOLEAN
         /\ job[j].run \in {"none", "created", "running", "closing", "ended", "popped"}
         /\ job[j].cleanup \in {"none", "running", "ended", "settled"}
         /\ job[j].handle \in {"none", "open", "closed", "broken"}
         /\ job[j].closes \in 0..2
    /\ current \in Jobs \cup {NoJob}
    /\ drain \in {"off", "look", "again", "true", "false"}
    /\ errors \in BOOLEAN /\ expired \in BOOLEAN

AsmInit ==
    /\ job = [j \in Jobs |-> [pc |-> "idle", mgr |-> "none", claimed |-> "open", listed |-> FALSE,
                mapped |-> FALSE, run |-> "none", cleanup |-> "none", handle |-> "none", closes |-> 0]]
    /\ current = NoJob /\ drain = "off" /\ errors = FALSE /\ expired = FALSE

SetJob(j, r) == job' = [job EXCEPT ![j] = r]
\* _track_resource_cleanup: a task that calls handle.aclose().
Tracked(r) == [r EXCEPT !.cleanup = "running", !.closes = @ + 1]
\* _release_assembly_handle: the manager task is forgotten with the mapping.
Released(r) == IF r.mapped THEN [r EXCEPT !.mapped = FALSE, !.listed = FALSE] ELSE r
\* _close_handle
Closing(r) == Tracked(Released(r))

-----------------------------------------------------------------------------
(* _build_owned *)
Build(j) ==
    /\ job[j].pc = "idle" /\ drain \notin {"true", "false"}
    /\ SetJob(j, [job[j] EXCEPT !.pc = "waiting", !.mgr = "building", !.listed = TRUE])
    /\ UNCHANGED <<current, drain, errors, expired>>
Built(j) ==
    /\ job[j].mgr = "building"
    /\ \/ SetJob(j, [job[j] EXCEPT !.mgr = "handle", !.handle = "open"])
       \/ SetJob(j, [job[j] EXCEPT !.mgr = "error"])
    /\ UNCHANGED <<current, drain, errors, expired>>
\* The asking coroutine wakes: it maps the handle before it decides.
Receive(j) ==
    /\ job[j].pc = "waiting"
    /\ \/ /\ job[j].mgr = "handle"
          /\ SetJob(j, [job[j] EXCEPT !.pc = "holding", !.mapped = TRUE, !.claimed = "yes"])
       \/ /\ job[j].mgr = "error"
          /\ SetJob(j, [job[j] EXCEPT !.pc = "done", !.claimed = "yes"])
    /\ UNCHANGED <<current, drain, errors, expired>>
\* It is cancelled while it waits, the result being ready or not.
AbandonBuild_Claims(j) ==
    /\ job[j].pc = "waiting"
    /\ SetJob(j, [job[j] EXCEPT !.pc = "done", !.claimed = "yes"])
    /\ UNCHANGED <<current, drain, errors, expired>>
AbandonBuild(j) ==
    /\ job[j].pc = "waiting"
    /\ SetJob(j, [job[j] EXCEPT !.pc = "done", !.claimed = "no"])
    /\ UNCHANGED <<current, drain, errors, expired>>
\* The manager reads the decision: an unclaimed handle is closed, an unclaimed
\* error recorded.
Manager(j) ==
    /\ job[j].mgr \in {"handle", "error"} /\ job[j].claimed # "open"
    /\ LET dropped == job[j].claimed = "no" /\ job[j].mgr = "handle"
           ended == [job[j] EXCEPT !.mgr = "finished"]
       IN SetJob(j, IF dropped THEN Tracked(ended) ELSE ended)
    /\ errors' = (errors \/ (job[j].claimed = "no" /\ job[j].mgr = "error"))
    /\ UNCHANGED <<current, drain, expired>>
\* settle_manager, a callback: a manager whose handle is mapped stays listed.
Keeps_Nothing(j) == FALSE
Keeps(j) == job[j].mapped
SettleManager(j) ==
    /\ job[j].mgr = "finished"
    /\ SetJob(j, [job[j] EXCEPT !.mgr = "settled", !.listed = @ /\ Keeps(j)])
    /\ UNCHANGED <<current, drain, errors, expired>>

-----------------------------------------------------------------------------
(* The holder closes the handle, or spawns the run task that owns it *)
CloseHandle(j) ==
    /\ job[j].pc = "holding"
    /\ SetJob(j, [Closing(job[j]) EXCEPT !.pc = "done"])
    /\ UNCHANGED <<current, drain, errors, expired>>
\* _spawn_agent overwrites whatever task the run had.  "transferred" keeps the
\* holder's finally clause from closing the handle too.
Transferred_Forgotten(r) == r
Transferred(r) == [r EXCEPT !.pc = "done"]
Spawn(j) ==
    /\ job[j].pc = "holding" /\ job[j].run = "none"
    /\ SetJob(j, Transferred(Released([job[j] EXCEPT !.run = "created"])))
    /\ current' = j
    /\ UNCHANGED <<drain, errors, expired>>
EnterRun(j) ==
    /\ job[j].run = "created" /\ SetJob(j, [job[j] EXCEPT !.run = "running"])
    /\ UNCHANGED <<current, drain, errors, expired>>
\* The finally clause of _guarded, after an end of any kind.
RunEnds(j) ==
    /\ job[j].run = "running" /\ SetJob(j, [Closing(job[j]) EXCEPT !.run = "closing"])
    /\ UNCHANGED <<current, drain, errors, expired>>
RunClosed(j) ==
    /\ job[j].run = "closing" /\ job[j].cleanup # "running"
    /\ SetJob(j, [job[j] EXCEPT !.run = "ended"])
    /\ UNCHANGED <<current, drain, errors, expired>>
\* Fencing and cancel commands cancel the registered task.  One that has not
\* taken its first step never enters _guarded, so its finally clause never
\* runs; one that waits for its cleanup leaves it to the shielded task.
CancelRun(j) ==
    /\ current = j /\ job[j].run \in {"created", "closing"}
    /\ SetJob(j, [job[j] EXCEPT !.run = "ended"])
    /\ UNCHANGED <<current, drain, errors, expired>>
\* _pop, a callback.
Pop(j) ==
    /\ job[j].run = "ended" /\ SetJob(j, [job[j] EXCEPT !.run = "popped"])
    /\ current' = IF current = j THEN NoJob ELSE current
    /\ UNCHANGED <<drain, errors, expired>>
Cleaned(j) ==
    /\ job[j].cleanup = "running"
    /\ \E h \in {"closed", "broken"} : SetJob(j, [job[j] EXCEPT !.cleanup = "ended", !.handle = h])
    /\ UNCHANGED <<current, drain, errors, expired>>
CleanupSettled(j) ==
    /\ job[j].cleanup = "ended" /\ SetJob(j, [job[j] EXCEPT !.cleanup = "settled"])
    /\ errors' = (errors \/ job[j].handle = "broken")
    /\ UNCHANGED <<current, drain, expired>>

-----------------------------------------------------------------------------
(* drain *)
Assemblies == {j \in Jobs : job[j].listed}
Cleanups == {j \in Jobs : job[j].cleanup \in {"running", "ended"}}
Runs == {current} \ {NoJob}
Nothing == Assemblies = {} /\ Cleanups = {} /\ Runs = {}
Pending ==
    \/ \E j \in Assemblies : job[j].mgr \notin {"finished", "settled"}
    \/ \E j \in Cleanups : job[j].cleanup = "running"
    \/ \E j \in Runs : job[j].run # "ended"
Verdict == IF errors THEN "false" ELSE "true"
Sigterm ==
    /\ drain = "off" /\ drain' = "look" /\ UNCHANGED <<job, current, errors, expired>>
DrainDeadline ==
    /\ drain # "off" /\ ~expired /\ expired' = TRUE /\ UNCHANGED <<job, current, drain, errors>>
\* A first look that finds nothing yields once, for late callbacks.
Look ==
    /\ drain = "look" /\ Nothing /\ drain' = "again"
    /\ UNCHANGED <<job, current, errors, expired>>
Again ==
    /\ drain = "again" /\ drain' = IF Nothing THEN Verdict ELSE "look"
    /\ UNCHANGED <<job, current, errors, expired>>
GiveUpDrain ==
    /\ drain = "look" /\ expired
    /\ Pending \/ Assemblies \cup Cleanups # {}
    /\ drain' = "false" /\ UNCHANGED <<job, current, errors, expired>>

JobNext(j) ==
    \/ Build(j) \/ Built(j) \/ Receive(j) \/ AbandonBuild(j) \/ Manager(j) \/ SettleManager(j)
    \/ CloseHandle(j) \/ Spawn(j) \/ EnterRun(j) \/ RunEnds(j) \/ RunClosed(j) \/ CancelRun(j)
    \/ Pop(j) \/ Cleaned(j) \/ CleanupSettled(j)
AsmNext == (\E j \in Jobs : JobNext(j)) \/ Sigterm \/ DrainDeadline \/ Look \/ Again \/ GiveUpDrain
AsmSpec == AsmInit /\ [][AsmNext]_asmVars

-----------------------------------------------------------------------------
\* The run task of j was cancelled before its first step.
NeverEntered(j) == job[j].run \in {"ended", "popped"} /\ job[j].closes = 0
\* Another job's run task took its place in _tasks while it was alive.
Overwritten(j) == job[j].run \in {"created", "running", "closing"} /\ current # j

\* worker/main.py logs "drained=true" and exits with success when drain returns
\* true.  At that moment every handle this worker ever built has been closed
\* without an error, whichever callback, cancellation or late build came last;
\* the two kinds of run task the registry does not know are named.
DrainMeansClosed ==
    [][(drain' = "true" /\ drain # "true") =>
         \A j \in Jobs : job[j].handle \in {"none", "closed"} \/ NeverEntered(j) \/ Overwritten(j)]_asmVars

\* docs/DATA_MODEL.md:351 forbids a second owner and a double close: no handle
\* is closed twice, however holder, manager, run task and cancellation overlap.
ClosedOnce == \A j \in Jobs : job[j].closes <= 1

\* The same line says that after a successful spawn the run task alone closes
\* the handle: a run task that has ended has closed it.
RunTaskCloses == \A j \in Jobs : job[j].run \in {"ended", "popped"} => job[j].closes > 0
=============================================================================
