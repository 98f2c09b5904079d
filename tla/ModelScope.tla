----------------------------- MODULE ModelScope -----------------------------
(***************************************************************************)
(* The model tasks of one native invocation: run_agent drives the graph in   *)
(* a task of its own, each model node runs in a task that registers with the  *)
(* ModelCallScope, and each physical request of the SDK claims the one final  *)
(* request of its model call and prepares the durable attempt                 *)
(* (run_agent.py, call_scope.py, call_runtime.py).                            *)
(*                                                                            *)
(* asyncio runs one task at a time: an action is what runs between two awaits. *)
(* A cancelled task ends at a later await, or completes the one it is in.      *)
(***************************************************************************)
EXTENDS Naturals, FiniteSets

CONSTANTS
    Calls,     \* tasks of model nodes
    Requests,  \* tasks of physical requests (an SDK retry, a concurrent request)
    Driver,    \* the task of drive_native
    Nobody

ASSUME ScopeAssumption ==
    Calls \cap Requests = {} /\ Driver \notin Calls \cup Requests /\ Nobody \notin Requests

VARIABLES
    runner,    \* the coroutine of run_agent
    phase,     \* of the ModelCallScope
    active,    \* registered tasks that have not ended
    pc,        \* where each task is
    cancelled, \* tasks with a cancellation on its way
    owner,     \* model call of a request
    final,     \* final-request scope of each model call
    prepared   \* requests whose prepare committed

scopeVars == <<runner, phase, active, pc, cancelled, owner, final, prepared>>
Tasks == Calls \cup Requests \cup {Driver}
Running == {t \in Tasks : pc[t] \in {"run", "prepare"}}

ScopeInit ==
    /\ runner = "idle" /\ phase = "accepting" /\ active = {} /\ cancelled = {} /\ prepared = {}
    /\ pc = [t \in Tasks |-> "none"]
    /\ owner = [r \in Requests |-> Nobody]
    /\ final = [c \in Calls |-> [claimant |-> Nobody, denied |-> FALSE, closed |-> FALSE]]

----------------------------------------------------------------------------
Moves(t, p) == pc' = [pc EXCEPT ![t] = p]
\* The done callback of a registered task takes it out of the active set.
Ends(t) == Moves(t, "done") /\ active' = active \ {t}

\* A task is registered while the scope accepts, otherwise it cancels itself.
Register_Late(t, p) == active' = active \cup {t} /\ Moves(t, p)
Register(t, p) ==
    IF phase = "accepting" THEN active' = active \cup {t} /\ Moves(t, p)
    ELSE Moves(t, "done") /\ UNCHANGED active

StartNative ==
    /\ runner = "idle" /\ runner' = "native" /\ Register(Driver, "run")
    /\ UNCHANGED <<phase, cancelled, owner, final, prepared>>

\* The graph creates a task for a model node; it runs later, whatever happened.
SpawnCall(c) ==
    /\ pc[Driver] = "run" /\ pc[c] = "none" /\ Moves(c, "spawned")
    /\ UNCHANGED <<runner, phase, active, cancelled, owner, final, prepared>>
EnterCall(c) ==
    /\ pc[c] = "spawned" /\ Register(c, "run")
    /\ UNCHANGED <<runner, phase, cancelled, owner, final, prepared>>

SpawnRequest(r, c) ==
    /\ pc[c] = "run" /\ pc[r] = "none" /\ Moves(r, "spawned")
    /\ owner' = [owner EXCEPT ![r] = c]
    /\ UNCHANGED <<runner, phase, active, cancelled, final, prepared>>

\* Closing the final scope cancels the claimant that is still at work.
Cancels(c) == IF final[c].claimant \in Running THEN {final[c].claimant} ELSE {}
Open(c) == ~final[c].closed /\ pc[c] # "done" /\ c \notin cancelled
Claims_Again(c) == TRUE
Claims(c) == final[c].claimant = Nobody /\ ~final[c].denied

\* freeze_final_model_request up to its await: the claim, the registration and
\* the entry to prepare happen without one in between.
Freeze(r) ==
    /\ pc[r] = "spawned"
    /\ LET c == owner[r] IN
       \/ /\ ~Open(c) /\ Moves(r, "done")
          /\ final' = IF c \in cancelled THEN final ELSE [final EXCEPT ![c].denied = TRUE]
          /\ UNCHANGED <<active, cancelled>>
       \/ /\ Open(c) /\ ~Claims(c) /\ Moves(r, "done")
          /\ final' = [final EXCEPT ![c].closed = TRUE, ![c].denied = TRUE]
          /\ cancelled' = cancelled \cup Cancels(c)
          /\ UNCHANGED active
       \/ /\ Open(c) /\ Claims(c) /\ Register(r, "prepare")
          /\ final' = [final EXCEPT ![c].claimant = r]
          /\ UNCHANGED cancelled
    /\ UNCHANGED <<runner, phase, owner, prepared>>

\* The transaction of prepare commits or not; either way the request is denied,
\* unless the request or its owner was cancelled.
PrepareRequest(r) ==
    /\ pc[r] = "prepare" /\ Ends(r)
    /\ prepared' \in {prepared, prepared \cup {r}}
    /\ final' \in {[final EXCEPT ![owner[r]].denied = TRUE]} \cup
                  (IF {r, owner[r]} \cap cancelled # {} THEN {final} ELSE {})
    /\ UNCHANGED <<runner, phase, cancelled, owner>>

\* awrap_model_call always raises, and closes its final scope.
EndCall(c) ==
    /\ pc[c] = "run" /\ Ends(c)
    /\ final' = [final EXCEPT ![c].closed = TRUE]
    /\ cancelled' = cancelled \cup Cancels(c)
    /\ UNCHANGED <<runner, phase, owner, prepared>>
EndDriver ==
    /\ pc[Driver] = "run" /\ Ends(Driver)
    /\ UNCHANGED <<runner, phase, cancelled, owner, final, prepared>>

----------------------------------------------------------------------------
(* run_agent *)

\* The native run returned (its tasks may end by themselves) or raised (a lost
\* progress write unwinds), or run_agent was cancelled: the scope settles.
Settle(cancel) ==
    /\ phase' = "settling"
    /\ cancelled' = IF cancel THEN cancelled \cup active ELSE cancelled
NativeReturns ==
    /\ runner = "native" /\ pc[Driver] = "done"
    /\ \E raised \in BOOLEAN :
         Settle(raised) /\ runner' \in {"settle"} \cup (IF raised THEN {"unwind"} ELSE {})
    /\ UNCHANGED <<active, pc, owner, final, prepared>>
RunCancelled ==
    /\ runner \in {"native", "settle", "unwind"} /\ runner' = "unwind"
    /\ Settle(TRUE)
    /\ UNCHANGED <<active, pc, owner, final, prepared>>

\* _settle_owned waits for every registered task and may raise the error of one,
\* or waits for its deadline: then run_agent raises and commits nothing.
Drained_Driver == Driver \notin active
Drained == active = {}
Settled ==
    /\ phase = "settling" /\ Drained /\ phase' = "settled"
    /\ runner' \in {"raised"} \cup (IF runner = "settle" THEN {"finish"} ELSE {})
    /\ UNCHANGED <<active, pc, cancelled, owner, final, prepared>>
Deadline ==
    /\ phase = "settling" /\ active # {} /\ runner \in {"settle", "unwind"} /\ runner' = "timed_out"
    /\ UNCHANGED <<phase, active, pc, cancelled, owner, final, prepared>>
\* The usage is sealed and the terminal fact committed.
Finalize ==
    /\ runner = "finish" /\ runner' = "terminal"
    /\ UNCHANGED <<phase, active, pc, cancelled, owner, final, prepared>>

ScopeNext ==
    \/ StartNative \/ EndDriver \/ NativeReturns \/ RunCancelled \/ Settled \/ Deadline \/ Finalize
    \/ \E c \in Calls : SpawnCall(c) \/ EnterCall(c) \/ EndCall(c) \/ (\E r \in Requests : SpawnRequest(r, c))
    \/ \E r \in Requests : Freeze(r) \/ PrepareRequest(r)
ScopeSpec == ScopeInit /\ [][ScopeNext]_scopeVars

----------------------------------------------------------------------------
(* Properties *)

ScopeTypeOK ==
    /\ runner \in {"idle", "native", "settle", "unwind", "finish", "raised", "timed_out", "terminal"}
    /\ phase \in {"accepting", "settling", "settled"}
    /\ active \subseteq Tasks /\ cancelled \subseteq Tasks /\ prepared \subseteq Requests
    /\ pc \in [Tasks -> {"none", "spawned", "run", "prepare", "done"}]
    /\ owner \in [Requests -> Calls \cup {Nobody}]
    /\ final \in [Calls -> [claimant : Requests \cup {Nobody}, denied : BOOLEAN, closed : BOOLEAN]]

\* When run_agent goes on to seal the usage and end the run, no task of its graph
\* is at work and no attempt is being prepared, however late a task was created
\* or a request retried; and one model call prepares at most one attempt.
ScopeIsQuiet ==
    /\ runner \in {"finish", "terminal", "raised"} => Running = {}
    /\ \A c \in Calls : Cardinality({r \in Requests : owner[r] = c /\ (r \in prepared \/ pc[r] = "prepare")}) <= 1
=============================================================================
