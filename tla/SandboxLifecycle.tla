-------------------------- MODULE SandboxLifecycle --------------------------
(***************************************************************************)
(* The managed sandbox of one run: the assembly of a backend for a lease   *)
(* generation (sandbox/backend.py), the binding kept in the claim row and   *)
(* the durable cleanup intents (postgres_run_sandbox.py), their retry by    *)
(* the heartbeat of every worker (supervisor_recovery.py), the terminal     *)
(* commit that queues the bound sandbox, and retention.                     *)
(*                                                                          *)
(* Assemblers are calls of make_backend_for_run; janitors are heartbeats.   *)
(* A box is a sandbox of the provider, which may also end by its own TTL.   *)
(* Clocks are abstracted: Falls makes an intent due, whether its retry      *)
(* delay or the claim of another heartbeat has passed.                      *)
(***************************************************************************)
EXTENDS Naturals, FiniteSets

CONSTANTS
    Boxes,        \* identities the provider can hand out, numbers in minting order
    Assemblers,   \* calls of make_backend_for_run
    Janitors,     \* workers whose heartbeat retries cleanups
    MaxEpoch,     \* bound: lease generations
    MaxFaults,    \* bound: failures, crashes and provider losses in a behaviour
    Quiet,        \* whether the provider's destroy can fail without raising
    NoBox

ASSUME SandboxAssumption == NoBox \notin Boxes

VARIABLES
    row,          \* the claim row: phase, generation, held lease, bound box and its generation
    box,          \* what the provider runs
    intent,       \* cleanup intent of a box: status and whether it is due
    asm,          \* assemblers
    jan,          \* janitors: intents claimed, and the one already torn down
    forgotten,    \* boxes whose only handle was lost in one of the ways named below
    faults

sandboxVars == <<row, box, intent, asm, jan, forgotten, faults>>

NoIntent == [status |-> "none", due |-> FALSE]
Resting == [pc |-> "idle", gen |-> 0, prior |-> NoBox, got |-> NoBox, tries |-> 0, then |-> "done"]

SandboxInit ==
    /\ row = [phase |-> "open", gen |-> 1, held |-> TRUE, box |-> NoBox, boxGen |-> 0]
    /\ box = [b \in Boxes |-> "none"]
    /\ intent = [b \in Boxes |-> NoIntent]
    /\ asm = [a \in Assemblers |-> Resting]
    /\ jan = [j \in Janitors |-> [todo |-> {}, torn |-> {}]]
    /\ forgotten = {}
    /\ faults = 0

----------------------------------------------------------------------------
(* Helpers *)

Active(g) == row.phase = "open" /\ row.held /\ row.gen = g
Alive(b) == b \in Boxes /\ box[b] = "alive"
Fault == faults < MaxFaults /\ faults' = faults + 1

\* The lowest unused identity stands for whatever the provider mints.
Unminted(b) == box[b] = "none" /\ \A c \in Boxes : c < b => box[c] # "none"

Fresher(a) == asm[a].got # asm[a].prior
Set(a, r) == asm' = [asm EXCEPT ![a] = r]
End(a) == Set(a, [asm[a] EXCEPT !.pc = "done"])
Forget(a) == forgotten' = IF asm[a].got \in Boxes /\ Fresher(a) THEN forgotten \cup {asm[a].got} ELSE forgotten

Binds_Blind(a) == Active(asm[a].gen)
Binds(a) ==
    /\ Active(asm[a].gen)
    /\ ~(row.box # NoBox /\ row.boxGen = asm[a].gen)
    /\ row.box = asm[a].prior

\* What bind_sandbox_id answers, before it writes: the confirmed box of this
\* generation, or the current one when the caller's expectation is stale.
BindAnswer(a) ==
    IF ~Active(asm[a].gen) THEN NoBox
    ELSE IF Binds(a) THEN asm[a].got ELSE row.box

\* The row after bind_sandbox_id: the same box is confirmed for the new
\* generation, another box replaces it.
Bound(a) == IF Binds(a) THEN [row EXCEPT !.box = asm[a].got, !.boxGen = asm[a].gen] ELSE row

\* A box the row replaced is not queued for cleanup by anything.
Replaced(a) == IF Binds(a) /\ row.box \notin {NoBox, asm[a].got} THEN {row.box} ELSE {}

\* Only a box this call created is its own to destroy.
Owned_Any(a) == TRUE
Owned(a) == Fresher(a)
Leave(a, r) == IF Owned(a) THEN [r EXCEPT !.pc = "register"] ELSE [r EXCEPT !.pc = r.then]

Registered(b) == IF intent[b].status = "none" THEN [status |-> "pending", due |-> TRUE] ELSE intent[b]
Completed(b) == [status |-> "completed", due |-> FALSE]
Rescheduled(b, now) == IF intent[b].status = "completed" THEN intent[b] ELSE [status |-> "pending", due |-> now]

\* A row the purge deleted is not completed or rescheduled back into existence.
Update(b, r) == intent' = IF intent[b].status = "none" THEN intent ELSE [intent EXCEPT ![b] = r]

\* Teardown outcomes: the box is gone, or (Quiet) the provider's failure is not
\* reported: destroy_docker_sandbox ignores the exit status of "docker rm".
Gone(b) == IF box[b] = "alive" THEN [box EXCEPT ![b] = "destroyed"] ELSE box
Destroy(b) ==
    /\ box' \in {Gone(b)} \cup (IF Quiet THEN {box} ELSE {})
    /\ UNCHANGED faults

----------------------------------------------------------------------------
(* The lease and the provider *)

\* The lease lapses, or a scan claims the next generation.
LeaseLapses == row.phase = "open" /\ row.held /\ row' = [row EXCEPT !.held = FALSE]
         /\ UNCHANGED <<box, intent, asm, jan, forgotten, faults>>
Reclaim ==
    /\ row.phase = "open" /\ ~row.held /\ row.gen < MaxEpoch
    /\ row' = [row EXCEPT !.held = TRUE, !.gen = @ + 1]
    /\ UNCHANGED <<box, intent, asm, jan, forgotten, faults>>

\* A box ends by its own TTL.
Expires(b) ==
    /\ Alive(b) /\ Fault
    /\ box' = [box EXCEPT ![b] = "expired"]
    /\ UNCHANGED <<row, intent, asm, jan, forgotten>>

----------------------------------------------------------------------------
(* make_backend_for_run *)

\* is_lease_current, then get_sandbox_id on another connection.
Begin(a) ==
    /\ asm[a].pc = "idle" /\ Active(row.gen)
    /\ Set(a, [asm[a] EXCEPT !.pc = "prior", !.gen = row.gen])
    /\ UNCHANGED <<row, box, intent, jan, forgotten, faults>>
ReadPrior(a) ==
    /\ asm[a].pc = "prior"
    /\ Set(a, [asm[a] EXCEPT !.pc = "connect", !.prior = row.box])
    /\ UNCHANGED <<row, box, intent, jan, forgotten, faults>>

\* The connector reuses a living prior box and otherwise mints one. Its thread
\* may also fail (no box), or find a living prior unreachable and mint another.
Reuse(a, then) ==
    /\ Alive(asm[a].prior)
    /\ Set(a, then[asm[a].prior]) /\ UNCHANGED <<box, faults>>
Mint(a, then) ==
    /\ IF Alive(asm[a].prior) THEN Fault ELSE UNCHANGED faults
    /\ \E b \in Boxes : Unminted(b) /\ box' = [box EXCEPT ![b] = "alive"] /\ Set(a, then[b])

Connect(a) ==
    /\ asm[a].pc = "connect"
    /\ LET then == [b \in Boxes |-> [asm[a] EXCEPT !.pc = "bind", !.got = b, !.tries = @ + 1]]
       IN Reuse(a, then) \/ Mint(a, then)
    /\ UNCHANGED <<row, intent, jan, forgotten>>
ConnectFails(a) ==
    /\ asm[a].pc = "connect" /\ Fault /\ End(a)
    /\ UNCHANGED <<row, box, intent, jan, forgotten>>

\* Cancelled while the thread runs: the thread is awaited and only a box it
\* created is abandoned (_cleanup_cancelled_construction).
CancelConnect(a) ==
    /\ asm[a].pc = "connect"
    /\ LET then == [b \in Boxes |-> IF b # asm[a].prior
                       THEN [asm[a] EXCEPT !.pc = "register", !.got = b, !.then = "done"]
                       ELSE [asm[a] EXCEPT !.pc = "done"]]
       IN Reuse(a, then) \/ Mint(a, then)
    /\ UNCHANGED <<row, intent, jan, forgotten>>

\* bind_sandbox_id and what its answer decides: ready, superseded, or another
\* attempt (three at most) with the authoritative box as the prior one.
Bind(a) ==
    /\ asm[a].pc = "bind"
    /\ row' = Bound(a)
    /\ forgotten' = forgotten \cup Replaced(a)
    /\ \/ /\ BindAnswer(a) = NoBox
          /\ Set(a, Leave(a, [asm[a] EXCEPT !.then = "done"]))
       \/ /\ BindAnswer(a) = asm[a].got
          /\ Set(a, [asm[a] EXCEPT !.pc = "ready"])
       \/ /\ BindAnswer(a) \notin {NoBox, asm[a].got}
          /\ LET next == IF asm[a].tries < 3 THEN "connect" ELSE "done"
             IN Set(a, IF Owned(a) THEN [asm[a] EXCEPT !.pc = "register", !.then = next]
                       ELSE [asm[a] EXCEPT !.pc = next, !.prior = row.box])
    /\ UNCHANGED <<box, intent, jan, faults>>

\* An error or a cancellation out of the bind, before or after its commit: only
\* the local resource is closed, so a new box that was not bound is lost.
BindFails(a) ==
    /\ asm[a].pc = "bind" /\ Fault /\ End(a)
    /\ \/ row' = row /\ Forget(a)
       \/ /\ Binds(a) /\ row' = Bound(a)
          /\ forgotten' = forgotten \cup Replaced(a)
    /\ UNCHANGED <<box, intent, jan>>

\* _cleanup_abandoned_sandbox: register, tear down, complete. A new attempt
\* reads its prior box as the answer of the bind, which is the row's.
Then(a) == [asm[a] EXCEPT !.pc = asm[a].then, !.prior = row.box, !.then = "done"]

RegisterIntent(a) ==
    /\ asm[a].pc = "register"
    /\ intent' = [intent EXCEPT ![asm[a].got] = Registered(asm[a].got)]
    /\ Set(a, [asm[a] EXCEPT !.pc = "teardown"])
    /\ UNCHANGED <<row, box, jan, forgotten, faults>>
\* The store is down: one strict destruction while the handle is alive.
RegisterFails(a) ==
    /\ asm[a].pc = "register" /\ Fault /\ End(a)
    /\ \/ box' = Gone(asm[a].got) /\ UNCHANGED forgotten
       \/ Forget(a) /\ UNCHANGED box
    /\ UNCHANGED <<row, intent, jan>>
Teardown(a) ==
    /\ asm[a].pc = "teardown" /\ Destroy(asm[a].got)
    /\ Set(a, [asm[a] EXCEPT !.pc = "complete"])
    /\ UNCHANGED <<row, intent, jan, forgotten>>
TeardownFails(a) ==
    /\ asm[a].pc = "teardown" /\ Fault /\ End(a)
    /\ Update(asm[a].got, Rescheduled(asm[a].got, TRUE))
    /\ UNCHANGED <<row, box, jan, forgotten>>
Complete(a) ==
    /\ asm[a].pc = "complete"
    /\ Update(asm[a].got, Completed(asm[a].got))
    /\ Set(a, Then(a))
    /\ UNCHANGED <<row, box, jan, forgotten, faults>>

\* The worker dies: a new box that is neither bound nor registered is lost.
Crash(a) ==
    /\ asm[a].pc \notin {"idle", "done", "ready"} /\ Fault /\ End(a)
    /\ IF asm[a].pc \in {"bind", "register"} THEN Forget(a) ELSE UNCHANGED forgotten
    /\ UNCHANGED <<row, box, intent, jan>>

----------------------------------------------------------------------------
(* Terminal commit, heartbeat cleanups, retention *)

\* The terminal commit queues the bound box in its own transaction.
EndRun ==
    /\ row.phase = "open" /\ row.held
    /\ row' = [row EXCEPT !.phase = "terminal", !.held = FALSE]
    /\ intent' = IF row.box = NoBox THEN intent ELSE [intent EXCEPT ![row.box] = Registered(row.box)]
    /\ UNCHANGED <<box, asm, jan, forgotten, faults>>

\* claim_sandbox_cleanups: whatever is due and unfinished, a lapsed claim too.
Due_Pending(b) == intent[b].status = "pending" /\ intent[b].due
Due(b) == intent[b].status \in {"pending", "processing"} /\ intent[b].due
Claim(j) ==
    LET due == {b \in Boxes : Due(b)} IN
    /\ jan[j].todo = {} /\ jan[j].torn = {} /\ due # {}
    /\ intent' = [b \in Boxes |-> IF b \in due THEN [status |-> "processing", due |-> FALSE] ELSE intent[b]]
    /\ jan' = [jan EXCEPT ![j].todo = due]
    /\ UNCHANGED <<row, box, asm, forgotten, faults>>

TearDownClaimed(j) ==
    /\ jan[j].torn = {}
    /\ \E b \in jan[j].todo :
         /\ Destroy(b)
         /\ jan' = [jan EXCEPT ![j] = [todo |-> @.todo \ {b}, torn |-> {b}]]
    /\ UNCHANGED <<row, intent, asm, forgotten>>
\* A failed teardown waits for its delay; the loop goes on with the others.
TearDownRaises(j) ==
    /\ jan[j].torn = {} /\ Fault
    /\ \E b \in jan[j].todo :
         /\ Update(b, Rescheduled(b, FALSE))
         /\ jan' = [jan EXCEPT ![j].todo = @ \ {b}]
    /\ UNCHANGED <<row, box, asm, forgotten>>
CompleteClaimed(j) ==
    /\ \E b \in jan[j].torn : Update(b, Completed(b))
    /\ jan' = [jan EXCEPT ![j].torn = {}]
    /\ UNCHANGED <<row, box, asm, forgotten, faults>>
\* A crash, or a store error in the loop: the claims stay until they lapse.
Abandon(j) ==
    /\ jan[j].todo \cup jan[j].torn # {} /\ Fault
    /\ jan' = [jan EXCEPT ![j] = [todo |-> {}, torn |-> {}]]
    /\ UNCHANGED <<row, box, intent, asm, forgotten>>
Falls(b) ==
    /\ intent[b].status \in {"pending", "processing"} /\ ~intent[b].due
    /\ intent' = [intent EXCEPT ![b].due = TRUE]
    /\ UNCHANGED <<row, box, asm, jan, forgotten, faults>>

\* purge_terminal waits for every cleanup of the run.
Purgeable_Claimed == row.phase = "terminal" /\ \A b \in Boxes : intent[b].status # "pending"
Purgeable == row.phase = "terminal" /\ \A b \in Boxes : intent[b].status \in {"none", "completed"}
Purge ==
    /\ Purgeable
    /\ row' = [row EXCEPT !.phase = "purged", !.box = NoBox, !.boxGen = 0]
    /\ intent' = [b \in Boxes |-> NoIntent]
    /\ UNCHANGED <<box, asm, jan, forgotten, faults>>

----------------------------------------------------------------------------
AssemblerStep(a) ==
    \/ Begin(a) \/ ReadPrior(a) \/ Connect(a) \/ ConnectFails(a) \/ CancelConnect(a)
    \/ Bind(a) \/ BindFails(a) \/ RegisterIntent(a) \/ RegisterFails(a) \/ Teardown(a)
    \/ TeardownFails(a) \/ Complete(a) \/ Crash(a)
JanitorStep(j) ==
    Claim(j) \/ TearDownClaimed(j) \/ TearDownRaises(j) \/ CompleteClaimed(j) \/ Abandon(j)

SandboxNext ==
    \/ LeaseLapses \/ Reclaim \/ EndRun \/ Purge
    \/ \E b \in Boxes : Expires(b) \/ Falls(b)
    \/ \E a \in Assemblers : AssemblerStep(a)
    \/ \E j \in Janitors : JanitorStep(j)

\* Fairness: time passes, some heartbeat keeps running and its calls return.
SandboxFairness ==
    /\ \A b \in Boxes : WF_sandboxVars(Falls(b))
    /\ \A j \in Janitors :
         WF_sandboxVars(Claim(j)) /\ WF_sandboxVars(TearDownClaimed(j)) /\ WF_sandboxVars(CompleteClaimed(j))

SandboxSpec == SandboxInit /\ [][SandboxNext]_sandboxVars /\ SandboxFairness

----------------------------------------------------------------------------
(* Properties *)

SandboxTypeOK ==
    /\ row \in [phase : {"open", "terminal", "purged"}, gen : 1..MaxEpoch, held : BOOLEAN,
                box : Boxes \cup {NoBox}, boxGen : 0..MaxEpoch]
    /\ box \in [Boxes -> {"none", "alive", "expired", "destroyed"}]
    /\ intent \in [Boxes -> [status : {"none", "pending", "processing", "completed"}, due : BOOLEAN]]
    /\ asm \in [Assemblers -> [pc : {"idle", "prior", "connect", "bind", "register", "teardown",
                                     "complete", "ready", "done"},
                  gen : 0..MaxEpoch, prior : Boxes \cup {NoBox}, got : Boxes \cup {NoBox},
                  tries : 0..3, then : {"done", "connect"}]]
    /\ jan \in [Janitors -> [todo : SUBSET Boxes, torn : SUBSET Boxes]]
    /\ forgotten \subseteq Boxes /\ faults \in 0..MaxFaults

\* No cleanup of a superseded or losing assembler destroys the box an open run
\* is bound to, whichever generation bound it and however often it was reused.
LiveBoxSurvives == row.phase = "open" /\ row.box # NoBox => box[row.box] # "destroyed"

\* Two assemblers of one generation that both came back hold the same box, the
\* one the row confirms while that generation is current.
OneBoxPerGeneration ==
    \A a \in Assemblers : asm[a].pc = "ready" =>
        /\ \A c \in Assemblers : asm[c].pc = "ready" /\ asm[c].gen = asm[a].gen => asm[c].got = asm[a].got
        /\ row.phase = "open" /\ row.boxGen = asm[a].gen => row.box = asm[a].got

\* A living box is held by a call, bound to an open run, or named by an unfinished
\* intent, unless its handle was lost in one of the ways the actions name: a bind
\* that raised, a registration and a destruction that both failed, a crash before
\* either, or a box replaced in the row. Retention and completion lose none.
NoBoxForgotten ==
    \A b \in Boxes : Alive(b) =>
        \/ b \in forgotten
        \/ row.phase = "open" /\ row.box = b
        \/ intent[b].status \in {"pending", "processing"}
        \/ \E a \in Assemblers : asm[a].got = b /\ asm[a].pc \in {"bind", "register"}

\* An intent that is completed names a box that no longer runs: a teardown that
\* fails is left to the durable queue (backend.py:631).
CompletedIsGone == \A b \in Boxes : intent[b].status = "completed" => ~Alive(b)

\* Every box a cleanup intent names stops running, through failed teardowns,
\* heartbeats that die holding the claim and claims that lapse.
ReclaimedEventually == \A b \in Boxes : (intent[b].status # "none") ~> ~Alive(b)
=============================================================================
