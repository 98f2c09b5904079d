--------------------------- MODULE ReconcileProbes ---------------------------
(* How a resume that was dispatched and cannot be shown to be consumed ends:  *)
(* every heartbeat of its executor reads the LangGraph checkpoint again       *)
(* (infrastructure/checkpoint_interactions.py) and, once the native           *)
(* invocation is known to have drained, stores the read as a probe            *)
(* (infrastructure/postgres_run_interactions.py); three equal probes in a row *)
(* fail the run (worker/supervisor_recovery.py).  Only the heartbeat that     *)
(* finds a live task renews the lease, so the probes race the lease, and      *)
(* writes that commit late race the probes.  Time is kept as ages.            *)
EXTENDS Naturals, Sequences

CONSTANTS
    Ttl,        \* lease_ttl_s, in units of time
    Every,      \* lease_heartbeat_s: the sleep between two passes
    MaxPass,    \* bound: time one pass of the heartbeat takes
    MaxWrites   \* bound: native writes that commit after the first read

ASSUME ProbeAssumption == Ttl \in Nat /\ Every \in Nat /\ MaxPass \in Nat /\ MaxWrites \in Nat

VARIABLES cp, task, token, intent, probe, left, held, beat, reads
probeVars == <<cp, task, token, intent, probe, left, held, beat, reads>>

\* cp: the thread as it is committed, and whether it shows the pause consumed.
\* token: _drained_attempts knows the attempt.  held: the generation of the
\* attempt is still the run's.  reads: the checkpoints stored since a reset.
ProbeTypeOK ==
    /\ cp \in [wrote : 0..MaxWrites, consumed : BOOLEAN]
    /\ task \in {"running", "gone"} /\ token \in BOOLEAN /\ held \in BOOLEAN
    /\ intent \in {"dispatch_started", "native_observed", "unknown", "reconciled", "failed", "ended"}
    /\ probe \in [count : 0..3, digest : 0..(MaxWrites + 1)]
    /\ left \in 0..Ttl
    /\ beat \in [pc : {"sleep", "renew", "reclaim", "observe", "settle", "again", "record", "fail"},
                 slept : 0..Every, spent : 0..MaxPass, seen : 0..MaxWrites, shown : BOOLEAN]

NoProbe == [count |-> 0, digest |-> MaxWrites + 1]
ProbeInit ==
    /\ cp = [wrote |-> 0, consumed |-> FALSE] /\ task = "running" /\ token = FALSE
    /\ intent = "dispatch_started" /\ probe = NoProbe /\ left = Ttl /\ held = TRUE
    /\ beat = [pc |-> "sleep", slept |-> 0, spent |-> 0, seen |-> 0, shown |-> FALSE] /\ reads = <<>>

Active == held /\ left > 0
Unread == intent \in {"dispatch_started", "unknown"}
Reset == probe' = NoProbe /\ reads' = <<>>

-----------------------------------------------------------------------------
(* The native invocation *)
\* A write of the invocation commits: while it runs, or late, its answer having
\* been lost.
NativeWrite ==
    /\ cp.wrote < MaxWrites
    /\ \E c \in BOOLEAN : cp' = [wrote |-> cp.wrote + 1, consumed |-> cp.consumed \/ c]
    /\ UNCHANGED <<task, token, intent, probe, left, held, beat, reads>>
\* on_native_settled: the drained invocation leaves its token, reads the thread
\* and settles the intent, or marks it unknown; without authority it raises.
NativeSettles ==
    /\ task = "running" /\ task' = "gone" /\ token' = TRUE
    /\ intent' = IF ~(Active /\ Unread) THEN intent
                 ELSE IF cp.consumed THEN "reconciled" ELSE "unknown"
    /\ UNCHANGED <<cp, probe, left, held, beat, reads>>
\* The task ends with an exception: nothing proves that it drained.
NativeDies ==
    /\ task = "running" /\ task' = "gone"
    /\ UNCHANGED <<cp, token, intent, probe, left, held, beat, reads>>

-----------------------------------------------------------------------------
(* One pass of the heartbeat *)
Goes(pc) == beat' = [beat EXCEPT !.pc = pc]
Rest == beat' = [beat EXCEPT !.pc = "sleep", !.slept = 0, !.spent = 0]

WakeUp ==
    /\ beat.pc = "sleep" /\ beat.slept = Every /\ Goes("renew")
    /\ UNCHANGED <<cp, task, token, intent, probe, left, held, reads>>
\* Only a registered task renews; a live one also clears the probes.
Renew ==
    /\ beat.pc = "renew" /\ Goes("reclaim")
    /\ IF task = "running" /\ Active
       THEN left' = Ttl /\ Reset
       ELSE UNCHANGED <<left, probe, reads>>
    /\ UNCHANGED <<cp, task, token, intent, held>>
\* reclaim_expired: this worker or another takes the run with a new generation;
\* the attempt keeps the old one and is never read again.
Lapses == held /\ left = 0 /\ held' = FALSE
Reclaim ==
    /\ beat.pc = "reclaim"
    /\ IF task = "gone" /\ Active /\ intent \in {"dispatch_started", "native_observed", "unknown"}
       THEN Goes("observe") ELSE Rest
    /\ IF left = 0 THEN held' = FALSE ELSE UNCHANGED held
    /\ UNCHANGED <<cp, task, token, intent, probe, left, reads>>
OtherReclaims ==
    /\ Lapses /\ UNCHANGED <<cp, task, token, intent, probe, left, beat, reads>>
\* _resume_owned: the read of the thread takes several awaits.
ReadThread(pc) == beat' = [beat EXCEPT !.pc = pc, !.seen = cp.wrote, !.shown = cp.consumed]
ObserveThread ==
    /\ beat.pc = "observe" /\ ReadThread("settle")
    /\ UNCHANGED <<cp, task, token, intent, probe, left, held, reads>>
\* The observation is stored and the intent settled or marked unknown.
SettleIntent ==
    /\ beat.pc = "settle"
    /\ IF ~Active \/ ~(Unread \/ intent = "native_observed") THEN Rest /\ UNCHANGED intent
       ELSE IF beat.shown THEN intent' = "reconciled" /\ Rest
       ELSE IF ~Unread THEN Rest /\ UNCHANGED intent
       ELSE intent' = "unknown" /\ IF token THEN Goes("again") ELSE Rest
    /\ UNCHANGED <<cp, task, token, probe, left, held, reads>>
\* The probe reads afresh; progress clears the count.
ReadAgain ==
    /\ beat.pc = "again"
    /\ IF cp.consumed
       THEN Rest /\ (IF Active THEN Reset ELSE UNCHANGED <<probe, reads>>)
       ELSE ReadThread("record") /\ UNCHANGED <<probe, reads>>
    /\ UNCHANGED <<cp, task, token, intent, left, held>>
\* record_reconcile_probe: the first counts one, an equal one adds one, any
\* other starts from zero.
Count_Capped == IF probe = NoProbe THEN 1 ELSE IF probe.digest # beat.seen THEN 0 ELSE IF probe.count >= 2 THEN 2 ELSE probe.count + 1
Count_Blind == IF probe = NoProbe THEN 1 ELSE IF probe.count = 3 THEN 3 ELSE probe.count + 1
Count ==
    IF probe = NoProbe THEN 1
    ELSE IF probe.digest # beat.seen THEN 0
    ELSE IF probe.count = 3 THEN 3 ELSE probe.count + 1
RecordProbe ==
    /\ beat.pc = "record"
    /\ IF Active /\ Unread
       THEN /\ probe' = [count |-> Count, digest |-> beat.seen]
            /\ reads' = Append(IF Len(reads) = 3 THEN Tail(reads) ELSE reads, beat.seen)
            /\ IF Count = 3 THEN Goes("fail") ELSE Rest
       ELSE Rest /\ UNCHANGED <<probe, reads>>
    /\ UNCHANGED <<cp, task, token, intent, left, held>>
\* The run fails under the authority of the same lease.
FailRun ==
    /\ beat.pc = "fail" /\ Rest
    /\ intent' = IF Active /\ Unread THEN "failed" ELSE intent
    /\ UNCHANGED <<cp, task, token, probe, left, held, reads>>

-----------------------------------------------------------------------------
\* A cancellation or a rejected frame ends the run.
EndRun ==
    /\ intent \notin {"failed", "ended", "reconciled"} /\ intent' = "ended"
    /\ UNCHANGED <<cp, task, token, probe, left, held, beat, reads>>
\* The process is replaced: the token is lost and the lease runs out.
Restart ==
    /\ task' = "gone" /\ token' = FALSE /\ held' = FALSE /\ Rest /\ held
    /\ UNCHANGED <<cp, intent, probe, left, reads>>
Tick ==
    /\ IF beat.pc = "sleep"
       THEN beat.slept < Every /\ beat' = [beat EXCEPT !.slept = @ + 1]
       ELSE beat.spent < MaxPass /\ beat' = [beat EXCEPT !.spent = @ + 1]
    /\ left' = IF left = 0 THEN 0 ELSE left - 1
    /\ UNCHANGED <<cp, task, token, intent, probe, held, reads>>

Pass ==
    \/ WakeUp \/ Renew \/ Reclaim \/ ObserveThread \/ SettleIntent \/ ReadAgain
    \/ RecordProbe \/ FailRun
ProbeNext ==
    \/ NativeWrite \/ NativeSettles \/ NativeDies \/ Pass \/ OtherReclaims
    \/ EndRun \/ Restart \/ Tick
ProbeSpec == ProbeInit /\ [][ProbeNext]_probeVars

\* The event loop turns, the clock advances and the native invocation ends.
ProbeFairness == WF_probeVars(Pass) /\ WF_probeVars(Tick) /\ WF_probeVars(NativeSettles \/ NativeDies)
FairProbeSpec == ProbeSpec /\ ProbeFairness

-----------------------------------------------------------------------------
\* A run is failed for lack of progress only after three reads in a row that
\* showed the same unconsumed thread, of an invocation that had drained in this
\* process, all stored under the lease of the attempt, with neither a live task
\* nor progress seen between them.
FailsOnlyWhenStable ==
    [][intent' = "failed" /\ intent # "failed" =>
         /\ task = "gone" /\ token /\ Active
         /\ Len(reads) = 3 /\ reads[1] = reads[3] /\ reads[2] = reads[3]]_probeVars

\* An unknown attempt that is known to have drained comes to an end by itself,
\* consumed or failed, if its process lives, its thread stays as it is and its
\* lease lasts for the four passes a changed thread may need.
Room == left > 4 * (Every + MaxPass) + MaxPass
UnknownIsDecided ==
    intent = "unknown" /\ token /\ held /\ cp.wrote = MaxWrites /\ Room
        ~> intent \in {"reconciled", "failed", "ended"} \/ ~token

\* docs/TECHNICAL_DESIGN.md:1198 lets three equal reads exhaust the attempt; no
\* condition on the lease is stated, whose last renewal the live task made.
DrainedIsDecided ==
    intent = "unknown" /\ token /\ Active
        ~> intent \in {"reconciled", "failed", "ended"} \/ ~token
=============================================================================
