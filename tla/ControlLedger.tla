---------------------------- MODULE ControlLedger ----------------------------
(***************************************************************************)
(* The control commands of one run: admitted by the ingress in PostgreSQL, *)
(* published as frames on the run's Redis control stream, delivered to the *)
(* workers' listeners (at least once, in any order), recorded, applied and *)
(* receipted.  The heartbeat of every worker reapplies what was recorded   *)
(* but not applied.  The stream is a notification, the ledger row is the   *)
(* command.                                                                *)
(*                                                                         *)
(* What an applied resume does to the run is RunLifecycle's subject: here  *)
(* the run is open or has one outcome, and one pause that one resume wins. *)
(*                                                                         *)
(* A definition Name_Slip is a wrong version of the next definition: it is *)
(* not used, and shows that a property would notice the slip.              *)
(***************************************************************************)
EXTENDS Naturals, FiniteSets, SequencesExt

CONSTANTS Worker,
          Cancels, Steers, Resumes,  \* the commands, by kind
          MaxAsk,                    \* bound on HTTP requests per command
          MaxFault                   \* bound on crashes and exceptions

Cmd == Cancels \cup Steers \cup Resumes

ASSUME KindAssumption ==
  /\ Cancels \cap Steers = {} /\ Cancels \cap Resumes = {} /\ Steers \cap Resumes = {}
  /\ {"none", "executor"} \cap Cmd = {}
ASSUME BoundAssumption == MaxAsk \in Nat /\ MaxFault \in Nat

VARIABLES
  outcome,   \* "none" while the run is open, "executor", or the cancel that won
  accepted,  \* the resume accepted for the pause, or "none"
  ledger,    \* run_control_command.status
  effect,    \* history: times a command took effect (commit, insert, acceptance)
  req,       \* the ingress request in progress for a command
  asked,     \* HTTP requests so far
  group,     \* the consumer group of the control stream exists
  fresh,     \* frames of the stream nobody has read yet, oldest first
  pel,       \* frames read and not acknowledged (the pending entries list)
  queue,     \* frames a listener has read and not handled
  co,        \* the listener, the heartbeat scan and the finishing agent task
  torn,      \* history: a teardown has deleted the stream
  faults

run    == <<outcome, accepted, effect>>
stream == <<group, fresh, pel, queue>>
client == <<req, asked>>
vars   == <<outcome, accepted, ledger, effect, req, asked, group, fresh, pel,
            queue, co, torn, faults>>

Status    == {"none", "admitted", "persisted", "applied", "succeeded", "failed",
              "superseded"}
Coroutine == {"lst", "beat", "exec"}
PC == {"off", "idle", "ack", "drop", "listed", "apply", "insert", "accept", "conflict",
       "context", "lost", "nothing", "applied", "succeeded", "superseded", "refused",
       "settled", "teardown"}
CoState == [pc : PC, cmd : Cmd \cup {"none"}]
Frame == Cmd \X (1..MaxAsk)   \* <<command, its request>>
Idle == [pc |-> "idle", cmd |-> "none"]
Off  == [pc |-> "off", cmd |-> "none"]

TypeOK ==
  /\ outcome \in {"none", "executor"} \cup Cancels
  /\ accepted \in {"none"} \cup Resumes
  /\ ledger \in [Cmd -> Status]
  /\ effect \in [Cmd -> 0..2]
  /\ req \in [Cmd -> {"idle", "publish", "fail"}]
  /\ asked \in [Cmd -> 0..MaxAsk]
  /\ {group, torn} \subseteq BOOLEAN
  /\ fresh \in Seq(Frame)
  /\ pel \subseteq Frame
  /\ queue \in [Worker -> Seq(Frame)]
  /\ \A w \in Worker :
       /\ co[w]["lst"].pc = "off" => queue[w] = <<>>
       /\ co[w]["lst"].pc \in {"ack", "drop"} => queue[w] # <<>>
  /\ co \in [Worker -> [Coroutine -> CoState]]
  /\ faults \in 0..MaxFault

Init ==
  /\ outcome = "none"
  /\ accepted = "none"
  /\ ledger = [c \in Cmd |-> "none"]
  /\ effect = [c \in Cmd |-> 0]
  /\ req = [c \in Cmd |-> "idle"]
  /\ asked = [c \in Cmd |-> 0]
  /\ group = FALSE
  /\ fresh = <<>>
  /\ pel = {}
  /\ queue = [w \in Worker |-> <<>>]
  /\ co = [w \in Worker |-> [k \in Coroutine |-> IF k = "lst" THEN Off ELSE Idle]]
  /\ torn = FALSE
  /\ faults = 0

Open == outcome = "none"

-----------------------------------------------------------------------------
(* The ledger, one transaction under the run row's lock each *)

\* update_control_status: from persisted only, and not on a terminal run.
UpdateStatus(c, s) ==
  ledger' = IF Open /\ ledger[c] = "persisted" THEN [ledger EXCEPT ![c] = s] ELSE ledger

\* update_control_command_status: the first final status stays.
UpdateCommand_Late(c, s) ==
  ledger' = IF Open THEN [ledger EXCEPT ![c] = s] ELSE ledger
UpdateCommand(c, s) ==
  ledger' = IF Open /\ ledger[c] \in {"admitted", "persisted", "applied"}
            THEN [ledger EXCEPT ![c] = s] ELSE ledger

Took(c) == effect' = [effect EXCEPT ![c] = IF @ = 2 THEN 2 ELSE @ + 1]

-----------------------------------------------------------------------------
(* Ingress: AgentIngress.control, again and again for the same command *)

\* admit_control keeps the first row; a repeated request publishes again while the
\* command is not decided.  A terminal run is not refused.
Admit(c) ==
  /\ req[c] = "idle"
  /\ asked[c] < MaxAsk
  /\ asked' = [asked EXCEPT ![c] = @ + 1]
  /\ ledger' = [ledger EXCEPT ![c] = IF @ = "none" THEN "admitted" ELSE @]
  /\ req' = [req EXCEPT ![c] = IF ledger[c] \in {"none", "admitted", "persisted"}
                               THEN "publish" ELSE "idle"]
  /\ UNCHANGED <<run, stream, co, torn, faults>>

\* XADD, and its answer: an error may or may not have added the frame.
Publish(c) ==
  /\ req[c] = "publish"
  /\ \/ /\ fresh' = Append(fresh, <<c, asked[c]>>)
        /\ req' = [req EXCEPT ![c] = "idle"]
        /\ UNCHANGED faults
     \/ /\ faults < MaxFault
        /\ faults' = faults + 1
        /\ req' = [req EXCEPT ![c] = "fail"]
        /\ \/ fresh' = Append(fresh, <<c, asked[c]>>)
           \/ UNCHANGED fresh
  /\ UNCHANGED <<run, ledger, asked, group, pel, queue, co, torn>>

\* control_enqueue_failed
PublishFailed(c) ==
  /\ req[c] = "fail"
  /\ UpdateCommand(c, "failed")
  /\ req' = [req EXCEPT ![c] = "idle"]
  /\ UNCHANGED <<run, asked, stream, co, torn, faults>>

-----------------------------------------------------------------------------
(* Coroutines *)

At(w, k, pc)  == co[w][k].pc = pc
CmdOf(w, k)   == co[w][k].cmd
Goto(w, k, pc) == co' = [co EXCEPT ![w][k].pc = pc]
Start(w, k, c, pc) ==
  co' = [co EXCEPT ![w][k] = [pc |-> pc, cmd |-> c]]
Done(w, k) == co' = [co EXCEPT ![w][k] = Idle]

\* _ensure_control_listener: by the owner, and by every heartbeat for a paused run.
Listen(w) ==
  /\ Open
  /\ At(w, "lst", "off")
  /\ co' = [co EXCEPT ![w]["lst"] = Idle]
  /\ UNCHANGED <<run, ledger, client, stream, torn, faults>>

\* _release_local_ownership of a worker that lost the lease.
Unlisten(w) ==
  /\ Open
  /\ faults < MaxFault
  /\ faults' = faults + 1
  /\ ~At(w, "lst", "off")
  /\ co' = [co EXCEPT ![w]["lst"] = Off]
  /\ queue' = [queue EXCEPT ![w] = <<>>]
  /\ UNCHANGED <<run, ledger, client, group, fresh, pel, torn>>

\* A listener reads when it has handled everything it read before.
Reading(w) == At(w, "lst", "idle") /\ queue[w] = <<>>

\* XREADGROUP ">" takes every new frame; they stay pending until acknowledged.
Read_AckFirst(w) ==
  /\ Reading(w) /\ group /\ fresh # <<>>
  /\ queue' = [queue EXCEPT ![w] = fresh]
  /\ fresh' = <<>>
  /\ UNCHANGED <<run, ledger, client, group, pel, co, torn, faults>>

Read(w) ==
  /\ Reading(w) /\ group /\ fresh # <<>>
  /\ queue' = [queue EXCEPT ![w] = fresh]
  /\ pel' = pel \cup ToSet(fresh)
  /\ fresh' = <<>>
  /\ UNCHANGED <<run, ledger, client, group, co, torn, faults>>

\* XAUTOCLAIM after a read that found nothing: whatever has been pending for long
\* enough, whoever read it (here in any order).
AutoClaim(w) ==
  /\ Reading(w) /\ group /\ fresh = <<>>
  /\ \E old \in SUBSET pel \ {{}} : \E frames \in SetToSeqs(old) :
       queue' = [queue EXCEPT ![w] = frames]
  /\ UNCHANGED <<run, ledger, client, group, fresh, pel, co, torn, faults>>

\* The stream is gone: NOGROUP makes the subscription create it again, any other
\* error of the blocked read ends the listener.
GroupMissing(w) ==
  /\ Reading(w)
  /\ ~group
  /\ \/ group' = TRUE /\ UNCHANGED co
     \/ /\ torn
        /\ co' = [co EXCEPT ![w]["lst"] = Off]
        /\ UNCHANGED group
  /\ UNCHANGED <<run, ledger, client, fresh, pel, queue, torn, faults>>

\* record_control_delivery of the next frame: only the first delivery of an admitted
\* command of an open run goes on to be applied.
Record_Twice(w) ==
  /\ At(w, "lst", "idle") /\ queue[w] # <<>>
  /\ LET c == Head(queue[w])[1] IN
     /\ ledger' = IF Open THEN [ledger EXCEPT ![c] = "persisted"] ELSE ledger
     /\ Start(w, "lst", c, IF Open THEN "ack" ELSE "drop")
  /\ UNCHANGED <<run, client, stream, torn, faults>>

Record(w) ==
  /\ At(w, "lst", "idle") /\ queue[w] # <<>>
  /\ LET c == Head(queue[w])[1] IN
     \/ /\ Open /\ ledger[c] = "admitted"
        /\ ledger' = [ledger EXCEPT ![c] = "persisted"]
        /\ Start(w, "lst", c, "ack")
     \/ /\ ~Open \/ ledger[c] # "admitted"
        /\ Start(w, "lst", c, "drop")
        /\ UNCHANGED ledger
  /\ UNCHANGED <<run, client, stream, torn, faults>>

\* XACK: the frame leaves the pending entries, whoever claimed it meanwhile.
Ack(w) ==
  /\ At(w, "lst", "ack") \/ At(w, "lst", "drop")
  /\ pel' = pel \ {Head(queue[w])}
  /\ queue' = [queue EXCEPT ![w] = Tail(@)]
  /\ IF At(w, "lst", "ack") THEN Goto(w, "lst", "apply") ELSE Done(w, "lst")
  /\ UNCHANGED <<run, ledger, client, group, fresh, torn, faults>>

-----------------------------------------------------------------------------
(* _reapply_pending_control: each persisted command, as the scan listed it *)

Pending_Admitted == {c \in Cmd : ledger[c] = "admitted"}
Pending == {c \in Cmd : Open /\ ledger[c] = "persisted"}

Scan(w, c) ==
  /\ At(w, "beat", "idle")
  /\ c \in Pending
  /\ Start(w, "beat", c, "listed")
  /\ UNCHANGED <<run, ledger, client, stream, torn, faults>>

Reapply(w) ==
  /\ At(w, "beat", "listed")
  /\ Goto(w, "beat", IF Open THEN "apply" ELSE "superseded")
  /\ UNCHANGED <<run, ledger, client, stream, torn, faults>>

-----------------------------------------------------------------------------
(* _apply_recorded_control, in the listener or in the scan *)

\* add_steer reads the row first and inserts with another connection; any storage
\* error on the way is logged and the command counts as applied.
SteerRead(w, k) ==
  /\ At(w, k, "apply")
  /\ CmdOf(w, k) \in Steers
  /\ \/ Goto(w, k, IF Open THEN "insert" ELSE "applied") /\ UNCHANGED faults
     \/ /\ faults < MaxFault
        /\ faults' = faults + 1
        /\ Goto(w, k, "applied")
  /\ UNCHANGED <<run, ledger, client, stream, torn>>

\* ON CONFLICT (run_id, message_id) DO NOTHING
SteerInsert_Always(w, k) ==
  LET c == CmdOf(w, k) IN
  /\ At(w, k, "insert")
  /\ Took(c)
  /\ Goto(w, k, "applied")
  /\ UNCHANGED <<outcome, accepted, ledger, client, stream, torn, faults>>

SteerInsert(w, k) ==
  LET c == CmdOf(w, k) IN
  /\ At(w, k, "insert")
  /\ IF effect[c] = 0 THEN Took(c) ELSE UNCHANGED effect
  /\ Goto(w, k, "applied")
  /\ UNCHANGED <<outcome, accepted, ledger, client, stream, torn, faults>>

\* A started entry of the delivery journal defers the cancel: the persisted command
\* is retried by the next scan.
CancelDeferred(w, k) ==
  /\ At(w, k, "apply")
  /\ CmdOf(w, k) \in Cancels
  /\ Open
  /\ Done(w, k)
  /\ UNCHANGED <<run, ledger, client, stream, torn, faults>>

\* finalize_terminal under Cancel authority: commit the run and the command
\* together, replay the own commit, or lose.
CancelCommit_NoReceipt(w, k) ==
  LET c == CmdOf(w, k) IN
  /\ At(w, k, "apply")
  /\ c \in Cancels
  /\ Open
  /\ outcome' = c
  /\ Took(c)
  /\ Goto(w, k, "teardown")
  /\ UNCHANGED <<accepted, ledger, client, stream, torn, faults>>

CancelCommit(w, k) ==
  LET c == CmdOf(w, k) IN
  /\ At(w, k, "apply")
  /\ c \in Cancels
  /\ \/ /\ Open /\ ledger[c] = "persisted"
        /\ outcome' = c
        /\ ledger' = [ledger EXCEPT ![c] = "succeeded"]
        /\ Took(c)
        /\ Goto(w, k, "teardown")
     \/ /\ ~Open /\ ledger[c] = "succeeded"
        /\ Goto(w, k, "teardown")
        /\ UNCHANGED <<outcome, ledger, effect>>
     \/ /\ IF Open THEN ledger[c] # "persisted" ELSE ledger[c] # "succeeded"
        /\ Goto(w, k, "lost")
        /\ UNCHANGED <<outcome, ledger, effect>>
  /\ UNCHANGED <<accepted, client, stream, torn, faults>>

\* The lost cancel of an open run waits for the next scan; that of a terminal run
\* is to be superseded.
CancelLost(w, k) ==
  /\ At(w, k, "lost")
  /\ IF Open THEN Done(w, k) ELSE Goto(w, k, "superseded")
  /\ UNCHANGED <<run, ledger, client, stream, torn, faults>>

Supersede(w, k) ==
  LET c == CmdOf(w, k) IN
  /\ \/ At(w, k, "superseded") /\ UpdateStatus(c, "superseded") /\ Goto(w, k, "refused")
     \/ At(w, k, "refused") /\ UpdateCommand(c, "failed") /\ Goto(w, k, "settled")
     \/ At(w, k, "settled") /\ Done(w, k) /\ UNCHANGED ledger
  /\ UNCHANGED <<run, client, stream, torn, faults>>

\* _on_resume: not for a terminal run; else accept_resume.
ResumeCheck(w, k) ==
  /\ At(w, k, "apply")
  /\ CmdOf(w, k) \in Resumes
  /\ Goto(w, k, IF Open THEN "accept" ELSE "context")
  /\ UNCHANGED <<run, ledger, client, stream, torn, faults>>

\* The pause is won once; the winner's replay changes nothing, any other resume is
\* a conflict.
ResumeAccept_Again(w, k) ==
  LET c == CmdOf(w, k) IN
  /\ At(w, k, "accept")
  /\ Open
  /\ accepted' = c
  /\ Took(c)
  /\ Goto(w, k, "context")
  /\ UNCHANGED <<outcome, ledger, client, stream, torn, faults>>

ResumeAccept_LoserJoins(w, k) ==
  LET c == CmdOf(w, k) IN
  /\ At(w, k, "accept")
  /\ IF Open /\ accepted = "none"
     THEN accepted' = c /\ Took(c) ELSE UNCHANGED <<accepted, effect>>
  /\ Goto(w, k, "applied")
  /\ UNCHANGED <<outcome, ledger, client, stream, torn, faults>>

ResumeAccept(w, k) ==
  LET c == CmdOf(w, k) IN
  /\ At(w, k, "accept")
  /\ \/ /\ accepted = c
        /\ Goto(w, k, "context")
        /\ UNCHANGED <<accepted, effect>>
     \/ /\ Open /\ accepted = "none"
        /\ accepted' = c
        /\ Took(c)
        /\ Goto(w, k, "context")
     \/ /\ accepted # c
        /\ ~Open \/ accepted # "none"
        /\ Goto(w, k, "conflict")
        /\ UNCHANGED <<accepted, effect>>
  /\ UNCHANGED <<outcome, ledger, client, stream, torn, faults>>

ResumeConflict(w, k) ==
  /\ At(w, k, "conflict")
  /\ UpdateCommand(CmdOf(w, k), "failed")
  /\ Goto(w, k, "context")
  /\ UNCHANGED <<run, client, stream, torn, faults>>

\* read_resume_context: a resume without an intent has failed.
ResumeContext(w, k) ==
  /\ At(w, k, "context")
  /\ Goto(w, k, IF accepted = CmdOf(w, k) THEN "applied" ELSE "nothing")
  /\ UNCHANGED <<run, ledger, client, stream, torn, faults>>

ResumeNothing(w, k) ==
  /\ At(w, k, "nothing")
  /\ UpdateCommand(CmdOf(w, k), "failed")
  /\ Done(w, k)
  /\ UNCHANGED <<run, client, stream, torn, faults>>

MarkApplied(w, k) ==
  /\ At(w, k, "applied")
  /\ UpdateStatus(CmdOf(w, k), "applied")
  /\ Goto(w, k, "succeeded")
  /\ UNCHANGED <<run, client, stream, torn, faults>>

MarkSucceeded(w, k) ==
  /\ At(w, k, "succeeded")
  /\ UpdateCommand(CmdOf(w, k), "succeeded")
  /\ Done(w, k)
  /\ UNCHANGED <<run, client, stream, torn, faults>>

-----------------------------------------------------------------------------
(* The end of the run *)

\* The agent task, or a failed build, commits the terminal.
ExecutorTerminal(w) ==
  /\ Open
  /\ At(w, "exec", "idle")
  /\ outcome' = "executor"
  /\ Goto(w, "exec", "teardown")
  /\ UNCHANGED <<accepted, effect, ledger, client, stream, torn, faults>>

\* _teardown_control: delete the stream, then stop the own listener, which may be
\* the caller.
Teardown_KeepsListener(w, k) ==
  /\ At(w, k, "teardown")
  /\ group' = FALSE /\ torn' = TRUE
  /\ fresh' = <<>> /\ pel' = {}
  /\ queue' = [queue EXCEPT ![w] = <<>>]
  /\ Done(w, k)
  /\ UNCHANGED <<run, ledger, client, faults>>

Teardown(w, k) ==
  /\ At(w, k, "teardown")
  /\ group' = FALSE
  /\ fresh' = <<>>
  /\ pel' = {}
  /\ queue' = [queue EXCEPT ![w] = <<>>]
  /\ torn' = TRUE
  /\ co' = [co EXCEPT ![w] = [j \in Coroutine |->
              CASE j = "lst" -> Off
                [] j = k /\ k # "lst" -> Idle
                [] OTHER -> co[w][j]]]
  /\ UNCHANGED <<run, ledger, client, faults>>

\* The process dies: what it read and did not acknowledge stays in the stream.
Crash(w) ==
  /\ faults < MaxFault
  /\ faults' = faults + 1
  /\ co' = [co EXCEPT ![w] = [k \in Coroutine |-> IF k = "lst" THEN Off ELSE Idle]]
  /\ queue' = [queue EXCEPT ![w] = <<>>]
  /\ UNCHANGED <<run, ledger, client, group, fresh, pel, torn>>

-----------------------------------------------------------------------------

Ingress(c) == Admit(c) \/ Publish(c) \/ PublishFailed(c)

Deliver(w) ==
  GroupMissing(w) \/ Read(w) \/ AutoClaim(w) \/ Record(w) \/ Ack(w)

Apply(w, k) ==
  \/ SteerRead(w, k) \/ SteerInsert(w, k)
  \/ CancelDeferred(w, k) \/ CancelCommit(w, k) \/ CancelLost(w, k) \/ Supersede(w, k)
  \/ ResumeCheck(w, k) \/ ResumeAccept(w, k) \/ ResumeConflict(w, k)
  \/ ResumeContext(w, k) \/ ResumeNothing(w, k)
  \/ MarkApplied(w, k) \/ MarkSucceeded(w, k) \/ Teardown(w, k)

Heartbeat(w) == Reapply(w) \/ \E c \in Cmd : Scan(w, c)

\* Nobody asks anything any more and all coroutines wait.
Quiet ==
  /\ \A c \in Cmd : req[c] = "idle" /\ asked[c] = MaxAsk
  /\ \A w \in Worker, k \in Coroutine : At(w, k, "off") \/ At(w, k, "idle")
  /\ UNCHANGED vars

Next ==
  \/ Quiet
  \/ \E c \in Cmd : Ingress(c)
  \/ \E w \in Worker :
       \/ Listen(w) \/ Unlisten(w) \/ Deliver(w) \/ Heartbeat(w)
       \/ ExecutorTerminal(w) \/ Crash(w)
       \/ \E k \in Coroutine : Apply(w, k)

Spec == Init /\ [][Next]_vars

\* Coroutines of a worker that is up go on, requests are answered, and a cancel
\* tried again and again finds the delivery journal settled once; nothing forces
\* the run to end or a client to ask.
Fairness ==
  /\ \A c \in Cmd : WF_vars(Publish(c) \/ PublishFailed(c))
  /\ \A w \in Worker :
       /\ WF_vars(Deliver(w))
       /\ WF_vars(Heartbeat(w))
       /\ \A k \in Coroutine : WF_vars(Apply(w, k)) /\ SF_vars(CancelCommit(w, k))

FairSpec == Spec /\ Fairness

-----------------------------------------------------------------------------
(* Properties *)

\* A cancel is receipted as succeeded exactly when it decided the outcome: whatever
\* races it (another cancel, the agent's own end, a replay of itself), the client is
\* never told of a cancellation that did not happen, nor left untold of its own.
CancelDecidesOutcome == \A c \in Cancels : ledger[c] = "succeeded" <=> outcome = c

\* The listener of any worker, a redelivered frame and every heartbeat may apply
\* the same command: it takes effect once.
OneEffect == \A c \in Cmd : effect[c] <= 1

\* A resume or cancel receipted as succeeded did take effect, and of the resumes
\* for one pause only one does.
SucceededIsReal ==
  /\ \A c \in Cancels \cup Resumes :
       ledger[c] \in {"applied", "succeeded"} => effect[c] = 1
  /\ Cardinality({c \in Resumes : effect[c] > 0}) <= 1

\* The final status a client was told never changes, although ingress retries,
\* listeners and scans all write it.
FinalIsStable ==
  [][\A c \in Cmd : ledger[c] \in {"succeeded", "failed", "superseded"} => ledger'[c] = ledger[c]]_vars

\* An admitted command of an open run whose request is answered still has a frame
\* that will be read: no crash between read, record and acknowledge loses it.
FrameSurvives ==
  \A c \in Cmd :
    Open /\ ledger[c] = "admitted" /\ req[c] = "idle" =>
      \E f \in ToSet(fresh) \cup pel : f[1] = c

\* A recorded command is decided or overtaken by the end of the run: the scan
\* finishes what a dead listener left.
RecordedIsDecided ==
  \A c \in Cmd :
    ledger[c] = "persisted" ~> ledger[c] \in {"applied", "succeeded", "failed"} \/ ~Open

-----------------------------------------------------------------------------
(* What comments say and the code does not do *)

\* supervisor_recovery.py: a persisted command of a terminal run is stale and
\* becomes superseded; both status updates are refused on a terminal run.
SupersededIsReceipted ==
  \A w \in Worker, k \in Coroutine :
    At(w, k, "settled") => ledger[CmdOf(w, k)] = "superseded"

\* supervisor_control.py and its test: a listener adopted by another worker ends
\* when the teardown elsewhere deletes the stream.
TeardownEndsListeners == torn ~> \A w \in Worker : At(w, "lst", "off")
=============================================================================
