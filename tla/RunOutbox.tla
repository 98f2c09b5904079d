----------------------------- MODULE RunOutbox -----------------------------
(***************************************************************************)
(* The durable facts of one run: the outbox of critical frames, the chat   *)
(* events, the receipts of the session that reads the frames, the journal  *)
(* of its deliver calls, and the transaction that ends the run.            *)
(*                                                                         *)
(* Executors (one per lease generation) and the cancel handler emit and    *)
(* finalize; the heartbeat republishes queued frames and reconciles the    *)
(* receipts.  An action is one database transaction or one call to Redis:  *)
(* between two of them anybody else may move.  Who holds the lease is      *)
(* RunLifecycle's matter; here it expires and is taken over at any time.   *)
(*                                                                         *)
(* Bounds of the instance: MaxGen generations, MaxSeq durable frames, and  *)
(* Budgets, the mixes of what may happen: takeovers, a cancel, ordinary     *)
(* events, faults, rejections.                                             *)
(***************************************************************************)
EXTENDS Naturals, FiniteSets

CONSTANTS Tools,        \* the deliver calls of the run, by tool_call_id
          MaxGen, MaxSeq,
          Budgets       \* set of [claim, cancel, delta, fault, reject]

ASSUME OutboxBounds ==
    /\ IsFiniteSet(Tools)
    /\ MaxGen \in Nat \ {0} /\ MaxSeq \in Nat \ {0}
    /\ Budgets \subseteq [claim : Nat, cancel : Nat, delta : Nat, fault : Nat, reject : Nat]

VARIABLES
    run,      \* the claims row: generation, lease, counters, terminal fence
    out,      \* run_outbox: durable_seq -> frame
    ledger,   \* the receipt manifest: consumed_seq, producer_close_requested
    receipt,  \* run_receipts, written by the session that consumes the frames
    journal,  \* tool_journal rows of the deliver calls
    chat,     \* the chat events of the run, and the latest of them
    wire,     \* the durable_seqs published to Redis at least once
    act,      \* the emitters: executor g of generation g, and the canceller
    rep,      \* a heartbeat's republication pass
    nack,     \* the rejected seq a heartbeat has read, 0 if none
    cmd,      \* the status of the recorded cancel command
    budget    \* how many of each are left

outboxVars == <<run, out, ledger, receipt, journal, chat, wire, act, rep, nack,
                cmd, budget>>

Canceller == 0
Executors == 1..MaxGen
Actors    == {Canceller} \cup Executors
Seqs      == 1..MaxSeq

NoFact  == [kind |-> "none", tool |-> "none", idx |-> 0]
NoFrame == [kind |-> "none", tool |-> "none", status |-> "none", idx |-> 0]
Idle    == [pc |-> "idle", gen |-> 0, snap |-> {}, todo |-> {}, at |-> 0,
            new |-> FALSE, then |-> "work"]
Live(s) == out[s].status \in {"queued", "published"}
Succeeded == {t \in Tools : journal[t] = "succeeded"}
Snapshot  == {<<t, journal[t]>> : t \in {u \in Tools : journal[u] # "none"}}
InFlight  == \E t \in Tools : journal[t] = "started"
Ended     == {e \in chat.events : e.kind = "terminal"}

FactType == [kind : {"none", "started", "delivery", "terminal", "interaction", "delta"},
             tool : Tools \cup {"none"}, idx : Nat]

SnapType == SUBSET (Tools \X {"started", "succeeded", "failed"})
EmitterType ==
    [pc : {"idle", "start", "work", "chat", "publish", "mark", "delta", "ensure",
           "fence", "each", "final", "dead"},
     gen : 0..(MaxGen + 1), snap : SnapType,
     todo : SUBSET Tools, at : Nat, new : BOOLEAN, then : {"work", "each"}]

OutboxTypeOK ==
    /\ run \in [gen : 1..(MaxGen + 1), live : BOOLEAN, durable : 0..MaxSeq,
                index : Nat, fence : 0..MaxSeq,
                terminal : {"none", "end", "cancel", "quarantine"}]
    /\ out \in [Seqs -> [kind : {"none", "started", "delivery", "receipt", "terminal"},
                         tool : Tools \cup {"none"}, idx : Nat,
                         status : {"none", "queued", "published", "superseded", "gone"}]]
    /\ ledger \in [consumed : 0..MaxSeq, close : BOOLEAN]
    /\ receipt \in [Seqs -> {"none", "persisted", "rejected"}]
    /\ journal \in [Tools -> {"none", "started", "succeeded", "failed"}]
    /\ chat \in [events : SUBSET FactType, last : FactType]
    /\ wire \subseteq Seqs /\ nack \in 0..MaxSeq
    /\ cmd \in {"none", "persisted", "succeeded", "superseded"}
    /\ act \in [Actors -> EmitterType]
    /\ rep \in [pc : {"idle", "next", "mark"}, list : SUBSET Seqs]

OutboxInit ==
    /\ run = [gen |-> 1, live |-> TRUE, durable |-> 0, index |-> 0, fence |-> 0,
              terminal |-> "none"]
    /\ out = [s \in Seqs |-> NoFrame]
    /\ ledger = [consumed |-> 0, close |-> FALSE]
    /\ receipt = [s \in Seqs |-> "none"]
    /\ journal = [t \in Tools |-> "none"]
    /\ chat = [events |-> {}, last |-> NoFact] /\ wire = {} /\ nack = 0 /\ cmd = "none"
    /\ act = [a \in Actors |-> IF a = 1 THEN [Idle EXCEPT !.pc = "start", !.gen = 1]
                                        ELSE Idle]
    /\ rep = [pc |-> "idle", list |-> {}]
    /\ budget \in Budgets

-----------------------------------------------------------------------------
(* The claims row: the lease and the two fences the writes ask for.        *)

Active(a)  == run.gen = act[a].gen /\ run.live /\ run.terminal = "none"
Current(a) == run.gen = act[a].gen

\* The lease ends: it expires, or a pause gives it up (bounded with the claims).
LeaseEnds ==
    /\ run.live /\ budget.claim > 0
    /\ run' = [run EXCEPT !.live = FALSE]
    /\ UNCHANGED <<out, ledger, receipt, journal, chat, wire, act, rep, nack, cmd, budget>>

\* A later generation claims the run: a reclaimed launch starts over and says
\* so again, an accepted resume continues the native work.
TakeOver ==
    /\ ~run.live /\ run.terminal = "none" /\ run.gen < MaxGen /\ budget.claim > 0
    /\ budget' = [budget EXCEPT !.claim = @ - 1]
    /\ run' = [run EXCEPT !.gen = @ + 1, !.live = TRUE]
    /\ \E pc \in {"start", "work"} :
        act' = [act EXCEPT ![run.gen + 1] = [Idle EXCEPT !.pc = pc, !.gen = run.gen + 1]]
    /\ UNCHANGED <<out, ledger, receipt, journal, chat, wire, rep, nack, cmd>>

-----------------------------------------------------------------------------
(* The journal of a deliver call, written under the active lease.          *)

Native(a) == a \in Executors /\ act[a].then = "work"
             /\ act[a].pc \in {"work", "delta", "chat", "publish", "mark"}

JournalToolStarted(a, t) ==
    /\ Native(a) /\ Active(a) /\ journal[t] = "none"
    /\ journal' = [journal EXCEPT ![t] = "started"]
    /\ UNCHANGED <<run, out, ledger, receipt, chat, wire, act, rep, nack, cmd, budget>>

JournalToolFinished(a, t) ==
    /\ Native(a) /\ Active(a) /\ journal[t] = "started"
    /\ \E s \in {"succeeded", "failed"} : journal' = [journal EXCEPT ![t] = s]
    /\ UNCHANGED <<run, out, ledger, receipt, chat, wire, act, rep, nack, cmd, budget>>

-----------------------------------------------------------------------------
(* Chat: one event per (run, source_index), appended once.                 *)

Fact(s) == [kind |-> out[s].kind, tool |-> out[s].tool, idx |-> out[s].idx]
Stored(i) == \E e \in chat.events : e.idx = i
Appended(e) == IF Stored(e.idx) THEN chat ELSE [events |-> chat.events \cup {e}, last |-> e]

\* terminal_chat: what verify_terminal_frame demands of the retained frame.
TerminalVerified(s) ==
    /\ run.terminal # "none" /\ s = run.fence /\ Live(s)
    /\ out[s].idx + 1 = run.index
    /\ Fact(s) \in chat.events

-----------------------------------------------------------------------------
(* RunEmitter.emit: stage, chat, publish, mark.                            *)

\* What follows an emission: the native work, or the next delivery to ensure.
Continue(a, t) == [act EXCEPT ![a].pc = act[a].then, ![a].at = 0, ![a].new = FALSE,
                              ![a].todo = @ \ {t}]
InHand(a) == out[act[a].at].tool
\* An exception: the executor's task ends, the cancel is tried again later.
Raise(a) == [act EXCEPT ![a] = IF a = Canceller THEN Idle
                               ELSE [Idle EXCEPT !.pc = "dead", !.gen = a]]

\* The rows stage_critical_frame finds again instead of staging a new one.
Found(kind, t) == {s \in Seqs : /\ out[s].kind = kind /\ out[s].tool = t
                                /\ out[s].status # "gone"
                                /\ kind = "started" => Live(s)}
MayStage(a, kind) == IF kind = "started" THEN Active(a) ELSE Current(a)

\* A frame behind the fence takes a seq and no index.
Behind_TakesIndex(s) == [run EXCEPT !.durable = s, !.index = @ + 1]
Behind(s) == [run EXCEPT !.durable = s]

\* stage_critical_frame: what exists is found again, what comes after the
\* fence is stored superseded, anything else gets the next seq and index.
StageRefused(a, kind, t) ==
    /\ ~MayStage(a, kind)
    /\ act' = IF kind = "started" THEN Raise(a) ELSE Continue(a, t)
    /\ UNCHANGED <<run, out>>

StageFound(a, kind, t) ==
    /\ MayStage(a, kind)
    /\ \E r \in Found(kind, t) :
        act' = CASE out[r].status = "superseded" -> Raise(a)
                 [] out[r].status = "published"  -> Continue(a, t)
                 [] out[r].status = "queued"     -> [act EXCEPT ![a].pc = "chat", ![a].at = r]
    /\ UNCHANGED <<run, out>>

StageNew(a, kind, t) ==
    LET s == run.durable + 1
    IN  /\ MayStage(a, kind) /\ Found(kind, t) = {} /\ s <= MaxSeq
        /\ IF run.fence # 0 /\ s > run.fence
           THEN /\ run' = Behind(s)
                /\ out' = [out EXCEPT ![s] = [kind |-> kind, tool |-> t,
                                              status |-> "superseded", idx |-> 0]]
                /\ act' = Continue(a, t)
           ELSE /\ run' = [run EXCEPT !.durable = s, !.index = @ + 1]
                /\ out' = [out EXCEPT ![s] = [kind |-> kind, tool |-> t,
                                              status |-> "queued", idx |-> run.index]]
                /\ act' = [act EXCEPT ![a].pc = "chat", ![a].at = s, ![a].new = TRUE]

Stage(a, kind, t) == StageRefused(a, kind, t) \/ StageFound(a, kind, t) \/ StageNew(a, kind, t)

\* invoke_once: the initial invocation announces the run before anything else.
EmitStarted(a) ==
    /\ act[a].pc = "start"
    /\ Stage(a, "started", "none")
    /\ UNCHANGED <<ledger, receipt, journal, chat, wire, rep, nack, cmd, budget>>

\* The native projection reports a delivery that succeeded.
EmitDelivery(a, t) ==
    /\ act[a].pc = "work" /\ t \in Succeeded
    /\ Stage(a, "delivery", t)
    /\ UNCHANGED <<ledger, receipt, journal, chat, wire, rep, nack, cmd, budget>>

\* _persist_chat of a critical frame: append, not fenced.
PersistChat(a) ==
    /\ act[a].pc = "chat"
    /\ chat' = Appended(Fact(act[a].at))
    /\ act' = IF act[a].new THEN [act EXCEPT ![a].pc = "publish"] ELSE Continue(a, InHand(a))
    /\ UNCHANGED <<run, out, ledger, receipt, journal, wire, rep, nack, cmd, budget>>

PublishEvent(a) ==
    /\ act[a].pc = "publish"
    /\ wire' = wire \cup {act[a].at}
    /\ act' = [act EXCEPT ![a].pc = "mark"]
    /\ UNCHANGED <<run, out, ledger, receipt, journal, chat, rep, nack, cmd, budget>>

Marked(s) == IF out[s].status = "queued" THEN [out EXCEPT ![s].status = "published"] ELSE out

MarkPublished(a) ==
    /\ act[a].pc = "mark"
    /\ out' = Marked(act[a].at)
    /\ act' = Continue(a, InHand(a))
    /\ UNCHANGED <<run, ledger, receipt, journal, chat, wire, rep, nack, cmd, budget>>

\* The database or Redis fails: what a publication of a delivery swallows and
\* everything else raises.  The publication may have reached the stream.
EmitFails(a) ==
    /\ act[a].pc \in {"start", "chat", "publish", "mark", "each", "final"}
    /\ budget.fault > 0
    /\ budget' = [budget EXCEPT !.fault = @ - 1]
    /\ act' = IF act[a].pc = "publish" /\ out[act[a].at].kind = "delivery"
              THEN Continue(a, InHand(a)) ELSE Raise(a)
    /\ wire' \in IF act[a].pc = "publish" THEN {wire, wire \cup {act[a].at}} ELSE {wire}
    /\ UNCHANGED <<run, out, ledger, receipt, journal, chat, rep, nack, cmd>>

\* The process of an executor dies in its native work.
ExecutorDies(a) ==
    /\ a \in Executors /\ act[a].pc \in {"work", "delta"} /\ budget.fault > 0
    /\ budget' = [budget EXCEPT !.fault = @ - 1]
    /\ act' = Raise(a)
    /\ UNCHANGED <<run, out, ledger, receipt, journal, chat, wire, rep, nack, cmd>>

\* reserve_event_index of an ordinary event, then append_fenced of its fact.
ReserveIndex(a) ==
    /\ act[a].pc = "work" /\ budget.delta > 0
    /\ budget' = [budget EXCEPT !.delta = @ - 1]
    /\ IF Active(a)
       THEN /\ run' = [run EXCEPT !.index = @ + 1]
            /\ act' = [act EXCEPT ![a].pc = "delta", ![a].at = run.index]
       ELSE run' = run /\ act' = Raise(a)
    /\ UNCHANGED <<out, ledger, receipt, journal, chat, wire, rep, nack, cmd>>

AppendFenced(a) ==
    /\ act[a].pc = "delta"
    /\ IF Active(a)
       THEN /\ chat' = Appended([kind |-> "delta", tool |-> "none", idx |-> act[a].at])
            /\ act' = Continue(a, "none")
       ELSE chat' = chat /\ act' = Raise(a)
    /\ UNCHANGED <<run, out, ledger, receipt, journal, wire, rep, nack, cmd, budget>>

-----------------------------------------------------------------------------
(* The barrier before a terminal: ensure_delivery_events, the snapshot of  *)
(* the journal, finalize_terminal.                                         *)

\* The native work is over (or failed): the executor turns to its terminal.
Drain(a) ==
    /\ a \in Executors /\ act[a].pc = "work"
    /\ act' = [act EXCEPT ![a].pc = "ensure"]
    /\ UNCHANGED <<run, out, ledger, receipt, journal, chat, wire, rep, nack, cmd, budget>>

\* A cancel is recorded, and _on_cancel takes its snapshot.
RecordCancel ==
    /\ cmd = "none" /\ cmd' = "persisted" /\ budget.cancel > 0
    /\ budget' = [budget EXCEPT !.cancel = @ - 1]
    /\ UNCHANGED <<run, out, ledger, receipt, journal, chat, wire, act, rep, nack>>

CancelSnapshot ==
    /\ cmd = "persisted" /\ act[Canceller].pc = "idle" /\ ~InFlight
    /\ act' = [act EXCEPT ![Canceller] = [Idle EXCEPT !.pc = "fence", !.snap = Snapshot]]
    /\ UNCHANGED <<run, out, ledger, receipt, journal, chat, wire, rep, nack, cmd, budget>>

CancelFence ==
    /\ act[Canceller].pc = "fence"
    /\ act' = [act EXCEPT ![Canceller].pc = "ensure", ![Canceller].gen = run.gen]
    /\ UNCHANGED <<run, out, ledger, receipt, journal, chat, wire, rep, nack, cmd, budget>>

\* list_delivery_journal: a call without a result ends the attempt.
EnsureDeliveries(a) ==
    /\ act[a].pc = "ensure"
    /\ act' = IF InFlight THEN Raise(a)
              ELSE [act EXCEPT ![a].pc = "each", ![a].then = "each", ![a].todo = Succeeded]
    /\ UNCHANGED <<run, out, ledger, receipt, journal, chat, wire, rep, nack, cmd, budget>>

EnsureOne(a) ==
    /\ act[a].pc = "each"
    /\ \E t \in act[a].todo : Stage(a, "delivery", t)
    /\ UNCHANGED <<ledger, receipt, journal, chat, wire, rep, nack, cmd, budget>>

\* An executor reads the journal again for its snapshot; the cancel keeps the
\* one it took first.
EnsureDone(a) ==
    /\ act[a].pc = "each" /\ act[a].todo = {}
    /\ act' = [act EXCEPT ![a].pc = "final",
                          ![a].snap = IF a = Canceller THEN @ ELSE Snapshot]
    /\ UNCHANGED <<run, out, ledger, receipt, journal, chat, wire, rep, nack, cmd, budget>>

\* delivery_ready_on_cursor: the journal is the snapshot's, nothing is in
\* flight, and every success has its live frame and its chat event.
Delivered(t) == \E s \in Seqs : /\ Live(s) /\ out[s].kind = "delivery" /\ out[s].tool = t
                                /\ Fact(s) \in chat.events
DeliveryReady(snap) == snap = Snapshot /\ ~InFlight /\ \A t \in Succeeded : Delivered(t)

\* A receipt that rejects a frame which the outbox still has.
Nacked == {s \in Seqs : receipt[s] = "rejected" /\ out[s].status # "gone"}

\* The public facts of a terminal: the started facts are restored, an open
\* interaction is closed, the terminal event is the last.
RestoreStarted_Not == chat.events
RestoreStarted ==
    chat.events \cup {Fact(s) : s \in {r \in Seqs : /\ Live(r) /\ out[r].kind = "started"
                                                    /\ ~Stored(out[r].idx)}}

IndexAfter_Kept(index) == index
IndexAfter(index) == index + 1

\* The terminal frame is the last one, after the receipt of a cancel.
CommitTerminal(how, closing) ==
    LET front == IF how = "cancel" THEN 1 ELSE 0
        seq   == run.durable + front + 1
        index == run.index + front + closing
        event(kind, i) == [kind |-> kind, tool |-> "none", idx |-> i]
    IN  /\ seq <= MaxSeq
        /\ out' = [s \in Seqs |->
             CASE s = seq -> [kind |-> "terminal", tool |-> "none", status |-> "queued", idx |-> index]
               [] s > run.durable /\ s < seq ->
                    [kind |-> "receipt", tool |-> "none", status |-> "queued", idx |-> run.index]
               [] OTHER -> out[s]]
        /\ chat' = [events |-> RestoreStarted \cup {event("terminal", index)}
                       \cup IF closing = 1 THEN {event("interaction", index - 1)} ELSE {},
                    last |-> event("terminal", index)]
        /\ run' = [run EXCEPT !.durable = seq, !.index = IndexAfter(index), !.fence = seq,
                              !.terminal = how, !.live = FALSE,
                              !.gen = IF how = "cancel" THEN @ + 1 ELSE @]

\* finalize_terminal with the authority of an executor.
FinalizeExecution(a) ==
    /\ a \in Executors /\ act[a].pc = "final"
    /\ IF Active(a) /\ run.fence = 0 /\ Nacked = {} /\ DeliveryReady(act[a].snap)
       THEN \E closing \in {0, 1} : CommitTerminal("end", closing)
       ELSE UNCHANGED <<run, out, chat>>
    /\ act' = [act EXCEPT ![a] = [Idle EXCEPT !.pc = "dead", !.gen = a]]
    /\ UNCHANGED <<ledger, receipt, journal, wire, rep, nack, cmd, budget>>

\* Lost against another terminal the command is superseded.
CancelLost_Retries == run.terminal # "none" /\ UNCHANGED <<run, out, chat, cmd>>
CancelLost == run.terminal # "none" /\ cmd' = "superseded" /\ UNCHANGED <<run, out, chat>>

\* finalize_terminal with the authority of the recorded cancel; when it is
\* deferred, or lost while the run goes on, the command is tried again.
FinalizeCancel ==
    /\ act[Canceller].pc = "final"
    /\ \/ /\ run.terminal = "none" /\ Nacked = {} /\ DeliveryReady(act[Canceller].snap)
          /\ \E closing \in {0, 1} : CommitTerminal("cancel", closing)
          /\ cmd' = "succeeded"
       \/ /\ run.terminal = "none" /\ ~(Nacked = {} /\ DeliveryReady(act[Canceller].snap))
          /\ UNCHANGED <<run, out, chat, cmd>>
       \/ CancelLost
    /\ act' = [act EXCEPT ![Canceller] = Idle]
    /\ UNCHANGED <<ledger, receipt, journal, wire, rep, nack, budget>>

-----------------------------------------------------------------------------
(* The heartbeat: republication, receipts, quarantine.                     *)

\* list_unpublished_outbox
Unpublished_Terminal == {s \in Seqs : out[s].status = "queued" /\ s = run.fence}
Unpublished == {s \in Seqs : out[s].status = "queued"}

RepublishScan ==
    /\ rep.pc = "idle" /\ Unpublished # {}
    /\ rep' = [pc |-> "next", list |-> Unpublished]
    /\ UNCHANGED <<run, out, ledger, receipt, journal, chat, wire, act, nack, cmd, budget>>

Least(S) == {s \in S : \A r \in S : s <= r}
Blocked  == [pc |-> "idle", list |-> {}]

\* persist_outbox_chat_event: a control receipt has no chat fact.
Restored(s) == IF out[s].kind \in {"receipt", "terminal"} THEN chat
               ELSE Appended(Fact(s))

\* One frame of the pass: its fact is restored (a terminal one only verified),
\* then it is published.  A failure blocks the run for this pass.
RepublishOne ==
    /\ rep.pc = "next"
    /\ \E s \in Least(rep.list) :
        LET verified == out[s].kind = "terminal" => TerminalVerified(s)
        IN  /\ chat' = Restored(s)
            /\ wire' = IF verified THEN wire \cup {s} ELSE wire
            /\ rep' = IF verified THEN [rep EXCEPT !.pc = "mark"] ELSE Blocked
    /\ UNCHANGED <<run, out, ledger, receipt, journal, act, nack, cmd, budget>>

RepublishMark ==
    /\ rep.pc = "mark"
    /\ \E s \in Least(rep.list) :
        LET left == rep.list \ {s}
        IN  /\ out' = Marked(s)
            /\ rep' = [pc |-> IF left = {} THEN "idle" ELSE "next", list |-> left]
    /\ UNCHANGED <<run, ledger, receipt, journal, chat, wire, act, nack, cmd, budget>>

\* The fact may be restored before the publication fails; when only the mark
\* fails the frame will be published again.
RepublishFails ==
    /\ rep.pc # "idle" /\ budget.fault > 0
    /\ budget' = [budget EXCEPT !.fault = @ - 1]
    /\ rep' = Blocked
    /\ \E s \in Least(rep.list) : chat' = IF rep.pc = "mark" THEN chat ELSE Restored(s)
    /\ UNCHANGED <<run, out, ledger, receipt, journal, wire, act, nack, cmd>>

\* The session consumes the published frames in their durable order: not this
\* program's code.
Receive(s) ==
    /\ s \in wire /\ receipt[s] = "none" /\ \A r \in 1..(s - 1) : receipt[r] # "none"
    /\ \/ /\ receipt' = [receipt EXCEPT ![s] = "persisted"] /\ budget' = budget
       \/ /\ budget.reject > 0
          /\ receipt' = [receipt EXCEPT ![s] = "rejected"]
          /\ budget' = [budget EXCEPT !.reject = @ - 1]
    /\ UNCHANGED <<run, out, ledger, journal, chat, wire, act, rep, nack, cmd>>

\* reconcile_receipts without a rejection: advance over the contiguous
\* receipts, delete what was consumed (a delivery only after the terminal),
\* and ask to close once the fence is passed and no frame is left.
Acked_Published(s) == out[s].status = "published"
Acked(s) == receipt[s] = "persisted" /\ Live(s)
Advances(n) ==
    /\ n \in ledger.consumed..MaxSeq
    /\ \A s \in (ledger.consumed + 1)..n : Acked(s)
    /\ n = MaxSeq \/ ~Acked(n + 1)

Collectable_Any(s) == TRUE
Collectable(s) == out[s].kind # "delivery" \/ run.terminal # "none"

ReconcileReceipts ==
    /\ \E s \in Seqs : Live(s)
    /\ \A s \in Seqs : receipt[s] # "rejected"
    /\ \E n \in 0..MaxSeq :
        LET left(s) == Live(s) /\ ~(s <= n /\ Collectable(s))
        IN  /\ Advances(n)
            /\ out' = [s \in Seqs |->
                 IF s <= n /\ out[s].status # "none" /\ Collectable(s)
                 THEN [out[s] EXCEPT !.status = "gone"] ELSE out[s]]
            /\ ledger' = [consumed |-> n,
                          close |-> ledger.close \/ (/\ run.fence # 0 /\ n >= run.fence
                                                     /\ \A s \in Seqs : ~left(s))]
    /\ UNCHANGED <<run, receipt, journal, chat, wire, act, rep, nack, cmd, budget>>

\* reconcile_receipts with a rejection only reports the first one.
ReadRejection ==
    /\ nack = 0 /\ \E s \in Seqs : Live(s)
    /\ \E s \in Seqs : receipt[s] = "rejected"
    /\ nack' \in Least({s \in Seqs : receipt[s] = "rejected"})
    /\ UNCHANGED <<run, out, ledger, receipt, journal, chat, wire, act, rep, cmd, budget>>

\* _terminate_contract_incompatible: the run is quarantined at the rejected
\* frame, unless it ended otherwise: what is at or after it is superseded, the
\* audit row too, and no public fact is written.  (The column index_value is
\* cleared; idx stays here for the emitters that hold the frame in memory.)
Quarantine ==
    /\ nack # 0 /\ nack' = 0
    /\ IF nack \in Nacked /\ run.fence = 0
       THEN /\ run.durable < MaxSeq
            /\ run' = [run EXCEPT !.durable = @ + 1, !.fence = nack, !.live = FALSE,
                                  !.terminal = "quarantine", !.gen = @ + 1]
            /\ out' = [s \in Seqs |->
                CASE s = run.durable + 1 -> [kind |-> "terminal", tool |-> "none",
                                             status |-> "superseded", idx |-> 0]
                  [] s >= nack /\ Live(s) -> [out[s] EXCEPT !.status = "superseded"]
                  [] OTHER -> out[s]]
       ELSE UNCHANGED <<run, out>>
    /\ UNCHANGED <<ledger, receipt, journal, chat, wire, act, rep, cmd, budget>>

-----------------------------------------------------------------------------
Emit(a) ==
    \/ EmitStarted(a) \/ PersistChat(a) \/ PublishEvent(a) \/ MarkPublished(a)
    \/ EnsureDeliveries(a) \/ EnsureOne(a) \/ EnsureDone(a)
Cancel    == CancelSnapshot \/ CancelFence \/ Emit(Canceller) \/ FinalizeCancel
Republish == RepublishScan \/ RepublishOne \/ RepublishMark
Heartbeat == ReconcileReceipts \/ ReadRejection \/ Quarantine

OutboxNext ==
    \/ LeaseEnds \/ TakeOver \/ RecordCancel \/ Cancel
    \/ Republish \/ RepublishFails \/ Heartbeat
    \/ \E a \in Executors : \/ Emit(a) \/ ExecutorDies(a) \/ ReserveIndex(a) \/ AppendFenced(a)
                            \/ Drain(a) \/ FinalizeExecution(a)
                            \/ \E t \in Tools : \/ JournalToolStarted(a, t)
                                                \/ JournalToolFinished(a, t)
                                                \/ EmitDelivery(a, t)
    \/ \E a \in Actors : EmitFails(a)
    \/ \E s \in Seqs : Receive(s)

\* Every heartbeat republishes and reconciles, the recorded cancel is scanned
\* again, and a deliver call that runs under its lease ends (its timeouts).
OutboxFairness ==
    /\ WF_outboxVars(Republish)
    /\ WF_outboxVars(ReadRejection \/ Quarantine)
    /\ WF_outboxVars(Cancel)
    /\ WF_outboxVars(\E a \in Executors, t \in Tools : JournalToolFinished(a, t))

OutboxSpec == OutboxInit /\ [][OutboxNext]_outboxVars /\ OutboxFairness

-----------------------------------------------------------------------------
\* The public end of a run is one chat event, the last one, and it is there
\* exactly when the run ended publicly: no started, delivery or ordinary event
\* that was staged before the end is appended behind it, whoever emits it.
TerminalClosesChat ==
    /\ Ended \subseteq {chat.last}
    /\ Ended # {} <=> run.terminal \in {"end", "cancel"}

\* An index names one fact: a frame and a chat event with the same index are
\* the same fact, so that no append meets an identity conflict, and the
\* retained terminal frame always passes verify_terminal_frame.
OneFactPerIndex ==
    /\ \A s \in Seqs : \A e \in chat.events :
        Live(s) /\ e.idx = out[s].idx => e = Fact(s)
    /\ \A s, r \in Seqs : Live(s) /\ Live(r) /\ out[s].idx = out[r].idx => s = r
    /\ \A s \in Seqs : Live(s) /\ out[s].kind = "terminal" => TerminalVerified(s)

\* A run never ends publicly over a deliver call: none is in flight and every
\* one that succeeded is in the chat.  Until then its frame is not collected,
\* whatever the session has acknowledged.
DeliveriesSurvive ==
    /\ run.terminal \in {"end", "cancel"} =>
        /\ ~InFlight
        /\ \A t \in Succeeded : \E e \in chat.events : e.kind = "delivery" /\ e.tool = t
    /\ run.terminal = "none" => \A s \in Seqs : out[s].kind = "delivery" => Live(s)

\* The producer asks to close only when the session has everything up to the
\* terminal fence, and no frame is deleted that it has not received.
ClosedIsReceived ==
    /\ \A s \in Seqs : out[s].status = "gone" => \A r \in 1..s : receipt[r] = "persisted"
    /\ ledger.close => run.terminal \in {"end", "cancel"} /\ \A s \in Seqs : ~Live(s)

\* Every queued frame is published or superseded in the end: a crash, a failed
\* publication or a blocked pass only delays it.
FramesLeave == <>[](\A s \in Seqs : out[s].status # "queued")

\* A recorded cancel is decided, unless a deliver call was left in flight by an
\* executor that is gone, or a succeeded delivery was superseded: then
\* _on_cancel raises at every scan.
Orphaned == InFlight /\ \A a \in Executors : ~(Native(a) /\ Active(a))
Superseded == \E s \in Seqs : out[s].kind = "delivery" /\ out[s].status = "superseded"
CancelDecided == cmd = "persisted" ~> cmd # "persisted" \/ Orphaned \/ Superseded

\* A run is announced once in its chat (run_agent.py: "the Run-locked outbox
\* deduplicates retries").
StartedOnce == Cardinality({e \in chat.events : e.kind = "started"}) <= 1

\* After the quarantine no critical frame from the rejected one on goes on the
\* wire (supervisor_control.py, _terminate_contract_incompatible).
NothingAfterQuarantine ==
    [][run.terminal = "quarantine" => \A s \in wire' \ wire : s < run.fence]_outboxVars
=============================================================================
