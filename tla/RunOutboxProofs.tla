-------------------------- MODULE RunOutboxProofs --------------------------
(***************************************************************************)
(* The four safety properties of the outbox, for every number of tools,    *)
(* generations and frames and every mix of budgets.  One invariant carries *)
(* them all (OutboxInv); the steps of the model are sorted into the few    *)
(* kinds of change they make to the durable state (OutboxStep), and each   *)
(* kind is shown to keep the invariant.                                    *)
(***************************************************************************)
EXTENDS RunOutbox, TLAPS

USE OutboxBounds DEF OutboxBounds

-----------------------------------------------------------------------------
(* The types.  A generation beyond the last one is only given to a run     *)
(* that has ended, and a row of the outbox has a kind and a status or is   *)
(* not there.                                                              *)

OutboxTyped == /\ OutboxTypeOK
               /\ run.terminal = "none" => run.gen <= MaxGen
               /\ \A s \in Seqs : out[s].kind = "none" <=> out[s].status = "none"

RunType     == [gen : 1..(MaxGen + 1), live : BOOLEAN, durable : 0..MaxSeq,
                index : Nat, fence : 0..MaxSeq,
                terminal : {"none", "end", "cancel", "quarantine"}]
OutboxFrame == [kind : {"none", "started", "delivery", "receipt", "terminal"},
                tool : Tools \cup {"none"}, idx : Nat,
                status : {"none", "queued", "published", "superseded", "gone"}]

\* OutboxTypeOK variable by variable, so that a step needs only those it changes.
RowTyped  == run \in RunType /\ (run.terminal = "none" => run.gen <= MaxGen)
OutTyped  == /\ out \in [Seqs -> OutboxFrame]
             /\ \A s \in Seqs : out[s].kind = "none" <=> out[s].status = "none"
ChatTyped == chat \in [events : SUBSET FactType, last : FactType]
ActTyped  == act \in [Actors -> EmitterType]
RepTyped  == rep \in [pc : {"idle", "next", "mark"}, list : SUBSET Seqs]
RestTyped == /\ ledger \in [consumed : 0..MaxSeq, close : BOOLEAN]
             /\ receipt \in [Seqs -> {"none", "persisted", "rejected"}]
             /\ journal \in [Tools -> {"none", "started", "succeeded", "failed"}]
             /\ wire \subseteq Seqs /\ nack \in 0..MaxSeq
             /\ cmd \in {"none", "persisted", "succeeded", "superseded"}

PartsTyped == RowTyped /\ OutTyped /\ ChatTyped /\ ActTyped /\ RepTyped /\ RestTyped

LEMMA TypedParts == OutboxTyped <=> PartsTyped
BY DEF PartsTyped, OutboxTyped, OutboxTypeOK, RowTyped, OutTyped, ChatTyped, ActTyped, RepTyped,
       RestTyped, RunType, OutboxFrame

LEMMA SnapshotTyped ==
    /\ {} \in SnapType
    /\ RestTyped => Snapshot \in SnapType
BY DEF SnapType, RestTyped, Snapshot

LEMMA IdleTyped ==
    ASSUME NEW pc \in {"start", "work", "dead"}, NEW g \in 0..(MaxGen + 1)
    PROVE  Idle \in EmitterType /\ [Idle EXCEPT !.pc = pc, !.gen = g] \in EmitterType
<1>1. {} \in SUBSET Tools /\ {} \in SnapType /\ 0 \in 0..(MaxGen + 1)
    BY SnapshotTyped
<1> QED  BY <1>1 DEF Idle, EmitterType

LEMMA OutboxInitTyped == OutboxInit => OutboxTyped
<1> SUFFICES ASSUME OutboxInit PROVE OutboxTyped
    OBVIOUS
<1>1. RowTyped
    BY DEF OutboxInit, RowTyped, RunType
<1>2. OutTyped
    BY DEF OutboxInit, OutTyped, OutboxFrame, NoFrame
<1>3. ChatTyped
    BY DEF OutboxInit, ChatTyped, FactType, NoFact
<1>4. ActTyped
  <2>0. 1 \in 0..(MaxGen + 1)
      OBVIOUS
  <2>1. Idle \in EmitterType /\ [Idle EXCEPT !.pc = "start", !.gen = 1] \in EmitterType
      BY <2>0, IdleTyped
  <2> QED  BY <2>1 DEF OutboxInit, ActTyped
<1>5. RepTyped /\ RestTyped
    BY DEF OutboxInit, RepTyped, RestTyped
<1> QED  BY <1>1, <1>2, <1>3, <1>4, <1>5, TypedParts DEF PartsTyped

\* What the emitters' steps leave of an emitter's record.
LEMMA ContinueTyped ==
    ASSUME ActTyped, NEW a \in Actors, NEW t
    PROVE  Continue(a, t) \in [Actors -> EmitterType]
<1>1. [act[a] EXCEPT !.pc = act[a].then, !.at = 0, !.new = FALSE, !.todo = @ \ {t}]
      \in EmitterType
    BY DEF ActTyped, EmitterType
<1>2. Continue(a, t) = [act EXCEPT ![a] = [act[a] EXCEPT !.pc = act[a].then, !.at = 0,
                                           !.new = FALSE, !.todo = @ \ {t}]]
    BY DEF ActTyped, Continue, EmitterType
<1> QED  BY <1>1, <1>2 DEF ActTyped

LEMMA RaiseTyped ==
    ASSUME ActTyped, NEW a \in Actors
    PROVE  Raise(a) \in [Actors -> EmitterType]
<1>1. Idle \in EmitterType /\ [Idle EXCEPT !.pc = "dead", !.gen = a] \in EmitterType
  <2>1. a \in 0..(MaxGen + 1)
      BY DEF Actors, Canceller, Executors
  <2> QED  BY <2>1, IdleTyped
<1> QED  BY <1>1 DEF ActTyped, Raise

\* ... and when it takes a frame in hand.
LEMMA TakenTyped ==
    ASSUME ActTyped, NEW a \in Actors, NEW s \in Nat, NEW pc \in {"chat", "publish", "mark", "delta"},
           NEW new \in BOOLEAN
    PROVE  /\ [act EXCEPT ![a].pc = pc, ![a].at = s] \in [Actors -> EmitterType]
           /\ [act EXCEPT ![a].pc = pc, ![a].at = s, ![a].new = new] \in [Actors -> EmitterType]
<1>1. /\ [act[a] EXCEPT !.pc = pc, !.at = s] \in EmitterType
      /\ [act[a] EXCEPT !.pc = pc, !.at = s, !.new = new] \in EmitterType
    BY DEF ActTyped, EmitterType
<1>2. /\ [act EXCEPT ![a].pc = pc, ![a].at = s]
           = [act EXCEPT ![a] = [act[a] EXCEPT !.pc = pc, !.at = s]]
      /\ [act EXCEPT ![a].pc = pc, ![a].at = s, ![a].new = new]
           = [act EXCEPT ![a] = [act[a] EXCEPT !.pc = pc, !.at = s, !.new = new]]
    BY DEF ActTyped, EmitterType
<1> QED  BY <1>1, <1>2 DEF ActTyped

LEMMA StageTyped ==
    ASSUME OutboxTyped, NEW a \in Actors, NEW kind \in {"started", "delivery"},
           NEW t \in Tools \cup {"none"}, Stage(a, kind, t)
    PROVE  RowTyped' /\ OutTyped' /\ ActTyped'
<1>0. RowTyped /\ OutTyped /\ ActTyped
    BY TypedParts DEF PartsTyped
<1>1. Continue(a, t) \in [Actors -> EmitterType] /\ Raise(a) \in [Actors -> EmitterType]
    BY <1>0, ContinueTyped, RaiseTyped
<1>2. CASE StageRefused(a, kind, t)
    BY <1>0, <1>1, <1>2 DEF StageRefused, RowTyped, OutTyped, ActTyped
<1>3. CASE StageFound(a, kind, t)
  <2>1. PICK r \in Found(kind, t) :
            act' = CASE out[r].status = "superseded" -> Raise(a)
                     [] out[r].status = "published"  -> Continue(a, t)
                     [] out[r].status = "queued"     -> [act EXCEPT ![a].pc = "chat", ![a].at = r]
      BY <1>3 DEF StageFound
  <2>2. r \in Seqs /\ r \in Nat
      BY DEF Found, Seqs
  <2>3. [act EXCEPT ![a].pc = "chat", ![a].at = r] \in [Actors -> EmitterType]
      BY <1>0, <2>2, TakenTyped
  <2>4. out[r].status \in {"superseded", "published", "queued"}
      BY <1>0, <2>2, <2>1 DEF OutTyped, OutboxFrame, Found
  <2> QED  BY <1>0, <1>1, <1>3, <2>1, <2>3, <2>4 DEF StageFound, RowTyped, OutTyped, ActTyped
<1>4. CASE StageNew(a, kind, t)
  <2> DEFINE s == run.durable + 1
  <2>1. s \in Seqs /\ s \in Nat /\ run \in RunType
      BY <1>0, <1>4 DEF StageNew, RowTyped, RunType, Seqs
  <2>2. RowTyped'
    <3>1. run' = Behind(s) \/ run' = [run EXCEPT !.durable = s, !.index = @ + 1]
        BY <1>4 DEF StageNew
    <3>2. s \in 0..MaxSeq /\ run.index + 1 \in Nat
        BY <2>1 DEF RunType, Seqs
    <3> HIDE DEF s
    <3>3. Behind(s) \in RunType /\ [run EXCEPT !.durable = s, !.index = @ + 1] \in RunType
        BY <2>1, <3>2 DEF Behind, RunType
    <3>4. run'.terminal = run.terminal /\ run'.gen = run.gen
        BY <2>1, <3>1 DEF Behind, RunType
    <3> QED  BY <1>0, <3>1, <3>3, <3>4 DEF RowTyped
  <2>3. OutTyped'
    <3>1. /\ [kind |-> kind, tool |-> t, status |-> "superseded", idx |-> 0] \in OutboxFrame
          /\ [kind |-> kind, tool |-> t, status |-> "queued", idx |-> run.index] \in OutboxFrame
        BY <2>1 DEF OutboxFrame, RunType
    <3> QED  BY <1>0, <1>4, <2>1, <3>1 DEF StageNew, OutTyped
  <2>4. ActTyped'
    <3>1. [act EXCEPT ![a].pc = "chat", ![a].at = s, ![a].new = TRUE] \in [Actors -> EmitterType]
        BY <1>0, <2>1, TakenTyped
    <3> QED  BY <1>1, <1>4, <3>1 DEF StageNew, ActTyped
  <2> QED  BY <2>2, <2>3, <2>4
<1> QED  BY <1>2, <1>3, <1>4 DEF Stage

-----------------------------------------------------------------------------
LEMMA MarkedTyped ==
    ASSUME OutTyped, NEW s \in Seqs, out' = Marked(s)
    PROVE  OutTyped'
<1>1. CASE out[s].status = "queued"
  <2>1. out' = [out EXCEPT ![s] = [out[s] EXCEPT !.status = "published"]]
      BY <1>1 DEF Marked, OutTyped, OutboxFrame
  <2>2. [out[s] EXCEPT !.status = "published"] \in OutboxFrame
      BY DEF OutTyped, OutboxFrame
  <2> QED  BY <1>1, <2>1, <2>2 DEF OutTyped, OutboxFrame
<1>2. CASE out[s].status # "queued"
    BY <1>2 DEF Marked, OutTyped
<1> QED  BY <1>1, <1>2

LEMMA AppendedTyped ==
    ASSUME ChatTyped, NEW e \in FactType
    PROVE  Appended(e) \in [events : SUBSET FactType, last : FactType]
BY DEF ChatTyped, Appended

LEMMA FactTyped ==
    ASSUME OutTyped, NEW s \in Seqs, out[s].kind \notin {"receipt"}
    PROVE  Fact(s) \in FactType
BY DEF OutTyped, OutboxFrame, Fact, FactType

LEMMA CommitTyped ==
    ASSUME OutboxTyped, NEW how \in {"end", "cancel"}, NEW closing \in {0, 1},
           run.terminal = "none", CommitTerminal(how, closing)
    PROVE  RowTyped' /\ OutTyped' /\ ChatTyped'
<1>0. RowTyped /\ OutTyped /\ ChatTyped
    BY TypedParts DEF PartsTyped
<1> DEFINE front == IF how = "cancel" THEN 1 ELSE 0
           seq   == run.durable + front + 1
           index == run.index + front + closing
<1>1. seq \in Seqs /\ index \in Nat /\ front \in {0, 1} /\ index + 1 \in Nat
    BY <1>0 DEF CommitTerminal, RowTyped, RunType, Seqs
<1>2. RowTyped'
  <2>1. run' = [run EXCEPT !.durable = seq, !.index = index + 1, !.fence = seq,
                           !.terminal = how, !.live = FALSE,
                           !.gen = IF how = "cancel" THEN @ + 1 ELSE @]
      BY DEF CommitTerminal, IndexAfter
  <2> DEFINE gen == IF how = "cancel" THEN run.gen + 1 ELSE run.gen
  <2>2. gen \in 1..(MaxGen + 1) /\ seq \in 0..MaxSeq
      BY <1>0, <1>1 DEF RowTyped, RunType, Seqs
  <2>3. run' = [run EXCEPT !.durable = seq, !.index = index + 1, !.fence = seq,
                           !.terminal = how, !.live = FALSE, !.gen = gen]
      BY <1>0, <2>1 DEF RowTyped, RunType
  <2> HIDE DEF seq, index, gen
  <2>4. run' \in RunType /\ run'.terminal = how
      BY <1>0, <1>1, <2>2, <2>3 DEF RowTyped, RunType
  <2> QED  BY <2>4 DEF RowTyped
<1>3. OutTyped'
  <2> DEFINE new(s) ==
             CASE s = seq -> [kind |-> "terminal", tool |-> "none", status |-> "queued", idx |-> index]
               [] s > run.durable /\ s < seq ->
                    [kind |-> "receipt", tool |-> "none", status |-> "queued", idx |-> run.index]
               [] OTHER -> out[s]
  <2>1. out' = [s \in Seqs |-> new(s)]
      BY DEF CommitTerminal
  <2> HIDE DEF seq, index
  <2>2. ASSUME NEW s \in Seqs
        PROVE  new(s) \in OutboxFrame /\ (new(s).kind = "none" <=> new(s).status = "none")
      BY <1>0, <1>1 DEF RowTyped, RunType, OutTyped, OutboxFrame
  <2> QED  BY <2>1, <2>2 DEF OutTyped
<1>4. ChatTyped'
  <2>1. \A i \in Nat, kind \in {"terminal", "interaction"} :
            [kind |-> kind, tool |-> "none", idx |-> i] \in FactType
      BY DEF FactType
  <2>2. RestoreStarted \subseteq FactType
    <3>1. \A s \in Seqs : out[s].kind = "started" => Fact(s) \in FactType
        BY <1>0, FactTyped
    <3> QED  BY <1>0, <3>1 DEF RestoreStarted, ChatTyped
  <2>3. closing = 1 => index - 1 \in Nat
      BY <1>0, <1>1 DEF RowTyped, RunType
  <2>4. [kind |-> "terminal", tool |-> "none", idx |-> index] \in FactType
      BY <1>1, <2>1
  <2>5. closing = 1 => [kind |-> "interaction", tool |-> "none", idx |-> index - 1] \in FactType
      BY <2>1, <2>3
  <2>6. chat' = [events |-> RestoreStarted
                     \cup {[kind |-> "terminal", tool |-> "none", idx |-> index]}
                     \cup IF closing = 1
                          THEN {[kind |-> "interaction", tool |-> "none", idx |-> index - 1]} ELSE {},
                 last |-> [kind |-> "terminal", tool |-> "none", idx |-> index]]
      BY DEF CommitTerminal
  <2> HIDE DEF seq, index
  <2> QED  BY <2>2, <2>4, <2>5, <2>6 DEF ChatTyped
<1> QED  BY <1>2, <1>3, <1>4
-----------------------------------------------------------------------------
(* The invariant.                                                          *)

\* The frames the emitters hold between their staging and their mark, those
\* that are about to be published, and the indexes of ordinary events that are
\* reserved and not yet appended.
HandPC   == {"chat", "publish", "mark"}
Held     == {act[a].at : a \in {b \in Actors : act[b].pc \in HandPC}}
Shown    == {act[a].at : a \in {b \in Actors : act[b].pc = "publish"}}
Reserved == {act[a].at : a \in {b \in Actors : act[b].pc = "delta"}}
\* With those of the republication pass.
Grasped  == Held \cup rep.list
Spoken(s) == out[s].kind \in {"started", "delivery"}
Public    == run.terminal \in {"end", "cancel"}

\* The rows are the durable_seqs so far, their indexes are behind the counter;
\* a delivery belongs to a call that succeeded and, until the run ends, is the
\* only one of its call.
FramesInv ==
    /\ \A s \in Seqs : out[s].status # "none" <=> s <= run.durable
    /\ \A s \in Seqs : out[s].kind = "delivery" => out[s].tool \in Succeeded
    /\ \A s \in Seqs : Live(s) => out[s].idx < run.index
    /\ run.terminal = "none" => \A s, r \in Seqs :
        out[s].kind = "delivery" /\ out[r].kind = "delivery" /\ out[s].tool = out[r].tool
        => s = r

\* A fence is set exactly when the run has ended; a quarantine stands on a
\* rejected frame; a run that ended publicly has told every frame it kept.
FenceInv ==
    /\ run.fence # 0 <=> run.terminal # "none"
    /\ run.fence <= run.durable
    /\ run.terminal = "quarantine" => receipt[run.fence] = "rejected"
    /\ Public => \A s \in Seqs :
        Spoken(s) /\ out[s].status \notin {"none", "superseded"} => Stored(out[s].idx)

\* What somebody holds is still the only row of its index, however late it is
\* used, and only a quarantine supersedes it.
GraspInv ==
    \A s \in Grasped : /\ s \in 1..run.durable /\ out[s].idx < run.index
                       /\ out[s].status = "superseded" => run.terminal = "quarantine"
                       /\ \A r \in Seqs : Live(r) /\ out[r].idx = out[s].idx => r = s
SpokenInv == /\ \A s \in Held : Spoken(s)
             /\ \A s \in Shown : Stored(out[s].idx)
\* A reserved index is nobody's frame, a delivery to ensure has succeeded.
ReservedInv ==
    \A i \in Reserved : i < run.index /\ \A s \in Seqs : Live(s) => out[s].idx # i
TodoInv  == \A a \in Actors : act[a].todo \subseteq Succeeded
HandsInv == GraspInv /\ SpokenInv /\ ReservedInv /\ TodoInv

ChatInv == \A e \in chat.events : e.idx < run.index

\* Only what is published is received, only what is told is published, and
\* only what is received with everything before it is collected.
WireInv ==
    /\ \A s \in Seqs : receipt[s] # "none" => s \in wire
    /\ \A s \in wire : s <= run.durable /\ (Spoken(s) => Stored(out[s].idx))
    /\ \A s \in Seqs : out[s].status = "gone" => \A r \in 1..s : receipt[r] = "persisted"
    /\ \A s \in 1..ledger.consumed : receipt[s] = "persisted"

OutboxInv == /\ OutboxTyped /\ FramesInv /\ FenceInv /\ HandsInv /\ ChatInv /\ WireInv
             /\ TerminalClosesChat /\ OneFactPerIndex /\ DeliveriesSurvive /\ ClosedIsReceived

LEMMA HeldIsFrame ==
    ASSUME OutboxTyped, HandsInv
    PROVE  /\ Grasped \subseteq Seqs
           /\ \A a \in Actors : act[a].pc \in HandPC =>
                /\ act[a].at \in Seqs /\ act[a].at \in Held /\ Spoken(act[a].at)
                /\ act[a].pc = "publish" => act[a].at \in Shown
<1>1. 1..run.durable \subseteq Seqs
    BY TypedParts DEF PartsTyped, RowTyped, RunType, Seqs
<1>2. \A a \in Actors : act[a].pc \in HandPC => act[a].at \in Held
    BY DEF Held
<1>3. \A a \in Actors : act[a].pc = "publish" => act[a].at \in Shown
    BY DEF Shown
<1> QED  BY <1>1, <1>2, <1>3 DEF HandsInv, GraspInv, SpokenInv, Grasped

LEMMA OutboxTypedStep ==
    ASSUME OutboxTyped, FramesInv, HandsInv, FenceInv, [OutboxNext]_outboxVars
    PROVE  OutboxTyped'
<1>0. RowTyped /\ OutTyped /\ ChatTyped /\ ActTyped /\ RepTyped /\ RestTyped
    BY TypedParts DEF PartsTyped
<1> SUFFICES PartsTyped'
    BY TypedParts, PTL
<1> USE DEF OutboxFrame, PartsTyped
<1>1. CASE UNCHANGED outboxVars
    BY <1>0, <1>1 DEF outboxVars, RowTyped, OutTyped, ChatTyped, ActTyped, RepTyped, RestTyped
<1>2. CASE LeaseEnds
    BY <1>0, <1>2 DEF LeaseEnds, RowTyped, RunType, OutTyped, ChatTyped, ActTyped, RepTyped, RestTyped
<1>3. CASE TakeOver
  <2>1. RowTyped'
    <3>1. run' = [run EXCEPT !.gen = @ + 1, !.live = TRUE] /\ run.gen < MaxGen
        BY <1>3 DEF TakeOver
    <3>2. run.gen + 1 \in 1..(MaxGen + 1) /\ run.gen + 1 <= MaxGen
        BY <1>0, <3>1 DEF RowTyped, RunType
    <3>3. run' \in RunType /\ run'.gen = run.gen + 1
        BY <1>0, <3>1, <3>2 DEF RowTyped, RunType
    <3> QED  BY <3>2, <3>3 DEF RowTyped
  <2>2. ActTyped'
    <3>1. PICK pc \in {"start", "work"} :
            act' = [act EXCEPT ![run.gen + 1] = [Idle EXCEPT !.pc = pc, !.gen = run.gen + 1]]
        BY <1>3 DEF TakeOver
    <3>2. run.gen + 1 \in 0..(MaxGen + 1) /\ run.gen + 1 \in Actors
        BY <1>0, <1>3 DEF TakeOver, RowTyped, RunType, Actors, Executors
    <3>3. [Idle EXCEPT !.pc = pc, !.gen = run.gen + 1] \in EmitterType
        BY <3>2, IdleTyped
    <3> QED  BY <1>0, <3>1, <3>2, <3>3 DEF ActTyped
  <2> QED  BY <1>0, <1>3, <2>1, <2>2
           DEF TakeOver, OutTyped, ChatTyped, RepTyped, RestTyped
<1>4. CASE RecordCancel
    BY <1>0, <1>4 DEF RecordCancel, RowTyped, OutTyped, ChatTyped, ActTyped, RepTyped, RestTyped
<1>5. CASE \E a \in Actors : EmitStarted(a) \/ EnsureOne(a) \/ \E t \in Tools : EmitDelivery(a, t)
  <2>1. PICK a \in Actors : \E kind \in {"started", "delivery"}, t \in Tools \cup {"none"} :
            Stage(a, kind, t)
    <3>1. PICK a \in Actors : EmitStarted(a) \/ EnsureOne(a) \/ \E t \in Tools : EmitDelivery(a, t)
        BY <1>5
    <3>2. act[a].todo \subseteq Tools
        BY <1>0 DEF ActTyped, EmitterType
    <3> QED  BY <3>1, <3>2 DEF EmitStarted, EnsureOne, EmitDelivery
  <2>2. RowTyped' /\ OutTyped' /\ ActTyped'
      BY <2>1, StageTyped
  <2> QED  BY <1>0, <1>5, <2>2
           DEF EmitStarted, EnsureOne, EmitDelivery, ChatTyped, RepTyped, RestTyped
<1>6. ASSUME NEW a \in Actors, PersistChat(a) PROVE PartsTyped'
  <2>1. act[a].at \in Seqs /\ Spoken(act[a].at)
      BY <1>6, HeldIsFrame DEF PersistChat, HandPC
  <2>2. ChatTyped'
    <3>1. Fact(act[a].at) \in FactType
        BY <1>0, <2>1, FactTyped DEF Spoken
    <3> QED  BY <1>0, <1>6, <3>1, AppendedTyped DEF PersistChat, ChatTyped
  <2>3. ActTyped'
    <3>1. [act EXCEPT ![a].pc = "publish"] \in [Actors -> EmitterType]
        BY <1>0 DEF ActTyped, EmitterType
    <3> QED  BY <1>0, <1>6, <3>1, ContinueTyped DEF PersistChat, ActTyped
  <2> QED  BY <1>0, <1>6, <2>2, <2>3
           DEF PersistChat, RowTyped, OutTyped, RepTyped, RestTyped
<1>7. ASSUME NEW a \in Actors, PublishEvent(a) PROVE PartsTyped'
  <2>1. act[a].at \in Seqs
      BY <1>7, HeldIsFrame DEF PublishEvent, HandPC
  <2>2. [act EXCEPT ![a].pc = "mark"] \in [Actors -> EmitterType]
      BY <1>0 DEF ActTyped, EmitterType
  <2>3. RestTyped'
      BY <1>0, <1>7, <2>1 DEF PublishEvent, RestTyped
  <2> QED  BY <1>0, <1>7, <2>2, <2>3
           DEF PublishEvent, RowTyped, OutTyped, RepTyped, ChatTyped, ActTyped
<1>8. ASSUME NEW a \in Actors, MarkPublished(a) PROVE PartsTyped'
  <2>1. act[a].at \in Seqs
      BY <1>8, HeldIsFrame DEF MarkPublished, HandPC
  <2>2. OutTyped'
    <3>1. PICK s \in Seqs : s = act[a].at
        BY <2>1
    <3> QED  BY <1>0, <1>8, <3>1, MarkedTyped DEF MarkPublished
  <2>3. ActTyped'
      BY <1>0, <1>8, ContinueTyped DEF MarkPublished, ActTyped
  <2> QED  BY <1>0, <1>8, <2>2, <2>3
           DEF MarkPublished, RowTyped, RepTyped, RestTyped, ChatTyped
<1>9. ASSUME NEW a \in Actors, EmitFails(a) PROVE PartsTyped'
  <2>1. RestTyped'
    <3>1. act[a].pc = "publish" => act[a].at \in Seqs
        BY HeldIsFrame DEF HandPC
    <3>2. wire' \subseteq Seqs
        BY <1>0, <1>9, <3>1 DEF EmitFails, RestTyped
    <3> QED  BY <1>0, <1>9, <3>2 DEF EmitFails, RestTyped
  <2>2. ActTyped'
      BY <1>0, <1>9, ContinueTyped, RaiseTyped DEF EmitFails, ActTyped
  <2> QED  BY <1>0, <1>9, <2>1, <2>2
           DEF EmitFails, RowTyped, OutTyped, RepTyped, ChatTyped
<1>10. ASSUME NEW a \in Actors, ExecutorDies(a) PROVE PartsTyped'
  <2>1. ActTyped'
      BY <1>0, <1>10, RaiseTyped DEF ExecutorDies, ActTyped
  <2> QED  BY <1>0, <1>10, <2>1
           DEF ExecutorDies, RowTyped, OutTyped, RepTyped, RestTyped, ChatTyped
<1>11. ASSUME NEW a \in Actors, ReserveIndex(a) PROVE PartsTyped'
  <2>1. RowTyped'
      BY <1>0, <1>11 DEF ReserveIndex, RowTyped, RunType
  <2>2. ActTyped'
    <3>1. run.index \in Nat
        BY <1>0 DEF RowTyped, RunType
    <3>2. [act EXCEPT ![a].pc = "delta", ![a].at = run.index] \in [Actors -> EmitterType]
        BY <1>0, <3>1, TakenTyped
    <3> QED  BY <1>0, <1>11, <3>2, RaiseTyped DEF ReserveIndex, ActTyped
  <2> QED  BY <1>0, <1>11, <2>1, <2>2
           DEF ReserveIndex, OutTyped, RepTyped, RestTyped, ChatTyped
<1>12. ASSUME NEW a \in Actors, AppendFenced(a) PROVE PartsTyped'
  <2>1. ChatTyped'
    <3>1. [kind |-> "delta", tool |-> "none", idx |-> act[a].at] \in FactType
        BY <1>0 DEF ActTyped, EmitterType, FactType
    <3> QED  BY <1>0, <1>12, <3>1, AppendedTyped DEF AppendFenced, ChatTyped
  <2>2. ActTyped'
      BY <1>0, <1>12, RaiseTyped, ContinueTyped DEF AppendFenced, ActTyped
  <2> QED  BY <1>0, <1>12, <2>1, <2>2
           DEF AppendFenced, RowTyped, OutTyped, RepTyped, RestTyped
<1>13. ASSUME NEW a \in Actors, Drain(a) \/ EnsureDeliveries(a) \/ EnsureDone(a) PROVE PartsTyped'
  <2>1. Succeeded \in SUBSET Tools /\ Snapshot \in SnapType
      BY <1>0, SnapshotTyped DEF Succeeded
  <2>2. ActTyped'
    <3>1. CASE Drain(a)
        BY <1>0, <3>1 DEF Drain, ActTyped, EmitterType
    <3>2. CASE EnsureDeliveries(a)
      <4>1. [act EXCEPT ![a].pc = "each", ![a].then = "each", ![a].todo = Succeeded]
              \in [Actors -> EmitterType]
        <5>1. [act[a] EXCEPT !.pc = "each", !.then = "each", !.todo = Succeeded] \in EmitterType
            BY <1>0, <2>1 DEF ActTyped, EmitterType
        <5>2. [act EXCEPT ![a].pc = "each", ![a].then = "each", ![a].todo = Succeeded]
                = [act EXCEPT ![a] = [act[a] EXCEPT !.pc = "each", !.then = "each",
                                                    !.todo = Succeeded]]
            BY <1>0 DEF ActTyped, EmitterType
        <5> QED  BY <1>0, <5>1, <5>2 DEF ActTyped
      <4> QED  BY <1>0, <3>2, <4>1, RaiseTyped DEF EnsureDeliveries, ActTyped
    <3>3. CASE EnsureDone(a)
      <4>1. [act EXCEPT ![a].pc = "final",
                          ![a].snap = IF a = Canceller THEN @ ELSE Snapshot]
              \in [Actors -> EmitterType]
        <5> DEFINE snap == IF a = Canceller THEN act[a].snap ELSE Snapshot
        <5>1. snap \in SnapType
            BY <1>0, <2>1 DEF ActTyped, EmitterType
        <5>2. [act EXCEPT ![a].pc = "final", ![a].snap = IF a = Canceller THEN @ ELSE Snapshot]
                = [act EXCEPT ![a] = [act[a] EXCEPT !.pc = "final", !.snap = snap]]
            BY <1>0 DEF ActTyped, EmitterType
        <5> HIDE DEF snap
        <5>3. [act[a] EXCEPT !.pc = "final", !.snap = snap] \in EmitterType
            BY <1>0, <5>1 DEF ActTyped, EmitterType
        <5> QED  BY <1>0, <5>2, <5>3 DEF ActTyped
      <4> QED  BY <1>0, <3>3, <4>1 DEF EnsureDone, ActTyped
    <3> QED  BY <1>13, <3>1, <3>2, <3>3
  <2> QED  BY <1>0, <1>13, <2>2
           DEF Drain, EnsureDeliveries, EnsureDone, RowTyped, OutTyped, RepTyped, RestTyped, ChatTyped
<1>14. CASE CancelSnapshot \/ CancelFence
  <2>1. Snapshot \in SnapType /\ Canceller \in Actors
      BY <1>0, SnapshotTyped DEF Actors
  <2>2. run.gen \in 0..(MaxGen + 1) /\ 0 \in 0..(MaxGen + 1)
      BY <1>0 DEF RowTyped, RunType
  <2>3. Idle \in EmitterType
    <3>1. {} \in SUBSET Tools /\ {} \in SnapType
        BY SnapshotTyped
    <3> QED  BY <2>2, <3>1 DEF Idle, EmitterType
  <2>4. [Idle EXCEPT !.pc = "fence", !.snap = Snapshot] \in EmitterType
      BY <2>1, <2>3 DEF EmitterType
  <2>5. ActTyped'
    <3>1. CASE CancelSnapshot
        BY <1>0, <2>1, <2>4, <3>1 DEF CancelSnapshot, ActTyped
    <3>2. CASE CancelFence
      <4>1. [act[Canceller] EXCEPT !.pc = "ensure", !.gen = run.gen] \in EmitterType
          BY <1>0, <2>1, <2>2 DEF ActTyped, EmitterType
      <4>2. act' = [act EXCEPT ![Canceller] = [act[Canceller] EXCEPT !.pc = "ensure",
                                                                     !.gen = run.gen]]
          BY <1>0, <2>1, <3>2 DEF CancelFence, ActTyped, EmitterType
      <4> QED  BY <1>0, <2>1, <4>1, <4>2 DEF ActTyped
    <3> QED  BY <1>14, <3>1, <3>2
  <2> QED  BY <1>0, <1>14, <2>5
           DEF CancelSnapshot, CancelFence, RowTyped, OutTyped, RepTyped, RestTyped, ChatTyped
<1>15. ASSUME NEW a \in Actors, FinalizeExecution(a) PROVE PartsTyped'
  <2>1. ActTyped'
    <3>1. a \in 0..(MaxGen + 1)
        BY DEF Actors, Canceller, Executors
    <3>2. [Idle EXCEPT !.pc = "dead", !.gen = a] \in EmitterType
        BY <3>1, IdleTyped
    <3> QED  BY <1>0, <1>15, <3>2 DEF FinalizeExecution, ActTyped
  <2>2. RowTyped' /\ OutTyped' /\ ChatTyped'
    <3>1. CASE run.terminal = "none" /\ \E closing \in {0, 1} : CommitTerminal("end", closing)
        BY <3>1, CommitTyped
    <3>2. CASE UNCHANGED <<run, out, chat>>
        BY <1>0, <3>2 DEF RowTyped, OutTyped, ChatTyped
    <3> QED  BY <1>15, <3>1, <3>2 DEF FinalizeExecution, Active
  <2> QED  BY <1>0, <1>15, <2>1, <2>2 DEF FinalizeExecution, RepTyped, RestTyped
<1>16. CASE FinalizeCancel
  <2>1. ActTyped'
    <3>1. 1 \in 0..(MaxGen + 1)
        OBVIOUS
    <3>2. Idle \in EmitterType
        BY <3>1, IdleTyped
    <3> QED  BY <1>0, <1>16, <3>2 DEF FinalizeCancel, ActTyped
  <2>2. RowTyped' /\ OutTyped' /\ ChatTyped'
    <3>1. CASE run.terminal = "none" /\ \E closing \in {0, 1} : CommitTerminal("cancel", closing)
        BY <3>1, CommitTyped
    <3>2. CASE UNCHANGED <<run, out, chat>>
        BY <1>0, <3>2 DEF RowTyped, OutTyped, ChatTyped
    <3> QED  BY <1>16, <3>1, <3>2 DEF FinalizeCancel, CancelLost
  <2>3. cmd' \in {"none", "persisted", "succeeded", "superseded"}
      BY <1>0, <1>16 DEF FinalizeCancel, CancelLost, RestTyped
  <2> QED  BY <1>0, <1>16, <2>1, <2>2, <2>3 DEF FinalizeCancel, RepTyped, RestTyped
<1>17. CASE RepublishScan
    BY <1>0, <1>17 DEF RepublishScan, Unpublished, RowTyped, OutTyped, ChatTyped, ActTyped,
                       RepTyped, RestTyped
<1>18. CASE RepublishOne \/ RepublishMark \/ RepublishFails
  <2>3. ASSUME NEW s \in Seqs
        PROVE  Restored(s) \in [events : SUBSET FactType, last : FactType]
    <3>1. out[s].kind # "receipt" => Fact(s) \in FactType
        BY <1>0, FactTyped
    <3> QED  BY <1>0, <3>1, AppendedTyped DEF Restored, ChatTyped
  <2>4. Blocked \in [pc : {"idle", "next", "mark"}, list : SUBSET Seqs]
      BY DEF Blocked
  <2>5. CASE RepublishOne
    <3>1. PICK r \in rep.list :
            /\ chat' = Restored(r)
            /\ wire' \in {wire, wire \cup {r}}
            /\ rep' \in {Blocked, [rep EXCEPT !.pc = "mark"]}
        BY <2>5 DEF RepublishOne, Least
    <3>2. r \in Seqs
        BY <1>0 DEF RepTyped
    <3>3. ChatTyped'
        BY <1>0, <3>1, <3>2, <2>3 DEF ChatTyped
    <3>4. RepTyped'
        BY <1>0, <2>4, <3>1 DEF RepTyped
    <3>5. RestTyped'
        BY <1>0, <2>5, <3>1, <3>2 DEF RepublishOne, RestTyped
    <3> QED  BY <1>0, <2>5, <3>3, <3>4, <3>5 DEF RepublishOne, RowTyped, OutTyped, ActTyped
  <2>6. CASE RepublishMark
    <3>1. PICK r \in rep.list :
            /\ out' = Marked(r)
            /\ rep' = [pc |-> IF rep.list \ {r} = {} THEN "idle" ELSE "next",
                       list |-> rep.list \ {r}]
        BY <2>6 DEF RepublishMark, Least
    <3>2. r \in Seqs
        BY <1>0 DEF RepTyped
    <3>3. OutTyped'
        BY <1>0, <3>1, <3>2, MarkedTyped
    <3>4. RepTyped'
        BY <1>0, <3>1 DEF RepTyped
    <3> QED  BY <1>0, <2>6, <3>3, <3>4 DEF RepublishMark, RowTyped, ChatTyped, ActTyped, RestTyped
  <2>7. CASE RepublishFails
    <3>1. PICK r \in rep.list : chat' \in {chat, Restored(r)}
        BY <2>7 DEF RepublishFails, Least
    <3>2. r \in Seqs
        BY <1>0 DEF RepTyped
    <3>3. ChatTyped'
        BY <1>0, <2>3, <3>1, <3>2 DEF ChatTyped
    <3> QED  BY <1>0, <2>4, <2>7, <3>3
                DEF RepublishFails, RowTyped, OutTyped, ActTyped, RepTyped, RestTyped
  <2> QED  BY <1>18, <2>5, <2>6, <2>7
<1>19. ASSUME NEW s \in Seqs, Receive(s) PROVE PartsTyped'
  <2>1. RestTyped'
      BY <1>0, <1>19 DEF Receive, RestTyped
  <2> QED  BY <1>0, <1>19, <2>1
           DEF Receive, RowTyped, OutTyped, RepTyped, ChatTyped, ActTyped
<1>20. CASE ReconcileReceipts
  <2>1. PICK n \in 0..MaxSeq :
        /\ out' = [s \in Seqs |->
                 IF s <= n /\ out[s].status # "none" /\ Collectable(s)
                 THEN [out[s] EXCEPT !.status = "gone"] ELSE out[s]]
        /\ ledger' \in [consumed : {n}, close : BOOLEAN]
      BY <1>0, <1>20 DEF ReconcileReceipts, RestTyped
  <2>2. ASSUME NEW s \in Seqs, out[s].status # "none"
        PROVE  [out[s] EXCEPT !.status = "gone"] \in OutboxFrame
      BY <1>0 DEF OutTyped
  <2>3. OutTyped'
      BY <1>0, <2>1, <2>2 DEF OutTyped
  <2>4. RestTyped'
      BY <1>0, <1>20, <2>1 DEF ReconcileReceipts, RestTyped
  <2> QED  BY <1>0, <1>20, <2>3, <2>4 DEF ReconcileReceipts, RowTyped, ChatTyped, ActTyped, RepTyped
<1>21. CASE ReadRejection
    BY <1>0, <1>21 DEF ReadRejection, Least, Seqs, RowTyped, OutTyped, ChatTyped, ActTyped,
                       RepTyped, RestTyped
<1>22. CASE Quarantine
  <2>1. RowTyped' /\ OutTyped'
    <3>1. CASE nack \in Nacked /\ run.fence = 0
      <4>1. run.terminal = "none" /\ nack \in Seqs
          BY <3>1 DEF FenceInv, Nacked
      <4>2. run.durable < MaxSeq
            /\ run' = [run EXCEPT !.durable = @ + 1, !.fence = nack, !.live = FALSE,
                                  !.terminal = "quarantine", !.gen = @ + 1]
            /\ out' = [s \in Seqs |->
                CASE s = run.durable + 1 -> [kind |-> "terminal", tool |-> "none",
                                             status |-> "superseded", idx |-> 0]
                  [] s >= nack /\ Live(s) -> [out[s] EXCEPT !.status = "superseded"]
                  [] OTHER -> out[s]]
          BY <1>22, <3>1 DEF Quarantine
      <4>3. RowTyped'
        <5>1. run.gen + 1 \in 1..(MaxGen + 1) /\ run.durable + 1 \in 0..MaxSeq /\ nack \in 0..MaxSeq
            BY <1>0, <4>1, <4>2 DEF RowTyped, RunType, Seqs
        <5>2. run' = [run EXCEPT !.durable = run.durable + 1, !.fence = nack, !.live = FALSE,
                                 !.terminal = "quarantine", !.gen = run.gen + 1]
            BY <1>0, <4>2 DEF RowTyped, RunType
        <5> QED  BY <1>0, <5>1, <5>2 DEF RowTyped, RunType
      <4>4. OutTyped'
        <5>1. ASSUME NEW s \in Seqs
              PROVE  /\ [out[s] EXCEPT !.status = "superseded"] \in OutboxFrame
                     /\ Live(s) => out[s].kind # "none"
            BY <1>0 DEF OutTyped, Live
        <5>2. [kind |-> "terminal", tool |-> "none", status |-> "superseded", idx |-> 0]
                \in OutboxFrame
            OBVIOUS
        <5> DEFINE new(s) == CASE s = run.durable + 1 -> [kind |-> "terminal", tool |-> "none",
                                             status |-> "superseded", idx |-> 0]
                  [] s >= nack /\ Live(s) -> [out[s] EXCEPT !.status = "superseded"]
                  [] OTHER -> out[s]
        <5>3. ASSUME NEW s \in Seqs
              PROVE  new(s) \in OutboxFrame /\ (new(s).kind = "none" <=> new(s).status = "none")
          <6>1. CASE s = run.durable + 1
            <7>1. new(s) = [kind |-> "terminal", tool |-> "none", status |-> "superseded", idx |-> 0]
              <8>1. run.durable + 1 > run.durable
                  BY <1>0 DEF RowTyped, RunType
              <8>2. ~Live(s)
                  BY <1>0, <6>1, <8>1 DEF FramesInv, Live, RowTyped, RunType, Seqs
              <8> QED  BY <6>1, <8>2
            <7> QED  BY <5>2, <7>1
          <6>2. CASE s # run.durable + 1 /\ s >= nack /\ Live(s)
            <7>1. new(s) = [out[s] EXCEPT !.status = "superseded"]
                BY <6>2
            <7> QED  BY <1>0, <5>1, <6>2, <7>1 DEF OutTyped
          <6>3. CASE s # run.durable + 1 /\ ~(s >= nack /\ Live(s))
              BY <1>0, <6>3 DEF OutTyped
          <6> QED  BY <6>1, <6>2, <6>3
        <5>4. out' = [s \in Seqs |-> new(s)]
            BY <4>2
        <5> HIDE DEF new
        <5> QED  BY <5>3, <5>4 DEF OutTyped
      <4> QED  BY <4>3, <4>4
    <3>2. CASE ~(nack \in Nacked /\ run.fence = 0)
        BY <1>0, <1>22, <3>2 DEF Quarantine, RowTyped, OutTyped
    <3> QED  BY <3>1, <3>2
  <2> QED  BY <1>0, <1>22, <2>1 DEF Quarantine, ChatTyped, ActTyped, RepTyped, RestTyped
<1>23. ASSUME NEW a \in Actors, NEW t \in Tools, JournalToolStarted(a, t) \/ JournalToolFinished(a, t)
       PROVE  PartsTyped'
  <2>1. RestTyped'
      BY <1>0, <1>23 DEF JournalToolStarted, JournalToolFinished, RestTyped
  <2> QED  BY <1>0, <1>23, <2>1
           DEF JournalToolStarted, JournalToolFinished, RowTyped, OutTyped, RepTyped, ChatTyped, ActTyped
<1> QED
  <2>1. Executors \subseteq Actors /\ Canceller \in Actors
      BY DEF Actors
  <2> QED  BY <1>1, <1>2, <1>3, <1>4, <1>5, <1>6, <1>7, <1>8, <1>9, <1>10, <1>11, <1>12, <1>13,
              <1>14, <1>15, <1>16, <1>17, <1>18, <1>19, <1>20, <1>21, <1>22, <1>23, <2>1
           DEF OutboxNext, Cancel, Republish, Heartbeat, Emit

-----------------------------------------------------------------------------
(* The kinds of steps, by what they change of the durable state and by the *)
(* frames the emitters and the republication pass hold afterwards.         *)

CountersKept == /\ run'.durable = run.durable /\ run'.index = run.index
                /\ run'.fence = run.fence /\ run'.terminal = run.terminal
TodoKept     == \A a \in Actors : act'[a].todo \subseteq Succeeded
HandsKept    == /\ Held' \subseteq Held /\ Shown' \subseteq Shown
                /\ Reserved' \subseteq Reserved /\ rep'.list \subseteq rep.list /\ TodoKept
ReceiptsKept == UNCHANGED <<ledger, receipt, journal>>

\* Nothing durable changes; a frame that is found again is taken in hand.
QuietStep ==
    /\ CountersKept /\ ReceiptsKept /\ UNCHANGED <<out, chat, wire>>
    /\ Held' \subseteq Held \cup {s \in Seqs : Live(s) /\ Spoken(s)}
    /\ rep'.list \subseteq rep.list \cup {s \in Seqs : Live(s)}
    /\ Shown' \subseteq Shown /\ Reserved' \subseteq Reserved /\ TodoKept

JournalStep ==
    /\ run.terminal = "none" /\ Succeeded \subseteq Succeeded'
    /\ UNCHANGED <<run, out, chat, wire, ledger, receipt, act, rep>>

\* The fact of a frame in hand is told, or the frame is published, or both.
TellStep(s) ==
    /\ CountersKept /\ ReceiptsKept /\ out' = out
    /\ chat' = chat \/ (out[s].kind \notin {"receipt", "terminal"} /\ chat' = Appended(Fact(s)))
    /\ wire \subseteq wire' /\ wire' \subseteq wire \cup {s}
    /\ s \in wire' /\ Spoken(s) => \E e \in chat'.events : e.idx = out[s].idx
    /\ Held' \subseteq Held /\ rep'.list \subseteq rep.list /\ Reserved' \subseteq Reserved
    /\ Shown' \subseteq Shown \cup {r \in {s} : \E e \in chat'.events : e.idx = out[r].idx}
    /\ TodoKept

MarkStep(s) ==
    /\ CountersKept /\ ReceiptsKept /\ UNCHANGED <<chat, wire>>
    /\ out' = Marked(s) /\ HandsKept

\* A frame is staged before or behind the fence.
StageStep(s, kind, t) ==
    /\ s = run.durable + 1
    /\ kind = "delivery" => /\ t \in Succeeded
                            /\ \A r \in Seqs : out[r].kind = "delivery" /\ out[r].tool = t
                                               => out[r].status = "gone"
    /\ run'.durable = s /\ run'.fence = run.fence /\ run'.terminal = run.terminal
    /\ ReceiptsKept /\ UNCHANGED <<chat, wire>>
    /\ rep'.list \subseteq rep.list /\ Shown' \subseteq Shown /\ Reserved' \subseteq Reserved
    /\ TodoKept
    /\ \/ /\ run.fence = 0 /\ run'.index = run.index + 1
          /\ out' = [out EXCEPT ![s] = [kind |-> kind, tool |-> t, status |-> "queued",
                                        idx |-> run.index]]
          /\ Held' \subseteq Held \cup {s}
       \/ /\ run.fence # 0 /\ run'.index = run.index
          /\ out' = [out EXCEPT ![s] = [kind |-> kind, tool |-> t, status |-> "superseded",
                                        idx |-> 0]]
          /\ Held' \subseteq Held

ReserveStep ==
    /\ run.terminal = "none" /\ run' = [run EXCEPT !.index = @ + 1]
    /\ ReceiptsKept /\ UNCHANGED <<out, chat, wire>>
    /\ Held' \subseteq Held /\ Shown' \subseteq Shown /\ rep'.list \subseteq rep.list
    /\ Reserved' \subseteq Reserved \cup {run.index} /\ TodoKept

DeltaStep(i) ==
    /\ run.terminal = "none" /\ CountersKept /\ ReceiptsKept /\ UNCHANGED <<out, wire>>
    /\ chat' = Appended([kind |-> "delta", tool |-> "none", idx |-> i]) /\ HandsKept

CommitStep(how, closing, snap) ==
    /\ run.terminal = "none" /\ Nacked = {} /\ DeliveryReady(snap)
    /\ CommitTerminal(how, closing)
    /\ ReceiptsKept /\ wire' = wire /\ HandsKept

OutboxStep ==
    \/ QuietStep \/ JournalStep \/ ReserveStep
    \/ \E s \in Grasped : TellStep(s) \/ MarkStep(s)
    \/ \E s \in Seqs, kind \in {"started", "delivery"}, t \in Tools \cup {"none"} :
        StageStep(s, kind, t)
    \/ \E i \in Reserved : DeltaStep(i)
    \/ \E how \in {"end", "cancel"}, closing \in {0, 1}, snap \in SnapType :
        CommitStep(how, closing, snap)
    \/ \E s \in Seqs : Receive(s)
    \/ ReconcileReceipts
    \/ nack \in Nacked /\ run.fence = 0 /\ Quarantine

\* What a step of one emitter does to the three sets.
LEMMA OneEmitter ==
    ASSUME NEW a \in Actors, \A b \in Actors : b # a => act'[b] = act[b]
    PROVE  /\ Held' \subseteq Held \cup {s \in {act'[a].at} : act'[a].pc \in HandPC}
           /\ Shown' \subseteq Shown \cup {s \in {act'[a].at} : act'[a].pc = "publish"}
           /\ Reserved' \subseteq Reserved \cup {s \in {act'[a].at} : act'[a].pc = "delta"}
BY DEF Held, Shown, Reserved, HandPC

\* An emitter that goes on or raises has nothing in hand.
LEMMA ContinueHands ==
    ASSUME ActTyped, HandsInv, NEW a \in Actors, NEW t,
           act' = Continue(a, t) \/ act' = Raise(a)
    PROVE  /\ Held' \subseteq Held /\ Shown' \subseteq Shown /\ Reserved' \subseteq Reserved
           /\ TodoKept
<1>1. \A b \in Actors : b # a => act'[b] = act[b]
    BY DEF ActTyped, Continue, Raise
<1>2. act'[a].pc \in {"idle", "dead", "work", "each"} /\ act'[a].todo \subseteq act[a].todo
  <2>1. CASE act' = Continue(a, t)
      BY <2>1 DEF ActTyped, EmitterType, Continue
  <2>2. CASE act' = Raise(a)
      BY <2>2 DEF ActTyped, EmitterType, Raise, Idle
  <2> QED  BY <2>1, <2>2
<1>3. Held' \subseteq Held /\ Shown' \subseteq Shown /\ Reserved' \subseteq Reserved
    BY <1>1, <1>2, OneEmitter DEF HandPC
<1>4. TodoKept
  <2>1. \A b \in Actors : act[b].todo \subseteq Succeeded
      BY DEF HandsInv, TodoInv
  <2> QED  BY <1>1, <1>2, <2>1 DEF TodoKept
<1> QED  BY <1>3, <1>4

\* An emitter that takes the frame s in hand, or keeps its frame and moves on.
LEMMA TakeHands ==
    ASSUME ActTyped, HandsInv, NEW a \in Actors, NEW s \in Nat,
           NEW pc \in {"chat", "delta"}, NEW new \in BOOLEAN,
           \/ act' = [act EXCEPT ![a].pc = pc, ![a].at = s]
           \/ act' = [act EXCEPT ![a].pc = pc, ![a].at = s, ![a].new = new]
    PROVE  /\ Held' \subseteq Held \cup {r \in {s} : pc = "chat"}
           /\ Reserved' \subseteq Reserved \cup {r \in {s} : pc = "delta"}
           /\ Shown' \subseteq Shown /\ TodoKept
<1>1. \A b \in Actors : b # a => act'[b] = act[b]
    BY DEF ActTyped
<1>2. act'[a].pc = pc /\ act'[a].at = s /\ act'[a].todo = act[a].todo
    BY DEF ActTyped, EmitterType
<1>3. /\ Held' \subseteq Held \cup {r \in {s} : pc = "chat"}
      /\ Reserved' \subseteq Reserved \cup {r \in {s} : pc = "delta"}
      /\ Shown' \subseteq Shown
    BY <1>1, <1>2, OneEmitter DEF HandPC
<1>4. TodoKept
  <2>1. \A b \in Actors : act[b].todo \subseteq Succeeded
      BY DEF HandsInv, TodoInv
  <2> QED  BY <1>1, <1>2, <2>1 DEF TodoKept
<1> QED  BY <1>3, <1>4

\* An emitter that moves on with nothing in hand.
LEMMA MoveHands ==
    ASSUME ActTyped, HandsInv, NEW a \in Actors,
           \A b \in Actors : b # a => act'[b] = act[b],
           act'[a].pc \notin HandPC \cup {"delta"}, act'[a].todo \subseteq Succeeded
    PROVE  /\ Held' \subseteq Held /\ Shown' \subseteq Shown /\ Reserved' \subseteq Reserved
           /\ TodoKept
<1>1. Held' \subseteq Held /\ Shown' \subseteq Shown /\ Reserved' \subseteq Reserved
    BY OneEmitter DEF HandPC
<1>2. TodoKept
  <2>1. \A b \in Actors : act[b].todo \subseteq Succeeded
      BY DEF HandsInv, TodoInv
  <2> QED  BY <2>1 DEF TodoKept
<1> QED  BY <1>1, <1>2

LEMMA StageIsStep ==
    ASSUME OutboxTyped, HandsInv, FenceInv, FramesInv, NEW a \in Actors,
           NEW kind \in {"started", "delivery"}, NEW t \in Tools \cup {"none"},
           kind = "delivery" => t \in Succeeded,
           Stage(a, kind, t), UNCHANGED <<ledger, receipt, journal, chat, wire, rep>>
    PROVE  OutboxStep
<1>0. ActTyped /\ OutTyped /\ RowTyped
    BY TypedParts DEF PartsTyped
<1>1. CASE act' = Continue(a, t) \/ act' = Raise(a)
  <2>1. HandsKept
      BY <1>0, <1>1, ContinueHands DEF HandsKept
  <2>2. CASE UNCHANGED <<run, out>>
      BY <2>1, <2>2 DEF OutboxStep, QuietStep, HandsKept, CountersKept, ReceiptsKept
  <2>3. CASE StageNew(a, kind, t) /\ run.fence # 0 /\ run.durable + 1 > run.fence
    <3>1. PICK s \in Seqs : s = run.durable + 1
        BY <1>0, <2>3 DEF StageNew, RowTyped, RunType, Seqs
    <3>2. run' = Behind(s)
          /\ out' = [out EXCEPT ![s] = [kind |-> kind, tool |-> t, status |-> "superseded",
                                        idx |-> 0]]
        BY <2>3, <3>1 DEF StageNew
    <3>3. run'.durable = s /\ run'.fence = run.fence /\ run'.terminal = run.terminal
          /\ run'.index = run.index
        BY <1>0, <3>2 DEF Behind, RowTyped, RunType
    <3>4. kind = "delivery" => \A r \in Seqs : out[r].kind = "delivery" /\ out[r].tool = t
                                               => out[r].status = "gone"
        BY <2>3 DEF StageNew, Found
    <3>5. StageStep(s, kind, t)
        BY <2>1, <2>3, <3>1, <3>2, <3>3, <3>4 DEF StageStep, HandsKept, ReceiptsKept
    <3> QED  BY <3>5 DEF OutboxStep
  <2>4. CASE StageNew(a, kind, t) /\ ~(run.fence # 0 /\ run.durable + 1 > run.fence)
    <3>1. act' = [act EXCEPT ![a].pc = "chat", ![a].at = run.durable + 1, ![a].new = TRUE]
        BY <2>4 DEF StageNew
    <3>2. act'[a].pc = "chat"
        BY <1>0, <3>1 DEF ActTyped, EmitterType
    <3>3. act'[a].pc \in {"idle", "dead", "work", "each"}
      <4>1. CASE act' = Continue(a, t)
          BY <1>0, <4>1 DEF ActTyped, EmitterType, Continue
      <4>2. CASE act' = Raise(a)
          BY <1>0, <4>2 DEF ActTyped, EmitterType, Raise, Idle
      <4> QED  BY <1>1, <4>1, <4>2
    <3> QED  BY <3>2, <3>3
  <2> QED  BY <2>2, <2>3, <2>4 DEF Stage, StageRefused, StageFound, StageNew
<1>2. CASE StageFound(a, kind, t) /\ ~(act' = Continue(a, t) \/ act' = Raise(a))
  <2>1. PICK r \in Found(kind, t) :
            act' = CASE out[r].status = "superseded" -> Raise(a)
                     [] out[r].status = "published"  -> Continue(a, t)
                     [] out[r].status = "queued"     -> [act EXCEPT ![a].pc = "chat", ![a].at = r]
      BY <1>2 DEF StageFound
  <2>2. r \in Seqs /\ r \in Nat /\ out[r].kind = kind
      BY DEF Found, Seqs
  <2>3. out[r].status \in {"superseded", "published", "queued"}
      BY <1>0, <2>2 DEF OutTyped, OutboxFrame, Found
  <2>4. out[r].status = "queued" /\ act' = [act EXCEPT ![a].pc = "chat", ![a].at = r]
      BY <1>2, <2>1, <2>3
  <2>5. /\ Held' \subseteq Held \cup {q \in {r} : "chat" = "chat"}
        /\ Reserved' \subseteq Reserved \cup {q \in {r} : "chat" = "delta"}
        /\ Shown' \subseteq Shown /\ TodoKept
      BY <1>0, <2>2, <2>4, TakeHands
  <2>6. Held' \subseteq Held \cup {s \in Seqs : Live(s) /\ Spoken(s)}
      BY <2>2, <2>4, <2>5 DEF Live, Spoken
  <2>7. QuietStep
      BY <1>2, <2>5, <2>6 DEF QuietStep, CountersKept, ReceiptsKept, StageFound
  <2> QED  BY <2>7 DEF OutboxStep
<1>3. CASE StageNew(a, kind, t) /\ ~(act' = Continue(a, t) \/ act' = Raise(a))
  <2>1. PICK s \in Seqs : s = run.durable + 1
      BY <1>0, <1>3 DEF StageNew, RowTyped, RunType, Seqs
  <2>2. run.fence = 0
    <3>1. run.fence <= run.durable /\ run.fence \in Nat /\ run.durable \in Nat
        BY <1>0 DEF FenceInv, RowTyped, RunType
    <3>2. run.durable + 1 > run.fence
        BY <3>1
    <3> QED  BY <1>3, <3>2 DEF StageNew
  <2>3. /\ run' = [run EXCEPT !.durable = s, !.index = @ + 1]
        /\ out' = [out EXCEPT ![s] = [kind |-> kind, tool |-> t, status |-> "queued",
                                      idx |-> run.index]]
        /\ act' = [act EXCEPT ![a].pc = "chat", ![a].at = s, ![a].new = TRUE]
      BY <1>3, <2>1, <2>2 DEF StageNew
  <2>4. run'.durable = s /\ run'.fence = run.fence /\ run'.terminal = run.terminal
        /\ run'.index = run.index + 1
      BY <1>0, <2>3 DEF RowTyped, RunType
  <2>5. kind = "delivery" => \A r \in Seqs : out[r].kind = "delivery" /\ out[r].tool = t
                                             => out[r].status = "gone"
      BY <1>3 DEF StageNew, Found
  <2>6. /\ Held' \subseteq Held \cup {q \in {s} : "chat" = "chat"}
        /\ Reserved' \subseteq Reserved \cup {q \in {s} : "chat" = "delta"}
        /\ Shown' \subseteq Shown /\ TodoKept
    <3>1. s \in Nat
        BY DEF Seqs
    <3> QED  BY <1>0, <2>3, <3>1, TakeHands
  <2>7. Held' \subseteq Held \cup {s} /\ Reserved' \subseteq Reserved
      BY <2>6
  <2>8. StageStep(s, kind, t)
      BY <2>1, <2>2, <2>3, <2>4, <2>5, <2>6, <2>7 DEF StageStep, ReceiptsKept
  <2> QED  BY <2>8 DEF OutboxStep
<1> QED  BY <1>1, <1>2, <1>3 DEF Stage, StageRefused

LEMMA CountersSame == run' = run => CountersKept
BY DEF CountersKept

\* An emitter whose frame stays the same.
LEMMA KeepHands ==
    ASSUME ActTyped, HandsInv, NEW a \in Actors, act[a].pc \in HandPC,
           NEW pc \in {"publish", "mark"}, act' = [act EXCEPT ![a].pc = pc]
    PROVE  /\ Held' \subseteq Held /\ Reserved' \subseteq Reserved /\ TodoKept
           /\ Shown' \subseteq Shown \cup {s \in {act[a].at} : pc = "publish"}
<1>1. \A b \in Actors : b # a => act'[b] = act[b]
    BY DEF ActTyped
<1>2. act'[a].pc = pc /\ act'[a].at = act[a].at /\ act'[a].todo = act[a].todo
    BY DEF ActTyped, EmitterType
<1>3. act[a].at \in Held
    BY DEF Held
<1>4. /\ Held' \subseteq Held /\ Reserved' \subseteq Reserved
      /\ Shown' \subseteq Shown \cup {s \in {act[a].at} : pc = "publish"}
    BY <1>1, <1>2, <1>3, OneEmitter DEF HandPC
<1>5. TodoKept
  <2>1. \A b \in Actors : act[b].todo \subseteq Succeeded
      BY DEF HandsInv, TodoInv
  <2> QED  BY <1>1, <1>2, <2>1 DEF TodoKept
<1> QED  BY <1>4, <1>5

LEMMA StoredNext ==
    ASSUME NEW s, chat' = Appended(Fact(s))
    PROVE  \E e \in chat'.events : e.idx = out[s].idx
<1>1. Fact(s).idx = out[s].idx
    BY DEF Fact
<1>2. CASE Stored(out[s].idx)
    BY <1>1, <1>2 DEF Appended, Stored
<1>3. CASE ~Stored(out[s].idx)
    BY <1>1, <1>3 DEF Appended
<1> QED  BY <1>2, <1>3

LEMMA EmitIsStep ==
    ASSUME OutboxTyped, HandsInv, FramesInv, FenceInv, NEW a \in Actors, Emit(a)
    PROVE  OutboxStep
<1>0. ActTyped /\ OutTyped /\ RowTyped
    BY TypedParts DEF PartsTyped
<1>1. CASE EmitStarted(a)
    BY <1>1, StageIsStep DEF EmitStarted
<1>2. CASE PersistChat(a)
  <2>1. PICK s \in Grasped : s = act[a].at /\ Spoken(s)
      BY <1>2, HeldIsFrame DEF PersistChat, HandPC, Grasped
  <2>2. \E e \in chat'.events : e.idx = out[s].idx
      BY <1>2, <2>1, StoredNext DEF PersistChat
  <2>3. /\ Held' \subseteq Held /\ Reserved' \subseteq Reserved /\ TodoKept
        /\ Shown' \subseteq Shown \cup {s}
    <3>1. CASE act' = [act EXCEPT ![a].pc = "publish"]
      <4>1. /\ Held' \subseteq Held /\ Reserved' \subseteq Reserved /\ TodoKept
            /\ Shown' \subseteq Shown \cup {q \in {act[a].at} : "publish" = "publish"}
          BY <1>0, <1>2, <3>1, KeepHands DEF PersistChat, HandPC
      <4> QED  BY <2>1, <4>1
    <3>2. CASE act' = Continue(a, InHand(a))
        BY <1>0, <3>2, ContinueHands
    <3> QED  BY <1>2, <3>1, <3>2 DEF PersistChat
  <2>4. TellStep(s)
      BY <1>2, <2>1, <2>2, <2>3 DEF TellStep, PersistChat, Spoken, CountersKept, ReceiptsKept
  <2> QED  BY <2>4 DEF OutboxStep
<1>3. CASE PublishEvent(a)
  <2>1. PICK s \in Grasped : s = act[a].at /\ Spoken(s) /\ s \in Shown
      BY <1>3, HeldIsFrame DEF PublishEvent, HandPC, Grasped
  <2>2. \E e \in chat'.events : e.idx = out[s].idx
      BY <1>3, <2>1 DEF PublishEvent, HandsInv, SpokenInv, Stored
  <2>3. /\ Held' \subseteq Held /\ Reserved' \subseteq Reserved /\ TodoKept
        /\ Shown' \subseteq Shown \cup {q \in {act[a].at} : "mark" = "publish"}
      BY <1>0, <1>3, KeepHands DEF PublishEvent, HandPC
  <2>4. TellStep(s)
      BY <1>3, <2>1, <2>2, <2>3 DEF TellStep, PublishEvent, CountersKept, ReceiptsKept
  <2> QED  BY <2>4 DEF OutboxStep
<1>4. CASE MarkPublished(a)
  <2>1. PICK s \in Grasped : s = act[a].at
      BY <1>4, HeldIsFrame DEF MarkPublished, HandPC, Grasped
  <2>2. MarkStep(s)
      BY <1>0, <1>4, <2>1, ContinueHands
         DEF MarkStep, MarkPublished, CountersKept, ReceiptsKept, HandsKept
  <2> QED  BY <2>2 DEF OutboxStep
<1>5. CASE EnsureDeliveries(a) \/ EnsureDone(a)
  <2>1. /\ Held' \subseteq Held /\ Shown' \subseteq Shown /\ Reserved' \subseteq Reserved
        /\ TodoKept
    <3>1. CASE act' = Raise(a)
        BY <1>0, <3>1, ContinueHands
    <3>2. CASE act' = [act EXCEPT ![a].pc = "each", ![a].then = "each", ![a].todo = Succeeded]
      <4>1. /\ \A b \in Actors : b # a => act'[b] = act[b]
            /\ act'[a].pc = "each" /\ act'[a].todo = Succeeded
          BY <1>0, <3>2 DEF ActTyped, EmitterType
      <4> QED  BY <1>0, <4>1, MoveHands DEF HandPC
    <3>3. CASE EnsureDone(a)
      <4>1. /\ \A b \in Actors : b # a => act'[b] = act[b]
            /\ act'[a].pc = "final" /\ act'[a].todo = act[a].todo
          BY <1>0, <3>3 DEF ActTyped, EmitterType, EnsureDone
      <4>2. act[a].todo \subseteq Succeeded
          BY DEF HandsInv, TodoInv
      <4> QED  BY <1>0, <4>1, <4>2, MoveHands DEF HandPC
    <3> QED  BY <1>5, <3>1, <3>2, <3>3 DEF EnsureDeliveries
  <2>2. QuietStep
      BY <1>5, <2>1 DEF QuietStep, EnsureDeliveries, EnsureDone, CountersKept, ReceiptsKept
  <2> QED  BY <2>2 DEF OutboxStep
<1>6. CASE EnsureOne(a)
  <2>1. PICK t \in act[a].todo : Stage(a, "delivery", t)
      BY <1>6 DEF EnsureOne
  <2>2. t \in Succeeded /\ t \in Tools
      BY <2>1 DEF HandsInv, TodoInv, Succeeded
  <2> QED  BY <1>6, <2>1, <2>2, StageIsStep DEF EnsureOne
<1> QED  BY <1>1, <1>2, <1>3, <1>4, <1>5, <1>6 DEF Emit

LEMMA WorkIsStep ==
    ASSUME OutboxTyped, HandsInv, FramesInv, FenceInv, NEW a \in Executors,
           \/ ExecutorDies(a) \/ ReserveIndex(a) \/ AppendFenced(a) \/ Drain(a)
           \/ FinalizeExecution(a)
           \/ \E t \in Tools : \/ JournalToolStarted(a, t) \/ JournalToolFinished(a, t)
                               \/ EmitDelivery(a, t)
    PROVE  OutboxStep
<1>0. ActTyped /\ OutTyped /\ RowTyped /\ RestTyped /\ a \in Actors
    BY TypedParts DEF PartsTyped, Actors
<1>1. CASE ExecutorDies(a)
  <2>1. QuietStep
      BY <1>0, <1>1, ContinueHands DEF ExecutorDies, QuietStep, CountersKept, ReceiptsKept
  <2> QED  BY <2>1 DEF OutboxStep
<1>2. CASE ReserveIndex(a) /\ Active(a)
  <2>1. act' = [act EXCEPT ![a].pc = "delta", ![a].at = run.index] /\ run.index \in Nat
      BY <1>0, <1>2 DEF ReserveIndex, RowTyped, RunType
  <2>2. /\ Held' \subseteq Held \cup {q \in {run.index} : "delta" = "chat"}
        /\ Reserved' \subseteq Reserved \cup {q \in {run.index} : "delta" = "delta"}
        /\ Shown' \subseteq Shown /\ TodoKept
      BY <1>0, <2>1, TakeHands
  <2>3. ReserveStep
      BY <1>2, <2>2 DEF ReserveIndex, Active, ReserveStep, ReceiptsKept
  <2> QED  BY <2>3 DEF OutboxStep
<1>3. CASE ReserveIndex(a) /\ ~Active(a)
  <2>1. QuietStep
      BY <1>0, <1>3, ContinueHands DEF ReserveIndex, QuietStep, CountersKept, ReceiptsKept
  <2> QED  BY <2>1 DEF OutboxStep
<1>4. CASE AppendFenced(a) /\ Active(a)
  <2>1. PICK i \in Reserved : i = act[a].at
      BY <1>0, <1>4 DEF AppendFenced, Reserved
  <2>2. DeltaStep(i)
      BY <1>0, <1>4, <2>1, ContinueHands
         DEF AppendFenced, Active, DeltaStep, CountersKept, ReceiptsKept, HandsKept
  <2> QED  BY <2>2 DEF OutboxStep
<1>5. CASE AppendFenced(a) /\ ~Active(a)
  <2>1. QuietStep
      BY <1>0, <1>5, ContinueHands DEF AppendFenced, QuietStep, CountersKept, ReceiptsKept
  <2> QED  BY <2>1 DEF OutboxStep
<1>6. CASE Drain(a)
  <2>1. /\ \A b \in Actors : b # a => act'[b] = act[b]
        /\ act'[a].pc = "ensure" /\ act'[a].todo = act[a].todo
      BY <1>0, <1>6 DEF ActTyped, EmitterType, Drain
  <2>2. act[a].todo \subseteq Succeeded
      BY <1>0 DEF HandsInv, TodoInv
  <2>3. QuietStep
      BY <1>0, <1>6, <2>1, <2>2, MoveHands DEF HandPC, Drain, QuietStep, CountersKept, ReceiptsKept
  <2> QED  BY <2>3 DEF OutboxStep
<1>7. CASE FinalizeExecution(a)
  <2>1. /\ \A b \in Actors : b # a => act'[b] = act[b]
        /\ act'[a].pc = "dead" /\ act'[a].todo = {}
      BY <1>0, <1>7 DEF ActTyped, EmitterType, FinalizeExecution, Idle
  <2>2. HandsKept
      BY <1>0, <1>7, <2>1, MoveHands DEF HandPC, FinalizeExecution, HandsKept
  <2>3. CASE UNCHANGED <<run, out, chat>>
    <3>1. QuietStep
        BY <1>7, <2>2, <2>3 DEF FinalizeExecution, HandsKept, QuietStep, CountersKept, ReceiptsKept
    <3> QED  BY <3>1 DEF OutboxStep
  <2>4. CASE /\ Active(a) /\ Nacked = {} /\ DeliveryReady(act[a].snap)
             /\ \E closing \in {0, 1} : CommitTerminal("end", closing)
    <3>1. PICK closing \in {0, 1} : CommitTerminal("end", closing)
        BY <2>4
    <3>2. act[a].snap \in SnapType
        BY <1>0 DEF ActTyped, EmitterType
    <3>3. CommitStep("end", closing, act[a].snap)
        BY <1>7, <2>2, <2>4, <3>1 DEF FinalizeExecution, Active, CommitStep, ReceiptsKept
    <3> QED  BY <3>2, <3>3 DEF OutboxStep
  <2> QED  BY <1>7, <2>3, <2>4 DEF FinalizeExecution
<1>8. ASSUME NEW t \in Tools, JournalToolStarted(a, t) \/ JournalToolFinished(a, t)
      PROVE  OutboxStep
  <2>1. Succeeded \subseteq Succeeded'
      BY <1>0, <1>8 DEF JournalToolStarted, JournalToolFinished, Succeeded, RestTyped
  <2>2. JournalStep
      BY <1>8, <2>1 DEF JournalToolStarted, JournalToolFinished, Active, JournalStep
  <2> QED  BY <2>2 DEF OutboxStep
<1>9. ASSUME NEW t \in Tools, EmitDelivery(a, t) PROVE OutboxStep
    BY <1>0, <1>9, StageIsStep DEF EmitDelivery
<1> QED  BY <1>1, <1>2, <1>3, <1>4, <1>5, <1>6, <1>7, <1>8, <1>9

LEMMA OthersAreStep ==
    ASSUME OutboxTyped, HandsInv, FramesInv, FenceInv,
           \/ LeaseEnds \/ TakeOver \/ RecordCancel \/ CancelSnapshot \/ CancelFence
           \/ FinalizeCancel \/ (\E a \in Actors : EmitFails(a))
    PROVE  OutboxStep
<1>0. ActTyped /\ OutTyped /\ RowTyped /\ RestTyped /\ Canceller \in Actors
    BY TypedParts DEF PartsTyped, Actors
<1>a. \A b \in Actors : act[b].todo \subseteq Succeeded
    BY DEF HandsInv, TodoInv
<1>1. CASE LeaseEnds \/ RecordCancel
  <2>1. UNCHANGED <<out, ledger, receipt, journal, chat, wire, act, rep>> /\ CountersKept
      BY <1>0, <1>1 DEF LeaseEnds, RecordCancel, CountersKept, RowTyped, RunType
  <2>2. TodoKept
      BY <1>a, <2>1 DEF TodoKept
  <2>3. Held' = Held /\ Shown' = Shown /\ Reserved' = Reserved
      BY <2>1 DEF Held, Shown, Reserved
  <2>4. QuietStep
      BY <2>1, <2>2, <2>3 DEF QuietStep, ReceiptsKept
  <2> QED  BY <2>4 DEF OutboxStep
<1>2. CASE TakeOver
  <2>1. PICK g \in Actors : g = run.gen + 1
      BY <1>0, <1>2 DEF TakeOver, RowTyped, RunType, Actors, Executors
  <2>2. PICK pc \in {"start", "work"} : act' = [act EXCEPT ![g] = [Idle EXCEPT !.pc = pc, !.gen = g]]
      BY <1>2, <2>1 DEF TakeOver
  <2>3. /\ \A b \in Actors : b # g => act'[b] = act[b]
        /\ act'[g].pc = pc /\ act'[g].todo = {}
      BY <1>0, <2>2 DEF ActTyped, EmitterType, Idle
  <2>4. CountersKept
      BY <1>0, <1>2 DEF TakeOver, CountersKept, RowTyped, RunType
  <2>5. QuietStep
      BY <1>0, <1>2, <2>3, <2>4, MoveHands DEF HandPC, TakeOver, QuietStep, ReceiptsKept
  <2> QED  BY <2>5 DEF OutboxStep
<1>3. CASE CancelSnapshot
  <2>1. /\ \A b \in Actors : b # Canceller => act'[b] = act[b]
        /\ act'[Canceller].pc = "fence" /\ act'[Canceller].todo = {}
      BY <1>0, <1>3 DEF CancelSnapshot, ActTyped, EmitterType, Idle
  <2>2. QuietStep
      BY <1>0, <1>3, <2>1, MoveHands
         DEF HandPC, CancelSnapshot, QuietStep, CountersKept, ReceiptsKept
  <2> QED  BY <2>2 DEF OutboxStep
<1>4. CASE CancelFence
  <2>1. /\ \A b \in Actors : b # Canceller => act'[b] = act[b]
        /\ act'[Canceller].pc = "ensure" /\ act'[Canceller].todo = act[Canceller].todo
      BY <1>0, <1>4 DEF CancelFence, ActTyped, EmitterType
  <2>2. QuietStep
      BY <1>0, <1>a, <1>4, <2>1, MoveHands
         DEF HandPC, CancelFence, QuietStep, CountersKept, ReceiptsKept
  <2> QED  BY <2>2 DEF OutboxStep
<1>5. CASE FinalizeCancel
  <2>1. /\ \A b \in Actors : b # Canceller => act'[b] = act[b]
        /\ act'[Canceller].pc = "idle" /\ act'[Canceller].todo = {}
      BY <1>0, <1>5 DEF FinalizeCancel, ActTyped, EmitterType, Idle
  <2>2. HandsKept
      BY <1>0, <1>5, <2>1, MoveHands DEF HandPC, FinalizeCancel, HandsKept
  <2>3. CASE UNCHANGED <<run, out, chat>>
    <3>1. QuietStep
        BY <1>5, <2>2, <2>3 DEF FinalizeCancel, HandsKept, QuietStep, CountersKept, ReceiptsKept
    <3> QED  BY <3>1 DEF OutboxStep
  <2>4. CASE /\ run.terminal = "none" /\ Nacked = {} /\ DeliveryReady(act[Canceller].snap)
             /\ \E closing \in {0, 1} : CommitTerminal("cancel", closing)
    <3>1. PICK closing \in {0, 1} : CommitTerminal("cancel", closing)
        BY <2>4
    <3>2. act[Canceller].snap \in SnapType
        BY <1>0 DEF ActTyped, EmitterType
    <3>3. CommitStep("cancel", closing, act[Canceller].snap)
        BY <1>5, <2>2, <2>4, <3>1 DEF FinalizeCancel, CommitStep, ReceiptsKept
    <3> QED  BY <3>2, <3>3 DEF OutboxStep
  <2> QED  BY <1>5, <2>3, <2>4 DEF FinalizeCancel, CancelLost
<1>6. ASSUME NEW a \in Actors, EmitFails(a) PROVE OutboxStep
  <2>1. /\ Held' \subseteq Held /\ Shown' \subseteq Shown /\ Reserved' \subseteq Reserved
        /\ TodoKept
      BY <1>0, <1>6, ContinueHands DEF EmitFails
  <2>2. CASE wire' = wire
    <3>1. QuietStep
        BY <1>6, <2>1, <2>2 DEF EmitFails, QuietStep, CountersKept, ReceiptsKept
    <3> QED  BY <3>1 DEF OutboxStep
  <2>3. CASE act[a].pc = "publish" /\ wire' = wire \cup {act[a].at}
    <3>1. PICK s \in Grasped : s = act[a].at /\ s \in Shown
        BY <2>3, HeldIsFrame DEF HandPC, Grasped
    <3>2. \E e \in chat'.events : e.idx = out[s].idx
        BY <1>6, <3>1 DEF EmitFails, HandsInv, SpokenInv, Stored
    <3>3. TellStep(s)
        BY <1>6, <2>1, <2>3, <3>1, <3>2 DEF EmitFails, TellStep, CountersKept, ReceiptsKept
    <3> QED  BY <3>3 DEF OutboxStep
  <2> QED  BY <1>6, <2>2, <2>3 DEF EmitFails
<1> QED  BY <1>1, <1>2, <1>3, <1>4, <1>5, <1>6

LEMMA HeartbeatIsStep ==
    ASSUME OutboxTyped, HandsInv, FramesInv, FenceInv,
           \/ RepublishScan \/ RepublishOne \/ RepublishMark \/ RepublishFails
           \/ ReconcileReceipts \/ ReadRejection \/ Quarantine
           \/ \E s \in Seqs : Receive(s)
           \/ UNCHANGED outboxVars
    PROVE  OutboxStep
<1>0. ActTyped /\ OutTyped /\ RowTyped /\ RestTyped /\ RepTyped
    BY TypedParts DEF PartsTyped
<1>a. \A b \in Actors : act[b].todo \subseteq Succeeded
    BY DEF HandsInv, TodoInv
<1>b. ASSUME act' = act
      PROVE  Held' = Held /\ Shown' = Shown /\ Reserved' = Reserved /\ TodoKept
    BY <1>a, <1>b DEF TodoKept, Held, Shown, Reserved
<1>1. CASE RepublishScan
  <2>1. rep'.list \subseteq {s \in Seqs : Live(s)}
      BY <1>1 DEF RepublishScan, Unpublished, Live
  <2>2. QuietStep
      BY <1>1, <1>b, <2>1 DEF RepublishScan, QuietStep, CountersKept, ReceiptsKept
  <2> QED  BY <2>2 DEF OutboxStep
<1>2. CASE RepublishOne
  <2>1. PICK s \in rep.list :
            LET verified == out[s].kind = "terminal" => TerminalVerified(s)
            IN  /\ chat' = Restored(s)
                /\ wire' = IF verified THEN wire \cup {s} ELSE wire
                /\ rep' = IF verified THEN [rep EXCEPT !.pc = "mark"] ELSE Blocked
      BY <1>2 DEF RepublishOne, Least
  <2>2. /\ chat' = Restored(s) /\ wire \subseteq wire' /\ wire' \subseteq wire \cup {s}
        /\ rep'.list \subseteq rep.list
        /\ s \in Grasped
      BY <1>0, <2>1 DEF Blocked, RepTyped, Grasped
  <2>3. Spoken(s) => \E e \in chat'.events : e.idx = out[s].idx
      BY <2>2, StoredNext DEF Spoken, Restored
  <2>4. TellStep(s)
      BY <1>2, <1>b, <2>2, <2>3 DEF RepublishOne, Restored, TellStep, CountersKept, ReceiptsKept
  <2> QED  BY <2>2, <2>4 DEF OutboxStep
<1>3. CASE RepublishMark
  <2>1. PICK s \in rep.list :
            /\ out' = Marked(s)
            /\ rep' = [pc |-> IF rep.list \ {s} = {} THEN "idle" ELSE "next",
                       list |-> rep.list \ {s}]
      BY <1>3 DEF RepublishMark, Least
  <2>2. MarkStep(s)
      BY <1>3, <1>b, <2>1 DEF RepublishMark, MarkStep, HandsKept, CountersKept, ReceiptsKept
  <2> QED  BY <2>1, <2>2 DEF OutboxStep, Grasped
<1>4. CASE RepublishFails
  <2>1. PICK s \in rep.list : chat' \in {chat, Restored(s)}
      BY <1>4 DEF RepublishFails, Least
  <2>2. rep'.list = {} /\ s \in Grasped
      BY <1>4 DEF RepublishFails, Blocked, Grasped
  <2>3. CASE chat' = chat
    <3>1. QuietStep
        BY <1>4, <1>b, <2>2, <2>3 DEF RepublishFails, QuietStep, CountersKept, ReceiptsKept
    <3> QED  BY <3>1 DEF OutboxStep
  <2>4. CASE chat' = Restored(s) /\ chat' # chat
    <3>1. out[s].kind \notin {"receipt", "terminal"} /\ chat' = Appended(Fact(s))
        BY <2>4 DEF Restored
    <3>2. \E e \in chat'.events : e.idx = out[s].idx
        BY <3>1, StoredNext
    <3>3. TellStep(s)
        BY <1>4, <1>b, <2>2, <3>1, <3>2
           DEF RepublishFails, TellStep, CountersKept, ReceiptsKept
    <3> QED  BY <2>2, <3>3 DEF OutboxStep
  <2> QED  BY <2>1, <2>3, <2>4
<1>5. CASE ReadRejection \/ UNCHANGED outboxVars
  <2>1. UNCHANGED <<run, out, ledger, receipt, journal, chat, wire, act, rep>>
      BY <1>5 DEF ReadRejection, outboxVars
  <2>2. QuietStep
      BY <1>b, <2>1 DEF QuietStep, CountersKept, ReceiptsKept
  <2> QED  BY <2>2 DEF OutboxStep
<1>6. CASE Quarantine /\ ~(nack \in Nacked /\ run.fence = 0)
  <2>1. UNCHANGED <<run, out, ledger, receipt, journal, chat, wire, act, rep>>
      BY <1>6 DEF Quarantine
  <2>2. QuietStep
      BY <1>b, <2>1 DEF QuietStep, CountersKept, ReceiptsKept
  <2> QED  BY <2>2 DEF OutboxStep
<1> QED  BY <1>1, <1>2, <1>3, <1>4, <1>5, <1>6 DEF OutboxStep

LEMMA NextIsStep ==
    ASSUME OutboxTyped, HandsInv, FramesInv, FenceInv, [OutboxNext]_outboxVars
    PROVE  OutboxStep
<1>1. Canceller \in Actors /\ Executors \subseteq Actors
    BY DEF Actors
<1>2. CASE \E a \in Actors : Emit(a)
    BY <1>2, EmitIsStep
<1>3. CASE \E a \in Executors : \/ ExecutorDies(a) \/ ReserveIndex(a) \/ AppendFenced(a) \/ Drain(a)
                                \/ FinalizeExecution(a)
                                \/ \E t \in Tools : \/ JournalToolStarted(a, t)
                                                    \/ JournalToolFinished(a, t)
                                                    \/ EmitDelivery(a, t)
    BY <1>3, WorkIsStep
<1>4. CASE \/ LeaseEnds \/ TakeOver \/ RecordCancel \/ CancelSnapshot \/ CancelFence
           \/ FinalizeCancel \/ (\E a \in Actors : EmitFails(a))
    BY <1>4, OthersAreStep
<1>5. CASE \/ RepublishScan \/ RepublishOne \/ RepublishMark \/ RepublishFails
           \/ ReconcileReceipts \/ ReadRejection \/ Quarantine
           \/ \E s \in Seqs : Receive(s)
           \/ UNCHANGED outboxVars
    BY <1>5, HeartbeatIsStep
<1> QED  BY <1>1, <1>2, <1>3, <1>4, <1>5 DEF OutboxNext, Cancel, Republish, Heartbeat

-----------------------------------------------------------------------------
(* Each kind of step keeps the invariant.                                  *)

OutboxCore == /\ FramesInv /\ FenceInv /\ HandsInv /\ ChatInv /\ WireInv
              /\ TerminalClosesChat /\ OneFactPerIndex /\ DeliveriesSurvive /\ ClosedIsReceived

\* The parts that speak only of the durable state, when it stays the same.
LEMMA DurableKept ==
    ASSUME OutboxCore, CountersKept, UNCHANGED <<out, chat, wire, ledger, receipt, journal>>
    PROVE  /\ FramesInv' /\ FenceInv' /\ ChatInv' /\ WireInv'
           /\ TerminalClosesChat' /\ OneFactPerIndex' /\ DeliveriesSurvive' /\ ClosedIsReceived'
<1>0. /\ FramesInv /\ FenceInv /\ ChatInv /\ WireInv
      /\ TerminalClosesChat /\ OneFactPerIndex /\ DeliveriesSurvive /\ ClosedIsReceived
    BY DEF OutboxCore
<1>1. FramesInv'
    BY <1>0 DEF FramesInv, CountersKept, Live, Succeeded
<1>2. FenceInv'
    BY <1>0 DEF FenceInv, CountersKept, Public, Spoken, Stored
<1>3. ChatInv'
    BY <1>0 DEF ChatInv, CountersKept
<1>4. WireInv'
    BY <1>0 DEF WireInv, CountersKept, Spoken, Stored
<1>5. TerminalClosesChat'
    BY <1>0 DEF TerminalClosesChat, CountersKept, Ended
<1>6. OneFactPerIndex'
    BY <1>0 DEF OneFactPerIndex, CountersKept, Live, Fact, TerminalVerified
<1>7. DeliveriesSurvive'
    BY <1>0 DEF DeliveriesSurvive, CountersKept, Live, InFlight, Succeeded
<1>8. ClosedIsReceived'
    BY <1>0 DEF ClosedIsReceived, CountersKept, Live
<1> QED  BY <1>1, <1>2, <1>3, <1>4, <1>5, <1>6, <1>7, <1>8

LEMMA QuietKeeps ==
    ASSUME OutboxTyped, OutboxCore, QuietStep
    PROVE  OutboxCore'
<1>0. HandsInv /\ FramesInv /\ OneFactPerIndex /\ RowTyped
    BY TypedParts DEF OutboxCore, PartsTyped
<1>1. /\ FramesInv' /\ FenceInv' /\ ChatInv' /\ WireInv'
      /\ TerminalClosesChat' /\ OneFactPerIndex' /\ DeliveriesSurvive' /\ ClosedIsReceived'
    BY DurableKept DEF QuietStep, ReceiptsKept
<1>2. HandsInv'
  <2>1. ASSUME NEW s \in Seqs, Live(s)
        PROVE  /\ s \in 1..run.durable /\ out[s].idx < run.index
               /\ out[s].status # "superseded"
               /\ \A r \in Seqs : Live(r) /\ out[r].idx = out[s].idx => r = s
      BY <1>0, <2>1 DEF FramesInv, OneFactPerIndex, Live, RowTyped, RunType, Seqs
  <2>2. Grasped' \subseteq Grasped \cup {s \in Seqs : Live(s)}
      BY DEF QuietStep, Grasped
  <2>3. GraspInv'
      BY <1>0, <2>1, <2>2 DEF HandsInv, GraspInv, QuietStep, CountersKept, Live
  <2>4. SpokenInv'
      BY <1>0 DEF HandsInv, SpokenInv, QuietStep, Spoken, Stored
  <2>6. ReservedInv'
      BY <1>0 DEF HandsInv, ReservedInv, QuietStep, CountersKept, Live
  <2>7. TodoInv'
      BY DEF TodoInv, QuietStep, TodoKept, ReceiptsKept, Succeeded
  <2> QED  BY <2>3, <2>4, <2>6, <2>7 DEF HandsInv
<1> QED  BY <1>1, <1>2 DEF OutboxCore

LEMMA JournalKeeps ==
    ASSUME OutboxTyped, OutboxCore, JournalStep
    PROVE  OutboxCore'
<1>0. /\ FramesInv /\ FenceInv /\ HandsInv /\ ChatInv /\ WireInv
      /\ TerminalClosesChat /\ OneFactPerIndex /\ DeliveriesSurvive /\ ClosedIsReceived
    BY DEF OutboxCore
<1> USE DEF JournalStep
<1>1. FramesInv'
    BY <1>0 DEF FramesInv, Live
<1>2. FenceInv'
    BY <1>0 DEF FenceInv, Public, Spoken, Stored
<1>3. HandsInv'
  <2>1. Held' = Held /\ Shown' = Shown /\ Reserved' = Reserved /\ Grasped' = Grasped
      BY DEF Held, Shown, Reserved, Grasped
  <2>2. GraspInv'
      BY <1>0, <2>1 DEF HandsInv, GraspInv, Live
  <2>3. SpokenInv'
      BY <1>0, <2>1 DEF HandsInv, SpokenInv, Spoken, Stored
  <2>4. ReservedInv'
      BY <1>0, <2>1 DEF HandsInv, ReservedInv, Live
  <2>5. TodoInv'
      BY <1>0 DEF HandsInv, TodoInv
  <2> QED  BY <2>2, <2>3, <2>4, <2>5 DEF HandsInv
<1>4. ChatInv' /\ WireInv' /\ TerminalClosesChat' /\ ClosedIsReceived'
    BY <1>0 DEF ChatInv, WireInv, Spoken, Stored, TerminalClosesChat, Ended, ClosedIsReceived, Live
<1>5. OneFactPerIndex'
    BY <1>0 DEF OneFactPerIndex, Live, Fact, TerminalVerified
<1>6. DeliveriesSurvive'
    BY <1>0 DEF DeliveriesSurvive, Live
<1> QED  BY <1>1, <1>2, <1>3, <1>4, <1>5, <1>6 DEF OutboxCore

LEMMA ReserveKeeps ==
    ASSUME OutboxTyped, OutboxCore, ReserveStep
    PROVE  OutboxCore'
<1>0. /\ FramesInv /\ FenceInv /\ HandsInv /\ ChatInv /\ WireInv
      /\ TerminalClosesChat /\ OneFactPerIndex /\ DeliveriesSurvive /\ ClosedIsReceived
      /\ RowTyped /\ OutTyped /\ ChatTyped /\ ActTyped
    BY TypedParts DEF OutboxCore, PartsTyped
<1>a. /\ run'.durable = run.durable /\ run'.fence = run.fence /\ run'.terminal = "none"
      /\ run.terminal = "none" /\ run'.index = run.index + 1 /\ run.index \in Nat
    BY <1>0 DEF ReserveStep, RowTyped, RunType
<1>b. /\ UNCHANGED <<out, chat, wire, ledger, receipt, journal>>
    BY DEF ReserveStep, ReceiptsKept
<1>c. \A i : i \in Nat /\ i < run.index => i < run.index + 1
    BY <1>a
<1>1. FramesInv'
  <2>1. \A s \in Seqs : out[s].idx \in Nat
      BY <1>0 DEF OutTyped, OutboxFrame
  <2> QED  BY <1>0, <1>a, <1>b, <1>c, <2>1 DEF FramesInv, Live, Succeeded
<1>2. FenceInv'
    BY <1>0, <1>a, <1>b DEF FenceInv, Public, Spoken, Stored
<1>3. HandsInv'
  <2>1. \A s \in Seqs : out[s].idx \in Nat
      BY <1>0 DEF OutTyped, OutboxFrame
  <2>2. Grasped \subseteq Seqs /\ Grasped' \subseteq Grasped
      BY <1>0, HeldIsFrame DEF ReserveStep, Grasped
  <2>3. GraspInv'
    <3>1. \A s \in Grasped : out[s].idx < run.index + 1
        BY <1>0, <1>c, <2>1, <2>2 DEF HandsInv, GraspInv
    <3> QED  BY <1>0, <1>a, <1>b, <2>2, <3>1 DEF HandsInv, GraspInv, Live
  <2>4. SpokenInv'
      BY <1>0, <1>b DEF HandsInv, SpokenInv, Spoken, Stored, ReserveStep
  <2>5. ReservedInv'
    <3>1. \A i \in Reserved : i \in Nat
        BY <1>0 DEF Reserved, ActTyped, EmitterType
    <3>2. \A i \in Reserved : i < run.index + 1 /\ \A s \in Seqs : Live(s) => out[s].idx # i
        BY <1>0, <1>c, <3>1 DEF HandsInv, ReservedInv
    <3>3. run.index < run.index + 1 /\ \A s \in Seqs : Live(s) => out[s].idx # run.index
        BY <1>0, <1>a, <2>1 DEF FramesInv
    <3> QED  BY <1>a, <1>b, <3>2, <3>3 DEF ReservedInv, ReserveStep, Live
  <2>6. TodoInv'
      BY <1>b DEF TodoInv, ReserveStep, TodoKept, Succeeded
  <2> QED  BY <2>3, <2>4, <2>5, <2>6 DEF HandsInv
<1>4. ChatInv'
  <2>1. \A e \in chat.events : e.idx \in Nat
      BY <1>0 DEF ChatTyped, FactType
  <2> QED  BY <1>0, <1>a, <1>b, <1>c, <2>1 DEF ChatInv
<1>5. WireInv' /\ TerminalClosesChat' /\ ClosedIsReceived'
    BY <1>0, <1>a, <1>b
       DEF WireInv, Spoken, Stored, TerminalClosesChat, Ended, ClosedIsReceived, Live
<1>6. OneFactPerIndex'
  <2>1. \A s \in Seqs : Live(s) => out[s].kind # "terminal"
      BY <1>0, <1>a DEF OneFactPerIndex, TerminalVerified
  <2> QED  BY <1>0, <1>a, <1>b, <2>1 DEF OneFactPerIndex, Live, Fact
<1>7. DeliveriesSurvive'
    BY <1>0, <1>a, <1>b DEF DeliveriesSurvive, Live, InFlight, Succeeded
<1> QED  BY <1>1, <1>2, <1>3, <1>4, <1>5, <1>6, <1>7 DEF OutboxCore

\* The facts are only added to, and an append of a fact that belongs to its
\* index keeps what the chat promises.
LEMMA AppendKeeps ==
    ASSUME OutboxTyped, OutboxCore, NEW e, chat' = Appended(e), out' = out,
           CountersKept, ReceiptsKept, e.idx < run.index, e.kind # "terminal",
           \A r \in Seqs : Live(r) /\ out[r].idx = e.idx => e = Fact(r),
           Public => Stored(e.idx)
    PROVE  /\ chat.events \subseteq chat'.events
           /\ FramesInv' /\ FenceInv' /\ ChatInv'
           /\ TerminalClosesChat' /\ OneFactPerIndex' /\ DeliveriesSurvive' /\ ClosedIsReceived'
<1>0. /\ FramesInv /\ FenceInv /\ ChatInv /\ ClosedIsReceived
      /\ TerminalClosesChat /\ OneFactPerIndex /\ DeliveriesSurvive
    BY DEF OutboxCore
<1>1. chat.events \subseteq chat'.events /\ chat'.events \subseteq chat.events \cup {e}
    BY DEF Appended
<1>2. FramesInv' /\ ClosedIsReceived'
    BY <1>0 DEF FramesInv, ClosedIsReceived, CountersKept, ReceiptsKept, Live, Succeeded
<1>3. FenceInv'
    BY <1>0, <1>1 DEF FenceInv, CountersKept, ReceiptsKept, Public, Spoken, Stored
<1>4. ChatInv'
    BY <1>0, <1>1 DEF ChatInv, CountersKept
<1>5. TerminalClosesChat'
  <2>1. CASE Public
    <3>1. chat' = chat
        BY <2>1 DEF Appended
    <3> QED  BY <1>0, <3>1 DEF TerminalClosesChat, CountersKept, Ended
  <2>2. CASE ~Public
    <3>1. Ended = {}
        BY <1>0, <2>2 DEF TerminalClosesChat, Public
    <3>2. Ended' = {}
        BY <1>1, <3>1 DEF Ended
    <3> QED  BY <2>2, <3>2 DEF TerminalClosesChat, Public, CountersKept
  <2> QED  BY <2>1, <2>2
<1>6. OneFactPerIndex'
  <2>1. \A s \in Seqs : \A f \in chat'.events : Live(s) /\ f.idx = out[s].idx => f = Fact(s)
      BY <1>0, <1>1 DEF OneFactPerIndex
  <2>2. \A s \in Seqs : Live(s) /\ out[s].kind = "terminal" =>
            /\ run.terminal # "none" /\ s = run.fence /\ out[s].idx + 1 = run.index
            /\ Fact(s) \in chat'.events
      BY <1>0, <1>1 DEF OneFactPerIndex, TerminalVerified
  <2> QED  BY <1>0, <2>1, <2>2 DEF OneFactPerIndex, TerminalVerified, CountersKept, Live, Fact
<1>7. DeliveriesSurvive'
    BY <1>0, <1>1 DEF DeliveriesSurvive, CountersKept, ReceiptsKept, Live, InFlight, Succeeded
<1> QED  BY <1>1, <1>2, <1>3, <1>4, <1>5, <1>6, <1>7

LEMMA TellKeeps ==
    ASSUME OutboxTyped, OutboxCore, NEW s \in Grasped, TellStep(s)
    PROVE  OutboxCore'
<1>0. /\ FramesInv /\ FenceInv /\ HandsInv /\ ChatInv /\ WireInv /\ OneFactPerIndex
      /\ RowTyped /\ OutTyped /\ s \in Seqs
    BY TypedParts, HeldIsFrame DEF OutboxCore, PartsTyped
<1>1. /\ chat.events \subseteq chat'.events
      /\ FramesInv' /\ FenceInv' /\ ChatInv'
      /\ TerminalClosesChat' /\ OneFactPerIndex' /\ DeliveriesSurvive' /\ ClosedIsReceived'
  <2>1. CASE chat' = chat
    <3>1. UNCHANGED <<out, chat, ledger, receipt, journal>> /\ CountersKept
        BY <2>1 DEF TellStep, ReceiptsKept
    <3>2. FramesInv' /\ FenceInv' /\ ChatInv'
        BY <1>0, <3>1 DEF FramesInv, FenceInv, ChatInv, CountersKept, Live, Succeeded, Public,
                          Spoken, Stored
    <3>3. TerminalClosesChat' /\ DeliveriesSurvive' /\ ClosedIsReceived'
        BY <3>1 DEF OutboxCore, TerminalClosesChat, DeliveriesSurvive, ClosedIsReceived,
                    CountersKept, Live, Ended, InFlight, Succeeded
    <3>4. OneFactPerIndex'
        BY <1>0, <3>1 DEF OneFactPerIndex, CountersKept, Live, Fact, TerminalVerified
    <3> QED  BY <2>1, <3>2, <3>3, <3>4
  <2>2. CASE out[s].kind \notin {"receipt", "terminal"} /\ chat' = Appended(Fact(s))
    <3>1. /\ Fact(s).idx = out[s].idx /\ Fact(s).kind = out[s].kind
          /\ out[s].idx < run.index
          /\ \A r \in Seqs : Live(r) /\ out[r].idx = out[s].idx => r = s
        BY <1>0 DEF Fact, HandsInv, GraspInv
    <3>2. Public => Stored(out[s].idx)
      <4>1. s <= run.durable /\ (out[s].status = "superseded" => run.terminal = "quarantine")
          BY <1>0 DEF HandsInv, GraspInv, RowTyped, RunType
      <4>2. out[s].status # "none"
          BY <1>0, <4>1 DEF FramesInv
      <4>3. Spoken(s)
          BY <1>0, <2>2, <4>2 DEF OutTyped, OutboxFrame, Spoken
      <4> QED  BY <1>0, <4>1, <4>2, <4>3 DEF FenceInv, Public
    <3>3. \A r \in Seqs : Live(r) /\ out[r].idx = Fact(s).idx => Fact(s) = Fact(r)
        BY <3>1
    <3>4. out' = out /\ CountersKept /\ ReceiptsKept
        BY DEF TellStep
    <3> QED  BY <2>2, <3>1, <3>2, <3>3, <3>4, AppendKeeps
  <2> QED  BY <2>1, <2>2 DEF TellStep
<1>2. HandsInv'
  <2>1. GraspInv'
      BY <1>0 DEF HandsInv, GraspInv, TellStep, Grasped, CountersKept, Live
  <2>2. SpokenInv'
      BY <1>0, <1>1 DEF HandsInv, SpokenInv, TellStep, Spoken, Stored
  <2>3. ReservedInv'
      BY <1>0 DEF HandsInv, ReservedInv, TellStep, CountersKept, Live
  <2>4. TodoInv'
      BY DEF TodoInv, TellStep, TodoKept, ReceiptsKept, Succeeded
  <2> QED  BY <2>1, <2>2, <2>3, <2>4 DEF HandsInv
<1>3. WireInv'
  <2>1. s <= run.durable
      BY <1>0 DEF HandsInv, GraspInv, RowTyped, RunType
  <2>2. \A r \in wire' : r <= run.durable
                         /\ (Spoken(r) => \E e \in chat'.events : e.idx = out[r].idx)
    <3>1. \A r \in wire : r <= run.durable
                          /\ (Spoken(r) => \E e \in chat'.events : e.idx = out[r].idx)
        BY <1>0, <1>1 DEF WireInv, Stored
    <3> QED  BY <2>1, <3>1 DEF TellStep
  <2>3. \A r \in Seqs : receipt[r] # "none" => r \in wire'
      BY <1>0 DEF WireInv, TellStep
  <2> QED  BY <1>0, <2>2, <2>3 DEF WireInv, TellStep, CountersKept, ReceiptsKept, Spoken, Stored
<1> QED  BY <1>1, <1>2, <1>3 DEF OutboxCore

LEMMA DeltaKeeps ==
    ASSUME OutboxTyped, OutboxCore, NEW i \in Reserved, DeltaStep(i)
    PROVE  OutboxCore'
<1>0. /\ FramesInv /\ FenceInv /\ HandsInv /\ ChatInv /\ WireInv /\ OneFactPerIndex
    BY DEF OutboxCore
<1>1. /\ chat.events \subseteq chat'.events
      /\ FramesInv' /\ FenceInv' /\ ChatInv'
      /\ TerminalClosesChat' /\ OneFactPerIndex' /\ DeliveriesSurvive' /\ ClosedIsReceived'
  <2> DEFINE e == [kind |-> "delta", tool |-> "none", idx |-> i]
  <2>1. e.idx < run.index /\ e.kind # "terminal" /\ chat' = Appended(e)
      BY <1>0 DEF HandsInv, ReservedInv, DeltaStep
  <2>2. \A r \in Seqs : Live(r) /\ out[r].idx = e.idx => e = Fact(r)
      BY <1>0 DEF HandsInv, ReservedInv
  <2>3. Public => Stored(e.idx)
      BY DEF Public, DeltaStep
  <2> HIDE DEF e
  <2>4. out' = out /\ CountersKept /\ ReceiptsKept
      BY DEF DeltaStep
  <2> QED  BY <2>1, <2>2, <2>3, <2>4, AppendKeeps
<1>2. HandsInv'
  <2>1. GraspInv'
      BY <1>0 DEF HandsInv, GraspInv, DeltaStep, HandsKept, Grasped, CountersKept, Live
  <2>2. SpokenInv'
      BY <1>0, <1>1 DEF HandsInv, SpokenInv, DeltaStep, HandsKept, Spoken, Stored
  <2>3. ReservedInv'
      BY <1>0 DEF HandsInv, ReservedInv, DeltaStep, HandsKept, CountersKept, Live
  <2>4. TodoInv'
      BY DEF TodoInv, DeltaStep, HandsKept, TodoKept, ReceiptsKept, Succeeded
  <2> QED  BY <2>1, <2>2, <2>3, <2>4 DEF HandsInv
<1>3. WireInv'
    BY <1>0, <1>1 DEF WireInv, DeltaStep, CountersKept, ReceiptsKept, Spoken, Stored
<1> QED  BY <1>1, <1>2, <1>3 DEF OutboxCore

LEMMA MarkKeeps ==
    ASSUME OutboxTyped, OutboxCore, NEW s \in Grasped, MarkStep(s)
    PROVE  OutboxCore'
<1>0. /\ FramesInv /\ FenceInv /\ HandsInv /\ ChatInv /\ WireInv
      /\ TerminalClosesChat /\ OneFactPerIndex /\ DeliveriesSurvive /\ ClosedIsReceived
      /\ RowTyped /\ OutTyped /\ s \in Seqs /\ Grasped \subseteq Seqs
    BY TypedParts, HeldIsFrame DEF OutboxCore, PartsTyped
<1>1. ASSUME NEW r \in Seqs
      PROVE  /\ out'[r].kind = out[r].kind /\ out'[r].tool = out[r].tool /\ out'[r].idx = out[r].idx
             /\ \A st \in {"none", "superseded", "gone"} : out'[r].status = st <=> out[r].status = st
             /\ out'[r].status \in {"queued", "published"} <=> out[r].status \in {"queued", "published"}
    BY <1>0 DEF MarkStep, Marked, OutTyped, OutboxFrame
<1>2. UNCHANGED <<chat, wire, ledger, receipt, journal>> /\ CountersKept
    BY DEF MarkStep, ReceiptsKept
<1>3. FramesInv'
    BY <1>0, <1>1, <1>2 DEF FramesInv, CountersKept, Live, Succeeded
<1>4. FenceInv'
    BY <1>0, <1>1, <1>2 DEF FenceInv, CountersKept, Public, Spoken, Stored
<1>5. HandsInv'
  <2>0. /\ Held' \subseteq Held /\ Shown' \subseteq Shown /\ Reserved' \subseteq Reserved
        /\ Grasped' \subseteq Grasped /\ Held \subseteq Seqs /\ Shown \subseteq Held
      BY <1>0 DEF MarkStep, HandsKept, Grasped, Shown, Held, HandPC
  <2>1. GraspInv'
      BY <1>0, <1>1, <1>2, <2>0 DEF HandsInv, GraspInv, CountersKept, Live
  <2>2. SpokenInv'
      BY <1>0, <1>1, <1>2, <2>0 DEF HandsInv, SpokenInv, Spoken, Stored
  <2>3. ReservedInv'
      BY <1>0, <1>1, <1>2, <2>0 DEF HandsInv, ReservedInv, CountersKept, Live
  <2>4. TodoInv'
      BY <1>2 DEF TodoInv, MarkStep, HandsKept, TodoKept, Succeeded
  <2> QED  BY <2>1, <2>2, <2>3, <2>4 DEF HandsInv
<1>6. ChatInv' /\ TerminalClosesChat'
    BY <1>0, <1>2 DEF ChatInv, TerminalClosesChat, CountersKept, Ended
<1>7. WireInv'
  <2>1. wire \subseteq Seqs
      BY TypedParts DEF PartsTyped, RestTyped
  <2> QED  BY <1>0, <1>1, <1>2, <2>1 DEF WireInv, CountersKept, Spoken, Stored
<1>8. OneFactPerIndex'
  <2>1. \A r \in Seqs : Fact(r)' = Fact(r) /\ Live(r)' = Live(r)
      BY <1>1 DEF Fact, Live
  <2>2. \A r \in Seqs : TerminalVerified(r) => TerminalVerified(r)'
      BY <1>1, <1>2, <2>1 DEF TerminalVerified, CountersKept
  <2> QED  BY <1>0, <1>1, <1>2, <2>1, <2>2 DEF OneFactPerIndex
<1>9. DeliveriesSurvive' /\ ClosedIsReceived'
    BY <1>0, <1>1, <1>2
       DEF DeliveriesSurvive, ClosedIsReceived, CountersKept, Live, InFlight, Succeeded
<1> QED  BY <1>3, <1>4, <1>5, <1>6, <1>7, <1>8, <1>9 DEF OutboxCore

LEMMA StageKeeps ==
    ASSUME OutboxTyped, OutboxCore, NEW s \in Seqs, NEW kind \in {"started", "delivery"},
           NEW t \in Tools \cup {"none"}, StageStep(s, kind, t)
    PROVE  OutboxCore'
<1>0. /\ FramesInv /\ FenceInv /\ HandsInv /\ ChatInv /\ WireInv
      /\ TerminalClosesChat /\ OneFactPerIndex /\ DeliveriesSurvive /\ ClosedIsReceived
      /\ RowTyped /\ OutTyped /\ ChatTyped /\ ActTyped /\ RestTyped /\ Grasped \subseteq Seqs
    BY TypedParts, HeldIsFrame DEF OutboxCore, PartsTyped
<1>a. /\ run.index \in Nat /\ run.durable \in Nat /\ run.fence \in Nat
      /\ \A r \in Seqs : r \in Nat /\ out[r].idx \in Nat
      /\ \A e \in chat.events : e.idx \in Nat
      /\ \A i \in Reserved : i \in Nat
    BY <1>0 DEF RowTyped, RunType, OutTyped, OutboxFrame, ChatTyped, FactType, Reserved,
                ActTyped, EmitterType, Seqs
<1>b. s = run.durable + 1 /\ run'.durable = s /\ run'.fence = run.fence
      /\ run'.terminal = run.terminal /\ (run'.index = run.index \/ run'.index = run.index + 1)
      /\ UNCHANGED <<chat, wire, ledger, receipt, journal>>
    BY DEF StageStep, ReceiptsKept
<1>c. out[s].status = "none" /\ out[s].kind = "none" /\ s \notin wire /\ s \notin Grasped
  <2>1. ~(s <= run.durable)
      BY <1>a, <1>b
  <2>2. \A r \in Grasped : r <= run.durable
      BY <1>0, <1>a DEF HandsInv, GraspInv
  <2> QED  BY <1>0, <2>1, <2>2 DEF FramesInv, OutTyped, WireInv
<1>d. /\ out'[s].kind = kind /\ out'[s].tool = t
      /\ \A r \in Seqs : r # s => out'[r] = out[r]
      /\ out'[s].status \in {"queued", "superseded"}
    BY <1>0 DEF StageStep, OutTyped
<1>e. \A r \in Seqs : r <= s <=> r <= run.durable \/ r = s
    BY <1>a, <1>b
<1>f. /\ Shown' \subseteq Shown /\ Reserved' \subseteq Reserved /\ TodoKept
      /\ Held' \subseteq Held \cup {s}
    BY DEF StageStep
<1>1. \A r \in Seqs : out'[r].status # "none" <=> r <= run'.durable
    BY <1>0, <1>b, <1>d, <1>e DEF FramesInv
<1>2. \A r \in Seqs : out'[r].kind = "delivery" => out'[r].tool \in Succeeded'
  <2>1. Succeeded' = Succeeded
      BY <1>b DEF Succeeded
  <2>2. kind = "delivery" => t \in Succeeded
      BY DEF StageStep
  <2> QED  BY <1>0, <1>d, <2>1, <2>2 DEF FramesInv
<1>3. run.terminal = "none" => \A q, r \in Seqs :
        out'[q].kind = "delivery" /\ out'[r].kind = "delivery" /\ out'[q].tool = out'[r].tool
        => q = r
  <2>1. SUFFICES ASSUME run.terminal = "none"
                 PROVE  \A q, r \in Seqs : out'[q].kind = "delivery" /\ out'[r].kind = "delivery"
                            /\ out'[q].tool = out'[r].tool => q = r
      OBVIOUS
  <2>2. \A r \in Seqs : out[r].kind = "delivery" => out[r].status # "gone"
      BY <1>0, <2>1 DEF DeliveriesSurvive, Live
  <2>3. kind = "delivery" => \A r \in Seqs : ~(out[r].kind = "delivery" /\ out[r].tool = t)
      BY <2>2 DEF StageStep
  <2> QED  BY <1>0, <1>d, <2>1, <2>3 DEF FramesInv
<1>4. \A r \in 1..run.durable : r \in 1..s /\ r \in Seqs /\ r # s
  <2>1. s \in 1..MaxSeq
      BY DEF Seqs
  <2> QED  BY <1>a, <1>b, <2>1 DEF Seqs
<1>5. WireInv'
  <2>1. \A r \in wire : r \in Seqs /\ r # s
      BY <1>0, <1>c DEF RestTyped
  <2>2. \A r \in wire : r <= s /\ (out'[r].kind \in {"started", "delivery"}
                                    => Stored(out'[r].idx))
      BY <1>0, <1>d, <1>e, <2>1 DEF WireInv, Spoken
  <2>3. \A r \in Seqs : out'[r].status = "gone" => out[r].status = "gone"
      BY <1>d
  <2> QED  BY <1>0, <1>b, <2>2, <2>3 DEF WireInv, Spoken, Stored
<1>6. ChatInv'
    BY <1>0, <1>a, <1>b DEF ChatInv
<1>7. TerminalClosesChat'
    BY <1>0, <1>b DEF TerminalClosesChat, Ended
<1>8. SpokenInv' /\ TodoInv'
  <2>1. \A r \in Held : r \in Seqs /\ r # s
      BY <1>0, <1>c DEF Grasped
  <2>2. Spoken(s)'
      BY <1>d DEF Spoken
  <2>3. \A r \in Held' : Spoken(r)'
      BY <1>0, <1>d, <1>f, <2>1, <2>2 DEF HandsInv, SpokenInv, Spoken
  <2>4. Shown \subseteq Held
      BY DEF Shown, Held, HandPC
  <2>5. \A r \in Shown' : Stored(out'[r].idx)
      BY <1>0, <1>d, <1>f, <2>1, <2>4 DEF HandsInv, SpokenInv
  <2> QED  BY <1>b, <1>f, <2>3, <2>5 DEF SpokenInv, TodoInv, TodoKept, Succeeded, Stored
<1>9. CASE run.fence = 0
  <2>0. run.terminal = "none"
      BY <1>0, <1>9 DEF FenceInv
  <2>1. /\ run'.index = run.index + 1
        /\ out'[s] = [kind |-> kind, tool |-> t, status |-> "queued", idx |-> run.index]
        /\ Held' \subseteq Held \cup {s} /\ rep'.list \subseteq rep.list
      BY <1>0, <1>9 DEF StageStep, OutTyped
  <2>2. /\ out'[s].idx = run.index /\ out'[s].status = "queued"
        /\ \A r \in Seqs : Live(r)' <=> Live(r) \/ r = s
      BY <1>d, <2>1 DEF Live
  <2>3. FramesInv'
    <3>1. \A r \in Seqs : Live(r)' => out'[r].idx < run'.index
        BY <1>0, <1>a, <1>d, <2>1, <2>2 DEF FramesInv
    <3> QED  BY <1>1, <1>2, <1>3, <1>b, <3>1 DEF FramesInv
  <2>4. FenceInv'
    <3>1. run.fence <= s
        BY <1>a, <1>9
    <3> QED  BY <1>0, <1>b, <2>0, <3>1 DEF FenceInv, Public
  <2>5. GraspInv'
    <3>1. Grasped' \subseteq Grasped \cup {s}
        BY <2>1 DEF Grasped
    <3>2. ASSUME NEW q \in Grasped
          PROVE  /\ q \in 1..s /\ out'[q].idx < run.index + 1
                 /\ out'[q].status = "superseded" => run.terminal = "quarantine"
                 /\ \A r \in Seqs : Live(r)' /\ out'[r].idx = out'[q].idx => r = q
      <4>1. q \in Seqs /\ q # s /\ out'[q] = out[q] /\ q \in 1..run.durable
          BY <1>0, <1>c, <1>d DEF HandsInv, GraspInv
      <4>2. out[q].idx < run.index
          BY <1>0 DEF HandsInv, GraspInv
      <4>3. out[q].idx < run.index + 1 /\ out[q].idx # run.index
          BY <1>a, <4>1, <4>2
      <4>4. \A r \in Seqs : Live(r)' /\ out'[r].idx = out'[q].idx => r = q
          BY <1>0, <1>d, <2>2, <4>1, <4>3 DEF HandsInv, GraspInv
      <4> QED  BY <1>0, <1>4, <4>1, <4>3, <4>4 DEF HandsInv, GraspInv
    <3>3. /\ s \in 1..s /\ out'[s].idx < run.index + 1 /\ out'[s].status # "superseded"
          /\ \A r \in Seqs : Live(r)' /\ out'[r].idx = out'[s].idx => r = s
      <4>1. s \in 1..s /\ run.index < run.index + 1
          BY <1>a DEF Seqs
      <4>2. \A r \in Seqs : Live(r) => out[r].idx < run.index /\ out[r].idx # run.index
          BY <1>0, <1>a DEF FramesInv
      <4> QED  BY <1>d, <2>2, <4>1, <4>2
    <3> QED  BY <1>b, <2>1, <3>1, <3>2, <3>3 DEF GraspInv
  <2>6. ReservedInv'
    <3>1. \A i \in Reserved : i < run.index + 1 /\ i # run.index
        BY <1>0, <1>a DEF HandsInv, ReservedInv
    <3>2. \A i \in Reserved : \A r \in Seqs : Live(r)' => out'[r].idx # i
        BY <1>0, <1>d, <2>2, <3>1 DEF HandsInv, ReservedInv
    <3> QED  BY <1>f, <2>1, <3>1, <3>2 DEF ReservedInv
  <2>7. OneFactPerIndex'
    <3>1. \A e \in chat.events : e.idx # run.index
        BY <1>0, <1>a DEF ChatInv
    <3>2. \A r \in Seqs : Live(r) => out[r].idx # run.index /\ out[r].kind # "terminal"
        BY <1>0, <1>a, <2>0 DEF FramesInv, OneFactPerIndex, TerminalVerified
    <3>3. \A r \in Seqs : \A e \in chat.events :
            Live(r)' /\ e.idx = out'[r].idx => e = Fact(r)'
        BY <1>0, <1>d, <2>2, <3>1 DEF OneFactPerIndex, Fact
    <3>4. \A q, r \in Seqs : Live(q)' /\ Live(r)' /\ out'[q].idx = out'[r].idx => q = r
        BY <1>0, <1>d, <2>2, <3>2 DEF OneFactPerIndex
    <3>5. \A r \in Seqs : Live(r)' => out'[r].kind # "terminal"
        BY <1>d, <2>2, <3>2
    <3> QED  BY <1>b, <3>3, <3>4, <3>5 DEF OneFactPerIndex
  <2>8. DeliveriesSurvive'
    <3>1. \A r \in Seqs : out'[r].kind = "delivery" => Live(r)'
        BY <1>0, <1>d, <2>0, <2>2 DEF DeliveriesSurvive
    <3> QED  BY <1>b, <2>0, <3>1 DEF DeliveriesSurvive
  <2>9. ClosedIsReceived'
    <3>1. ~ledger.close
        BY <1>0, <2>0 DEF ClosedIsReceived
    <3> QED  BY <1>0, <1>b, <1>d, <2>2, <3>1 DEF ClosedIsReceived
  <2> QED  BY <1>5, <1>6, <1>7, <1>8, <2>3, <2>4, <2>5, <2>6, <2>7, <2>8, <2>9
           DEF OutboxCore, HandsInv
<1>10. CASE run.fence # 0
  <2>0. run.terminal # "none"
      BY <1>0, <1>10 DEF FenceInv
  <2>1. /\ run'.index = run.index /\ out'[s].status = "superseded"
        /\ Held' \subseteq Held /\ rep'.list \subseteq rep.list
      BY <1>0, <1>10 DEF StageStep, OutTyped
  <2>2. \A r \in Seqs : (Live(r)' <=> Live(r)) /\ (Live(r) => r # s)
      BY <1>c, <1>d, <2>1 DEF Live
  <2>3. FramesInv'
    <3>1. \A r \in Seqs : Live(r)' => out'[r].idx < run'.index
        BY <1>0, <1>d, <2>1, <2>2 DEF FramesInv
    <3> QED  BY <1>1, <1>2, <1>3, <1>b, <3>1 DEF FramesInv
  <2>4. FenceInv'
    <3>1. run.fence <= s
        BY <1>0, <1>a, <1>b DEF FenceInv
    <3>2. Public => \A r \in Seqs : Spoken(r)' /\ out'[r].status \notin {"none", "superseded"}
                        => Stored(out'[r].idx)
        BY <1>0, <1>d, <2>1 DEF FenceInv, Spoken
    <3> QED  BY <1>0, <1>b, <3>1, <3>2 DEF FenceInv, Public, Stored
  <2>5. GraspInv'
    <3>1. Grasped' \subseteq Grasped
        BY <2>1 DEF Grasped
    <3>2. \A q \in Grasped : q \in Seqs /\ q # s /\ out'[q] = out[q] /\ q \in 1..s
        BY <1>0, <1>4, <1>c, <1>d DEF HandsInv, GraspInv
    <3>3. \A q \in Grasped : \A r \in Seqs : Live(r)' /\ out'[r].idx = out'[q].idx => r = q
        BY <1>0, <1>d, <2>2, <3>2 DEF HandsInv, GraspInv
    <3> QED  BY <1>0, <1>b, <2>1, <3>1, <3>2, <3>3 DEF HandsInv, GraspInv
  <2>6. ReservedInv'
    <3>1. \A i \in Reserved : \A r \in Seqs : Live(r)' => out'[r].idx # i
        BY <1>0, <1>d, <2>2 DEF HandsInv, ReservedInv
    <3> QED  BY <1>0, <1>f, <2>1, <3>1 DEF HandsInv, ReservedInv
  <2>7. OneFactPerIndex'
    <3>1. \A r \in Seqs : Live(r) => out'[r] = out[r] /\ Fact(r)' = Fact(r)
        BY <1>d, <2>2 DEF Fact
    <3>2. \A r \in Seqs : Live(r) /\ TerminalVerified(r) => TerminalVerified(r)'
        BY <1>b, <2>1, <2>2, <3>1 DEF TerminalVerified
    <3> QED  BY <1>0, <1>b, <2>2, <3>1, <3>2 DEF OneFactPerIndex
  <2>8. DeliveriesSurvive'
      BY <1>0, <1>b, <2>0 DEF DeliveriesSurvive, InFlight, Succeeded
  <2>9. ClosedIsReceived'
      BY <1>0, <1>b, <1>d, <2>2 DEF ClosedIsReceived
  <2> QED  BY <1>5, <1>6, <1>7, <1>8, <2>3, <2>4, <2>5, <2>6, <2>7, <2>8, <2>9
           DEF OutboxCore, HandsInv
<1> QED  BY <1>9, <1>10

LEMMA HandsSame ==
    ASSUME UNCHANGED <<act, rep>>
    PROVE  Held' = Held /\ Shown' = Shown /\ Reserved' = Reserved /\ Grasped' = Grasped
BY DEF Held, Shown, Reserved, Grasped

LEMMA ReceiveKeeps ==
    ASSUME OutboxTyped, OutboxCore, NEW s \in Seqs, Receive(s)
    PROVE  OutboxCore'
<1>0. /\ FramesInv /\ FenceInv /\ HandsInv /\ ChatInv /\ WireInv
      /\ TerminalClosesChat /\ OneFactPerIndex /\ DeliveriesSurvive /\ ClosedIsReceived
      /\ RowTyped /\ RestTyped
    BY TypedParts DEF OutboxCore, PartsTyped
<1>1. UNCHANGED <<run, out, ledger, journal, chat, wire, act, rep>>
    BY DEF Receive
<1>2. \A r \in Seqs : receipt[r] # "none" => receipt'[r] = receipt[r]
    BY <1>0 DEF Receive, RestTyped
<1>3. FramesInv' /\ ChatInv' /\ TerminalClosesChat'
    BY <1>0, <1>1 DEF FramesInv, ChatInv, TerminalClosesChat, Live, Succeeded, Ended
<1>4. FenceInv'
  <2>1. run.terminal = "quarantine" => run.fence \in Seqs
      BY <1>0 DEF FenceInv, RowTyped, RunType, Seqs
  <2>2. run.terminal = "quarantine" => receipt'[run.fence] = "rejected"
      BY <1>0, <1>2, <2>1 DEF FenceInv
  <2> QED  BY <1>0, <1>1, <2>2 DEF FenceInv, Public, Spoken, Stored
<1>5. HandsInv'
    BY <1>0, <1>1, HandsSame
       DEF HandsInv, GraspInv, SpokenInv, ReservedInv, TodoInv, Live, Spoken, Stored, Succeeded
<1>6. WireInv'
  <2>1. \A r \in Seqs : receipt'[r] # "none" => r \in wire
      BY <1>0 DEF Receive, WireInv, RestTyped
  <2>2. \A r \in Seqs : 1..r \subseteq Seqs
      BY DEF Seqs
  <2>3. \A r \in Seqs : out[r].status = "gone" => \A q \in 1..r : receipt'[q] = "persisted"
      BY <1>0, <1>2, <2>2 DEF WireInv
  <2>4. \A r \in 1..ledger.consumed : receipt'[r] = "persisted"
    <3>1. 1..ledger.consumed \subseteq Seqs
        BY <1>0 DEF RestTyped, Seqs
    <3> QED  BY <1>0, <1>2, <3>1 DEF WireInv
  <2> QED  BY <1>0, <1>1, <2>1, <2>3, <2>4 DEF WireInv, Spoken, Stored
<1>7. OneFactPerIndex'
    BY <1>0, <1>1 DEF OneFactPerIndex, Live, Fact, TerminalVerified
<1>8. DeliveriesSurvive'
    BY <1>0, <1>1 DEF DeliveriesSurvive, Live, InFlight, Succeeded
<1>9. ClosedIsReceived'
  <2>1. \A r \in Seqs : 1..r \subseteq Seqs
      BY DEF Seqs
  <2> QED  BY <1>0, <1>1, <1>2, <2>1 DEF ClosedIsReceived, Live
<1> QED  BY <1>3, <1>4, <1>5, <1>6, <1>7, <1>8, <1>9 DEF OutboxCore

LEMMA ReconcileKeeps ==
    ASSUME OutboxTyped, OutboxCore, ReconcileReceipts
    PROVE  OutboxCore'
<1>0. /\ FramesInv /\ FenceInv /\ HandsInv /\ ChatInv /\ WireInv
      /\ TerminalClosesChat /\ OneFactPerIndex /\ DeliveriesSurvive /\ ClosedIsReceived
      /\ RowTyped /\ RestTyped /\ OutTyped /\ Grasped \subseteq Seqs
    BY TypedParts, HeldIsFrame DEF OutboxCore, PartsTyped
<1>1. UNCHANGED <<run, receipt, journal, chat, wire, act, rep>>
    BY DEF ReconcileReceipts
<1>2. PICK n \in 0..MaxSeq :
        /\ Advances(n)
        /\ out' = [s \in Seqs |->
             IF s <= n /\ out[s].status # "none" /\ Collectable(s)
             THEN [out[s] EXCEPT !.status = "gone"] ELSE out[s]]
        /\ ledger' = [consumed |-> n,
                      close |-> ledger.close
                          \/ (/\ run.fence # 0 /\ n >= run.fence
                              /\ \A s \in Seqs : ~(Live(s) /\ ~(s <= n /\ Collectable(s))))]
    BY DEF ReconcileReceipts
<1>3. \A s \in 1..n : receipt[s] = "persisted"
  <2>1. \A s \in 1..n : s \in 1..ledger.consumed \/ s \in (ledger.consumed + 1)..n
      BY <1>0 DEF RestTyped
  <2> QED  BY <1>0, <1>2, <2>1 DEF Advances, Acked, WireInv
<1>4. ASSUME NEW s \in Seqs
      PROVE  /\ out'[s].kind = out[s].kind /\ out'[s].tool = out[s].tool /\ out'[s].idx = out[s].idx
             /\ out'[s].status = IF s <= n /\ out[s].status # "none" /\ Collectable(s)
                                 THEN "gone" ELSE out[s].status
    BY <1>0, <1>2 DEF OutTyped, OutboxFrame
<1>5. \A s \in Seqs : Live(s)' <=> Live(s) /\ ~(s <= n /\ Collectable(s))
    BY <1>4 DEF Live
<1>6. \A s \in Seqs : Fact(s)' = Fact(s)
    BY <1>4 DEF Fact
<1>7. FramesInv'
    BY <1>0, <1>1, <1>4, <1>5 DEF FramesInv, Succeeded
<1>8. FenceInv'
  <2>1. Public => \A s \in Seqs :
            Spoken(s)' /\ out'[s].status \notin {"none", "superseded"} => Stored(out'[s].idx)
    <3>1. SUFFICES ASSUME Public, NEW s \in Seqs, Spoken(s)',
                          out'[s].status \notin {"none", "superseded"}
                   PROVE  Stored(out[s].idx)
        BY <1>4
    <3>2. Spoken(s)
        BY <1>4, <3>1 DEF Spoken
    <3>3. CASE out[s].status # "superseded"
        BY <1>0, <1>4, <3>1, <3>2, <3>3 DEF FenceInv
    <3>4. CASE out[s].status = "superseded"
      <4>1. s <= n
          BY <1>4, <3>1, <3>4
      <4>2. receipt[s] = "persisted"
          BY <1>3, <4>1 DEF Seqs
      <4> QED  BY <1>0, <3>2, <4>2 DEF WireInv
    <3> QED  BY <3>3, <3>4
  <2> QED  BY <1>0, <1>1, <2>1 DEF FenceInv, Public, Stored
<1>9. HandsInv'
  <2>1. GraspInv'
    <3>1. \A q \in Grasped : out'[q].status = "superseded" => out[q].status = "superseded"
        BY <1>0, <1>4
    <3>2. \A q \in Grasped : \A r \in Seqs : Live(r)' /\ out'[r].idx = out'[q].idx => r = q
        BY <1>0, <1>4, <1>5 DEF HandsInv, GraspInv
    <3>3. \A q \in Grasped : q \in 1..run.durable /\ out'[q].idx < run.index
        BY <1>0, <1>4 DEF HandsInv, GraspInv
    <3>4. \A q \in Grasped : out'[q].status = "superseded" => run.terminal = "quarantine"
        BY <1>0, <3>1 DEF HandsInv, GraspInv
    <3> QED  BY <1>1, <3>2, <3>3, <3>4, HandsSame DEF GraspInv
  <2>2. SpokenInv'
    <3>1. Held \subseteq Seqs /\ Shown \subseteq Seqs
        BY <1>0 DEF Grasped, Shown, Held, HandPC
    <3> QED  BY <1>0, <1>1, <1>4, <3>1, HandsSame DEF HandsInv, SpokenInv, Spoken, Stored
  <2>3. ReservedInv'
      BY <1>0, <1>1, <1>4, <1>5, HandsSame DEF HandsInv, ReservedInv
  <2>4. TodoInv'
      BY <1>0, <1>1 DEF HandsInv, TodoInv, Succeeded
  <2> QED  BY <2>1, <2>2, <2>3, <2>4 DEF HandsInv
<1>10. ChatInv' /\ TerminalClosesChat'
    BY <1>0, <1>1 DEF ChatInv, TerminalClosesChat, Ended
<1>11. ASSUME NEW s \in Seqs, out'[s].status = "gone"
       PROVE  \A r \in 1..s : receipt[r] = "persisted"
  <2>1. CASE out[s].status = "gone"
      BY <1>0, <2>1 DEF WireInv
  <2>2. CASE s <= n
    <3>1. 1..s \subseteq 1..n
        BY <2>2 DEF Seqs
    <3> QED  BY <1>3, <3>1
  <2> QED  BY <1>4, <1>11, <2>1, <2>2
<1>12. WireInv'
  <2>1. wire \subseteq Seqs
      BY <1>0 DEF RestTyped
  <2>2. \A s \in wire : s <= run.durable /\ (Spoken(s)' => Stored(out'[s].idx))
      BY <1>0, <1>4, <2>1 DEF WireInv, Spoken
  <2>3. ledger'.consumed = n
      BY <1>2
  <2> QED  BY <1>0, <1>1, <1>3, <1>11, <2>2, <2>3 DEF WireInv, Stored, Spoken
<1>13. OneFactPerIndex'
  <2>1. \A s \in Seqs : Live(s)' /\ TerminalVerified(s) => TerminalVerified(s)'
      BY <1>1, <1>4, <1>6 DEF TerminalVerified
  <2> QED  BY <1>0, <1>1, <1>4, <1>5, <1>6, <2>1 DEF OneFactPerIndex
<1>14. DeliveriesSurvive'
  <2>1. run.terminal = "none" => \A s \in Seqs : out'[s].kind = "delivery" => Live(s)'
      BY <1>0, <1>4, <1>5 DEF DeliveriesSurvive, Collectable
  <2> QED  BY <1>0, <1>1, <2>1 DEF DeliveriesSurvive, InFlight, Succeeded
<1>15. ClosedIsReceived'
  <2>1. ledger'.close => Public /\ \A s \in Seqs : ~Live(s)'
    <3>1. CASE ledger.close
        BY <1>0, <1>5, <3>1 DEF ClosedIsReceived, Public
    <3>2. CASE ~ledger.close /\ ledger'.close
      <4>1. /\ run.fence # 0
            /\ \A s \in Seqs : ~(Live(s) /\ ~(s <= n /\ Collectable(s)))
          BY <1>2, <3>2
      <4>2. \A s \in Seqs : receipt[s] # "rejected"
          BY DEF ReconcileReceipts
      <4>3. run.fence \in Seqs /\ run.terminal # "none"
          BY <1>0, <4>1 DEF FenceInv, RowTyped, RunType, Seqs
      <4>4. run.terminal # "quarantine"
          BY <1>0, <4>2, <4>3 DEF FenceInv
      <4>5. Public
          BY <1>0, <4>3, <4>4 DEF Public, RowTyped, RunType
      <4> QED  BY <1>5, <4>1, <4>5
    <3> QED  BY <3>1, <3>2
  <2> QED  BY <1>1, <1>11, <2>1 DEF ClosedIsReceived, Public
<1> QED  BY <1>7, <1>8, <1>9, <1>10, <1>12, <1>13, <1>14, <1>15 DEF OutboxCore

LEMMA QuarantineKeeps ==
    ASSUME OutboxTyped, OutboxCore, nack \in Nacked, run.fence = 0, Quarantine
    PROVE  OutboxCore'
<1>0. /\ FramesInv /\ FenceInv /\ HandsInv /\ ChatInv /\ WireInv
      /\ TerminalClosesChat /\ OneFactPerIndex /\ DeliveriesSurvive /\ ClosedIsReceived
      /\ RowTyped /\ RestTyped /\ OutTyped /\ Grasped \subseteq Seqs
    BY TypedParts, HeldIsFrame DEF OutboxCore, PartsTyped
<1>a. UNCHANGED <<ledger, receipt, journal, chat, wire, act, rep>>
    BY DEF Quarantine
<1>b. /\ run' = [run EXCEPT !.durable = @ + 1, !.fence = nack, !.live = FALSE,
                            !.terminal = "quarantine", !.gen = @ + 1]
      /\ out' = [s \in Seqs |->
            CASE s = run.durable + 1 -> [kind |-> "terminal", tool |-> "none",
                                         status |-> "superseded", idx |-> 0]
              [] s >= nack /\ Live(s) -> [out[s] EXCEPT !.status = "superseded"]
              [] OTHER -> out[s]]
      /\ run.durable < MaxSeq
    BY DEF Quarantine
<1>c. PICK new \in Seqs : new = run.durable + 1
    BY <1>0, <1>b DEF RowTyped, RunType, Seqs
<1>d. /\ run'.durable = new /\ run'.fence = nack /\ run'.terminal = "quarantine"
      /\ run'.index = run.index /\ run.durable \in Nat
      /\ run.terminal = "none" /\ nack \in Seqs /\ nack # 0
    BY <1>0, <1>b, <1>c DEF FenceInv, RowTyped, RunType, Nacked, Seqs
<1>e. nack <= run.durable /\ receipt[nack] = "rejected"
    BY <1>0 DEF WireInv, Nacked
<1>f. /\ \A s \in Seqs : s <= new <=> s <= run.durable \/ s = new
      /\ ~(new <= run.durable)
    BY <1>c, <1>d DEF Seqs
<1>g. out[new].status = "none"
    BY <1>0, <1>f DEF FramesInv
<1>h. out'[new] = [kind |-> "terminal", tool |-> "none", status |-> "superseded", idx |-> 0]
    BY <1>b, <1>c, <1>g DEF Live
<1>i. ASSUME NEW s \in Seqs, s # new
      PROVE  /\ out'[s].kind = out[s].kind /\ out'[s].tool = out[s].tool /\ out'[s].idx = out[s].idx
             /\ out'[s].status = IF s >= nack /\ Live(s) THEN "superseded" ELSE out[s].status
  <2>1. out'[s] = IF s >= nack /\ Live(s) THEN [out[s] EXCEPT !.status = "superseded"] ELSE out[s]
      BY <1>b, <1>c, <1>i
  <2> QED  BY <1>0, <2>1 DEF OutTyped, OutboxFrame
<1>j. \A s \in Seqs : Live(s)' => Live(s) /\ s # new
    BY <1>h, <1>i DEF Live
<1>1. FramesInv'
  <2>1. \A s \in Seqs : out'[s].status # "none" <=> s <= new
    <3>1. ASSUME NEW s \in Seqs, s # new
          PROVE  out'[s].status # "none" <=> out[s].status # "none"
        BY <1>i, <3>1 DEF Live
    <3> QED  BY <1>0, <1>f, <1>h, <3>1 DEF FramesInv
  <2>2. \A s \in Seqs : out'[s].kind = "delivery" => out'[s].tool \in Succeeded'
      BY <1>0, <1>a, <1>h, <1>i DEF FramesInv, Succeeded
  <2>3. \A s \in Seqs : Live(s)' => out'[s].idx < run.index
      BY <1>0, <1>i, <1>j DEF FramesInv
  <2> QED  BY <1>d, <2>1, <2>2, <2>3 DEF FramesInv
<1>2. FenceInv'
  <2>1. nack <= new
      BY <1>c, <1>d, <1>e DEF Seqs
  <2> QED  BY <1>a, <1>d, <1>e, <2>1 DEF FenceInv, Public
<1>3. HandsInv'
  <2>0. ASSUME NEW q \in Grasped PROVE q \in Seqs /\ q # new /\ q \in 1..new
      BY <1>0, <1>c, <1>d DEF HandsInv, GraspInv, Seqs
  <2>1. GraspInv'
    <3>1. \A q \in Grasped : out'[q].idx < run.index
        BY <1>0, <1>i, <2>0 DEF HandsInv, GraspInv
    <3>2. \A q \in Grasped : \A r \in Seqs : Live(r)' /\ out'[r].idx = out'[q].idx => r = q
        BY <1>0, <1>i, <1>j, <2>0 DEF HandsInv, GraspInv
    <3> QED  BY <1>a, <1>d, <2>0, <3>1, <3>2, HandsSame DEF GraspInv
  <2>2. SpokenInv'
    <3>1. Held \subseteq Grasped /\ Shown \subseteq Grasped
        BY DEF Grasped, Shown, Held, HandPC
    <3> QED  BY <1>0, <1>a, <1>i, <2>0, <3>1, HandsSame DEF HandsInv, SpokenInv, Spoken, Stored
  <2>3. ReservedInv'
      BY <1>0, <1>a, <1>d, <1>i, <1>j, HandsSame DEF HandsInv, ReservedInv
  <2>4. TodoInv'
      BY <1>0, <1>a DEF HandsInv, TodoInv, Succeeded
  <2> QED  BY <2>1, <2>2, <2>3, <2>4 DEF HandsInv
<1>4. ChatInv'
    BY <1>0, <1>a, <1>d DEF ChatInv
<1>5. TerminalClosesChat'
    BY <1>0, <1>a, <1>d DEF TerminalClosesChat, Ended
<1>6. WireInv'
  <2>1. \A s \in wire : s \in Seqs /\ s # new /\ s <= new
      BY <1>0, <1>f DEF WireInv, RestTyped
  <2>2. \A s \in wire : s <= new /\ (Spoken(s)' => Stored(out'[s].idx))
      BY <1>0, <1>i, <2>1 DEF WireInv, Spoken
  <2>3. \A s \in Seqs : out'[s].status = "gone" => out[s].status = "gone"
      BY <1>h, <1>i
  <2> QED  BY <1>0, <1>a, <1>d, <2>2, <2>3 DEF WireInv, Spoken, Stored
<1>7. OneFactPerIndex'
  <2>1. \A s \in Seqs : Live(s)' => out[s].kind # "terminal" /\ out'[s].idx = out[s].idx
                                    /\ out'[s].kind = out[s].kind /\ Fact(s)' = Fact(s) /\ Live(s)
      BY <1>0, <1>d, <1>i, <1>j DEF OneFactPerIndex, TerminalVerified, Fact
  <2> QED  BY <1>0, <1>a, <2>1 DEF OneFactPerIndex
<1>8. DeliveriesSurvive'
    BY <1>d DEF DeliveriesSurvive
<1>9. ClosedIsReceived'
  <2>1. ~ledger.close
      BY <1>0, <1>d DEF ClosedIsReceived
  <2>2. \A s \in Seqs : out'[s].status = "gone" => out[s].status = "gone"
      BY <1>h, <1>i
  <2> QED  BY <1>0, <1>a, <2>1, <2>2 DEF ClosedIsReceived
<1> QED  BY <1>1, <1>2, <1>3, <1>4, <1>5, <1>6, <1>7, <1>8, <1>9 DEF OutboxCore

LEMMA CommitKeeps ==
    ASSUME OutboxTyped, OutboxCore, NEW how \in {"end", "cancel"}, NEW closing \in {0, 1},
           NEW snap \in SnapType, CommitStep(how, closing, snap)
    PROVE  OutboxCore'
<1>0. /\ FramesInv /\ FenceInv /\ HandsInv /\ ChatInv /\ WireInv
      /\ TerminalClosesChat /\ OneFactPerIndex /\ DeliveriesSurvive /\ ClosedIsReceived
      /\ RowTyped /\ RestTyped /\ OutTyped /\ ChatTyped /\ ActTyped /\ Grasped \subseteq Seqs
    BY TypedParts, HeldIsFrame DEF OutboxCore, PartsTyped
<1>a. UNCHANGED <<ledger, receipt, journal, wire>> /\ HandsKept /\ run.terminal = "none"
      /\ CommitTerminal(how, closing) /\ DeliveryReady(snap)
    BY DEF CommitStep, ReceiptsKept
<1> DEFINE front == IF how = "cancel" THEN 1 ELSE 0
           base  == run.index
           index == run.index + front + closing
           seq   == run.durable + front + 1
           new   == {s \in Seqs : s > run.durable /\ s <= seq}
           T     == [kind |-> "terminal", tool |-> "none", idx |-> index]
           I     == [kind |-> "interaction", tool |-> "none", idx |-> index - 1]
           Late  == {r \in Seqs : Live(r) /\ out[r].kind = "started" /\ ~Stored(out[r].idx)}
<1>b. /\ run'.durable = seq /\ run'.index = index + 1 /\ run'.fence = seq /\ run'.terminal = how
      /\ seq \in Seqs
    BY <1>0, <1>a DEF CommitTerminal, IndexAfter, RowTyped, RunType, Seqs
<1>c. /\ run.durable \in Nat /\ base \in Nat /\ front \in {0, 1} /\ index \in Nat /\ seq \in Nat
      /\ run.durable < seq /\ base <= index /\ (closing = 1 => base <= index - 1 /\ base + front = index - 1)
      /\ (front = 1 => base < index) /\ \A s \in Seqs : s \in Nat /\ out[s].idx \in Nat
  <2>1. run.durable \in Nat /\ base \in Nat /\ front \in {0, 1}
        /\ \A s \in Seqs : s \in Nat /\ out[s].idx \in Nat
      BY <1>0 DEF RowTyped, RunType, OutTyped, OutboxFrame, Seqs
  <2> HIDE DEF base, front
  <2>2. run.index = base
      BY DEF base
  <2>3. CASE closing = 0
      BY <2>1, <2>2, <2>3
  <2>4. CASE closing = 1
      BY <2>1, <2>2, <2>4
  <2> QED  BY <2>1, <2>3, <2>4
<1>d. chat'.events = chat.events \cup {Fact(r) : r \in Late} \cup {T}
                         \cup (IF closing = 1 THEN {I} ELSE {})
      /\ chat'.last = T
    BY <1>a DEF CommitTerminal, RestoreStarted
<1>e. /\ out'[seq] = [kind |-> "terminal", tool |-> "none", status |-> "queued", idx |-> index]
      /\ \A s \in Seqs : s > run.durable /\ s < seq =>
            out'[s] = [kind |-> "receipt", tool |-> "none", status |-> "queued", idx |-> base]
      /\ \A s \in Seqs : s \notin new => out'[s] = out[s]
  <2>1. out' = [s \in Seqs |->
             CASE s = seq -> [kind |-> "terminal", tool |-> "none", status |-> "queued", idx |-> index]
               [] s > run.durable /\ s < seq ->
                    [kind |-> "receipt", tool |-> "none", status |-> "queued", idx |-> base]
               [] OTHER -> out[s]]
      BY <1>a DEF CommitTerminal
  <2>2. ASSUME NEW s \in Seqs, s \notin new PROVE out'[s] = out[s]
    <3>1. s # seq /\ ~(s > run.durable /\ s < seq)
        BY <1>b, <1>c, <2>2
    <3> HIDE DEF seq
    <3> QED  BY <2>1, <3>1
  <2>3. ASSUME NEW s \in Seqs, s > run.durable, s < seq
        PROVE  out'[s] = [kind |-> "receipt", tool |-> "none", status |-> "queued", idx |-> base]
    <3>1. s # seq
        BY <1>c, <2>3
    <3> HIDE DEF seq, base
    <3> QED  BY <2>1, <2>3, <3>1
  <2>4. out'[seq] = [kind |-> "terminal", tool |-> "none", status |-> "queued", idx |-> index]
    <3>1. ~(seq < seq)
        BY <1>c
    <3> HIDE DEF seq, index
    <3> QED  BY <1>b, <2>1, <3>1
  <2> QED  BY <2>2, <2>3, <2>4
<1>f. \A s \in new : s = seq \/ (s > run.durable /\ s < seq /\ front = 1 /\ s # seq)
    BY <1>c
<1>g. \A s \in new : out[s].status = "none" /\ out[s].kind = "none" /\ ~Live(s)
    BY <1>0, <1>c DEF FramesInv, OutTyped, Live
<1>h. \A e \in chat'.events : \/ e \in chat.events
                              \/ \E r \in Late : e = Fact(r)
                              \/ e = T
                              \/ closing = 1 /\ e = I
    BY <1>d
<1>i. chat.events \subseteq chat'.events /\ T \in chat'.events
      /\ \A r \in Late : Fact(r) \in chat'.events
    BY <1>d
<1>j. /\ T.idx = index /\ T.kind = "terminal" /\ T.tool = "none"
      /\ I.idx = index - 1 /\ I.kind = "interaction"
      /\ \A r \in Seqs : Fact(r).idx = out[r].idx /\ Fact(r).kind = out[r].kind
      /\ seq \in new
    BY <1>b, <1>c DEF Fact
<1>k. /\ \A e \in chat.events : e.idx \in Nat /\ e.idx < base
      /\ \A r \in Seqs : Live(r) => out[r].idx < base /\ out[r].kind # "terminal"
      /\ \A i \in Reserved : i \in Nat /\ i < base
    BY <1>0, <1>a DEF ChatInv, ChatTyped, FactType, FramesInv, OneFactPerIndex, TerminalVerified,
                      HandsInv, ReservedInv, Reserved, ActTyped, EmitterType
<1>l. \A s \in Seqs : Live(s)' <=> Live(s) \/ s \in new
  <2>1. \A s \in new : out'[s].status = "queued"
      BY <1>e, <1>f
  <2> QED  BY <1>e, <2>1 DEF Live
<1>m. \A s \in new : /\ out'[s].kind \in {"terminal", "receipt"}
                     /\ out'[s].idx \in {base, index} /\ out'[s].idx \in Nat
                     /\ out'[s].status = "queued"
                     /\ out'[s].kind = "terminal" <=> s = seq
                     /\ s # seq => out'[s].idx = base /\ base < index
    BY <1>c, <1>e, <1>f
<1>n. \A x \in Nat : x < base => x < index + 1 /\ x # index /\ x # base
                                 /\ (closing = 1 => x # index - 1)
    BY <1>c
<1> HIDE DEF front, base, index, seq, T, I, new, Late
<1>1. FramesInv'
  <2>1. \A s \in Seqs : out'[s].status # "none" <=> s <= seq
    <3>1. \A s \in Seqs : s \notin new => (s <= seq <=> s <= run.durable)
        BY <1>c DEF new
    <3>2. \A s \in new : s <= seq
        BY DEF new
    <3> QED  BY <1>0, <1>e, <1>m, <3>1, <3>2 DEF FramesInv
  <2>2. \A s \in Seqs : out'[s].kind = "delivery" => out'[s].tool \in Succeeded'
      BY <1>0, <1>a, <1>e, <1>m DEF FramesInv, Succeeded
  <2>3. \A s \in Seqs : Live(s)' => out'[s].idx < index + 1
    <3>1. base < index + 1 /\ index < index + 1
        BY <1>c
    <3>2. \A s \in new : out'[s].idx < index + 1
        BY <1>m, <3>1
    <3> QED  BY <1>c, <1>e, <1>k, <1>l, <1>n, <3>2
  <2> QED  BY <1>a, <1>b, <2>1, <2>2, <2>3 DEF FramesInv
<1>2. FenceInv'
  <2>1. ASSUME NEW s \in Seqs, Spoken(s)', out'[s].status \notin {"none", "superseded"}
        PROVE  \E e \in chat'.events : e.idx = out'[s].idx
    <3>1. s \notin new /\ out'[s] = out[s]
        BY <1>e, <1>m, <2>1 DEF Spoken
    <3>2. CASE Stored(out[s].idx)
        BY <1>i, <3>1, <3>2 DEF Stored
    <3>3. CASE ~Stored(out[s].idx)
      <4>1. out[s].status # "gone"
        <5>1. SUFFICES ASSUME out[s].status = "gone" PROVE FALSE
            OBVIOUS
        <5>2. receipt[s] = "persisted"
            BY <1>0, <5>1 DEF WireInv, Seqs
        <5> QED  BY <1>0, <2>1, <3>1, <3>3, <5>2 DEF WireInv, Spoken
      <4>2. Live(s)
          BY <1>0, <2>1, <3>1, <4>1 DEF OutTyped, OutboxFrame, Live
      <4>3. out[s].kind # "delivery"
        <5>1. SUFFICES ASSUME out[s].kind = "delivery" PROVE FALSE
            OBVIOUS
        <5>2. out[s].tool \in Succeeded
            BY <1>0, <5>1 DEF FramesInv
        <5>3. PICK q \in Seqs : out[q].kind = "delivery" /\ out[q].tool = out[s].tool
                                /\ Fact(q) \in chat.events
            BY <1>a, <5>2 DEF DeliveryReady, Delivered
        <5>4. q = s
            BY <1>0, <1>a, <5>1, <5>3 DEF FramesInv
        <5> QED  BY <1>j, <3>3, <5>3, <5>4 DEF Stored
      <4>4. s \in Late
          BY <2>1, <3>1, <3>3, <4>2, <4>3 DEF Late, Spoken
      <4> QED  BY <1>i, <1>j, <3>1, <4>4
    <3> QED  BY <3>2, <3>3
  <2>2. run'.fence <= run'.durable /\ run'.fence # 0
      BY <1>b, <1>c DEF Seqs
  <2> QED  BY <1>b, <2>1, <2>2 DEF FenceInv, Public, Stored
<1>3. HandsInv'
  <2>1. \A q \in Grasped : q \in Seqs /\ q \notin new /\ q \in 1..seq
                           /\ out'[q] = out[q] /\ out[q].idx < base /\ out[q].status # "superseded"
    <3>1. \A q \in Grasped : q \in 1..run.durable /\ out[q].idx < base
                             /\ out[q].status # "superseded"
        BY <1>0, <1>a DEF HandsInv, GraspInv, base
    <3>2. \A q \in Grasped : q \in Seqs /\ q \notin new /\ q \in 1..seq
        BY <1>0, <1>c, <3>1 DEF new
    <3> QED  BY <1>e, <3>1, <3>2
  <2>2. GraspInv'
    <3>1. Grasped' \subseteq Grasped
        BY <1>a DEF HandsKept, Grasped
    <3>2. \A q \in Grasped : out'[q].idx < index + 1 /\ out'[q].status # "superseded"
        BY <1>c, <1>n, <2>1
    <3>3. \A q \in Grasped : \A r \in Seqs : Live(r)' /\ out'[r].idx = out'[q].idx => r = q
      <4>1. \A q \in Grasped : \A r \in new : out'[r].idx # out'[q].idx
          BY <1>c, <1>m, <1>n, <2>1
      <4> QED  BY <1>0, <1>e, <1>l, <2>1, <4>1 DEF HandsInv, GraspInv
    <3> QED  BY <1>b, <2>1, <3>1, <3>2, <3>3 DEF GraspInv
  <2>3. SpokenInv'
    <3>1. Held \subseteq Grasped /\ Shown \subseteq Grasped
        BY DEF Grasped, Shown, Held, HandPC
    <3>2. \A q \in Shown : \E e \in chat'.events : e.idx = out[q].idx
        BY <1>0, <1>i DEF HandsInv, SpokenInv, Stored
    <3> QED  BY <1>0, <1>a, <2>1, <3>1, <3>2 DEF HandsKept, HandsInv, SpokenInv, Spoken, Stored
  <2>4. ReservedInv'
    <3>1. \A i \in Reserved : i < index + 1 /\ \A s \in Seqs : Live(s)' => out'[s].idx # i
      <4>1. \A i \in Reserved : i < index + 1 /\ i # index /\ i # base
          BY <1>k, <1>n
      <4>2. \A i \in Reserved : \A s \in new : out'[s].idx # i
          BY <1>m, <4>1
      <4>3. \A i \in Reserved : \A s \in Seqs : Live(s) => out'[s].idx # i
          BY <1>0, <1>e, <1>g DEF HandsInv, ReservedInv
      <4> QED  BY <1>l, <4>1, <4>2, <4>3
    <3> QED  BY <1>a, <1>b, <3>1 DEF HandsKept, ReservedInv
  <2>5. TodoInv'
      BY <1>a DEF TodoInv, HandsKept, TodoKept, Succeeded
  <2> QED  BY <2>2, <2>3, <2>4, <2>5 DEF HandsInv
<1>4. ChatInv'
  <2>1. ASSUME NEW e \in chat'.events PROVE e.idx < index + 1
    <3>1. CASE e \in chat.events
        BY <1>k, <1>n, <3>1
    <3>2. ASSUME NEW r \in Late, e = Fact(r) PROVE e.idx < index + 1
      <4>1. r \in Seqs /\ Live(r)
          BY DEF Late
      <4> QED  BY <1>c, <1>j, <1>k, <1>n, <3>2, <4>1
    <3>3. CASE e = T
        BY <1>c, <1>j, <3>3
    <3>4. CASE closing = 1 /\ e = I
        BY <1>c, <1>j, <3>4
    <3> QED  BY <1>h, <3>1, <3>2, <3>3, <3>4
  <2> QED  BY <1>b, <2>1 DEF ChatInv
<1>5. TerminalClosesChat'
  <2>1. Ended = {}
      BY <1>0, <1>a DEF TerminalClosesChat
  <2>2. \A r \in Late : Fact(r).kind = "started"
      BY <1>j DEF Late
  <2>3. Ended' = {T}
    <3>1. \A e \in chat.events : e.kind # "terminal"
        BY <2>1 DEF Ended
    <3>2. \A e \in chat'.events : e.kind = "terminal" <=> e = T
        BY <1>h, <1>j, <2>2, <3>1
    <3> QED  BY <1>i, <3>2 DEF Ended
  <2> QED  BY <1>b, <1>d, <2>3 DEF TerminalClosesChat
<1>6. WireInv'
  <2>1. \A s \in wire : s \in Seqs /\ s \notin new /\ s <= seq /\ out'[s] = out[s]
    <3>1. \A s \in wire : s \in Seqs /\ s <= run.durable
        BY <1>0 DEF WireInv, RestTyped
    <3>2. \A s \in wire : s \notin new /\ s <= seq
        BY <1>c, <3>1 DEF new
    <3> QED  BY <1>e, <3>1, <3>2
  <2>2. \A s \in wire : Spoken(s)' => \E e \in chat'.events : e.idx = out'[s].idx
      BY <1>0, <1>i, <2>1 DEF WireInv, Spoken, Stored
  <2>3. \A s \in Seqs : out'[s].status = "gone" => out[s].status = "gone"
      BY <1>e, <1>m
  <2> QED  BY <1>0, <1>a, <1>b, <2>1, <2>2, <2>3 DEF WireInv, Stored
<1>7. OneFactPerIndex'
  <2>1. ASSUME NEW s \in Seqs, NEW e \in chat'.events, Live(s)', e.idx = out'[s].idx
        PROVE  e = Fact(s)'
    <3>1. CASE s \notin new
      <4>1. Live(s) /\ out'[s] = out[s] /\ Fact(s)' = Fact(s) /\ out[s].idx < base
            /\ out[s].idx \in Nat
          BY <1>c, <1>e, <1>k, <1>l, <2>1, <3>1 DEF Fact
      <4>2. e # T /\ ~(closing = 1 /\ e = I)
          BY <1>j, <1>n, <2>1, <4>1
      <4>3. CASE e \in chat.events
          BY <1>0, <2>1, <4>1, <4>3 DEF OneFactPerIndex
      <4>4. ASSUME NEW r \in Late, e = Fact(r) PROVE e = Fact(s)
        <5>1. r \in Seqs /\ Live(r) /\ out[r].idx = out[s].idx
            BY <1>j, <2>1, <4>1, <4>4 DEF Late
        <5> QED  BY <1>0, <4>1, <4>4, <5>1 DEF OneFactPerIndex
      <4> QED  BY <1>h, <4>1, <4>2, <4>3, <4>4
    <3>2. CASE s \in new
      <4>1. out'[s].idx \in {base, index}
          BY <1>m, <3>2
      <4>2. e \notin chat.events
          BY <1>k, <1>n, <2>1, <4>1
      <4>3. \A r \in Late : e # Fact(r)
        <5>1. \A r \in Late : r \in Seqs /\ Live(r)
            BY DEF Late
        <5> QED  BY <1>c, <1>j, <1>k, <1>n, <2>1, <4>1, <5>1
      <4>4. ~(closing = 1 /\ e = I)
        <5>1. SUFFICES ASSUME closing = 1, out'[s].idx = index - 1 PROVE FALSE
            BY <1>j, <2>1
        <5>2. CASE s = seq
            BY <1>c, <1>e, <5>1, <5>2
        <5>3. CASE s # seq
          <6>1. front = 1 /\ out'[s].idx = base
              BY <1>f, <1>m, <3>2, <5>3
          <6> QED  BY <1>c, <5>1, <6>1
        <5> QED  BY <5>2, <5>3
      <4>5. e = T
          BY <1>h, <4>2, <4>3, <4>4
      <4>6. s = seq
          BY <1>c, <1>j, <1>m, <2>1, <3>2, <4>5
      <4> QED  BY <1>e, <4>5, <4>6 DEF Fact, T
    <3> QED  BY <3>1, <3>2
  <2>2. ASSUME NEW s \in Seqs, NEW r \in Seqs, Live(s)', Live(r)', out'[s].idx = out'[r].idx
        PROVE  s = r
    <3>1. CASE s \notin new /\ r \notin new
        BY <1>0, <1>e, <1>l, <2>2, <3>1 DEF OneFactPerIndex
    <3>2. ASSUME NEW p \in new, NEW q \in Seqs \ new, Live(q)' PROVE out'[p].idx # out'[q].idx
        BY <1>c, <1>e, <1>k, <1>l, <1>m, <1>n, <3>2
    <3>3. CASE s \in new /\ r \in new
      <4>1. CASE s = seq \/ r = seq
        <5>1. out'[seq].idx = index
            BY <1>e
        <5> QED  BY <1>c, <1>m, <2>2, <3>3, <4>1, <5>1
      <4>2. CASE s # seq /\ r # seq
        <5>1. s = run.durable + 1 /\ r = run.durable + 1
          <6>1. \A p \in new : p # seq => p = run.durable + 1
              BY <1>c DEF new, seq, front
          <6> QED  BY <3>3, <4>2, <6>1
        <5> QED  BY <5>1
      <4> QED  BY <4>1, <4>2
    <3> QED  BY <2>2, <3>1, <3>2, <3>3
  <2>3. ASSUME NEW s \in Seqs, Live(s)', out'[s].kind = "terminal" PROVE TerminalVerified(s)'
    <3>1. s = seq
        BY <1>e, <1>k, <1>l, <1>m, <2>3
    <3>2. Fact(s)' = T /\ out'[s].idx = index
        BY <1>e, <3>1 DEF Fact, T
    <3> QED  BY <1>b, <1>i, <2>3, <3>1, <3>2 DEF TerminalVerified
  <2> QED  BY <2>1, <2>2, <2>3 DEF OneFactPerIndex
<1>8. DeliveriesSurvive'
  <2>1. ~InFlight'
      BY <1>a DEF DeliveryReady, InFlight
  <2>2. \A t \in Succeeded : \E e \in chat'.events : e.kind = "delivery" /\ e.tool = t
    <3>1. ASSUME NEW t \in Succeeded
          PROVE  \E e \in chat'.events : e.kind = "delivery" /\ e.tool = t
      <4>1. PICK s \in Seqs : out[s].kind = "delivery" /\ out[s].tool = t /\ Fact(s) \in chat.events
          BY <1>a DEF DeliveryReady, Delivered
      <4>2. Fact(s).kind = "delivery" /\ Fact(s).tool = t
          BY <4>1 DEF Fact
      <4> QED  BY <1>i, <4>1, <4>2
    <3> QED  BY <3>1
  <2>3. Succeeded' = Succeeded
      BY <1>a DEF Succeeded
  <2> QED  BY <1>b, <2>1, <2>2, <2>3 DEF DeliveriesSurvive
<1>9. ClosedIsReceived'
  <2>1. ~ledger.close
      BY <1>0, <1>a DEF ClosedIsReceived
  <2>2. \A s \in Seqs : out'[s].status = "gone" => out[s].status = "gone"
      BY <1>e, <1>m
  <2> QED  BY <1>0, <1>a, <2>1, <2>2 DEF ClosedIsReceived
<1> QED  BY <1>1, <1>2, <1>3, <1>4, <1>5, <1>6, <1>7, <1>8, <1>9 DEF OutboxCore

-----------------------------------------------------------------------------
LEMMA OutboxInvInit == OutboxInit => OutboxInv
<1> SUFFICES ASSUME OutboxInit PROVE OutboxInv
    OBVIOUS
<1>1. OutboxTyped
    BY OutboxInitTyped
<1>2. /\ run.durable = 0 /\ run.index = 0 /\ run.fence = 0 /\ run.terminal = "none"
      /\ ledger.consumed = 0 /\ ledger.close = FALSE
      /\ chat.events = {} /\ wire = {} /\ rep.list = {}
      /\ \A s \in Seqs : out[s] = NoFrame /\ receipt[s] = "none" /\ ~(s <= 0)
      /\ \A t \in Tools : journal[t] = "none"
    BY DEF OutboxInit, Seqs
<1>3. \A s \in Seqs : ~Live(s) /\ out[s].kind = "none" /\ out[s].status = "none"
    BY <1>2 DEF Live, NoFrame
<1>4. \A a \in Actors : act[a].pc \in {"idle", "start"} /\ act[a].todo = {}
    BY DEF OutboxInit, Idle
<1>5. Held = {} /\ Shown = {} /\ Reserved = {} /\ Grasped = {}
    BY <1>2, <1>4 DEF Held, Shown, Reserved, Grasped, HandPC
<1>6. FramesInv /\ FenceInv /\ ChatInv /\ WireInv
    BY <1>2, <1>3 DEF FramesInv, FenceInv, ChatInv, WireInv, Public
<1>7. HandsInv
    BY <1>4, <1>5 DEF HandsInv, GraspInv, SpokenInv, ReservedInv, TodoInv
<1>8. TerminalClosesChat /\ OneFactPerIndex /\ DeliveriesSurvive /\ ClosedIsReceived
    BY <1>2, <1>3 DEF TerminalClosesChat, OneFactPerIndex, DeliveriesSurvive, ClosedIsReceived, Ended
<1> QED  BY <1>1, <1>6, <1>7, <1>8 DEF OutboxInv

LEMMA OutboxInvStep == OutboxInv /\ [OutboxNext]_outboxVars => OutboxInv'
<1> SUFFICES ASSUME OutboxInv, [OutboxNext]_outboxVars PROVE OutboxInv'
    OBVIOUS
<1>1. OutboxTyped /\ OutboxCore /\ HandsInv /\ FramesInv /\ FenceInv
    BY DEF OutboxInv, OutboxCore
<1>2. OutboxTyped'
    BY <1>1, OutboxTypedStep
<1>3. OutboxStep
    BY <1>1, NextIsStep
<1>4. OutboxCore'
  <2>1. CASE QuietStep \/ JournalStep \/ ReserveStep
      BY <1>1, <2>1, QuietKeeps, JournalKeeps, ReserveKeeps
  <2>2. CASE \E s \in Grasped : TellStep(s) \/ MarkStep(s)
      BY <1>1, <2>2, TellKeeps, MarkKeeps
  <2>3. CASE \E s \in Seqs, kind \in {"started", "delivery"}, t \in Tools \cup {"none"} :
                StageStep(s, kind, t)
      BY <1>1, <2>3, StageKeeps
  <2>4. CASE \E i \in Reserved : DeltaStep(i)
      BY <1>1, <2>4, DeltaKeeps
  <2>5. CASE \E how \in {"end", "cancel"}, closing \in {0, 1}, snap \in SnapType :
                CommitStep(how, closing, snap)
      BY <1>1, <2>5, CommitKeeps
  <2>6. CASE (\E s \in Seqs : Receive(s)) \/ ReconcileReceipts
      BY <1>1, <2>6, ReceiveKeeps, ReconcileKeeps
  <2>7. CASE nack \in Nacked /\ run.fence = 0 /\ Quarantine
      BY <1>1, <2>7, QuarantineKeeps
  <2> QED  BY <1>3, <2>1, <2>2, <2>3, <2>4, <2>5, <2>6, <2>7 DEF OutboxStep
<1> QED  BY <1>2, <1>4 DEF OutboxInv, OutboxCore

LEMMA OutboxInvHolds == OutboxSpec => []OutboxInv
BY OutboxInvInit, OutboxInvStep, PTL DEF OutboxSpec

\* Every state of the outbox has its type: no durable_seq beyond the last one,
\* no generation beyond the one a cancel or a quarantine adds.
THEOREM OutboxTypeCorrect == OutboxSpec => []OutboxTypeOK
<1>1. OutboxInv => OutboxTypeOK
    BY DEF OutboxInv, OutboxTyped
<1> QED  BY <1>1, OutboxInvHolds, PTL

\* finalize_terminal: the public terminal is one chat event and the last one,
\* however many emitters and republications of whatever generation still hold
\* a frame: the fact of each is already there.
THEOREM TerminalIsLast == OutboxSpec => []TerminalClosesChat
<1>1. OutboxInv => TerminalClosesChat
    BY DEF OutboxInv
<1> QED  BY <1>1, OutboxInvHolds, PTL

\* stage_critical_frame, reserve_event_index and finalize_terminal hand out
\* the indexes: none is ever used for two facts, and the retained terminal
\* frame passes its verification.
THEOREM IndexNamesFact == OutboxSpec => []OneFactPerIndex
<1>1. OutboxInv => OneFactPerIndex
    BY DEF OutboxInv
<1> QED  BY <1>1, OutboxInvHolds, PTL

\* delivery_ready_on_cursor and reconcile_receipts: no run ends publicly over
\* a deliver call that is in flight or untold, and until a run has ended its
\* delivery frames are kept whatever the session has acknowledged.
THEOREM DeliveriesAreTold == OutboxSpec => []DeliveriesSurvive
<1>1. OutboxInv => DeliveriesSurvive
    BY DEF OutboxInv
<1> QED  BY <1>1, OutboxInvHolds, PTL

\* reconcile_receipts: the manifest asks to close only after a public end that
\* leaves no frame, and a collected frame was received with all before it.
THEOREM CloseIsReceived == OutboxSpec => []ClosedIsReceived
<1>1. OutboxInv => ClosedIsReceived
    BY DEF OutboxInv
<1> QED  BY <1>1, OutboxInvHolds, PTL
====
