---------------------------- MODULE EffectProofs -----------------------------
(***************************************************************************)
(* Work that outlives its executor.  A tool call has its side effect once    *)
(* and its result is told truly, a steer is in the mailbox until the head    *)
(* has it, the row of a delivery tells what became of it in Storage, and a   *)
(* run is failed for lack of progress only when its thread was seen to rest, *)
(* for any number of invocations, steers, lease generations, mishaps and     *)
(* edits of the file.                                                        *)
(***************************************************************************)
EXTENDS ToolEffects, Delivery, ReconcileProbes, Integers, SequenceTheorems, TLAPS

Pcs == {"idle", "node", "commit", "peek", "ack", "journal", "insert", "reread", "run", "finish", "clear",
        "put", "dead", "paused", "done"}
Places == {"before1", "model1", "tools", "before2", "model2", "end"}
Results == {"none", "ok", "unknown"}
InvRecords == [pc : Pcs, gen : Nat, at : Places, msgs : SUBSET Steers, seen : SUBSET Steers, result : Results]

ToolTypes ==
    /\ run \in [gen : Nat, held : BOOLEAN, open : BOOLEAN]
    /\ tool \in [kind : {"local", "mcp_call"}, reviewed : BOOLEAN]
    /\ mailbox \subseteq Steers
    /\ journal \in {"none", "started", "finished"} /\ reviews \in Results
    /\ head \in [at : Places, msgs : SUBSET Steers, result : Results]
    /\ inv \in [Invs -> InvRecords]
    /\ effects \in {0, 1} /\ overtaken \in BOOLEAN

\* The graph has ended only where no node is being worked on.
Resting == {"idle", "node", "dead", "paused", "done"}
Placed == \A i \in Invs : inv[i].at = "end" => inv[i].pc \in Resting

\* One invocation of a generation runs at a time, and none of a later one.
Alone ==
    \A i \in Invs :
        /\ inv[i].gen <= run.gen
        /\ ~Stopped(i) => \A k \in Invs : ~Stopped(k) /\ inv[k].gen = inv[i].gen => k = i

\* The one that started the tool is the only one in it, until its row says how it ended.
InTool(i) == inv[i].pc \in {"run", "finish", "clear"}
ToolIsOne ==
    /\ \A i \in Invs : InTool(i) =>
         /\ journal = "started" /\ \A k \in Invs : InTool(k) => k = i
         /\ effects = (IF inv[i].pc = "finish" THEN 1 ELSE 0)
    /\ journal = "none" => effects = 0
    /\ journal = "finished" => effects = 1
    /\ \A i \in Invs : inv[i].gen = run.gen =>
         /\ inv[i].pc = "insert" => journal = "none"
         /\ inv[i].pc = "reread" => ~Holds(i)
OkIsTrue ==
    /\ head.result = "ok" \/ reviews = "ok" => effects = 1
    /\ \A i \in Invs : inv[i].result = "ok" => effects = 1

\* A started tool whose invocation can record nothing any more: its outcome stays unknown.
Settled == journal = "started" /\ \A k \in Invs : InTool(k) => inv[k].gen < run.gen
UnknownIsTrue ==
    /\ head.result = "unknown" \/ reviews = "unknown" => Settled \/ overtaken
    /\ \A i \in Invs : inv[i].result = "unknown" => Settled \/ overtaken \/ inv[i].gen < run.gen

ToolInv == ToolTypes /\ Placed /\ Alone /\ ToolIsOne /\ OkIsTrue /\ UnknownIsTrue

\* What an invocation of the current generation holds is in the head, or on its way there.
Follows(i) ==
    ~Stopped(i) /\ inv[i].gen = run.gen /\ ~overtaken =>
        IF inv[i].pc = "commit" THEN head.msgs \subseteq inv[i].msgs ELSE inv[i].msgs = head.msgs
SteerTyped == steer \in [Steers -> {"none", "checked", "added"}]
SteerInv == ToolInv /\ SteerTyped /\ (\A i \in Invs : Follows(i)) /\ SteerSurvives

----------------------------------------------------------------------------
LEMMA ToSays ==
    ASSUME ToolInv, NEW i \in Invs, NEW p \in Pcs
    PROVE  /\ To(i, p) \in InvRecords /\ To(i, p).pc = p
           /\ To(i, p).gen = inv[i].gen /\ To(i, p).at = inv[i].at /\ To(i, p).msgs = inv[i].msgs
           /\ To(i, p).seen = inv[i].seen /\ To(i, p).result = inv[i].result
<1>1. inv[i] \in InvRecords
  BY DEF ToolInv, ToolTypes
<1>. QED BY <1>1 DEF To, InvRecords

LEMMA ResultSays ==
    ASSUME ToolInv, NEW i \in Invs, NEW x \in Results, Result(i, x)
    PROVE  \E r \in InvRecords :
             /\ Becomes(i, r) /\ r.pc \in {"put", "commit"} /\ r.result = x
             /\ r.gen = inv[i].gen /\ r.at = inv[i].at /\ r.msgs = inv[i].msgs
             /\ r.pc = "commit" => ~tool.reviewed
<1>. DEFINE p == IF tool.reviewed THEN "put" ELSE "commit"
            t == To(i, p)
            r == [t EXCEPT !.result = x]
<1>1. p \in Pcs /\ p \in {"put", "commit"} /\ (p = "commit" => ~tool.reviewed)
  BY DEF Pcs
<1>2. Becomes(i, r)
  BY DEF Result
<1>. HIDE DEF p
<1>3. t \in InvRecords /\ t.pc = p /\ t.gen = inv[i].gen /\ t.at = inv[i].at /\ t.msgs = inv[i].msgs
  BY <1>1, ToSays
<1>. HIDE DEF t
<1>4. r \in InvRecords /\ r.pc = p /\ r.result = x /\ r.gen = inv[i].gen /\ r.at = inv[i].at /\ r.msgs = inv[i].msgs
  BY <1>3 DEF InvRecords
<1>. QED BY <1>1, <1>2, <1>4

LEMMA InvSays ==
    ASSUME ToolInv, NEW i \in Invs
    PROVE  /\ inv[i] \in InvRecords /\ inv[i].pc \in Pcs /\ inv[i].gen \in Nat /\ inv[i].at \in Places
           /\ inv[i].msgs \subseteq Steers /\ inv[i].seen \subseteq Steers /\ inv[i].result \in Results
           /\ run.gen \in Nat /\ inv[i].gen <= run.gen
BY DEF ToolInv, ToolTypes, InvRecords, Alone

LEMMA BecomesSays ==
    ASSUME ToolInv, NEW i \in Invs, NEW r \in InvRecords, Becomes(i, r)
    PROVE  inv' \in [Invs -> InvRecords] /\ \A k \in Invs : inv'[k] = IF k = i THEN r ELSE inv[k]
BY DEF ToolInv, ToolTypes, Becomes

\* An invocation goes on outside the tool, and tells nothing it may not tell.
LEMMA GoesOn ==
    ASSUME ToolInv, NEW i \in Invs, NEW r \in InvRecords, Becomes(i, r),
           UNCHANGED <<run, tool, journal, effects>>, ~Stopped(i), r.gen = inv[i].gen,
           r.pc \notin {"run", "finish", "clear"}, r.at = "end" => r.pc \in Resting,
           r.pc = "insert" /\ inv[i].gen = run.gen => journal = "none",
           r.pc = "reread" /\ inv[i].gen = run.gen => ~Holds(i),
           mailbox' \subseteq Steers, reviews' \in Results,
           head' \in [at : Places, msgs : SUBSET Steers, result : Results],
           overtaken' \in BOOLEAN, overtaken => overtaken',
           r.result = "ok" \/ head'.result = "ok" \/ reviews' = "ok" => effects = 1,
           r.result = "unknown" => Settled \/ overtaken' \/ inv[i].gen < run.gen,
           head'.result = "unknown" \/ reviews' = "unknown" => Settled \/ overtaken'
    PROVE  ToolInv'
<1>1. \A k \in Invs : inv'[k] = IF k = i THEN r ELSE inv[k]
  BY BecomesSays
<1>2. ToolTypes'
  BY BecomesSays DEF ToolInv, ToolTypes
<1>a. Placed'
  BY <1>1 DEF ToolInv, Placed
<1>3. Alone'
  <2>1. \A k \in Invs : inv'[k].gen = inv[k].gen /\ (~Stopped(k)' => ~Stopped(k))
    BY <1>1 DEF Stopped
  <2>. QED BY <2>1 DEF ToolInv, Alone
<1>4. ToolIsOne'
  <2>1. \A k \in Invs : InTool(k)' => InTool(k) /\ k # i
    BY <1>1 DEF InTool
  <2>2. ASSUME NEW k \in Invs, inv'[k].gen = run'.gen
        PROVE  (inv'[k].pc = "insert" => journal' = "none") /\ (inv'[k].pc = "reread" => ~Holds(k)')
    BY <1>1, <2>2 DEF ToolInv, ToolIsOne, Holds
  <2>3. ASSUME NEW k \in Invs, InTool(k)'
        PROVE  /\ journal' = "started" /\ \A m \in Invs : InTool(m)' => m = k
               /\ effects' = (IF inv'[k].pc = "finish" THEN 1 ELSE 0)
    BY <1>1, <2>1, <2>3 DEF ToolInv, ToolIsOne
  <2>. QED BY <2>2, <2>3 DEF ToolInv, ToolIsOne
<1>5. OkIsTrue'
  BY <1>1 DEF ToolInv, OkIsTrue
<1>6. Settled => Settled'
  BY <1>1 DEF Settled, InTool
<1>7. UnknownIsTrue'
  BY <1>1, <1>6 DEF ToolInv, UnknownIsTrue
<1>. QED BY <1>2, <1>a, <1>3, <1>4, <1>5, <1>7 DEF ToolInv

\* The rows stay, and the result the invocation has is the one it had.
LEMMA GoesTo ==
    ASSUME ToolInv, NEW i \in Invs, NEW r \in InvRecords, Becomes(i, r), ~Stopped(i),
           UNCHANGED <<run, tool, journal, reviews, head, effects, overtaken>>, mailbox' \subseteq Steers,
           r.gen = inv[i].gen, r.pc \notin {"run", "finish", "clear", "insert", "reread"},
           r.result = inv[i].result, r.at = "end" => r.pc \in Resting
    PROVE  ToolInv'
BY GoesOn DEF ToolInv, ToolTypes, OkIsTrue, UnknownIsTrue

LEMMA Ends ==
    ASSUME ToolInv, NEW i \in Invs, NEW p \in Pcs, Go(i, p), ~Stopped(i),
           UNCHANGED <<run, tool, journal, reviews, head, effects, overtaken>>, mailbox' \subseteq Steers,
           p \notin {"run", "finish", "clear", "insert", "reread"},
           inv[i].at = "end" => p \in Resting
    PROVE  ToolInv'
BY GoesTo, ToSays DEF Go

----------------------------------------------------------------------------
(* Nodes outside the tool *)

LEMMA NodesKeep ==
    ASSUME ToolInv, NEW i \in Invs, Steering(i) \/ PeekSteers(i) \/ AckSteers(i) \/ CallModel(i) \/ Dies(i)
    PROVE  ToolInv'
<1>0. inv[i] \in InvRecords /\ mailbox \subseteq Steers /\ ~Stopped(i)
      /\ UNCHANGED <<run, tool, journal, reviews, head, effects, overtaken>>
  BY InvSays DEF ToolInv, ToolTypes, Steering, PeekSteers, AckSteers, CallModel, Dies, Stopped, At, rows
<1>1. CASE Steering(i) \/ CallModel(i) \/ Dies(i)
  <2>1. PICK p \in {"peek", "commit", "dead"} : Go(i, p)
    BY <1>1 DEF Steering, CallModel, Dies, Gate
  <2>2. p \in Pcs /\ UNCHANGED mailbox
    BY <1>1 DEF Pcs, Steering, CallModel, Dies, rows
  <2>3. inv[i].at # "end" \/ Dies(i)
    BY <1>1 DEF Steering, CallModel
  <2>4. CASE inv[i].at # "end"
    BY <1>0, <2>1, <2>2, <2>4, Ends
  <2>5. CASE Dies(i)
    <3>1. Go(i, "dead") /\ "dead" \in Pcs /\ "dead" \in Resting
      BY <2>5 DEF Dies, Pcs, Resting
    <3>. QED BY <1>0, <2>2, <3>1, Ends
  <2>. QED BY <2>3, <2>4, <2>5
<1>2. CASE PeekSteers(i)
  <2>. DEFINE t == To(i, "ack")
              r == [t EXCEPT !.seen = mailbox]
  <2>1. Becomes(i, r) /\ UNCHANGED mailbox /\ inv[i].at # "end"
    BY <1>2 DEF PeekSteers, rows, At, ToolInv, Placed, Resting
  <2>2. t \in InvRecords /\ t.pc = "ack" /\ t.gen = inv[i].gen /\ t.result = inv[i].result /\ t.at = inv[i].at
    BY ToSays DEF Pcs
  <2>. HIDE DEF t
  <2>3. r \in InvRecords /\ r.pc = "ack" /\ r.gen = inv[i].gen /\ r.result = inv[i].result /\ r.at = inv[i].at
    BY <1>0, <2>2 DEF InvRecords
  <2>. HIDE DEF r
  <2>. QED BY <1>0, <2>1, <2>3, GoesTo
<1>3. CASE AckSteers(i)
  <2>. DEFINE t == To(i, "commit")
              m == inv[i].msgs \cup inv[i].seen
              r == [t EXCEPT !.msgs = m]
  <2>1. /\ t \in InvRecords /\ t.pc = "commit" /\ t.gen = inv[i].gen /\ t.result = inv[i].result
        /\ t.msgs = inv[i].msgs /\ t.at = inv[i].at
    BY ToSays DEF Pcs
  <2>2. (Becomes(i, [t EXCEPT !.msgs = @ \cup inv[i].seen]) \/ Go(i, "dead")) /\ mailbox' \subseteq Steers
    BY <1>0, <1>3 DEF AckSteers
  <2>3. m \subseteq Steers
    BY InvSays
  <2>. HIDE DEF t
  <2>4. r = [t EXCEPT !.msgs = @ \cup inv[i].seen]
    BY <2>1
  <2>. HIDE DEF m
  <2>5. r \in InvRecords /\ r.pc = "commit" /\ r.gen = inv[i].gen /\ r.result = inv[i].result /\ r.at = inv[i].at
    BY <2>1, <2>3 DEF InvRecords
  <2>6. Becomes(i, r) \/ Go(i, "dead")
    BY <2>2, <2>4
  <2>. HIDE DEF r
  <2>7. "dead" \in Pcs /\ "dead" \in Resting /\ inv[i].at # "end"
    BY <1>3 DEF Pcs, Resting, AckSteers, At, ToolInv, Placed
  <2>. QED BY <1>0, <2>2, <2>5, <2>6, <2>7, GoesTo, Ends
<1>. QED BY <1>1, <1>2, <1>3

\* A checkpoint of a superseded generation is what overtaken says.
LEMMA CommitKeeps == ASSUME ToolInv, NEW i \in Invs, Commit(i) PROVE ToolInv'
<1>. DEFINE t == To(i, "node")
            n == After[inv[i].at]
            r == [t EXCEPT !.at = n, !.seen = {}]
<1>0. /\ UNCHANGED <<run, tool, mailbox, journal, reviews, effects>> /\ ~Stopped(i)
      /\ mailbox \subseteq Steers /\ reviews \in Results /\ overtaken' \in BOOLEAN
      /\ (overtaken => overtaken') /\ (run.gen # inv[i].gen => overtaken')
  BY DEF Commit, Stopped, At, rows, ToolInv, ToolTypes
<1>1. /\ t \in InvRecords /\ t.pc = "node" /\ t.gen = inv[i].gen /\ t.result = inv[i].result
      /\ t.at = inv[i].at /\ t.msgs = inv[i].msgs
  BY ToSays DEF Pcs
<1>2. Becomes(i, [t EXCEPT !.at = After[@], !.seen = {}])
      /\ head' = LET q == [t EXCEPT !.at = After[@], !.seen = {}] IN [at |-> q.at, msgs |-> q.msgs, result |-> q.result]
  BY DEF Commit
<1>3. n \in Places
  <2>1. inv[i].at \in Places \ {"end"}
    BY InvSays DEF Commit, At, ToolInv, Placed, Resting
  <2>. QED BY <2>1 DEF After, Places
<1>. HIDE DEF t
<1>4. r = [t EXCEPT !.at = After[@], !.seen = {}]
  BY <1>1
<1>. HIDE DEF n
<1>5. r \in InvRecords /\ r.pc = "node" /\ r.gen = inv[i].gen /\ r.result = inv[i].result /\ r.msgs = inv[i].msgs
      /\ r.at = n
  BY <1>1, <1>3 DEF InvRecords
<1>6. Becomes(i, r) /\ head' = [at |-> r.at, msgs |-> r.msgs, result |-> r.result]
  BY <1>2, <1>4
<1>. HIDE DEF r
<1>7. head' \in [at : Places, msgs : SUBSET Steers, result : Results] /\ head'.result = inv[i].result
  BY <1>3, <1>5, <1>6, InvSays
<1>8. /\ inv[i].result = "ok" \/ reviews = "ok" => effects = 1
      /\ inv[i].result = "unknown" \/ reviews = "unknown" => Settled \/ overtaken'
  <2>1. run.gen # inv[i].gen <=> inv[i].gen < run.gen
    BY InvSays
  <2>. QED BY <1>0, <2>1 DEF ToolInv, OkIsTrue, UnknownIsTrue
<1>. QED BY <1>0, <1>5, <1>6, <1>7, <1>8, GoesOn DEF Resting

LEMMA ReviewKeeps == ASSUME ToolInv, NEW i \in Invs, Review(i) PROVE ToolInv'
<1>0. UNCHANGED <<run, tool, mailbox, journal, reviews, head, effects, overtaken>> /\ ~Stopped(i)
      /\ inv[i].at # "end" /\ mailbox \subseteq Steers
  BY DEF Review, Stopped, At, rows, ToolInv, ToolTypes
<1>1. CASE \E p \in {"journal", "paused", "dead"} : Go(i, p)
  BY <1>0, <1>1, Ends DEF Pcs
<1>2. CASE reviews # "none" /\ Becomes(i, [To(i, "commit") EXCEPT !.result = reviews])
  <2>. DEFINE t == To(i, "commit")
              r == [t EXCEPT !.result = reviews]
  <2>1. t \in InvRecords /\ t.pc = "commit" /\ t.gen = inv[i].gen /\ t.at = inv[i].at /\ reviews \in Results
    BY ToSays DEF Pcs, ToolInv, ToolTypes
  <2>2. Becomes(i, r)
    BY <1>2
  <2>. HIDE DEF t
  <2>3. r \in InvRecords /\ r.pc = "commit" /\ r.gen = inv[i].gen /\ r.at = inv[i].at /\ r.result = reviews
    BY <2>1 DEF InvRecords
  <2>. HIDE DEF r
  <2>. QED BY <1>0, <2>2, <2>3, GoesOn DEF ToolInv, ToolTypes, OkIsTrue, UnknownIsTrue
<1>. QED BY <1>1, <1>2 DEF Review, Gate

----------------------------------------------------------------------------
(* The tool node.  An invocation that may still record is the only one of    *)
(* its generation, and that generation is the current one.                    *)

LEMMA OthersOlder ==
    ASSUME ToolInv, NEW i \in Invs, ~Stopped(i), inv[i].gen = run.gen, NEW k \in Invs, k # i, ~Stopped(k)
    PROVE  inv[k].gen < run.gen
<1>1. inv[k].gen # inv[i].gen
  BY DEF ToolInv, Alone
<1>. QED BY <1>1, InvSays

\* A replay of a started tool by the holder: its invocation is of an older generation.
LEMMA ReplayKeeps ==
    ASSUME ToolInv, NEW i \in Invs, Replay(i), ~Stopped(i), ~InTool(i), inv[i].at # "end",
           UNCHANGED <<run, tool, mailbox, journal, reviews, head, effects, overtaken>>, journal # "none",
           journal = "started" /\ inv[i].gen # run.gen => inv[i].gen < run.gen
    PROVE  ToolInv'
<1>. DEFINE x == IF journal = "started" THEN "unknown" ELSE "ok"
<1>0. x \in Results /\ Result(i, x)
  BY DEF Results, Replay
<1>1. x = "ok" => effects = 1
  BY DEF ToolInv, ToolTypes, ToolIsOne
<1>2. x = "unknown" => Settled \/ inv[i].gen < run.gen
  <2>1. CASE inv[i].gen = run.gen /\ journal = "started"
    <3>1. ASSUME NEW k \in Invs, InTool(k) PROVE inv[k].gen < run.gen
      BY <2>1, <3>1, OthersOlder DEF InTool, Stopped
    <3>. QED BY <2>1, <3>1 DEF Settled
  <2>. QED BY <2>1
<1>. HIDE DEF x
<1>3. PICK r \in InvRecords :
        /\ Becomes(i, r) /\ r.pc \in {"put", "commit"} /\ r.result = x
        /\ r.gen = inv[i].gen /\ r.at = inv[i].at
  BY <1>0, ResultSays
<1>. QED BY <1>1, <1>2, <1>3, GoesOn DEF ToolInv, ToolTypes, OkIsTrue, UnknownIsTrue

LEMMA ReadKeeps == ASSUME ToolInv, NEW i \in Invs, ReadJournal(i) PROVE ToolInv'
<1>0. UNCHANGED <<run, tool, mailbox, journal, reviews, head, effects, overtaken>> /\ ~Stopped(i)
      /\ inv[i].at # "end" /\ mailbox \subseteq Steers /\ ~InTool(i) /\ "dead" \in Resting
  BY DEF ReadJournal, Stopped, At, rows, ToolInv, ToolTypes, Placed, Resting, InTool
<1>1. CASE ~Holds(i)
  BY <1>0, <1>1, Ends DEF ReadJournal, Pcs
<1>2. CASE Holds(i) /\ journal = "none"
  <2>1. Becomes(i, To(i, "insert"))
    BY <1>2 DEF ReadJournal, Go
  <2>2. "insert" \in Pcs
    BY DEF Pcs
  <2>. QED BY <1>0, <1>2, <2>1, <2>2, ToSays, GoesOn DEF ToolInv, ToolTypes, OkIsTrue, UnknownIsTrue
<1>3. CASE Holds(i) /\ journal # "none"
  <2>1. Replay(i) /\ inv[i].gen = run.gen
    BY <1>3 DEF ReadJournal, Holds
  <2>. QED BY <1>0, <1>3, <2>1, ReplayKeeps
<1>. QED BY <1>1, <1>2, <1>3

LEMMA RereadKeeps == ASSUME ToolInv, NEW i \in Invs, Reread(i) PROVE ToolInv'
<1>0. UNCHANGED <<run, tool, mailbox, journal, reviews, head, effects, overtaken>> /\ ~Stopped(i)
      /\ inv[i].at # "end" /\ mailbox \subseteq Steers /\ ~InTool(i) /\ "dead" \in Resting /\ "dead" \in Pcs
  BY DEF Reread, Stopped, At, rows, ToolInv, ToolTypes, Placed, Resting, InTool, Pcs
<1>1. ~Holds(i)
  BY DEF Reread, At, ToolInv, ToolIsOne, Holds
<1>2. CASE journal = "none"
  BY <1>0, <1>1, <1>2, Ends DEF Reread
<1>3. CASE journal # "none"
  <2>1. Replay(i)
    BY <1>3 DEF Reread
  <2>2. inv[i].gen <= run.gen /\ inv[i].gen \in Nat /\ run.gen \in Nat
    BY InvSays
  <2>. QED BY <1>0, <1>3, <2>1, <2>2, ReplayKeeps
<1>. QED BY <1>2, <1>3

LEMMA PutKeeps == ASSUME ToolInv, NEW i \in Invs, PutResult(i) PROVE ToolInv'
<1>0. UNCHANGED <<run, tool, mailbox, journal, head, effects, overtaken>> /\ ~Stopped(i)
      /\ mailbox \subseteq Steers /\ {"dead", "paused"} \subseteq Resting \cap Pcs
  BY DEF PutResult, Stopped, At, ToolInv, ToolTypes, Resting, Pcs
<1>1. PICK p \in {"dead", "paused"} : Becomes(i, To(i, p))
  BY DEF PutResult, Gate, Go
<1>2. /\ reviews' \in Results
      /\ reviews' = "ok" => effects = 1
      /\ reviews' = "unknown" => Settled \/ overtaken
  <2>1. CASE reviews' = reviews
    BY <2>1 DEF ToolInv, ToolTypes, OkIsTrue, UnknownIsTrue
  <2>2. CASE Holds(i) /\ reviews' = inv[i].result
    <3>1. inv[i].gen = run.gen /\ inv[i].result \in Results /\ run.gen \in Nat
      BY <2>2, InvSays DEF Holds
    <3>. QED BY <2>2, <3>1 DEF ToolInv, OkIsTrue, UnknownIsTrue
  <2>. QED BY <2>1, <2>2 DEF PutResult
<1>. QED BY <1>0, <1>1, <1>2, ToSays, GoesOn DEF ToolInv, ToolTypes, OkIsTrue, UnknownIsTrue

\* A step of the one invocation that is in the tool, or enters it.
LEMMA ToolStep ==
    ASSUME ToolInv, NEW i \in Invs, NEW r \in InvRecords, Becomes(i, r),
           UNCHANGED <<run, tool, mailbox, reviews, head, overtaken>>, ~Stopped(i),
           r.gen = inv[i].gen, r.at # "end", r.pc \notin {"insert", "reread"},
           \A k \in Invs : k # i => ~InTool(k),
           journal' \in {"none", "started", "finished"}, effects' \in {0, 1}, effects = 1 => effects' = 1,
           r.pc \in {"run", "finish", "clear"} =>
              journal' = "started" /\ effects' = (IF r.pc = "finish" THEN 1 ELSE 0),
           journal' = "none" => effects' = 0, journal' = "finished" => effects' = 1,
           r.result = inv[i].result \/ (r.result = "ok" /\ effects' = 1),
           IF journal' = journal THEN InTool(i) ELSE ~Settled /\ inv[i].gen = run.gen
    PROVE  ToolInv'
<1>1. \A k \in Invs : inv'[k] = IF k = i THEN r ELSE inv[k]
  BY BecomesSays
<1>2. ToolTypes' /\ Placed'
  BY <1>1, BecomesSays DEF ToolInv, ToolTypes, Placed
<1>3. Alone'
  <2>1. \A k \in Invs : inv'[k].gen = inv[k].gen /\ (~Stopped(k)' => ~Stopped(k))
    BY <1>1 DEF Stopped
  <2>. QED BY <2>1 DEF ToolInv, Alone
<1>4. ToolIsOne'
  <2>1. \A k \in Invs : InTool(k)' => k = i
    BY <1>1 DEF InTool
  <2>2. ASSUME NEW k \in Invs, inv'[k].gen = run'.gen
        PROVE  (inv'[k].pc = "insert" => journal' = "none") /\ (inv'[k].pc = "reread" => ~Holds(k)')
    <3>1. inv'[k].pc \in {"insert", "reread"} => k # i /\ inv'[k] = inv[k]
      BY <1>1
    <3>2. inv[k].pc = "insert" /\ k # i /\ inv[k].gen = run.gen => journal' = journal
      BY DEF ToolInv, Alone, Stopped
    <3>. QED BY <2>2, <3>1, <3>2 DEF ToolInv, ToolIsOne, Holds
  <2>3. InTool(i)' => journal' = "started" /\ effects' = (IF inv'[i].pc = "finish" THEN 1 ELSE 0)
    BY <1>1 DEF InTool
  <2>. QED BY <2>1, <2>2, <2>3 DEF ToolIsOne
<1>5. OkIsTrue'
  BY <1>1 DEF ToolInv, OkIsTrue
<1>6. Settled => Settled'
  BY <1>1 DEF Settled, InTool
<1>7. UnknownIsTrue'
  BY <1>1, <1>6 DEF ToolInv, UnknownIsTrue
<1>. QED BY <1>2, <1>3, <1>4, <1>5, <1>7 DEF ToolInv

LEMMA StartToolKeeps == ASSUME ToolInv, NEW i \in Invs, StartTool(i) PROVE ToolInv'
<1>0. UNCHANGED <<run, tool, mailbox, reviews, head, effects, overtaken>> /\ ~Stopped(i)
      /\ inv[i].at # "end" /\ mailbox \subseteq Steers /\ {"run", "reread"} \subseteq Pcs
  BY DEF StartTool, Stopped, At, ToolInv, ToolTypes, Placed, Resting, Pcs
<1>1. CASE Holds(i) /\ journal = "none"
  <2>1. Becomes(i, To(i, "run")) /\ journal' = "started"
    BY <1>1 DEF StartTool, Go
  <2>2. effects = 0 /\ ~Settled /\ inv[i].gen = run.gen /\ \A k \in Invs : ~InTool(k)
    BY <1>1 DEF ToolInv, ToolIsOne, Settled, Holds
  <2>. QED BY <1>0, <1>1, <2>1, <2>2, ToSays, ToolStep
<1>2. CASE ~(Holds(i) /\ journal = "none")
  <2>1. Becomes(i, To(i, "reread")) /\ UNCHANGED journal
    BY <1>2 DEF StartTool, Go
  <2>2. inv[i].gen = run.gen => ~Holds(i)
    BY <1>2 DEF StartTool, At, ToolInv, ToolIsOne
  <2>. QED BY <1>0, <2>1, <2>2, ToSays, GoesOn DEF ToolInv, ToolTypes, OkIsTrue, UnknownIsTrue
<1>. QED BY <1>1, <1>2

LEMMA InToolKeeps ==
    ASSUME ToolInv, NEW i \in Invs, RunTool(i) \/ PauseTool(i) \/ ClearJournal(i) \/ FinishTool(i)
    PROVE  ToolInv'
<1>0. UNCHANGED <<run, tool, mailbox, reviews, head, overtaken>> /\ ~Stopped(i)
      /\ inv[i].at # "end" /\ mailbox \subseteq Steers /\ {"finish", "clear", "paused", "dead"} \subseteq Pcs
      /\ InTool(i)
  BY DEF RunTool, PauseTool, ClearJournal, FinishTool, Stopped, At, rows, ToolInv, ToolTypes, Placed, Resting, Pcs, InTool
<1>1. /\ journal = "started" /\ effects = (IF inv[i].pc = "finish" THEN 1 ELSE 0)
      /\ \A k \in Invs : k # i => ~InTool(k)
      /\ Holds(i) => inv[i].gen = run.gen /\ ~Settled
  <2>1. Holds(i) => inv[i].gen = run.gen /\ ~Settled
    BY <1>0, InvSays DEF Holds, Settled
  <2>. QED BY <1>0, <2>1 DEF ToolInv, ToolIsOne
<1>2. CASE RunTool(i)
  <2>1. Becomes(i, To(i, "finish")) /\ UNCHANGED journal /\ effects' = 1
    BY <1>1, <1>2 DEF RunTool, Go, rows, At
  <2>. QED BY <1>0, <1>1, <2>1, ToSays, ToolStep
<1>3. CASE PauseTool(i)
  <2>1. /\ Becomes(i, To(i, IF Clears THEN "clear" ELSE "paused")) /\ UNCHANGED journal
        /\ effects = 0 /\ effects' = IF tool.kind = "mcp_call" THEN 1 ELSE 0
    BY <1>1, <1>3 DEF PauseTool, Go, rows, At
  <2>2. CASE Clears
    BY <1>0, <1>1, <2>1, <2>2, ToSays, ToolStep DEF Clears
  <2>3. CASE ~Clears
    BY <1>0, <1>1, <2>1, <2>3, ToSays, ToolStep DEF Clears
  <2>. QED BY <2>2, <2>3
<1>4. CASE ClearJournal(i)
  <2>1. Becomes(i, To(i, "paused")) /\ journal' = (IF Holds(i) THEN "none" ELSE journal) /\ UNCHANGED effects
        /\ effects = 0
    BY <1>1, <1>4 DEF ClearJournal, Go, At
  <2>. QED BY <1>0, <1>1, <2>1, ToSays, ToolStep
<1>5. CASE FinishTool(i)
  <2>0. effects = 1 /\ UNCHANGED effects
    BY <1>1, <1>5 DEF FinishTool, At
  <2>1. CASE Holds(i)
    <3>1. journal' = "finished" /\ Result(i, "ok")
      BY <1>1, <1>5, <2>1 DEF FinishTool
    <3>2. PICK r \in InvRecords :
            /\ Becomes(i, r) /\ r.pc \in {"put", "commit"} /\ r.result = "ok"
            /\ r.gen = inv[i].gen /\ r.at = inv[i].at
      BY <3>1, ResultSays DEF Results
    <3>. QED BY <1>0, <1>1, <2>0, <2>1, <3>1, <3>2, ToolStep
  <2>2. CASE ~Holds(i)
    <3>1. Becomes(i, To(i, "dead")) /\ UNCHANGED journal
      BY <1>5, <2>2 DEF FinishTool, Go
    <3>. QED BY <1>0, <1>1, <2>0, <3>1, ToSays, ToolStep
  <2>. QED BY <2>1, <2>2
<1>. QED BY <1>2, <1>3, <1>4, <1>5

----------------------------------------------------------------------------
(* The run, and the invocations it starts *)

LEMMA RunKeeps ==
    ASSUME ToolInv, UNCHANGED <<tool, journal, reviews, head, inv, effects, overtaken>>, mailbox' \subseteq Steers,
           run' \in [gen : Nat, held : BOOLEAN, open : BOOLEAN],
           \/ run'.gen > run.gen
           \/ run'.gen = run.gen /\ (run'.open /\ run'.held => run.open /\ run.held)
    PROVE  ToolInv'
<1>0. run.gen \in Nat /\ run'.gen \in Nat
  BY DEF ToolInv, ToolTypes
<1>1. ASSUME NEW k \in Invs PROVE inv[k].gen \in Nat /\ inv[k].gen <= run.gen
  BY InvSays
<1>2. ToolTypes' /\ Placed'
  BY DEF ToolInv, ToolTypes, Placed
<1>3. Alone'
  BY <1>0, <1>1 DEF ToolInv, Alone, Stopped
<1>4. ToolIsOne'
  BY <1>0, <1>1 DEF ToolInv, ToolIsOne, InTool, Holds
<1>5. OkIsTrue'
  BY DEF ToolInv, OkIsTrue
<1>6. Settled => Settled'
  BY <1>0, <1>1 DEF Settled, InTool
<1>7. UnknownIsTrue'
  BY <1>0, <1>1, <1>6 DEF ToolInv, UnknownIsTrue
<1>. QED BY <1>2, <1>3, <1>4, <1>5, <1>7 DEF ToolInv

LEMMA StartKeeps == ASSUME ToolInv, NEW i \in Invs, Start(i) PROVE ToolInv'
<1>. DEFINE r == [pc |-> "node", gen |-> run.gen, at |-> head.at, msgs |-> head.msgs,
                  seen |-> {}, result |-> head.result]
<1>0. UNCHANGED <<run, tool, mailbox, journal, reviews, head, effects, overtaken>>
      /\ head \in [at : Places, msgs : SUBSET Steers, result : Results] /\ run.gen \in Nat
      /\ \A k \in Invs : inv[k].gen = run.gen => Stopped(k)
  BY DEF Start, rows, ToolInv, ToolTypes
<1>1. r \in InvRecords /\ Becomes(i, r)
  BY <1>0 DEF InvRecords, Pcs, Start
<1>2. r.pc = "node" /\ r.gen = run.gen /\ r.result = head.result
  OBVIOUS
<1>. HIDE DEF r
<1>3. \A k \in Invs : inv'[k] = IF k = i THEN r ELSE inv[k]
  BY <1>1, BecomesSays
<1>4. ToolTypes'
  BY <1>0, <1>1, BecomesSays DEF ToolInv, ToolTypes
<1>5. Placed'
  BY <1>2, <1>3 DEF ToolInv, Placed, Resting
<1>6. Alone'
  BY <1>0, <1>2, <1>3, InvSays DEF ToolInv, Alone, Stopped
<1>7. ToolIsOne'
  <2>1. \A k \in Invs : (InTool(k)' <=> InTool(k) /\ k # i) /\ (k # i => inv'[k] = inv[k])
    BY <1>2, <1>3 DEF InTool
  <2>2. inv'[i].pc = "node"
    BY <1>2, <1>3
  <2>. QED BY <1>0, <2>1, <2>2 DEF ToolInv, ToolIsOne, Holds
<1>8. OkIsTrue'
  BY <1>0, <1>2, <1>3 DEF ToolInv, OkIsTrue
<1>9. Settled => Settled'
  BY <1>0, <1>2, <1>3 DEF Settled, InTool
<1>10. UnknownIsTrue'
  BY <1>0, <1>2, <1>3, <1>9 DEF ToolInv, UnknownIsTrue
<1>. QED BY <1>4, <1>5, <1>6, <1>7, <1>8, <1>10 DEF ToolInv

LEMMA EndKeeps == ASSUME ToolInv, NEW i \in Invs, EndTurn(i) PROVE ToolInv'
<1>0. UNCHANGED <<tool, mailbox, journal, reviews, head, effects, overtaken>> /\ ~Stopped(i)
      /\ mailbox \subseteq Steers /\ "done" \in Pcs /\ "done" \in Resting /\ Go(i, "done")
  BY DEF EndTurn, Stopped, At, rows, ToolInv, ToolTypes, Pcs, Resting
<1>. DEFINE c == [run EXCEPT !.open = FALSE, !.held = FALSE]
<1>1. run' = run \/ run' = c
  BY DEF EndTurn
<1>2. c \in [gen : Nat, held : BOOLEAN, open : BOOLEAN] /\ c.gen = run.gen /\ ~c.open /\ run.gen \in Nat
  BY DEF ToolInv, ToolTypes
<1>. HIDE DEF c
<1>. DEFINE r == To(i, "done")
<1>3. r \in InvRecords /\ r.pc = "done" /\ r.gen = inv[i].gen /\ r.result = inv[i].result /\ Becomes(i, r)
  BY <1>0, ToSays DEF Go
<1>. HIDE DEF r
<1>4. \A k \in Invs : inv'[k] = IF k = i THEN r ELSE inv[k]
  BY <1>3, BecomesSays
<1>5. ToolTypes'
  BY <1>0, <1>1, <1>2, <1>3, BecomesSays DEF ToolInv, ToolTypes
<1>6. Placed'
  BY <1>0, <1>3, <1>4 DEF ToolInv, Placed
<1>7. run'.gen = run.gen /\ (run'.open => run' = run)
  BY <1>1, <1>2
<1>8. Alone'
  <2>1. \A k \in Invs : inv'[k].gen = inv[k].gen /\ (~Stopped(k)' => ~Stopped(k))
    BY <1>0, <1>3, <1>4 DEF Stopped
  <2>. QED BY <1>7, <2>1 DEF ToolInv, Alone
<1>9. ToolIsOne'
  <2>1. \A k \in Invs : InTool(k)' => InTool(k) /\ k # i
    BY <1>3, <1>4 DEF InTool
  <2>2. ASSUME NEW k \in Invs, inv'[k].gen = run'.gen
        PROVE  (inv'[k].pc = "insert" => journal' = "none") /\ (inv'[k].pc = "reread" => ~Holds(k)')
    BY <1>0, <1>3, <1>4, <1>7, <2>2 DEF ToolInv, ToolIsOne, Holds
  <2>3. ASSUME NEW k \in Invs, InTool(k)'
        PROVE  /\ journal' = "started" /\ \A m \in Invs : InTool(m)' => m = k
               /\ effects' = (IF inv'[k].pc = "finish" THEN 1 ELSE 0)
    BY <1>0, <1>4, <2>1, <2>3 DEF ToolInv, ToolIsOne
  <2>. QED BY <1>0, <2>2, <2>3 DEF ToolInv, ToolIsOne
<1>10. OkIsTrue'
  BY <1>0, <1>3, <1>4 DEF ToolInv, OkIsTrue
<1>11. Settled => Settled'
  BY <1>0, <1>3, <1>4, <1>7 DEF Settled, InTool
<1>12. UnknownIsTrue'
  BY <1>0, <1>3, <1>4, <1>7, <1>11 DEF ToolInv, UnknownIsTrue
<1>. QED BY <1>5, <1>6, <1>8, <1>9, <1>10, <1>12 DEF ToolInv

LEMMA ToolInvInit == ToolInit => ToolInv
<1>. SUFFICES ASSUME ToolInit PROVE ToolInv
  OBVIOUS
<1>. DEFINE r == [pc |-> "idle", gen |-> 0, at |-> "end", msgs |-> {}, seen |-> {}, result |-> "none"]
<1>1. r \in InvRecords /\ r.pc = "idle" /\ r.gen = 0 /\ r.result = "none" /\ inv = [i \in Invs |-> r]
  BY DEF ToolInit, InvRecords, Pcs, Places, Results
<1>. HIDE DEF r
<1>2. ToolTypes
  BY <1>1 DEF ToolInit, ToolTypes, Places, Results
<1>3. Placed /\ Alone
  BY <1>1 DEF ToolInit, Placed, Resting, Alone, Stopped
<1>4. ToolIsOne /\ OkIsTrue /\ UnknownIsTrue
  BY <1>1 DEF ToolInit, ToolIsOne, OkIsTrue, UnknownIsTrue, InTool
<1>. QED BY <1>2, <1>3, <1>4 DEF ToolInv

LEMMA ScheduleKeeps ==
    ASSUME ToolInv, LoseLease \/ Supersede \/ \E s \in Steers : CheckSteer(s) \/ AddSteer(s)
    PROVE  ToolInv'
<1>. DEFINE n == run.gen + 1
            l == [run EXCEPT !.held = FALSE]
            m == [run EXCEPT !.held = TRUE, !.gen = n]
<1>0. run \in [gen : Nat, held : BOOLEAN, open : BOOLEAN] /\ run.gen \in Nat /\ n \in Nat /\ n > run.gen
      /\ mailbox \subseteq Steers
  BY DEF ToolInv, ToolTypes
<1>1. UNCHANGED <<tool, journal, reviews, head, inv, effects, overtaken>> /\ mailbox' \subseteq Steers
  BY <1>0 DEF LoseLease, Supersede, CheckSteer, AddSteer, rows
<1>2. run' \in {run, l, m}
  BY DEF LoseLease, Supersede, CheckSteer, AddSteer
<1>. HIDE DEF n
<1>3. /\ l \in [gen : Nat, held : BOOLEAN, open : BOOLEAN] /\ l.gen = run.gen /\ l.held = FALSE
      /\ m \in [gen : Nat, held : BOOLEAN, open : BOOLEAN] /\ m.gen = n
  BY <1>0
<1>. HIDE DEF l, m
<1>. QED BY <1>0, <1>1, <1>2, <1>3, RunKeeps

LEMMA ToolInvStep == ToolInv /\ [ToolNext]_toolVars => ToolInv'
<1>. SUFFICES ASSUME ToolInv, [ToolNext]_toolVars PROVE ToolInv'
  OBVIOUS
<1>1. CASE UNCHANGED toolVars
  BY <1>1, RunKeeps DEF toolVars, ToolInv, ToolTypes
<1>2. ASSUME NEW i \in Invs, Node(i) PROVE ToolInv'
  BY <1>2, NodesKeep, CommitKeeps, ReviewKeeps, ReadKeeps, RereadKeeps, PutKeeps, StartToolKeeps, InToolKeeps,
     StartKeeps, EndKeeps DEF Node
<1>. QED BY <1>1, <1>2, ScheduleKeeps DEF ToolNext

\* However the tool node is replayed, paused, reviewed or overtaken, the side effect
\* happens at most once, a result given to the model is of an effect that happened, and
\* unknown_outcome is given only where no outcome is recorded, or by a superseded generation.
THEOREM OutcomeTold == ToolSpec => []ToolOutcomeIsTrue
<1>1. ToolInv => ToolOutcomeIsTrue
  BY DEF ToolInv, ToolTypes, ToolIsOne, OkIsTrue, UnknownIsTrue, Settled, ToolOutcomeIsTrue
<1>. QED BY <1>1, ToolInvInit, ToolInvStep, PTL DEF ToolSpec

----------------------------------------------------------------------------
(* Steers.  The holder deletes a steer it finds in its messages, and those   *)
(* are the messages of the head it has loaded or written.                     *)

LEMMA NobodyElse ==
    ASSUME ToolInv, NEW i \in Invs, ~Stopped(i), inv[i].gen = run.gen, NEW k \in Invs, k # i, ~Stopped(k)
    PROVE  inv[k].gen # run.gen
BY OthersOlder, InvSays

\* A step of an invocation that leaves the steers, the mailbox and the head.
LEMMA SteerStays ==
    ASSUME SteerInv, ToolInv', UNCHANGED <<run, steer, mailbox, head, overtaken>>,
           NEW i \in Invs, ~Stopped(i), NEW r \in InvRecords, Becomes(i, r),
           r.gen = inv[i].gen, r.msgs = inv[i].msgs, inv[i].pc = "commit" => r.pc = "dead"
    PROVE  SteerInv'
<1>1. \A k \in Invs : inv'[k] = IF k = i THEN r ELSE inv[k]
  BY BecomesSays DEF SteerInv
<1>2. ASSUME NEW k \in Invs PROVE Follows(k)'
  BY <1>1 DEF SteerInv, Follows, Stopped
<1>. QED BY <1>2 DEF SteerInv, SteerTyped, SteerSurvives

\* The actions whose invocation keeps its messages.
Keeps(i) ==
    \/ Steering(i) \/ PeekSteers(i) \/ CallModel(i) \/ Review(i) \/ ReadJournal(i) \/ StartTool(i)
    \/ Reread(i) \/ RunTool(i) \/ PauseTool(i) \/ ClearJournal(i) \/ FinishTool(i) \/ PutResult(i) \/ Dies(i)

LEMMA KeepsSays ==
    ASSUME ToolInv, NEW i \in Invs, Keeps(i)
    PROVE  \E r \in InvRecords :
             /\ Becomes(i, r) /\ r.gen = inv[i].gen /\ r.msgs = inv[i].msgs
             /\ inv[i].pc = "commit" => r.pc = "dead"
<1>1. CASE \E p \in Pcs : Becomes(i, To(i, p)) /\ (inv[i].pc = "commit" => p = "dead")
  BY <1>1, ToSays
<1>2. CASE inv[i].pc # "commit" /\ \E x \in Results : Result(i, x)
  BY <1>2, ResultSays
<1>3. CASE inv[i].pc # "commit" /\ \E x \in Results : Becomes(i, [To(i, "commit") EXCEPT !.result = x])
  <2>. DEFINE t == To(i, "commit")
  <2>1. PICK x \in Results : Becomes(i, [t EXCEPT !.result = x])
    BY <1>3
  <2>2. t \in InvRecords /\ t.gen = inv[i].gen /\ t.msgs = inv[i].msgs
    BY ToSays DEF Pcs
  <2>. HIDE DEF t
  <2>. DEFINE r == [t EXCEPT !.result = x]
  <2>3. r \in InvRecords /\ r.gen = inv[i].gen /\ r.msgs = inv[i].msgs
    BY <2>2 DEF InvRecords
  <2>. QED BY <1>3, <2>1, <2>3
<1>4. CASE PeekSteers(i)
  <2>. DEFINE t == To(i, "ack")
              r == [t EXCEPT !.seen = mailbox]
  <2>1. Becomes(i, r) /\ inv[i].pc # "commit" /\ mailbox \subseteq Steers
    BY <1>4 DEF PeekSteers, At, ToolInv, ToolTypes
  <2>2. t \in InvRecords /\ t.gen = inv[i].gen /\ t.msgs = inv[i].msgs
    BY ToSays DEF Pcs
  <2>. HIDE DEF t
  <2>3. r \in InvRecords /\ r.gen = inv[i].gen /\ r.msgs = inv[i].msgs
    BY <2>1, <2>2 DEF InvRecords
  <2>. QED BY <2>1, <2>3
<1>5. CASE Steering(i) \/ CallModel(i) \/ PutResult(i) \/ RunTool(i) \/ PauseTool(i) \/ ClearJournal(i) \/ StartTool(i)
  BY <1>1, <1>5 DEF Steering, CallModel, PutResult, RunTool, PauseTool, ClearJournal, StartTool, Gate, Go, At, Pcs
<1>6. CASE Dies(i)
  BY <1>1, <1>6 DEF Dies, Go, Pcs
<1>7. CASE Review(i)
  <2>1. reviews \in Results /\ inv[i].pc = "node"
    BY <1>7 DEF Review, At, ToolInv, ToolTypes
  <2>2. \/ \E p \in {"journal", "dead", "paused"} : Becomes(i, To(i, p))
        \/ Becomes(i, [To(i, "commit") EXCEPT !.result = reviews])
    BY <1>7 DEF Review, Gate, Go
  <2>3. {"journal", "dead", "paused"} \subseteq Pcs
    BY DEF Pcs
  <2>. QED BY <1>1, <1>3, <2>1, <2>2, <2>3
<1>8. CASE ReadJournal(i) \/ Reread(i) \/ FinishTool(i)
  <2>1. \/ \E p \in {"insert", "dead"} : Becomes(i, To(i, p))
        \/ \E x \in {"ok", "unknown"} : Result(i, x)
    BY <1>8 DEF ReadJournal, Reread, FinishTool, Replay, Go
  <2>2. inv[i].pc # "commit" /\ {"insert", "dead"} \subseteq Pcs /\ {"ok", "unknown"} \subseteq Results
    BY <1>8 DEF ReadJournal, Reread, FinishTool, At, Pcs, Results
  <2>. QED BY <1>1, <1>2, <2>1, <2>2
<1>. QED BY <1>4, <1>5, <1>6, <1>7, <1>8 DEF Keeps

LEMMA KeepsSteer == ASSUME SteerInv, ToolInv', NEW i \in Invs, Keeps(i) PROVE SteerInv'
<1>1. UNCHANGED <<run, steer, mailbox, head, overtaken>> /\ ~Stopped(i)
  BY DEF Keeps, Steering, PeekSteers, CallModel, Review, ReadJournal, StartTool, Reread, RunTool, PauseTool,
         ClearJournal, FinishTool, PutResult, Dies, rows, Stopped, At
<1>. QED BY <1>1, KeepsSays, SteerStays DEF SteerInv

\* The acknowledgement deletes only what the head already has.
LEMMA AckSteer == ASSUME SteerInv, ToolInv', NEW i \in Invs, AckSteers(i) PROVE SteerInv'
<1>0. ToolInv /\ inv[i].pc = "ack" /\ ~Stopped(i) /\ UNCHANGED <<run, steer, head, overtaken>> /\ Follows(i)
  BY DEF SteerInv, AckSteers, At, Stopped
<1>. DEFINE t == To(i, "commit")
            m == inv[i].msgs \cup inv[i].seen
            r == [t EXCEPT !.msgs = m]
            d == To(i, "dead")
<1>1. /\ t \in InvRecords /\ t.pc = "commit" /\ t.gen = inv[i].gen /\ t.msgs = inv[i].msgs
      /\ d \in InvRecords /\ d.pc = "dead" /\ d.gen = inv[i].gen
  BY <1>0, ToSays DEF Pcs
<1>2. \/ /\ mailbox' = mailbox \ Landed(i) /\ (Landed(i) = {} \/ Holds(i))
         /\ Becomes(i, [t EXCEPT !.msgs = @ \cup inv[i].seen])
      \/ mailbox' = mailbox /\ Becomes(i, d)
  BY DEF AckSteers, Go
<1>3. m \subseteq Steers /\ inv[i].msgs \subseteq m
  BY <1>0, InvSays
<1>. HIDE DEF t, d
<1>4. r = [t EXCEPT !.msgs = @ \cup inv[i].seen]
  BY <1>1
<1>. HIDE DEF m
<1>5. r \in InvRecords /\ r.pc = "commit" /\ r.gen = inv[i].gen /\ r.msgs = m
  BY <1>1, <1>3 DEF InvRecords
<1>. HIDE DEF r
<1>6. PICK q \in {r, d} : Becomes(i, q) /\ (q = d => mailbox' = mailbox \/ q = r)
  BY <1>2, <1>4
<1>7. \A k \in Invs : inv'[k] = IF k = i THEN q ELSE inv[k]
  BY <1>0, <1>1, <1>5, <1>6, BecomesSays
<1>8. ASSUME NEW k \in Invs PROVE Follows(k)'
  <2>1. CASE k = i
    BY <1>0, <1>1, <1>3, <1>5, <1>6, <1>7, <2>1 DEF Follows, Stopped
  <2>2. CASE k # i
    BY <1>0, <1>7, <2>2 DEF SteerInv, Follows, Stopped
  <2>. QED BY <2>1, <2>2
<1>9. ASSUME NEW s \in mailbox \ mailbox' PROVE s \in head.msgs \/ overtaken
  <2>1. s \in inv[i].msgs /\ inv[i].gen = run.gen
    BY <1>2, <1>9 DEF Landed, Holds
  <2>. QED BY <1>0, <2>1 DEF Follows
<1>. QED BY <1>0, <1>8, <1>9 DEF SteerInv, SteerTyped, SteerSurvives

LEMMA CommitSteer == ASSUME SteerInv, ToolInv', NEW i \in Invs, Commit(i) PROVE SteerInv'
<1>0. ToolInv /\ inv[i].pc = "commit" /\ ~Stopped(i) /\ UNCHANGED <<run, steer, mailbox>> /\ Follows(i)
      /\ (overtaken => overtaken') /\ (run.gen # inv[i].gen => overtaken')
  BY DEF SteerInv, Commit, At, Stopped, rows, ToolInv, ToolTypes
<1>. DEFINE t == To(i, "node")
            r == [t EXCEPT !.at = After[t.at], !.seen = {}]
<1>1. t \in InvRecords /\ t.pc = "node" /\ t.gen = inv[i].gen /\ t.msgs = inv[i].msgs
  BY <1>0, ToSays DEF Pcs
<1>2. Becomes(i, [t EXCEPT !.at = After[@], !.seen = {}])
      /\ head' = LET q == [t EXCEPT !.at = After[@], !.seen = {}] IN [at |-> q.at, msgs |-> q.msgs, result |-> q.result]
  BY DEF Commit
<1>. HIDE DEF t
<1>3. r = [t EXCEPT !.at = After[@], !.seen = {}] /\ r.pc = "node" /\ r.gen = inv[i].gen /\ r.msgs = inv[i].msgs
  BY <1>1 DEF InvRecords
<1>4. Becomes(i, r) /\ head'.msgs = inv[i].msgs
  BY <1>2, <1>3
<1>. HIDE DEF r
<1>5. \A k \in Invs : inv'[k] = IF k = i THEN r ELSE inv[k]
  BY <1>0, <1>4 DEF ToolInv, ToolTypes, Becomes
<1>6. CASE overtaken'
  BY <1>0, <1>6 DEF SteerInv, SteerTyped, Follows, SteerSurvives
<1>7. CASE ~overtaken'
  <2>1. inv[i].gen = run.gen /\ ~overtaken /\ head.msgs \subseteq head'.msgs
    BY <1>0, <1>4, <1>7 DEF Follows
  <2>2. ASSUME NEW k \in Invs PROVE Follows(k)'
    <3>1. CASE k = i
      BY <1>3, <1>4, <1>5, <3>1 DEF Follows
    <3>2. CASE k # i
      <4>1. Stopped(k) \/ inv[k].gen # run.gen
        BY <1>0, <2>1, <3>2, NobodyElse
      <4>. QED BY <1>0, <1>5, <3>2, <4>1 DEF Follows, Stopped
    <3>. QED BY <3>1, <3>2
  <2>. QED BY <1>0, <2>1, <2>2 DEF SteerInv, SteerTyped, SteerSurvives
<1>. QED BY <1>6, <1>7

LEMMA OthersSteer ==
    ASSUME SteerInv, ToolInv',
           \/ LoseLease \/ Supersede \/ UNCHANGED toolVars
           \/ \E s \in Steers : CheckSteer(s) \/ AddSteer(s)
           \/ \E i \in Invs : Start(i) \/ EndTurn(i)
    PROVE  SteerInv'
<1>0. ToolInv /\ run.gen \in Nat /\ run \in [gen : Nat, held : BOOLEAN, open : BOOLEAN]
  BY DEF SteerInv, ToolInv, ToolTypes
<1>1. CASE LoseLease \/ Supersede \/ UNCHANGED toolVars
  <2>1. UNCHANGED <<steer, mailbox, head, inv, overtaken>> /\ (run'.gen = run.gen \/ run'.gen = run.gen + 1)
    BY <1>0, <1>1 DEF LoseLease, Supersede, toolVars, rows
  <2>2. ASSUME NEW k \in Invs PROVE Follows(k)'
    <3>1. inv[k].gen \in Nat /\ inv[k].gen <= run.gen
      BY <1>0, InvSays
    <3>. QED BY <1>0, <2>1, <3>1 DEF SteerInv, Follows, Stopped
  <2>. QED BY <2>1, <2>2 DEF SteerInv, SteerTyped, SteerSurvives
<1>2. ASSUME NEW s \in Steers, CheckSteer(s) \/ AddSteer(s) PROVE SteerInv'
  <2>1. /\ UNCHANGED <<run, head, inv, overtaken>> /\ mailbox \subseteq mailbox'
        /\ \A q \in Steers : steer'[q] = "added" => steer[q] = "added" \/ q \in mailbox'
    <3>1. \A q \in Steers : q # s /\ steer'[q] = "added" => steer[q] = "added"
      BY <1>2 DEF CheckSteer, AddSteer, SteerInv, SteerTyped
    <3>2. steer'[s] = "added" => steer[s] = "added" \/ s \in mailbox'
      BY <1>2 DEF CheckSteer, AddSteer, SteerInv, SteerTyped
    <3>3. UNCHANGED <<run, head, inv, overtaken>> /\ mailbox \subseteq mailbox'
      BY <1>2 DEF CheckSteer, AddSteer, rows
    <3>. QED BY <3>1, <3>2, <3>3
  <2>2. SteerTyped'
    BY <1>2 DEF CheckSteer, AddSteer, SteerInv, SteerTyped
  <2>. QED BY <2>1, <2>2 DEF SteerInv, Follows, Stopped, SteerSurvives
<1>3. ASSUME NEW i \in Invs, Start(i) PROVE SteerInv'
  <2>. DEFINE r == [pc |-> "node", gen |-> run.gen, at |-> head.at, msgs |-> head.msgs,
                    seen |-> {}, result |-> head.result]
  <2>1. r.pc = "node" /\ r.msgs = head.msgs /\ Becomes(i, r) /\ UNCHANGED <<run, steer, mailbox, head, overtaken>>
    BY <1>3 DEF Start, rows
  <2>. HIDE DEF r
  <2>2. \A k \in Invs : inv'[k] = IF k = i THEN r ELSE inv[k]
    BY <1>0, <2>1 DEF ToolInv, ToolTypes, Becomes
  <2>3. ASSUME NEW k \in Invs PROVE Follows(k)'
    BY <2>1, <2>2 DEF SteerInv, Follows, Stopped
  <2>. QED BY <2>1, <2>3 DEF SteerInv, SteerTyped, SteerSurvives
<1>4. ASSUME NEW i \in Invs, EndTurn(i) PROVE SteerInv'
  <2>1. Becomes(i, To(i, "done")) /\ UNCHANGED <<steer, mailbox, head, overtaken>> /\ run'.gen = run.gen
    BY <1>0, <1>4 DEF EndTurn, Go, rows
  <2>2. To(i, "done").pc = "done"
    BY <1>0, ToSays DEF Pcs
  <2>3. \A k \in Invs : k # i => inv'[k] = inv[k]
    BY <2>1, <1>0 DEF ToolInv, ToolTypes, Becomes
  <2>4. inv'[i].pc = "done"
    BY <2>1, <2>2, <1>0 DEF ToolInv, ToolTypes, Becomes
  <2>5. ASSUME NEW k \in Invs PROVE Follows(k)'
    BY <2>1, <2>3, <2>4 DEF SteerInv, Follows, Stopped
  <2>. QED BY <2>1, <2>5 DEF SteerInv, SteerTyped, SteerSurvives
<1>. QED BY <1>1, <1>2, <1>3, <1>4

\* An inserted steer stays in the mailbox until the head checkpoint contains it, across
\* every crash between the two, unless a superseded generation wrote the head since.
THEOREM SteerStaysUntilHeard == ToolSpec => []SteerSurvives
<1>1. ToolInit => SteerInv
  <2>. SUFFICES ASSUME ToolInit PROVE SteerInv
    OBVIOUS
  <2>1. \A i \in Invs : inv[i].pc = "idle"
    BY DEF ToolInit
  <2>2. SteerSurvives /\ SteerTyped
    BY DEF ToolInit, SteerSurvives, SteerTyped
  <2>. QED BY <2>1, <2>2, ToolInvInit DEF SteerInv, Follows, Stopped
<1>2. SteerInv /\ [ToolNext]_toolVars => SteerInv'
  <2>. SUFFICES ASSUME SteerInv, [ToolNext]_toolVars PROVE SteerInv'
    OBVIOUS
  <2>1. ToolInv'
    BY ToolInvStep DEF SteerInv
  <2>2. ASSUME NEW i \in Invs, Node(i) PROVE SteerInv'
    <3>1. Keeps(i) \/ AckSteers(i) \/ Commit(i) \/ Start(i) \/ EndTurn(i)
      BY <2>2 DEF Node, Keeps
    <3>. QED BY <2>1, <3>1, KeepsSteer, AckSteer, CommitSteer, OthersSteer
  <2>. QED BY <2>1, <2>2, OthersSteer DEF ToolNext
<1>3. SteerInv => SteerSurvives
  BY DEF SteerInv
<1>. QED BY <1>1, <1>2, <1>3, PTL DEF ToolSpec

-----------------------------------------------------------------------------
(* Deliveries *)

Stations == Sends \cup {"idle", "recover", "read", "admit", "select", "error", "final", "done", "dead", "replayed"}
Records == [pc : Stations, sent : BOOLEAN, digest : Nat, version : Nat]
JournalRows == [status : {"none", "started", "failed", "succeeded"},
                stage : {"none", "frozen", "admitted", "selected"}, digest : Nat, version : Nat]
Stores == [upload : {"none", "pending", "completed", "aborted"}, digest : Nat, puts : Nat,
           version : Nat, artifact : {"none", "created", "final"}]

DeliveryTyped ==
    /\ lease \in [gen : Nat, held : BOOLEAN] /\ file \in Nat
    /\ row \in JournalRows /\ store \in Stores /\ ex \in [Gens -> Records]

\* Nothing can become of this delivery any more.
Doomed == row.stage # "selected" \/ store.upload = "aborted" \/ store.digest = Infected

\* What the journal row and Storage say of each other.
RowSays ==
    /\ row.stage \in {"admitted", "selected"} => store.upload # "none"
    /\ row.stage = "selected" <=> row.version # None
    /\ row.status = "succeeded" => store.artifact = "final"
    /\ row.status = "failed" => Doomed
StoreSays ==
    /\ store.upload = "none" => store.digest = None
    /\ store.upload = "completed" => row.stage = "selected" /\ store.version = row.version
    /\ store.artifact # "none" => store.upload = "completed" /\ store.digest # Infected

\* What an executor's place says, whether its lease lasts or not.
PlaceSays(g) ==
    /\ ex[g].pc \in {"complete", "resume_complete"} => row.stage = "selected" /\ ex[g].version = row.version
    /\ ex[g].pc = "status" /\ ex[g].version # None => row.stage = "selected" /\ ex[g].version = row.version
    /\ ex[g].pc \in {"admit", "put", "select"} => store.upload # "none"
    /\ ex[g].pc = "select" => ex[g].version # None
    /\ ex[g].pc \in {"scan", "artifact", "finalize", "final"} => store.upload = "completed"
    /\ ex[g].pc \in {"artifact", "finalize", "final"} => store.digest # Infected
    /\ ex[g].pc = "final" => store.artifact = "final"
\* What it says while the lease lasts: nobody else writes the row, so that the
\* stage is the one the executor has read, and an error is of a delivery that
\* cannot come to anything.
LeaderSays(g) ==
    Leads(g) =>
      /\ ex[g].pc \in {"read", "recheck", "create", "admit", "put", "select", "check", "abort"} => row.stage # "selected"
      /\ ex[g].pc = "status" => row.stage \in {"admitted", "selected"} /\ ex[g].version = row.version
      /\ ex[g].pc = "error" => Doomed
Unborn(g) == g > lease.gen => ex[g].pc = "idle" /\ ~ex[g].sent

DeliveryInv ==
    /\ DeliveryTyped /\ RowSays /\ StoreSays
    /\ \A g \in Gens : PlaceSays(g) /\ LeaderSays(g) /\ Unborn(g)

\* What no step takes back.
Onward ==
    /\ row.stage = "selected" => row'.stage = "selected" /\ row'.version = row.version
    /\ store.upload # "none" => store'.upload # "none" /\ store'.digest = store.digest
    /\ store.upload \in {"completed", "aborted"} => store'.upload = store.upload
    /\ store.artifact = "final" => store'.artifact = "final"
Advance(g) ==
    /\ lease' = lease /\ g <= lease.gen /\ Onward
    /\ \A h \in Gens \ {g} : ex'[h] = ex[h]
    /\ row'.stage # row.stage \/ row'.version # row.version => Leads(g)
    /\ DeliveryTyped' /\ RowSays' /\ StoreSays' /\ PlaceSays(g)' /\ LeaderSays(g)'

\* The executor of g goes to a place, with a version in its hands.
Turn(g, p, v) ==
    /\ ex' \in [Gens -> Records] /\ \A h \in Gens \ {g} : ex'[h] = ex[h]
    /\ ex'[g].pc = p /\ ex'[g].version = v

LEMMA RecordTurns ==
    ASSUME DeliveryTyped, NEW g \in Gens, NEW r \in Records, ex' = [ex EXCEPT ![g] = r]
    PROVE  Turn(g, r.pc, r.version)
BY DEF DeliveryTyped, Turn, Records

LEMMA MoveIsARecord ==
    ASSUME DeliveryTyped, NEW g \in Gens, NEW p \in Stations
    PROVE  Moved(g, p) \in Records /\ Moved(g, p).pc = p /\ Moved(g, p).version = ex[g].version
BY DEF DeliveryTyped, Moved, Records

LEMMA MoveTurns ==
    ASSUME DeliveryTyped, NEW g \in Gens, NEW p \in Stations, Moves(g, p)
    PROVE  Turn(g, p, ex[g].version)
<1>. DEFINE r == Moved(g, p)
<1>1. r \in Records /\ r.pc = p /\ r.version = ex[g].version
  BY MoveIsARecord
<1>2. ex' = [ex EXCEPT ![g] = r]
  BY DEF Moves
<1>. HIDE DEF r
<1>3. Turn(g, r.pc, r.version)
  BY <1>1, <1>2, RecordTurns
<1>. QED BY <1>1, <1>3

LEMMA AnswerTurns ==
    ASSUME DeliveryTyped, NEW g \in Gens, NEW r \in Records, Answer(g, r)
    PROVE  Turn(g, r.pc, r.version) \/ Turn(g, "dead", ex[g].version)
<1>1. CASE ex' = [ex EXCEPT ![g] = r]
  BY <1>1, RecordTurns
<1>2. CASE Moves(g, "dead")
  <2>1. "dead" \in Stations
    BY DEF Stations
  <2>. QED BY <1>2, <2>1, MoveTurns
<1>. QED BY <1>1, <1>2 DEF Answer

LEMMA AnswerMoves ==
    ASSUME DeliveryTyped, NEW g \in Gens, NEW p \in Stations, Answer(g, Moved(g, p))
    PROVE  Turn(g, p, ex[g].version) \/ Turn(g, "dead", ex[g].version)
<1>. DEFINE r == Moved(g, p)
<1>1. r \in Records /\ r.pc = p /\ r.version = ex[g].version
  BY MoveIsARecord
<1>2. Answer(g, r)
  OBVIOUS
<1>. HIDE DEF r
<1>3. Turn(g, r.pc, r.version) \/ Turn(g, "dead", ex[g].version)
  BY <1>1, <1>2, AnswerTurns
<1>. QED BY <1>1, <1>3

LEMMA RecoverTurns ==
    ASSUME DeliveryTyped, NEW g \in Gens,
           ex' = [ex EXCEPT ![g] = [pc |-> "status", sent |-> FALSE, digest |-> row.digest, version |-> row.version]]
    PROVE  Turn(g, "status", row.version)
<1>. DEFINE r == [pc |-> "status", sent |-> FALSE, digest |-> row.digest, version |-> row.version]
<1>1. r \in Records /\ r.pc = "status" /\ r.version = row.version
  BY DEF DeliveryTyped, Records, JournalRows, Stations, Sends
<1>. QED BY <1>1, RecordTurns

LEMMA FreezeTurns ==
    ASSUME DeliveryTyped, NEW g \in Gens, NEW p \in Stations,
           ex' = [ex EXCEPT ![g] = [pc |-> p, sent |-> FALSE, digest |-> file, version |-> None]]
    PROVE  Turn(g, p, None)
<1>. DEFINE r == [pc |-> p, sent |-> FALSE, digest |-> file, version |-> None]
<1>1. r \in Records /\ r.pc = p /\ r.version = None
  BY DEF DeliveryTyped, Records, None
<1>. QED BY <1>1, RecordTurns

LEMMA SentTurns ==
    ASSUME DeliveryTyped, NEW g \in Gens, ex' = [ex EXCEPT ![g].sent = TRUE]
    PROVE  Turn(g, ex[g].pc, ex[g].version)
<1>. DEFINE r == [ex[g] EXCEPT !.sent = TRUE]
<1>1. r \in Records /\ r.pc = ex[g].pc /\ r.version = ex[g].version
  BY DEF DeliveryTyped, Records
<1>2. ex' = [ex EXCEPT ![g] = r]
  BY DEF DeliveryTyped
<1>. HIDE DEF r
<1>3. Turn(g, r.pc, r.version)
  BY <1>1, <1>2, RecordTurns
<1>. QED BY <1>1, <1>3

LEMMA PutTurns ==
    ASSUME DeliveryTyped, NEW g \in Gens, Answer(g, [Moved(g, "select") EXCEPT !.version = store.puts + 1])
    PROVE  Turn(g, "select", store.puts + 1) \/ Turn(g, "dead", ex[g].version)
<1>. DEFINE r == [Moved(g, "select") EXCEPT !.version = store.puts + 1]
<1>1. r \in Records /\ r.pc = "select" /\ r.version = store.puts + 1
  <2>1. "select" \in Stations /\ store.puts + 1 \in Nat
    BY DEF Stations, DeliveryTyped, Stores
  <2>2. Moved(g, "select") \in Records /\ Moved(g, "select").pc = "select"
    BY <2>1, MoveIsARecord
  <2>. QED BY <2>1, <2>2 DEF Records
<1>2. Answer(g, r)
  OBVIOUS
<1>. HIDE DEF r
<1>3. Turn(g, r.pc, r.version) \/ Turn(g, "dead", ex[g].version)
  BY <1>1, <1>2, AnswerTurns
<1>. QED BY <1>1, <1>3

LEMMA StepAdvances ==
    ASSUME DeliveryInv, NEW g \in Gens, Step(g) \/ Crash(g) PROVE Advance(g)
<1>0. DeliveryInv /\ DeliveryTyped /\ g \in Nat /\ lease.gen \in Nat /\ MaxEdits \in Nat
  BY DeliveryAssumption DEF DeliveryInv, DeliveryTyped, Gens
<1>1. CASE Enter(g)
  <2>1. Turn(g, "recover", ex[g].version) \/ Turn(g, "replayed", ex[g].version)
    BY <1>0, <1>1, MoveTurns DEF Enter, Stations, Sends
  <2>2. UNCHANGED <<lease, file, store>> /\ Leads(g)
    BY <1>1 DEF Enter, Keep
  <2>3. /\ row' \in JournalRows /\ row'.stage = row.stage /\ row'.version = row.version
        /\ row'.status \in {row.status, "started"}
    BY <1>0, <1>1 DEF Enter, DeliveryTyped, JournalRows
  <2>. QED BY <1>0, <2>1, <2>2, <2>3
           DEF Advance, Onward, DeliveryInv, DeliveryTyped, RowSays, StoreSays, PlaceSays, LeaderSays, Unborn, Doomed,
               Leads, Turn, Infected, None, Stores, JournalRows
<1>2. CASE Recover(g)
  <2>1. \/ Turn(g, "read", ex[g].version) /\ row.stage \in {"none", "frozen"}
        \/ Turn(g, "status", row.version) /\ row.stage \in {"admitted", "selected"}
    BY <1>0, <1>2, MoveTurns, RecoverTurns DEF Recover, Stations, Sends, DeliveryTyped, JournalRows
  <2>2. UNCHANGED <<lease, file, row, store>> /\ ex[g].pc = "recover"
    BY <1>2 DEF Recover, Stands, Keep
  <2>. QED BY <1>0, <2>1, <2>2
           DEF Advance, Onward, DeliveryInv, DeliveryTyped, RowSays, StoreSays, PlaceSays, LeaderSays, Unborn, Doomed,
               Leads, Turn, Infected, None, Stores, JournalRows
<1>3. CASE Freeze(g)
  <2>1. \/ Turn(g, "error", ex[g].version) /\ row' = row
        \/ Turn(g, "dead", ex[g].version) /\ row' = row
        \/ /\ Turn(g, IF row.stage = "admitted" THEN "recheck" ELSE "create", None)
           /\ row' = [row EXCEPT !.digest = file, !.stage = IF @ = "none" THEN "frozen" ELSE @]
           /\ MayIntend(g)
    <3>. DEFINE p == IF row.stage = "admitted" THEN "recheck" ELSE "create"
    <3>1. p \in Stations /\ "error" \in Stations /\ "dead" \in Stations
      BY DEF Stations, Sends
    <3>2. CASE ~KeepFirst(file)
      BY <1>0, <1>3, <3>1, <3>2, MoveTurns DEF Freeze
    <3>3. CASE KeepFirst(file) /\ ~MayIntend(g)
      BY <1>0, <1>3, <3>1, <3>3, MoveTurns DEF Freeze
    <3>4. CASE KeepFirst(file) /\ MayIntend(g)
      <4>1. /\ ex' = [ex EXCEPT ![g] = [pc |-> p, sent |-> FALSE, digest |-> file, version |-> None]]
            /\ row' = [row EXCEPT !.digest = file, !.stage = IF @ = "none" THEN "frozen" ELSE @]
        BY <1>3, <3>4 DEF Freeze
      <4>. HIDE DEF p
      <4>2. Turn(g, p, None)
        BY <1>0, <3>1, <4>1, FreezeTurns
      <4>. QED BY <3>4, <4>1, <4>2 DEF p
    <3>. QED BY <3>2, <3>3, <3>4
  <2>2. UNCHANGED <<lease, file, store>> /\ ex[g].pc = "read"
    BY <1>3 DEF Freeze, Keep, Stands
  <2>3. /\ row' \in JournalRows /\ row'.version = row.version /\ row'.status = row.status
        /\ row'.stage = row.stage \/ (row.stage = "none" /\ row'.stage = "frozen" /\ Leads(g))
    BY <1>0, <2>1 DEF DeliveryTyped, JournalRows, MayIntend
  <2>. QED BY <1>0, <2>1, <2>2, <2>3
           DEF Advance, Onward, DeliveryInv, DeliveryTyped, RowSays, StoreSays, PlaceSays, LeaderSays, Unborn, Doomed,
               Leads, Turn, Infected, None, Stores, JournalRows
<1>4. CASE Admit(g)
  <2>1. Turn(g, "put", ex[g].version) \/ Turn(g, "check", ex[g].version) \/ Turn(g, "dead", ex[g].version)
    BY <1>0, <1>4, MoveTurns DEF Admit, Stations, Sends
  <2>2. UNCHANGED <<lease, file, store>> /\ ex[g].pc = "admit"
    BY <1>4 DEF Admit, Stands
  <2>3. /\ row' \in JournalRows /\ row'.version = row.version /\ row'.status = row.status
        /\ row'.stage = row.stage \/ (row.stage = "frozen" /\ row'.stage = "admitted" /\ Leads(g))
    BY <1>0, <1>4 DEF Admit, MayIntend, DeliveryTyped, JournalRows
  <2>. QED BY <1>0, <2>1, <2>2, <2>3
           DEF Advance, Onward, DeliveryInv, DeliveryTyped, RowSays, StoreSays, PlaceSays, LeaderSays, Unborn, Doomed,
               Leads, Turn, Infected, None, Stores, JournalRows
<1>5. CASE Select(g)
  <2>1. \/ Turn(g, "dead", ex[g].version) /\ row' = row
        \/ /\ Turn(g, "complete", ex[g].version) /\ Leads(g) /\ row.status = "started"
           /\ row' = [row EXCEPT !.stage = "selected", !.version = ex[g].version]
    BY <1>0, <1>5, MoveTurns DEF Select, Stations, Sends, MayIntend
  <2>2. UNCHANGED <<lease, file, store>> /\ ex[g].pc = "select"
    BY <1>5 DEF Select, Stands, Keep
  <2>3. ex[g].version \in Nat \ {None}
    BY <1>0, <2>2 DEF DeliveryInv, PlaceSays, DeliveryTyped, Records
  <2>4. /\ row' \in JournalRows /\ row'.status = row.status
        /\ \/ row'.stage = row.stage /\ row'.version = row.version /\ Turn(g, "dead", ex[g].version)
           \/ /\ row'.stage = "selected" /\ row'.version = ex[g].version /\ Leads(g) /\ row.status = "started"
              /\ Turn(g, "complete", ex[g].version)
    BY <1>0, <2>1, <2>3 DEF DeliveryTyped, JournalRows
  <2>5. Leads(g) => row.stage # "selected"
    BY <1>0, <2>2 DEF DeliveryInv, LeaderSays
  <2>6. CASE row'.stage = row.stage /\ row'.version = row.version /\ Turn(g, "dead", ex[g].version)
    BY <1>0, <2>2, <2>4, <2>6
       DEF Advance, Onward, DeliveryInv, DeliveryTyped, RowSays, StoreSays, PlaceSays, LeaderSays, Unborn, Doomed,
           Leads, Turn, Infected, None, Stores, JournalRows
  <2>7. CASE /\ row.stage # "selected" /\ row'.stage = "selected" /\ row'.version = ex[g].version /\ Leads(g)
             /\ row.status = "started" /\ Turn(g, "complete", ex[g].version)
    <3>1. g = lease.gen /\ store.upload # "completed" /\ store.artifact = "none" /\ row.version = None
      BY <1>0, <2>2, <2>7 DEF Leads, DeliveryInv, StoreSays, RowSays, None
    <3>0. store.upload # "none"
      BY <1>0, <2>2 DEF DeliveryInv, PlaceSays
    <3>2. Onward /\ DeliveryTyped'
      BY <1>0, <2>2, <2>4, <2>7 DEF Onward, DeliveryTyped, Turn
    <3>3. RowSays' /\ StoreSays'
      BY <1>0, <2>2, <2>3, <2>4, <2>7, <3>0, <3>1 DEF DeliveryInv, RowSays, StoreSays, Doomed, None
    <3>4. PlaceSays(g)' /\ LeaderSays(g)'
      BY <2>7, <3>1, <3>2 DEF PlaceSays, LeaderSays, Turn
    <3>5. lease' = lease /\ g <= lease.gen /\ \A h \in Gens \ {g} : ex'[h] = ex[h]
      <4>1. lease' = lease
        BY <2>2
      <4>2. g <= lease.gen
        BY <1>0, <3>1
      <4>. QED BY <2>7, <4>1, <4>2 DEF Turn
    <3>. QED BY <2>7, <3>2, <3>3, <3>4, <3>5 DEF Advance
  <2>. QED BY <2>2, <2>4, <2>5, <2>6, <2>7 DEF Turn
<1>6. CASE Send(g)
  <2>1. \/ Turn(g, ex[g].pc, ex[g].version)
        \/ Turn(g, "error", ex[g].version) /\ ~Leads(g)
    BY <1>0, <1>6, MoveTurns, SentTurns DEF Send, Stations, Sends
  <2>2. UNCHANGED <<lease, file, row, store>> /\ ex[g].pc # "idle"
    BY <1>6 DEF Send, Sends, Keep
  <2>. QED BY <1>0, <2>1, <2>2
           DEF Advance, Onward, DeliveryInv, DeliveryTyped, RowSays, StoreSays, PlaceSays, LeaderSays, Unborn, Doomed,
               Leads, Turn, Infected, None, Stores, JournalRows
<1>7. CASE Status(g)
  <2>1. \/ Turn(g, "read", ex[g].version) /\ ex[g].version = None
        \/ Turn(g, "resume_complete", ex[g].version) /\ ex[g].version # None
        \/ Turn(g, "scan", ex[g].version) /\ store.upload = "completed"
        \/ Turn(g, "error", ex[g].version) /\ (store.upload \in {"none", "aborted"} \/ (store.upload = "completed" /\ ex[g].version # store.version))
        \/ Turn(g, "dead", ex[g].version)
    <3>1. /\ "read" \in Stations /\ "resume_complete" \in Stations /\ "scan" \in Stations
          /\ "error" \in Stations /\ store.upload \in {"none", "pending", "completed", "aborted"}
      BY <1>0 DEF Stations, Sends, DeliveryTyped, Stores
    <3>2. CASE store.upload = "pending" /\ ex[g].version = None
      <4>1. Answer(g, Moved(g, "read"))
        BY <1>7, <3>2 DEF Status
      <4>. QED BY <1>0, <3>1, <3>2, <4>1, AnswerMoves
    <3>3. CASE store.upload = "pending" /\ ex[g].version # None
      BY <1>0, <1>7, <3>1, <3>3, AnswerMoves DEF Status
    <3>4. CASE store.upload = "completed" /\ ex[g].version = store.version
      BY <1>0, <1>7, <3>1, <3>4, AnswerMoves DEF Status
    <3>5. CASE store.upload # "pending" /\ ~(store.upload = "completed" /\ ex[g].version = store.version)
      BY <1>0, <1>7, <3>1, <3>5, AnswerMoves DEF Status
    <3>. QED BY <3>1, <3>2, <3>3, <3>4, <3>5
  <2>2. UNCHANGED <<lease, file, row, store>> /\ ex[g].pc = "status"
    BY <1>7 DEF Status, Lands
  <2>. QED BY <1>0, <2>1, <2>2
           DEF Advance, Onward, DeliveryInv, DeliveryTyped, RowSays, StoreSays, PlaceSays, LeaderSays, Unborn, Doomed,
               Leads, Turn, Infected, None, Stores, JournalRows
<1>8. CASE Recheck(g)
  <2>1. Turn(g, "create", ex[g].version) \/ Turn(g, "error", ex[g].version) \/ Turn(g, "dead", ex[g].version)
    BY <1>0, <1>8, AnswerMoves DEF Recheck, Stations, Sends
  <2>2. UNCHANGED <<lease, file, row, store>> /\ ex[g].pc = "recheck"
    BY <1>8 DEF Recheck, Lands
  <2>. QED BY <1>0, <2>1, <2>2
           DEF Advance, Onward, DeliveryInv, DeliveryTyped, RowSays, StoreSays, PlaceSays, LeaderSays, Unborn, Doomed,
               Leads, Turn, Infected, None, Stores, JournalRows
<1>9. CASE Create(g)
  <2>1. Turn(g, "admit", ex[g].version) \/ Turn(g, "dead", ex[g].version)
    BY <1>0, <1>9, AnswerMoves DEF Create, Stations, Sends
  <2>2. UNCHANGED <<lease, file, row>> /\ ex[g].pc = "create"
    BY <1>9 DEF Create, Lands
  <2>3. /\ store' \in Stores /\ store'.version = store.version /\ store'.artifact = store.artifact
        /\ \/ store'.upload = store.upload /\ store'.digest = store.digest /\ store.upload # "none"
           \/ store.upload = "none" /\ store'.upload = "pending"
    BY <1>0, <1>9 DEF Create, DeliveryTyped, Stores, Records
  <2>. QED BY <1>0, <2>1, <2>2, <2>3
           DEF Advance, Onward, DeliveryInv, DeliveryTyped, RowSays, StoreSays, PlaceSays, LeaderSays, Unborn, Doomed,
               Leads, Turn, Infected, None, Stores, JournalRows
<1>10. CASE Check(g)
  <2>1. Turn(g, "abort", ex[g].version) \/ Turn(g, "error", ex[g].version) \/ Turn(g, "dead", ex[g].version)
    BY <1>0, <1>10, AnswerMoves DEF Check, Stations, Sends
  <2>2. UNCHANGED <<lease, file, row, store>> /\ ex[g].pc = "check"
    BY <1>10 DEF Check, Lands
  <2>. QED BY <1>0, <2>1, <2>2
           DEF Advance, Onward, DeliveryInv, DeliveryTyped, RowSays, StoreSays, PlaceSays, LeaderSays, Unborn, Doomed,
               Leads, Turn, Infected, None, Stores, JournalRows
<1>11. CASE Abort(g)
  <2>1. Turn(g, "error", ex[g].version) \/ Turn(g, "dead", ex[g].version)
    BY <1>0, <1>11, AnswerMoves DEF Abort, Stations, Sends
  <2>2. UNCHANGED <<lease, file, row>> /\ ex[g].pc = "abort"
    BY <1>11 DEF Abort, Lands
  <2>3. /\ store' \in Stores /\ store'.version = store.version /\ store'.artifact = store.artifact /\ store'.digest = store.digest
        /\ \/ store'.upload = store.upload
           \/ store.upload = "pending" /\ store'.upload = "aborted"
    BY <1>0, <1>11 DEF Abort, DeliveryTyped, Stores
  <2>. QED BY <1>0, <2>1, <2>2, <2>3
           DEF Advance, Onward, DeliveryInv, DeliveryTyped, RowSays, StoreSays, PlaceSays, LeaderSays, Unborn, Doomed,
               Leads, Turn, Infected, None, Stores, JournalRows
<1>12. CASE Put(g)
  <2>1. Turn(g, "select", store.puts + 1) \/ Turn(g, "dead", ex[g].version)
    BY <1>0, <1>12, PutTurns DEF Put, Stations, Sends
  <2>2. UNCHANGED <<lease, file, row>> /\ ex[g].pc = "put"
    BY <1>12 DEF Put, Lands
  <2>3. /\ store' \in Stores /\ store'.version = store.version /\ store'.artifact = store.artifact
        /\ store'.digest = store.digest /\ store'.upload = store.upload
    BY <1>0, <1>12 DEF Put, DeliveryTyped, Stores
  <2>. QED BY <1>0, <2>1, <2>2, <2>3
           DEF Advance, Onward, DeliveryInv, DeliveryTyped, RowSays, StoreSays, PlaceSays, LeaderSays, Unborn, Doomed,
               Leads, Turn, Infected, None, Stores, JournalRows
<1>13. CASE Complete(g)
  <2>1. \/ Turn(g, "scan", ex[g].version) /\ (store.upload = "pending" \/ (store.upload = "completed" /\ store.version = ex[g].version))
        \/ Turn(g, "error", ex[g].version) /\ store.upload # "pending" /\ ~(store.upload = "completed" /\ store.version = ex[g].version)
        \/ Turn(g, "dead", ex[g].version)
    BY <1>0, <1>13, AnswerMoves DEF Complete, Completes, Stations, Sends
  <2>2. UNCHANGED <<lease, file, row>> /\ ex[g].pc = "complete"
    BY <1>13 DEF Complete, Lands, Completes
  <2>3. /\ store' \in Stores /\ store'.artifact = store.artifact /\ store'.digest = store.digest
        /\ \/ store.upload = "pending" /\ store'.upload = "completed" /\ store'.version = ex[g].version
           \/ store.upload # "pending" /\ store'.upload = store.upload /\ store'.version = store.version
    BY <1>0, <1>13 DEF Complete, Completes, DeliveryTyped, Stores, Records
  <2>. QED BY <1>0, <2>1, <2>2, <2>3
           DEF Advance, Onward, DeliveryInv, DeliveryTyped, RowSays, StoreSays, PlaceSays, LeaderSays, Unborn, Doomed,
               Leads, Turn, Infected, None, Stores, JournalRows
<1>14. CASE ResumeComplete(g)
  <2>1. \/ Turn(g, "scan", ex[g].version) /\ (store.upload = "pending" \/ (store.upload = "completed" /\ store.version = ex[g].version))
        \/ Turn(g, "error", ex[g].version) /\ store.upload # "pending" /\ ~(store.upload = "completed" /\ store.version = ex[g].version)
        \/ Turn(g, "dead", ex[g].version)
    BY <1>0, <1>14, AnswerMoves DEF ResumeComplete, Completes, Stations, Sends
  <2>2. UNCHANGED <<lease, file, row>> /\ ex[g].pc = "resume_complete"
    BY <1>14 DEF ResumeComplete, Lands, Completes
  <2>3. /\ store' \in Stores /\ store'.artifact = store.artifact /\ store'.digest = store.digest
        /\ \/ store.upload = "pending" /\ store'.upload = "completed" /\ store'.version = ex[g].version
           \/ store.upload # "pending" /\ store'.upload = store.upload /\ store'.version = store.version
    BY <1>0, <1>14 DEF ResumeComplete, Completes, DeliveryTyped, Stores, Records
  <2>. QED BY <1>0, <2>1, <2>2, <2>3
           DEF Advance, Onward, DeliveryInv, DeliveryTyped, RowSays, StoreSays, PlaceSays, LeaderSays, Unborn, Doomed,
               Leads, Turn, Infected, None, Stores, JournalRows
<1>15. CASE Scan(g)
  <2>1. \/ Turn(g, "error", ex[g].version) /\ store.digest = Infected
        \/ Turn(g, "artifact", ex[g].version) /\ store.digest # Infected
        \/ Turn(g, "dead", ex[g].version)
    BY <1>0, <1>15, AnswerMoves DEF Scan, Stations, Sends
  <2>2. UNCHANGED <<lease, file, row, store>> /\ ex[g].pc = "scan"
    BY <1>15 DEF Scan, Lands
  <2>. QED BY <1>0, <2>1, <2>2
           DEF Advance, Onward, DeliveryInv, DeliveryTyped, RowSays, StoreSays, PlaceSays, LeaderSays, Unborn, Doomed,
               Leads, Turn, Infected, None, Stores, JournalRows
<1>16. CASE CreateArtifact(g)
  <2>1. Turn(g, "finalize", ex[g].version) \/ Turn(g, "dead", ex[g].version)
    BY <1>0, <1>16, AnswerMoves DEF CreateArtifact, Stations, Sends
  <2>2. UNCHANGED <<lease, file, row>> /\ ex[g].pc = "artifact"
    BY <1>16 DEF CreateArtifact, Lands
  <2>3. /\ store' \in Stores /\ store'.version = store.version /\ store'.digest = store.digest /\ store'.upload = store.upload
        /\ store'.artifact \in {store.artifact, "created"} /\ (store.artifact = "final" => store'.artifact = "final")
    BY <1>0, <1>16 DEF CreateArtifact, DeliveryTyped, Stores
  <2>. QED BY <1>0, <2>1, <2>2, <2>3
           DEF Advance, Onward, DeliveryInv, DeliveryTyped, RowSays, StoreSays, PlaceSays, LeaderSays, Unborn, Doomed,
               Leads, Turn, Infected, None, Stores, JournalRows
<1>17. CASE Finalize(g)
  <2>1. Turn(g, "final", ex[g].version) \/ Turn(g, "dead", ex[g].version)
    BY <1>0, <1>17, AnswerMoves DEF Finalize, Stations, Sends
  <2>2. UNCHANGED <<lease, file, row>> /\ ex[g].pc = "finalize"
    BY <1>17 DEF Finalize, Lands
  <2>3. /\ store' \in Stores /\ store'.version = store.version /\ store'.digest = store.digest /\ store'.upload = store.upload /\ store'.artifact = "final"
    BY <1>0, <1>17 DEF Finalize, DeliveryTyped, Stores
  <2>. QED BY <1>0, <2>1, <2>2, <2>3
           DEF Advance, Onward, DeliveryInv, DeliveryTyped, RowSays, StoreSays, PlaceSays, LeaderSays, Unborn, Doomed,
               Leads, Turn, Infected, None, Stores, JournalRows
<1>18. CASE Fail(g)
  <2>1. Turn(g, "done", ex[g].version) \/ Turn(g, "dead", ex[g].version)
    BY <1>0, <1>18, MoveTurns DEF Fail, Finish, Stations, Sends
  <2>2. UNCHANGED <<lease, file, store>> /\ ex[g].pc = "error"
    BY <1>18 DEF Fail, Finish, Stands, Keep
  <2>3. /\ row' \in JournalRows /\ row'.stage = row.stage /\ row'.version = row.version
        /\ row'.status = row.status \/ (row'.status = "failed" /\ Leads(g))
    BY <1>0, <1>18 DEF Fail, Finish, MayFinish, DeliveryTyped, JournalRows
  <2>. QED BY <1>0, <2>1, <2>2, <2>3
           DEF Advance, Onward, DeliveryInv, DeliveryTyped, RowSays, StoreSays, PlaceSays, LeaderSays, Unborn, Doomed,
               Leads, Turn, Infected, None, Stores, JournalRows
<1>19. CASE Succeed(g)
  <2>1. Turn(g, "done", ex[g].version) \/ Turn(g, "dead", ex[g].version)
    BY <1>0, <1>19, MoveTurns DEF Succeed, Finish, Stations, Sends
  <2>2. UNCHANGED <<lease, file, store>> /\ ex[g].pc = "final"
    BY <1>19 DEF Succeed, Finish, Stands, Keep
  <2>3. /\ row' \in JournalRows /\ row'.stage = row.stage /\ row'.version = row.version
        /\ row'.status = row.status \/ (row'.status = "succeeded" /\ Leads(g))
    BY <1>0, <1>19 DEF Succeed, Finish, MayFinish, DeliveryTyped, JournalRows
  <2>. QED BY <1>0, <2>1, <2>2, <2>3
           DEF Advance, Onward, DeliveryInv, DeliveryTyped, RowSays, StoreSays, PlaceSays, LeaderSays, Unborn, Doomed,
               Leads, Turn, Infected, None, Stores, JournalRows
<1>20. CASE Crash(g)
  <2>1. Turn(g, "dead", ex[g].version)
    BY <1>0, <1>20, MoveTurns DEF Crash, Stations, Sends
  <2>2. UNCHANGED <<lease, file, row, store>> /\ ex[g].pc # "idle"
    BY <1>20 DEF Crash
  <2>. QED BY <1>0, <2>1, <2>2
           DEF Advance, Onward, DeliveryInv, DeliveryTyped, RowSays, StoreSays, PlaceSays, LeaderSays, Unborn, Doomed,
               Leads, Turn, Infected, None, Stores, JournalRows
<1>. QED BY <1>1, <1>2, <1>3, <1>4, <1>5, <1>6, <1>7, <1>8, <1>9, <1>10, <1>11, <1>12, <1>13, <1>14, <1>15, <1>16, <1>17, <1>18, <1>19, <1>20 DEF Step

\* The journal row, Storage and the place of every executor agree at every step of
\* DeliverySpec.
THEOREM DeliveryIsKept == DeliverySpec => []DeliveryInv
<1>1. DeliveryInit => DeliveryInv
  <2>. SUFFICES ASSUME DeliveryInit PROVE DeliveryInv
    OBVIOUS
  <2>1. DeliveryTyped
    BY DeliveryAssumption
       DEF DeliveryInit, DeliveryTyped, JournalRows, Stores, Records, Stations, Infected, None
  <2>2. \A g \in Gens : ex[g].pc = "idle" /\ ~ex[g].sent
    BY DEF DeliveryInit
  <2>. QED BY <2>1, <2>2
           DEF DeliveryInit, DeliveryInv, RowSays, StoreSays, PlaceSays, LeaderSays, Unborn
<1>2. DeliveryInv /\ [DeliveryNext]_deliveryVars => DeliveryInv'
  <2>. SUFFICES ASSUME DeliveryInv, [DeliveryNext]_deliveryVars PROVE DeliveryInv'
    OBVIOUS
  <2>1. ASSUME NEW g \in Gens, Step(g) \/ Crash(g) PROVE DeliveryInv'
    <3>1. Advance(g)
      BY <2>1, StepAdvances
    <3>2. ASSUME NEW h \in Gens, h # g PROVE PlaceSays(h)' /\ LeaderSays(h)' /\ Unborn(h)'
      <4>1. ex'[h] = ex[h] /\ lease' = lease
        BY <3>1, <3>2 DEF Advance
      <4>2. PlaceSays(h)'
        BY <3>1, <4>1 DEF DeliveryInv, PlaceSays, Advance, Onward
      <4>3. LeaderSays(h)'
        BY <3>1, <3>2, <4>1, DeliveryAssumption
           DEF DeliveryInv, LeaderSays, Leads, Doomed, StoreSays, RowSays, Advance, Onward, Infected, None
      <4>. QED BY <4>1, <4>2, <4>3 DEF DeliveryInv, Unborn
    <3>3. Unborn(g)'
      BY <3>1 DEF Advance, Unborn, DeliveryInv, DeliveryTyped, Gens
    <3>. QED BY <3>1, <3>2, <3>3 DEF DeliveryInv, Advance
  <2>2. CASE Lapse \/ TakeOver \/ Edit
    <3>1. UNCHANGED <<row, store, ex>>
      BY <2>2 DEF Lapse, TakeOver, Edit
    <3>2. /\ lease' \in [gen : Nat, held : BOOLEAN] /\ file' \in Nat
          /\ (lease'.gen = lease.gen /\ (lease'.held => lease.held)) \/ lease'.gen > lease.gen
      <4>1. lease \in [gen : Nat, held : BOOLEAN] /\ file \in Nat
        BY DEF DeliveryInv, DeliveryTyped
      <4>2. CASE Lapse
        BY <4>1, <4>2 DEF Lapse
      <4>3. CASE TakeOver
        BY <4>1, <4>3 DEF TakeOver
      <4>4. CASE Edit
        BY <4>1, <4>4 DEF Edit
      <4>. QED BY <2>2, <4>2, <4>3, <4>4
    <3>3. ASSUME NEW g \in Gens PROVE PlaceSays(g)' /\ LeaderSays(g)' /\ Unborn(g)'
      <4>1. g \in Nat /\ PlaceSays(g) /\ LeaderSays(g) /\ Unborn(g) /\ lease.gen \in Nat
        BY DeliveryAssumption DEF DeliveryInv, DeliveryTyped, Gens
      <4>. QED BY <3>1, <3>2, <4>1 DEF PlaceSays, LeaderSays, Unborn, Leads, Doomed
    <3>. QED BY <3>1, <3>2, <3>3 DEF DeliveryInv, DeliveryTyped, RowSays, StoreSays, Doomed
  <2>3. CASE UNCHANGED deliveryVars
    BY <2>3 DEF deliveryVars, DeliveryInv, DeliveryTyped, RowSays, StoreSays, PlaceSays,
       LeaderSays, Unborn, Doomed, Leads
  <2>. QED BY <2>1, <2>2, <2>3 DEF DeliveryNext
<1>. QED BY <1>1, <1>2, PTL DEF DeliverySpec

\* A delivery recorded as succeeded is final in Storage, and one recorded as failed
\* never becomes final, not even by a call of a dead generation that lands late.
THEOREM DeliveryTold == DeliverySpec => []ReportIsTrue
<1>1. DeliveryInv => ReportIsTrue
  BY DEF DeliveryInv, RowSays, StoreSays, Doomed, ReportIsTrue
<1>. QED BY <1>1, DeliveryIsKept, PTL

-----------------------------------------------------------------------------
(* Probes of a run whose outcome is unknown *)

Beats == [pc : {"sleep", "renew", "reclaim", "observe", "settle", "again", "record", "fail"},
          slept : Nat, spent : Nat, seen : 0..MaxWrites, shown : BOOLEAN]
ProbeTyped ==
    /\ cp \in [wrote : 0..MaxWrites, consumed : BOOLEAN]
    /\ probe \in [count : 0..3, digest : 0..(MaxWrites + 1)]
    /\ beat \in Beats
    /\ reads \in Seq(0..MaxWrites) /\ Len(reads) <= 3

\* The counter of a probe is a claim about the last reads: as many of them as it
\* counts showed the digest it keeps.
CountIsRun ==
    /\ probe = NoProbe => reads = <<>>
    /\ probe # NoProbe => Len(reads) > 0 /\ reads[Len(reads)] = probe.digest
    /\ probe.count >= 2 => Len(reads) >= 2 /\ reads[Len(reads) - 1] = probe.digest
    /\ probe.count = 3 => Len(reads) = 3 /\ reads[1] = probe.digest
\* A pass that has come this far has found the task gone, and the token.
PassSays ==
    /\ beat.pc \in {"observe", "settle", "again", "record", "fail"} => task = "gone"
    /\ beat.pc \in {"again", "record", "fail"} => token
    /\ beat.pc = "fail" => probe.count = 3
ProbeInv == ProbeTyped /\ CountIsRun /\ PassSays

LEMMA BeatMoves ==
    ASSUME ProbeTyped, NEW p \in {"sleep", "renew", "reclaim", "observe", "settle", "again", "record", "fail"}
    PROVE  /\ Goes(p) => beat' \in Beats /\ beat'.pc = p /\ beat'.seen = beat.seen
           /\ ReadThread(p) => beat' \in Beats /\ beat'.pc = p
           /\ Rest => beat' \in Beats /\ beat'.pc = "sleep"
<1>1. beat \in Beats /\ cp.wrote \in 0..MaxWrites /\ cp.consumed \in BOOLEAN
  BY DEF ProbeTyped
<1>2. Goes(p) => beat' \in Beats /\ beat'.pc = p /\ beat'.seen = beat.seen
  BY <1>1 DEF Beats, Goes
<1>3. ReadThread(p) => beat' \in Beats /\ beat'.pc = p
  BY <1>1 DEF Beats, ReadThread
<1>4. ASSUME Rest PROVE beat' \in Beats /\ beat'.pc = "sleep"
  <2>1. beat' = [[[beat EXCEPT !.pc = "sleep"] EXCEPT !.slept = 0] EXCEPT !.spent = 0]
    BY <1>4 DEF Rest
  <2>2. [beat EXCEPT !.pc = "sleep"] \in Beats /\ [beat EXCEPT !.pc = "sleep"].pc = "sleep"
    BY <1>1 DEF Beats
  <2>3. \A b \in Beats : [b EXCEPT !.slept = 0] \in Beats /\ [b EXCEPT !.slept = 0].pc = b.pc
    BY DEF Beats
  <2>4. \A b \in Beats : [b EXCEPT !.spent = 0] \in Beats /\ [b EXCEPT !.spent = 0].pc = b.pc
    BY DEF Beats
  <2>. QED BY <2>1, <2>2, <2>3, <2>4
<1>. QED BY <1>2, <1>3, <1>4

LEMMA ResetIsTyped ==
    ASSUME ProbeTyped, Reset
    PROVE  /\ probe' \in [count : 0..3, digest : 0..(MaxWrites + 1)] /\ probe' = NoProbe /\ probe'.count = 0
           /\ reads' \in Seq(0..MaxWrites) /\ Len(reads') <= 3 /\ reads' = <<>>
BY ProbeAssumption DEF Reset, NoProbe, ProbeTyped

LEMMA UpToThree == ASSUME NEW n \in Nat, n <= 3 PROVE n \in {0, 1, 2, 3}
OBVIOUS

LEMMA TailOfThree ==
    ASSUME NEW S, NEW s \in Seq(S), Len(s) = 3
    PROVE  Tail(s) \in Seq(S) /\ Len(Tail(s)) = 2 /\ Tail(s)[1] = s[2] /\ Tail(s)[2] = s[3]
<1>1. s # << >>
  OBVIOUS
<1>2. /\ Tail(s) \in Seq(S) /\ Len(Tail(s)) = Len(s) - 1
      /\ \A i \in 1..Len(Tail(s)) : Tail(s)[i] = s[i + 1]
  BY <1>1, HeadTailProperties
<1>3. Len(Tail(s)) = 2 /\ 1 \in 1..Len(Tail(s)) /\ 2 \in 1..Len(Tail(s))
  BY <1>2
<1>4. Tail(s)[1] = s[1 + 1] /\ Tail(s)[2] = s[2 + 1]
  BY <1>2, <1>3
<1>. QED BY <1>2, <1>3, <1>4

\* The last read is appended, and of three the first is forgotten.
LEMMA LastReads ==
    ASSUME NEW S, NEW s \in Seq(S), NEW e \in S, Len(s) <= 3, NEW t \in Seq(S),
           (Len(s) = 3 => t = Tail(s)) /\ (Len(s) # 3 => t = s)
    PROVE  /\ Append(t, e) \in Seq(S) /\ Len(Append(t, e)) \in 1..3
           /\ Append(t, e)[Len(Append(t, e))] = e
           /\ Len(s) > 0 => /\ Len(Append(t, e)) > 1
                            /\ Append(t, e)[Len(Append(t, e)) - 1] = s[Len(s)]
           /\ Len(s) > 1 => /\ Len(Append(t, e)) > 2
                            /\ Append(t, e)[Len(Append(t, e)) - 2] = s[Len(s) - 1]
<1>0. Len(s) \in Nat
  BY LenProperties
<1>1. Len(s) \in {0, 1, 2, 3}
  BY <1>0, UpToThree
<1>2. /\ Len(t) \in 0..2
      /\ Len(s) > 0 => Len(t) > 0 /\ t[Len(t)] = s[Len(s)]
      /\ Len(s) > 1 => Len(t) > 1 /\ t[Len(t) - 1] = s[Len(s) - 1]
  <2>1. CASE Len(s) = 3
    <3>1. Len(t) = 2 /\ t[1] = s[2] /\ t[2] = s[3]
      BY <2>1, TailOfThree
    <3>2. t[Len(t)] = s[Len(s)] /\ t[Len(t) - 1] = s[Len(s) - 1]
      BY <2>1, <3>1
    <3>. QED BY <2>1, <3>1, <3>2
  <2>2. CASE Len(s) # 3
    BY <1>1, <2>2
  <2>. QED BY <2>1, <2>2
<1>3. /\ Append(t, e) \in Seq(S) /\ Len(Append(t, e)) = Len(t) + 1 /\ Append(t, e)[Len(t) + 1] = e
      /\ \A i \in 1..Len(t) : Append(t, e)[i] = t[i]
  BY AppendProperties
<1>. QED BY <1>1, <1>2, <1>3

LEMMA RecordCounts ==
    ASSUME ProbeTyped, CountIsRun, NEW old,
           (Len(reads) = 3 => old = Tail(reads)) /\ (Len(reads) # 3 => old = reads),
           probe' = [count |-> Count, digest |-> beat.seen], reads' = Append(old, beat.seen)
    PROVE  /\ probe' \in [count : 0..3, digest : 0..(MaxWrites + 1)] /\ probe'.count = Count
           /\ reads' \in Seq(0..MaxWrites) /\ Len(reads') <= 3 /\ CountIsRun'
<1>1. /\ MaxWrites \in Nat /\ beat.seen \in 0..MaxWrites /\ probe.count \in 0..3
      /\ reads \in Seq(0..MaxWrites) /\ Len(reads) <= 3
  BY ProbeAssumption DEF ProbeTyped, Beats
<1>2. old \in Seq(0..MaxWrites)
  BY <1>1, TailOfThree
<1>4. /\ reads' \in Seq(0..MaxWrites) /\ Len(reads') \in 1..3
      /\ reads'[Len(reads')] = beat.seen
      /\ Len(reads) > 0 => Len(reads') > 1 /\ reads'[Len(reads') - 1] = reads[Len(reads)]
      /\ Len(reads) > 1 => Len(reads') > 2 /\ reads'[Len(reads') - 2] = reads[Len(reads) - 1]
  BY <1>1, <1>2, LastReads
<1>5. Count \in 0..3 /\ probe' \in [count : 0..3, digest : 0..(MaxWrites + 1)]
      /\ probe'.count = Count /\ probe'.digest = beat.seen /\ probe' # NoProbe
  BY <1>1 DEF Count, NoProbe
<1>6. Count >= 2 => probe # NoProbe /\ probe.digest = beat.seen /\ probe.count >= 1
  BY <1>1 DEF Count
<1>7. Count = 3 => probe.count >= 2
  BY <1>1 DEF Count
<1>8. CountIsRun'
  <2>1. Len(reads') > 0 /\ Len(reads') \in {1, 2, 3}
    BY <1>4
  <2>2. probe'.count >= 2 => Len(reads') >= 2 /\ reads'[Len(reads') - 1] = beat.seen
    BY <1>4, <1>5, <1>6 DEF CountIsRun
  <2>3. probe'.count = 3 => Len(reads) > 1 /\ reads[Len(reads) - 1] = beat.seen
    BY <1>1, <1>5, <1>6, <1>7 DEF CountIsRun
  <2>4. probe'.count = 3 => Len(reads') = 3 /\ reads'[1] = beat.seen
    BY <1>4, <2>1, <2>3
  <2>. QED BY <1>4, <1>5, <2>1, <2>2, <2>4 DEF CountIsRun
<1>. QED BY <1>4, <1>5, <1>8

\* The counter of a probe is the length of the run of equal last reads, and a
\* pass has found what its place says, at every step of ProbeSpec.
THEOREM ProbesAreKept == ProbeSpec => []ProbeInv
<1>1. ProbeInit => ProbeInv
  BY ProbeAssumption DEF ProbeInit, ProbeInv, ProbeTyped, CountIsRun, PassSays, NoProbe, Beats
<1>2. ProbeInv /\ [ProbeNext]_probeVars => ProbeInv'
  <2>. SUFFICES ASSUME ProbeInv, [ProbeNext]_probeVars PROVE ProbeInv'
    OBVIOUS
  <2>0. ProbeTyped /\ CountIsRun /\ PassSays
    BY DEF ProbeInv
  <2>1. CASE NativeWrite
    <3>1. cp' \in [wrote : 0..MaxWrites, consumed : BOOLEAN]
      BY <2>0, <2>1, ProbeAssumption DEF NativeWrite, ProbeTyped
    <3>. QED BY <2>0, <2>1, <3>1 DEF NativeWrite, ProbeInv, ProbeTyped, CountIsRun, PassSays
  <2>2. CASE NativeSettles \/ NativeDies \/ OtherReclaims \/ EndRun
    BY <2>0, <2>2 DEF NativeSettles, NativeDies, OtherReclaims, Lapses, EndRun, ProbeInv, ProbeTyped, CountIsRun, PassSays
  <2>3. CASE WakeUp
    BY <2>0, <2>3, BeatMoves DEF WakeUp, ProbeInv, ProbeTyped, CountIsRun, PassSays
  <2>4. CASE Renew
    BY <2>0, <2>4, BeatMoves, ResetIsTyped DEF Renew, ProbeInv, ProbeTyped, CountIsRun, PassSays
  <2>5. CASE Reclaim
    BY <2>0, <2>5, BeatMoves DEF Reclaim, ProbeInv, ProbeTyped, CountIsRun, PassSays
  <2>6. CASE ObserveThread
    BY <2>0, <2>6, BeatMoves DEF ObserveThread, ProbeInv, ProbeTyped, CountIsRun, PassSays
  <2>7. CASE SettleIntent
    BY <2>0, <2>7, BeatMoves DEF SettleIntent, ProbeInv, ProbeTyped, CountIsRun, PassSays
  <2>8. CASE ReadAgain
    BY <2>0, <2>8, BeatMoves, ResetIsTyped DEF ReadAgain, ProbeInv, ProbeTyped, CountIsRun, PassSays
  <2>9. CASE RecordProbe
    <3>1. CASE Active /\ Unread
      <4>1. /\ probe' \in [count : 0..3, digest : 0..(MaxWrites + 1)] /\ probe'.count = Count
            /\ reads' \in Seq(0..MaxWrites) /\ Len(reads') <= 3 /\ CountIsRun'
        <5>. DEFINE old == IF Len(reads) = 3 THEN Tail(reads) ELSE reads
        <5>1. probe' = [count |-> Count, digest |-> beat.seen] /\ reads' = Append(old, beat.seen)
          BY <2>9, <3>1 DEF RecordProbe
        <5>2. (Len(reads) = 3 => old = Tail(reads)) /\ (Len(reads) # 3 => old = reads)
          OBVIOUS
        <5>. HIDE DEF old
        <5>. QED BY <2>0, <5>1, <5>2, RecordCounts
      <4>. QED BY <2>0, <2>9, <3>1, <4>1, BeatMoves DEF RecordProbe, ProbeInv, ProbeTyped, PassSays
    <3>2. CASE ~(Active /\ Unread)
      BY <2>0, <2>9, <3>2, BeatMoves DEF RecordProbe, ProbeInv, ProbeTyped, CountIsRun, PassSays
    <3>. QED BY <3>1, <3>2
  <2>10. CASE FailRun
    BY <2>0, <2>10, BeatMoves DEF FailRun, ProbeInv, ProbeTyped, CountIsRun, PassSays
  <2>11. CASE Restart
    BY <2>0, <2>11, BeatMoves DEF Restart, ProbeInv, ProbeTyped, CountIsRun, PassSays
  <2>12. CASE Tick
    <3>1. beat' \in Beats /\ beat'.pc = beat.pc
      BY <2>0, <2>12 DEF Tick, ProbeTyped, Beats
    <3>. QED BY <2>0, <2>12, <3>1 DEF Tick, ProbeInv, ProbeTyped, CountIsRun, PassSays
  <2>13. CASE UNCHANGED probeVars
    BY <2>0, <2>13 DEF probeVars, ProbeInv, ProbeTyped, CountIsRun, PassSays
  <2>. QED BY <2>1, <2>2, <2>3, <2>4, <2>5, <2>6, <2>7, <2>8, <2>9, <2>10, <2>11, <2>12, <2>13 DEF ProbeNext, Pass
<1>. QED BY <1>1, <1>2, PTL DEF ProbeSpec

\* A run is failed for lack of progress only with its task gone, under the lease of
\* the attempt, after three reads in a row showed the same thread.
THEOREM FailedIsStable == ProbeSpec => FailsOnlyWhenStable
<1>. DEFINE Stable == /\ task = "gone" /\ token /\ Active
                      /\ Len(reads) = 3 /\ reads[1] = reads[3] /\ reads[2] = reads[3]
<1>1. ProbeInv /\ [ProbeNext]_probeVars => (intent' = "failed" /\ intent # "failed" => Stable)
  <2>. SUFFICES ASSUME ProbeInv, [ProbeNext]_probeVars, intent' = "failed", intent # "failed" PROVE Stable
    OBVIOUS
  <2>1. FailRun
    BY DEF ProbeNext, Pass, probeVars, NativeWrite, NativeSettles, NativeDies, OtherReclaims, EndRun, Restart, Tick,
           WakeUp, Renew, Reclaim, ObserveThread, SettleIntent, ReadAgain, RecordProbe
  <2>2. Active /\ beat.pc = "fail"
    BY <2>1 DEF FailRun
  <2>3. probe.count = 3 /\ probe # NoProbe
    BY <2>2 DEF ProbeInv, PassSays, NoProbe
  <2>4. Len(reads) = 3 /\ reads[1] = probe.digest /\ reads[Len(reads)] = probe.digest /\ reads[Len(reads) - 1] = probe.digest
    BY <2>3 DEF ProbeInv, CountIsRun
  <2>. QED BY <2>2, <2>4 DEF ProbeInv, PassSays, CountIsRun, ProbeTyped, NoProbe
<1>. QED BY <1>1, ProbesAreKept, PTL DEF ProbeSpec, FailsOnlyWhenStable
=============================================================================
