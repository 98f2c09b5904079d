---------------------------- MODULE ToolEffects ----------------------------
(***************************************************************************)
(* One turn of the agent graph, before a model call, the call, a tool call,  *)
(* and again before and in the last model call, as the middlewares of        *)
(* tools/middleware.py run it: the terminal guard, the steering mailbox, the  *)
(* review of a tool result and the effect journal, with the rows of           *)
(* postgres_run_effects.py.                                                   *)
(*                                                                            *)
(* An invocation loads the head checkpoint and replays its next node. The     *)
(* rows are written under the active lease; the checkpoint is not             *)
(* (checkpoint_interactions.py delegates aput unconditionally), so an         *)
(* invocation of a superseded generation can still become the head.           *)
(***************************************************************************)
EXTENDS Naturals, FiniteSets

CONSTANTS
    Invs,       \* invocations of the graph, 1..n in the order they start
    Steers,     \* message ids of steer commands
    MaxOwner,   \* bound: lease generations
    MaxMishaps  \* bound: crashes, late renewals, pauses inside the tool

VARIABLES
    run,        \* the claim row: generation, held lease, open
    tool,       \* the tool of this turn: its kind and whether its result is reviewed
    steer,      \* steers: not yet asked, checked against the row, inserted
    mailbox,    \* steer rows
    journal,    \* tool journal row of the call
    reviews,    \* tool result row of the review
    head,       \* latest checkpoint: next node, steers in its messages, tool result
    inv,        \* invocations
    effects,    \* how often the side effect of the call happened
    overtaken,  \* a superseded generation wrote the head
    mishaps

toolVars == <<run, tool, steer, mailbox, journal, reviews, head, inv, effects, overtaken, mishaps>>
rows == <<mailbox, journal, reviews>>

After == [before1 |-> "model1", model1 |-> "tools", tools |-> "before2", before2 |-> "model2", model2 |-> "end"]

ToolInit ==
    /\ run = [gen |-> 1, held |-> TRUE, open |-> TRUE]
    /\ tool \in [kind : {"local", "mcp_call"}, reviewed : BOOLEAN]
    /\ steer = [s \in Steers |-> "none"] /\ mailbox = {}
    /\ journal = "none" /\ reviews = "none"
    /\ head = [at |-> "before1", msgs |-> {}, result |-> "none"]
    /\ inv = [i \in Invs |-> [pc |-> "idle", gen |-> 0, at |-> "end", msgs |-> {}, seen |-> {}, result |-> "none"]]
    /\ effects = 0 /\ overtaken = FALSE /\ mishaps = 0

----------------------------------------------------------------------------
Holds(i) == run.open /\ run.held /\ run.gen = inv[i].gen
Mishap == mishaps < MaxMishaps /\ mishaps' = mishaps + 1
Stopped(i) == inv[i].pc \in {"idle", "dead", "paused", "done"}
At(i, p) == inv[i].pc = p
Becomes(i, r) == inv' = [inv EXCEPT ![i] = r]
To(i, p) == [inv[i] EXCEPT !.pc = p]
Go(i, p) == Becomes(i, To(i, p))
\* Every gate raises RunSupersededError, which ends the invocation.
Gate(i, p) == Go(i, IF Holds(i) THEN p ELSE "dead")

LoseLease == run.held /\ run.open /\ run.gen < MaxOwner /\ Mishap /\ run' = [run EXCEPT !.held = FALSE]
         /\ UNCHANGED <<tool, steer, rows, head, inv, effects, overtaken>>
Supersede ==
    /\ run.open /\ run.gen < MaxOwner
    /\ ~run.held \/ (\A i \in Invs : inv[i].gen = run.gen => Stopped(i))
    /\ run' = [run EXCEPT !.held = TRUE, !.gen = @ + 1]
    /\ UNCHANGED <<tool, steer, rows, head, inv, effects, overtaken, mishaps>>

\* add_steer reads the run on one connection and inserts on another, whatever
\* happened to the run in between.
CheckSteer(s) == steer[s] = "none" /\ run.open /\ steer' = [steer EXCEPT ![s] = "checked"]
                 /\ UNCHANGED <<run, tool, rows, head, inv, effects, overtaken, mishaps>>
AddSteer(s) ==
    /\ steer[s] = "checked" /\ steer' = [steer EXCEPT ![s] = "added"]
    /\ mailbox' = mailbox \cup {s}
    /\ UNCHANGED <<run, tool, journal, reviews, head, inv, effects, overtaken, mishaps>>

----------------------------------------------------------------------------
(* Nodes *)

\* The holder starts an invocation once the previous one of its generation has
\* stopped, and its graph continues from the head.
Start(i) ==
    /\ At(i, "idle") /\ run.open /\ run.held
    /\ \A k \in Invs : (k < i => ~At(k, "idle")) /\ (inv[k].gen = run.gen => Stopped(k))
    /\ Becomes(i, [pc |-> "node", gen |-> run.gen, at |-> head.at, msgs |-> head.msgs,
               seen |-> {}, result |-> head.result])
    /\ UNCHANGED <<run, tool, steer, rows, head, effects, overtaken, mishaps>>

\* A finished node writes its checkpoint and the invocation goes on from it.
Commit(i) ==
    /\ At(i, "commit")
    /\ LET r == [To(i, "node") EXCEPT !.at = After[@], !.seen = {}]
       IN Becomes(i, r) /\ head' = [at |-> r.at, msgs |-> r.msgs, result |-> r.result]
    /\ overtaken' = (overtaken \/ run.gen # inv[i].gen)
    /\ UNCHANGED <<run, tool, steer, rows, effects, mishaps>>

\* abefore_model: the mailbox is read after the gate; steers whose ids are
\* already in the messages are deleted, the others become messages.
Steering(i) == At(i, "node") /\ inv[i].at \in {"before1", "before2"} /\ Gate(i, "peek")
               /\ UNCHANGED <<run, tool, steer, rows, head, effects, overtaken, mishaps>>
PeekSteers(i) == At(i, "peek") /\ Becomes(i, [To(i, "ack") EXCEPT !.seen = mailbox])
                 /\ UNCHANGED <<run, tool, steer, rows, head, effects, overtaken, mishaps>>
Landed_All(i) == inv[i].seen
Landed(i) == inv[i].seen \cap inv[i].msgs
AckSteers(i) ==
    /\ At(i, "ack")
    /\ IF Landed(i) = {} \/ Holds(i)
       THEN mailbox' = mailbox \ Landed(i) /\ Becomes(i, [To(i, "commit") EXCEPT !.msgs = @ \cup inv[i].seen])
       ELSE Go(i, "dead") /\ UNCHANGED mailbox
    /\ UNCHANGED <<run, tool, steer, journal, reviews, head, effects, overtaken, mishaps>>

\* The terminal guard, then the model call.
CallModel(i) == At(i, "node") /\ inv[i].at \in {"model1", "model2"} /\ Gate(i, "commit")
                /\ UNCHANGED <<run, tool, steer, rows, head, effects, overtaken, mishaps>>

\* The last node: the terminal fact is committed under the lease.
EndTurn(i) ==
    /\ At(i, "node") /\ inv[i].at = "end"
    /\ run' = IF Holds(i) THEN [run EXCEPT !.open = FALSE, !.held = FALSE] ELSE run
    /\ Go(i, "done")
    /\ UNCHANGED <<tool, steer, rows, head, effects, overtaken, mishaps>>

----------------------------------------------------------------------------
(* The tool node *)

\* The review is outside the journal: it also keeps the text of a replay.
Result(i, r) == Becomes(i, [To(i, IF tool.reviewed THEN "put" ELSE "commit") EXCEPT !.result = r])
Replay(i) == Result(i, IF journal = "started" THEN "unknown" ELSE "ok")

\* A reviewed tool whose result is cached is not run again: it is asked about
\* once more, or this entry carries the decision.
Review(i) ==
    /\ At(i, "node") /\ inv[i].at = "tools"
    /\ IF ~tool.reviewed \/ ~Holds(i) THEN Gate(i, "journal")
       ELSE IF reviews = "none" THEN Go(i, "journal")
       ELSE Go(i, "paused") \/ Becomes(i, [To(i, "commit") EXCEPT !.result = reviews])
    /\ UNCHANGED <<run, tool, steer, rows, head, effects, overtaken, mishaps>>
\* get_tool_journal: a recorded call is replayed, never executed.
ReadJournal(i) ==
    /\ At(i, "journal")
    /\ IF ~Holds(i) THEN Go(i, "dead")
       ELSE IF journal = "none" THEN Go(i, "insert") ELSE Replay(i)
    /\ UNCHANGED <<run, tool, steer, rows, head, effects, overtaken, mishaps>>
\* journal_tool_started: the one whose insert is kept runs the tool.
StartTool(i) ==
    /\ At(i, "insert")
    /\ IF Holds(i) /\ journal = "none"
       THEN journal' = "started" /\ Go(i, "run")
       ELSE Go(i, "reread") /\ UNCHANGED journal
    /\ UNCHANGED <<run, tool, steer, mailbox, reviews, head, effects, overtaken, mishaps>>
Reread(i) ==
    /\ At(i, "reread")
    /\ IF journal # "none" THEN Replay(i)
       ELSE IF Holds(i) THEN Result(i, "unknown") ELSE Go(i, "dead")
    /\ UNCHANGED <<run, tool, steer, rows, head, effects, overtaken, mishaps>>

\* The handler returns, or pauses: a local tool before its effect, an MCP call
\* after it was sent. Only the former clears its row.
RunTool(i) ==
    /\ At(i, "run") /\ effects' = effects + 1
    /\ Go(i, "finish")
    /\ UNCHANGED <<run, tool, steer, rows, head, overtaken, mishaps>>
Clears_Any == TRUE
Clears == tool.kind # "mcp_call"
PauseTool(i) ==
    /\ At(i, "run") /\ Mishap
    /\ effects' = IF tool.kind = "mcp_call" THEN effects + 1 ELSE effects
    /\ Go(i, IF Clears THEN "clear" ELSE "paused")
    /\ UNCHANGED <<run, tool, steer, rows, head, overtaken>>
ClearJournal(i) ==
    /\ At(i, "clear")
    /\ journal' = IF Holds(i) THEN "none" ELSE journal
    /\ Go(i, "paused")
    /\ UNCHANGED <<run, tool, steer, mailbox, reviews, head, effects, overtaken, mishaps>>
FinishTool(i) ==
    /\ At(i, "finish")
    /\ IF Holds(i) /\ journal = "started"
       THEN journal' = "finished" /\ Result(i, "ok")
       ELSE Go(i, "dead") /\ UNCHANGED journal
    /\ UNCHANGED <<run, tool, steer, mailbox, reviews, head, effects, overtaken, mishaps>>
\* put_tool_result, then the pause for the review.
PutResult(i) ==
    /\ At(i, "put")
    /\ reviews' = IF Holds(i) /\ reviews = "none" THEN inv[i].result ELSE reviews
    /\ Gate(i, "paused")
    /\ UNCHANGED <<run, tool, steer, mailbox, journal, head, effects, overtaken, mishaps>>

Dies(i) ==
    /\ ~Stopped(i) /\ Mishap /\ Go(i, "dead")
    /\ UNCHANGED <<run, tool, steer, rows, head, effects, overtaken>>

----------------------------------------------------------------------------
Node(i) ==
    \/ Start(i) \/ Commit(i) \/ Steering(i) \/ PeekSteers(i) \/ AckSteers(i) \/ CallModel(i) \/ EndTurn(i)
    \/ Review(i) \/ ReadJournal(i) \/ StartTool(i) \/ Reread(i) \/ RunTool(i) \/ PauseTool(i)
    \/ ClearJournal(i) \/ FinishTool(i) \/ PutResult(i) \/ Dies(i)
ToolNext ==
    \/ LoseLease \/ Supersede
    \/ \E s \in Steers : CheckSteer(s) \/ AddSteer(s)
    \/ \E i \in Invs : Node(i)
ToolSpec == ToolInit /\ [][ToolNext]_toolVars

----------------------------------------------------------------------------
(* Properties *)

ToolTypeOK ==
    /\ run \in [gen : 1..MaxOwner, held : BOOLEAN, open : BOOLEAN]
    /\ steer \in [Steers -> {"none", "checked", "added"}] /\ mailbox \subseteq Steers
    /\ journal \in {"none", "started", "finished"} /\ reviews \in {"none", "ok", "unknown"}
    /\ head.at \in {"before1", "model1", "tools", "before2", "model2", "end"}
    /\ head.msgs \subseteq Steers /\ head.result \in {"none", "ok", "unknown"}

\* However the tool node is replayed, paused, reviewed or overtaken, the side
\* effect happens at most once, a result given to the model is of an effect that
\* happened, and unknown_outcome is given only where no outcome is recorded, or
\* by a superseded generation.
ToolOutcomeIsTrue ==
    /\ effects <= 1
    /\ journal = "finished" \/ head.result = "ok" => effects = 1
    /\ head.result = "unknown" => journal # "finished" \/ overtaken

\* An inserted steer stays in the mailbox until the head checkpoint contains it,
\* across every crash between the two, unless a superseded generation wrote the
\* head since.
SteerSurvives ==
    \A s \in Steers : steer[s] = "added" => s \in mailbox \cup head.msgs \/ overtaken

\* middleware.py:496 says a steer converges from any crash and is never lost: it
\* is in the mailbox, in the head, or held by the invocation that acknowledged it.
SteerNeverLost ==
    \A s \in Steers : steer[s] = "added" =>
        s \in mailbox \cup head.msgs \/ (\E i \in Invs : ~Stopped(i) /\ Holds(i) /\ s \in inv[i].msgs)
=============================================================================
