------------------------- MODULE ControlLedgerProofs -------------------------
(***************************************************************************)
(* What the control ledger promises its clients, for any number of workers, *)
(* commands, requests and faults.  Every step of the system is first read   *)
(* as a step of the command rows (RunStep); the invariant is then about the *)
(* rows, about what a coroutine may hold at each point (CoInv) and about    *)
(* the frames of the stream (StreamInv, FrameSurvives).                     *)
(***************************************************************************)
EXTENDS ControlLedger, SequenceTheorems, FiniteSetTheorems, TLAPS

USE KindAssumption, BoundAssumption

-----------------------------------------------------------------------------
(* The inductive invariant *)

RunTypes ==
  /\ outcome \in {"none", "executor"} \cup Cancels
  /\ accepted \in {"none"} \cup Resumes
  /\ ledger \in [Cmd -> Status]
  /\ effect \in [Cmd -> 0..2]

\* A cancel took effect, and is receipted, exactly when it is the outcome; a resume
\* took effect exactly when it holds the pause; a steer at most once.
CommandsAreTrue ==
  /\ \A c \in Cancels : /\ ledger[c] = "succeeded" <=> outcome = c
                        /\ ledger[c] # "applied"
                        /\ effect[c] = IF outcome = c THEN 1 ELSE 0
  /\ \A c \in Resumes : /\ ledger[c] \in {"applied", "succeeded"} => accepted = c
                        /\ effect[c] = IF accepted = c THEN 1 ELSE 0
  /\ \A c \in Steers : effect[c] <= 1

RunInv == RunTypes /\ CommandsAreTrue

ClientInv ==
  /\ req \in [Cmd -> {"idle", "publish", "fail"}]
  /\ asked \in [Cmd -> 0..MaxAsk]
  /\ \A c \in Cmd : req[c] # "idle" => asked[c] > 0 /\ ledger[c] # "none"
  /\ torn \in BOOLEAN /\ group \in BOOLEAN /\ faults \in 0..MaxFault

\* What a coroutine at a point of its program may rely on, when the outcome of the
\* run is out and the accepted resume acc.
CoOk(r, out, acc) ==
  /\ r.pc \notin {"off", "idle", "teardown"} => r.cmd \in Cmd
  /\ r.pc = "insert" => r.cmd \in Steers
  /\ r.pc \in {"accept", "conflict", "context", "nothing"} => r.cmd \in Resumes
  /\ r.pc \in {"applied", "succeeded"}
       => r.cmd \in Steers \/ (r.cmd \in Resumes /\ acc = r.cmd)
  /\ r.pc = "teardown" => out # "none"

CoInv ==
  /\ co \in [Worker -> [Coroutine -> CoState]]
  /\ \A w \in Worker, k \in Coroutine : CoOk(co[w][k], outcome, accepted)

\* Frames are only of commands the ledger knows.
Told == {f \in Frame : ledger[f[1]] # "none"}

\* The listener holds the frame it recorded until it has acknowledged it, and no
\* command it is about to acknowledge waits for its first delivery.
Holds(w) ==
  /\ co[w]["lst"].pc = "off" => queue[w] = <<>>
  /\ co[w]["lst"].pc \in {"ack", "drop"}
       => /\ queue[w] # <<>>
          /\ Open => ledger[Head(queue[w])[1]] \notin {"none", "admitted"}

StreamInv ==
  /\ fresh \in Seq(Told)
  /\ pel \subseteq Told /\ IsFiniteSet(pel)
  /\ queue \in [Worker -> Seq(Told)]
  /\ \A w \in Worker : Holds(w)

Inv == RunInv /\ ClientInv /\ CoInv /\ StreamInv /\ FrameSurvives

LEMMA InvSays ==
  ASSUME Inv
  PROVE  TypeOK /\ CancelDecidesOutcome /\ OneEffect /\ SucceededIsReal /\ FrameSurvives
<1>1. TypeOK
  <2>1. Told \subseteq Frame /\ Seq(Told) \subseteq Seq(Frame)
    BY SeqMonotonic DEF Told
  <2>. QED BY <2>1 DEF Inv, RunInv, RunTypes, ClientInv, CoInv, StreamInv, Holds, TypeOK
<1>2. CancelDecidesOutcome /\ FrameSurvives
  BY DEF Inv, RunInv, CommandsAreTrue, CancelDecidesOutcome
<1>3. OneEffect
  BY DEF Inv, RunInv, CommandsAreTrue, OneEffect, Cmd
<1>4. SucceededIsReal
  <2>. DEFINE Taken == {c \in Resumes : effect[c] > 0}
  <2>1. Taken \subseteq {accepted}
    BY DEF Inv, RunInv, CommandsAreTrue
  <2>2. Cardinality(Taken) <= 1
    <3>1. IsFiniteSet({accepted}) /\ Cardinality({accepted}) = 1
      BY FS_Singleton
    <3>2. IsFiniteSet(Taken) /\ Cardinality(Taken) <= Cardinality({accepted})
      BY <2>1, <3>1, FS_Subset
    <3>3. Cardinality(Taken) \in Nat
      BY <3>2, FS_CardinalityType
    <3>. HIDE DEF Taken
    <3>. QED BY <3>1, <3>2, <3>3
  <2>3. ASSUME NEW c \in Cancels \cup Resumes, ledger[c] \in {"applied", "succeeded"}
        PROVE  effect[c] = 1
    BY <2>3 DEF Inv, RunInv, CommandsAreTrue
  <2>. QED BY <2>2, <2>3 DEF SucceededIsReal
<1>. QED BY <1>1, <1>2, <1>3, <1>4

LEMMA InvInit == Init => Inv
<1>. SUFFICES ASSUME Init PROVE Inv
  OBVIOUS
<1>1. RunInv
  BY DEF Init, RunInv, RunTypes, CommandsAreTrue, Cmd, Status
<1>2. ClientInv
  <2>1. 0 \in 0..MaxAsk /\ 0 \in 0..MaxFault
    OBVIOUS
  <2>2. req \in [Cmd -> {"idle", "publish", "fail"}] /\ asked \in [Cmd -> 0..MaxAsk]
    BY <2>1 DEF Init
  <2>. QED BY <2>1, <2>2 DEF Init, ClientInv
<1>3. CoInv
  BY DEF Init, CoInv, CoOk, CoState, Coroutine, PC, Off, Idle, Open
<1>4. StreamInv
  <2>1. IsFiniteSet({}) /\ <<>> \in Seq(Told)
    BY FS_EmptySet
  <2>. QED BY <2>1 DEF Init, StreamInv, Holds, Coroutine, Off
<1>5. FrameSurvives
  BY DEF Init, FrameSurvives
<1>. QED BY <1>1, <1>2, <1>3, <1>4, <1>5 DEF Inv

-----------------------------------------------------------------------------
(* The steps of the command rows *)

\* One row gets a status: forward only, and a receipt of success only for what took
\* effect.
Marked(c, s) ==
  /\ UNCHANGED run
  /\ ledger' = [ledger EXCEPT ![c] = s]
  /\ \/ s = "admitted" /\ ledger[c] = "none"
     \/ s = "persisted" /\ ledger[c] = "admitted"
     \/ s \in {"failed", "superseded"} /\ ledger[c] \in {"admitted", "persisted", "applied"}
     \/ /\ s \in {"applied", "succeeded"}
        /\ ledger[c] \in {"admitted", "persisted", "applied"}
        /\ c \in Steers \/ (c \in Resumes /\ accepted = c)

Inserted(c) ==
  /\ c \in Steers /\ effect[c] = 0
  /\ effect' = [effect EXCEPT ![c] = 1]
  /\ UNCHANGED <<outcome, accepted, ledger>>

Won(c) ==
  /\ c \in Cancels /\ Open /\ ledger[c] = "persisted"
  /\ outcome' = c
  /\ ledger' = [ledger EXCEPT ![c] = "succeeded"]
  /\ Took(c)
  /\ UNCHANGED accepted

Joined(c) ==
  /\ c \in Resumes /\ accepted = "none"
  /\ accepted' = c
  /\ Took(c)
  /\ UNCHANGED <<outcome, ledger>>

Ended ==
  /\ Open
  /\ outcome' = "executor"
  /\ UNCHANGED <<accepted, effect, ledger>>

RunStep ==
  \/ UNCHANGED <<run, ledger>>
  \/ \E c \in Cmd, s \in Status : Marked(c, s)
  \/ \E c \in Cmd : Inserted(c) \/ Won(c) \/ Joined(c)
  \/ Ended

LEMMA RunStepInv ==
  ASSUME RunInv, RunStep
  PROVE  RunInv'
<1>. USE DEF run
<1>1. CASE UNCHANGED <<run, ledger>>
  BY <1>1 DEF RunInv, RunTypes, CommandsAreTrue
<1>2. ASSUME NEW c \in Cmd, NEW s \in Status, Marked(c, s) PROVE RunInv'
  <2>1. RunTypes'
    BY <1>2 DEF Marked, RunInv, RunTypes
  <2>2. CommandsAreTrue'
    BY <1>2 DEF Marked, RunInv, RunTypes, CommandsAreTrue, Cmd
  <2>. QED BY <2>1, <2>2 DEF RunInv
<1>3. ASSUME NEW c \in Cmd, Inserted(c) PROVE RunInv'
  <2>1. RunTypes'
    BY <1>3 DEF Inserted, RunInv, RunTypes
  <2>2. CommandsAreTrue'
    BY <1>3 DEF Inserted, RunInv, RunTypes, CommandsAreTrue, Cmd
  <2>. QED BY <2>1, <2>2 DEF RunInv
<1>4. ASSUME NEW c \in Cmd, Won(c) PROVE RunInv'
  <2>0. effect[c] = 0
    BY <1>4 DEF Won, Open, RunInv, RunTypes, CommandsAreTrue, Cmd
  <2>1. effect' = [effect EXCEPT ![c] = 1]
    BY <1>4, <2>0 DEF Won, Took
  <2>2. RunTypes'
    BY <1>4, <2>1 DEF Won, RunInv, RunTypes, Status
  <2>3. CommandsAreTrue'
    BY <1>4, <2>1 DEF Won, Open, RunInv, RunTypes, CommandsAreTrue, Cmd
  <2>. QED BY <2>2, <2>3 DEF RunInv
<1>5. ASSUME NEW c \in Cmd, Joined(c) PROVE RunInv'
  <2>0. effect[c] = 0
    BY <1>5 DEF Joined, RunInv, RunTypes, CommandsAreTrue, Cmd
  <2>1. effect' = [effect EXCEPT ![c] = 1]
    BY <1>5, <2>0 DEF Joined, Took
  <2>2. RunTypes'
    BY <1>5, <2>1 DEF Joined, RunInv, RunTypes
  <2>3. CommandsAreTrue'
    BY <1>5, <2>1 DEF Joined, RunInv, RunTypes, CommandsAreTrue, Cmd
  <2>. QED BY <2>2, <2>3 DEF RunInv
<1>6. CASE Ended
  BY <1>6 DEF Ended, Open, RunInv, RunTypes, CommandsAreTrue, Cmd
<1>. QED BY <1>1, <1>2, <1>3, <1>4, <1>5, <1>6 DEF RunStep

\* A decided run and a won pause stay; no row is admitted again.
LEMMA RunStepForward ==
  ASSUME RunInv, RunStep
  PROVE  /\ ~Open => outcome' = outcome
         /\ accepted # "none" => accepted' = accepted
         /\ \A c \in Cmd : ledger'[c] = "admitted" => ledger[c] \in {"none", "admitted"}
         /\ \A c \in Cmd : ledger'[c] = "none" => ledger[c] = "none"
         /\ \A c \in Cmd : ledger[c] \in {"succeeded", "failed", "superseded"}
                             => ledger'[c] = ledger[c]
<1>. USE DEF run, RunInv, RunTypes
<1>1. CASE UNCHANGED <<run, ledger>>
  BY <1>1
<1>2. ASSUME NEW c \in Cmd, NEW s \in Status, Marked(c, s) PROVE \A d \in Cmd : ledger'[d] = IF d = c THEN s ELSE ledger[d]
  BY <1>2 DEF Marked
<1>3. CASE \E c \in Cmd, s \in Status : Marked(c, s)
  BY <1>2, <1>3 DEF Marked
<1>4. CASE \E c \in Cmd : Inserted(c) \/ Joined(c)
  BY <1>4 DEF Inserted, Joined
<1>5. CASE \E c \in Cmd : Won(c)
  BY <1>5 DEF Won, Open
<1>6. CASE Ended
  BY <1>6 DEF Ended, Open
<1>. QED BY <1>1, <1>3, <1>4, <1>5, <1>6 DEF RunStep

-----------------------------------------------------------------------------
(* The parts of the invariant a step leaves alone *)

LEMMA ToldGrows ==
  ASSUME Inv, RunStep
  PROVE  Told \subseteq Told' /\ Seq(Told) \subseteq Seq(Told')
<1>1. \A c \in Cmd : ledger'[c] = "none" => ledger[c] = "none"
  BY RunStepForward DEF Inv
<1>2. Told \subseteq Told'
  BY <1>1 DEF Told, Frame
<1>. QED BY <1>2, SeqMonotonic

LEMMA HeadIsTold ==
  ASSUME Inv, NEW w \in Worker, queue[w] # <<>>
  PROVE  /\ Head(queue[w]) \in Told /\ Head(queue[w])[1] \in Cmd
         /\ Tail(queue[w]) \in Seq(Told)
<1>1. queue[w] \in Seq(Told)
  BY DEF Inv, StreamInv
<1>2. Head(queue[w]) \in Told /\ Tail(queue[w]) \in Seq(Told)
  BY <1>1, HeadTailProperties
<1>. QED BY <1>2 DEF Told, Frame

LEMMA HoldsKept ==
  ASSUME Inv, RunStep, NEW w \in Worker,
         co'[w]["lst"] = co[w]["lst"], queue'[w] = queue[w]
  PROVE  Holds(w)'
<1>1. Holds(w)
  BY DEF Inv, StreamInv
<1>2. Open' => Open
  BY RunStepForward DEF Inv, Open
<1>3. \A c \in Cmd : ledger[c] \notin {"none", "admitted"} => ledger'[c] \notin {"none", "admitted"}
  BY RunStepForward DEF Inv
<1>. QED BY <1>1, <1>2, <1>3, HeadIsTold DEF Holds

LEMMA CoOkKept ==
  ASSUME Inv, RunStep, NEW w \in Worker, NEW k \in Coroutine
  PROVE  CoOk(co[w][k], outcome', accepted')
<1>1. CoOk(co[w][k], outcome, accepted)
  BY DEF Inv, CoInv
<1>2. /\ outcome # "none" => outcome' = outcome
      /\ accepted # "none" => accepted' = accepted
  BY RunStepForward DEF Inv, Open
<1>3. "none" \notin Resumes
  BY DEF Cmd
<1>. QED BY <1>1, <1>2, <1>3 DEF CoOk

\* A step of the rows that admits nothing and leaves the requests and the frames.
LEMMA FramesKept ==
  ASSUME Inv, RunStep, UNCHANGED <<req, fresh, pel>>,
         \A c \in Cmd : ledger'[c] = "admitted" => ledger[c] = "admitted"
  PROVE  FrameSurvives'
<1>1. Open' => Open
  BY RunStepForward DEF Inv, Open
<1>. QED BY <1>1 DEF Inv, FrameSurvives

LEMMA ClientKept ==
  ASSUME Inv, RunStep, UNCHANGED <<req, asked>>, faults' \in 0..MaxFault,
         torn' \in BOOLEAN, group' \in BOOLEAN
  PROVE  ClientInv'
<1>1. \A c \in Cmd : ledger'[c] = "none" => ledger[c] = "none"
  BY RunStepForward DEF Inv
<1>. QED BY <1>1 DEF Inv, ClientInv

-----------------------------------------------------------------------------
(* A coroutine goes on *)

Moved(w, k, p, c) == co' = [co EXCEPT ![w][k] = [pc |-> p, cmd |-> c]]

LEMMA GotoMoves ==
  ASSUME Inv, NEW w \in Worker, NEW k \in Coroutine, NEW p, Goto(w, k, p)
  PROVE  Moved(w, k, p, CmdOf(w, k)) /\ CmdOf(w, k) \in Cmd \cup {"none"}
<1>. DEFINE r == co[w][k]
<1>1. r = [pc |-> r.pc, cmd |-> r.cmd] /\ r.cmd \in Cmd \cup {"none"}
  BY DEF Inv, CoInv, CoState
<1>2. [r EXCEPT !.pc = p] = [pc |-> p, cmd |-> r.cmd]
  BY <1>1
<1>3. co' = [co EXCEPT ![w][k] = [r EXCEPT !.pc = p]]
  BY DEF Goto
<1>. QED BY <1>1, <1>2, <1>3 DEF Moved, CmdOf

LEMMA MovedCo ==
  ASSUME Inv, NEW w \in Worker, NEW k \in Coroutine, NEW p \in PC,
         NEW c \in Cmd \cup {"none"}, Moved(w, k, p, c)
  PROVE  /\ co' \in [Worker -> [Coroutine -> CoState]]
         /\ co'[w][k] = [pc |-> p, cmd |-> c]
         /\ \A v \in Worker, j \in Coroutine : v # w \/ j # k => co'[v][j] = co[v][j]
<1>. DEFINE r == [pc |-> p, cmd |-> c]
<1>1. r \in CoState
  BY DEF CoState
<1>2. co' = [co EXCEPT ![w][k] = r]
  BY DEF Moved
<1>. HIDE DEF r
<1>3. co \in [Worker -> [Coroutine -> CoState]]
  BY DEF Inv, CoInv
<1>4. co' \in [Worker -> [Coroutine -> CoState]] /\ co'[w][k] = r
      /\ \A v \in Worker, j \in Coroutine : v # w \/ j # k => co'[v][j] = co[v][j]
  BY <1>1, <1>2, <1>3
<1>. QED BY <1>4 DEF r

LEMMA MoveInv ==
  ASSUME Inv, RunStep, NEW w \in Worker, NEW k \in Coroutine, NEW p \in PC,
         NEW c \in Cmd \cup {"none"}, Moved(w, k, p, c),
         CoOk([pc |-> p, cmd |-> c], outcome', accepted'),
         UNCHANGED <<client, stream, torn>>, faults' \in 0..MaxFault,
         \A d \in Cmd : ledger'[d] = "admitted" => ledger[d] = "admitted",
         k = "lst" => /\ p = "off" => queue[w] = <<>>
                      /\ p \in {"ack", "drop"}
                           => /\ queue[w] # <<>>
                              /\ Open' => ledger'[Head(queue[w])[1]] \notin {"none", "admitted"}
  PROVE  Inv'
<1>. USE DEF client, stream
<1>1. RunInv'
  BY RunStepInv DEF Inv
<1>2. ClientInv'
  <2>1. torn \in BOOLEAN /\ group \in BOOLEAN
    BY DEF Inv, ClientInv
  <2>. QED BY <2>1, ClientKept
<1>3. /\ co' \in [Worker -> [Coroutine -> CoState]]
      /\ co'[w][k] = [pc |-> p, cmd |-> c]
      /\ \A v \in Worker, j \in Coroutine : v # w \/ j # k => co'[v][j] = co[v][j]
  BY MovedCo
<1>4. CoInv'
  BY <1>3, CoOkKept DEF CoInv
<1>5. ASSUME NEW v \in Worker PROVE Holds(v)'
  <2>1. "lst" \in Coroutine
    BY DEF Coroutine
  <2>2. CASE v = w /\ k = "lst"
    BY <1>3, <2>2 DEF Holds
  <2>3. CASE v # w \/ k # "lst"
    BY <1>3, <2>1, <2>3, HoldsKept
  <2>. QED BY <2>2, <2>3
<1>6. StreamInv'
  BY <1>5, ToldGrows DEF Inv, StreamInv
<1>7. FrameSurvives'
  BY FramesKept
<1>. QED BY <1>1, <1>2, <1>4, <1>6, <1>7 DEF Inv
\* The same when at most the status of a row changes.
LEMMA StatusMove ==
  ASSUME Inv, NEW w \in Worker, NEW k \in Coroutine, NEW p \in PC \ {"off", "ack", "drop"},
         NEW c \in Cmd \cup {"none"}, Moved(w, k, p, c),
         CoOk([pc |-> p, cmd |-> c], outcome, accepted),
         UNCHANGED <<run, client, stream, torn>>, faults' \in 0..MaxFault,
         UNCHANGED ledger \/ \E d \in Cmd, s \in Status \ {"admitted"} : Marked(d, s)
  PROVE  RunStep /\ Inv'
<1>1. RunStep
  BY DEF RunStep
<1>2. \A d \in Cmd : ledger'[d] = "admitted" => ledger[d] = "admitted"
  BY DEF Marked, Inv, RunInv, RunTypes
<1>3. outcome' = outcome /\ accepted' = accepted
  BY DEF run
<1>. QED BY <1>1, <1>2, <1>3, MoveInv

LEMMA Updated ==
  ASSUME NEW c \in Cmd, NEW s \in Status \ {"none", "admitted", "persisted"},
         UpdateStatus(c, s) \/ UpdateCommand(c, s), UNCHANGED run,
         s \in {"applied", "succeeded"} => c \in Steers \/ (c \in Resumes /\ accepted = c)
  PROVE  UNCHANGED ledger \/ \E d \in Cmd, t \in Status \ {"admitted"} : Marked(d, t)
<1>1. s \in {"failed", "superseded"} \/ s \in {"applied", "succeeded"}
  BY DEF Status
<1>2. CASE UNCHANGED ledger
  BY <1>2
<1>3. CASE /\ ledger[c] \in {"admitted", "persisted", "applied"}
           /\ ledger' = [ledger EXCEPT ![c] = s]
  <2>1. Marked(c, s)
    BY <1>1, <1>3 DEF Marked
  <2>. QED BY <2>1
<1>. QED BY <1>2, <1>3 DEF UpdateStatus, UpdateCommand

LEMMA FaultsStay ==
  ASSUME Inv, UNCHANGED faults \/ (faults < MaxFault /\ faults' = faults + 1)
  PROVE  faults' \in 0..MaxFault
BY DEF Inv, ClientInv

\* What an active coroutine works on, and what it may rely on.
LEMMA AtPoint ==
  ASSUME Inv, NEW w \in Worker, NEW k \in Coroutine
  PROVE  /\ CmdOf(w, k) \in Cmd \cup {"none"}
         /\ \A p \in PC : At(w, k, p) => CoOk([pc |-> p, cmd |-> CmdOf(w, k)], outcome, accepted)
         /\ \A p \in PC \ {"off", "idle", "teardown"} : At(w, k, p) => CmdOf(w, k) \in Cmd
<1>1. co[w][k] \in CoState /\ CoOk(co[w][k], outcome, accepted)
  BY DEF Inv, CoInv
<1>. QED BY <1>1 DEF CoState, CmdOf, At, CoOk

-----------------------------------------------------------------------------
(* The listener records, the scan lists *)

LEMMA DoneMoves ==
  ASSUME NEW w, NEW k, Done(w, k)
  PROVE  Moved(w, k, "idle", "none") /\ CoOk([pc |-> "idle", cmd |-> "none"], outcome, accepted)
BY DEF Done, Idle, Moved, CoOk

LEMMA ListenStep ==
  ASSUME Inv, NEW w \in Worker, Listen(w)
  PROVE  RunStep /\ Inv'
<1>1. Moved(w, "lst", "idle", "none") /\ CoOk([pc |-> "idle", cmd |-> "none"], outcome, accepted)
  BY DEF Listen, Idle, Moved, CoOk
<1>. QED BY <1>1, StatusMove, FaultsStay DEF Listen, PC, Coroutine

LEMMA RecordStep ==
  ASSUME Inv, NEW w \in Worker, Record(w)
  PROVE  RunStep /\ Inv'
<1>. DEFINE c == Head(queue[w])[1]
<1>1. queue[w] # <<>> /\ c \in Cmd
  BY HeadIsTold DEF Record
<1>2. PICK p \in {"ack", "drop"} : Moved(w, "lst", p, c)
  BY DEF Record, Start, Moved
<1>3. CoOk([pc |-> p, cmd |-> c], outcome', accepted')
  BY <1>1 DEF CoOk
<1>4. UNCHANGED <<run, client, stream, torn>> /\ faults' \in 0..MaxFault
  BY FaultsStay DEF Record
<1>5. \/ Open /\ ledger[c] = "admitted" /\ ledger' = [ledger EXCEPT ![c] = "persisted"]
      \/ (~Open \/ ledger[c] # "admitted") /\ UNCHANGED ledger
  BY DEF Record
<1>6. RunStep /\ \A d \in Cmd : ledger'[d] = "admitted" => ledger[d] = "admitted"
  <2>1. CASE UNCHANGED ledger
    BY <1>4, <2>1 DEF RunStep
  <2>2. CASE ledger[c] = "admitted" /\ ledger' = [ledger EXCEPT ![c] = "persisted"]
    <3>1. Marked(c, "persisted") /\ "persisted" \in Status
      BY <1>4, <2>2 DEF Marked, Status
    <3>. QED BY <1>1, <2>2, <3>1 DEF RunStep, Inv, RunInv, RunTypes
  <2>. QED BY <1>5, <2>1, <2>2
<1>7. Open' => ledger'[c] \notin {"none", "admitted"}
  <2>1. ledger[c] # "none"
    BY <1>1, HeadIsTold DEF Told
  <2>. QED BY <1>1, <1>4, <1>5, <2>1 DEF Open, run, Inv, RunInv, RunTypes
<1>. HIDE DEF c
<1>8. p \in PC /\ c \in Cmd \cup {"none"} /\ "lst" \in Coroutine /\ p # "off"
  BY <1>1, <1>2 DEF PC, Coroutine
<1>. QED BY <1>1, <1>2, <1>3, <1>4, <1>6, <1>7, <1>8, MoveInv DEF c

LEMMA HeartbeatStep ==
  ASSUME Inv, NEW w \in Worker, Heartbeat(w)
  PROVE  RunStep /\ Inv'
<1>1. "beat" \in Coroutine /\ {"listed", "apply", "superseded"} \subseteq PC \ {"off", "ack", "drop"}
  BY DEF Coroutine, PC
<1>2. ASSUME NEW c \in Cmd, Scan(w, c) PROVE RunStep /\ Inv'
  <2>1. Moved(w, "beat", "listed", c) /\ CoOk([pc |-> "listed", cmd |-> c], outcome, accepted)
    BY <1>2 DEF Scan, Start, Moved, CoOk
  <2>. QED BY <1>1, <1>2, <2>1, StatusMove, FaultsStay DEF Scan
<1>3. ASSUME Reapply(w) PROVE RunStep /\ Inv'
  <2>1. PICK p \in {"apply", "superseded"} : Goto(w, "beat", p)
    BY <1>3 DEF Reapply
  <2>2. CmdOf(w, "beat") \in Cmd
    BY <1>1, <1>3, AtPoint DEF Reapply
  <2>3. CoOk([pc |-> p, cmd |-> CmdOf(w, "beat")], outcome, accepted)
    BY <2>2 DEF CoOk
  <2>4. Moved(w, "beat", p, CmdOf(w, "beat"))
    BY <1>1, <2>1, GotoMoves
  <2>. QED BY <1>1, <1>3, <2>2, <2>3, <2>4, StatusMove, FaultsStay DEF Reapply
<1>. QED BY <1>2, <1>3 DEF Heartbeat

-----------------------------------------------------------------------------
(* A recorded command is applied *)

\* Most points of the program change no row.
LEMMA PlainGoto ==
  ASSUME Inv, NEW w \in Worker, NEW k \in Coroutine, NEW p \in PC \ {"off", "ack", "drop"},
         Goto(w, k, p), CoOk([pc |-> p, cmd |-> CmdOf(w, k)], outcome, accepted),
         UNCHANGED <<run, ledger, client, stream, torn>>, faults' \in 0..MaxFault
  PROVE  RunStep /\ Inv'
BY GotoMoves, StatusMove

LEMMA PlainDone ==
  ASSUME Inv, NEW w \in Worker, NEW k \in Coroutine, Done(w, k),
         UNCHANGED <<run, ledger, client, stream, torn, faults>>
  PROVE  RunStep /\ Inv'
BY DoneMoves, StatusMove, FaultsStay DEF PC

LEMMA SteerStep ==
  ASSUME Inv, NEW w \in Worker, NEW k \in Coroutine, SteerRead(w, k) \/ SteerInsert(w, k)
  PROVE  RunStep /\ Inv'
<1>. DEFINE c == CmdOf(w, k)
<1>0. {"insert", "applied"} \subseteq PC \ {"off", "ack", "drop"}
  BY DEF PC
<1>1. CASE SteerRead(w, k)
  <2>1. c \in Steers /\ faults' \in 0..MaxFault /\ UNCHANGED <<run, ledger, client, stream, torn>>
    BY <1>1, FaultsStay DEF SteerRead
  <2>2. PICK p \in {"insert", "applied"} : Goto(w, k, p)
    BY <1>1 DEF SteerRead
  <2>3. CoOk([pc |-> p, cmd |-> c], outcome, accepted)
    BY <2>1 DEF CoOk, Cmd
  <2>. QED BY <1>0, <2>1, <2>2, <2>3, PlainGoto
<1>2. CASE SteerInsert(w, k)
  <2>1. c \in Steers /\ c \in Cmd
    BY <1>2, AtPoint DEF SteerInsert, PC, CoOk
  <2>2. CoOk([pc |-> "applied", cmd |-> c], outcome, accepted)
    BY <2>1 DEF CoOk
  <2>3. Goto(w, k, "applied") /\ UNCHANGED <<outcome, accepted, ledger, client, stream, torn, faults>>
    BY <1>2 DEF SteerInsert
  <2>4. CASE UNCHANGED effect
    BY <1>0, <2>2, <2>3, <2>4, PlainGoto, FaultsStay DEF run
  <2>5. CASE effect[c] = 0 /\ Took(c)
    <3>1. Inserted(c)
      BY <2>1, <2>3, <2>5 DEF Inserted, Took
    <3>2. RunStep
      BY <2>1, <3>1 DEF RunStep
    <3>. QED BY <1>0, <2>1, <2>2, <2>3, <3>2, GotoMoves, MoveInv, FaultsStay
  <2>. QED BY <1>2, <2>4, <2>5 DEF SteerInsert
<1>. QED BY <1>1, <1>2
LEMMA CancelStep ==
  ASSUME Inv, NEW w \in Worker, NEW k \in Coroutine,
         CancelDeferred(w, k) \/ CancelCommit(w, k) \/ CancelLost(w, k)
  PROVE  RunStep /\ Inv'
<1>. DEFINE c == CmdOf(w, k)
<1>0. {"teardown", "lost", "superseded"} \subseteq PC \ {"off", "ack", "drop"} /\ "lost" \in PC
  BY DEF PC
<1>1. CASE CancelDeferred(w, k)
  BY <1>1, PlainDone DEF CancelDeferred, run
<1>2. CASE CancelLost(w, k)
  <2>1. c \in Cmd
    BY <1>0, <1>2, AtPoint DEF CancelLost
  <2>2. UNCHANGED <<run, ledger, client, stream, torn, faults>>
    BY <1>2 DEF CancelLost
  <2>3. CASE Done(w, k)
    BY <2>2, <2>3, PlainDone
  <2>4. CASE Goto(w, k, "superseded")
    <3>1. CoOk([pc |-> "superseded", cmd |-> c], outcome, accepted)
      BY <2>1 DEF CoOk
    <3>. QED BY <1>0, <2>2, <2>4, <3>1, PlainGoto, FaultsStay
  <2>. QED BY <1>2, <2>3, <2>4 DEF CancelLost
<1>3. CASE CancelCommit(w, k)
  <2>1. c \in Cancels /\ c \in Cmd /\ c # "none"
    BY <1>3 DEF CancelCommit, Cmd
  <2>2. UNCHANGED <<accepted, client, stream, torn, faults>>
    BY <1>3 DEF CancelCommit
  <2>3. CASE /\ Open /\ ledger[c] = "persisted" /\ outcome' = c /\ Took(c)
             /\ ledger' = [ledger EXCEPT ![c] = "succeeded"] /\ Goto(w, k, "teardown")
    <3>1. Won(c)
      BY <2>1, <2>2, <2>3 DEF Won
    <3>2. RunStep
      BY <2>1, <3>1 DEF RunStep
    <3>3. CoOk([pc |-> "teardown", cmd |-> c], outcome', accepted')
      BY <2>1, <2>3 DEF CoOk
    <3>4. \A d \in Cmd : ledger'[d] = "admitted" => ledger[d] = "admitted"
      BY <2>3 DEF Inv, RunInv, RunTypes
    <3>. QED BY <1>0, <2>2, <2>3, <3>2, <3>3, <3>4, GotoMoves, MoveInv, FaultsStay
  <2>4. CASE ~Open /\ Goto(w, k, "teardown") /\ UNCHANGED <<outcome, ledger, effect>>
    <3>1. CoOk([pc |-> "teardown", cmd |-> c], outcome, accepted)
      BY <2>4 DEF CoOk, Open
    <3>. QED BY <1>0, <2>2, <2>4, <3>1, PlainGoto, FaultsStay DEF run
  <2>5. CASE Goto(w, k, "lost") /\ UNCHANGED <<outcome, ledger, effect>>
    <3>1. CoOk([pc |-> "lost", cmd |-> c], outcome, accepted)
      BY <2>1 DEF CoOk
    <3>. QED BY <1>0, <2>2, <2>5, <3>1, PlainGoto, FaultsStay DEF run
  <2>. QED BY <1>3, <2>3, <2>4, <2>5 DEF CancelCommit
<1>. QED BY <1>1, <1>2, <1>3

LEMMA SupersedeStep ==
  ASSUME Inv, NEW w \in Worker, NEW k \in Coroutine, Supersede(w, k)
  PROVE  RunStep /\ Inv'
<1>. DEFINE c == CmdOf(w, k)
<1>0. /\ {"refused", "settled"} \subseteq PC \ {"off", "ack", "drop"}
      /\ {"superseded", "refused", "settled"} \subseteq PC \ {"off", "idle", "teardown"}
      /\ {"failed", "superseded"} \subseteq Status \ {"none", "admitted", "persisted"}
  BY DEF PC, Status
<1>1. c \in Cmd
  BY <1>0, AtPoint DEF Supersede
<1>2. UNCHANGED <<run, client, stream, torn>> /\ faults' \in 0..MaxFault
  BY FaultsStay DEF Supersede
<1>3. \A p \in {"refused", "settled"} : CoOk([pc |-> p, cmd |-> c], outcome, accepted)
  BY <1>1 DEF CoOk
<1>4. CASE UpdateStatus(c, "superseded") /\ Goto(w, k, "refused")
  <2>1. UNCHANGED ledger \/ \E d \in Cmd, t \in Status \ {"admitted"} : Marked(d, t)
    BY <1>0, <1>1, <1>2, <1>4, Updated
  <2>. QED BY <1>0, <1>1, <1>2, <1>3, <1>4, <2>1, GotoMoves, StatusMove
<1>5. CASE UpdateCommand(c, "failed") /\ Goto(w, k, "settled")
  <2>1. UNCHANGED ledger \/ \E d \in Cmd, t \in Status \ {"admitted"} : Marked(d, t)
    BY <1>0, <1>1, <1>2, <1>5, Updated
  <2>. QED BY <1>0, <1>1, <1>2, <1>3, <1>5, <2>1, GotoMoves, StatusMove
<1>6. CASE Done(w, k) /\ UNCHANGED ledger
  BY <1>6, PlainDone DEF Supersede
<1>. QED BY <1>4, <1>5, <1>6 DEF Supersede

LEMMA ResumeStep ==
  ASSUME Inv, NEW w \in Worker, NEW k \in Coroutine,
         ResumeCheck(w, k) \/ ResumeAccept(w, k) \/ ResumeContext(w, k)
  PROVE  RunStep /\ Inv'
<1>. DEFINE c == CmdOf(w, k)
<1>0. /\ {"accept", "context", "conflict", "applied", "nothing"} \subseteq PC \ {"off", "ack", "drop"}
      /\ {"accept", "context"} \subseteq PC
  BY DEF PC
<1>1. c \in Resumes /\ c \in Cmd /\ c # "none"
  <2>1. CASE ResumeCheck(w, k)
    BY <2>1 DEF ResumeCheck, Cmd
  <2>2. CASE ResumeAccept(w, k) \/ ResumeContext(w, k)
    BY <1>0, <2>2, AtPoint DEF ResumeAccept, ResumeContext, CoOk, Cmd
  <2>. QED BY <2>1, <2>2
<1>2. \A p \in {"accept", "context", "conflict", "nothing"}, a \in {accepted, accepted'} :
        CoOk([pc |-> p, cmd |-> c], outcome, a)
  BY <1>1 DEF CoOk
<1>3. CASE ResumeCheck(w, k)
  <2>1. PICK p \in {"accept", "context"} : Goto(w, k, p)
    BY <1>3 DEF ResumeCheck
  <2>. QED BY <1>0, <1>2, <1>3, <2>1, PlainGoto, FaultsStay DEF ResumeCheck
<1>4. CASE ResumeContext(w, k)
  <2>1. CASE accepted = c /\ Goto(w, k, "applied")
    <3>1. CoOk([pc |-> "applied", cmd |-> c], outcome, accepted)
      BY <1>1, <2>1 DEF CoOk
    <3>. QED BY <1>0, <1>4, <2>1, <3>1, PlainGoto, FaultsStay DEF ResumeContext
  <2>2. CASE Goto(w, k, "nothing")
    BY <1>0, <1>2, <1>4, <2>2, PlainGoto, FaultsStay DEF ResumeContext
  <2>. QED BY <1>4, <2>1, <2>2 DEF ResumeContext
<1>5. CASE ResumeAccept(w, k)
  <2>1. UNCHANGED <<outcome, ledger, client, stream, torn, faults>>
    BY <1>5 DEF ResumeAccept
  <2>2. CASE UNCHANGED <<accepted, effect>> /\ (Goto(w, k, "context") \/ Goto(w, k, "conflict"))
    <3>1. PICK p \in {"context", "conflict"} : Goto(w, k, p)
      BY <2>2
    <3>. QED BY <1>0, <1>2, <2>1, <2>2, <3>1, PlainGoto, FaultsStay DEF run
  <2>3. CASE accepted = "none" /\ accepted' = c /\ Took(c) /\ Goto(w, k, "context")
    <3>1. Joined(c)
      BY <1>1, <2>1, <2>3 DEF Joined
    <3>2. RunStep
      BY <1>1, <3>1 DEF RunStep
    <3>3. CoOk([pc |-> "context", cmd |-> c], outcome', accepted')
      BY <1>1 DEF CoOk
    <3>. QED BY <1>0, <1>1, <2>1, <2>3, <3>2, <3>3, GotoMoves, MoveInv, FaultsStay
  <2>. QED BY <1>5, <2>2, <2>3 DEF ResumeAccept
<1>. QED BY <1>3, <1>4, <1>5

LEMMA ReceiptStep ==
  ASSUME Inv, NEW w \in Worker, NEW k \in Coroutine,
         ResumeConflict(w, k) \/ ResumeNothing(w, k) \/ MarkApplied(w, k) \/ MarkSucceeded(w, k)
  PROVE  RunStep /\ Inv'
<1>. DEFINE c == CmdOf(w, k)
            MarkedOrNot == UNCHANGED ledger \/ \E d \in Cmd, t \in Status \ {"admitted"} : Marked(d, t)
<1>0. /\ {"context", "succeeded", "idle"} \subseteq PC \ {"off", "ack", "drop"}
      /\ {"conflict", "nothing", "applied", "succeeded"} \subseteq PC \ {"off", "idle", "teardown"}
      /\ {"failed", "applied", "succeeded"} \subseteq Status \ {"none", "admitted", "persisted"}
  BY DEF PC, Status
<1>1. c \in Cmd
  BY <1>0, AtPoint DEF ResumeConflict, ResumeNothing, MarkApplied, MarkSucceeded
<1>2. UNCHANGED <<run, client, stream, torn>> /\ faults' \in 0..MaxFault
  BY FaultsStay DEF ResumeConflict, ResumeNothing, MarkApplied, MarkSucceeded
<1>3. CASE ResumeConflict(w, k)
  <2>1. MarkedOrNot
    BY <1>0, <1>1, <1>2, <1>3, Updated DEF ResumeConflict
  <2>2. c \in Resumes
    BY <1>0, <1>3, AtPoint DEF ResumeConflict, CoOk
  <2>3. CoOk([pc |-> "context", cmd |-> c], outcome, accepted)
    BY <1>1, <2>2 DEF CoOk
  <2>. QED BY <1>0, <1>1, <1>2, <1>3, <2>1, <2>3, GotoMoves, StatusMove DEF ResumeConflict
<1>4. CASE ResumeNothing(w, k)
  <2>1. MarkedOrNot
    BY <1>0, <1>1, <1>2, <1>4, Updated DEF ResumeNothing
  <2>. QED BY <1>0, <1>2, <1>4, <2>1, DoneMoves, StatusMove DEF ResumeNothing
<1>5. CASE MarkApplied(w, k)
  <2>1. c \in Steers \/ (c \in Resumes /\ accepted = c)
    BY <1>0, <1>5, AtPoint DEF MarkApplied, CoOk
  <2>2. MarkedOrNot
    BY <1>0, <1>1, <1>2, <1>5, <2>1, Updated DEF MarkApplied
  <2>3. CoOk([pc |-> "succeeded", cmd |-> c], outcome, accepted)
    BY <1>1, <2>1 DEF CoOk
  <2>. QED BY <1>0, <1>1, <1>2, <1>5, <2>2, <2>3, GotoMoves, StatusMove DEF MarkApplied
<1>6. CASE MarkSucceeded(w, k)
  <2>1. c \in Steers \/ (c \in Resumes /\ accepted = c)
    BY <1>0, <1>6, AtPoint DEF MarkSucceeded, CoOk
  <2>2. MarkedOrNot
    BY <1>0, <1>1, <1>2, <1>6, <2>1, Updated DEF MarkSucceeded
  <2>. QED BY <1>0, <1>2, <1>6, <2>2, DoneMoves, StatusMove DEF MarkSucceeded
<1>. QED BY <1>3, <1>4, <1>5, <1>6

LEMMA ExecutorStep ==
  ASSUME Inv, NEW w \in Worker, ExecutorTerminal(w)
  PROVE  RunStep /\ Inv'
<1>1. Ended /\ RunStep
  BY DEF ExecutorTerminal, Ended, RunStep
<1>2. "exec" \in Coroutine /\ "teardown" \in PC
  BY DEF Coroutine, PC
<1>3. CoOk([pc |-> "teardown", cmd |-> CmdOf(w, "exec")], outcome', accepted')
  BY DEF ExecutorTerminal, CoOk
<1>. QED BY <1>1, <1>2, <1>3, GotoMoves, MoveInv, FaultsStay DEF ExecutorTerminal
-----------------------------------------------------------------------------
(* Requests and frames: the coroutines stay or stop *)

\* A step that leaves the coroutines and what they hold.
LEMMA CoroutinesKept ==
  ASSUME Inv, RunStep, UNCHANGED <<queue, co>>
  PROVE  CoInv' /\ queue' \in [Worker -> Seq(Told')] /\ \A w \in Worker : Holds(w)'
<1>1. CoInv'
  BY CoOkKept DEF Inv, CoInv
<1>2. queue' \in [Worker -> Seq(Told')]
  BY ToldGrows DEF Inv, StreamInv
<1>. QED BY <1>1, <1>2, HoldsKept

LEMMA AdmitStep ==
  ASSUME Inv, NEW c \in Cmd, Admit(c)
  PROVE  RunStep /\ Inv'
<1>1. /\ asked' = [asked EXCEPT ![c] = asked[c] + 1] /\ asked[c] < MaxAsk /\ asked[c] \in 0..MaxAsk
      /\ ledger' = [ledger EXCEPT ![c] = IF ledger[c] = "none" THEN "admitted" ELSE ledger[c]]
      /\ req' = [req EXCEPT ![c] = IF ledger[c] \in {"none", "admitted", "persisted"}
                                   THEN "publish" ELSE "idle"]
      /\ UNCHANGED <<run, stream, co, torn, faults>>
  BY DEF Admit, Inv, ClientInv
<1>2. ledger \in [Cmd -> Status] /\ "admitted" \in Status
  BY DEF Inv, RunInv, RunTypes, Status
<1>3. RunStep
  <2>1. CASE ledger[c] = "none"
    <3>1. Marked(c, "admitted")
      BY <1>1, <2>1 DEF Marked
    <3>. QED BY <1>2, <3>1 DEF RunStep
  <2>2. CASE ledger[c] # "none"
    BY <1>1, <1>2, <2>2 DEF RunStep
  <2>. QED BY <2>1, <2>2
<1>4. RunInv' /\ CoInv' /\ \A w \in Worker : Holds(w)'
  BY <1>1, <1>3, RunStepInv, CoroutinesKept DEF Inv, stream
<1>5. StreamInv'
  BY <1>1, <1>3, <1>4, ToldGrows DEF Inv, StreamInv, stream
<1>6. ClientInv'
  <2>1. \A d \in Cmd : ledger'[d] = "none" => ledger[d] = "none"
    BY <1>3, RunStepForward DEF Inv
  <2>2. ledger'[c] # "none"
    BY <1>1, <1>2
  <2>3. req' \in [Cmd -> {"idle", "publish", "fail"}] /\ asked' \in [Cmd -> 0..MaxAsk]
    BY <1>1 DEF Inv, ClientInv
  <2>4. ASSUME NEW d \in Cmd, req'[d] # "idle" PROVE asked'[d] > 0 /\ ledger'[d] # "none"
    BY <1>1, <2>1, <2>2, <2>4 DEF Inv, ClientInv
  <2>. QED BY <1>1, <2>3, <2>4 DEF Inv, ClientInv, stream
<1>7. FrameSurvives'
  <2>1. ASSUME NEW d \in Cmd, Open', ledger'[d] = "admitted", req'[d] = "idle"
        PROVE  \E f \in ToSet(fresh') \cup pel' : f[1] = d
    <3>1. d # c
      BY <1>1, <1>2, <2>1 DEF Inv, ClientInv
    <3>2. ledger[d] = "admitted" /\ req[d] = "idle" /\ Open
      BY <1>1, <1>2, <2>1, <3>1 DEF Inv, ClientInv, run, Open
    <3>. QED BY <1>1, <3>2 DEF Inv, FrameSurvives, stream
  <2>. QED BY <2>1 DEF FrameSurvives
<1>. QED BY <1>3, <1>4, <1>5, <1>6, <1>7 DEF Inv

LEMMA AppendedFrames ==
  ASSUME NEW S, NEW s \in Seq(S), NEW e \in S
  PROVE  Append(s, e) \in Seq(S) /\ ToSet(Append(s, e)) = ToSet(s) \cup {e}
<1>1. /\ Append(s, e) \in Seq(S) /\ Len(Append(s, e)) = Len(s) + 1 /\ Len(s) \in Nat
      /\ \A i \in 1..Len(s) : Append(s, e)[i] = s[i]
      /\ Append(s, e)[Len(s) + 1] = e
  BY AppendProperties
<1>2. DOMAIN s = 1..Len(s) /\ DOMAIN Append(s, e) = 1..(Len(s) + 1)
  BY <1>1
<1>. QED BY <1>1, <1>2 DEF ToSet

LEMMA PublishStep ==
  ASSUME Inv, NEW c \in Cmd, Publish(c)
  PROVE  RunStep /\ Inv'
<1>. DEFINE f == <<c, asked[c]>>
<1>1. /\ req[c] = "publish" /\ UNCHANGED <<run, ledger, asked, group, pel, queue, co, torn>>
      /\ \/ fresh' = Append(fresh, f) /\ req' = [req EXCEPT ![c] = "idle"]
         \/ fresh' \in {Append(fresh, f), fresh} /\ req' = [req EXCEPT ![c] = "fail"]
      /\ faults' \in 0..MaxFault
  BY FaultsStay DEF Publish
<1>2. RunStep
  BY <1>1 DEF RunStep
<1>3. f \in Told /\ f[1] = c
  BY <1>1 DEF Inv, ClientInv, Told, Frame
<1>4. fresh' \in Seq(Told) /\ ToSet(fresh) \subseteq ToSet(fresh')
      /\ (fresh' = Append(fresh, f) => f \in ToSet(fresh'))
  <2>. DEFINE longer == Append(fresh, f)
  <2>1. fresh \in Seq(Told)
    BY DEF Inv, StreamInv
  <2>2. longer \in Seq(Told) /\ ToSet(longer) = ToSet(fresh) \cup {f}
    BY <1>3, <2>1, AppendedFrames
  <2>3. fresh' \in {longer, fresh}
    BY <1>1
  <2>. HIDE DEF longer, f
  <2>4. fresh' \in Seq(Told) /\ ToSet(fresh) \subseteq ToSet(fresh') /\ (fresh' = longer => f \in ToSet(fresh'))
    BY <2>1, <2>2, <2>3
  <2>. QED BY <2>4 DEF longer
<1>5. RunInv' /\ CoInv' /\ queue' \in [Worker -> Seq(Told')] /\ \A w \in Worker : Holds(w)'
  BY <1>1, <1>2, RunStepInv, CoroutinesKept DEF Inv
<1>6. StreamInv'
  BY <1>1, <1>2, <1>4, <1>5, ToldGrows DEF Inv, StreamInv
<1>7. ClientInv'
  <2>1. req' \in [Cmd -> {"idle", "publish", "fail"}]
    BY <1>1 DEF Inv, ClientInv
  <2>2. \A d \in Cmd : req'[d] # "idle" => req[d] # "idle"
    BY <1>1, <2>1 DEF Inv, ClientInv
  <2>. QED BY <1>1, <2>1, <2>2 DEF Inv, ClientInv
<1>8. FrameSurvives'
  <2>1. ASSUME NEW d \in Cmd, Open', ledger'[d] = "admitted", req'[d] = "idle"
        PROVE  \E g \in ToSet(fresh') \cup pel' : g[1] = d
    <3>1. CASE d = c
      <4>1. fresh' = Append(fresh, f)
        BY <1>1, <2>1, <3>1 DEF Inv, ClientInv
      <4>. QED BY <1>3, <1>4, <3>1, <4>1
    <3>2. CASE d # c
      <4>1. Open /\ ledger[d] = "admitted" /\ req[d] = "idle"
        BY <1>1, <2>1, <3>2 DEF Inv, ClientInv, run, Open
      <4>. QED BY <1>1, <1>4, <4>1 DEF Inv, FrameSurvives
    <3>. QED BY <3>1, <3>2
  <2>. QED BY <2>1 DEF FrameSurvives
<1>. QED BY <1>2, <1>5, <1>6, <1>7, <1>8 DEF Inv

LEMMA PublishFailedStep ==
  ASSUME Inv, NEW c \in Cmd, PublishFailed(c)
  PROVE  RunStep /\ Inv'
<1>1. /\ req' = [req EXCEPT ![c] = "idle"]
      /\ UNCHANGED <<run, asked, stream, co, torn, faults>>
      /\ ledger' = IF Open /\ ledger[c] \in {"admitted", "persisted", "applied"}
                   THEN [ledger EXCEPT ![c] = "failed"] ELSE ledger
  BY DEF PublishFailed, UpdateCommand
<1>2. RunStep
  <2>1. UNCHANGED ledger \/ Marked(c, "failed")
    BY <1>1 DEF Marked
  <2>2. "failed" \in Status
    BY DEF Status
  <2>. QED BY <1>1, <2>1, <2>2 DEF RunStep
<1>3. RunInv' /\ CoInv' /\ \A w \in Worker : Holds(w)'
  BY <1>1, <1>2, RunStepInv, CoroutinesKept DEF Inv, stream
<1>4. StreamInv'
  BY <1>1, <1>2, <1>3, ToldGrows DEF Inv, StreamInv, stream
<1>5. ClientInv'
  <2>1. \A d \in Cmd : ledger'[d] = "none" => ledger[d] = "none"
    BY <1>2, RunStepForward DEF Inv
  <2>2. req' \in [Cmd -> {"idle", "publish", "fail"}]
    BY <1>1 DEF Inv, ClientInv
  <2>3. \A d \in Cmd : req'[d] # "idle" => req[d] # "idle"
    BY <1>1, <2>2 DEF Inv, ClientInv
  <2>. QED BY <1>1, <2>1, <2>2, <2>3 DEF Inv, ClientInv, stream
<1>6. FrameSurvives'
  <2>1. ASSUME NEW d \in Cmd, Open', ledger'[d] = "admitted", req'[d] = "idle"
        PROVE  \E g \in ToSet(fresh') \cup pel' : g[1] = d
    <3>1. Open /\ d # c
      BY <1>1, <2>1 DEF Inv, RunInv, RunTypes, run, Open
    <3>2. ledger[d] = "admitted" /\ req[d] = "idle"
      BY <1>1, <2>1, <3>1 DEF Inv, ClientInv, RunInv, RunTypes
    <3>. QED BY <1>1, <3>1, <3>2 DEF Inv, FrameSurvives, stream
  <2>. QED BY <2>1 DEF FrameSurvives
<1>. QED BY <1>2, <1>3, <1>4, <1>5, <1>6 DEF Inv
LEMMA FramesFinite ==
  ASSUME NEW S, NEW s \in Seq(S)
  PROVE  IsFiniteSet(ToSet(s)) /\ ToSet(s) \subseteq S
<1>1. DOMAIN s = 1..Len(s) /\ Len(s) \in Nat /\ s \in [1..Len(s) -> S]
  BY LenProperties
<1>2. IsFiniteSet(1..Len(s))
  BY <1>1, FS_Interval
<1>3. IsFiniteSet({s[i] : i \in 1..Len(s)})
  <2>. DEFINE R == {s[i] : i \in 1..Len(s)}
  <2>1. s \in Surjection(1..Len(s), R)
    BY <1>1 DEF Surjection
  <2>. QED BY <1>2, <2>1, FS_Surjection DEF ExistsSurjection
<1>. QED BY <1>1, <1>3 DEF ToSet

LEMMA ReadStep ==
  ASSUME Inv, NEW w \in Worker, Read(w)
  PROVE  RunStep /\ Inv'
<1>1. /\ Reading(w) /\ queue' = [queue EXCEPT ![w] = fresh] /\ pel' = pel \cup ToSet(fresh)
      /\ fresh' = <<>> /\ UNCHANGED <<run, ledger, client, group, co, torn, faults>>
  BY DEF Read
<1>2. RunStep
  BY <1>1 DEF RunStep
<1>3. RunInv' /\ CoInv'
  BY <1>1, <1>2, RunStepInv, CoOkKept DEF Inv, CoInv
<1>4. ClientInv'
  BY <1>1, <1>2, ClientKept DEF client, Inv, ClientInv
<1>5. Told' = Told
  BY <1>1 DEF Told
<1>6. IsFiniteSet(ToSet(fresh)) /\ ToSet(fresh) \subseteq Told
  BY FramesFinite DEF Inv, StreamInv
<1>7. IsFiniteSet(pel \cup ToSet(fresh))
  BY <1>6, FS_Union DEF Inv, StreamInv
<1>8. ASSUME NEW v \in Worker PROVE Holds(v)'
  <2>1. CASE v = w
    BY <1>1, <2>1 DEF Reading, At, Holds
  <2>2. CASE v # w
    BY <1>1, <1>2, <2>2, HoldsKept DEF Inv, StreamInv
  <2>. QED BY <2>1, <2>2
<1>9. StreamInv'
  BY <1>1, <1>5, <1>6, <1>7, <1>8 DEF Inv, StreamInv
<1>10. FrameSurvives'
  BY <1>1 DEF Inv, FrameSurvives, client, run, Open
<1>. QED BY <1>2, <1>3, <1>4, <1>9, <1>10 DEF Inv

LEMMA AutoClaimStep ==
  ASSUME Inv, NEW w \in Worker, AutoClaim(w)
  PROVE  RunStep /\ Inv'
<1>1. Reading(w) /\ UNCHANGED <<run, ledger, client, group, fresh, pel, co, torn, faults>>
  BY DEF AutoClaim
<1>0. PICK old \in SUBSET pel : \E frames \in SetToSeqs(old) : queue' = [queue EXCEPT ![w] = frames]
  BY DEF AutoClaim
<1>2. PICK frames \in SetToSeqs(old) : queue' = [queue EXCEPT ![w] = frames]
  BY <1>0
<1>3. RunStep
  BY <1>1 DEF RunStep
<1>4. RunInv' /\ CoInv'
  BY <1>1, <1>3, RunStepInv, CoOkKept DEF Inv, CoInv
<1>5. ClientInv'
  BY <1>1, <1>3, ClientKept DEF client, Inv, ClientInv
<1>6. Told' = Told
  BY <1>1 DEF Told
<1>7. frames \in Seq(Told)
  <2>1. old \subseteq Told /\ IsFiniteSet(old)
    BY FS_Subset DEF Inv, StreamInv
  <2>2. Cardinality(old) \in Nat
    BY <2>1, FS_CardinalityType
  <2>3. frames \in [1..Cardinality(old) -> Told]
    BY <2>1 DEF SetToSeqs
  <2>. QED BY <2>2, <2>3
<1>8. ASSUME NEW v \in Worker PROVE Holds(v)'
  <2>1. CASE v = w
    BY <1>1, <2>1 DEF Reading, At, Holds
  <2>2. CASE v # w
    BY <1>1, <1>2, <1>3, <2>2, HoldsKept DEF Inv, StreamInv
  <2>. QED BY <2>1, <2>2
<1>9. StreamInv'
  BY <1>1, <1>2, <1>6, <1>7, <1>8 DEF Inv, StreamInv
<1>10. FrameSurvives'
  BY <1>1, <1>3, FramesKept DEF client
<1>. QED BY <1>3, <1>4, <1>5, <1>9, <1>10 DEF Inv

\* The acknowledged frame is of a command that waits for no delivery.
LEMMA AckStep ==
  ASSUME Inv, NEW w \in Worker, Ack(w)
  PROVE  RunStep /\ Inv'
<1>. DEFINE h == Head(queue[w])
            q == Tail(queue[w])
<1>1. /\ At(w, "lst", "ack") \/ At(w, "lst", "drop")
      /\ pel' = pel \ {h} /\ queue' = [queue EXCEPT ![w] = q]
      /\ UNCHANGED <<run, ledger, client, group, fresh, torn, faults>>
  BY DEF Ack
<1>2. Holds(w) /\ queue[w] # <<>> /\ (Open => ledger[h[1]] # "admitted")
  BY <1>1 DEF Inv, StreamInv, Holds, At
<1>3. q \in Seq(Told)
  BY <1>2, HeadIsTold
<1>4. RunStep
  BY <1>1 DEF RunStep
<1>5. RunInv' /\ ClientInv'
  BY <1>1, <1>4, RunStepInv, ClientKept DEF client, Inv, ClientInv
<1>6. Told' = Told
  BY <1>1 DEF Told
<1>7. PICK p \in {"apply", "idle"}, c \in Cmd \cup {"none"} :
        Moved(w, "lst", p, c) /\ CoOk([pc |-> p, cmd |-> c], outcome', accepted')
  <2>1. "lst" \in Coroutine /\ {"ack", "apply"} \subseteq PC
    BY DEF Coroutine, PC
  <2>2. CASE At(w, "lst", "ack") /\ Goto(w, "lst", "apply")
    <3>1. CmdOf(w, "lst") \in Cmd
      BY <2>1, <2>2, AtPoint
    <3>2. CoOk([pc |-> "apply", cmd |-> CmdOf(w, "lst")], outcome', accepted')
      BY <3>1 DEF CoOk
    <3>. QED BY <2>1, <2>2, <3>1, <3>2, GotoMoves
  <2>3. CASE Done(w, "lst")
    <3>1. CoOk([pc |-> "idle", cmd |-> "none"], outcome', accepted')
      BY DEF CoOk
    <3>. QED BY <2>3, <3>1, DoneMoves
  <2>. QED BY <2>2, <2>3 DEF Ack
<1>8. /\ co' \in [Worker -> [Coroutine -> CoState]]
      /\ co'[w]["lst"] = [pc |-> p, cmd |-> c]
      /\ \A v \in Worker, j \in Coroutine : v # w \/ j # "lst" => co'[v][j] = co[v][j]
      /\ "lst" \in Coroutine
  <2>1. p \in PC /\ "lst" \in Coroutine
    BY DEF PC, Coroutine
  <2>. QED BY <1>7, <2>1, MovedCo
<1>9. CoInv'
  BY <1>4, <1>7, <1>8, CoOkKept DEF CoInv
<1>. HIDE DEF h, q
<1>10. ASSUME NEW v \in Worker PROVE Holds(v)'
  <2>1. CASE v = w
    BY <1>8, <2>1 DEF Holds
  <2>2. CASE v # w
    BY <1>1, <1>4, <1>8, <2>2, HoldsKept DEF Inv, StreamInv
  <2>. QED BY <2>1, <2>2
<1>11. StreamInv'
  <2>1. IsFiniteSet(pel')
    BY <1>1, FS_Subset DEF Inv, StreamInv
  <2>. QED BY <1>1, <1>3, <1>6, <1>10, <2>1 DEF Inv, StreamInv
<1>12. FrameSurvives'
  BY <1>1, <1>2 DEF Inv, FrameSurvives, client, run, Open
<1>. QED BY <1>4, <1>5, <1>9, <1>11, <1>12 DEF Inv

LEMMA GroupMissingStep ==
  ASSUME Inv, NEW w \in Worker, GroupMissing(w)
  PROVE  RunStep /\ Inv'
<1>1. /\ Reading(w) /\ UNCHANGED <<run, ledger, client, fresh, pel, queue, torn, faults>>
      /\ \/ group' = TRUE /\ UNCHANGED co
         \/ co' = [co EXCEPT ![w]["lst"] = Off] /\ UNCHANGED group
  BY DEF GroupMissing
<1>2. RunStep
  BY <1>1 DEF RunStep
<1>3. CASE group' = TRUE /\ UNCHANGED co
  <2>1. RunInv' /\ ClientInv'
    BY <1>1, <1>2, <1>3, RunStepInv, ClientKept DEF client, Inv, ClientInv
  <2>2. CoInv' /\ StreamInv'
    BY <1>1, <1>2, <1>3, CoroutinesKept, ToldGrows DEF Inv, StreamInv
  <2>3. FrameSurvives'
    BY <1>1, <1>2, FramesKept DEF client
  <2>. QED BY <1>2, <2>1, <2>2, <2>3 DEF Inv
<1>4. CASE co' = [co EXCEPT ![w]["lst"] = Off] /\ UNCHANGED group
  <2>1. Moved(w, "lst", "off", "none") /\ CoOk([pc |-> "off", cmd |-> "none"], outcome', accepted')
    BY <1>4 DEF Moved, Off, CoOk
  <2>2. queue[w] = <<>> /\ "off" \in PC /\ "lst" \in Coroutine
    BY <1>1 DEF Reading, PC, Coroutine
  <2>3. UNCHANGED <<client, stream, torn>> /\ faults' \in 0..MaxFault
    BY <1>1, <1>4, FaultsStay DEF stream
  <2>. QED BY <1>1, <1>2, <2>1, <2>2, <2>3, MoveInv
<1>. QED BY <1>1, <1>2, <1>3, <1>4

-----------------------------------------------------------------------------
(* A worker stops listening: the loss of the lease, a crash, a teardown *)

LEMMA StopInv ==
  ASSUME Inv, NEW w \in Worker, NEW s \in [Coroutine -> CoState],
         co' = [co EXCEPT ![w] = s], s["lst"] = Off,
         \A k \in Coroutine : s[k] \in {Off, Idle, co[w][k]},
         queue' = [queue EXCEPT ![w] = <<>>], UNCHANGED <<run, ledger, client>>,
         faults' \in 0..MaxFault, torn' \in BOOLEAN, group' \in BOOLEAN,
         UNCHANGED <<fresh, pel>> \/ (~Open /\ fresh' = <<>> /\ pel' = {})
  PROVE  RunStep /\ Inv'
<1>1. RunStep
  BY DEF RunStep
<1>2. RunInv' /\ ClientInv'
  BY <1>1, RunStepInv, ClientKept DEF Inv, client
<1>3. Told' = Told /\ Open' = Open /\ "lst" \in Coroutine
  BY DEF Told, Open, run, Coroutine
<1>4. CoInv'
  <2>1. CoOk(Off, outcome', accepted') /\ CoOk(Idle, outcome', accepted')
    BY DEF CoOk, Off, Idle
  <2>2. co' \in [Worker -> [Coroutine -> CoState]]
    BY DEF Inv, CoInv
  <2>3. ASSUME NEW v \in Worker, NEW k \in Coroutine
        PROVE  co'[v][k] \in {Off, Idle, co[v][k]}
    <3>1. co'[v] = IF v = w THEN s ELSE co[v]
      BY DEF Inv, CoInv
    <3>. QED BY <3>1
  <2>4. ASSUME NEW v \in Worker, NEW k \in Coroutine
        PROVE  CoOk(co'[v][k], outcome', accepted')
    BY <1>1, <2>1, <2>3, CoOkKept
  <2>. QED BY <2>2, <2>4 DEF CoInv
<1>5. ASSUME NEW v \in Worker PROVE Holds(v)'
  <2>1. CASE v = w
    <3>1. co'[v]["lst"] = Off /\ queue'[v] = <<>>
      BY <2>1 DEF Inv, CoInv, StreamInv
    <3>. QED BY <3>1 DEF Holds, Off
  <2>2. CASE v # w
    <3>1. co'[v]["lst"] = co[v]["lst"] /\ queue'[v] = queue[v]
      BY <2>2 DEF Inv, CoInv, StreamInv
    <3>. QED BY <1>1, <3>1, HoldsKept
  <2>. QED BY <2>1, <2>2
<1>6. StreamInv'
  <2>1. <<>> \in Seq(Told) /\ IsFiniteSet({})
    BY FS_EmptySet
  <2>. QED BY <1>3, <1>5, <2>1 DEF Inv, StreamInv
<1>7. FrameSurvives'
  <2>1. CASE UNCHANGED <<fresh, pel>>
    BY <1>1, <2>1, FramesKept DEF client
  <2>2. CASE ~Open
    BY <1>3, <2>2 DEF FrameSurvives
  <2>. QED BY <2>1, <2>2
<1>. QED BY <1>1, <1>2, <1>4, <1>6, <1>7 DEF Inv

LEMMA StopStep ==
  ASSUME Inv, NEW w \in Worker,
         Unlisten(w) \/ Crash(w) \/ \E k \in Coroutine : Teardown(w, k)
  PROVE  RunStep /\ Inv'
<1>1. co[w] \in [Coroutine -> CoState] /\ {Off, Idle} \subseteq CoState
      /\ group \in BOOLEAN /\ torn \in BOOLEAN /\ "lst" \in Coroutine
  BY DEF Inv, CoInv, ClientInv, CoState, Off, Idle, PC, Coroutine
<1>2. CASE Unlisten(w)
  <2>. DEFINE s == [co[w] EXCEPT !["lst"] = Off]
  <2>1. s \in [Coroutine -> CoState] /\ s["lst"] = Off
        /\ \A k \in Coroutine : s[k] \in {Off, Idle, co[w][k]}
    BY <1>1
  <2>2. co' = [co EXCEPT ![w] = s] /\ faults' \in 0..MaxFault
    BY <1>2, FaultsStay DEF Unlisten
  <2>. HIDE DEF s
  <2>. QED BY <1>1, <1>2, <2>1, <2>2, StopInv DEF Unlisten
<1>3. CASE Crash(w)
  <2>. DEFINE s == [k \in Coroutine |-> IF k = "lst" THEN Off ELSE Idle]
  <2>1. s \in [Coroutine -> CoState] /\ s["lst"] = Off
        /\ \A k \in Coroutine : s[k] \in {Off, Idle, co[w][k]}
    BY <1>1
  <2>2. co' = [co EXCEPT ![w] = s] /\ faults' \in 0..MaxFault
    BY <1>3, FaultsStay DEF Crash
  <2>. HIDE DEF s
  <2>. QED BY <1>1, <1>3, <2>1, <2>2, StopInv DEF Crash
<1>4. ASSUME NEW k \in Coroutine, Teardown(w, k) PROVE RunStep /\ Inv'
  <2>. DEFINE s == [j \in Coroutine |-> CASE j = "lst" -> Off
                                          [] j = k /\ k # "lst" -> Idle
                                          [] OTHER -> co[w][j]]
  <2>1. s \in [Coroutine -> CoState] /\ s["lst"] = Off
        /\ \A j \in Coroutine : s[j] \in {Off, Idle, co[w][j]}
    BY <1>1
  <2>2. co' = [co EXCEPT ![w] = s] /\ faults' \in 0..MaxFault
    BY <1>4, FaultsStay DEF Teardown
  <2>3. ~Open
    BY <1>4, AtPoint DEF Teardown, PC, CoOk, Open
  <2>4. torn' \in BOOLEAN /\ group' \in BOOLEAN
    BY <1>4 DEF Teardown
  <2>. HIDE DEF s
  <2>. QED BY <1>4, <2>1, <2>2, <2>3, <2>4, StopInv DEF Teardown
<1>. QED BY <1>2, <1>3, <1>4

-----------------------------------------------------------------------------
(* Every step *)

LEMMA ApplyStep ==
  ASSUME Inv, NEW w \in Worker, NEW k \in Coroutine, Apply(w, k)
  PROVE  RunStep /\ Inv'
<1>1. CASE SteerRead(w, k) \/ SteerInsert(w, k)
  BY <1>1, SteerStep
<1>2. CASE CancelDeferred(w, k) \/ CancelCommit(w, k) \/ CancelLost(w, k)
  BY <1>2, CancelStep
<1>3. CASE Supersede(w, k)
  BY <1>3, SupersedeStep
<1>4. CASE ResumeCheck(w, k) \/ ResumeAccept(w, k) \/ ResumeContext(w, k)
  BY <1>4, ResumeStep
<1>5. CASE ResumeConflict(w, k) \/ ResumeNothing(w, k) \/ MarkApplied(w, k) \/ MarkSucceeded(w, k)
  BY <1>5, ReceiptStep
<1>6. CASE Teardown(w, k)
  BY <1>6, StopStep
<1>. QED BY <1>1, <1>2, <1>3, <1>4, <1>5, <1>6 DEF Apply

LEMMA NextStep ==
  ASSUME Inv, Next
  PROVE  RunStep /\ Inv'
<1>1. CASE Quiet
  <2>1. UNCHANGED vars
    BY <1>1 DEF Quiet
  <2>2. RunStep
    BY <2>1 DEF RunStep, vars, run
  <2>3. RunInv' /\ ClientInv' /\ CoInv'
    BY <2>1 DEF vars, Inv, RunInv, RunTypes, CommandsAreTrue, ClientInv, CoInv
  <2>4. FrameSurvives'
    BY <2>1 DEF vars, Inv, FrameSurvives, Open
  <2>5. StreamInv'
    BY <2>1 DEF vars, Inv, StreamInv, Told, Holds, Open
  <2>. QED BY <2>2, <2>3, <2>4, <2>5 DEF Inv
<1>2. ASSUME NEW c \in Cmd, Ingress(c) PROVE RunStep /\ Inv'
  BY <1>2, AdmitStep, PublishStep, PublishFailedStep DEF Ingress
<1>3. ASSUME NEW w \in Worker, Deliver(w) PROVE RunStep /\ Inv'
  BY <1>3, GroupMissingStep, ReadStep, AutoClaimStep, RecordStep, AckStep DEF Deliver
<1>4. ASSUME NEW w \in Worker, Listen(w) \/ Heartbeat(w) \/ ExecutorTerminal(w)
      PROVE  RunStep /\ Inv'
  BY <1>4, ListenStep, HeartbeatStep, ExecutorStep
<1>5. ASSUME NEW w \in Worker, Unlisten(w) \/ Crash(w) PROVE RunStep /\ Inv'
  BY <1>5, StopStep
<1>6. ASSUME NEW w \in Worker, NEW k \in Coroutine, Apply(w, k) PROVE RunStep /\ Inv'
  BY <1>6, ApplyStep
<1>. QED BY <1>1, <1>2, <1>3, <1>4, <1>5, <1>6 DEF Next

LEMMA StutterInv ==
  ASSUME Inv, UNCHANGED vars
  PROVE  Inv'
<1>1. RunInv' /\ ClientInv' /\ CoInv'
  BY DEF vars, Inv, RunInv, RunTypes, CommandsAreTrue, ClientInv, CoInv
<1>2. FrameSurvives'
  BY DEF vars, Inv, FrameSurvives, Open
<1>3. StreamInv'
  BY DEF vars, Inv, StreamInv, Told, Holds, Open
<1>. QED BY <1>1, <1>2, <1>3 DEF Inv

LEMMA LedgerInvariant == Spec => []Inv
<1>1. Inv /\ [Next]_vars => Inv'
  BY NextStep, StutterInv
<1>. QED BY <1>1, InvInit, PTL DEF Spec

-----------------------------------------------------------------------------
(* The theorems *)

\* Every variable of the control ledger keeps its type.
THEOREM TypeCorrect == Spec => []TypeOK
<1>1. Inv => TypeOK
  BY InvSays
<1>. QED BY <1>1, LedgerInvariant, PTL

\* Whatever races a cancel, its receipt says succeeded exactly when it decided the
\* outcome of the run.
THEOREM CancelDecides == Spec => []CancelDecidesOutcome
<1>1. Inv => CancelDecidesOutcome
  BY InvSays
<1>. QED BY <1>1, LedgerInvariant, PTL

\* However often a command is delivered, listed and applied, it takes effect once.
THEOREM EffectOnce == Spec => []OneEffect
<1>1. Inv => OneEffect
  BY InvSays
<1>. QED BY <1>1, LedgerInvariant, PTL

\* A success told to the client of a cancel or a resume is a real one, and one
\* resume wins the pause.
THEOREM SuccessIsReal == Spec => []SucceededIsReal
<1>1. Inv => SucceededIsReal
  BY InvSays
<1>. QED BY <1>1, LedgerInvariant, PTL

\* No crash, exception or lost lease between the read, the record and the
\* acknowledgement of a frame loses an admitted command.
THEOREM NoFrameLost == Spec => []FrameSurvives
<1>1. Inv => FrameSurvives
  BY DEF Inv
<1>. QED BY <1>1, LedgerInvariant, PTL

\* The final status of a command is written once.
THEOREM FinalStays == Spec => FinalIsStable
<1>1. Inv /\ [Next]_vars
      => [\A c \in Cmd : ledger[c] \in {"succeeded", "failed", "superseded"} => ledger'[c] = ledger[c]]_vars
  BY NextStep, RunStepForward DEF Inv
<1>. QED BY <1>1, LedgerInvariant, PTL DEF Spec, FinalIsStable
=============================================================================
