------------------------------ MODULE Delivery ------------------------------
(***************************************************************************)
(* One call of the deliver tool: the tool effect journal around it           *)
(* (tools/middleware.py), the delivery client that freezes an intent, uploads *)
(* a file and finalizes an artifact (clients/storage_delivery.py), and the    *)
(* journal row that keeps its stages (postgres_run_effects.py).               *)
(*                                                                            *)
(* Every remote call first checks the lease and lands later: the executor of  *)
(* a lapsed generation may still have one call on the wire while the next     *)
(* one recovers. A call whose answer is lost, and every other retryable       *)
(* error, leaves the row started and ends the invocation; the run is then     *)
(* reclaimed and the tool node replayed. Other errors become the tool result  *)
(* and close the row as failed.                                               *)
(*                                                                            *)
(* Storage is external: its commands are idempotent by command identity.      *)
(***************************************************************************)
EXTENDS Naturals

CONSTANTS
    MaxGen,      \* bound: lease generations, one executor each
    MaxFaults,   \* bound: lost answers, crashes, late renewals, bad references
    MaxEdits     \* bound: changes of the workspace file between attempts

ASSUME DeliveryAssumption == MaxGen \in Nat /\ MaxFaults \in Nat /\ MaxEdits \in Nat

VARIABLES
    lease,       \* current generation and whether it is held
    row,         \* journal row: status, stage of the intent, its digest and version
    file,        \* digest of the workspace file now
    store,       \* Storage: upload, its digest, versions put, the completed one, artifact
    ex,          \* executor of each generation: where it is and what it carries
    faults

deliveryVars == <<lease, row, file, store, ex, faults>>

Gens == 1..MaxGen
None == 0
Infected == MaxEdits + 1  \* the digest whose scan is rejected

DeliveryInit ==
    /\ lease = [gen |-> 1, held |-> TRUE]
    /\ row = [status |-> "none", stage |-> "none", digest |-> None, version |-> None]
    /\ file \in {1, Infected}
    /\ store = [upload |-> "none", digest |-> None, puts |-> 0, version |-> None, artifact |-> "none"]
    /\ ex = [g \in Gens |-> [pc |-> "idle", sent |-> FALSE, digest |-> None, version |-> None]]
    /\ faults = 0

Leads(g) == lease.held /\ lease.gen = g
Fault == faults < MaxFaults /\ faults' = faults + 1
Stands(g, p) == ex[g].pc = p /\ ~ex[g].sent
Moved(g, p) == [ex[g] EXCEPT !.pc = p, !.sent = FALSE]
Moves(g, p) == ex' = [ex EXCEPT ![g] = Moved(g, p)]
Keep == UNCHANGED <<lease, file, faults>>

----------------------------------------------------------------------------
(* The lease and the file *)

\* A dead executor no longer renews; a living one may be late.
Lapse ==
    /\ lease.held /\ lease.gen < MaxGen /\ lease' = [lease EXCEPT !.held = FALSE]
    /\ IF Stands(lease.gen, "dead") THEN UNCHANGED faults ELSE Fault
    /\ UNCHANGED <<row, file, store, ex>>
TakeOver == ~lease.held /\ lease' = [gen |-> lease.gen + 1, held |-> TRUE]
            /\ UNCHANGED <<row, file, store, ex, faults>>
Edit == file < MaxEdits /\ file' = file + 1 /\ UNCHANGED <<lease, row, store, ex, faults>>

----------------------------------------------------------------------------
(* The journal around the call: awrap_tool_call *)

\* The first caller wins the row; a later one replays a decided row, recovers a
\* started one that holds an intent, and answers unknown_outcome otherwise.
RecoversDelivery_Never == FALSE
RecoversDelivery == row.status = "started" /\ row.stage # "none"
Enter(g) ==
    /\ Stands(g, "idle") /\ Leads(g)
    /\ \/ row.status = "none" /\ row' = [row EXCEPT !.status = "started"] /\ Moves(g, "recover")
       \/ RecoversDelivery /\ Moves(g, "recover") /\ UNCHANGED row
       \/ row.status # "none" /\ ~RecoversDelivery /\ Moves(g, "replayed") /\ UNCHANGED row
    /\ Keep /\ UNCHANGED store

\* journal_tool_finished: only the holder, only from started.
MayFinish_Anyone(g) == TRUE
MayFinish(g) == Leads(g)
Finish(g, status) ==
    IF MayFinish(g) /\ row.status = "started"
    THEN row' = [row EXCEPT !.status = status] /\ Moves(g, "done")
    ELSE UNCHANGED row /\ Moves(g, "dead")
Fail(g) == Stands(g, "error") /\ Finish(g, "failed") /\ Keep /\ UNCHANGED store
Succeed(g) == Stands(g, "final") /\ Finish(g, "succeeded") /\ Keep /\ UNCHANGED store

----------------------------------------------------------------------------
(* Remote calls: the lease is read, then the call lands at Storage, and its    *)
(* answer may be lost                                                          *)

Sends == {"status", "recheck", "create", "put", "complete", "resume_complete", "scan", "artifact", "finalize", "check", "abort"}
Send(g) ==
    /\ ex[g].pc \in Sends /\ ~ex[g].sent
    /\ IF Leads(g) THEN ex' = [ex EXCEPT ![g].sent = TRUE] ELSE Moves(g, "error")
    /\ Keep /\ UNCHANGED <<row, store>>
\* The answer arrives and decides the next place, or is lost.
Answer(g, next) ==
    \/ ex' = [ex EXCEPT ![g] = next] /\ UNCHANGED faults
    \/ Fault /\ Moves(g, "dead")
Lands(g, p) == ex[g].pc = p /\ ex[g].sent /\ UNCHANGED <<lease, row, file>>

----------------------------------------------------------------------------
(* recover, then the file, then publish *)

Recover(g) ==
    /\ Stands(g, "recover")
    /\ IF row.stage \in {"none", "frozen"} THEN Moves(g, "read")
       ELSE ex' = [ex EXCEPT ![g] = [pc |-> "status", sent |-> FALSE, digest |-> row.digest, version |-> row.version]]
    /\ Keep /\ UNCHANGED <<row, store>>

\* get_upload_status as recover and publish judge it. In recover a pending
\* upload without a selected version returns to the workspace file.
Status(g) ==
    /\ Lands(g, "status") /\ UNCHANGED store
    /\ Answer(g, Moved(g,
         CASE store.upload = "pending" /\ ex[g].version = None -> "read"
           [] store.upload = "pending" /\ ex[g].version # None -> "resume_complete"
           [] store.upload = "completed" /\ ex[g].version = store.version -> "scan"
           [] OTHER -> "error"))

\* The file is read again; other bytes than the frozen ones are an error. The
\* intent is written back by the holder only, never to an earlier stage.
MayIntend(g) == Leads(g) /\ row.status = "started"
KeepFirst_Overwrites(digest) == TRUE
KeepFirst(digest) == row.digest \in {None, digest}
Freeze(g) ==
    /\ Stands(g, "read")
    /\ \/ ~KeepFirst(file) /\ Moves(g, "error") /\ UNCHANGED row
       \/ KeepFirst(file) /\ ~MayIntend(g) /\ Moves(g, "dead") /\ UNCHANGED row
       \/ /\ KeepFirst(file) /\ MayIntend(g)
          /\ row' = [row EXCEPT !.digest = file, !.stage = IF @ = "none" THEN "frozen" ELSE @]
          /\ ex' = [ex EXCEPT ![g] = [pc |-> IF row.stage = "admitted" THEN "recheck" ELSE "create",
                                      sent |-> FALSE, digest |-> file, version |-> None]]
    /\ Keep /\ UNCHANGED store

\* publish asks the status of an upload it already knows once more.
Recheck(g) ==
    /\ Lands(g, "recheck") /\ UNCHANGED store
    /\ Answer(g, Moved(g, IF store.upload = "pending" THEN "create" ELSE "error"))

\* create_upload is one command for the call and its digest, so a repetition
\* answers the same upload.
Create(g) ==
    /\ Lands(g, "create")
    /\ store' = IF store.upload = "none"
                THEN [store EXCEPT !.upload = "pending", !.digest = ex[g].digest] ELSE store
    /\ Answer(g, Moved(g, "admit"))

\* Keep-first of the upload; a missing or invalid reference is aborted.
Admit(g) ==
    /\ Stands(g, "admit")
    /\ IF MayIntend(g)
       THEN /\ row' = [row EXCEPT !.stage = IF @ = "frozen" THEN "admitted" ELSE @]
            /\ \/ Moves(g, "put") /\ UNCHANGED faults
               \/ Fault /\ Moves(g, "check")
       ELSE Moves(g, "dead") /\ UNCHANGED <<row, faults>>
    /\ UNCHANGED <<lease, file, store>>
Check(g) ==
    /\ Lands(g, "check") /\ UNCHANGED store
    /\ Answer(g, Moved(g, IF store.upload = "pending" THEN "abort" ELSE "error"))
Abort(g) ==
    /\ Lands(g, "abort")
    /\ store' = IF store.upload = "pending" THEN [store EXCEPT !.upload = "aborted"] ELSE store
    /\ Answer(g, Moved(g, "error"))

\* Every put makes a version of the object, even one whose answer is lost.
Put(g) ==
    /\ Lands(g, "put")
    /\ store' = [store EXCEPT !.puts = @ + 1]
    /\ Answer(g, [Moved(g, "select") EXCEPT !.version = store.puts + 1])
Select(g) ==
    /\ Stands(g, "select")
    /\ IF MayIntend(g) /\ row.version \in {None, ex[g].version}
       THEN row' = [row EXCEPT !.stage = "selected", !.version = ex[g].version] /\ Moves(g, "complete")
       ELSE Moves(g, "dead") /\ UNCHANGED row
    /\ Keep /\ UNCHANGED store

\* complete_upload names the version; Storage completes a pending upload once.
Completes(g, p) ==
    /\ Lands(g, p)
    /\ store' = IF store.upload = "pending"
                THEN [store EXCEPT !.upload = "completed", !.version = ex[g].version] ELSE store
    /\ Answer(g, Moved(g, IF store.upload = "pending" \/ (store.upload = "completed" /\ store.version = ex[g].version)
                       THEN "scan" ELSE "error"))
Complete(g) == Completes(g, "complete")
ResumeComplete(g) == Completes(g, "resume_complete")

\* Ten polls of the scan; one that is still pending is a retryable error.
Scan(g) ==
    /\ Lands(g, "scan") /\ UNCHANGED store
    /\ Answer(g, Moved(g, IF store.digest = Infected THEN "error" ELSE "artifact"))
CreateArtifact(g) ==
    /\ Lands(g, "artifact")
    /\ store' = [store EXCEPT !.artifact = IF @ = "none" THEN "created" ELSE @]
    /\ Answer(g, Moved(g, "finalize"))
Finalize(g) ==
    /\ Lands(g, "finalize")
    /\ store' = [store EXCEPT !.artifact = "final"]
    /\ Answer(g, Moved(g, "final"))

Crash(g) ==
    /\ ex[g].pc \notin {"idle", "dead", "done", "replayed"} /\ Fault /\ Moves(g, "dead")
    /\ UNCHANGED <<lease, row, file, store>>

----------------------------------------------------------------------------
Step(g) ==
    \/ Enter(g) \/ Recover(g) \/ Freeze(g) \/ Admit(g) \/ Select(g) \/ Send(g)
    \/ Status(g) \/ Recheck(g) \/ Create(g) \/ Check(g) \/ Abort(g) \/ Put(g) \/ Complete(g) \/ ResumeComplete(g)
    \/ Scan(g) \/ CreateArtifact(g) \/ Finalize(g) \/ Fail(g) \/ Succeed(g)
DeliveryNext ==
    \/ Lapse \/ TakeOver \/ Edit
    \/ \E g \in Gens : Step(g) \/ Crash(g)

\* Fairness: live executors run, and a run whose executor died is reclaimed.
Reclaimed == (~lease.held \/ Stands(lease.gen, "dead")) /\ (Lapse \/ TakeOver)
DeliveryFairness == WF_deliveryVars(Reclaimed) /\ \A g \in Gens : WF_deliveryVars(Step(g))
DeliverySpec == DeliveryInit /\ [][DeliveryNext]_deliveryVars /\ DeliveryFairness

----------------------------------------------------------------------------
(* Properties *)

DeliveryTypeOK ==
    /\ lease \in [gen : Gens, held : BOOLEAN] /\ file \in 1..Infected /\ faults \in 0..MaxFaults
    /\ row \in [status : {"none", "started", "failed", "succeeded"},
                stage : {"none", "frozen", "admitted", "selected"},
                digest : 0..Infected, version : 0..MaxGen]
    /\ store \in [upload : {"none", "pending", "completed", "aborted"}, digest : 0..Infected,
                  puts : 0..MaxGen, version : 0..MaxGen, artifact : {"none", "created", "final"}]

\* The object Storage completed is the version the journal selected, though
\* executors of two generations may both have put bytes; and the artifact is of
\* the bytes the first attempt froze, though the file changed since.
OneVersion ==
    /\ store.version # None => row.stage = "selected" /\ row.version = store.version
    /\ store.artifact = "final" => store.upload = "completed" /\ store.digest = row.digest

\* The tool result the model and the chat are told is what happened: a delivery
\* recorded as succeeded is final, one recorded as failed never becomes final,
\* not even by a call of a dead generation that lands afterwards.
ReportIsTrue ==
    /\ row.status = "succeeded" => store.artifact = "final"
    /\ row.status = "failed" => store.artifact # "final"

\* A delivery with a frozen intent is decided, whatever answers were lost and
\* whichever executors died on the way: its row does not stay started, which
\* would hold back every terminal fact of the run.
DeliveryDecided == (row.status = "started" /\ row.stage # "none") ~> row.status \in {"succeeded", "failed"}
=============================================================================
