---------------------------- MODULE UsageCapture ----------------------------
(***************************************************************************)
(* The observation of token usage in the bytes of one model call             *)
(* (model/usage_observation.py): a capture is entered around an SDK call, the *)
(* HTTP hooks claim its request and tap its response, and on exit the bytes   *)
(* are parsed once. The scope is inherited by tasks and threads, so an SDK     *)
(* retry or another call may reach the same capture.                           *)
(*                                                                             *)
(* A body is a sequence of server-sent events, or one JSON document, read one  *)
(* element at a time; a usage element is its projection digest. Compression    *)
(* and the byte budgets are left out, except that exceeding one aborts.         *)
(***************************************************************************)
EXTENDS Naturals, Sequences, SequencesExt

CONSTANTS
    HttpRequests,  \* physical requests issued while the capture may be active
    Bodies,    \* bodies a provider may send: [streaming, events]
    Unknown

ASSUME UsageAssumption ==
    Unknown \notin Bodies /\ \A b \in Bodies : b.streaming \in BOOLEAN /\ b.events \in Seq(STRING)

VARIABLES
    cap,     \* the capture
    req,     \* requests: whether tapped, their body, how much was read
    result   \* the observation: a usage, pending or unresolved

capVars == <<cap, req, result>>

CapInit ==
    /\ cap = [scope |-> "new", claimed |-> FALSE, response |-> FALSE, streaming |-> FALSE, ended |-> FALSE,
              failed |-> FALSE, misuse |-> FALSE, completed |-> FALSE, buffer |-> <<>>]
    /\ req = [r \in HttpRequests |-> [pc |-> "none", own |-> TRUE, body |-> Unknown, read |-> 0]]
    /\ result = "pending"

Attached == cap.scope # "closed"
Abort(c) == IF Attached THEN [c EXCEPT !.failed = TRUE, !.buffer = <<>>] ELSE c
Ambiguous(c) == [Abort(c) EXCEPT !.misuse = @ \/ Attached]
Req(r, p) == req' = [req EXCEPT ![r].pc = p]

----------------------------------------------------------------------------
EnterCapture == cap.scope = "new" /\ cap' = [cap EXCEPT !.scope = "active"] /\ UNCHANGED <<req, result>>

\* claim_request: a second request, or one of another route, is ambiguous.
Repeated_Fine(r) == FALSE
Repeated(r) == cap.claimed \/ ~req[r].own
ClaimRequest(r) ==
    /\ req[r].pc = "claim"
    /\ cap' = IF ~Attached THEN cap
              ELSE [(IF Repeated(r) THEN Ambiguous(cap) ELSE cap) EXCEPT !.claimed = TRUE]
    /\ Req(r, "sent") /\ UNCHANGED result
\* A request is issued by the SDK call of the scope or by a task that inherited
\* it, for the route of the capture or for another one.
Issue(r) ==
    /\ req[r].pc = "none" /\ cap.scope = "active"
    /\ \E own \in BOOLEAN : req' = [req EXCEPT ![r].pc = "claim", ![r].own = own]
    /\ UNCHANGED <<cap, result>>

\* receive_response: an unusable status, type or encoding aborts.
Respond(r) ==
    /\ req[r].pc = "sent"
    /\ \E b \in Bodies, usable \in BOOLEAN :
         /\ req' = [req EXCEPT ![r].pc = "stream", ![r].body = b]
         /\ LET seen == IF cap.response THEN Ambiguous(cap) ELSE cap
                got == [seen EXCEPT !.response = TRUE, !.streaming = b.streaming]
            IN cap' = IF ~Attached THEN cap ELSE IF usable THEN got ELSE Abort(got)
    /\ UNCHANGED result

\* The tap feeds what the SDK reads; reading may stop early, or the transport
\* fail.  An element beyond the budget aborts.
Feed(r) ==
    /\ req[r].pc = "stream" /\ req[r].read < Len(req[r].body.events)
    /\ req' = [req EXCEPT ![r].read = @ + 1]
    /\ IF Attached /\ ~cap.failed
       THEN cap' \in {[cap EXCEPT !.buffer = Append(@, req[r].body.events[req[r].read + 1])], Abort(cap)}
       ELSE UNCHANGED cap
    /\ UNCHANGED result
EndBody(r) ==
    /\ req[r].pc = "stream" /\ req[r].read = Len(req[r].body.events) /\ Req(r, "ended")
    /\ cap' = IF Attached THEN [cap EXCEPT !.ended = TRUE] ELSE cap
    /\ UNCHANGED result
Interrupted(r) ==
    /\ req[r].pc \in {"sent", "stream"} /\ Req(r, "broken")
    /\ cap' = IF req[r].pc = "stream" THEN Abort(cap) ELSE cap
    /\ UNCHANGED result

\* mark_sdk_consumption_complete, by the owner's task or by another one.
Mark(owner) ==
    /\ Attached /\ cap.scope = "active"
    /\ cap' = IF owner /\ cap.response /\ ~cap.misuse THEN [cap EXCEPT !.completed = TRUE]
              ELSE [Abort(cap) EXCEPT !.misuse = TRUE]
    /\ UNCHANGED <<req, result>>

----------------------------------------------------------------------------
(* The parser, over the whole buffer *)

Usages(seen) == seen \ {"text", "bad", "done"}
\* Everything after [DONE] is drained without being looked at.
Seen(s) == {s[i] : i \in {k \in DOMAIN s : \A j \in 1..(k - 1) : s[j] # "done"}}
TheOnly(S) == IF \E u \in S : S = {u} THEN CHOOSE u \in S : TRUE ELSE "unresolved"
ParseStream(s) ==
    IF "done" \in ToSet(s) /\ "bad" \notin Seen(s) THEN TheOnly(Usages(Seen(s))) ELSE "unresolved"
ParseDocument(s) == IF Len(s) = 1 /\ cap.ended /\ Usages(ToSet(s)) # {} THEN s[1] ELSE "unresolved"
ObserveUsage(s) == IF cap.streaming THEN ParseStream(s) ELSE ParseDocument(s)

Usable(interrupted) == ~interrupted /\ ~cap.failed /\ cap.completed /\ cap.response
Exit ==
    /\ cap.scope = "active"
    /\ \E interrupted \in BOOLEAN :
         result' = IF Usable(interrupted) THEN ObserveUsage(cap.buffer) ELSE "unresolved"
    /\ cap' = [cap EXCEPT !.scope = "closed", !.buffer = <<>>]
    /\ UNCHANGED req

CapNext ==
    \/ EnterCapture \/ Exit \/ (\E owner \in BOOLEAN : Mark(owner))
    \/ \E r \in HttpRequests : Issue(r) \/ ClaimRequest(r) \/ Respond(r) \/ Feed(r) \/ EndBody(r) \/ Interrupted(r)
CapSpec == CapInit /\ [][CapNext]_capVars

----------------------------------------------------------------------------
(* Properties *)

CapTypeOK ==
    /\ cap.scope \in {"new", "active", "closed"}
    /\ req \in [HttpRequests -> [pc : {"none", "claim", "sent", "stream", "ended", "broken"}, own : BOOLEAN,
                             body : Bodies \cup {Unknown}, read : Nat]]

\* A usage is reported only of the one response the call received: one that was
\* claimed for the captured route and read up to the reported usage, whole if it
\* is a document; no part of a retried, foreign, broken or late response is in it.
Read(r) == SubSeq(req[r].body.events, 1, req[r].read)
Tapped == {r \in HttpRequests : req[r].body # Unknown}
UsageIsOfThisCall ==
    result \notin {"pending", "unresolved"} =>
        \E r \in Tapped :
            /\ req[r].own /\ result \in Usages(ToSet(Read(r)))
            /\ req[r].body.streaming => "done" \in ToSet(Read(r)) /\ Usages(Seen(Read(r))) = {result}
            /\ ~req[r].body.streaming => req[r].read = Len(req[r].body.events)
=============================================================================
