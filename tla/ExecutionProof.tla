--------------------------- MODULE ExecutionProof ---------------------------
(***************************************************************************)
(* Proofs of execution for outgoing platform calls: the reader of the current *)
(* lease on a connection of its own (postgres_execution_proof_lease.py) and    *)
(* the policy that signs a short-lived proof from it                           *)
(* (execution_proof_supplier.py), beside the lease it is read from.             *)
(*                                                                              *)
(* Time is in whole seconds of the database; the application clock is off by a  *)
(* constant. The reader's own deadlines may pass at any await; a cancelled      *)
(* driver call may still complete.                                              *)
(***************************************************************************)
EXTENDS Integers, FiniteSets

CONSTANTS
    Issues,    \* calls of ExecutionProofSupplier.issue
    Drift,     \* largest offset of the application clock
    MaxSkew,   \* tolerated offset from the observed database time (5 s)
    Ttl,       \* longest lifetime of a proof (60 s)
    Lease,     \* length of a lease
    Horizon, MaxLeases \* bounds

ASSUME Durations == Lease \in Int /\ Ttl \in Int

VARIABLES
    now,       \* the database clock
    skew,      \* application clock minus database clock
    lease,     \* the claim row: generation, expiry, held, terminal
    released,  \* generations that gave the lease up before its expiry
    issue,     \* calls: the run they were made for, their place, what they observed
    conn,      \* connection of each call: none, opening, open, closing, closed, leaked
    closes,    \* close calls on the connection of each call
    proofs     \* proofs handed out

proofVars == <<now, skew, lease, released, issue, conn, closes, proofs>>
reader == <<issue, conn, closes, proofs>>

ProofInit ==
    /\ now = 0 /\ skew \in -Drift..Drift
    /\ lease = [gen |-> 1, expires |-> Lease, held |-> TRUE, terminal |-> FALSE]
    /\ released = {}
    /\ issue = [i \in Issues |-> [pc |-> "idle", gen |-> 0, seen |-> 0, expires |-> 0, ok |-> TRUE]]
    /\ conn = [i \in Issues |-> "none"] /\ closes = [i \in Issues |-> 0]
    /\ proofs = {}

----------------------------------------------------------------------------
(* The lease *)

Live == lease.held /\ ~lease.terminal /\ lease.expires > now
Elapse == now < Horizon /\ now' = now + 1 /\ UNCHANGED <<skew, lease, released, reader>>
Renew == Live /\ lease' = [lease EXCEPT !.expires = now + Lease] /\ UNCHANGED <<now, skew, released, reader>>
\* The run pauses, or ends, while its lease is still valid.
GiveUp ==
    /\ Live /\ released' = released \cup {lease.gen}
    /\ \E ends \in BOOLEAN : lease' = [lease EXCEPT !.held = FALSE, !.terminal = ends]
    /\ UNCHANGED <<now, skew, reader>>
\* A later start, resume or reclaim once nobody holds the lease.
Succeed ==
    /\ ~Live /\ ~lease.terminal /\ lease.gen < MaxLeases
    /\ lease' = [lease EXCEPT !.gen = @ + 1, !.expires = now + Lease, !.held = TRUE]
    /\ UNCHANGED <<now, skew, released, reader>>

----------------------------------------------------------------------------
(* observe_current_lease *)

Goes(i, p) == issue' = [issue EXCEPT ![i].pc = p]
Fails(i, p) == issue' = [issue EXCEPT ![i].pc = p, ![i].ok = FALSE]
Conn(i, s) == conn' = [conn EXCEPT ![i] = s]

\* The supplier is bound to the lease its run was started under.
Call(i) ==
    /\ issue[i].pc = "idle" /\ \E g \in 1..lease.gen : issue' = [issue EXCEPT ![i].pc = "connect", ![i].gen = g]
    /\ Conn(i, "opening")
    /\ UNCHANGED <<now, skew, lease, released, closes, proofs>>
Connected(i) ==
    /\ issue[i].pc = "connect" /\ Conn(i, "open") /\ Goes(i, "query")
    /\ UNCHANGED <<now, skew, lease, released, closes, proofs>>
\* One statement compares the row with its own clock.
Current(i) == Live /\ lease.gen = issue[i].gen
Query(i) ==
    /\ issue[i].pc = "query"
    /\ IF Current(i)
       THEN issue' = [issue EXCEPT ![i].pc = "cleanup", ![i].seen = now, ![i].expires = lease.expires]
       ELSE Fails(i, "cleanup")
    /\ UNCHANGED <<now, skew, lease, released, conn, closes, proofs>>
\* The work deadline, a cancellation or an error at an await.
Interrupt(i) ==
    /\ issue[i].pc \in {"connect", "query"} /\ Fails(i, "cleanup")
    /\ conn' \in {conn} \cup (IF issue[i].pc = "connect" THEN {[conn EXCEPT ![i] = "none"]} ELSE {})
    /\ UNCHANGED <<now, skew, lease, released, closes, proofs>>

\* _cleanup: a connection still being opened is cancelled and collected, and is
\* closed if it arrived anyway; an open one is closed, once.
Collects_Drops(i) == conn[i] = "opening" /\ Conn(i, "leaked") /\ Goes(i, "return") /\ UNCHANGED closes
Collects(i) ==
    /\ conn[i] = "opening"
    /\ \/ Conn(i, "none") /\ Goes(i, "return")
       \/ Conn(i, "open") /\ UNCHANGED issue
    /\ UNCHANGED closes
Closes(i) ==
    /\ conn[i] = "open" /\ Conn(i, "closing") /\ closes' = [closes EXCEPT ![i] = @ + 1]
    /\ UNCHANGED issue
\* A close that is too slow is cancelled, one that fails is not repeated.
EndClose(i) ==
    /\ conn[i] = "closing" /\ Conn(i, "closed")
    /\ Goes(i, "return") \/ Fails(i, "return")
    /\ UNCHANGED closes
Cleanup(i) ==
    /\ issue[i].pc = "cleanup"
    /\ \/ Collects(i) \/ Closes(i) \/ EndClose(i)
       \/ conn[i] = "none" /\ Goes(i, "return") /\ UNCHANGED <<conn, closes>>
    /\ UNCHANGED <<now, skew, lease, released, proofs>>

----------------------------------------------------------------------------
(* issue *)

AppNow == now + skew
Lesser(a, b) == IF a < b THEN a ELSE b
Expiry_Ttl(i) == AppNow + Ttl
Expiry(i) == Lesser(AppNow + Ttl, issue[i].expires)
Signable(i) ==
    /\ issue[i].ok
    /\ AppNow - issue[i].seen \in -MaxSkew..MaxSkew
    /\ AppNow >= 0 /\ Expiry(i) - AppNow >= 1 /\ Expiry(i) - issue[i].seen >= 1
Sign(i) ==
    /\ issue[i].pc = "return" /\ Goes(i, "done")
    /\ proofs' = IF Signable(i) THEN proofs \cup {[gen |-> issue[i].gen, iat |-> AppNow, exp |-> Expiry(i)]} ELSE proofs
    /\ UNCHANGED <<now, skew, lease, released, conn, closes>>

ProofNext ==
    \/ Elapse \/ Renew \/ GiveUp \/ Succeed
    \/ \E i \in Issues : Call(i) \/ Connected(i) \/ Query(i) \/ Interrupt(i) \/ Cleanup(i) \/ Sign(i)
ProofSpec == ProofInit /\ [][ProofNext]_proofVars

----------------------------------------------------------------------------
(* Properties *)

ProofTypeOK ==
    /\ now \in 0..Horizon /\ skew \in -Drift..Drift /\ released \subseteq 1..MaxLeases
    /\ lease.gen \in 1..MaxLeases /\ lease.expires \in 0..(Horizon + Lease)
    /\ conn \in [Issues -> {"none", "opening", "open", "closing", "closed", "leaked"}]
    /\ closes \in [Issues -> Nat]
    /\ \A i \in Issues : issue[i].pc \in {"idle", "connect", "query", "cleanup", "return", "done"}

\* By the database clock a proof is never valid once a later generation took the
\* run over from an expired lease, whatever the application clock, and however
\* long the reading and the signing took. A lease that was given up early is the
\* exception: its proofs run out by themselves.
ProofEndsWithLease ==
    \A p \in proofs : p.gen < lease.gen /\ p.gen \notin released => p.exp <= now

\* When the reader returns, its connection has been closed, exactly once, or was
\* never opened, even if it arrived after the deadline or the cancellation.
ReaderLeavesNothing ==
    \A i \in Issues : issue[i].pc \in {"return", "done"} =>
        conn[i] \in {"none", "closed"} /\ closes[i] = (IF conn[i] = "closed" THEN 1 ELSE 0)
=============================================================================
