----------------------------- MODULE ModelCalls -----------------------------
(***************************************************************************)
(* The durable attempts of model calls and their usage evidence             *)
(* (postgres_model_call_repository.py, postgres_model_call_evidence.py):     *)
(* prepare, authorization, the dispatch permit, sealed evidence revisions,    *)
(* the counters of the claim row, and the closure of open attempts by the     *)
(* terminal commit of the run.                                                *)
(*                                                                            *)
(* Each operation is one transaction under the row lock of the run. A command *)
(* carries the generation its caller believes in; callers of superseded       *)
(* generations keep calling. A replay that only answers the stored receipt    *)
(* changes nothing and is left out.                                           *)
(***************************************************************************)
EXTENDS Naturals, Sequences, FiniteSets, SequencesExt

CONSTANTS
    Attempts,  \* attempt ids of the run
    MaxGen,    \* bound: lease generations
    MaxRev     \* bound: evidence revisions of an attempt

VARIABLES
    claim,     \* the claim row: generation, held lease, terminal, its counters
    att,       \* attempt rows
    evidence,  \* sealed evidence revisions of each attempt
    permits,   \* attempts whose caller holds a newly started permit
    called     \* how often the provider was called for an attempt

callVars == <<claim, att, evidence, permits, called>>

Absent == [status |-> "absent", auth |-> "none", gen |-> 0, dispatched |-> FALSE]

\* Usage is unresolved, or normalized with an unknown or partial classification;
\* the evidence table refuses a classification of an unknown outcome.
Facts == {f \in [outcome : {"unknown", "completed", "failed"}, usage : {"unresolved", "unknown", "partial"}] :
            f.outcome = "unknown" => f.usage # "partial"}
Closure(outcome) == [outcome |-> outcome, usage |-> "unresolved"]

----------------------------------------------------------------------------
(* Counters of the claim row *)

Prepared(at) == {a \in Attempts : at[a].status # "absent"}
Sealed(at, ev) == {a \in Prepared(at) : ev[a] # <<>>}

\* The completeness of the run's usage is read from the head of each attempt.
Recount(at, ev) ==
    LET head(a) == Last(ev[a])
        did == {a \in Sealed(at, ev) : head(a).outcome # "not_dispatched"}
        unknown == {a \in did : head(a).outcome = "unknown" \/ head(a).usage # "partial"}
        partial == {a \in did : head(a).usage = "partial"}
    IN [attempts |-> Cardinality(Prepared(at)),
        dispatched |-> Cardinality({a \in Prepared(at) : at[a].dispatched}),
        sealed |-> Cardinality(Sealed(at, ev)),
        unknown |-> Cardinality(unknown),
        completeness |-> IF Prepared(at) = {} THEN "none"
                         ELSE IF Sealed(at, ev) # Prepared(at) \/ unknown # {} THEN "unknown"
                         ELSE IF partial # {} THEN "partial" ELSE "complete"]

CallInit ==
    /\ att = [a \in Attempts |-> Absent] /\ evidence = [a \in Attempts |-> <<>>]
    /\ claim = [gen |-> 1, held |-> TRUE, terminal |-> FALSE, counts |-> Recount(att, evidence)]
    /\ permits = {} /\ called = [a \in Attempts |-> 0]

\* Counters are recomputed in the transaction that changes an attempt.
Recounted == claim' = [claim EXCEPT !.counts = Recount(att', evidence')]
Row(a, r) == att' = [att EXCEPT ![a] = r]

----------------------------------------------------------------------------
Lapse == claim.held /\ ~claim.terminal /\ claim' = [claim EXCEPT !.held = FALSE]
         /\ UNCHANGED <<att, evidence, permits, called>>
TakeOver ==
    /\ ~claim.held /\ ~claim.terminal /\ claim.gen < MaxGen
    /\ claim' = [claim EXCEPT !.held = TRUE, !.gen = @ + 1]
    /\ UNCHANGED <<att, evidence, permits, called>>

\* The active lease of the command; an existing attempt belongs to that lease.
Authority(g) == ~claim.terminal /\ claim.held /\ claim.gen = g
Transition(g, a) == Authority(g) /\ att[a].gen = g
\* Evidence needs the lease only while the run is open.
EvidenceAuthority(g, a) == (claim.terminal \/ Authority(g)) /\ att[a].gen = g

\* An attempt that exists is only replayed, and only by its own lease.
Prepare(g, a) ==
    /\ Authority(g) /\ att[a].status = "absent"
    /\ Row(a, [Absent EXCEPT !.status = "prepared", !.auth = "not_requested", !.gen = g])
    /\ UNCHANGED <<evidence, permits, called>> /\ Recounted

\* A command with another request ref than the recorded one conflicts.
BeginAuthorization(g, a) ==
    /\ Transition(g, a) /\ att[a].status = "prepared"
    /\ Row(a, [att[a] EXCEPT !.status = "authorization_pending", !.auth = "requested_unknown"])
    /\ UNCHANGED <<claim, evidence, permits, called>>
GrantAuthorization(g, a) ==
    /\ Transition(g, a) /\ att[a].status = "authorization_pending"
    /\ Row(a, [att[a] EXCEPT !.status = "authorized", !.auth = "granted"])
    /\ UNCHANGED <<claim, evidence, permits, called>>

\* The permit says whether this call started the dispatch; its answer may be lost.
Permitted_Replay(a) == att[a].status \in {"authorized", "dispatch_started"}
Permitted(a) == att[a].status = "authorized"
StartDispatch(g, a) ==
    /\ Transition(g, a) /\ Permitted(a)
    /\ Row(a, [att[a] EXCEPT !.status = "dispatch_started", !.dispatched = TRUE])
    /\ permits' \in {permits, permits \cup {a}}
    /\ UNCHANGED <<evidence, called>> /\ Recounted
\* The caller of a newly started permit calls the provider, whatever happened since.
CallProvider(a) ==
    /\ a \in permits /\ permits' = permits \ {a}
    /\ called' = [called EXCEPT ![a] = @ + 1]
    /\ UNCHANGED <<claim, att, evidence>>

----------------------------------------------------------------------------
(* Evidence *)

\* What one revision knows its successor keeps: the outcome, and that usage was
\* normalized, with its assessment.
Carries(old, new) ==
    /\ old.outcome # "unknown" => new.outcome = old.outcome
    /\ old.usage # "unresolved" => new.usage = old.usage

StatusOf_Observed(f) == "observed"
StatusOf(f) == IF f.outcome = "unknown" THEN "unknown" ELSE "observed"

\* append_evidence_locked with a new revision; a terminal run accepts none.
Extends(a, f) ==
    /\ ~claim.terminal
    /\ IF evidence[a] = <<>> THEN att[a].status = "dispatch_started"
       ELSE att[a].status \in {"observed", "unknown"} /\ Carries(Last(evidence[a]), f)
AppendRow_NoCount(a, f) ==
    /\ evidence' = [evidence EXCEPT ![a] = Append(@, f)]
    /\ Row(a, [att[a] EXCEPT !.status = StatusOf(f)])
    /\ UNCHANGED claim
AppendRow(a, f) ==
    /\ evidence' = [evidence EXCEPT ![a] = Append(@, f)]
    /\ Row(a, [att[a] EXCEPT !.status = StatusOf(f)])
    /\ Recounted
AppendEvidence(g, a, f) ==
    /\ EvidenceAuthority(g, a) /\ Extends(a, f) /\ Len(evidence[a]) < MaxRev
    /\ AppendRow(a, f)
    /\ UNCHANGED <<permits, called>>

\* The terminal commit validates every sealed head and closes every open
\* attempt; a disagreement raises and the run cannot end.
Expected(f) ==
    CASE f.outcome = "unknown" -> "unknown"
      [] f.outcome = "not_dispatched" -> "not_dispatched"
      [] OTHER -> "observed"
Authorization == [prepared |-> "not_requested", authorization_pending |-> "requested_unknown",
                  authorized |-> "granted", dispatch_started |-> "granted"]
Closable(a) ==
    IF evidence[a] # <<>> THEN att[a].status = Expected(Last(evidence[a]))
    ELSE /\ att[a].status \in DOMAIN Authorization /\ att[a].auth = Authorization[att[a].status]
         /\ (att[a].status = "dispatch_started") = att[a].dispatched

ClosureOf_None(a) == Closure("not_dispatched")
ClosureOf(a) == Closure(IF att[a].status = "dispatch_started" THEN "unknown" ELSE "not_dispatched")
CloseForTerminal ==
    LET open == {a \in Prepared(att) : evidence[a] = <<>>} IN
    /\ \A a \in Prepared(att) : Closable(a)
    /\ evidence' = [a \in Attempts |-> IF a \in open THEN <<ClosureOf(a)>> ELSE evidence[a]]
    /\ att' = [a \in Attempts |-> IF a \in open THEN [att[a] EXCEPT !.status = Expected(ClosureOf(a))] ELSE att[a]]
    /\ claim' = [claim EXCEPT !.terminal = TRUE, !.held = FALSE, !.counts = Recount(att', evidence')]
Terminate == claim.held /\ ~claim.terminal /\ CloseForTerminal /\ UNCHANGED <<permits, called>>

\* The CHECK constraints of the two tables: a transaction they refuse is undone.
ClaimCheck ==
    LET c == claim.counts IN
    /\ c.dispatched <= c.attempts /\ c.sealed <= c.attempts /\ c.unknown <= c.sealed
    /\ \/ c.completeness = "none" /\ c.attempts = 0
       \/ c.completeness \in {"complete", "partial"} /\ c.attempts > 0 /\ c.sealed = c.attempts /\ c.unknown = 0
       \/ c.completeness = "unknown" /\ c.attempts > 0 /\ (c.sealed < c.attempts \/ c.unknown > 0)
AttemptCheck(a) ==
    \/ /\ att[a].status \in DOMAIN Authorization /\ att[a].auth = Authorization[att[a].status]
       /\ att[a].dispatched = (att[a].status = "dispatch_started") /\ evidence[a] = <<>>
    \/ /\ att[a].status \in {"observed", "unknown"} /\ att[a].auth = "granted"
       /\ att[a].dispatched /\ evidence[a] # <<>>
    \/ att[a].status = "not_dispatched" /\ ~att[a].dispatched /\ evidence[a] # <<>>

----------------------------------------------------------------------------
Command(g, a) ==
    \/ Prepare(g, a) \/ BeginAuthorization(g, a) \/ GrantAuthorization(g, a) \/ StartDispatch(g, a)
    \/ \E f \in Facts : AppendEvidence(g, a, f)
CallNext ==
    \/ Lapse \/ TakeOver \/ Terminate
    \/ \E a \in Attempts : CallProvider(a) \/ (\E g \in 1..claim.gen : Command(g, a))
CallSpec == CallInit /\ [][CallNext]_callVars

----------------------------------------------------------------------------
(* Properties *)

CallTypeOK ==
    /\ claim.gen \in 1..MaxGen /\ {claim.held, claim.terminal} \subseteq BOOLEAN
    /\ att \in [Attempts -> [status : {"absent", "prepared", "authorization_pending", "authorized",
                                      "dispatch_started", "observed", "unknown", "not_dispatched"},
                             auth : {"none", "not_requested", "requested_unknown", "granted"},
                             gen : 0..MaxGen, dispatched : BOOLEAN]]
    /\ \A a \in Attempts : evidence[a] \in Seq(Facts \cup {Closure("not_dispatched")}) /\ Len(evidence[a]) <= MaxRev
    /\ permits \subseteq Attempts /\ called \in [Attempts -> Nat]

\* The counters and the completeness the run publishes with its terminal fact
\* are those of its attempt and evidence rows, after every operation.
CountsMatchAttempts == claim.counts = Recount(att, evidence)

\* The provider is called at most once for an attempt, through lost answers and
\* take-overs, and not_dispatched is only ever said of one it was not called for.
ClosureIsTrue ==
    \A a \in Attempts :
        /\ called[a] + (IF a \in permits THEN 1 ELSE 0) <= 1
        /\ evidence[a] # <<>> /\ Last(evidence[a]).outcome = "not_dispatched" => called[a] = 0 /\ a \notin permits
        /\ claim.terminal /\ att[a].status # "absent" => evidence[a] # <<>>

\* The model-call rows never keep a run from going on or ending: no operation
\* writes what the tables refuse, at every moment the checks of the terminal
\* closure pass, and once the run has ended those of its replay do.
RunCanEnd == ClaimCheck /\ \A a \in Prepared(att) : Closable(a) /\ AttemptCheck(a)
=============================================================================
