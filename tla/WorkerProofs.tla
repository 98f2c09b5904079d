----------------------------- MODULE WorkerProofs -----------------------------
(***************************************************************************)
(* Parts of a worker that share no state.  What the attempt rows say of      *)
(* calls of the provider is true and lets the run end; a scope of calls that *)
(* was left is quiet; the platform tokens of a tenant never go back; an      *)
(* execution proof does not outlive the lease it was read from; a drain that *)
(* reports no error leaves no handle open; and a usage is recorded only of   *)
(* the response of its own call.  All of it for any set of attempts,         *)
(* requests, callers, jobs and bodies and any numbers of generations,        *)
(* revisions and edits.                                                      *)
(***************************************************************************)
EXTENDS ModelCalls, PlatformTokens, ExecutionProof, ModelScope, AgentAssembly, UsageCapture, Integers,
        SequenceTheorems, FiniteSetTheorems, TLAPS

-----------------------------------------------------------------------------
(* Model calls *)

Early == {"absent", "prepared", "authorization_pending", "authorized"}
Statuses == Early \cup {"dispatch_started", "observed", "unknown", "not_dispatched"}
Auths == {"none", "not_requested", "requested_unknown", "granted"}
Rows == [status : Statuses, auth : Auths, gen : Nat, dispatched : BOOLEAN]
Heads == Facts \cup {Closure("not_dispatched"), Closure("unknown")}

CallTypes ==
    /\ claim = [gen |-> claim.gen, held |-> claim.held, terminal |-> claim.terminal, counts |-> claim.counts]
    /\ claim.gen \in Nat
    /\ att \in [Attempts -> Rows] /\ evidence \in [Attempts -> Seq(Heads)]
    /\ permits \subseteq Attempts /\ called \in [Attempts -> Nat]

\* A permit and a call both stand behind the recorded dispatch, of which there
\* is one.
Asked(a) == called[a] + (IF a \in permits THEN 1 ELSE 0)
CalledOnce(a) == Asked(a) <= 1 /\ (Asked(a) = 1 => att[a].dispatched)

\* What the status tells of the dispatch and of the evidence.
StatusIsTrue(a) ==
    /\ att[a].status \in Early => ~att[a].dispatched
    /\ att[a].status \in Early \cup {"dispatch_started"} => evidence[a] = <<>>
    /\ att[a].status \notin Early \cup {"dispatch_started"} => evidence[a] # <<>>
    /\ evidence[a] # <<>> /\ Last(evidence[a]).outcome = "not_dispatched" => ~att[a].dispatched
    /\ claim.terminal /\ att[a].status # "absent" => evidence[a] # <<>>

CallInv == CallTypes /\ \A a \in Attempts : CalledOnce(a) /\ StatusIsTrue(a)

LEMMA CallInvSays == CallInv => ClosureIsTrue
<1>. SUFFICES ASSUME CallInv, NEW a \in Attempts
              PROVE  /\ called[a] + (IF a \in permits THEN 1 ELSE 0) <= 1
                     /\ evidence[a] # <<>> /\ Last(evidence[a]).outcome = "not_dispatched"
                          => called[a] = 0 /\ a \notin permits
                     /\ claim.terminal /\ att[a].status # "absent" => evidence[a] # <<>>
  BY DEF ClosureIsTrue
<1>1. CalledOnce(a) /\ StatusIsTrue(a) /\ called[a] \in Nat
  BY DEF CallInv, CallTypes
<1>2. called[a] + (IF a \in permits THEN 1 ELSE 0) <= 1
  BY <1>1 DEF CalledOnce, Asked
<1>3. evidence[a] # <<>> /\ Last(evidence[a]).outcome = "not_dispatched"
        => called[a] = 0 /\ a \notin permits
  <2>. SUFFICES ASSUME evidence[a] # <<>>, Last(evidence[a]).outcome = "not_dispatched"
                PROVE  called[a] = 0 /\ a \notin permits
    OBVIOUS
  <2>1. ~att[a].dispatched
    BY <1>1 DEF StatusIsTrue
  <2>. QED BY <1>1, <2>1 DEF CalledOnce, Asked
<1>4. claim.terminal /\ att[a].status # "absent" => evidence[a] # <<>>
  BY <1>1 DEF StatusIsTrue
<1>. QED BY <1>2, <1>3, <1>4

LEMMA CallInvInit == CallInit => CallInv
<1>. SUFFICES ASSUME CallInit PROVE CallInv
  OBVIOUS
<1>1. CallTypes
  <2>1. claim = [gen |-> 1, held |-> TRUE, terminal |-> FALSE, counts |-> Recount(att, evidence)]
    BY DEF CallInit
  <2>2. Absent \in Rows
    BY DEF Absent, Rows, Statuses, Early, Auths
  <2>3. att \in [Attempts -> Rows] /\ evidence \in [Attempts -> Seq(Heads)]
    BY <2>2, EmptySeq DEF CallInit
  <2>4. permits \subseteq Attempts /\ called \in [Attempts -> Nat]
    BY DEF CallInit
  <2>. QED BY <2>1, <2>3, <2>4 DEF CallTypes
<1>2. ASSUME NEW a \in Attempts PROVE CalledOnce(a) /\ StatusIsTrue(a)
  <2>1. att[a] = Absent /\ evidence[a] = <<>> /\ called[a] = 0 /\ permits = {} /\ ~claim.terminal
    BY DEF CallInit
  <2>. QED BY <2>1 DEF CalledOnce, Asked, StatusIsTrue, Absent, Early
<1>. QED BY <1>1, <1>2 DEF CallInv

----------------------------------------------------------------------------
\* A status change of one attempt before its evidence: the row is typed, early
\* or just dispatched, and nothing was recorded of the attempt before.
LEMMA RowStep ==
    ASSUME CallInv, NEW a \in Attempts, NEW r \in Rows, ~claim.terminal, Row(a, r),
           att[a].status \in Early, r.status \in Early \cup {"dispatch_started"},
           r.dispatched = (r.status = "dispatch_started"),
           claim' = claim \/ Recounted, UNCHANGED <<evidence, called>>,
           permits' = permits \/ (permits' = permits \cup {a} /\ r.dispatched)
    PROVE  CallInv'
<1>0. claim.gen' = claim.gen /\ claim'.terminal = FALSE
      /\ claim' = [gen |-> claim'.gen, held |-> claim'.held, terminal |-> claim'.terminal, counts |-> claim'.counts]
  BY DEF CallInv, CallTypes, Recounted
<1>1. att' = [att EXCEPT ![a] = r] /\ att' \in [Attempts -> Rows]
  BY DEF CallInv, CallTypes, Row
<1>2. CallTypes'
  BY <1>0, <1>1 DEF CallInv, CallTypes
<1>3. ASSUME NEW b \in Attempts PROVE CalledOnce(b)' /\ StatusIsTrue(b)'
  <2>1. CalledOnce(b) /\ StatusIsTrue(b) /\ called[b] \in Nat
    BY DEF CallInv, CallTypes
  <2>2. CASE b # a
    <3>1. att'[b] = att[b] /\ (b \in permits' <=> b \in permits)
      BY <1>1, <2>2 DEF CallInv, CallTypes
    <3>2. CalledOnce(b)'
      BY <2>1, <3>1 DEF CalledOnce, Asked
    <3>3. StatusIsTrue(b)'
      BY <1>0, <2>1, <3>1 DEF StatusIsTrue
    <3>. QED BY <3>2, <3>3
  <2>3. CASE b = a
    <3>1. att'[b] = r
      BY <1>1, <2>3 DEF CallInv, CallTypes
    <3>2. ~att[b].dispatched /\ evidence[b] = <<>>
      BY <2>1, <2>3 DEF StatusIsTrue
    <3>3. called[b] = 0 /\ b \notin permits
      BY <2>1, <3>2 DEF CalledOnce, Asked
    <3>4. CalledOnce(b)'
      <4>1. CASE permits' = permits
        BY <3>3, <4>1 DEF CalledOnce, Asked
      <4>2. CASE permits' = permits \cup {a} /\ r.dispatched
        BY <3>1, <3>3, <4>2 DEF CalledOnce, Asked
      <4>. QED BY <4>1, <4>2
    <3>5. StatusIsTrue(b)'
      BY <1>0, <3>1, <3>2 DEF StatusIsTrue, Early
    <3>. QED BY <3>4, <3>5
  <2>. QED BY <2>2, <2>3
<1>. QED BY <1>2, <1>3 DEF CallInv

LEMMA EarlyRows ==
    ASSUME CallInv, NEW a \in Attempts, att[a].status \in Early, NEW p \in Early, NEW u \in Auths
    PROVE  LET r == [att[a] EXCEPT !.status = p, !.auth = u]
           IN  r \in Rows /\ r.status = p /\ r.dispatched = FALSE
<1>1. att[a] \in Rows /\ att[a].dispatched = FALSE
  BY DEF CallInv, CallTypes, StatusIsTrue, Rows
<1>. QED BY <1>1 DEF Rows, Statuses

LEMMA CommandStep ==
    ASSUME CallInv, NEW g \in 1..claim.gen, NEW a \in Attempts,
           Prepare(g, a) \/ BeginAuthorization(g, a) \/ GrantAuthorization(g, a) \/ StartDispatch(g, a)
    PROVE  CallInv'
<1>0. g \in Nat
  BY DEF CallInv, CallTypes
<1>1. CASE Prepare(g, a)
  <2>. DEFINE r == [Absent EXCEPT !.status = "prepared", !.auth = "not_requested", !.gen = g]
  <2>1. r \in Rows /\ r.status = "prepared" /\ r.dispatched = FALSE
    BY <1>0 DEF Absent, Rows, Statuses, Auths, Early
  <2>2. Row(a, r) /\ ~claim.terminal /\ att[a].status \in Early
    BY <1>1 DEF Prepare, Authority, Early
  <2>3. Recounted /\ UNCHANGED <<evidence, permits, called>>
    BY <1>1 DEF Prepare
  <2>. HIDE DEF r
  <2>. QED BY <2>1, <2>2, <2>3, RowStep DEF Early
<1>2. CASE BeginAuthorization(g, a)
  <2>. DEFINE r == [att[a] EXCEPT !.status = "authorization_pending", !.auth = "requested_unknown"]
  <2>1. Row(a, r) /\ ~claim.terminal /\ att[a].status \in Early
    BY <1>2 DEF BeginAuthorization, Transition, Authority, Early
  <2>2. r \in Rows /\ r.status = "authorization_pending" /\ r.dispatched = FALSE
    BY <2>1, EarlyRows DEF Early, Auths
  <2>3. UNCHANGED <<claim, evidence, permits, called>>
    BY <1>2 DEF BeginAuthorization
  <2>. HIDE DEF r
  <2>. QED BY <2>1, <2>2, <2>3, RowStep DEF Early
<1>3. CASE GrantAuthorization(g, a)
  <2>. DEFINE r == [att[a] EXCEPT !.status = "authorized", !.auth = "granted"]
  <2>1. Row(a, r) /\ ~claim.terminal /\ att[a].status \in Early
    BY <1>3 DEF GrantAuthorization, Transition, Authority, Early
  <2>2. r \in Rows /\ r.status = "authorized" /\ r.dispatched = FALSE
    BY <2>1, EarlyRows DEF Early, Auths
  <2>3. UNCHANGED <<claim, evidence, permits, called>>
    BY <1>3 DEF GrantAuthorization
  <2>. HIDE DEF r
  <2>. QED BY <2>1, <2>2, <2>3, RowStep DEF Early
<1>4. CASE StartDispatch(g, a)
  <2>. DEFINE r == [att[a] EXCEPT !.status = "dispatch_started", !.dispatched = TRUE]
  <2>1. Row(a, r) /\ ~claim.terminal /\ att[a].status \in Early
    BY <1>4 DEF StartDispatch, Permitted, Transition, Authority, Early
  <2>2. r \in Rows /\ r.status = "dispatch_started" /\ r.dispatched = TRUE
    BY DEF CallInv, CallTypes, Rows, Statuses
  <2>3. Recounted /\ UNCHANGED <<evidence, called>> /\ permits' \in {permits, permits \cup {a}}
    BY <1>4 DEF StartDispatch
  <2>. HIDE DEF r
  <2>. QED BY <2>1, <2>2, <2>3, RowStep DEF Early
<1>. QED BY <1>1, <1>2, <1>3, <1>4

LEMMA ProviderStep ==
    ASSUME CallInv, NEW a \in Attempts, CallProvider(a)
    PROVE  CallInv'
<1>1. a \in permits /\ permits' = permits \ {a} /\ called' = [called EXCEPT ![a] = @ + 1]
      /\ UNCHANGED <<claim, att, evidence>>
  BY DEF CallProvider
<1>2. CallTypes'
  BY <1>1 DEF CallInv, CallTypes
<1>3. ASSUME NEW b \in Attempts PROVE CalledOnce(b)' /\ StatusIsTrue(b)'
  <2>1. CalledOnce(b) /\ StatusIsTrue(b) /\ called \in [Attempts -> Nat]
    BY DEF CallInv, CallTypes
  <2>2. StatusIsTrue(b)'
    BY <1>1, <2>1 DEF StatusIsTrue
  <2>3. Asked(b)' = Asked(b)
    <3>1. CASE b = a
      BY <1>1, <2>1, <3>1 DEF Asked
    <3>2. CASE b # a
      BY <1>1, <2>1, <3>2 DEF Asked
    <3>. QED BY <3>1, <3>2
  <2>4. CalledOnce(b)'
    BY <1>1, <2>1, <2>3 DEF CalledOnce
  <2>. QED BY <2>2, <2>4
<1>. QED BY <1>2, <1>3 DEF CallInv

----------------------------------------------------------------------------
\* One more revision of evidence: it never says that nothing was dispatched.
LEMMA EvidenceStep ==
    ASSUME CallInv, NEW g \in 1..claim.gen, NEW a \in Attempts, NEW f \in Facts, AppendEvidence(g, a, f)
    PROVE  CallInv'
<1>. DEFINE r == [att[a] EXCEPT !.status = StatusOf(f)]
            s == Append(evidence[a], f)
<1>1. f \in Heads /\ f.outcome # "not_dispatched" /\ StatusOf(f) \in {"observed", "unknown"}
  BY DEF Facts, Heads, StatusOf
<1>2. att' = [att EXCEPT ![a] = r] /\ evidence' = [evidence EXCEPT ![a] = s]
      /\ Recounted /\ UNCHANGED <<permits, called>> /\ ~claim.terminal
  BY DEF AppendEvidence, AppendRow, Row, Extends
<1>3. r \in Rows /\ r.status = StatusOf(f) /\ r.dispatched = att[a].dispatched
  BY <1>1 DEF CallInv, CallTypes, Rows, Statuses
<1>4. s \in Seq(Heads) /\ s # <<>> /\ Last(s) = f
  <2>1. evidence[a] \in Seq(Heads) /\ f \in Heads
    BY <1>1 DEF CallInv, CallTypes
  <2>2. s \in Seq(Heads) /\ Len(s) = Len(evidence[a]) + 1 /\ s[Len(s)] = f /\ Len(evidence[a]) \in Nat
    BY <2>1, AppendProperties
  <2>3. s # <<>>
    BY <2>2, EmptySeq
  <2>. QED BY <2>2, <2>3 DEF Last
<1>. HIDE DEF r, s
<1>5. claim'.gen = claim.gen /\ claim'.terminal = FALSE
      /\ claim' = [gen |-> claim'.gen, held |-> claim'.held, terminal |-> claim'.terminal, counts |-> claim'.counts]
  <2>. DEFINE n == Recount(att', evidence')
  <2>1. claim' = [claim EXCEPT !.counts = n]
    BY <1>2 DEF Recounted
  <2>. HIDE DEF n
  <2>2. claim = [gen |-> claim.gen, held |-> claim.held, terminal |-> claim.terminal, counts |-> claim.counts]
    BY DEF CallInv, CallTypes
  <2>3. claim' = [gen |-> claim.gen, held |-> claim.held, terminal |-> claim.terminal, counts |-> n]
    BY <2>1, <2>2
  <2>. QED BY <1>2, <2>3
<1>6. CallTypes'
  BY <1>2, <1>3, <1>4, <1>5 DEF CallInv, CallTypes
<1>7. ASSUME NEW b \in Attempts PROVE CalledOnce(b)' /\ StatusIsTrue(b)'
  <2>1. CalledOnce(b) /\ StatusIsTrue(b)
    BY DEF CallInv
  <2>2. att \in [Attempts -> Rows] /\ evidence \in [Attempts -> Seq(Heads)]
    BY DEF CallInv, CallTypes
  <2>3. att'[b].dispatched = att[b].dispatched
    BY <1>2, <1>3, <2>2
  <2>4. CalledOnce(b)'
    BY <1>2, <2>1, <2>3 DEF CalledOnce, Asked
  <2>5. CASE b # a
    <3>1. att'[b] = att[b] /\ evidence'[b] = evidence[b]
      BY <1>2, <2>2, <2>5
    <3>. QED BY <1>5, <2>1, <2>4, <3>1 DEF StatusIsTrue
  <2>6. CASE b = a
    <3>1. att'[b] = r /\ evidence'[b] = s
      BY <1>2, <2>2, <2>6
    <3>2. StatusIsTrue(b)'
      BY <1>1, <1>3, <1>4, <3>1 DEF StatusIsTrue, Early
    <3>. QED BY <2>4, <3>2
  <2>. QED BY <2>5, <2>6
<1>. QED BY <1>6, <1>7 DEF CallInv

----------------------------------------------------------------------------
\* The terminal commit tells a started dispatch from one that never started.
LEMMA TerminalStep ==
    ASSUME CallInv, Terminate
    PROVE  CallInv'
<1>. DEFINE open == {a \in Prepared(att) : evidence[a] = <<>>}
            row(a) == [att[a] EXCEPT !.status = Expected(ClosureOf(a))]
<1>1. evidence' = [a \in Attempts |-> IF a \in open THEN <<ClosureOf(a)>> ELSE evidence[a]]
      /\ att' = [a \in Attempts |-> IF a \in open THEN row(a) ELSE att[a]]
      /\ claim' = [claim EXCEPT !.terminal = TRUE, !.held = FALSE, !.counts = Recount(att', evidence')]
      /\ UNCHANGED <<permits, called>>
  BY DEF Terminate, CloseForTerminal
<1>2. att \in [Attempts -> Rows] /\ evidence \in [Attempts -> Seq(Heads)]
  BY DEF CallInv, CallTypes
<1>3. ASSUME NEW a \in open
      PROVE  /\ a \in Attempts /\ row(a) \in Rows /\ ClosureOf(a) \in Heads
             /\ row(a).dispatched = att[a].dispatched
             /\ row(a).status \in {"unknown", "not_dispatched"}
             /\ ClosureOf(a).outcome = "not_dispatched" => ~att[a].dispatched
  <2>1. a \in Attempts /\ evidence[a] = <<>> /\ att[a] \in Rows /\ StatusIsTrue(a)
    BY <1>2 DEF Prepared, CallInv
  <2>2. CASE att[a].status = "dispatch_started"
    <3>1. ClosureOf(a) = Closure("unknown")
      BY <2>2 DEF ClosureOf
    <3>2. ClosureOf(a).outcome = "unknown" /\ Expected(ClosureOf(a)) = "unknown"
      BY <3>1 DEF Closure, Expected
    <3>. QED BY <2>1, <3>1, <3>2 DEF Rows, Statuses, Heads
  <2>3. CASE att[a].status # "dispatch_started"
    <3>1. ClosureOf(a) = Closure("not_dispatched")
      BY <2>3 DEF ClosureOf
    <3>2. Expected(ClosureOf(a)) = "not_dispatched"
      BY <3>1 DEF Closure, Expected
    <3>3. att[a].status \in Early
      BY <2>1, <2>3 DEF StatusIsTrue, Rows, Statuses
    <3>4. ~att[a].dispatched
      BY <2>1, <3>3 DEF StatusIsTrue
    <3>. QED BY <2>1, <3>1, <3>2, <3>4 DEF Rows, Statuses, Heads
  <2>. QED BY <2>2, <2>3
<1>4. ASSUME NEW a \in Attempts, a \notin open PROVE evidence[a] # <<>> \/ att[a].status = "absent"
  BY <1>4 DEF Prepared
<1>. HIDE DEF open, row
<1>5. claim'.gen = claim.gen
      /\ claim' = [gen |-> claim'.gen, held |-> claim'.held, terminal |-> claim'.terminal, counts |-> claim'.counts]
  BY <1>1 DEF CallInv, CallTypes
<1>6. CallTypes'
  <2>1. att' \in [Attempts -> Rows]
    BY <1>1, <1>2, <1>3
  <2>2. \A a \in open : <<ClosureOf(a)>> \in Seq(Heads)
    BY <1>3
  <2>3. evidence' \in [Attempts -> Seq(Heads)]
    BY <1>1, <1>2, <2>2
  <2>. QED BY <1>1, <1>5, <2>1, <2>3 DEF CallInv, CallTypes
<1>7. ASSUME NEW b \in Attempts PROVE CalledOnce(b)' /\ StatusIsTrue(b)'
  <2>1. CalledOnce(b) /\ StatusIsTrue(b)
    BY DEF CallInv
  <2>2. att'[b].dispatched = att[b].dispatched
    BY <1>1, <1>3
  <2>3. CalledOnce(b)'
    BY <1>1, <2>1, <2>2 DEF CalledOnce, Asked
  <2>4. CASE b \in open
    <3>1. att'[b] = row(b) /\ evidence'[b] = <<ClosureOf(b)>>
      BY <1>1, <2>4
    <3>2. Last(evidence'[b]) = ClosureOf(b) /\ evidence'[b] # <<>>
      BY <3>1 DEF Last
    <3>3. row(b).status \notin Early \cup {"dispatch_started"}
      BY <1>3, <2>4 DEF Early
    <3>4. StatusIsTrue(b)'
      BY <1>3, <2>4, <3>1, <3>2, <3>3 DEF StatusIsTrue
    <3>. QED BY <2>3, <3>4
  <2>5. CASE b \notin open
    <3>1. att'[b] = att[b] /\ evidence'[b] = evidence[b]
      BY <1>1, <2>5
    <3>2. StatusIsTrue(b)'
      BY <1>4, <2>1, <2>5, <3>1 DEF StatusIsTrue
    <3>. QED BY <2>3, <3>2
  <2>. QED BY <2>4, <2>5
<1>. QED BY <1>6, <1>7 DEF CallInv

----------------------------------------------------------------------------
LEMMA CallInvStep == CallInv /\ [CallNext]_callVars => CallInv'
<1>. SUFFICES ASSUME CallInv, [CallNext]_callVars PROVE CallInv'
  OBVIOUS
<1>1. CASE UNCHANGED callVars
  BY <1>1 DEF callVars, CallInv, CallTypes, CalledOnce, Asked, StatusIsTrue
<1>2. CASE Lapse \/ TakeOver
  <2>. DEFINE Shape(c) == c = [gen |-> c.gen, held |-> c.held, terminal |-> c.terminal, counts |-> c.counts]
  <2>1. UNCHANGED <<att, evidence, permits, called>>
    BY <1>2 DEF Lapse, TakeOver
  <2>2. Shape(claim) /\ claim.gen \in Nat
    BY DEF CallInv, CallTypes
  <2>3. ASSUME Lapse PROVE claim'.gen \in Nat /\ claim'.terminal = claim.terminal /\ Shape(claim')
    <3>1. claim' = [claim EXCEPT !.held = FALSE]
      BY <2>3 DEF Lapse
    <3>2. claim' = [gen |-> claim.gen, held |-> FALSE, terminal |-> claim.terminal, counts |-> claim.counts]
      BY <2>2, <3>1
    <3>. QED BY <2>2, <3>2
  <2>4. ASSUME TakeOver PROVE claim'.gen \in Nat /\ claim'.terminal = claim.terminal /\ Shape(claim')
    <3>1. claim' = [claim EXCEPT !.held = TRUE, !.gen = @ + 1]
      BY <2>4 DEF TakeOver
    <3>2. claim' = [gen |-> claim.gen + 1, held |-> TRUE, terminal |-> claim.terminal, counts |-> claim.counts]
      BY <2>2, <3>1
    <3>. QED BY <2>2, <3>2
  <2>. QED BY <1>2, <2>1, <2>3, <2>4 DEF CallInv, CallTypes, CalledOnce, Asked, StatusIsTrue
<1>3. CASE Terminate
  BY <1>3, TerminalStep
<1>4. ASSUME NEW a \in Attempts, CallProvider(a) PROVE CallInv'
  BY <1>4, ProviderStep
<1>5. ASSUME NEW a \in Attempts, NEW g \in 1..claim.gen, Command(g, a) PROVE CallInv'
  BY <1>5, CommandStep, EvidenceStep DEF Command
<1>. QED BY <1>1, <1>2, <1>3, <1>4, <1>5 DEF CallNext

\* The provider is called at most once for an attempt, and the evidence says
\* not_dispatched only of an attempt it was never called for, through lost
\* answers, superseded callers and the closure by the terminal commit.
THEOREM AttemptsAreTrue == CallSpec => []ClosureIsTrue
BY CallInvInit, CallInvStep, CallInvSays, PTL DEF CallSpec

----------------------------------------------------------------------------
(* The run can end: every row passes the checks of the closure and of its     *)
(* table, and the counters are those of the rows, of which there are finitely *)
(* many.                                                                      *)

RowsAgree(a) == att[a].status # "absent" => Closable(a) /\ AttemptCheck(a)
AccountInv ==
    /\ CallInv /\ IsFiniteSet(Prepared(att)) /\ CountsMatchAttempts
    /\ \A a \in Attempts : RowsAgree(a)

LEMMA AuthorizationSays ==
    /\ DOMAIN Authorization = {"prepared", "authorization_pending", "authorized", "dispatch_started"}
    /\ Authorization["prepared"] = "not_requested"
    /\ Authorization["authorization_pending"] = "requested_unknown"
    /\ Authorization["authorized"] = "granted" /\ Authorization["dispatch_started"] = "granted"
BY DEF Authorization

\* The counters of finitely many rows are what the claim table accepts.
LEMMA CountsAreChecked ==
    ASSUME IsFiniteSet(Prepared(att)), CountsMatchAttempts
    PROVE  ClaimCheck
<1>. DEFINE P == Prepared(att)
            S == Sealed(att, evidence)
            D == {a \in P : att[a].dispatched}
            did == {a \in S : Last(evidence[a]).outcome # "not_dispatched"}
            U == {a \in did : Last(evidence[a]).outcome = "unknown" \/ Last(evidence[a]).usage # "partial"}
            part == {a \in did : Last(evidence[a]).usage = "partial"}
            c == claim.counts
<1>1. c = [attempts |-> Cardinality(P), dispatched |-> Cardinality(D), sealed |-> Cardinality(S),
           unknown |-> Cardinality(U),
           completeness |-> IF P = {} THEN "none" ELSE IF S # P \/ U # {} THEN "unknown"
                            ELSE IF part # {} THEN "partial" ELSE "complete"]
  BY DEF CountsMatchAttempts, Recount
<1>2. D \subseteq P /\ S \subseteq P /\ U \subseteq S
  BY DEF Sealed
<1>. HIDE DEF P, D, S, U, part, did
<1>3. IsFiniteSet(P)
  BY DEF P
<1>4. IsFiniteSet(S) /\ Cardinality(D) <= Cardinality(P) /\ Cardinality(S) <= Cardinality(P)
      /\ (S # P => Cardinality(S) < Cardinality(P)) /\ Cardinality(P) \in Nat /\ Cardinality(S) \in Nat
  <2>1. IsFiniteSet(S) /\ Cardinality(S) <= Cardinality(P) /\ (S # P => Cardinality(S) < Cardinality(P))
    BY <1>2, <1>3, FS_Subset, FS_CardinalityType
  <2>. QED BY <2>1, <1>2, <1>3, FS_Subset, FS_CardinalityType
<1>5. IsFiniteSet(U) /\ Cardinality(U) <= Cardinality(S) /\ Cardinality(U) \in Nat
  BY <1>2, <1>4, FS_Subset, FS_CardinalityType
<1>6. (P = {} <=> Cardinality(P) = 0) /\ (U = {} <=> Cardinality(U) = 0)
  BY <1>3, <1>5, FS_EmptySet
<1>7. c.attempts = Cardinality(P) /\ c.dispatched = Cardinality(D) /\ c.sealed = Cardinality(S)
      /\ c.unknown = Cardinality(U)
  BY <1>1
<1>8. c.completeness = IF P = {} THEN "none" ELSE IF S # P \/ U # {} THEN "unknown"
                       ELSE IF part # {} THEN "partial" ELSE "complete"
  BY <1>1
<1>. HIDE DEF c
<1>9. \/ c.completeness = "none" /\ c.attempts = 0
      \/ c.completeness \in {"complete", "partial"} /\ c.attempts > 0 /\ c.sealed = c.attempts /\ c.unknown = 0
      \/ c.completeness = "unknown" /\ c.attempts > 0 /\ (c.sealed < c.attempts \/ c.unknown > 0)
  <2>1. CASE P = {}
    BY <1>6, <1>7, <1>8, <2>1
  <2>2. CASE P # {} /\ (S # P \/ U # {})
    BY <1>4, <1>5, <1>6, <1>7, <1>8, <2>2
  <2>3. CASE P # {} /\ S = P /\ U = {}
    BY <1>4, <1>6, <1>7, <1>8, <2>3
  <2>. QED BY <2>1, <2>2, <2>3
<1>. QED BY <1>4, <1>5, <1>7, <1>9 DEF ClaimCheck, c

LEMMA AccountSays == AccountInv => RunCanEnd
BY CountsAreChecked DEF AccountInv, RowsAgree, RunCanEnd, Prepared

LEMMA AccountInit == CallInit => AccountInv
<1>. SUFFICES ASSUME CallInit PROVE AccountInv
  OBVIOUS
<1>1. \A a \in Attempts : att[a].status = "absent"
  BY DEF CallInit, Absent
<1>2. Prepared(att) = {}
  BY <1>1 DEF Prepared
<1>3. CountsMatchAttempts
  <2>. DEFINE n == Recount(att, evidence)
  <2>1. claim = [gen |-> 1, held |-> TRUE, terminal |-> FALSE, counts |-> n]
    BY DEF CallInit
  <2>. HIDE DEF n
  <2>2. claim.counts = n
    BY <2>1
  <2>. QED BY <2>2 DEF n, CountsMatchAttempts
<1>. QED BY <1>1, <1>2, <1>3, CallInvInit, FS_EmptySet DEF AccountInv, RowsAgree

----------------------------------------------------------------------------
\* An operation that recounts leaves the counters right.
LEMMA Recounts ==
    ASSUME CallInv, NEW c, c = [claim EXCEPT !.counts = Recount(att', evidence')]
    PROVE  c.counts = Recount(att', evidence')
<1>. DEFINE n == Recount(att', evidence')
<1>1. claim = [gen |-> claim.gen, held |-> claim.held, terminal |-> claim.terminal, counts |-> claim.counts]
  BY DEF CallInv, CallTypes
<1>2. c = [claim EXCEPT !.counts = n]
  OBVIOUS
<1>. HIDE DEF n
<1>3. c.counts = n
  BY <1>1, <1>2
<1>. QED BY <1>3 DEF n

\* Which rows there are, which were dispatched and what is sealed is all that
\* the counters say.
LEMMA CountsKept ==
    ASSUME CountsMatchAttempts, claim'.counts = claim.counts, UNCHANGED evidence,
           Prepared(att') = Prepared(att),
           \A a \in Prepared(att) : att'[a].dispatched = att[a].dispatched
    PROVE  CountsMatchAttempts'
<1>1. Sealed(att', evidence') = Sealed(att, evidence)
  BY DEF Sealed
<1>2. {a \in Prepared(att') : att'[a].dispatched} = {a \in Prepared(att) : att[a].dispatched}
  OBVIOUS
<1>3. Recount(att', evidence') = Recount(att, evidence)
  BY <1>1, <1>2 DEF Recount
<1>. QED BY <1>3 DEF CountsMatchAttempts

\* One row changes, or one row comes.
LEMMA OneRow ==
    ASSUME AccountInv, NEW a \in Attempts, NEW r, Row(a, r), r.status # "absent"
    PROVE  /\ IsFiniteSet(Prepared(att)')
           /\ att[a].status # "absent" => Prepared(att') = Prepared(att)
           /\ \A b \in Attempts : att'[b] = IF b = a THEN r ELSE att[b]
<1>1. \A b \in Attempts : att'[b] = IF b = a THEN r ELSE att[b]
  BY DEF AccountInv, CallInv, CallTypes, Row
<1>2. Prepared(att') = Prepared(att) \cup {a}
  BY <1>1 DEF Prepared
<1>3. att[a].status # "absent" => Prepared(att') = Prepared(att)
  BY <1>2 DEF Prepared
<1>4. IsFiniteSet(Prepared(att')) 
  BY <1>2, FS_AddElement DEF AccountInv
<1>. QED BY <1>1, <1>3, <1>4

\* The status changes before there is evidence, as the tables know them.
LEMMA EarlyAccount ==
    ASSUME AccountInv, CallInv', NEW a \in Attempts, NEW r \in Rows, Row(a, r), UNCHANGED evidence,
           evidence[a] = <<>>, r.status \in DOMAIN Authorization,
           r.auth = Authorization[r.status], r.dispatched = (r.status = "dispatch_started"),
           \/ Recounted
           \/ UNCHANGED claim /\ att[a].status # "absent" /\ r.dispatched = att[a].dispatched
    PROVE  AccountInv'
<1>1. r.status # "absent"
  BY AuthorizationSays
<1>2. IsFiniteSet(Prepared(att)') /\ (att[a].status # "absent" => Prepared(att') = Prepared(att))
      /\ \A b \in Attempts : att'[b] = IF b = a THEN r ELSE att[b]
  BY <1>1, OneRow
<1>3. CountsMatchAttempts'
  <2>1. CASE Recounted
    <3>1. claim'.counts = Recount(att', evidence')
      BY <2>1, Recounts DEF AccountInv, Recounted
    <3>. QED BY <3>1 DEF CountsMatchAttempts
  <2>2. CASE UNCHANGED claim /\ att[a].status # "absent" /\ r.dispatched = att[a].dispatched
    <3>1. \A b \in Prepared(att) : att'[b].dispatched = att[b].dispatched
      BY <1>2, <2>2 DEF Prepared
    <3>. QED BY <1>2, <2>2, <3>1, CountsKept DEF AccountInv
  <2>. QED BY <2>1, <2>2
<1>4. ASSUME NEW b \in Attempts PROVE RowsAgree(b)'
  <2>1. CASE b = a
    <3>1. att'[b] = r /\ evidence'[b] = <<>>
      BY <1>2, <2>1
    <3>2. Closable(b)'
      BY <3>1 DEF Closable
    <3>3. AttemptCheck(b)'
      BY <3>1 DEF AttemptCheck
    <3>. QED BY <3>2, <3>3 DEF RowsAgree
  <2>2. CASE b # a
    <3>1. att'[b] = att[b] /\ evidence'[b] = evidence[b] /\ RowsAgree(b)
      BY <1>2, <2>2 DEF AccountInv
    <3>. QED BY <3>1 DEF RowsAgree, Closable, AttemptCheck
  <2>. QED BY <2>1, <2>2
<1>. QED BY <1>2, <1>3, <1>4 DEF AccountInv

LEMMA CommandAccount ==
    ASSUME AccountInv, CallInv', NEW g \in 1..claim.gen, NEW a \in Attempts,
           Prepare(g, a) \/ BeginAuthorization(g, a) \/ GrantAuthorization(g, a) \/ StartDispatch(g, a)
    PROVE  AccountInv'
<1>0. att[a] \in Rows /\ StatusIsTrue(a) /\ RowsAgree(a) /\ g \in Nat
  BY DEF AccountInv, CallInv, CallTypes
<1>1. CASE Prepare(g, a)
  <2>. DEFINE r == [Absent EXCEPT !.status = "prepared", !.auth = "not_requested", !.gen = g]
  <2>1. r \in Rows /\ r.status = "prepared" /\ r.auth = "not_requested" /\ r.dispatched = FALSE
    BY <1>0 DEF Absent, Rows, Statuses, Auths, Early
  <2>2. Row(a, r) /\ att[a].status = "absent" /\ Recounted /\ UNCHANGED evidence
    BY <1>1 DEF Prepare
  <2>3. evidence[a] = <<>>
    BY <1>0, <2>2 DEF StatusIsTrue, Early
  <2>. HIDE DEF r
  <2>. QED BY <2>1, <2>2, <2>3, EarlyAccount, AuthorizationSays
<1>2. CASE BeginAuthorization(g, a)
  <2>. DEFINE r == [att[a] EXCEPT !.status = "authorization_pending", !.auth = "requested_unknown"]
  <2>1. Row(a, r) /\ att[a].status = "prepared" /\ UNCHANGED <<claim, evidence>>
    BY <1>2 DEF BeginAuthorization
  <2>2. r \in Rows /\ r.status = "authorization_pending" /\ r.auth = "requested_unknown"
        /\ r.dispatched = att[a].dispatched
    BY <1>0 DEF Rows, Statuses, Early, Auths
  <2>3. evidence[a] = <<>> /\ att[a].dispatched = FALSE
    BY <1>0, <2>1 DEF StatusIsTrue, Early, Rows
  <2>. HIDE DEF r
  <2>. QED BY <2>1, <2>2, <2>3, EarlyAccount, AuthorizationSays
<1>3. CASE GrantAuthorization(g, a)
  <2>. DEFINE r == [att[a] EXCEPT !.status = "authorized", !.auth = "granted"]
  <2>1. Row(a, r) /\ att[a].status = "authorization_pending" /\ UNCHANGED <<claim, evidence>>
    BY <1>3 DEF GrantAuthorization
  <2>2. r \in Rows /\ r.status = "authorized" /\ r.auth = "granted" /\ r.dispatched = att[a].dispatched
    BY <1>0 DEF Rows, Statuses, Early, Auths
  <2>3. evidence[a] = <<>> /\ att[a].dispatched = FALSE
    BY <1>0, <2>1 DEF StatusIsTrue, Early, Rows
  <2>. HIDE DEF r
  <2>. QED BY <2>1, <2>2, <2>3, EarlyAccount, AuthorizationSays
<1>4. CASE StartDispatch(g, a)
  <2>. DEFINE r == [att[a] EXCEPT !.status = "dispatch_started", !.dispatched = TRUE]
  <2>1. Row(a, r) /\ att[a].status = "authorized" /\ Recounted /\ UNCHANGED evidence
    BY <1>4 DEF StartDispatch, Permitted
  <2>2. evidence[a] = <<>> /\ att[a].auth = "granted"
    <3>1. evidence[a] = <<>>
      BY <1>0, <2>1 DEF StatusIsTrue, Early
    <3>2. att[a].auth = Authorization["authorized"]
      BY <1>0, <2>1 DEF RowsAgree, AttemptCheck
    <3>. QED BY <3>1, <3>2, AuthorizationSays
  <2>3. r \in Rows /\ r.status = "dispatch_started" /\ r.auth = "granted" /\ r.dispatched = TRUE
    BY <1>0, <2>2 DEF Rows, Statuses
  <2>. HIDE DEF r
  <2>. QED BY <2>1, <2>2, <2>3, EarlyAccount, AuthorizationSays
<1>. QED BY <1>1, <1>2, <1>3, <1>4

LEMMA EvidenceAccount ==
    ASSUME AccountInv, CallInv', NEW g \in 1..claim.gen, NEW a \in Attempts, NEW f \in Facts,
           AppendEvidence(g, a, f)
    PROVE  AccountInv'
<1>. DEFINE r == [att[a] EXCEPT !.status = StatusOf(f)]
            s == Append(evidence[a], f)
<1>1. f.outcome \in {"unknown", "completed", "failed"} /\ StatusOf(f) \in {"observed", "unknown"}
      /\ Expected(f) = StatusOf(f)
  BY DEF Facts, StatusOf, Expected
<1>2. Row(a, r) /\ evidence' = [evidence EXCEPT ![a] = s] /\ Recounted
      /\ att[a].status \in {"dispatch_started", "observed", "unknown"}
  BY DEF AppendEvidence, AppendRow, Extends
<1>3. r.status = StatusOf(f) /\ r.dispatched = att[a].dispatched /\ r.auth = att[a].auth
  BY DEF AccountInv, CallInv, CallTypes, Rows
<1>4. att[a].auth = "granted" /\ att[a].dispatched
  <2>1. AttemptCheck(a)
    BY <1>2 DEF AccountInv, RowsAgree
  <2>. QED BY <1>2, <2>1, AuthorizationSays DEF AttemptCheck
<1>5. s # <<>> /\ Last(s) = f
  <2>1. evidence[a] \in Seq(Heads) /\ f \in Heads
    BY DEF AccountInv, CallInv, CallTypes, Heads
  <2>2. s \in Seq(Heads) /\ Len(s) = Len(evidence[a]) + 1 /\ s[Len(s)] = f /\ Len(evidence[a]) \in Nat
    BY <2>1, AppendProperties
  <2>3. s # <<>>
    BY <2>2, EmptySeq
  <2>. QED BY <2>2, <2>3 DEF Last
<1>. HIDE DEF r, s
<1>6. IsFiniteSet(Prepared(att)') /\ \A b \in Attempts : att'[b] = IF b = a THEN r ELSE att[b]
  BY <1>1, <1>2, <1>3, OneRow
<1>7. CountsMatchAttempts'
  <2>1. claim'.counts = Recount(att', evidence')
    BY <1>2, Recounts DEF AccountInv, Recounted
  <2>. QED BY <2>1 DEF CountsMatchAttempts
<1>8. ASSUME NEW b \in Attempts PROVE RowsAgree(b)'
  <2>0. evidence \in [Attempts -> Seq(Heads)]
    BY DEF AccountInv, CallInv, CallTypes
  <2>1. CASE b = a
    <3>1. att'[b] = r /\ evidence'[b] = s
      BY <1>2, <1>6, <2>0, <2>1
    <3>2. Closable(b)'
      BY <1>1, <1>3, <1>5, <3>1 DEF Closable
    <3>3. AttemptCheck(b)'
      BY <1>1, <1>3, <1>4, <1>5, <3>1 DEF AttemptCheck
    <3>. QED BY <3>2, <3>3 DEF RowsAgree
  <2>2. CASE b # a
    <3>1. att'[b] = att[b] /\ evidence'[b] = evidence[b] /\ RowsAgree(b)
      BY <1>2, <1>6, <2>0, <2>2 DEF AccountInv
    <3>. QED BY <3>1 DEF RowsAgree, Closable, AttemptCheck
  <2>. QED BY <2>1, <2>2
<1>. QED BY <1>6, <1>7, <1>8 DEF AccountInv

\* The closure leaves no row without evidence, and each with its own.
LEMMA TerminalAccount ==
    ASSUME AccountInv, CallInv', Terminate
    PROVE  AccountInv'
<1>. DEFINE open == {a \in Prepared(att) : evidence[a] = <<>>}
            row(a) == [att[a] EXCEPT !.status = Expected(ClosureOf(a))]
<1>1. evidence' = [a \in Attempts |-> IF a \in open THEN <<ClosureOf(a)>> ELSE evidence[a]]
      /\ att' = [a \in Attempts |-> IF a \in open THEN row(a) ELSE att[a]]
      /\ claim' = [claim EXCEPT !.terminal = TRUE, !.held = FALSE, !.counts = Recount(att', evidence')]
  BY DEF Terminate, CloseForTerminal
<1>2. ASSUME NEW a \in open
      PROVE  /\ a \in Attempts /\ att[a].status # "absent"
             /\ row(a).status = Expected(ClosureOf(a))
             /\ \/ row(a).status = "unknown" /\ row(a).auth = "granted" /\ row(a).dispatched
                \/ row(a).status = "not_dispatched" /\ ~row(a).dispatched
  <2>1. a \in Attempts /\ evidence[a] = <<>> /\ att[a] \in Rows /\ att[a].status # "absent" /\ RowsAgree(a)
    BY DEF Prepared, AccountInv, CallInv, CallTypes
  <2>2. row(a).status = Expected(ClosureOf(a)) /\ row(a).auth = att[a].auth
        /\ row(a).dispatched = att[a].dispatched
    BY <2>1 DEF Rows
  <2>3. att[a].status \in DOMAIN Authorization /\ att[a].auth = Authorization[att[a].status]
        /\ att[a].dispatched = (att[a].status = "dispatch_started")
    BY <2>1 DEF RowsAgree, AttemptCheck
  <2>4. CASE att[a].status = "dispatch_started"
    <3>1. Expected(ClosureOf(a)) = "unknown"
      BY <2>4 DEF ClosureOf, Closure, Expected
    <3>. QED BY <2>1, <2>2, <2>3, <2>4, <3>1, AuthorizationSays
  <2>5. CASE att[a].status # "dispatch_started"
    <3>1. Expected(ClosureOf(a)) = "not_dispatched"
      BY <2>5 DEF ClosureOf, Closure, Expected
    <3>. QED BY <2>1, <2>2, <2>3, <2>5, <3>1
  <2>. QED BY <2>4, <2>5
<1>3. \A a \in Attempts : a \notin open => evidence[a] # <<>> \/ att[a].status = "absent"
  BY DEF Prepared
<1>. HIDE DEF open, row
<1>4. Prepared(att') = Prepared(att)
  <2>1. \A a \in Attempts : att'[a].status = "absent" <=> att[a].status = "absent"
    BY <1>1, <1>2
  <2>. QED BY <2>1 DEF Prepared
<1>5. CountsMatchAttempts'
  <2>. DEFINE n == Recount(att', evidence')
  <2>1. claim = [gen |-> claim.gen, held |-> claim.held, terminal |-> claim.terminal, counts |-> claim.counts]
    BY DEF AccountInv, CallInv, CallTypes
  <2>2. claim' = [claim EXCEPT !.terminal = TRUE, !.held = FALSE, !.counts = n]
    BY <1>1
  <2>. HIDE DEF n
  <2>3. claim'.counts = n
    BY <2>1, <2>2
  <2>. QED BY <2>3 DEF n, CountsMatchAttempts
<1>6. ASSUME NEW b \in Attempts PROVE RowsAgree(b)'
  <2>1. CASE b \in open
    <3>1. att'[b] = row(b) /\ evidence'[b] = <<ClosureOf(b)>>
      BY <1>1, <2>1
    <3>2. evidence'[b] # <<>> /\ Last(evidence'[b]) = ClosureOf(b)
      BY <3>1 DEF Last
    <3>3. Closable(b)'
      BY <1>2, <2>1, <3>1, <3>2 DEF Closable
    <3>4. AttemptCheck(b)'
      BY <1>2, <2>1, <3>1, <3>2 DEF AttemptCheck
    <3>. QED BY <3>3, <3>4 DEF RowsAgree
  <2>2. CASE b \notin open
    <3>1. att'[b] = att[b] /\ evidence'[b] = evidence[b] /\ RowsAgree(b)
      BY <1>1, <2>2 DEF AccountInv
    <3>. QED BY <3>1 DEF RowsAgree, Closable, AttemptCheck
  <2>. QED BY <2>1, <2>2
<1>. QED BY <1>4, <1>5, <1>6 DEF AccountInv

LEMMA AccountStep == AccountInv /\ [CallNext]_callVars => AccountInv'
<1>. SUFFICES ASSUME AccountInv, [CallNext]_callVars PROVE AccountInv'
  OBVIOUS
<1>0. CallInv'
  BY CallInvStep DEF AccountInv
<1>1. ASSUME UNCHANGED <<att, evidence>>, claim'.counts = claim.counts PROVE AccountInv'
  BY <1>0, <1>1 DEF AccountInv, CountsMatchAttempts, RowsAgree, Closable, AttemptCheck
<1>2. CASE UNCHANGED callVars
  BY <1>1, <1>2 DEF callVars
<1>3. CASE Lapse \/ TakeOver
  <2>1. claim = [gen |-> claim.gen, held |-> claim.held, terminal |-> claim.terminal, counts |-> claim.counts]
    BY DEF AccountInv, CallInv, CallTypes
  <2>2. ASSUME Lapse PROVE claim'.counts = claim.counts
    <3>1. claim' = [claim EXCEPT !.held = FALSE]
      BY <2>2 DEF Lapse
    <3>. QED BY <2>1, <3>1
  <2>3. ASSUME TakeOver PROVE claim'.counts = claim.counts
    <3>1. claim' = [claim EXCEPT !.held = TRUE, !.gen = @ + 1]
      BY <2>3 DEF TakeOver
    <3>. QED BY <2>1, <3>1
  <2>4. UNCHANGED <<att, evidence>>
    BY <1>3 DEF Lapse, TakeOver
  <2>. QED BY <1>1, <1>3, <2>2, <2>3, <2>4
<1>4. CASE Terminate
  BY <1>0, <1>4, TerminalAccount
<1>5. ASSUME NEW a \in Attempts, CallProvider(a) PROVE AccountInv'
  BY <1>1, <1>5 DEF CallProvider
<1>6. ASSUME NEW a \in Attempts, NEW g \in 1..claim.gen, Command(g, a) PROVE AccountInv'
  BY <1>0, <1>6, CommandAccount, EvidenceAccount DEF Command
<1>. QED BY <1>2, <1>3, <1>4, <1>5, <1>6 DEF CallNext

\* The model-call rows never keep a run from going on or ending: after every
\* operation the counters satisfy the constraints of the claim table, and every
\* attempt those of its own and the checks of the terminal closure.
THEOREM CallsLetTheRunEnd == CallSpec => []RunCanEnd
BY AccountInit, AccountStep, AccountSays, PTL DEF CallSpec

-----------------------------------------------------------------------------
(* Platform tokens *)


\* Every credential whose token was returned is the mark or older than it: what
\* the comparison with the mark alone makes of the file's whole history.
MarkInv ==
    /\ file \in Credential \cup {None} /\ observed \in Credential \cup {None}
    /\ returned \subseteq Credential
    /\ \A c \in returned : observed # None /\ (c.gen < observed.gen \/ c = observed)

\* A step that only looks at the file: the mark moves to an accepted entry.
LEMMA ObserveKeeps ==
    ASSUME MarkInv, Observe \/ UNCHANGED observed, UNCHANGED <<file, returned>>
    PROVE  MarkInv'
<1>1. CASE UNCHANGED observed
  BY <1>1 DEF MarkInv
<1>2. CASE Observe /\ ~Accepted(file)
  BY <1>2 DEF MarkInv, Observe
<1>3. CASE Observe /\ Accepted(file)
  <2>1. observed' = file /\ file # None /\ file \in Credential
    BY <1>3 DEF Observe, Accepted, MarkInv
  <2>2. ASSUME NEW c \in returned PROVE c.gen < file.gen \/ c = file
    <3>1. observed # None /\ observed \in Credential /\ c \in Credential
      BY <2>2 DEF MarkInv
    <3>2. c.gen < observed.gen \/ c = observed
      BY <2>2 DEF MarkInv
    <3>3. observed.gen < file.gen \/ observed = file
      BY <1>3, <3>1 DEF Accepted
    <3>4. c.gen \in Int /\ observed.gen \in Int /\ file.gen \in Int
      BY <2>1, <3>1 DEF Credential
    <3>. QED BY <3>2, <3>3, <3>4
  <2>. QED BY <2>1, <2>2 DEF MarkInv
<1>. QED BY <1>1, <1>2, <1>3

\* A step that gives a caller the token of the entry it has just accepted.
LEMMA GiveIsCurrent ==
    ASSUME MarkInv, Accepted(file), Observe, UNCHANGED file, NEW w \in Callers, Give(w, file)
    PROVE  /\ MarkInv'
           /\ returned' = returned \cup {file}
           /\ returned' # returned => \A old \in returned : old.gen < file.gen
<1>1. observed' = file /\ file # None /\ file \in Credential
  BY DEF Observe, Accepted, MarkInv
<1>2. returned' = returned \cup {file}
  BY DEF Give
<1>3. ASSUME NEW c \in returned PROVE c.gen < file.gen \/ c = file
  <2>1. observed # None /\ observed \in Credential /\ c \in Credential
    BY <1>3 DEF MarkInv
  <2>2. (c.gen < observed.gen \/ c = observed) /\ (observed.gen < file.gen \/ observed = file)
    BY <1>3, <2>1 DEF MarkInv, Accepted
  <2>3. c.gen \in Int /\ observed.gen \in Int /\ file.gen \in Int
    BY <1>1, <2>1 DEF Credential
  <2>. QED BY <2>2, <2>3
<1>4. MarkInv'
  BY <1>1, <1>2, <1>3 DEF MarkInv
<1>5. returned' # returned => \A old \in returned : old.gen < file.gen
  BY <1>2, <1>3
<1>. QED BY <1>2, <1>4, <1>5

LEMMA MarkInvInit == TokInit => MarkInv
BY DEF TokInit, MarkInv

\* What TokenIsCurrent says of one step.
ReturnsNewest ==
    returned' # returned =>
        /\ closed = "open" /\ returned' = returned \cup {file}
        /\ \A old \in returned : old.gen < file.gen

LEMMA MarkInvStep == MarkInv /\ [TokNext]_tokVars => MarkInv' /\ ReturnsNewest
<1>. SUFFICES ASSUME MarkInv, [TokNext]_tokVars PROVE MarkInv' /\ ReturnsNewest
  OBVIOUS
<1>1. CASE UNCHANGED tokVars
  BY <1>1, ObserveKeeps DEF tokVars, ReturnsNewest
<1>2. ASSUME NEW w \in Callers, FromCache(w) PROVE MarkInv' /\ ReturnsNewest
  BY <1>2, GiveIsCurrent DEF FromCache, ReturnsNewest
<1>3. ASSUME NEW w \in Callers, Join(w) PROVE MarkInv' /\ ReturnsNewest
  BY <1>3, ObserveKeeps DEF Join, ReturnsNewest
<1>4. ASSUME NEW w \in Callers, Wake(w) PROVE MarkInv' /\ ReturnsNewest
  <2>1. caller[w] = file /\ Accepted(file) /\ closed = "open"
    BY <1>4 DEF Wake, Still
  <2>. QED BY <1>4, <2>1, GiveIsCurrent DEF Wake, ReturnsNewest
<1>5. ASSUME NEW w \in Callers, Raises(w) PROVE MarkInv' /\ ReturnsNewest
  BY <1>5, ObserveKeeps DEF Raises, ReturnsNewest
<1>6. ASSUME NEW c \in Credential, Answer(c) \/ ExchangeFails(c) PROVE MarkInv' /\ ReturnsNewest
  BY <1>6, ObserveKeeps DEF Answer, ExchangeFails, ReturnsNewest
<1>7. CASE Close \/ Cleared \/ Tick
  BY <1>7, ObserveKeeps DEF Close, Cleared, Tick, ReturnsNewest
<1>8. CASE Edit
  BY <1>8 DEF Edit, MarkInv, ReturnsNewest
<1>. QED BY <1>1, <1>2, <1>3, <1>4, <1>5, <1>6, <1>7, <1>8 DEF TokNext

\* No caller is ever given a token of an older generation than one given before,
\* nor of another entry under the same generation, however the file is edited
\* and whenever the exchange answers.
THEOREM TokensAdvance == TokSpec => TokenIsCurrent
<1>1. MarkInv /\ [TokNext]_tokVars => MarkInv'
  BY MarkInvStep
<1>2. MarkInv /\ [TokNext]_tokVars =>
        [returned' # returned =>
           /\ closed = "open" /\ returned' = returned \cup {file}
           /\ \A old \in returned : old.gen < file.gen]_tokVars
  BY MarkInvStep DEF ReturnsNewest
<1>. QED BY <1>1, <1>2, MarkInvInit, PTL DEF TokSpec, TokenIsCurrent

-----------------------------------------------------------------------------
(* Execution proofs *)


LeaseTypes ==
    /\ now \in Int /\ skew \in Int
    /\ lease = [gen |-> lease.gen, expires |-> lease.expires, held |-> lease.held, terminal |-> lease.terminal]
    /\ lease.gen \in Int /\ lease.expires \in Int
Places == {"idle", "connect", "query", "cleanup", "return", "done"}
IssueRecords == [pc : Places, gen : Int, seen : Int, expires : Int, ok : BOOLEAN]

\* A time read from the lease of a generation is covered by that lease: by its
\* present expiry while the generation is current, by the clock once a take-over
\* had to wait for it. Nothing is said of a generation that was given up.
Covered(g, t) ==
    /\ g <= lease.gen
    /\ g = lease.gen /\ g \notin released => t <= lease.expires
    /\ g < lease.gen /\ g \notin released => t <= now

Observed(i) == issue[i].ok /\ issue[i].pc \in {"cleanup", "return"}
ProofInv ==
    /\ LeaseTypes
    /\ issue \in [Issues -> IssueRecords]
    /\ lease.expires <= now + Lease
    /\ lease.held \/ lease.gen \in released
    /\ \A i \in Issues : Observed(i) => Covered(issue[i].gen, issue[i].expires)
    /\ \A p \in proofs : p.gen \in Int /\ p.exp \in Int /\ Covered(p.gen, p.exp)

LEMMA ProofInvSays == ProofInv => ProofEndsWithLease
BY DEF ProofInv, ProofEndsWithLease, Covered

LEMMA ProofInvInit ==
    ASSUME ProofInit
    PROVE  ProofInv
<1>1. LeaseTypes /\ lease.expires = now + Lease /\ lease.held
  BY Durations DEF ProofInit, LeaseTypes
<1>2. issue \in [Issues -> IssueRecords]
  BY DEF ProofInit, IssueRecords, Places
<1>3. ASSUME NEW i \in Issues PROVE ~Observed(i)
  BY DEF ProofInit, Observed
<1>4. proofs = {} /\ lease.expires <= now + Lease
  BY <1>1, Durations DEF ProofInit, LeaseTypes
<1>. QED BY <1>1, <1>2, <1>3, <1>4 DEF ProofInv

----------------------------------------------------------------------------
\* A step of the clock or of the lease after which everything covered before is
\* still covered.
LEMMA LeaseStep ==
    ASSUME ProofInv, LeaseTypes', UNCHANGED reader,
           lease'.expires <= now' + Lease, lease'.held \/ lease'.gen \in released',
           \A g \in Int, t \in Int : Covered(g, t) => Covered(g, t)'
    PROVE  ProofInv'
<1>1. issue' = issue /\ proofs' = proofs
  BY DEF reader
<1>2. ASSUME NEW i \in Issues PROVE Observed(i)' => Covered(issue[i].gen, issue[i].expires)'
  <2>1. Observed(i) => Covered(issue[i].gen, issue[i].expires)
    BY DEF ProofInv
  <2>2. issue[i].gen \in Int /\ issue[i].expires \in Int
    BY DEF ProofInv, IssueRecords
  <2>3. Observed(i)' => Covered(issue[i].gen, issue[i].expires)
    BY <1>1, <2>1 DEF Observed
  <2>. QED BY <1>1, <2>2, <2>3 DEF Covered
<1>3. ASSUME NEW p \in proofs' PROVE p.gen \in Int /\ p.exp \in Int /\ Covered(p.gen, p.exp)'
  <2>1. p.gen \in Int /\ p.exp \in Int /\ Covered(p.gen, p.exp)
    BY <1>1, <1>3 DEF ProofInv
  <2>. QED BY <2>1 DEF Covered
<1>. QED BY <1>1, <1>2, <1>3 DEF ProofInv

LEMMA LeaseSteps ==
    ASSUME ProofInv, Elapse \/ Renew \/ GiveUp \/ Succeed
    PROVE  ProofInv'
<1>0. /\ LeaseTypes /\ lease.expires <= now + Lease /\ (lease.held \/ lease.gen \in released)
      /\ UNCHANGED reader
  BY DEF ProofInv, Elapse, Renew, GiveUp, Succeed
<1>1. CASE Elapse
  <2>1. now' = now + 1 /\ UNCHANGED <<skew, lease, released>>
    BY <1>1 DEF Elapse
  <2>2. LeaseTypes' /\ lease'.expires <= now' + Lease
    BY Durations, <1>0, <2>1 DEF LeaseTypes
  <2>3. \A g \in Int, t \in Int : Covered(g, t) => Covered(g, t)'
    BY <1>0, <2>1 DEF Covered, LeaseTypes
  <2>. QED BY <1>0, <2>1, <2>2, <2>3, LeaseStep
<1>2. CASE Renew
  <2>1. /\ UNCHANGED <<now, skew, released>>
        /\ lease' = [gen |-> lease.gen, expires |-> now + Lease, held |-> lease.held, terminal |-> lease.terminal]
    BY <1>0, <1>2 DEF Renew, LeaseTypes
  <2>2. LeaseTypes' /\ lease'.expires <= now' + Lease /\ (lease'.held \/ lease'.gen \in released')
    BY Durations, <1>0, <2>1 DEF LeaseTypes
  <2>3. \A g \in Int, t \in Int : Covered(g, t) => Covered(g, t)'
    BY Durations, <1>0, <2>1 DEF Covered, LeaseTypes
  <2>. QED BY <1>0, <2>2, <2>3, LeaseStep
<1>3. CASE GiveUp
  <2>1. PICK ends \in BOOLEAN : lease' = [lease EXCEPT !.held = FALSE, !.terminal = ends]
    BY <1>3 DEF GiveUp
  <2>2. /\ UNCHANGED <<now, skew>> /\ released' = released \cup {lease.gen}
        /\ lease' = [gen |-> lease.gen, expires |-> lease.expires, held |-> FALSE, terminal |-> ends]
    BY <1>0, <1>3, <2>1 DEF GiveUp, LeaseTypes
  <2>3. LeaseTypes' /\ lease'.expires <= now' + Lease /\ (lease'.held \/ lease'.gen \in released')
    BY <1>0, <2>2 DEF LeaseTypes
  <2>4. \A g \in Int, t \in Int : Covered(g, t) => Covered(g, t)'
    BY <1>0, <2>2 DEF Covered, LeaseTypes
  <2>. QED BY <1>0, <2>3, <2>4, LeaseStep
<1>4. CASE Succeed
  <2>1. /\ UNCHANGED <<now, skew, released>>
        /\ lease' = [gen |-> lease.gen + 1, expires |-> now + Lease, held |-> TRUE, terminal |-> lease.terminal]
    BY <1>0, <1>4 DEF Succeed, LeaseTypes
  <2>2. LeaseTypes' /\ lease'.expires <= now' + Lease /\ lease'.held
    BY Durations, <1>0, <2>1 DEF LeaseTypes
  \* Whoever takes a lease over that was not given up has waited for its expiry.
  <2>3. lease.gen \notin released => lease.expires <= now
    BY <1>0, <1>4 DEF Succeed, Live, LeaseTypes
  <2>4. \A g \in Int, t \in Int : Covered(g, t) => Covered(g, t)'
    BY <1>0, <2>1, <2>3 DEF Covered, LeaseTypes
  <2>. QED BY <1>0, <2>2, <2>4, LeaseStep
<1>. QED BY <1>1, <1>2, <1>3, <1>4

----------------------------------------------------------------------------
\* A step of one call: the others keep what they observed.
LEMMA CallStep ==
    ASSUME ProofInv, NEW i \in Issues, NEW r \in IssueRecords, issue' = [issue EXCEPT ![i] = r],
           UNCHANGED <<now, skew, lease, released>>,
           r.ok /\ r.pc \in {"cleanup", "return"} => Covered(r.gen, r.expires),
           \A p \in proofs' : p \in proofs \/ (p.gen \in Int /\ p.exp \in Int /\ Covered(p.gen, p.exp))
    PROVE  ProofInv'
<1>1. LeaseTypes' /\ lease'.expires <= now' + Lease /\ (lease'.held \/ lease'.gen \in released')
  BY DEF ProofInv, LeaseTypes
<1>2. issue' \in [Issues -> IssueRecords]
  BY DEF ProofInv
<1>3. ASSUME NEW k \in Issues PROVE Observed(k)' => Covered(issue[k].gen, issue[k].expires)'
  <2>1. CASE k = i
    <3>1. issue'[k] = r
      BY <2>1 DEF ProofInv
    <3>. QED BY <3>1 DEF Observed, Covered
  <2>2. CASE k # i
    <3>1. issue'[k] = issue[k]
      BY <2>2 DEF ProofInv
    <3>2. Observed(k) => Covered(issue[k].gen, issue[k].expires)
      BY DEF ProofInv
    <3>. QED BY <3>1, <3>2 DEF Observed, Covered
  <2>. QED BY <2>1, <2>2
<1>4. ASSUME NEW p \in proofs' PROVE p.gen \in Int /\ p.exp \in Int /\ Covered(p.gen, p.exp)'
  <2>1. p.gen \in Int /\ p.exp \in Int /\ Covered(p.gen, p.exp)
    BY <1>4 DEF ProofInv
  <2>. QED BY <2>1 DEF Covered
<1>. QED BY <1>1, <1>2, <1>3, <1>4 DEF ProofInv

\* Moving on without an observation: what the call holds was covered before.
LEMMA MoveStep ==
    ASSUME ProofInv, NEW i \in Issues, NEW p \in Places,
           \/ Fails(i, p)
           \/ Goes(i, p) /\ (p \notin {"cleanup", "return"} \/ issue[i].pc \in {"cleanup", "return"}),
           UNCHANGED <<now, skew, lease, released>>,
           \A q \in proofs' : q \in proofs \/ (q.gen \in Int /\ q.exp \in Int /\ Covered(q.gen, q.exp))
    PROVE  ProofInv'
<1>1. issue[i] \in IssueRecords /\ (Observed(i) => Covered(issue[i].gen, issue[i].expires))
  BY DEF ProofInv
<1>2. CASE Fails(i, p)
  <2>. DEFINE r == [issue[i] EXCEPT !.pc = p, !.ok = FALSE]
  <2>1. issue' = [issue EXCEPT ![i] = r]
    BY <1>2 DEF Fails
  <2>2. r \in IssueRecords /\ r.ok = FALSE
    BY <1>1 DEF IssueRecords
  <2>. HIDE DEF r
  <2>. QED BY <2>1, <2>2, CallStep
<1>3. CASE Goes(i, p) /\ (p \notin {"cleanup", "return"} \/ issue[i].pc \in {"cleanup", "return"})
  <2>. DEFINE r == [issue[i] EXCEPT !.pc = p]
  <2>1. issue' = [issue EXCEPT ![i] = r]
    BY <1>3 DEF Goes
  <2>2. r \in IssueRecords /\ r.pc = p /\ r.ok = issue[i].ok /\ r.gen = issue[i].gen /\ r.expires = issue[i].expires
    BY <1>1 DEF IssueRecords
  <2>. HIDE DEF r
  <2>3. r.ok /\ r.pc \in {"cleanup", "return"} => Covered(r.gen, r.expires)
    BY <1>1, <1>3, <2>2 DEF Observed
  <2>. QED BY <2>1, <2>2, <2>3, CallStep
<1>. QED BY <1>2, <1>3

\* A step that only moves connections.
LEMMA RestStep ==
    ASSUME ProofInv, UNCHANGED <<now, skew, lease, released, issue, proofs>>
    PROVE  ProofInv'
BY DEF ProofInv, LeaseTypes, Observed, Covered

LEMMA ReaderSteps ==
    ASSUME ProofInv, NEW i \in Issues, Call(i) \/ Connected(i) \/ Query(i) \/ Interrupt(i) \/ Cleanup(i)
    PROVE  ProofInv'
<1>0. issue[i] \in IssueRecords /\ LeaseTypes /\ UNCHANGED <<now, skew, lease, released, proofs>>
  BY DEF ProofInv, Call, Connected, Query, Interrupt, Cleanup
<1>1. CASE Call(i)
  <2>1. PICK g \in 1..lease.gen : issue' = [issue EXCEPT ![i].pc = "connect", ![i].gen = g]
    BY <1>1 DEF Call
  <2>. DEFINE r == [issue[i] EXCEPT !.pc = "connect", !.gen = g]
  <2>2. issue' = [issue EXCEPT ![i] = r]
    BY <2>1 DEF ProofInv
  <2>3. g \in Int
    BY <1>0 DEF LeaseTypes
  <2>4. r \in IssueRecords /\ r.pc = "connect"
    BY <1>0, <2>3 DEF IssueRecords, Places
  <2>. HIDE DEF r
  <2>. QED BY <1>0, <2>2, <2>4, CallStep
<1>2. CASE Connected(i)
  <2>1. Goes(i, "query")
    BY <1>2 DEF Connected
  <2>. QED BY <1>0, <2>1, MoveStep DEF Places
<1>3. CASE Query(i)
  <2>1. CASE Current(i)
    <3>. DEFINE r == [issue[i] EXCEPT !.pc = "cleanup", !.seen = now, !.expires = lease.expires]
    <3>1. issue' = [issue EXCEPT ![i] = r]
      BY <1>3, <2>1 DEF Query, ProofInv
    <3>2. r \in IssueRecords /\ r.gen = issue[i].gen /\ r.expires = lease.expires
      BY <1>0 DEF IssueRecords, Places, LeaseTypes
    <3>. HIDE DEF r
    <3>3. Covered(r.gen, r.expires)
      BY <1>0, <2>1, <3>2 DEF Covered, Current, LeaseTypes
    <3>. QED BY <1>0, <3>1, <3>2, <3>3, CallStep
  <2>2. CASE ~Current(i)
    <3>1. Fails(i, "cleanup")
      BY <1>3, <2>2 DEF Query
    <3>. QED BY <1>0, <3>1, MoveStep DEF Places
  <2>. QED BY <2>1, <2>2
<1>4. CASE Interrupt(i)
  <2>1. Fails(i, "cleanup")
    BY <1>4 DEF Interrupt
  <2>. QED BY <1>0, <2>1, MoveStep DEF Places
<1>5. CASE Cleanup(i)
  <2>1. issue[i].pc = "cleanup"
    BY <1>5 DEF Cleanup
  <2>2. Goes(i, "return") \/ Fails(i, "return") \/ UNCHANGED issue
    BY <1>5 DEF Cleanup, Collects, Closes, EndClose
  <2>3. CASE Goes(i, "return") \/ Fails(i, "return")
    BY <1>0, <2>1, <2>3, MoveStep DEF Places
  <2>4. CASE UNCHANGED issue
    BY <1>0, <2>4, RestStep
  <2>. QED BY <2>2, <2>3, <2>4
<1>. QED BY <1>1, <1>2, <1>3, <1>4, <1>5

\* A proof expires no later than the lease its reader observed.
LEMMA SignStep ==
    ASSUME ProofInv, NEW i \in Issues, Sign(i)
    PROVE  ProofInv'
<1>1. issue[i].pc = "return" /\ Goes(i, "done") /\ UNCHANGED <<now, skew, lease, released>>
  BY DEF Sign
<1>2. CASE ~Signable(i)
  <2>1. proofs' = proofs
    BY <1>2 DEF Sign
  <2>. QED BY <1>1, <2>1, MoveStep DEF Places
<1>3. CASE Signable(i)
  <2>. DEFINE p == [gen |-> issue[i].gen, iat |-> AppNow, exp |-> Expiry(i)]
  <2>1. proofs' = proofs \cup {p}
    BY <1>3 DEF Sign
  <2>2. Observed(i) /\ Covered(issue[i].gen, issue[i].expires) /\ issue[i] \in IssueRecords /\ LeaseTypes
    BY <1>1, <1>3 DEF Signable, Observed, ProofInv
  <2>3. Expiry(i) \in Int /\ Expiry(i) <= issue[i].expires
    BY Durations, <2>2 DEF Expiry, Lesser, AppNow, IssueRecords, LeaseTypes
  <2>4. p.gen \in Int /\ p.exp \in Int /\ Covered(p.gen, p.exp)
    BY <2>2, <2>3 DEF Covered, IssueRecords, LeaseTypes
  <2>. HIDE DEF p
  <2>. QED BY <1>1, <2>1, <2>4, MoveStep DEF Places
<1>. QED BY <1>2, <1>3

----------------------------------------------------------------------------
LEMMA ProofInvStep == ProofInv /\ [ProofNext]_proofVars => ProofInv'
<1>. SUFFICES ASSUME ProofInv, [ProofNext]_proofVars PROVE ProofInv'
  OBVIOUS
<1>1. CASE UNCHANGED proofVars
  BY <1>1, RestStep DEF proofVars
<1>2. CASE Elapse \/ Renew \/ GiveUp \/ Succeed
  BY <1>2, LeaseSteps
<1>3. ASSUME NEW i \in Issues, Call(i) \/ Connected(i) \/ Query(i) \/ Interrupt(i) \/ Cleanup(i)
      PROVE  ProofInv'
  BY <1>3, ReaderSteps
<1>4. ASSUME NEW i \in Issues, Sign(i) PROVE ProofInv'
  BY <1>4, SignStep
<1>. QED BY <1>1, <1>2, <1>3, <1>4 DEF ProofNext

\* By the database clock no proof of a generation is valid once a later one took
\* the run over from its expired lease, whatever the application clock shows and
\* however long the reader and the signer took.
THEOREM ProofsEnd == ProofSpec => []ProofEndsWithLease
BY ProofInvInit, ProofInvStep, ProofInvSays, PTL DEF ProofSpec
-----------------------------------------------------------------------------
(* The scope of model calls *)

ScopeTypes ==
    /\ pc \in [Tasks -> {"none", "spawned", "run", "prepare", "done"}]
    /\ owner \in [Requests -> Calls \cup {Nobody}]
    /\ final \in [Calls -> [claimant : Requests \cup {Nobody}, denied : BOOLEAN, closed : BOOLEAN]]
    /\ active \subseteq Tasks

\* A task at work is registered; a request that prepares or has prepared is the
\* claimant of its call, and one that has prepared is at its end.
Works == \A t \in Tasks : pc[t] \in {"run", "prepare"} => t \in active
Claimant(r) ==
    /\ pc[r] \in {"spawned", "prepare"} \/ r \in prepared => owner[r] \in Calls
    /\ pc[r] = "prepare" \/ r \in prepared => final[owner[r]].claimant = r
    /\ r \in prepared => pc[r] = "done"
\* What has settled stays so: nothing registers any more.
Quiescent == runner \in {"finish", "raised", "terminal"} => phase = "settled" /\ active = {}

ScopeInv == ScopeTypes /\ Works /\ Quiescent /\ \A r \in Requests : Claimant(r)

LEMMA ScopeSays == ScopeInv => ScopeIsQuiet
<1>. SUFFICES ASSUME ScopeInv PROVE ScopeIsQuiet
  OBVIOUS
<1>1. runner \in {"finish", "terminal", "raised"} => Running = {}
  BY DEF ScopeInv, Works, Quiescent, Running
<1>2. ASSUME NEW c \in Calls
      PROVE  Cardinality({r \in Requests : owner[r] = c /\ (r \in prepared \/ pc[r] = "prepare")}) <= 1
  <2>. DEFINE S == {r \in Requests : owner[r] = c /\ (r \in prepared \/ pc[r] = "prepare")}
              T == {final[c].claimant}
  <2>1. S \subseteq T
    BY DEF ScopeInv, Claimant
  <2>2. IsFiniteSet(T) /\ Cardinality(T) = 1
    BY FS_Singleton
  <2>. HIDE DEF S, T
  <2>3. Cardinality(S) <= 1
    BY <2>1, <2>2, FS_Subset
  <2>. QED BY <2>3 DEF S
<1>. QED BY <1>1, <1>2 DEF ScopeIsQuiet

LEMMA ScopeInvInit == ScopeInit => ScopeInv
BY DEF ScopeInit, ScopeInv, ScopeTypes, Works, Quiescent, Claimant, Tasks

\* What a step does to the place of one task and to the scope of one call.
LEMMA Moved ==
    ASSUME ScopeInv, NEW t \in Tasks, NEW p \in {"none", "spawned", "run", "prepare", "done"}, Moves(t, p)
    PROVE  /\ pc' \in [Tasks -> {"none", "spawned", "run", "prepare", "done"}]
           /\ \A u \in Tasks : pc'[u] = IF u = t THEN p ELSE pc[u]
BY DEF ScopeInv, ScopeTypes, Moves

LEMMA Disjoint == Requests \subseteq Tasks /\ Calls \subseteq Tasks /\ Driver \in Tasks
                  /\ \A r \in Requests : r \notin Calls /\ r # Driver /\ r # Nobody
BY ScopeAssumption DEF Tasks

\* A step of a task that is no request, or of a request that prepares nothing,
\* leaves the claims alone.
KeepsFinal ==
    /\ final' \in [Calls -> [claimant : Requests \cup {Nobody}, denied : BOOLEAN, closed : BOOLEAN]]
    /\ \A c \in Calls : final[c].claimant # Nobody => final'[c].claimant = final[c].claimant

\* Closing the scope of a call or denying it leaves its claimant.
LEMMA FinalMarked ==
    ASSUME ScopeInv, NEW c \in Calls,
           \/ final' = final
           \/ final' = [final EXCEPT ![c].closed = TRUE]
           \/ final' = [final EXCEPT ![c].denied = TRUE]
    PROVE  KeepsFinal
<1>1. final \in [Calls -> [claimant : Requests \cup {Nobody}, denied : BOOLEAN, closed : BOOLEAN]]
  BY DEF ScopeInv, ScopeTypes
<1>2. CASE final' = final
  BY <1>1, <1>2 DEF KeepsFinal
<1>3. CASE final' = [final EXCEPT ![c].closed = TRUE]
  BY <1>1, <1>3 DEF KeepsFinal
<1>4. CASE final' = [final EXCEPT ![c].denied = TRUE]
  BY <1>1, <1>4 DEF KeepsFinal
<1>. QED BY <1>2, <1>3, <1>4

LEMMA ClaimsKept ==
    ASSUME ScopeInv, NEW r \in Requests, KeepsFinal, UNCHANGED owner,
           pc'[r] \in {"spawned", "prepare"} => pc'[r] = pc[r],
           r \in prepared' => r \in prepared, pc[r] = "done" => pc'[r] = "done"
    PROVE  Claimant(r)'
BY Disjoint DEF ScopeInv, Claimant, KeepsFinal

\* A registered or finished task is where the scope says.
LEMMA RegisterKeeps ==
    ASSUME ScopeInv, NEW t \in Tasks, NEW p \in {"run", "prepare"}, Register(t, p),
           phase' = phase, runner' = runner \/ runner' = "native"
    PROVE  Works' /\ Quiescent' /\ active' \subseteq Tasks /\ (\E q \in {p, "done"} : Moves(t, q))
<1>1. CASE phase = "accepting"
  <2>1. active' = active \cup {t} /\ Moves(t, p)
    BY <1>1 DEF Register
  <2>2. Works'
    BY <2>1, Moved DEF ScopeInv, Works
  <2>3. Quiescent'
    BY <1>1 DEF ScopeInv, Quiescent
  <2>. QED BY <2>1, <2>2, <2>3 DEF ScopeInv, ScopeTypes
<1>2. CASE phase # "accepting"
  <2>1. active' = active /\ Moves(t, "done")
    BY <1>2 DEF Register
  <2>2. Works'
    BY <2>1, Moved DEF ScopeInv, Works
  <2>3. Quiescent'
    BY <2>1 DEF ScopeInv, Quiescent
  <2>. QED BY <2>1, <2>2, <2>3 DEF ScopeInv, ScopeTypes
<1>. QED BY <1>1, <1>2

LEMMA EndsKeeps ==
    ASSUME ScopeInv, NEW t \in Tasks, Ends(t), UNCHANGED <<phase, runner>>
    PROVE  Works' /\ Quiescent' /\ active' \subseteq Tasks /\ Moves(t, "done")
<1>1. active' = active \ {t} /\ Moves(t, "done")
  BY DEF Ends
<1>2. Works'
  BY <1>1, Moved DEF ScopeInv, Works
<1>. QED BY <1>1, <1>2 DEF ScopeInv, ScopeTypes, Quiescent

LEMMA CallTaskStep ==
    ASSUME ScopeInv, NEW c \in Calls, SpawnCall(c) \/ EnterCall(c) \/ EndCall(c)
    PROVE  ScopeInv'
<1>0. UNCHANGED <<runner, phase, owner, prepared>> /\ KeepsFinal
  BY FinalMarked DEF SpawnCall, EnterCall, EndCall
<1>1. Works' /\ Quiescent' /\ active' \subseteq Tasks /\ \E p \in {"spawned", "run", "done"} : Moves(c, p)
  <2>1. CASE SpawnCall(c)
    <3>1. Moves(c, "spawned") /\ UNCHANGED <<active, phase, runner>>
      BY <2>1 DEF SpawnCall
    <3>2. Works'
      BY <3>1, Moved, Disjoint DEF ScopeInv, Works
    <3>. QED BY <3>1, <3>2 DEF ScopeInv, ScopeTypes, Quiescent
  <2>2. CASE EnterCall(c)
    BY <1>0, <2>2, RegisterKeeps, Disjoint DEF EnterCall
  <2>3. CASE EndCall(c)
    BY <1>0, <2>3, EndsKeeps, Disjoint DEF EndCall
  <2>. QED BY <2>1, <2>2, <2>3
<1>2. ScopeTypes'
  BY <1>0, <1>1, Moved, Disjoint DEF ScopeInv, ScopeTypes, KeepsFinal
<1>3. ASSUME NEW r \in Requests PROVE Claimant(r)'
  <2>1. pc'[r] = pc[r]
    BY <1>1, Moved, Disjoint
  <2>. QED BY <1>0, <2>1, ClaimsKept
<1>. QED BY <1>1, <1>2, <1>3 DEF ScopeInv

LEMMA DriverStep ==
    ASSUME ScopeInv, StartNative \/ EndDriver
    PROVE  ScopeInv'
<1>0. UNCHANGED <<phase, owner, prepared, final>> /\ KeepsFinal
  BY DEF StartNative, EndDriver, KeepsFinal, ScopeInv, ScopeTypes
<1>1. Works' /\ Quiescent' /\ active' \subseteq Tasks /\ \E p \in {"run", "done"} : Moves(Driver, p)
  <2>1. CASE StartNative
    BY <1>0, <2>1, RegisterKeeps, Disjoint DEF StartNative
  <2>2. CASE EndDriver
    BY <1>0, <2>2, EndsKeeps, Disjoint DEF EndDriver
  <2>. QED BY <2>1, <2>2
<1>2. ScopeTypes'
  BY <1>0, <1>1, Moved, Disjoint DEF ScopeInv, ScopeTypes
<1>3. ASSUME NEW r \in Requests PROVE Claimant(r)'
  <2>1. pc'[r] = pc[r]
    BY <1>1, Moved, Disjoint
  <2>. QED BY <1>0, <2>1, ClaimsKept
<1>. QED BY <1>1, <1>2, <1>3 DEF ScopeInv

LEMMA SpawnRequestStep ==
    ASSUME ScopeInv, NEW q \in Requests, NEW c \in Calls, SpawnRequest(q, c)
    PROVE  ScopeInv'
<1>1. Moves(q, "spawned") /\ owner' = [owner EXCEPT ![q] = c] /\ pc[q] = "none"
      /\ UNCHANGED <<runner, phase, active, cancelled, final, prepared>>
  BY DEF SpawnRequest
<1>2. ScopeTypes'
  BY <1>1, Moved, Disjoint DEF ScopeInv, ScopeTypes
<1>3. Works' /\ Quiescent'
  BY <1>1, Moved, Disjoint DEF ScopeInv, Works, Quiescent
<1>4. ASSUME NEW r \in Requests PROVE Claimant(r)'
  <2>1. CASE r = q
    <3>1. pc'[r] = "spawned" /\ owner'[r] = c /\ r \notin prepared'
      BY <1>1, <2>1, Moved, Disjoint DEF ScopeInv, ScopeTypes, Claimant
    <3>. QED BY <3>1 DEF Claimant
  <2>2. CASE r # q
    <3>1. pc'[r] = pc[r] /\ owner'[r] = owner[r]
      BY <1>1, <2>2, Moved, Disjoint DEF ScopeInv, ScopeTypes
    <3>. QED BY <1>1, <3>1 DEF ScopeInv, Claimant
  <2>. QED BY <2>1, <2>2
<1>. QED BY <1>2, <1>3, <1>4 DEF ScopeInv

\* Only a request that finds its call unclaimed becomes the claimant.
LEMMA FreezeStep ==
    ASSUME ScopeInv, NEW q \in Requests, Freeze(q)
    PROVE  ScopeInv'
<1>. DEFINE c == owner[q]
<1>1. pc[q] = "spawned" /\ c \in Calls /\ q \in Tasks /\ UNCHANGED <<runner, phase, owner, prepared>>
  BY Disjoint DEF Freeze, ScopeInv, Claimant
<1>2. KeepsFinal /\ Works' /\ Quiescent' /\ active' \subseteq Tasks
      /\ \/ Moves(q, "done")
         \/ Moves(q, "prepare") /\ final'[c].claimant = q
  <2>1. CASE ~Open(c)
    <3>1. Moves(q, "done") /\ UNCHANGED active
          /\ final' = IF c \in cancelled THEN final ELSE [final EXCEPT ![c].denied = TRUE]
      BY <2>1 DEF Freeze
    <3>2. KeepsFinal
      BY <1>1, <3>1 DEF KeepsFinal, ScopeInv, ScopeTypes
    <3>3. Works' /\ Quiescent'
      BY <1>1, <3>1, Moved DEF ScopeInv, Works, Quiescent
    <3>. QED BY <3>1, <3>2, <3>3 DEF ScopeInv, ScopeTypes
  <2>2. CASE Open(c) /\ ~Claims(c)
    <3>1. Moves(q, "done") /\ UNCHANGED active
          /\ final' = [final EXCEPT ![c].closed = TRUE, ![c].denied = TRUE]
      BY <2>2 DEF Freeze
    <3>2. KeepsFinal
      BY <1>1, <3>1 DEF KeepsFinal, ScopeInv, ScopeTypes
    <3>3. Works' /\ Quiescent'
      BY <1>1, <3>1, Moved DEF ScopeInv, Works, Quiescent
    <3>. QED BY <3>1, <3>2, <3>3 DEF ScopeInv, ScopeTypes
  <2>3. CASE Open(c) /\ Claims(c)
    <3>1. Register(q, "prepare") /\ final' = [final EXCEPT ![c].claimant = q] /\ final[c].claimant = Nobody
      BY <2>3 DEF Freeze, Claims
    <3>2. KeepsFinal /\ final'[c].claimant = q
      BY <1>1, <3>1 DEF KeepsFinal, ScopeInv, ScopeTypes
    <3>3. Works' /\ Quiescent' /\ active' \subseteq Tasks /\ (\E p \in {"prepare", "done"} : Moves(q, p))
      BY <1>1, <3>1, RegisterKeeps
    <3>. QED BY <3>2, <3>3
  <2>. QED BY <2>1, <2>2, <2>3
<1>3. ScopeTypes'
  BY <1>1, <1>2, Moved DEF ScopeInv, ScopeTypes, KeepsFinal
<1>4. ASSUME NEW r \in Requests PROVE Claimant(r)'
  <2>1. CASE r = q
    <3>1. r \notin prepared'
      BY <1>1, <2>1 DEF ScopeInv, Claimant
    <3>2. pc'[r] = "done" \/ (pc'[r] = "prepare" /\ final'[c].claimant = r)
      BY <1>1, <1>2, <2>1, Moved
    <3>. QED BY <1>1, <2>1, <3>1, <3>2 DEF Claimant
  <2>2. CASE r # q
    <3>1. pc'[r] = pc[r]
      BY <1>1, <1>2, <2>2, Moved, Disjoint
    <3>. QED BY <1>1, <1>2, <3>1, ClaimsKept
  <2>. QED BY <2>1, <2>2
<1>. QED BY <1>2, <1>3, <1>4 DEF ScopeInv

LEMMA PrepareStep ==
    ASSUME ScopeInv, NEW q \in Requests, PrepareRequest(q)
    PROVE  ScopeInv'
<1>1. pc[q] = "prepare" /\ Ends(q) /\ prepared' \in {prepared, prepared \cup {q}}
      /\ UNCHANGED <<runner, phase, cancelled, owner>>
      /\ final' \in {[final EXCEPT ![owner[q]].denied = TRUE], final}
  BY DEF PrepareRequest
<1>2. q \in Tasks /\ owner[q] \in Calls /\ final[owner[q]].claimant = q
  BY <1>1, Disjoint DEF ScopeInv, Claimant
<1>3. Works' /\ Quiescent' /\ active' \subseteq Tasks /\ Moves(q, "done")
  BY <1>1, <1>2, EndsKeeps
<1>4. KeepsFinal
  BY <1>1, <1>2, FinalMarked
<1>5. ScopeTypes'
  BY <1>1, <1>2, <1>3, <1>4, Moved DEF ScopeInv, ScopeTypes, KeepsFinal
<1>6. ASSUME NEW r \in Requests PROVE Claimant(r)'
  <2>1. CASE r = q
    <3>1. pc'[r] = "done" /\ final'[owner[r]].claimant = r
      BY <1>2, <1>3, <1>4, <2>1, Moved, Disjoint DEF KeepsFinal
    <3>. QED BY <1>1, <1>2, <2>1, <3>1 DEF Claimant
  <2>2. CASE r # q
    <3>1. pc'[r] = pc[r] /\ (r \in prepared' => r \in prepared)
      BY <1>1, <1>2, <1>3, <2>2, Moved, Disjoint
    <3>. QED BY <1>1, <1>4, <3>1, ClaimsKept
  <2>. QED BY <2>1, <2>2
<1>. QED BY <1>3, <1>5, <1>6 DEF ScopeInv

LEMMA RunnerStep ==
    ASSUME ScopeInv, NativeReturns \/ RunCancelled \/ Settled \/ Deadline \/ Finalize
    PROVE  ScopeInv'
<1>1. UNCHANGED <<active, pc, owner, final, prepared>>
  BY DEF NativeReturns, RunCancelled, Settled, Deadline, Finalize
<1>2. Quiescent'
  BY DEF NativeReturns, RunCancelled, Settled, Deadline, Finalize, Settle, Drained, ScopeInv, Quiescent
<1>3. ScopeTypes' /\ Works' /\ \A r \in Requests : Claimant(r)'
  BY <1>1 DEF ScopeInv, ScopeTypes, Works, Claimant
<1>. QED BY <1>2, <1>3 DEF ScopeInv

LEMMA ScopeInvStep == ScopeInv /\ [ScopeNext]_scopeVars => ScopeInv'
<1>. SUFFICES ASSUME ScopeInv, [ScopeNext]_scopeVars PROVE ScopeInv'
  OBVIOUS
<1>1. CASE UNCHANGED scopeVars
  BY <1>1 DEF scopeVars, ScopeInv, ScopeTypes, Works, Quiescent, Claimant
<1>. QED BY <1>1, CallTaskStep, DriverStep, SpawnRequestStep, FreezeStep, PrepareStep, RunnerStep
         DEF ScopeNext

\* When run_agent goes on to seal the usage and end the run, no task of its graph
\* is at work, and one model call prepares at most one attempt, for any number
\* of model nodes, of requests and of retries.
THEOREM ScopeSettles == ScopeSpec => []ScopeIsQuiet
BY ScopeInvInit, ScopeInvStep, ScopeSays, PTL DEF ScopeSpec

-----------------------------------------------------------------------------
(* Assemblies of agents *)

Builds == [pc : {"idle", "waiting", "holding", "done"},
           mgr : {"none", "building", "handle", "error", "finished", "settled"},
           claimed : {"open", "yes", "no"}, listed : BOOLEAN, mapped : BOOLEAN,
           run : {"none", "created", "running", "closing", "ended", "popped"},
           cleanup : {"none", "running", "ended", "settled"},
           handle : {"none", "open", "closed", "broken"}, closes : Nat]
AsmTyped == job \in [Jobs -> Builds] /\ errors \in BOOLEAN

\* An open handle is known to somebody drain waits for, or its run task was never
\* entered: the manager that built it, the holder that mapped it, its cleanup
\* task, or its run task.
Owned(r) ==
    r.handle = "open" =>
      \/ r.listed /\ r.mgr = "handle" /\ r.claimed # "yes"
      \/ r.listed /\ r.mapped
      \/ r.cleanup = "running"
      \/ r.run \in {"created", "running"}
      \/ r.run \in {"ended", "popped"} /\ r.closes = 0
\* The stages of a build: it is listed until it has a result, and claimed before
\* a run task exists.
Staged(r) ==
    /\ r.pc \in {"idle", "waiting"} => r.claimed = "open"
    /\ r.pc \in {"idle", "waiting", "holding"} => r.closes = 0 /\ r.run = "none"
    /\ r.pc = "holding" => r.claimed = "yes"
    /\ r.pc = "idle" <=> r.mgr = "none"
    /\ r.mgr = "building" => r.listed /\ r.claimed # "yes" /\ r.run = "none"
    /\ r.run # "none" => r.claimed = "yes"
    /\ r.run \in {"created", "running"} => r.closes = 0
Broken(r) == r.handle = "broken" => r.cleanup \in {"running", "ended"} \/ errors
AsmInv == AsmTyped /\ \A j \in Jobs : Owned(job[j]) /\ Staged(job[j]) /\ Broken(job[j])

LEMMA ReleaseIs ==
    ASSUME NEW b \in Builds
    PROVE  /\ Released(b) \in Builds /\ Released(b).pc = b.pc /\ Released(b).mgr = b.mgr
           /\ Released(b).claimed = b.claimed /\ Released(b).run = b.run /\ Released(b).cleanup = b.cleanup
           /\ Released(b).handle = b.handle /\ Released(b).closes = b.closes
<1>1. CASE b.mapped
  BY <1>1 DEF Builds, Released
<1>2. CASE ~b.mapped
  BY <1>2 DEF Builds, Released
<1>. QED BY <1>1, <1>2

LEMMA TrackIs ==
    ASSUME NEW b \in Builds
    PROVE  /\ Tracked(b) \in Builds /\ Tracked(b).pc = b.pc /\ Tracked(b).mgr = b.mgr
           /\ Tracked(b).claimed = b.claimed /\ Tracked(b).run = b.run /\ Tracked(b).cleanup = "running"
           /\ Tracked(b).handle = b.handle /\ Tracked(b).closes = b.closes + 1
<1>1. b.closes + 1 \in Nat
  BY DEF Builds
<1>2. [b EXCEPT !.cleanup = "running"] \in Builds
  BY DEF Builds
<1>. QED BY <1>1, <1>2 DEF Builds, Tracked

LEMMA JobChanges ==
    ASSUME AsmInv, NEW j \in Jobs, NEW r \in Builds, SetJob(j, r), Owned(r), Staged(r),
           errors' \in BOOLEAN, errors => errors',
           r.handle = "broken" => r.cleanup \in {"running", "ended"} \/ errors'
    PROVE  AsmInv'
<1>1. job' \in [Jobs -> Builds] /\ job'[j] = r /\ \A k \in Jobs \ {j} : job'[k] = job[k]
  BY DEF SetJob, AsmInv, AsmTyped
<1>2. ASSUME NEW k \in Jobs PROVE Owned(job'[k]) /\ Staged(job'[k]) /\ Broken(job[k])'
  BY <1>1 DEF AsmInv, Broken
<1>. QED BY <1>1, <1>2 DEF AsmInv, AsmTyped

\* Every open handle of a build has somebody who will close it, or a run task
\* nobody entered, at every step of AsmSpec.
THEOREM AssembliesAreKept == AsmSpec => []AsmInv
<1>1. AsmInit => AsmInv
  <2>. SUFFICES ASSUME AsmInit PROVE AsmInv
    OBVIOUS
  <2>. DEFINE r == [pc |-> "idle", mgr |-> "none", claimed |-> "open", listed |-> FALSE,
                    mapped |-> FALSE, run |-> "none", cleanup |-> "none", handle |-> "none", closes |-> 0]
  <2>1. r \in Builds /\ Owned(r) /\ Staged(r) /\ r.handle = "none"
    BY DEF Builds, Owned, Staged
  <2>2. job = [j \in Jobs |-> r] /\ errors = FALSE
    BY DEF AsmInit
  <2>. HIDE DEF r
  <2>. QED BY <2>1, <2>2 DEF AsmInv, AsmTyped, Broken
<1>2. AsmInv /\ [AsmNext]_asmVars => AsmInv'
  <2>. SUFFICES ASSUME AsmInv, [AsmNext]_asmVars PROVE AsmInv'
    OBVIOUS
  <2>1. ASSUME NEW j \in Jobs, JobNext(j) PROVE AsmInv'
    <3>. DEFINE b == job[j]
    <3>0. b \in Builds /\ Owned(b) /\ Staged(b) /\ (b.handle = "broken" => b.cleanup \in {"running", "ended"} \/ errors)
          /\ errors \in BOOLEAN
      BY DEF AsmInv, AsmTyped, Broken
    <3>1. CASE Build(j)
      <4>. DEFINE r == [b EXCEPT !.pc = "waiting", !.mgr = "building", !.listed = TRUE]
      <4>1. r \in Builds /\ Owned(r) /\ Staged(r) /\ (r.handle = "broken" => b.handle = "broken" /\ (r.cleanup = b.cleanup \/ r.cleanup = "running"))
        BY <3>0, <3>1 DEF Build, Builds, Owned, Staged
      <4>2. SetJob(j, r) /\ errors' = errors
        BY <3>1 DEF Build
      <4>. HIDE DEF r
      <4>. QED BY <3>0, <4>1, <4>2, JobChanges
    <3>2. CASE Built(j)
      <4>. DEFINE r1 == [b EXCEPT !.mgr = "handle", !.handle = "open"]
                  r2 == [b EXCEPT !.mgr = "error"]
      <4>1. CASE SetJob(j, r1)
        <5>1. r1 \in Builds /\ Owned(r1) /\ Staged(r1) /\ (r1.handle = "broken" => b.handle = "broken" /\ (r1.cleanup = b.cleanup \/ r1.cleanup = "running"))
          BY <3>0, <3>2, <4>1 DEF Built, Builds, Owned, Staged
        <5>2. errors' = errors
          BY <3>2 DEF Built
        <5>. HIDE DEF r1
        <5>. QED BY <3>0, <4>1, <5>1, <5>2, JobChanges
      <4>2. CASE SetJob(j, r2)
        <5>1. r2 \in Builds /\ Owned(r2) /\ Staged(r2) /\ (r2.handle = "broken" => b.handle = "broken" /\ (r2.cleanup = b.cleanup \/ r2.cleanup = "running"))
          BY <3>0, <3>2, <4>2 DEF Built, Builds, Owned, Staged
        <5>2. errors' = errors
          BY <3>2 DEF Built
        <5>. HIDE DEF r2
        <5>. QED BY <3>0, <4>2, <5>1, <5>2, JobChanges
      <4>. QED BY <3>2, <4>1, <4>2 DEF Built
    <3>3. CASE Receive(j)
      <4>. DEFINE r1 == [b EXCEPT !.pc = "holding", !.mapped = TRUE, !.claimed = "yes"]
                  r2 == [b EXCEPT !.pc = "done", !.claimed = "yes"]
      <4>1. CASE SetJob(j, r1) /\ b.mgr = "handle"
        <5>1. r1 \in Builds /\ Owned(r1) /\ Staged(r1) /\ (r1.handle = "broken" => b.handle = "broken" /\ (r1.cleanup = b.cleanup \/ r1.cleanup = "running"))
          BY <3>0, <3>3, <4>1 DEF Receive, Builds, Owned, Staged
        <5>2. errors' = errors
          BY <3>3 DEF Receive
        <5>. HIDE DEF r1
        <5>. QED BY <3>0, <4>1, <5>1, <5>2, JobChanges
      <4>2. CASE SetJob(j, r2) /\ b.mgr = "error"
        <5>1. r2 \in Builds /\ Owned(r2) /\ Staged(r2) /\ (r2.handle = "broken" => b.handle = "broken" /\ (r2.cleanup = b.cleanup \/ r2.cleanup = "running"))
          BY <3>0, <3>3, <4>2 DEF Receive, Builds, Owned, Staged
        <5>2. errors' = errors
          BY <3>3 DEF Receive
        <5>. HIDE DEF r2
        <5>. QED BY <3>0, <4>2, <5>1, <5>2, JobChanges
      <4>. QED BY <3>3, <4>1, <4>2 DEF Receive
    <3>4. CASE AbandonBuild(j)
      <4>. DEFINE r == [b EXCEPT !.pc = "done", !.claimed = "no"]
      <4>1. r \in Builds /\ Owned(r) /\ Staged(r) /\ (r.handle = "broken" => b.handle = "broken" /\ (r.cleanup = b.cleanup \/ r.cleanup = "running"))
        BY <3>0, <3>4 DEF AbandonBuild, Builds, Owned, Staged
      <4>2. SetJob(j, r) /\ errors' = errors
        BY <3>4 DEF AbandonBuild
      <4>. HIDE DEF r
      <4>. QED BY <3>0, <4>1, <4>2, JobChanges
    <3>5. CASE Manager(j)
      <4>. DEFINE e == [b EXCEPT !.mgr = "finished"]
                  t == Tracked(e)
      <4>1. e \in Builds /\ e.pc = b.pc /\ e.mgr = "finished" /\ e.claimed = b.claimed /\ e.run = b.run /\ e.cleanup = b.cleanup
            /\ e.handle = b.handle /\ e.closes = b.closes /\ (e.listed <=> b.listed) /\ (e.mapped <=> b.mapped)
        BY <3>0 DEF Builds
      <4>2. /\ t \in Builds /\ t.pc = b.pc /\ t.mgr = "finished" /\ t.claimed = b.claimed /\ t.run = b.run /\ t.cleanup = "running"
            /\ t.handle = b.handle /\ t.closes = b.closes + 1
        <5>. HIDE DEF e
        <5>. QED BY <4>1, TrackIs
      <4>3. /\ b.mgr \in {"handle", "error"} /\ b.claimed # "open"
            /\ errors' \in BOOLEAN /\ (errors => errors')
        BY <3>0, <3>5 DEF Manager
      <4>4. IF b.claimed = "no" /\ b.mgr = "handle" THEN SetJob(j, t) ELSE SetJob(j, e)
        BY <3>5 DEF Manager
      <4>. HIDE DEF e, t
      <4>5. CASE b.claimed = "no" /\ b.mgr = "handle"
        <5>1. Owned(t) /\ Staged(t)
          BY <3>0, <4>2, <4>3, <4>5 DEF Owned, Staged, Builds
        <5>. QED BY <3>0, <4>2, <4>3, <4>4, <4>5, <5>1, JobChanges
      <4>6. CASE ~(b.claimed = "no" /\ b.mgr = "handle")
        <5>1. Owned(e) /\ Staged(e)
          BY <3>0, <4>1, <4>3, <4>6 DEF Owned, Staged, Builds
        <5>. QED BY <3>0, <4>1, <4>3, <4>4, <4>6, <5>1, JobChanges
      <4>. QED BY <4>5, <4>6
    <3>6. CASE SettleManager(j)
      <4>. DEFINE r == [b EXCEPT !.mgr = "settled", !.listed = @ /\ Keeps(j)]
      <4>1. r \in Builds /\ Owned(r) /\ Staged(r) /\ (r.handle = "broken" => b.handle = "broken" /\ (r.cleanup = b.cleanup \/ r.cleanup = "running"))
        BY <3>0, <3>6 DEF SettleManager, Keeps, Builds, Owned, Staged
      <4>2. SetJob(j, r) /\ errors' = errors
        BY <3>6 DEF SettleManager, Keeps
      <4>. HIDE DEF r
      <4>. QED BY <3>0, <4>1, <4>2, JobChanges
    <3>7. CASE CloseHandle(j)
      <4>. DEFINE c == Closing(b)
                  r == [c EXCEPT !.pc = "done"]
      <4>1. /\ c \in Builds /\ c.pc = b.pc /\ c.mgr = b.mgr /\ c.claimed = b.claimed /\ c.run = b.run
            /\ c.cleanup = "running" /\ c.closes = b.closes + 1
        BY <3>0, ReleaseIs, TrackIs DEF Closing
      <4>2. SetJob(j, r) /\ errors' = errors /\ b.pc = "holding"
        BY <3>7 DEF CloseHandle
      <4>. HIDE DEF c
      <4>3. r \in Builds /\ Owned(r) /\ Staged(r) /\ r.cleanup = "running"
        BY <3>0, <4>1, <4>2 DEF Builds, Owned, Staged
      <4>. HIDE DEF r
      <4>. QED BY <3>0, <4>2, <4>3, JobChanges
    <3>8. CASE Spawn(j)
      <4>. DEFINE i == [b EXCEPT !.run = "created"]
                  c == Released(i)
                  r == [c EXCEPT !.pc = "done"]
      <4>1. i \in Builds /\ i.mgr = b.mgr /\ i.claimed = b.claimed /\ i.run = "created" /\ i.cleanup = b.cleanup
            /\ i.handle = b.handle /\ i.closes = b.closes
        BY <3>0 DEF Builds
      <4>2. /\ c \in Builds /\ c.mgr = b.mgr /\ c.claimed = b.claimed /\ c.run = "created" /\ c.cleanup = b.cleanup
            /\ c.handle = b.handle /\ c.closes = b.closes
        <5>. HIDE DEF i
        <5>. QED BY <4>1, ReleaseIs
      <4>3. SetJob(j, r) /\ errors' = errors /\ b.pc = "holding"
        BY <3>8 DEF Spawn, Transferred
      <4>. HIDE DEF c
      <4>4. r \in Builds /\ Owned(r) /\ Staged(r) /\ r.handle = b.handle /\ r.cleanup = b.cleanup
        BY <3>0, <4>2, <4>3 DEF Builds, Owned, Staged
      <4>. HIDE DEF r
      <4>. QED BY <3>0, <4>3, <4>4, JobChanges
    <3>9. CASE EnterRun(j)
      <4>. DEFINE r == [b EXCEPT !.run = "running"]
      <4>1. r \in Builds /\ Owned(r) /\ Staged(r) /\ (r.handle = "broken" => b.handle = "broken" /\ (r.cleanup = b.cleanup \/ r.cleanup = "running"))
        BY <3>0, <3>9 DEF EnterRun, Builds, Owned, Staged
      <4>2. SetJob(j, r) /\ errors' = errors
        BY <3>9 DEF EnterRun
      <4>. HIDE DEF r
      <4>. QED BY <3>0, <4>1, <4>2, JobChanges
    <3>10. CASE RunEnds(j)
      <4>. DEFINE c == Closing(b)
                  r == [c EXCEPT !.run = "closing"]
      <4>1. /\ c \in Builds /\ c.pc = b.pc /\ c.mgr = b.mgr /\ c.claimed = b.claimed /\ c.run = b.run
            /\ c.cleanup = "running" /\ c.closes = b.closes + 1
        BY <3>0, ReleaseIs, TrackIs DEF Closing
      <4>2. SetJob(j, r) /\ errors' = errors /\ b.run = "running"
        BY <3>10 DEF RunEnds
      <4>. HIDE DEF c
      <4>3. r \in Builds /\ Owned(r) /\ Staged(r) /\ r.cleanup = "running"
        BY <3>0, <4>1, <4>2 DEF Builds, Owned, Staged
      <4>. HIDE DEF r
      <4>. QED BY <3>0, <4>2, <4>3, JobChanges
    <3>11. CASE RunClosed(j)
      <4>. DEFINE r == [b EXCEPT !.run = "ended"]
      <4>1. r \in Builds /\ Owned(r) /\ Staged(r) /\ (r.handle = "broken" => b.handle = "broken" /\ (r.cleanup = b.cleanup \/ r.cleanup = "running"))
        BY <3>0, <3>11 DEF RunClosed, Builds, Owned, Staged
      <4>2. SetJob(j, r) /\ errors' = errors
        BY <3>11 DEF RunClosed
      <4>. HIDE DEF r
      <4>. QED BY <3>0, <4>1, <4>2, JobChanges
    <3>12. CASE CancelRun(j)
      <4>. DEFINE r == [b EXCEPT !.run = "ended"]
      <4>1. r \in Builds /\ Owned(r) /\ Staged(r) /\ (r.handle = "broken" => b.handle = "broken" /\ (r.cleanup = b.cleanup \/ r.cleanup = "running"))
        BY <3>0, <3>12 DEF CancelRun, Builds, Owned, Staged
      <4>2. SetJob(j, r) /\ errors' = errors
        BY <3>12 DEF CancelRun
      <4>. HIDE DEF r
      <4>. QED BY <3>0, <4>1, <4>2, JobChanges
    <3>13. CASE Pop(j)
      <4>. DEFINE r == [b EXCEPT !.run = "popped"]
      <4>1. r \in Builds /\ Owned(r) /\ Staged(r) /\ (r.handle = "broken" => b.handle = "broken" /\ (r.cleanup = b.cleanup \/ r.cleanup = "running"))
        BY <3>0, <3>13 DEF Pop, Builds, Owned, Staged
      <4>2. SetJob(j, r) /\ errors' = errors
        BY <3>13 DEF Pop
      <4>. HIDE DEF r
      <4>. QED BY <3>0, <4>1, <4>2, JobChanges
    <3>14. CASE Cleaned(j)
      <4>. DEFINE r1 == [b EXCEPT !.cleanup = "ended", !.handle = "closed"]
                  r2 == [b EXCEPT !.cleanup = "ended", !.handle = "broken"]
      <4>1. CASE SetJob(j, r1)
        <5>1. r1 \in Builds /\ Owned(r1) /\ Staged(r1) /\ (r1.cleanup = "ended")
          BY <3>0, <3>14, <4>1 DEF Cleaned, Builds, Owned, Staged
        <5>2. errors' = errors
          BY <3>14 DEF Cleaned
        <5>. HIDE DEF r1
        <5>. QED BY <3>0, <4>1, <5>1, <5>2, JobChanges
      <4>2. CASE SetJob(j, r2)
        <5>1. r2 \in Builds /\ Owned(r2) /\ Staged(r2) /\ (r2.cleanup = "ended")
          BY <3>0, <3>14, <4>2 DEF Cleaned, Builds, Owned, Staged
        <5>2. errors' = errors
          BY <3>14 DEF Cleaned
        <5>. HIDE DEF r2
        <5>. QED BY <3>0, <4>2, <5>1, <5>2, JobChanges
      <4>. QED BY <3>14, <4>1, <4>2 DEF Cleaned
    <3>15. CASE CleanupSettled(j)
      <4>. DEFINE r == [b EXCEPT !.cleanup = "settled"]
      <4>1. r \in Builds /\ Owned(r) /\ Staged(r) /\ (r.handle = b.handle)
        BY <3>0, <3>15 DEF CleanupSettled, Builds, Owned, Staged
      <4>2. SetJob(j, r) /\ errors' = (errors \/ b.handle = "broken")
        BY <3>15 DEF CleanupSettled
      <4>. HIDE DEF r
      <4>. QED BY <3>0, <4>1, <4>2, JobChanges
    <3>. QED BY <2>1, <3>1, <3>2, <3>3, <3>4, <3>5, <3>6, <3>7, <3>8, <3>9, <3>10, <3>11, <3>12, <3>13, <3>14, <3>15 DEF JobNext
  <2>2. CASE Sigterm \/ DrainDeadline \/ Look \/ Again \/ GiveUpDrain \/ UNCHANGED asmVars
    <3>1. UNCHANGED <<job, errors>>
      BY <2>2 DEF Sigterm, DrainDeadline, Look, Again, GiveUpDrain, asmVars
    <3>. QED BY <3>1 DEF AsmInv, AsmTyped, Broken
  <2>. QED BY <2>1, <2>2 DEF AsmNext
<1>. QED BY <1>1, <1>2, PTL DEF AsmSpec

\* When drain has returned true, every handle this worker built has been closed
\* without an error, except of a run task that nobody entered and of one whose
\* place in _tasks another took (agent_assembly drain, worker/main.py).
THEOREM DrainCloses == AsmSpec => DrainMeansClosed
<1>. DEFINE Closed == \A j \in Jobs : job[j].handle \in {"none", "closed"} \/ NeverEntered(j) \/ Overwritten(j)
<1>1. AsmInv /\ [AsmNext]_asmVars => (drain' = "true" /\ drain # "true" => Closed)
  <2>. SUFFICES ASSUME AsmInv, [AsmNext]_asmVars, drain' = "true", drain # "true" PROVE Closed
    OBVIOUS
  <2>1. Again
    BY DEF AsmNext, asmVars, JobNext, Build, Built, Receive, AbandonBuild, Manager, SettleManager, CloseHandle, Spawn,
           EnterRun, RunEnds, RunClosed, CancelRun, Pop, Cleaned, CleanupSettled, Sigterm, DrainDeadline, Look, GiveUpDrain
  <2>2. Nothing /\ ~errors
    BY <2>1 DEF Again, Verdict
  <2>3. ASSUME NEW j \in Jobs PROVE job[j].handle \in {"none", "closed"} \/ NeverEntered(j) \/ Overwritten(j)
    <3>1. job[j] \in Builds /\ Owned(job[j]) /\ Broken(job[j])
      BY DEF AsmInv, AsmTyped
    <3>2. ~job[j].listed /\ job[j].cleanup \notin {"running", "ended"} /\ current # j
      BY <2>2, AssemblyAssumption DEF Nothing, Assemblies, Cleanups, Runs
    <3>. QED BY <2>2, <3>1, <3>2 DEF Owned, Broken, Builds, NeverEntered, Overwritten
  <2>. QED BY <2>3
<1>. QED BY <1>1, AssembliesAreKept, PTL DEF AsmSpec, DrainMeansClosed

-----------------------------------------------------------------------------
(* Usage of a model call *)

Exchanges == [pc : {"none", "claim", "sent", "stream", "ended", "broken"}, own : BOOLEAN,
              body : Bodies \cup {Unknown}, read : Nat]
Captures == [scope : {"new", "active", "closed"}, claimed : BOOLEAN, response : BOOLEAN, streaming : BOOLEAN,
             ended : BOOLEAN, failed : BOOLEAN, misuse : BOOLEAN, completed : BOOLEAN, buffer : Seq(STRING)]
UsageTyped == cap \in Captures /\ req \in [HttpRequests -> Exchanges]

Claimed(r) == req[r].pc \in {"sent", "stream", "ended", "broken"}
ExchangeSays(r) ==
    /\ req[r].body \in Bodies => req[r].read <= Len(req[r].body.events) /\ Claimed(r)
    /\ req[r].pc \in {"none", "claim", "sent"} => req[r].body = Unknown /\ req[r].read = 0
    /\ req[r].pc \in {"stream", "ended"} => req[r].body \in Bodies
    /\ req[r].pc = "ended" => req[r].read = Len(req[r].body.events)
\* As long as nothing has failed, one request has been claimed, for the route of the
\* capture, and the buffer is what has been read of its response.
Alone ==
    Attached /\ ~cap.failed =>
      /\ \A r \in HttpRequests : Claimed(r) => cap.claimed /\ req[r].own
      /\ \A r, q \in HttpRequests : Claimed(r) /\ Claimed(q) => r = q
Buffered ==
    Attached /\ ~cap.failed =>
      /\ cap.response => \E r \in HttpRequests : req[r].body \in Bodies
      /\ \A r \in HttpRequests : req[r].body \in Bodies =>
           /\ cap.response /\ cap.streaming = req[r].body.streaming /\ cap.buffer = Read(r)
           /\ cap.ended => req[r].pc = "ended"
      /\ cap.ended => \E r \in HttpRequests : req[r].pc = "ended"
      /\ ~cap.response => cap.buffer = <<>>
Undecided == cap.scope # "closed" => result = "pending"

UsageInv ==
    /\ UsageTyped /\ Alone /\ Buffered /\ Undecided /\ UsageIsOfThisCall
    /\ \A r \in HttpRequests : ExchangeSays(r)

LEMMA ReadIs ==
    ASSUME NEW s \in Seq(STRING), NEW n \in Nat, n <= Len(s)
    PROVE  /\ SubSeq(s, 1, n) \in Seq(STRING) /\ Len(SubSeq(s, 1, n)) = n
           /\ DOMAIN SubSeq(s, 1, n) = 1..n /\ \A i \in 1..n : SubSeq(s, 1, n)[i] = s[i]
<1>1. \A i \in 1..n : s[i] \in STRING
  <2>1. Len(s) \in Nat /\ \A i \in 1..Len(s) : s[i] \in STRING
    BY ElementOfSeq, LenProperties
  <2>. QED BY <2>1
<1>2. /\ SubSeq(s, 1, n) \in Seq(STRING) /\ Len(SubSeq(s, 1, n)) = IF 1 <= n THEN n - 1 + 1 ELSE 0
      /\ \A i \in 1..(n - 1 + 1) : SubSeq(s, 1, n)[i] = s[1 + i - 1]
  BY <1>1, SubSeqProperties
<1>3. Len(SubSeq(s, 1, n)) = n
  BY <1>2
<1>4. \A i \in 1..n : SubSeq(s, 1, n)[i] = s[i]
  BY <1>2
<1>5. DOMAIN SubSeq(s, 1, n) = 1..Len(SubSeq(s, 1, n))
  BY <1>2, LenProperties
<1>. QED BY <1>2, <1>3, <1>4, <1>5

LEMMA ReadMore ==
    ASSUME NEW s \in Seq(STRING), NEW n \in Nat, n < Len(s)
    PROVE  SubSeq(s, 1, n + 1) = Append(SubSeq(s, 1, n), s[n + 1])
<1>. DEFINE t == SubSeq(s, 1, n)
            u == SubSeq(s, 1, n + 1)
<1>0. Len(s) \in Nat /\ n + 1 \in Nat /\ n + 1 <= Len(s) /\ n <= Len(s)
  BY LenProperties
<1>1. t \in Seq(STRING) /\ Len(t) = n /\ \A i \in 1..n : t[i] = s[i]
  BY <1>0, ReadIs
<1>2. u \in Seq(STRING) /\ Len(u) = n + 1 /\ \A i \in 1..(n + 1) : u[i] = s[i]
  BY <1>0, ReadIs
<1>3. s[n + 1] \in STRING
  BY <1>0, ElementOfSeq
<1>. HIDE DEF t, u
<1>4. /\ Append(t, s[n + 1]) \in Seq(STRING) /\ Len(Append(t, s[n + 1])) = Len(t) + 1
      /\ \A i \in 1..Len(t) : Append(t, s[n + 1])[i] = t[i]
      /\ Append(t, s[n + 1])[Len(t) + 1] = s[n + 1]
  BY <1>1, <1>3, AppendProperties
<1>5. Len(u) = Len(Append(t, s[n + 1])) /\ \A i \in 1..Len(u) : u[i] = Append(t, s[n + 1])[i]
  BY <1>1, <1>2, <1>4
<1>6. u = Append(t, s[n + 1])
  BY <1>2, <1>4, <1>5, SeqEqual
<1>. QED BY <1>6 DEF t, u

\* Reading on shows more elements, but none that counts once the end was read.
LEMMA ReadOn ==
    ASSUME NEW s \in Seq(STRING), NEW n \in Nat, n < Len(s)
    PROVE  /\ ToSet(SubSeq(s, 1, n)) \subseteq ToSet(SubSeq(s, 1, n + 1))
           /\ "done" \in ToSet(SubSeq(s, 1, n)) => Seen(SubSeq(s, 1, n + 1)) = Seen(SubSeq(s, 1, n))
<1>. DEFINE t == SubSeq(s, 1, n)
            u == SubSeq(s, 1, n + 1)
<1>0. Len(s) \in Nat /\ n + 1 \in Nat /\ n + 1 <= Len(s) /\ n <= Len(s)
  BY LenProperties
<1>1. DOMAIN t = 1..n /\ \A i \in 1..n : t[i] = s[i]
  BY <1>0, ReadIs
<1>2. DOMAIN u = 1..(n + 1) /\ \A i \in 1..(n + 1) : u[i] = s[i]
  BY <1>0, ReadIs
<1>. HIDE DEF t, u
<1>3. \A i \in 1..n : i \in 1..(n + 1) /\ u[i] = t[i]
  BY <1>1, <1>2
<1>4. ToSet(t) \subseteq ToSet(u)
  BY <1>1, <1>2, <1>3 DEF ToSet
<1>5. ASSUME "done" \in ToSet(t) PROVE Seen(u) = Seen(t)
  <2>1. PICK d \in 1..n : t[d] = "done"
    BY <1>1, <1>5 DEF ToSet
  <2>2. ASSUME NEW k \in 1..n PROVE (\A j \in 1..(k - 1) : t[j] # "done") <=> (\A j \in 1..(k - 1) : u[j] # "done")
    <3>1. \A j \in 1..(k - 1) : j \in 1..n
      BY <2>2
    <3>. QED BY <1>3, <3>1
  <2>3. ~(\A j \in 1..((n + 1) - 1) : u[j] # "done")
    <3>1. d \in 1..((n + 1) - 1)
      BY <2>1
    <3>2. u[d] = "done"
      BY <1>3, <2>1
    <3>. QED BY <3>1, <3>2
  <2>4. 1..(n + 1) = 1..n \cup {n + 1}
    OBVIOUS
  <2>5. {k \in 1..(n + 1) : \A j \in 1..(k - 1) : u[j] # "done"} = {k \in 1..n : \A j \in 1..(k - 1) : t[j] # "done"}
    BY <2>2, <2>3, <2>4
  <2>. QED BY <1>1, <1>2, <1>3, <2>5 DEF Seen
<1>. QED BY <1>4, <1>5 DEF t, u

LEMMA SeenIsRead == ASSUME NEW s PROVE Seen(s) \subseteq ToSet(s)
BY DEF Seen, ToSet

LEMMA OnlyOne ==
    ASSUME NEW S, TheOnly(S) # "unresolved" PROVE S = {TheOnly(S)}
<1>1. PICK u \in S : S = {u}
  BY DEF TheOnly
<1>2. (CHOOSE x \in S : TRUE) = u
  BY <1>1
<1>. QED BY <1>1, <1>2 DEF TheOnly

\* The response of r accounts for the result.
Shows(r) ==
    /\ req[r].body # Unknown /\ req[r].own /\ result \in Usages(ToSet(Read(r)))
    /\ req[r].body.streaming => "done" \in ToSet(Read(r)) /\ Usages(Seen(Read(r))) = {result}
    /\ ~req[r].body.streaming => req[r].read = Len(req[r].body.events)

LEMMA PropertyIs == UsageIsOfThisCall <=> (result \notin {"pending", "unresolved"} => \E r \in HttpRequests : Shows(r))
BY DEF UsageIsOfThisCall, Shows, Tapped

LEMMA AbortIs ==
    ASSUME NEW c \in Captures
    PROVE  /\ Abort(c) \in Captures /\ Abort(c).scope = c.scope
           /\ Attached => Abort(c).failed
           /\ ~Attached => Abort(c) = c
<1>1. <<>> \in Seq(STRING)
  BY EmptySeq
<1>. QED BY <1>1 DEF Abort, Captures

LEMMA AmbiguousIs ==
    ASSUME NEW c \in Captures
    PROVE  /\ Ambiguous(c) \in Captures /\ Ambiguous(c).scope = c.scope
           /\ Attached => Ambiguous(c).failed
<1>. DEFINE a == Abort(c)
<1>1. a \in Captures /\ a.scope = c.scope /\ (Attached => a.failed)
  BY AbortIs
<1>2. Ambiguous(c) = [a EXCEPT !.misuse = @ \/ Attached] /\ Attached \in BOOLEAN
  BY DEF Ambiguous, Attached
<1>. HIDE DEF a
<1>. QED BY <1>1, <1>2 DEF Captures

\* One exchange moves on: what the others show stays.
LEMMA ExchangeMoves ==
    ASSUME UsageInv, NEW r \in HttpRequests, NEW e \in Exchanges, req' = [req EXCEPT ![r] = e],
           result' = result, cap' \in Captures, cap'.scope = cap.scope,
           ExchangeSays(r)', Shows(r) => Shows(r)', Alone', Buffered'
    PROVE  UsageInv'
<1>1. req' \in [HttpRequests -> Exchanges] /\ \A q \in HttpRequests \ {r} : req'[q] = req[q]
  BY DEF UsageInv, UsageTyped
<1>2. ASSUME NEW q \in HttpRequests PROVE ExchangeSays(q)' /\ (Shows(q) => Shows(q)')
  <2>1. CASE q = r
    BY <2>1
  <2>2. CASE q # r
    <3>1. req'[q] = req[q]
      BY <1>1, <2>2
    <3>. QED BY <3>1 DEF UsageInv, ExchangeSays, Claimed, Shows, Read
  <2>. QED BY <2>1, <2>2
<1>3. UsageIsOfThisCall'
  <2>1. UsageIsOfThisCall => (result \notin {"pending", "unresolved"} => \E q \in HttpRequests : Shows(q))
    BY PropertyIs
  <2>2. (result' \notin {"pending", "unresolved"} => \E q \in HttpRequests : Shows(q)') => UsageIsOfThisCall'
    BY DEF UsageIsOfThisCall, Shows, Tapped, Read
  <2>. QED BY <1>2, <2>1, <2>2 DEF UsageInv
<1>4. Undecided'
  BY DEF UsageInv, Undecided
<1>. QED BY <1>1, <1>2, <1>3, <1>4 DEF UsageInv, UsageTyped

LEMMA UsageStarts == CapInit => UsageInv
<1>. SUFFICES ASSUME CapInit PROVE UsageInv
  OBVIOUS
<1>0. <<>> \in Seq(STRING)
  BY EmptySeq
<1>1. cap \in Captures /\ ~cap.response /\ ~cap.ended /\ cap.buffer = <<>>
  BY <1>0 DEF CapInit, Captures
<1>2. req \in [HttpRequests -> Exchanges]
  BY DEF CapInit, Exchanges
<1>3. \A r \in HttpRequests : req[r].pc = "none" /\ req[r].body = Unknown /\ req[r].read = 0 /\ req[r].body \notin Bodies
  BY UsageAssumption DEF CapInit
<1>4. result = "pending"
  BY DEF CapInit
<1>. QED BY <1>1, <1>2, <1>3, <1>4
         DEF UsageInv, UsageTyped, Alone, Buffered, Undecided, ExchangeSays, Claimed, UsageIsOfThisCall

LEMMA IssueKeeps ==
    ASSUME UsageInv, NEW r \in HttpRequests, Issue(r) PROVE UsageInv'
<1>1. PICK own \in BOOLEAN : req' = [req EXCEPT ![r].pc = "claim", ![r].own = own]
  BY DEF Issue
<1>. DEFINE e == [req[r] EXCEPT !.pc = "claim", !.own = own]
<1>2. req[r] \in Exchanges /\ req[r].pc = "none" /\ UNCHANGED <<cap, result>> /\ cap \in Captures
      /\ ExchangeSays(r) /\ Alone /\ Buffered
  BY DEF Issue, UsageInv, UsageTyped
<1>3. e \in Exchanges /\ e.pc = "claim" /\ e.body = req[r].body /\ e.read = req[r].read
  BY <1>2 DEF Exchanges
<1>4. req' = [req EXCEPT ![r] = e]
  BY <1>1 DEF UsageInv, UsageTyped, Exchanges
<1>. HIDE DEF e
<1>5. req'[r] = e /\ \A q \in HttpRequests \ {r} : req'[q] = req[q]
  BY <1>4 DEF UsageInv, UsageTyped
<1>6. req[r].body = Unknown /\ Unknown \notin Bodies
  BY <1>2, UsageAssumption DEF ExchangeSays
<1>7. ExchangeSays(r)' /\ (Shows(r) => Shows(r)')
  BY <1>2, <1>3, <1>5, <1>6 DEF ExchangeSays, Shows, Claimed
<1>8. \A q \in HttpRequests : Claimed(q)' => q # r /\ Claimed(q)
  BY <1>3, <1>5 DEF Claimed
<1>9. Alone'
  BY <1>2, <1>5, <1>8 DEF Alone, Attached
<1>10. \A q \in HttpRequests : req'[q].body \in Bodies \/ req[q].body \in Bodies \/ req[q].pc = "ended" => q # r
  BY <1>2, <1>3, <1>5, <1>6
<1>11. Buffered'
  BY <1>2, <1>5, <1>10 DEF Buffered, Attached, Read
<1>. QED BY <1>2, <1>3, <1>4, <1>7, <1>9, <1>11, ExchangeMoves

LEMMA ClaimKeeps ==
    ASSUME UsageInv, NEW r \in HttpRequests, ClaimRequest(r) PROVE UsageInv'
<1>. DEFINE e == [req[r] EXCEPT !.pc = "sent"]
<1>1. /\ req[r] \in Exchanges /\ req[r].pc = "claim" /\ cap \in Captures /\ result' = result
      /\ ExchangeSays(r) /\ Alone /\ Buffered
      /\ \A q \in HttpRequests : ExchangeSays(q)
  BY DEF ClaimRequest, UsageInv, UsageTyped
<1>2. req' = [req EXCEPT ![r] = e]
  BY DEF ClaimRequest, Req, UsageInv, UsageTyped, Exchanges
<1>3. e \in Exchanges /\ e.pc = "sent" /\ e.body = req[r].body /\ e.read = req[r].read /\ e.own = req[r].own
  BY <1>1 DEF Exchanges
<1>. HIDE DEF e
<1>4. req'[r] = e /\ \A q \in HttpRequests \ {r} : req'[q] = req[q]
  BY <1>2 DEF UsageInv, UsageTyped
<1>5. req[r].body = Unknown /\ req[r].read = 0 /\ Unknown \notin Bodies
  BY <1>1, UsageAssumption DEF ExchangeSays
<1>6. ExchangeSays(r)' /\ (Shows(r) => Shows(r)')
  BY <1>1, <1>3, <1>4, <1>5 DEF ExchangeSays, Shows, Claimed
<1>7. CASE ~Attached
  <2>1. cap' = cap
    BY <1>7 DEF ClaimRequest
  <2>2. Alone' /\ Buffered'
    BY <1>7, <2>1 DEF Alone, Buffered, Attached
  <2>. QED BY <1>1, <1>2, <1>3, <1>6, <2>1, <2>2, ExchangeMoves
<1>8. CASE Attached /\ Repeated(r)
  <2>. DEFINE a == Ambiguous(cap)
  <2>1. a \in Captures /\ a.scope = cap.scope /\ a.failed
    BY <1>1, <1>8, AmbiguousIs
  <2>2. cap' = [a EXCEPT !.claimed = TRUE]
    BY <1>8 DEF ClaimRequest
  <2>. HIDE DEF a
  <2>3. cap' \in Captures /\ cap'.scope = cap.scope /\ cap'.failed
    BY <2>1, <2>2 DEF Captures
  <2>4. Alone' /\ Buffered'
    BY <2>3 DEF Alone, Buffered
  <2>. QED BY <1>1, <1>2, <1>3, <1>6, <2>3, <2>4, ExchangeMoves
<1>9. CASE Attached /\ ~Repeated(r)
  <2>1. cap' = [cap EXCEPT !.claimed = TRUE] /\ ~cap.claimed /\ req[r].own
    BY <1>9 DEF ClaimRequest, Repeated
  <2>2. /\ cap' \in Captures /\ cap'.scope = cap.scope /\ (cap'.failed <=> cap.failed) /\ cap'.claimed
        /\ (cap'.response <=> cap.response) /\ (cap'.ended <=> cap.ended) /\ cap'.buffer = cap.buffer
    BY <1>1, <2>1 DEF Captures
  <2>3. ~cap.failed => \A q \in HttpRequests : ~Claimed(q) /\ req[q].body \notin Bodies /\ req[q].pc # "ended"
    BY <1>1, <1>9, <2>1 DEF Alone, ExchangeSays, Claimed
  <2>4. ~cap.failed => ~cap.response /\ ~cap.ended /\ cap.buffer = <<>>
    BY <1>1, <1>9, <2>3 DEF Buffered
  <2>5. Alone'
    BY <1>3, <1>4, <2>1, <2>2, <2>3 DEF Alone, Claimed, Attached
  <2>6. \A q \in HttpRequests : ~cap.failed => req'[q].body \notin Bodies
    BY <1>3, <1>4, <1>5, <2>3
  <2>7. Buffered'
    BY <2>2, <2>4, <2>6 DEF Buffered
  <2>. QED BY <1>1, <1>2, <1>3, <1>6, <2>2, <2>5, <2>7, ExchangeMoves
<1>. QED BY <1>7, <1>8, <1>9

LEMMA RespondKeeps ==
    ASSUME UsageInv, NEW r \in HttpRequests, Respond(r) PROVE UsageInv'
<1>0. PICK b \in Bodies, usable \in BOOLEAN :
         /\ req' = [req EXCEPT ![r].pc = "stream", ![r].body = b]
         /\ LET seen == IF cap.response THEN Ambiguous(cap) ELSE cap
                got == [seen EXCEPT !.response = TRUE, !.streaming = b.streaming]
            IN cap' = IF ~Attached THEN cap ELSE IF usable THEN got ELSE Abort(got)
  BY DEF Respond
<1>. DEFINE e == [req[r] EXCEPT !.pc = "stream", !.body = b]
            seen == IF cap.response THEN Ambiguous(cap) ELSE cap
            got == [seen EXCEPT !.response = TRUE, !.streaming = b.streaming]
<1>1. /\ req[r] \in Exchanges /\ req[r].pc = "sent" /\ cap \in Captures /\ result' = result
      /\ ExchangeSays(r) /\ Alone /\ Buffered
      /\ \A q \in HttpRequests : ExchangeSays(q)
  BY DEF Respond, UsageInv, UsageTyped
<1>b. b.streaming \in BOOLEAN /\ b.events \in Seq(STRING) /\ Len(b.events) \in Nat /\ b # Unknown
  BY UsageAssumption, LenProperties
<1>2. req' = [req EXCEPT ![r] = e]
  BY <1>0 DEF UsageInv, UsageTyped, Exchanges
<1>3. e \in Exchanges /\ e.pc = "stream" /\ e.body = b /\ e.read = req[r].read /\ e.own = req[r].own
  BY <1>1 DEF Exchanges
<1>c. cap' = IF ~Attached THEN cap ELSE IF usable THEN got ELSE Abort(got)
  BY <1>0
<1>. HIDE DEF e
<1>4. req'[r] = e /\ \A q \in HttpRequests \ {r} : req'[q] = req[q]
  BY <1>2 DEF UsageInv, UsageTyped
<1>5. req[r].body = Unknown /\ req[r].read = 0 /\ Unknown \notin Bodies
  BY <1>1, UsageAssumption DEF ExchangeSays
<1>6. ExchangeSays(r)' /\ (Shows(r) => Shows(r)')
  BY <1>1, <1>3, <1>4, <1>5, <1>b DEF ExchangeSays, Shows, Claimed
<1>7. CASE ~Attached
  <2>1. cap' = cap
    BY <1>7, <1>c
  <2>2. Alone' /\ Buffered'
    BY <1>7, <2>1 DEF Alone, Buffered, Attached
  <2>. QED BY <1>1, <1>2, <1>3, <1>6, <2>1, <2>2, ExchangeMoves
<1>8. CASE Attached
  <2>1. /\ seen \in Captures /\ seen.scope = cap.scope
        /\ cap.response => seen.failed
        /\ ~cap.response => seen = cap
    BY <1>1, <1>8, AmbiguousIs
  <2>. HIDE DEF seen
  <2>2. /\ got \in Captures /\ got.scope = cap.scope /\ (got.failed <=> seen.failed) /\ got.response
        /\ got.streaming = b.streaming /\ got.buffer = seen.buffer /\ got.ended = seen.ended /\ got.claimed = seen.claimed
    BY <2>1, <1>b DEF Captures
  <2>3. cap' = got \/ cap' = Abort(got)
    BY <1>8, <1>c
  <2>. HIDE DEF got
  <2>4. CASE cap'.failed /\ cap' \in Captures /\ cap'.scope = cap.scope
    <3>1. Alone' /\ Buffered'
      BY <2>4 DEF Alone, Buffered
    <3>. QED BY <1>1, <1>2, <1>3, <1>6, <2>4, <3>1, ExchangeMoves
  <2>5. CASE cap' = got /\ ~cap'.failed
    <3>1. ~cap.response /\ seen = cap /\ ~cap.failed
      BY <2>1, <2>2, <2>5
    <3>2. \A q \in HttpRequests : Claimed(q) => q = r
      BY <1>1, <1>8, <3>1 DEF Alone, Claimed
    <3>3. \A q \in HttpRequests \ {r} : req'[q].body \notin Bodies /\ req'[q].pc \notin {"sent", "stream", "ended", "broken"}
      BY <1>1, <1>4, <3>2 DEF ExchangeSays, Claimed
    <3>4. ~cap.ended /\ cap.buffer = <<>>
      BY <1>1, <1>8, <3>1, <3>2 DEF Buffered, Claimed
    <3>5. cap.claimed /\ req[r].own
      BY <1>1, <1>8, <3>1 DEF Alone, Claimed
    <3>6. Alone'
      BY <1>3, <1>4, <2>2, <2>5, <3>1, <3>3, <3>5 DEF Alone, Claimed
    <3>7. SubSeq(b.events, 1, 0) = <<>>
      BY SubSeqEmpty
    <3>8. Buffered'
      BY <1>3, <1>4, <1>5, <2>2, <2>5, <3>1, <3>3, <3>4, <3>7 DEF Buffered, Read
    <3>. QED BY <1>1, <1>2, <1>3, <1>6, <2>2, <2>5, <3>6, <3>8, ExchangeMoves
  <2>6. cap' = Abort(got) => cap'.failed /\ cap' \in Captures /\ cap'.scope = cap.scope
    BY <1>8, <2>2, AbortIs
  <2>. QED BY <2>2, <2>3, <2>4, <2>5, <2>6
<1>. QED BY <1>7, <1>8

LEMMA FeedKeeps ==
    ASSUME UsageInv, NEW r \in HttpRequests, Feed(r) PROVE UsageInv'
<1>. DEFINE e == [req[r] EXCEPT !.read = @ + 1]
            s == req[r].body.events
            n == req[r].read
<1>1. /\ req[r] \in Exchanges /\ req[r].pc = "stream" /\ cap \in Captures /\ result' = result
      /\ ExchangeSays(r) /\ Alone /\ Buffered /\ n < Len(s) /\ n \in Nat
      /\ \A q \in HttpRequests : ExchangeSays(q)
  BY DEF Feed, UsageInv, UsageTyped, Exchanges
<1>2. req' = [req EXCEPT ![r] = e]
  BY DEF Feed, UsageInv, UsageTyped, Exchanges
<1>3. e \in Exchanges /\ e.pc = "stream" /\ e.body = req[r].body /\ e.read = n + 1 /\ e.own = req[r].own
  BY <1>1 DEF Exchanges
<1>. HIDE DEF e
<1>4. req'[r] = e /\ \A q \in HttpRequests \ {r} : req'[q] = req[q]
  BY <1>2 DEF UsageInv, UsageTyped
<1>5. req[r].body \in Bodies /\ s \in Seq(STRING) /\ Len(s) \in Nat
  BY <1>1, UsageAssumption, LenProperties DEF ExchangeSays
<1>6. /\ Read(r)' = SubSeq(s, 1, n + 1) /\ Read(r) = SubSeq(s, 1, n)
      /\ SubSeq(s, 1, n + 1) = Append(SubSeq(s, 1, n), s[n + 1])
      /\ ToSet(SubSeq(s, 1, n)) \subseteq ToSet(SubSeq(s, 1, n + 1))
      /\ "done" \in ToSet(SubSeq(s, 1, n)) => Seen(SubSeq(s, 1, n + 1)) = Seen(SubSeq(s, 1, n))
  <2>1. Read(r)' = SubSeq(s, 1, n + 1) /\ Read(r) = SubSeq(s, 1, n)
    BY <1>3, <1>4 DEF Read
  <2>. HIDE DEF s, n
  <2>. QED BY <1>1, <1>5, <2>1, ReadMore, ReadOn
<1>7. ExchangeSays(r)' /\ (Shows(r) => Shows(r)')
  <2>1. ExchangeSays(r)'
    BY <1>1, <1>3, <1>4, <1>5 DEF ExchangeSays, Claimed
  <2>2. /\ req'[r].body = req[r].body /\ req'[r].own = req[r].own /\ req'[r].read = n + 1
        /\ req[r].body.events = s /\ req[r].read = n
    BY <1>3, <1>4
  <2>3. Usages(ToSet(Read(r))) \subseteq Usages(ToSet(Read(r)'))
    BY <1>6 DEF Usages
  <2>4. "done" \in ToSet(Read(r)) => "done" \in ToSet(Read(r)') /\ Seen(Read(r)') = Seen(Read(r))
    BY <1>6
  <2>5. Len(s) \in Nat /\ n \in Nat /\ n < Len(s)
    BY <1>1, <1>5
  <2>6. n # Len(s)
    BY <2>5
  <2>7. Shows(r) => req[r].body.streaming
    BY <2>2, <2>6 DEF Shows
  <2>. HIDE DEF s, n
  <2>8. ASSUME Shows(r) PROVE Shows(r)'
    <3>1. /\ req[r].body \in Bodies /\ req[r].own /\ result \in Usages(ToSet(Read(r))) /\ req[r].body.streaming
          /\ "done" \in ToSet(Read(r)) /\ Usages(Seen(Read(r))) = {result}
      BY <2>7, <2>8, <1>5 DEF Shows
    <3>2. result \in Usages(ToSet(Read(r)'))
      BY <3>1, <2>3
    <3>3. "done" \in ToSet(Read(r)') /\ Usages(Seen(Read(r)')) = {result}
      BY <3>1, <2>4
    <3>. QED BY <3>1, <3>2, <3>3, <2>2, <2>8, <1>1 DEF Shows
  <2>9. Shows(r) => Shows(r)'
    BY <2>8
  <2>. QED BY <2>1, <2>9
<1>8. CASE ~Attached \/ cap.failed
  <2>1. cap' = cap
    BY <1>8 DEF Feed
  <2>2. Alone' /\ Buffered'
    BY <1>8, <2>1 DEF Alone, Buffered, Attached
  <2>. QED BY <1>1, <1>2, <1>3, <1>7, <2>1, <2>2, ExchangeMoves
<1>9. CASE Attached /\ ~cap.failed /\ cap' = Abort(cap)
  <2>1. cap'.failed /\ cap' \in Captures /\ cap'.scope = cap.scope
    BY <1>1, <1>9, AbortIs
  <2>2. Alone' /\ Buffered'
    BY <2>1 DEF Alone, Buffered
  <2>. QED BY <1>1, <1>2, <1>3, <1>7, <2>1, <2>2, ExchangeMoves
<1>10. CASE Attached /\ ~cap.failed /\ cap' = [cap EXCEPT !.buffer = Append(@, s[n + 1])]
  <2>1. cap.buffer = SubSeq(s, 1, n)
    BY <1>1, <1>5, <1>6, <1>10 DEF Buffered
  <2>2. SubSeq(s, 1, n + 1) \in Seq(STRING)
    <3>. HIDE DEF s, n
    <3>. QED BY <1>1, <1>5, ReadIs
  <2>3. /\ cap' \in Captures /\ cap'.scope = cap.scope /\ (cap'.failed <=> cap.failed)
        /\ cap'.response = cap.response /\ cap'.streaming = cap.streaming /\ cap'.ended = cap.ended
        /\ cap'.claimed = cap.claimed /\ cap'.buffer = SubSeq(s, 1, n + 1)
    <3>1. cap' = [cap EXCEPT !.buffer = SubSeq(s, 1, n + 1)]
      BY <1>6, <1>10, <2>1
    <3>. HIDE DEF s, n
    <3>. QED BY <1>1, <2>2, <3>1 DEF Captures
  <2>. HIDE DEF s, n
  <2>4. /\ \A q \in HttpRequests : Claimed(q) => q = r
        /\ cap.claimed /\ req[r].own
    BY <1>1, <1>10 DEF Alone, Claimed
  <2>5. \A q \in HttpRequests \ {r} : req'[q].body \notin Bodies /\ req'[q].pc \notin {"sent", "stream", "ended", "broken"}
    BY <1>1, <1>4, <2>4 DEF ExchangeSays, Claimed
  <2>6. cap.response /\ ~cap.ended /\ cap.streaming = req[r].body.streaming
    BY <1>1, <1>5, <1>10 DEF Buffered
  <2>7. Alone'
    BY <1>3, <1>4, <2>3, <2>4, <2>5 DEF Alone, Claimed
  <2>8. Buffered'
    BY <1>3, <1>4, <1>5, <1>6, <2>3, <2>5, <2>6 DEF Buffered
  <2>. QED BY <1>1, <1>2, <1>3, <1>7, <2>3, <2>7, <2>8, ExchangeMoves
<1>. QED BY <1>8, <1>9, <1>10 DEF Feed

LEMMA EndKeeps ==
    ASSUME UsageInv, NEW r \in HttpRequests, EndBody(r) PROVE UsageInv'
<1>. DEFINE e == [req[r] EXCEPT !.pc = "ended"]
<1>1. /\ req[r] \in Exchanges /\ req[r].pc = "stream" /\ cap \in Captures /\ result' = result
      /\ ExchangeSays(r) /\ Alone /\ Buffered /\ req[r].read = Len(req[r].body.events)
      /\ \A q \in HttpRequests : ExchangeSays(q)
  BY DEF EndBody, UsageInv, UsageTyped
<1>2. req' = [req EXCEPT ![r] = e]
  BY DEF EndBody, Req, UsageInv, UsageTyped, Exchanges
<1>3. e \in Exchanges /\ e.pc = "ended" /\ e.body = req[r].body /\ e.read = req[r].read /\ e.own = req[r].own
  BY <1>1 DEF Exchanges
<1>. HIDE DEF e
<1>4. req'[r] = e /\ \A q \in HttpRequests \ {r} : req'[q] = req[q]
  BY <1>2 DEF UsageInv, UsageTyped
<1>5. req[r].body \in Bodies
  BY <1>1 DEF ExchangeSays
<1>6. ExchangeSays(r)' /\ (Shows(r) => Shows(r)')
  BY <1>1, <1>3, <1>4, <1>5 DEF ExchangeSays, Shows, Claimed, Read
<1>7. CASE ~Attached
  <2>1. cap' = cap
    BY <1>7 DEF EndBody
  <2>2. Alone' /\ Buffered'
    BY <1>7, <2>1 DEF Alone, Buffered, Attached
  <2>. QED BY <1>1, <1>2, <1>3, <1>6, <2>1, <2>2, ExchangeMoves
<1>8. CASE Attached
  <2>1. cap' = [cap EXCEPT !.ended = TRUE]
    BY <1>8 DEF EndBody
  <2>2. /\ cap' \in Captures /\ cap'.scope = cap.scope /\ (cap'.failed <=> cap.failed) /\ cap'.ended
        /\ cap'.response = cap.response /\ cap'.streaming = cap.streaming
        /\ cap'.claimed = cap.claimed /\ cap'.buffer = cap.buffer
    BY <1>1, <2>1 DEF Captures
  <2>3. \A q \in HttpRequests : Claimed(q)' <=> Claimed(q)
    BY <1>1, <1>3, <1>4 DEF Claimed
  <2>4. \A q \in HttpRequests : req'[q].own = req[q].own /\ req'[q].body = req[q].body /\ Read(q)' = Read(q)
    BY <1>3, <1>4 DEF Read
  <2>5. Alone'
    BY <1>1, <2>2, <2>3, <2>4 DEF Alone, Attached
  <2>6. Attached /\ ~cap.failed => \A q \in HttpRequests : req[q].body \in Bodies => q = r
    BY <1>1 DEF Alone, ExchangeSays, Claimed
  <2>7. Buffered'
    BY <1>1, <1>3, <1>4, <1>5, <1>8, <2>2, <2>4, <2>6 DEF Buffered
  <2>. QED BY <1>1, <1>2, <1>3, <1>6, <2>2, <2>5, <2>7, ExchangeMoves
<1>. QED BY <1>7, <1>8

LEMMA BreakKeeps ==
    ASSUME UsageInv, NEW r \in HttpRequests, Interrupted(r) PROVE UsageInv'
<1>. DEFINE e == [req[r] EXCEPT !.pc = "broken"]
<1>1. /\ req[r] \in Exchanges /\ req[r].pc \in {"sent", "stream"} /\ cap \in Captures /\ result' = result
      /\ ExchangeSays(r) /\ Alone /\ Buffered
      /\ \A q \in HttpRequests : ExchangeSays(q)
  BY DEF Interrupted, UsageInv, UsageTyped
<1>2. req' = [req EXCEPT ![r] = e]
  BY DEF Interrupted, Req, UsageInv, UsageTyped, Exchanges
<1>3. e \in Exchanges /\ e.pc = "broken" /\ e.body = req[r].body /\ e.read = req[r].read /\ e.own = req[r].own
  BY <1>1 DEF Exchanges
<1>. HIDE DEF e
<1>4. req'[r] = e /\ \A q \in HttpRequests \ {r} : req'[q] = req[q]
  BY <1>2 DEF UsageInv, UsageTyped
<1>6. ExchangeSays(r)' /\ (Shows(r) => Shows(r)')
  BY <1>1, <1>3, <1>4 DEF ExchangeSays, Shows, Claimed, Read
<1>7. CASE req[r].pc = "stream" /\ Attached
  <2>1. cap'.failed /\ cap' \in Captures /\ cap'.scope = cap.scope
    BY <1>1, <1>7, AbortIs DEF Interrupted
  <2>2. Alone' /\ Buffered'
    BY <2>1 DEF Alone, Buffered
  <2>. QED BY <1>1, <1>2, <1>3, <1>6, <2>1, <2>2, ExchangeMoves
<1>8. CASE ~Attached
  <2>1. cap' = cap
    BY <1>1, <1>8, AbortIs DEF Interrupted
  <2>2. Alone' /\ Buffered'
    BY <1>8, <2>1 DEF Alone, Buffered, Attached
  <2>. QED BY <1>1, <1>2, <1>3, <1>6, <2>1, <2>2, ExchangeMoves
<1>9. CASE req[r].pc = "sent"
  <2>1. cap' = cap
    BY <1>9 DEF Interrupted
  <2>3. \A q \in HttpRequests : Claimed(q)' <=> Claimed(q)
    BY <1>1, <1>3, <1>4 DEF Claimed
  <2>4. /\ \A q \in HttpRequests : req'[q].own = req[q].own /\ req'[q].body = req[q].body /\ Read(q)' = Read(q)
        /\ \A q \in HttpRequests : req'[q].pc = "ended" <=> req[q].pc = "ended"
    BY <1>1, <1>3, <1>4, <1>9 DEF Read
  <2>5. Alone'
    BY <1>1, <2>1, <2>3, <2>4 DEF Alone, Attached
  <2>7. Buffered'
    BY <1>1, <2>1, <2>4 DEF Buffered, Attached
  <2>. QED BY <1>1, <1>2, <1>3, <1>6, <2>1, <2>5, <2>7, ExchangeMoves
<1>. QED BY <1>1, <1>7, <1>8, <1>9

\* On exit the buffer is read once.
LEMMA ExitKeeps == ASSUME UsageInv, Exit PROVE UsageInv'
<1>1. /\ cap \in Captures /\ cap.scope = "active" /\ req' = req /\ Alone /\ Buffered
      /\ \A q \in HttpRequests : ExchangeSays(q)
  BY DEF Exit, UsageInv, UsageTyped
<1>2. cap' \in Captures /\ cap'.scope = "closed"
  <2>1. <<>> \in Seq(STRING)
    BY EmptySeq
  <2>. QED BY <1>1, <2>1 DEF Exit, Captures
<1>3. Alone' /\ Buffered' /\ Undecided'
  BY <1>2 DEF Alone, Buffered, Undecided, Attached
<1>4. \A q \in HttpRequests : ExchangeSays(q)'
  BY <1>1 DEF ExchangeSays, Claimed
<1>5. ASSUME result' \notin {"pending", "unresolved"} PROVE \E r \in HttpRequests : Shows(r)'
  <2>1. result' = ObserveUsage(cap.buffer) /\ ~cap.failed /\ cap.response
    BY <1>5 DEF Exit, Usable
  <2>2. PICK r \in HttpRequests : req[r].body \in Bodies
    BY <1>1, <2>1 DEF Buffered, Attached
  <2>3. cap.streaming = req[r].body.streaming /\ cap.buffer = Read(r) /\ (cap.ended => req[r].pc = "ended")
        /\ req[r].own /\ req[r].body # Unknown
    BY <1>1, <2>1, <2>2, UsageAssumption DEF Buffered, Alone, Attached, ExchangeSays
  <2>. DEFINE s == Read(r)
  <2>4. CASE req[r].body.streaming
    <3>1. /\ "done" \in ToSet(s) /\ result' = TheOnly(Usages(Seen(s)))
      BY <1>5, <2>1, <2>3, <2>4 DEF ObserveUsage, ParseStream
    <3>2. Usages(Seen(s)) = {result'}
      BY <1>5, <3>1, OnlyOne
    <3>3. result' \in Usages(ToSet(s))
      BY <3>2, SeenIsRead DEF Usages
    <3>. QED BY <1>1, <2>3, <2>4, <3>1, <3>2, <3>3 DEF Shows, Read
  <2>5. CASE ~req[r].body.streaming
    <3>1. /\ Len(s) = 1 /\ cap.ended /\ Usages(ToSet(s)) # {} /\ result' = s[1]
      BY <1>5, <2>1, <2>3, <2>5 DEF ObserveUsage, ParseDocument
    <3>2. req[r].read = Len(req[r].body.events)
      BY <1>1, <2>3, <3>1 DEF ExchangeSays
    <3>3. s \in Seq(STRING) /\ DOMAIN s = 1..Len(s)
      <4>1. req[r].read \in Nat /\ req[r].body.events \in Seq(STRING)
        BY <2>2, UsageAssumption DEF UsageInv, UsageTyped, Exchanges
      <4>2. req[r].read <= Len(req[r].body.events)
        BY <1>1, <2>2 DEF ExchangeSays
      <4>. QED BY <4>1, <4>2, ReadIs DEF Read
    <3>. HIDE DEF s
    <3>4. DOMAIN s = {1}
      BY <3>1, <3>3
    <3>5. ToSet(s) = {s[1]}
      BY <3>4 DEF ToSet
    <3>6. result' \in Usages(ToSet(s))
      BY <3>1, <3>5 DEF Usages
    <3>. QED BY <1>1, <2>3, <2>5, <3>2, <3>6 DEF Shows, Read, s
  <2>. QED BY <2>4, <2>5
<1>6. UsageIsOfThisCall'
  <2>1. (result' \notin {"pending", "unresolved"} => \E q \in HttpRequests : Shows(q)') => UsageIsOfThisCall'
    BY DEF UsageIsOfThisCall, Shows, Tapped, Read
  <2>. QED BY <1>5, <2>1
<1>. QED BY <1>1, <1>2, <1>3, <1>4, <1>6 DEF UsageInv, UsageTyped

LEMMA ScopeKeeps ==
    ASSUME UsageInv, EnterCapture \/ (\E mine \in BOOLEAN : Mark(mine)) PROVE UsageInv'
<1>1. cap \in Captures /\ UNCHANGED <<req, result>>
  BY DEF UsageInv, UsageTyped, EnterCapture, Mark
<1>2. /\ cap' \in Captures /\ (Attached' => Attached) /\ (Undecided => Undecided')
      /\ \/ /\ (cap'.failed <=> cap.failed) /\ (cap'.ended <=> cap.ended)
            /\ (cap'.response <=> cap.response) /\ cap'.streaming = cap.streaming
            /\ (cap'.claimed <=> cap.claimed) /\ cap'.buffer = cap.buffer
         \/ cap'.failed
  <2>1. CASE EnterCapture
    BY <1>1, <2>1 DEF EnterCapture, Captures, Attached, Undecided
  <2>2. ASSUME NEW mine \in BOOLEAN, Mark(mine), mine /\ cap.response /\ ~cap.misuse
        PROVE  <1>2!:
    BY <1>1, <2>2 DEF Mark, Captures, Attached, Undecided
  <2>3. ASSUME NEW mine \in BOOLEAN, Mark(mine), ~(mine /\ cap.response /\ ~cap.misuse)
        PROVE  <1>2!:
    <3>. DEFINE a == Abort(cap)
    <3>1. a \in Captures /\ a.scope = cap.scope /\ a.failed
      BY <1>1, <2>3, AbortIs DEF Mark
    <3>2. cap' = [a EXCEPT !.misuse = TRUE]
      BY <2>3 DEF Mark
    <3>. HIDE DEF a
    <3>. QED BY <1>1, <3>1, <3>2 DEF Captures, Attached, Undecided
  <2>. QED BY <2>1, <2>2, <2>3
<1>3. Alone'
  BY <1>1, <1>2 DEF UsageInv, Alone, Claimed
<1>4. Buffered'
  BY <1>1, <1>2 DEF UsageInv, Buffered, Read
<1>5. (\A r \in HttpRequests : ExchangeSays(r)') /\ UsageIsOfThisCall'
  BY <1>1 DEF UsageInv, ExchangeSays, Claimed, UsageIsOfThisCall, Tapped, Read
<1>. QED BY <1>1, <1>2, <1>3, <1>4, <1>5 DEF UsageInv, UsageTyped

\* A usage is recorded only of the response of the one request that was claimed.
THEOREM UsageIsOwn == CapSpec => []UsageIsOfThisCall
<1>1. UsageInv /\ [CapNext]_capVars => UsageInv'
  <2>. SUFFICES ASSUME UsageInv, [CapNext]_capVars PROVE UsageInv'
    OBVIOUS
  <2>1. ASSUME NEW r \in HttpRequests,
               Issue(r) \/ ClaimRequest(r) \/ Respond(r) \/ Feed(r) \/ EndBody(r) \/ Interrupted(r)
        PROVE  UsageInv'
    BY <2>1, IssueKeeps, ClaimKeeps, RespondKeeps, FeedKeeps, EndKeeps, BreakKeeps
  <2>2. CASE UNCHANGED capVars
    BY <2>2 DEF capVars, UsageInv, UsageTyped, Alone, Buffered, Undecided, UsageIsOfThisCall, ExchangeSays, Claimed,
       Attached, Tapped, Read
  <2>. QED BY <2>1, <2>2, ExitKeeps, ScopeKeeps DEF CapNext
<1>2. UsageInv => UsageIsOfThisCall
  BY DEF UsageInv
<1>. QED BY <1>1, <1>2, UsageStarts, PTL DEF CapSpec
=============================================================================
