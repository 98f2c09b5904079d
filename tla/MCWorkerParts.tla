---------------------------- MODULE MCWorkerParts ----------------------------
(* Eight parts of a worker that share no state in the models, checked in one  *)
(* run: a behaviour is a behaviour of one of them, chosen at the start, and   *)
(* the others keep their first state.                                          *)
EXTENDS ModelCalls, PlatformTokens, ExecutionProof, ModelScope, SandboxLifecycle, ToolEffects,
        UsageCapture, AgentAssembly

VARIABLE part

\* Bodies of a provider: repeated usage, two usages, a broken event, an event
\* after the end, and a body that is not streamed.
Events == {<<"text", "u1", "done", "u2">>, <<"u1", "u1", "done">>, <<"u1", "u2", "done">>,
           <<"u1", "bad", "done">>}
Sent == [streaming : {TRUE}, events : Events] \cup [streaming : {FALSE}, events : {<<"u1">>}]

partVars  == <<part, toolVars, callVars, scopeVars, capVars, proofVars, asmVars, tokVars,
               sandboxVars>>

\* The parts that do not move all have one first state.
Init ==
    /\ part \in {"tool", "model", "scope", "usage", "proof", "assembly", "token", "sandbox"}
    /\ ToolInit /\ (part # "tool" => tool = [kind |-> "local", reviewed |-> FALSE])
    /\ CallInit /\ ScopeInit /\ CapInit /\ AsmInit
    /\ SandboxInit
    /\ ProofInit /\ (part # "proof" => skew = 0)
    /\ TokInit /\ (part # "token" => file = CHOOSE c \in Credential : TRUE)

Next ==
    /\ UNCHANGED part
    /\ IF part = "tool"     THEN ToolNext    ELSE UNCHANGED toolVars
    /\ IF part = "model"    THEN CallNext    ELSE UNCHANGED callVars
    /\ IF part = "scope"    THEN ScopeNext   ELSE UNCHANGED scopeVars
    /\ IF part = "usage"    THEN CapNext     ELSE UNCHANGED capVars
    /\ IF part = "proof"    THEN ProofNext   ELSE UNCHANGED proofVars
    /\ IF part = "assembly" THEN AsmNext     ELSE UNCHANGED asmVars
    /\ IF part = "token"    THEN TokNext     ELSE UNCHANGED tokVars
    /\ IF part = "sandbox"  THEN SandboxNext ELSE UNCHANGED sandboxVars

Spec == Init /\ [][Next]_partVars
=============================================================================
