----------------------------- MODULE MCProgress ------------------------------
(* Three parts of a worker whose work survives its executor and must come to  *)
(* an end, checked in one run: a behaviour is a behaviour of one of them,     *)
(* chosen at the start, and the others keep their first state.  The fairness  *)
(* is that of each part.  The sandbox shares names with the other two and is   *)
(* an instance.                                                                *)
EXTENDS Delivery, ReconcileProbes

CONSTANTS Assemblers, Janitors, NoBox, Quiet

VARIABLES
    part,
    claimrow, box, cleanup, asm, jan, forgotten, losses

Sandbox == INSTANCE SandboxLifecycle WITH
             Boxes <- 1..3, MaxEpoch <- 2, MaxFaults <- 1,
             row <- claimrow, intent <- cleanup, faults <- losses

sandboxVars == <<claimrow, box, cleanup, asm, jan, forgotten, losses>>
partVars    == <<part, sandboxVars, deliveryVars, probeVars>>

Init ==
    /\ part \in {"sandbox", "delivery", "probes"}
    /\ Sandbox!SandboxInit /\ ProbeInit
    /\ DeliveryInit /\ (part # "delivery" => file = 1)

Next ==
    /\ UNCHANGED part
    /\ IF part = "sandbox"  THEN Sandbox!SandboxNext ELSE UNCHANGED sandboxVars
    /\ IF part = "delivery" THEN DeliveryNext        ELSE UNCHANGED deliveryVars
    /\ IF part = "probes"   THEN ProbeNext           ELSE UNCHANGED probeVars

Fairness ==
    /\ \A b \in 1..3 : WF_sandboxVars(part = "sandbox" /\ Sandbox!Falls(b))
    /\ \A j \in Janitors :
         /\ WF_sandboxVars(part = "sandbox" /\ Sandbox!Claim(j))
         /\ WF_sandboxVars(part = "sandbox" /\ Sandbox!TearDownClaimed(j))
         /\ WF_sandboxVars(part = "sandbox" /\ Sandbox!CompleteClaimed(j))
    /\ WF_deliveryVars(part = "delivery" /\ Reclaimed)
    /\ \A g \in Gens : WF_deliveryVars(part = "delivery" /\ Step(g))
    /\ WF_probeVars(part = "probes" /\ Pass)
    /\ WF_probeVars(part = "probes" /\ Tick)
    /\ WF_probeVars(part = "probes" /\ (NativeSettles \/ NativeDies))

Spec == Init /\ [][Next]_partVars /\ Fairness

-----------------------------------------------------------------------------
\* Every box a cleanup intent names stops running, through failed teardowns,
\* heartbeats that die holding the claim and claims that lapse.
ReclaimedEventually == Sandbox!ReclaimedEventually
=============================================================================
