--------------------------- MODULE MCRunLifecycle ---------------------------
EXTENDS RunLifecycle, TLC

WorkerSymmetry == Permutations(Worker)

\* A reachable state (the last of a behaviour of Spec without faults): worker v lost
\* its lease in the middle of the native invocation and has not noticed; w took the
\* run over, and its invocation ended with pause 2, which is recorded.
PausedAfterTakeover ==
  \E v, w \in Worker :
    /\ v # w
    /\ dispatch = "claimed"
    /\ run = [gen |-> 2, owner |-> w, expiry |-> "null", terminal |-> FALSE]
    /\ head = [phase |-> "waiting", pause |-> 2, cmd |-> 0]
    /\ intent = [p \in Gen |-> "none"]
    /\ attempt = [p \in Gen |-> 0]
    /\ rcmd = [p \in Gen |-> "none"]
    /\ ccmd = "none"
    /\ native = [leaf |-> 2, done |-> {}]
    /\ leases = (v :> 1 @@ w :> 2)
    /\ reg = (v :> 1 @@ w :> 0)
    /\ task = [u \in Worker |-> [g \in Gen |-> IF u = v /\ g = 1 THEN "run" ELSE "none"]]
    /\ co = [u \in Worker |-> [c \in Coroutine |-> Idle]]
    /\ invoked = [g \in Gen |-> IF g <= 2 THEN 1 ELSE 0]
    /\ resumed = [p \in Gen |-> 0]
    /\ author = 2
    /\ faults = 0

\* The later life of a run: bounds that Spec could not afford.
LateSpec == PausedAfterTakeover /\ [][Next]_vars
=============================================================================
