--------------------------- MODULE MCControlLedger ---------------------------
EXTENDS ControlLedger, TLC

WorkerSymmetry == Permutations(Worker)

\* No command is preferred to another of its kind.
CommandSymmetry == WorkerSymmetry \cup Permutations(Cancels) \cup Permutations(Resumes)

\* Bound of the command runs: two commands of any kinds are asked for, and
\* faults happen only when no resume is.
Asked(C) == {c \in C : asked[c] > 0}
CommandBound ==
    /\ Cardinality(Asked(Cmd)) <= 2
    /\ Asked(Resumes) = {} \/ faults = 0
=============================================================================
