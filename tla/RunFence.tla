------------------------------ MODULE RunFence ------------------------------
(***************************************************************************)
(* What the lease row promises, without expiry, commands or coroutines:    *)
(* every change of executor is a new epoch, and a durable commit is made   *)
(* under the epoch in force when it happens.  A closed run never changes.  *)
(***************************************************************************)
EXTENDS Naturals

CONSTANTS Holder,  \* who may execute
          Nobody   \* holder of what has not begun

VARIABLES
  epoch,   \* lease generation, 0 before the claim
  holder,  \* who may commit under the epoch
  mode,    \* "absent", "held", "parked" (no executor wanted) or "closed"
  author   \* epoch of the last durable commit

fenceVars == <<epoch, holder, mode, author>>

FenceTypeOK ==
  /\ epoch \in Nat
  /\ holder \in Holder \cup {Nobody}
  /\ mode \in {"absent", "held", "parked", "closed"}
  /\ author \in Nat

FenceInit ==
  /\ epoch = 0
  /\ holder = Nobody
  /\ mode = "absent"
  /\ author = 0

\* The first executor.
Open(h) ==
  /\ mode = "absent"
  /\ epoch' = epoch + 1
  /\ holder' = h
  /\ mode' = "held"
  /\ UNCHANGED author

\* A lapsed executor is replaced; nothing is committed by that alone.
Replace(h) ==
  /\ mode = "held"
  /\ epoch' = epoch + 1
  /\ holder' = h
  /\ UNCHANGED <<mode, author>>

\* The executor commits and keeps the run, or parks it, or closes it.
Commit(next) ==
  /\ mode = "held"
  /\ next \in {"held", "parked", "closed"}
  /\ mode' = next
  /\ author' = epoch
  /\ UNCHANGED <<epoch, holder>>

\* A decision from outside takes the run over by the commit itself: an accepted
\* resume of a parked run, a cancellation of any open run.
TakeOver(h, next) ==
  /\ \/ mode = "parked" /\ next = "held"
     \/ mode \in {"held", "parked"} /\ next = "closed"
  /\ epoch' = epoch + 1
  /\ holder' = h
  /\ mode' = next
  /\ author' = epoch + 1

FenceNext ==
  \/ \E h \in Holder : Open(h) \/ Replace(h)
  \/ \E next \in {"held", "parked", "closed"} :
       Commit(next) \/ \E h \in Holder : TakeOver(h, next)

FenceSpec == FenceInit /\ [][FenceNext]_fenceVars

-----------------------------------------------------------------------------
\* No commit is ever attributed to an epoch that has not begun, and a closed or
\* parked run was closed or parked by the epoch still recorded on the row.
CommitsAreCurrent ==
  /\ author <= epoch
  /\ mode \in {"parked", "closed"} => author = epoch
=============================================================================
