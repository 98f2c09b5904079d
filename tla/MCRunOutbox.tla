---------------------------- MODULE MCRunOutbox ----------------------------
EXTENDS RunOutbox

\* One thing at a time besides the run itself and either a cancel or a
\* takeover: an ordinary event, a fault, or a rejected frame.
Mix(claim, cancel, extra) ==
    [claim |-> claim, cancel |-> cancel,
     delta  |-> IF extra = "delta" THEN 1 ELSE 0,
     fault  |-> IF extra = "fault" THEN 1 ELSE 0,
     reject |-> IF extra = "reject" THEN 1 ELSE 0]
Extras == {"delta", "fault", "reject"}
MCBudgets == {Mix(0, 1, x) : x \in Extras} \cup {Mix(1, 0, x) : x \in Extras}
=============================================================================
