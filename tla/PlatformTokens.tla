---------------------------- MODULE PlatformTokens ----------------------------
(* The token a worker shows the platform: clients/platform_credentials.py     *)
(* re-reads a rotated credential file and refuses one that went back;         *)
(* clients/platform_tokens.py caches one token per tenant, shares one         *)
(* exchange among the callers that wait for the same credential and re-checks *)
(* the file before it caches and before it returns.  One tenant is modelled.  *)
EXTENDS Naturals

CONSTANTS
    Callers,     \* coroutines that ask for a token
    MaxEntry,      \* bound: credential generations
    Versions,    \* contents an entry of one generation can have
    Life,        \* expires_in, with the margin of five seconds taken off
    MaxTime,     \* bound: the monotonic clock
    MaxEdits,    \* bound: changes of the file
    None

VARIABLES file, observed, cache, flight, caller, closed, clock, edits, returned
tokVars == <<file, observed, cache, flight, caller, closed, clock, edits, returned>>

Credential == [gen : 1..MaxEntry, version : Versions]
Flights == [state : {"none", "running", "token", "failed"}, since : 0..MaxTime, waiters : SUBSET Callers]
\* returned: every credential whose token a caller was given (a history).
TokTypeOK ==
    /\ file \in Credential \cup {None} /\ observed \in Credential \cup {None}
    /\ cache \in [credential : Credential, expires : 0..(MaxTime + Life)] \cup {None}
    /\ flight \in [Credential -> Flights]
    /\ caller \in [Callers -> Credential \cup {None}]
    /\ closed \in {"open", "closing", "closed"} /\ clock \in 0..MaxTime /\ edits \in 0..MaxEdits
    /\ returned \subseteq Credential

NoFlight == [state |-> "none", since |-> 0, waiters |-> {}]
\* validate() has read the file before the provider exists.
TokInit ==
    /\ file \in Credential /\ observed = file /\ cache = None
    /\ flight = [c \in Credential |-> NoFlight] /\ caller = [w \in Callers |-> None]
    /\ closed = "open" /\ clock = 0 /\ edits = 0 /\ returned = {}

-----------------------------------------------------------------------------
\* CredentialFile.snapshot: an older generation, or another entry under the
\* same generation, is refused; the mark survives the removal of the entry.
Accepted_Present(c) == c # None
Accepted(c) == c # None /\ (observed = None \/ observed.gen < c.gen \/ observed = c)
Observe == observed' = IF Accepted(file) THEN file ELSE observed

Give(w, c) == returned' = returned \cup {c} /\ caller' = [caller EXCEPT ![w] = None]
Fresh(c) == cache # None /\ cache.credential = c /\ cache.expires > clock

\* token(): the cached one, or a place in the flight of this credential.
FromCache(w) ==
    /\ caller[w] = None /\ closed = "open" /\ Accepted(file) /\ Fresh(file)
    /\ Observe /\ Give(w, file)
    /\ UNCHANGED <<file, cache, flight, closed, clock, edits>>
Join(w) ==
    /\ caller[w] = None /\ closed = "open" /\ Accepted(file) /\ ~Fresh(file)
    /\ Observe /\ cache' = None
    /\ flight' = [flight EXCEPT ![file] =
           IF @.state = "none" THEN [state |-> "running", since |-> clock, waiters |-> {w}]
                               ELSE [@ EXCEPT !.waiters = @ \cup {w}]]
    /\ caller' = [caller EXCEPT ![w] = file]
    /\ UNCHANGED <<file, closed, clock, edits, returned>>

\* The finally clause: the last waiter forgets the flight and cancels it.
Leaves(w, c) ==
    flight' = [flight EXCEPT ![c] = IF @.waiters = {w} THEN NoFlight ELSE [@ EXCEPT !.waiters = @ \ {w}]]

\* _exchange: the answer counts for the credential it was asked with only if
\* the file still holds it, and only before it expires.
Answer(c) ==
    /\ flight[c].state = "running"
    /\ Observe
    /\ IF Accepted(file) /\ file = c /\ flight[c].since + Life > clock
       THEN /\ cache' = [credential |-> c, expires |-> flight[c].since + Life]
            /\ flight' = [flight EXCEPT ![c].state = "token"]
       ELSE /\ flight' = [flight EXCEPT ![c].state = "failed"] /\ UNCHANGED cache
    /\ UNCHANGED <<file, caller, closed, clock, edits, returned>>
\* A refusal, a time-out or a malformed answer.
ExchangeFails(c) ==
    /\ flight[c].state = "running" /\ flight' = [flight EXCEPT ![c].state = "failed"]
    /\ UNCHANGED <<file, observed, cache, caller, closed, clock, edits, returned>>

Still_Any(c) == TRUE
Still(c) == closed = "open" /\ Accepted(file) /\ file = c
Wake(w) ==
    /\ caller[w] # None /\ flight[caller[w]].state = "token" /\ Still(caller[w])
    /\ Observe /\ Give(w, caller[w]) /\ Leaves(w, caller[w])
    /\ UNCHANGED <<file, cache, closed, clock, edits>>
\* The flight failed, the file changed, the provider closed, or the caller is
\* cancelled.
Raises(w) ==
    /\ caller[w] # None
    /\ caller' = [caller EXCEPT ![w] = None] /\ Leaves(w, caller[w])
    /\ Observe \/ UNCHANGED observed
    /\ UNCHANGED <<file, cache, closed, clock, edits, returned>>

\* aclose: every flight is cancelled and gathered, then the cache cleared.
Cancelled_None(f) == f
Cancelled(f) == IF f.state = "running" THEN [f EXCEPT !.state = "failed"] ELSE f
Close ==
    /\ closed = "open" /\ closed' = "closing"
    /\ flight' = [c \in Credential |-> Cancelled(flight[c])]
    /\ UNCHANGED <<file, observed, cache, caller, clock, edits, returned>>
Cleared ==
    /\ closed = "closing" /\ closed' = "closed" /\ cache' = None
    /\ UNCHANGED <<file, observed, flight, caller, clock, edits, returned>>

-----------------------------------------------------------------------------
\* The operator replaces or removes the tenant's entry, forwards or backwards.
Edit ==
    /\ edits < MaxEdits /\ edits' = edits + 1
    /\ file' \in (Credential \cup {None}) \ {file}
    /\ UNCHANGED <<observed, cache, flight, caller, closed, clock, returned>>
Tick ==
    /\ clock < MaxTime /\ clock' = clock + 1
    /\ UNCHANGED <<file, observed, cache, flight, caller, closed, edits, returned>>

TokNext ==
    \/ \E w \in Callers : FromCache(w) \/ Join(w) \/ Wake(w) \/ Raises(w)
    \/ \E c \in Credential : Answer(c) \/ ExchangeFails(c)
    \/ Close \/ Cleared \/ Edit \/ Tick
TokSpec == TokInit /\ [][TokNext]_tokVars

-----------------------------------------------------------------------------
\* A caller is given a token only of the credential the file holds at that
\* moment, from an open provider, and never one that goes back: after a token
\* of one credential nobody gets one of an older generation or of another
\* entry under the same generation, though the file was edited to it, while
\* the exchange was in flight or after the entry had been removed.
TokenIsCurrent ==
    [][returned' # returned =>
         /\ closed = "open" /\ returned' = returned \cup {file}
         /\ \A old \in returned : old.gen < file.gen]_tokVars

\* Once aclose has returned nothing is cached and no exchange is in the air,
\* whoever was waiting for it.
ClosedIsSilent ==
    closed = "closed" => cache = None /\ \A c \in Credential : flight[c].state # "running"
=============================================================================
