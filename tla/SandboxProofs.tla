--------------------------- MODULE SandboxProofs ---------------------------
(***************************************************************************)
(* The sandbox of an open run is never destroyed, and with a provider that  *)
(* reports its failures no box is forgotten but in the ways the model names, *)
(* for any number of boxes, assemblers, janitors, generations and failures.  *)
(***************************************************************************)
EXTENDS SandboxLifecycle, TLAPS

Calls3 == {"register", "teardown", "complete"}
AsmRecords == [pc : {"idle", "prior", "connect", "bind", "register", "teardown", "complete", "ready", "done"},
               gen : Nat, prior : Boxes \cup {NoBox}, got : Boxes \cup {NoBox},
               tries : Nat, then : {"done", "connect"}]
Statuses == {"none", "pending", "processing", "completed"}
Intents == [status : Statuses, due : BOOLEAN]
Rows == [phase : {"open", "terminal", "purged"}, gen : Nat, held : BOOLEAN,
         box : Boxes \cup {NoBox}, boxGen : Nat]

SandboxTypes ==
    /\ row \in Rows
    /\ box \in [Boxes -> {"none", "alive", "expired", "destroyed"}]
    /\ intent \in [Boxes -> Intents]
    /\ asm \in [Assemblers -> AsmRecords]
    /\ jan \in [Janitors -> [todo : SUBSET Boxes, torn : SUBSET Boxes]]
    /\ forgotten \subseteq Boxes

Minted(b) == b \in Boxes => box[b] # "none"

\* What a call knows of boxes: they were minted, and one that it gives up is not
\* the one it found in the row.
Knows(a) ==
    /\ Minted(asm[a].prior)
    /\ asm[a].pc \in {"bind"} \cup Calls3 => asm[a].got \in Boxes /\ Minted(asm[a].got)
    /\ asm[a].pc \in Calls3 => Fresher(a)

\* A box that this call created and did not bind; nobody else knows it.
Mine(a) == asm[a].pc \in Calls3 \/ (asm[a].pc = "bind" /\ Fresher(a))
Apart(a) ==
    Mine(a) =>
      /\ row.box # asm[a].got
      /\ \A c \in Assemblers \ {a} :
           asm[c].prior # asm[a].got /\ (Mine(c) => asm[c].got # asm[a].got)

\* A box that is being given up, or is gone by such a way.
InHands(b) == \E j \in Janitors : b \in jan[j].todo \cup jan[j].torn
Doomed(b) == intent[b].status # "none" \/ box[b] = "destroyed" \/ InHands(b)

\* While the run is open, nobody who may bind or reuse a box knows a doomed one.
Spared(b) ==
    Doomed(b) =>
      /\ row.box # b
      /\ \A a \in Assemblers : asm[a].prior # b /\ (asm[a].pc = "bind" => asm[a].got # b)
Unborn(b) == box[b] = "none" => intent[b].status = "none" /\ ~InHands(b)

SandboxInv ==
    /\ SandboxTypes /\ Minted(row.box)
    /\ \A a \in Assemblers : Knows(a) /\ Apart(a)
    /\ \A b \in Boxes : Unborn(b) /\ (row.phase = "open" => Spared(b))

----------------------------------------------------------------------------
\* With a provider that reports its failures, what was torn down is gone, and
\* what runs is kept by somebody.
Keeps(a, b) == asm[a].got = b /\ asm[a].pc \in {"bind", "register"} /\ Fresher(a)
Kept(b) ==
    box[b] = "alive" =>
      \/ b \in forgotten
      \/ row.phase = "open" /\ row.box = b
      \/ intent[b].status \in {"pending", "processing"}
      \/ \E a \in Assemblers : Keeps(a, b)
TornIsGone ==
    /\ \A j \in Janitors : \A b \in jan[j].torn : box[b] # "alive"
    /\ \A a \in Assemblers : asm[a].pc = "complete" => box[asm[a].got] # "alive"
KeptInv == SandboxInv /\ CompletedIsGone /\ TornIsGone /\ \A b \in Boxes : Kept(b)

----------------------------------------------------------------------------
LEMMA SetSays ==
    ASSUME SandboxInv, NEW a \in Assemblers, NEW r \in AsmRecords, Set(a, r)
    PROVE  asm' \in [Assemblers -> AsmRecords] /\ \A c \in Assemblers : asm'[c] = IF c = a THEN r ELSE asm[c]
BY DEF SandboxInv, SandboxTypes, Set

LEMMA Typed ==
    ASSUME SandboxInv, NEW a \in Assemblers
    PROVE  /\ asm[a] \in AsmRecords /\ asm[a].gen \in Nat /\ asm[a].prior \in Boxes \cup {NoBox}
           /\ asm[a].got \in Boxes \cup {NoBox} /\ asm[a].tries \in Nat
           /\ row \in Rows /\ row.box \in Boxes \cup {NoBox} /\ row.gen \in Nat
BY DEF SandboxInv, SandboxTypes, AsmRecords, Rows

LEMMA GoneSays ==
    ASSUME SandboxInv, NEW g \in Boxes, NEW h, h = Gone(g)
    PROVE  /\ h \in [Boxes -> {"none", "alive", "expired", "destroyed"}]
           /\ h[g] # "alive"
           /\ \A b \in Boxes : /\ (h[b] = "none") = (box[b] = "none")
                               /\ h[b] = "destroyed" => box[b] = "destroyed" \/ b = g
                               /\ h[b] = "alive" => box[b] = "alive"
<1>1. box \in [Boxes -> {"none", "alive", "expired", "destroyed"}]
  BY DEF SandboxInv, SandboxTypes
<1>2. CASE box[g] = "alive"
  <2>1. h = [box EXCEPT ![g] = "destroyed"]
    BY <1>2 DEF Gone
  <2>. QED BY <1>1, <1>2, <2>1
<1>3. CASE box[g] # "alive"
  BY <1>1, <1>3 DEF Gone
<1>. QED BY <1>2, <1>3

LEMMA BoundSays ==
    ASSUME SandboxInv, NEW a \in Assemblers, asm[a].pc = "bind", NEW s, s = Bound(a)
    PROVE  /\ s \in Rows /\ s.phase = row.phase
           /\ Binds(a) => s.box = asm[a].got
           /\ ~Binds(a) => s = row
BY Typed DEF Bound, Rows

\* A call that steps back, or has bound its box, gives nobody a doomed one.
LEMMA LetGo ==
    ASSUME SandboxInv, NEW a \in Assemblers, NEW r \in AsmRecords, Set(a, r), UNCHANGED jan,
           forgotten' \subseteq Boxes,
           r.pc \in {"prior", "connect", "ready", "done"}, r.prior \in {asm[a].prior, row.box},
           row' = row \/ (asm[a].pc = "bind" /\ row' = Bound(a)),
           box' = box \/ (asm[a].pc \in Calls3 /\ box' = Gone(asm[a].got)),
           intent' \in [Boxes -> Intents],
           \A b \in Boxes : (intent'[b].status = "none") = (intent[b].status = "none")
    PROVE  SandboxInv'
<1>1. \A c \in Assemblers : asm'[c] = IF c = a THEN r ELSE asm[c]
  BY SetSays
<1>2. /\ row' \in Rows /\ row'.phase = row.phase
      /\ row'.box = row.box \/ (asm[a].pc = "bind" /\ row'.box = asm[a].got)
  BY BoundSays, Typed
<1>3. /\ box' \in [Boxes -> {"none", "alive", "expired", "destroyed"}]
      /\ \A b \in Boxes : /\ (box'[b] = "none") = (box[b] = "none")
                          /\ box'[b] = "destroyed" => box[b] = "destroyed"
                                 \/ (asm[a].pc \in Calls3 /\ b = asm[a].got)
  <2>1. CASE box' = box
    BY <2>1 DEF SandboxInv, SandboxTypes
  <2>2. CASE asm[a].pc \in Calls3 /\ box' = Gone(asm[a].got)
    <3>1. asm[a].got \in Boxes
      BY <2>2 DEF SandboxInv, Knows
    <3>. QED BY <2>2, <3>1, GoneSays
  <2>. QED BY <2>1, <2>2
<1>4. SandboxTypes'
  BY <1>2, <1>3, SetSays DEF SandboxInv, SandboxTypes
<1>5. Minted(row.box)'
  BY <1>2, <1>3 DEF SandboxInv, Knows, Minted
<1>6. ASSUME NEW c \in Assemblers PROVE Knows(c)'
  <2>1. CASE c = a
    BY <1>1, <1>3, <2>1 DEF SandboxInv, Knows, Minted, Calls3
  <2>2. CASE c # a
    BY <1>1, <1>3, <2>2 DEF SandboxInv, Knows, Minted, Calls3, Fresher
  <2>. QED BY <2>1, <2>2
<1>7. ASSUME NEW c \in Assemblers PROVE Apart(c)'
  <2>1. CASE c = a
    BY <1>1, <2>1 DEF Apart, Mine, Calls3
  <2>2. CASE c # a /\ Mine(c)
    <3>1. asm'[c] = asm[c] /\ row.box # asm[c].got
          /\ \A d \in Assemblers \ {c} : asm[d].prior # asm[c].got /\ (Mine(d) => asm[d].got # asm[c].got)
      BY <1>1, <2>2 DEF SandboxInv, Apart
    <3>2. row'.box # asm[c].got
      <4>1. CASE row'.box = row.box
        BY <3>1, <4>1
      <4>2. CASE asm[a].pc = "bind" /\ row'.box = asm[a].got
        BY <2>2, <3>1, <4>2 DEF Mine, Fresher
      <4>. QED BY <1>2, <4>1, <4>2
    <3>3. ASSUME NEW d \in Assemblers \ {c}
          PROVE  asm'[d].prior # asm[c].got /\ (Mine(d)' => asm'[d].got # asm[c].got)
      <4>1. CASE d = a
        BY <1>1, <2>2, <3>1, <4>1 DEF Mine, Calls3
      <4>2. CASE d # a
        BY <1>1, <3>1, <4>2 DEF Mine, Fresher
      <4>. QED BY <4>1, <4>2
    <3>. QED BY <3>1, <3>2, <3>3 DEF Apart
  <2>3. CASE c # a /\ ~Mine(c)
    BY <1>1, <2>3 DEF Apart, Mine, Fresher
  <2>. QED BY <2>1, <2>2, <2>3
<1>8. ASSUME NEW b \in Boxes PROVE Unborn(b)'
  BY <1>3 DEF SandboxInv, Unborn, InHands
<1>9. ASSUME NEW b \in Boxes, row'.phase = "open", Doomed(b)'
      PROVE  /\ row'.box # b
             /\ \A c \in Assemblers : asm'[c].prior # b /\ (asm'[c].pc = "bind" => asm'[c].got # b)
  <2>1. Doomed(b) \/ (asm[a].pc \in Calls3 /\ b = asm[a].got)
    BY <1>3, <1>9 DEF Doomed, InHands
  <2>2. CASE Doomed(b)
    <3>1. row.box # b /\ \A c \in Assemblers : asm[c].prior # b /\ (asm[c].pc = "bind" => asm[c].got # b)
      BY <1>2, <1>9, <2>2 DEF SandboxInv, Spared
    <3>. QED BY <1>1, <1>2, <3>1
  <2>3. CASE asm[a].pc \in Calls3 /\ b = asm[a].got
    <3>1. row.box # b /\ asm[a].prior # b
          /\ \A c \in Assemblers \ {a} : asm[c].prior # b /\ (Mine(c) => asm[c].got # b)
      BY <2>3 DEF SandboxInv, Apart, Mine, Knows, Fresher
    <3>2. row'.box # b
      BY <1>2, <2>3, <3>1 DEF Calls3
    <3>3. ASSUME NEW c \in Assemblers PROVE asm'[c].prior # b /\ (asm'[c].pc = "bind" => asm'[c].got # b)
      BY <1>1, <3>1 DEF Mine, Fresher
    <3>. QED BY <3>2, <3>3
  <2>. QED BY <2>1, <2>2, <2>3
<1>. QED BY <1>4, <1>5, <1>6, <1>7, <1>8, <1>9 DEF SandboxInv, Spared

\* A call goes on to give up the box it created, which only it knows.
LEMMA HoldOn ==
    ASSUME SandboxInv, NEW a \in Assemblers, NEW r \in AsmRecords, Set(a, r), UNCHANGED <<row, jan>>,
           forgotten' \subseteq Boxes, Mine(a), r.pc \in Calls3,
           r.prior = asm[a].prior, r.got = asm[a].got,
           box' = box \/ box' = Gone(asm[a].got),
           intent' \in [Boxes -> Intents],
           \A b \in Boxes : b # asm[a].got => intent'[b] = intent[b]
    PROVE  SandboxInv'
<1>. DEFINE g == asm[a].got
<1>0. g \in Boxes /\ Minted(g) /\ Fresher(a)
  BY DEF SandboxInv, Knows, Mine
<1>1. \A c \in Assemblers : asm'[c] = IF c = a THEN r ELSE asm[c]
  BY SetSays
<1>2. /\ box' \in [Boxes -> {"none", "alive", "expired", "destroyed"}]
      /\ \A b \in Boxes : /\ (box'[b] = "none") = (box[b] = "none")
                          /\ box'[b] = "destroyed" => box[b] = "destroyed" \/ b = g
  <2>1. CASE box' = box
    BY <2>1 DEF SandboxInv, SandboxTypes
  <2>2. CASE box' = Gone(g)
    BY <1>0, <2>2, GoneSays
  <2>. QED BY <2>1, <2>2
<1>3. SandboxTypes'
  BY <1>2, SetSays DEF SandboxInv, SandboxTypes
<1>4. Minted(row.box)'
  BY <1>2 DEF SandboxInv, Minted
<1>5. ASSUME NEW c \in Assemblers PROVE Knows(c)'
  BY <1>0, <1>1, <1>2 DEF SandboxInv, Knows, Minted, Calls3, Fresher
<1>6. ASSUME NEW c \in Assemblers PROVE Apart(c)'
  <2>1. \A d \in Assemblers : Mine(d)' = Mine(d) /\ asm'[d].got = asm[d].got /\ asm'[d].prior = asm[d].prior
    BY <1>1 DEF Mine, Fresher
  <2>. QED BY <2>1 DEF SandboxInv, Apart
<1>7. ASSUME NEW b \in Boxes PROVE Unborn(b)'
  BY <1>0, <1>2 DEF SandboxInv, Unborn, InHands, Minted
<1>8. ASSUME NEW b \in Boxes, row'.phase = "open", Doomed(b)'
      PROVE  /\ row'.box # b
             /\ \A c \in Assemblers : asm'[c].prior # b /\ (asm'[c].pc = "bind" => asm'[c].got # b)
  <2>1. Doomed(b) \/ b = g
    BY <1>2, <1>8 DEF Doomed, InHands
  <2>2. CASE Doomed(b)
    <3>1. row.box # b /\ \A c \in Assemblers : asm[c].prior # b /\ (asm[c].pc = "bind" => asm[c].got # b)
      BY <1>8, <2>2 DEF SandboxInv, Spared
    <3>. QED BY <1>1, <3>1 DEF Calls3
  <2>3. CASE b = g
    <3>1. row.box # b /\ asm[a].prior # b
          /\ \A c \in Assemblers \ {a} : asm[c].prior # b /\ (Mine(c) => asm[c].got # b)
      BY <1>0, <2>3 DEF SandboxInv, Apart, Fresher
    <3>. QED BY <1>1, <3>1 DEF Mine, Fresher, Calls3
  <2>. QED BY <2>1, <2>2, <2>3
<1>. QED BY <1>3, <1>4, <1>5, <1>6, <1>7, <1>8 DEF SandboxInv, Spared

\* A call that comes back with the box it was told of.
LEMMA TakesUp ==
    ASSUME SandboxInv, NEW a \in Assemblers, NEW r \in AsmRecords, Set(a, r),
           UNCHANGED <<row, box, intent, jan>>, forgotten' \subseteq Boxes,
           asm[a].pc = "connect", r.pc = "bind", r.prior = asm[a].prior, r.got = asm[a].prior, r.got \in Boxes
    PROVE  SandboxInv'
<1>1. \A c \in Assemblers : asm'[c] = IF c = a THEN r ELSE asm[c]
  BY SetSays
<1>2. SandboxTypes' /\ Minted(row.box)'
  BY SetSays DEF SandboxInv, SandboxTypes, Minted
<1>3. ASSUME NEW c \in Assemblers PROVE Knows(c)'
  BY <1>1 DEF SandboxInv, Knows, Minted, Calls3, Fresher
<1>4. ASSUME NEW c \in Assemblers PROVE Apart(c)'
  <2>1. \A d \in Assemblers : asm'[d].prior = asm[d].prior /\ (d # a => asm'[d] = asm[d])
    BY <1>1
  <2>2. ~Mine(a)' /\ \A d \in Assemblers : d # a => (Mine(d)' <=> Mine(d))
    BY <1>1, <2>1 DEF Mine, Fresher, Calls3
  <2>3. CASE c = a
    BY <2>2, <2>3 DEF Apart
  <2>4. CASE c # a
    BY <2>1, <2>2, <2>4 DEF SandboxInv, Apart
  <2>. QED BY <2>3, <2>4
<1>5. ASSUME NEW b \in Boxes PROVE Unborn(b)' /\ (row'.phase = "open" => Spared(b)')
  BY <1>1 DEF SandboxInv, Unborn, Spared, InHands, Doomed
<1>. QED BY <1>2, <1>3, <1>4, <1>5 DEF SandboxInv

\* A call that comes back with a box that did not exist before.
LEMMA Mints ==
    ASSUME SandboxInv, NEW a \in Assemblers, NEW r \in AsmRecords, Set(a, r), NEW g \in Boxes,
           UNCHANGED <<row, intent, jan>>, forgotten' \subseteq Boxes,
           box[g] = "none", box' = [box EXCEPT ![g] = "alive"],
           asm[a].pc = "connect", r.pc \in {"bind", "register"}, r.prior = asm[a].prior, r.got = g
    PROVE  SandboxInv'
<1>0. row.box # g /\ (\A c \in Assemblers : asm[c].prior # g /\ (Mine(c) => asm[c].got # g))
      /\ intent[g].status = "none" /\ ~InHands(g)
  BY DEF SandboxInv, Minted, Knows, Mine, Unborn, Calls3
<1>1. \A c \in Assemblers : asm'[c] = IF c = a THEN r ELSE asm[c]
  BY SetSays
<1>2. box' \in [Boxes -> {"none", "alive", "expired", "destroyed"}]
      /\ \A b \in Boxes : box'[b] = IF b = g THEN "alive" ELSE box[b]
  BY DEF SandboxInv, SandboxTypes
<1>3. SandboxTypes' /\ Minted(row.box)'
  BY <1>2, SetSays DEF SandboxInv, SandboxTypes, Minted
<1>4. ASSUME NEW c \in Assemblers PROVE Knows(c)'
  <2>1. CASE c = a
    BY <1>0, <1>1, <1>2, <2>1 DEF SandboxInv, Knows, Minted, Calls3, Fresher
  <2>2. CASE c # a
    BY <1>1, <1>2, <2>2 DEF SandboxInv, Knows, Minted, Calls3, Fresher
  <2>. QED BY <2>1, <2>2
<1>5. ASSUME NEW c \in Assemblers PROVE Apart(c)'
  <2>1. ~Mine(a) /\ asm'[a].got = g /\ \A d \in Assemblers :
           asm'[d].prior = asm[d].prior /\ (d # a => Mine(d)' = Mine(d) /\ asm'[d].got = asm[d].got)
    BY <1>1 DEF Mine, Fresher, Calls3
  <2>2. CASE c = a
    BY <1>0, <2>1, <2>2 DEF Apart
  <2>3. CASE c # a
    BY <1>0, <2>1, <2>3 DEF SandboxInv, Apart
  <2>. QED BY <2>2, <2>3
<1>6. ASSUME NEW b \in Boxes PROVE Unborn(b)'
  BY <1>2 DEF SandboxInv, Unborn, InHands
<1>7. ASSUME NEW b \in Boxes, row'.phase = "open" PROVE Spared(b)'
  <2>1. Doomed(b)' => Doomed(b) /\ b # g
    BY <1>0, <1>2 DEF Doomed, InHands
  <2>2. Spared(b)
    BY <1>7 DEF SandboxInv
  <2>. QED BY <1>1, <2>1, <2>2 DEF Spared
<1>. QED BY <1>3, <1>4, <1>5, <1>6, <1>7 DEF SandboxInv

\* What happens outside the calls only hurts a box that is given up already.
LEMMA Outside ==
    ASSUME SandboxInv, UNCHANGED asm, SandboxTypes', row'.box \in {row.box, NoBox},
           row'.phase = "open" => row.phase = "open",
           \A b \in Boxes : (box'[b] = "none") = (box[b] = "none"),
           \A b \in Boxes : Unborn(b)',
           \A b \in Boxes : row'.phase = "open" /\ Doomed(b)' => Doomed(b)
    PROVE  SandboxInv'
<1>1. Minted(row.box)'
  BY SandboxAssumption DEF SandboxInv, Minted
<1>2. ASSUME NEW c \in Assemblers PROVE Knows(c)'
  BY DEF SandboxInv, Knows, Minted, Calls3, Fresher
<1>3. ASSUME NEW c \in Assemblers PROVE Apart(c)'
  <2>1. Mine(c)' => asm[c].got \in Boxes
    BY DEF SandboxInv, Mine, Knows, Fresher
  <2>. QED BY <2>1, SandboxAssumption DEF SandboxInv, Apart, Mine, Fresher
<1>4. ASSUME NEW b \in Boxes, row'.phase = "open" PROVE Spared(b)'
  BY <1>4, SandboxAssumption DEF SandboxInv, Spared
<1>. QED BY <1>1, <1>2, <1>3, <1>4 DEF SandboxInv

----------------------------------------------------------------------------
LEMMA UpdateSays ==
    ASSUME SandboxInv, NEW b \in Boxes, NEW i \in Intents, i.status # "none", Update(b, i)
    PROVE  /\ intent' \in [Boxes -> Intents]
           /\ \A c \in Boxes : (intent'[c].status = "none") = (intent[c].status = "none")
           /\ \A c \in Boxes : intent'[c] = intent[c] \/ (c = b /\ intent'[c] = i)
<1>1. intent \in [Boxes -> Intents]
  BY DEF SandboxInv, SandboxTypes
<1>2. CASE intent[b].status = "none"
  BY <1>1, <1>2 DEF Update
<1>3. CASE intent[b].status # "none"
  BY <1>1, <1>3 DEF Update
<1>. QED BY <1>2, <1>3

LEMMA IntentValues ==
    ASSUME SandboxInv, NEW b \in Boxes, NEW now \in BOOLEAN
    PROVE  /\ Registered(b) \in Intents /\ Registered(b).status # "none"
           /\ Completed(b) \in Intents /\ Completed(b).status = "completed"
           /\ Rescheduled(b, now) \in Intents /\ Rescheduled(b, now).status # "none"
           /\ Registered(b).status = "completed" => intent[b].status = "completed"
           /\ Rescheduled(b, now).status = "completed" => intent[b].status = "completed"
BY DEF SandboxInv, SandboxTypes, Intents, Statuses, Registered, Completed, Rescheduled

\* Which bind is applied and what its answer says.
LEMMA AnswerSays ==
    ASSUME SandboxInv, NEW a \in Assemblers, asm[a].pc = "bind"
    PROVE  /\ asm[a].got \in Boxes /\ asm[a].got # NoBox
           /\ Binds(a) => BindAnswer(a) = asm[a].got /\ row.phase = "open"
           /\ ~Binds(a) /\ BindAnswer(a) # NoBox => BindAnswer(a) = row.box /\ row.phase = "open"
BY SandboxAssumption DEF SandboxInv, Knows, BindAnswer, Binds, Active

\* The record a call goes on with, by action.
StepsBack(a) ==
    \/ Begin(a) \/ ReadPrior(a) \/ ConnectFails(a) \/ BindFails(a)
    \/ TeardownFails(a) \/ Complete(a) \/ Crash(a)

LEMMA EndsWell ==
    ASSUME SandboxInv, NEW a \in Assemblers
    PROVE  LET r == [asm[a] EXCEPT !.pc = "done"]
           IN  r \in AsmRecords /\ r.pc = "done" /\ r.prior = asm[a].prior
BY Typed DEF AsmRecords

LEMMA StepsBackKeep ==
    ASSUME SandboxInv, NEW a \in Assemblers, StepsBack(a)
    PROVE  SandboxInv'
<1>0. asm[a] \in AsmRecords /\ row.box \in Boxes \cup {NoBox} /\ row.gen \in Nat /\ asm[a].got \in Boxes \cup {NoBox}
      /\ intent \in [Boxes -> Intents] /\ forgotten \subseteq Boxes
  BY Typed DEF SandboxInv, SandboxTypes
<1>1. CASE Begin(a)
  <2>. DEFINE r == [asm[a] EXCEPT !.pc = "prior", !.gen = row.gen]
  <2>1. r \in AsmRecords /\ r.pc = "prior" /\ r.prior = asm[a].prior
    BY <1>0 DEF AsmRecords
  <2>2. Set(a, r) /\ UNCHANGED <<row, box, intent, jan, forgotten>>
    BY <1>1 DEF Begin
  <2>. HIDE DEF r
  <2>. QED BY <1>0, <2>1, <2>2, LetGo
<1>2. CASE ReadPrior(a)
  <2>. DEFINE r == [asm[a] EXCEPT !.pc = "connect", !.prior = row.box]
  <2>1. r \in AsmRecords /\ r.pc = "connect" /\ r.prior = row.box
    BY <1>0 DEF AsmRecords
  <2>2. Set(a, r) /\ UNCHANGED <<row, box, intent, jan, forgotten>>
    BY <1>2 DEF ReadPrior
  <2>. HIDE DEF r
  <2>. QED BY <1>0, <2>1, <2>2, LetGo
<1>3. CASE ConnectFails(a) \/ BindFails(a) \/ TeardownFails(a) \/ Crash(a)
  <2>. DEFINE r == [asm[a] EXCEPT !.pc = "done"]
  <2>1. r \in AsmRecords /\ r.pc = "done" /\ r.prior = asm[a].prior
    BY <1>0, EndsWell
  <2>2. Set(a, r) /\ UNCHANGED <<box, jan>>
    BY <1>3 DEF ConnectFails, BindFails, TeardownFails, Crash, End
  <2>3. forgotten' \subseteq Boxes
    <3>1. Replaced(a) \subseteq Boxes
      BY <1>0 DEF Replaced
    <3>. QED BY <1>0, <1>3, <3>1 DEF ConnectFails, BindFails, TeardownFails, Crash, Forget
  <2>4. row' = row \/ (asm[a].pc = "bind" /\ row' = Bound(a))
    BY <1>3 DEF ConnectFails, BindFails, TeardownFails, Crash
  <2>5. intent' \in [Boxes -> Intents]
        /\ \A b \in Boxes : (intent'[b].status = "none") = (intent[b].status = "none")
    <3>1. CASE TeardownFails(a)
      <4>1. asm[a].got \in Boxes
        BY <3>1 DEF TeardownFails, SandboxInv, Knows, Calls3
      <4>. QED BY <3>1, <4>1, UpdateSays, IntentValues DEF TeardownFails
    <3>2. CASE ConnectFails(a) \/ BindFails(a) \/ Crash(a)
      BY <1>0, <3>2 DEF ConnectFails, BindFails, Crash
    <3>. QED BY <1>3, <3>1, <3>2
  <2>. HIDE DEF r
  <2>. QED BY <2>1, <2>2, <2>3, <2>4, <2>5, LetGo
<1>4. CASE Complete(a)
  <2>. DEFINE r == [asm[a] EXCEPT !.pc = asm[a].then, !.prior = row.box, !.then = "done"]
  <2>1. r \in AsmRecords /\ r.pc \in {"connect", "done"} /\ r.prior = row.box
    <3>1. asm[a].then \in {"connect", "done"}
      BY <1>0 DEF AsmRecords
    <3>. QED BY <1>0, <3>1 DEF AsmRecords
  <2>2. Set(a, r) /\ UNCHANGED <<row, box, jan, forgotten>> /\ Update(asm[a].got, Completed(asm[a].got))
    BY <1>4 DEF Complete, Then
  <2>3. asm[a].got \in Boxes
    BY <1>4 DEF Complete, SandboxInv, Knows, Calls3
  <2>4. intent' \in [Boxes -> Intents]
        /\ \A b \in Boxes : (intent'[b].status = "none") = (intent[b].status = "none")
    BY <2>2, <2>3, UpdateSays, IntentValues
  <2>. HIDE DEF r
  <2>. QED BY <1>0, <2>1, <2>2, <2>4, LetGo
<1>. QED BY <1>1, <1>2, <1>3, <1>4 DEF StepsBack

LEMMA GivesUpKeep ==
    ASSUME SandboxInv, NEW a \in Assemblers, RegisterIntent(a) \/ RegisterFails(a) \/ Teardown(a)
    PROVE  SandboxInv'
<1>0. asm[a].pc \in Calls3 /\ asm[a].got \in Boxes /\ asm[a] \in AsmRecords
      /\ intent \in [Boxes -> Intents] /\ forgotten \subseteq Boxes /\ Mine(a)
  <2>1. asm[a].pc \in Calls3
    BY DEF RegisterIntent, RegisterFails, Teardown, Calls3
  <2>. QED BY <2>1, Typed DEF SandboxInv, SandboxTypes, Knows, Mine
<1>1. CASE RegisterIntent(a)
  <2>. DEFINE r == [asm[a] EXCEPT !.pc = "teardown"]
  <2>1. r \in AsmRecords /\ r.pc = "teardown" /\ r.prior = asm[a].prior /\ r.got = asm[a].got
    BY <1>0 DEF AsmRecords
  <2>2. Set(a, r) /\ UNCHANGED <<row, box, jan, forgotten>>
        /\ intent' = [intent EXCEPT ![asm[a].got] = Registered(asm[a].got)]
    BY <1>1 DEF RegisterIntent
  <2>3. intent' \in [Boxes -> Intents] /\ \A b \in Boxes : b # asm[a].got => intent'[b] = intent[b]
    BY <1>0, <2>2, IntentValues
  <2>. HIDE DEF r
  <2>. QED BY <1>0, <2>1, <2>2, <2>3, HoldOn DEF Calls3
<1>2. CASE RegisterFails(a)
  <2>. DEFINE r == [asm[a] EXCEPT !.pc = "done"]
  <2>1. r \in AsmRecords /\ r.pc = "done" /\ r.prior = asm[a].prior
    BY <1>0, EndsWell
  <2>2. Set(a, r) /\ UNCHANGED <<row, intent, jan>> /\ (box' = box \/ box' = Gone(asm[a].got))
    BY <1>2 DEF RegisterFails, End
  <2>3. forgotten' \subseteq Boxes
    BY <1>0, <1>2 DEF RegisterFails, Forget
  <2>. HIDE DEF r
  <2>. QED BY <1>0, <2>1, <2>2, <2>3, LetGo
<1>3. CASE Teardown(a)
  <2>. DEFINE r == [asm[a] EXCEPT !.pc = "complete"]
  <2>1. r \in AsmRecords /\ r.pc = "complete" /\ r.prior = asm[a].prior /\ r.got = asm[a].got
    BY <1>0 DEF AsmRecords
  <2>2. Set(a, r) /\ UNCHANGED <<row, intent, jan, forgotten>> /\ (box' = box \/ box' = Gone(asm[a].got))
    BY <1>3 DEF Teardown, Destroy
  <2>. HIDE DEF r
  <2>. QED BY <1>0, <2>1, <2>2, HoldOn DEF Calls3
<1>. QED BY <1>1, <1>2, <1>3

LEMMA ConnectKeep ==
    ASSUME SandboxInv, NEW a \in Assemblers, Connect(a) \/ CancelConnect(a)
    PROVE  SandboxInv'
<1>0. asm[a] \in AsmRecords /\ forgotten \subseteq Boxes /\ asm[a].tries \in Nat
      /\ UNCHANGED <<row, intent, jan, forgotten>> /\ asm[a].pc = "connect"
  BY Typed DEF SandboxInv, SandboxTypes, Connect, CancelConnect
<1>1. CASE Connect(a)
  <2>. DEFINE n == asm[a].tries + 1
              r(b) == [asm[a] EXCEPT !.pc = "bind", !.got = b, !.tries = n]
              then == [b \in Boxes |-> r(b)]
  <2>0. n \in Nat /\ then = [b \in Boxes |-> [asm[a] EXCEPT !.pc = "bind", !.got = b, !.tries = @ + 1]]
    BY <1>0
  <2>. HIDE DEF n
  <2>1. ASSUME NEW b \in Boxes
        PROVE  r(b) \in AsmRecords /\ r(b).pc = "bind" /\ r(b).got = b /\ r(b).prior = asm[a].prior
    BY <1>0, <2>0 DEF AsmRecords
  <2>2. Reuse(a, then) \/ Mint(a, then)
    BY <1>1, <2>0 DEF Connect
  <2>. HIDE DEF r
  <2>3. CASE Reuse(a, then)
    <3>. DEFINE p == asm[a].prior
    <3>1. p \in Boxes /\ Set(a, r(p)) /\ UNCHANGED box
      BY <2>3 DEF Reuse, Alive
    <3>. QED BY <1>0, <2>1, <3>1, TakesUp
  <2>4. CASE Mint(a, then)
    <3>1. PICK b \in Boxes : box[b] = "none" /\ box' = [box EXCEPT ![b] = "alive"] /\ Set(a, r(b))
      BY <2>4 DEF Mint, Unminted
    <3>. QED BY <1>0, <2>1, <3>1, Mints
  <2>. QED BY <2>2, <2>3, <2>4
<1>2. CASE CancelConnect(a)
  <2>. DEFINE r(b) == [asm[a] EXCEPT !.pc = "register", !.got = b, !.then = "done"]
              e == [asm[a] EXCEPT !.pc = "done"]
              then == [b \in Boxes |-> IF b # asm[a].prior THEN r(b) ELSE e]
  <2>1. ASSUME NEW b \in Boxes
        PROVE  r(b) \in AsmRecords /\ r(b).pc = "register" /\ r(b).got = b /\ r(b).prior = asm[a].prior
    BY <1>0 DEF AsmRecords
  <2>2. e \in AsmRecords /\ e.pc = "done" /\ e.prior = asm[a].prior
    BY EndsWell
  <2>3. Reuse(a, then) \/ Mint(a, then)
    BY <1>2 DEF CancelConnect
  <2>. HIDE DEF r, e
  <2>4. CASE Reuse(a, then)
    <3>1. Set(a, e) /\ UNCHANGED box
      BY <2>4 DEF Reuse, Alive
    <3>. QED BY <1>0, <2>2, <3>1, LetGo DEF SandboxInv, SandboxTypes
  <2>5. CASE Mint(a, then)
    <3>1. PICK b \in Boxes : box[b] = "none" /\ box' = [box EXCEPT ![b] = "alive"] /\ Set(a, then[b])
      BY <2>5 DEF Mint, Unminted
    <3>2. b # asm[a].prior
      BY <3>1 DEF SandboxInv, Knows, Minted
    <3>3. Set(a, r(b))
      BY <3>1, <3>2
    <3>. QED BY <1>0, <2>1, <3>1, <3>3, Mints
  <2>. QED BY <2>3, <2>4, <2>5
<1>. QED BY <1>1, <1>2

\* A call whose box is not the one of the row is not bound by its answer.
LEMMA BindKeep ==
    ASSUME SandboxInv, NEW a \in Assemblers, Bind(a)
    PROVE  SandboxInv'
<1>0. /\ asm[a] \in AsmRecords /\ row.box \in Boxes \cup {NoBox} /\ asm[a].pc = "bind"
      /\ intent \in [Boxes -> Intents] /\ forgotten' \subseteq Boxes
      /\ row' = Bound(a) /\ UNCHANGED <<box, intent, jan>>
  <2>1. Replaced(a) \subseteq Boxes /\ forgotten \subseteq Boxes
    BY Typed DEF Replaced, SandboxInv, SandboxTypes
  <2>. QED BY <2>1, Typed DEF SandboxInv, SandboxTypes, Bind
<1>1. CASE BindAnswer(a) = NoBox
  <2>1. UNCHANGED row
    BY <1>0, <1>1, AnswerSays, BoundSays
  <2>2. CASE Owned(a)
    <3>. DEFINE r == [asm[a] EXCEPT !.then = "done", !.pc = "register"]
    <3>1. r \in AsmRecords /\ r.pc = "register" /\ r.prior = asm[a].prior /\ r.got = asm[a].got
      BY <1>0 DEF AsmRecords
    <3>2. Set(a, [[asm[a] EXCEPT !.then = "done"] EXCEPT !.pc = "register"])
      BY <1>1, <2>2, AnswerSays DEF Bind, Leave
    <3>3. Set(a, r)
      BY <3>2
    <3>4. Mine(a)
      BY <1>0, <2>2 DEF Mine, Owned
    <3>. HIDE DEF r
    <3>. QED BY <1>0, <2>1, <3>1, <3>3, <3>4, HoldOn DEF Calls3
  <2>3. CASE ~Owned(a)
    <3>. DEFINE r == [asm[a] EXCEPT !.then = "done", !.pc = "done"]
    <3>1. r \in AsmRecords /\ r.pc = "done" /\ r.prior = asm[a].prior
      BY <1>0 DEF AsmRecords
    <3>2. Set(a, [[asm[a] EXCEPT !.then = "done"] EXCEPT !.pc = [asm[a] EXCEPT !.then = "done"].then])
      BY <1>1, <2>3, AnswerSays DEF Bind, Leave
    <3>3. Set(a, r)
      BY <1>0, <3>2 DEF AsmRecords
    <3>. HIDE DEF r
    <3>. QED BY <1>0, <2>1, <3>1, <3>3, LetGo
  <2>. QED BY <2>2, <2>3
<1>2. CASE BindAnswer(a) = asm[a].got
  <2>. DEFINE r == [asm[a] EXCEPT !.pc = "ready"]
  <2>1. r \in AsmRecords /\ r.pc = "ready" /\ r.prior = asm[a].prior
    BY <1>0 DEF AsmRecords
  <2>2. Set(a, r)
    BY <1>2, AnswerSays, <1>0 DEF Bind
  <2>. HIDE DEF r
  <2>. QED BY <1>0, <2>1, <2>2, LetGo
<1>3. CASE BindAnswer(a) \notin {NoBox, asm[a].got}
  <2>. DEFINE next == IF asm[a].tries < 3 THEN "connect" ELSE "done"
              h == [asm[a] EXCEPT !.pc = "register", !.then = next]
              r == [asm[a] EXCEPT !.pc = next, !.prior = row.box]
  <2>1. UNCHANGED row
    BY <1>0, <1>3, AnswerSays, BoundSays
  <2>2. Set(a, IF Owned(a) THEN h ELSE r)
    BY <1>3 DEF Bind
  <2>3. next \in {"connect", "done"}
    OBVIOUS
  <2>. HIDE DEF next
  <2>4. h \in AsmRecords /\ h.pc = "register" /\ h.prior = asm[a].prior /\ h.got = asm[a].got
    BY <1>0, <2>3 DEF AsmRecords
  <2>5. r \in AsmRecords /\ r.pc = next /\ r.prior = row.box
    BY <1>0, <2>3 DEF AsmRecords
  <2>. HIDE DEF h, r
  <2>6. CASE Owned(a)
    <3>1. Mine(a)
      BY <1>0, <2>6 DEF Mine, Owned
    <3>. QED BY <1>0, <2>1, <2>2, <2>4, <2>6, <3>1, HoldOn DEF Calls3
  <2>7. CASE ~Owned(a)
    BY <1>0, <2>1, <2>2, <2>3, <2>5, <2>7, LetGo
  <2>. QED BY <2>6, <2>7
<1>. QED BY <1>1, <1>2, <1>3

LEMMA AssemblerKeep == ASSUME SandboxInv, NEW a \in Assemblers, AssemblerStep(a) PROVE SandboxInv'
BY StepsBackKeep, GivesUpKeep, ConnectKeep, BindKeep DEF AssemblerStep, StepsBack

----------------------------------------------------------------------------
LEMMA RowKeep ==
    ASSUME SandboxInv, LeaseLapses \/ Reclaim \/ EndRun \/ Purge
    PROVE  SandboxInv'
<1>0. /\ row \in Rows /\ intent \in [Boxes -> Intents] /\ UNCHANGED <<box, asm, jan, forgotten>>
      /\ row.gen \in Nat /\ row.box \in Boxes \cup {NoBox}
  BY DEF SandboxInv, SandboxTypes, Rows, LeaseLapses, Reclaim, EndRun, Purge
<1>1. CASE LeaseLapses
  <2>1. row' = [row EXCEPT !.held = FALSE] /\ UNCHANGED intent
    BY <1>1 DEF LeaseLapses
  <2>2. row' \in Rows /\ row'.box = row.box /\ row'.phase = row.phase
    BY <1>0, <2>1 DEF Rows
  <2>. QED BY <1>0, <2>1, <2>2, Outside DEF SandboxInv, SandboxTypes, Unborn, InHands, Doomed
<1>2. CASE Reclaim
  <2>. DEFINE n == row.gen + 1
  <2>1. row' = [row EXCEPT !.held = TRUE, !.gen = n] /\ n \in Nat /\ UNCHANGED intent
    BY <1>0, <1>2 DEF Reclaim
  <2>. HIDE DEF n
  <2>2. row' \in Rows /\ row'.box = row.box /\ row'.phase = row.phase
    BY <1>0, <2>1 DEF Rows
  <2>. QED BY <1>0, <2>1, <2>2, Outside DEF SandboxInv, SandboxTypes, Unborn, InHands, Doomed
<1>3. CASE EndRun
  <2>1. row' = [row EXCEPT !.phase = "terminal", !.held = FALSE]
        /\ intent' = IF row.box = NoBox THEN intent ELSE [intent EXCEPT ![row.box] = Registered(row.box)]
    BY <1>3 DEF EndRun
  <2>2. row' \in Rows /\ row'.box = row.box /\ row'.phase = "terminal"
    BY <1>0, <2>1 DEF Rows
  <2>3. intent' \in [Boxes -> Intents] /\ \A b \in Boxes : b # row.box => intent'[b] = intent[b]
    BY <1>0, <2>1, IntentValues
  <2>4. ASSUME NEW b \in Boxes PROVE Unborn(b)'
    BY <1>0, <2>3 DEF SandboxInv, Unborn, InHands, Minted
  <2>. QED BY <1>0, <2>2, <2>3, <2>4, Outside DEF SandboxInv, SandboxTypes
<1>4. CASE Purge
  <2>1. row' = [row EXCEPT !.phase = "purged", !.box = NoBox, !.boxGen = 0] /\ intent' = [b \in Boxes |-> NoIntent]
    BY <1>4 DEF Purge
  <2>2. row' \in Rows /\ row'.box = NoBox /\ row'.phase = "purged"
    BY <1>0, <2>1 DEF Rows
  <2>3. intent' \in [Boxes -> Intents] /\ \A b \in Boxes : intent'[b].status = "none"
    BY <2>1 DEF NoIntent, Intents, Statuses
  <2>4. ASSUME NEW b \in Boxes PROVE Unborn(b)'
    BY <1>0, <2>3 DEF SandboxInv, Unborn, InHands
  <2>. QED BY <1>0, <2>2, <2>3, <2>4, Outside DEF SandboxInv, SandboxTypes
<1>. QED BY <1>1, <1>2, <1>3, <1>4

LEMMA BoxKeep ==
    ASSUME SandboxInv, NEW g \in Boxes, Expires(g) \/ Falls(g)
    PROVE  SandboxInv'
<1>0. box \in [Boxes -> {"none", "alive", "expired", "destroyed"}] /\ intent \in [Boxes -> Intents]
  BY DEF SandboxInv, SandboxTypes
<1>1. CASE Expires(g)
  <2>1. UNCHANGED <<row, intent, asm, jan, forgotten>> /\ box[g] = "alive" /\ box' = [box EXCEPT ![g] = "expired"]
    BY <1>1 DEF Expires, Alive
  <2>2. box' \in [Boxes -> {"none", "alive", "expired", "destroyed"}]
        /\ \A b \in Boxes : box'[b] = IF b = g THEN "expired" ELSE box[b]
    BY <1>0, <2>1
  <2>. QED BY <2>1, <2>2, Outside DEF SandboxInv, SandboxTypes, Unborn, InHands, Doomed
<1>2. CASE Falls(g)
  <2>1. UNCHANGED <<row, box, asm, jan, forgotten>> /\ intent' = [intent EXCEPT ![g].due = TRUE]
    BY <1>2 DEF Falls
  <2>2. intent' \in [Boxes -> Intents] /\ \A b \in Boxes : intent'[b].status = intent[b].status
    BY <1>0, <2>1 DEF Intents
  <2>. QED BY <2>1, <2>2, Outside DEF SandboxInv, SandboxTypes, Unborn, InHands, Doomed
<1>. QED BY <1>1, <1>2

\* A janitor works on boxes that have an intent.
LEMMA JanitorKeep ==
    ASSUME SandboxInv, NEW j \in Janitors, JanitorStep(j)
    PROVE  SandboxInv'
<1>0. /\ jan \in [Janitors -> [todo : SUBSET Boxes, torn : SUBSET Boxes]]
      /\ box \in [Boxes -> {"none", "alive", "expired", "destroyed"}] /\ intent \in [Boxes -> Intents]
      /\ UNCHANGED <<row, asm, forgotten>>
  BY DEF SandboxInv, SandboxTypes, JanitorStep, Claim, TearDownClaimed, TearDownRaises, CompleteClaimed, Abandon
<1>a. ASSUME jan' \in [Janitors -> [todo : SUBSET Boxes, torn : SUBSET Boxes]],
             box' \in [Boxes -> {"none", "alive", "expired", "destroyed"}], intent' \in [Boxes -> Intents],
             \A b \in Boxes : (box'[b] = "none") = (box[b] = "none"),
             \A b \in Boxes : (intent'[b].status = "none") = (intent[b].status = "none"),
             \A b \in Boxes : InHands(b)' \/ (box'[b] = "destroyed" /\ box[b] # "destroyed") => Doomed(b) /\ box[b] # "none"
      PROVE  SandboxInv'
  <2>1. SandboxTypes'
    BY <1>0, <1>a DEF SandboxInv, SandboxTypes
  <2>2. ASSUME NEW b \in Boxes PROVE Unborn(b)' /\ (Doomed(b)' => Doomed(b))
    BY <1>a DEF SandboxInv, Unborn, Doomed
  <2>. QED BY <1>0, <1>a, <2>1, <2>2, Outside
<1>b. \A b \in Boxes : InHands(b) => Doomed(b) /\ box[b] # "none"
  BY DEF SandboxInv, Unborn, Doomed
<1>1. CASE Claim(j)
  <2>. DEFINE due == {b \in Boxes : Due(b)}
              i(b) == [status |-> "processing", due |-> FALSE]
  <2>1. intent' = [b \in Boxes |-> IF b \in due THEN i(b) ELSE intent[b]]
        /\ jan' = [jan EXCEPT ![j].todo = due] /\ UNCHANGED box
    BY <1>1 DEF Claim
  <2>2. \A b \in due : b \in Boxes /\ intent[b].status # "none"
    BY DEF Due
  <2>3. \A b \in Boxes : i(b) \in Intents /\ i(b).status # "none"
    BY DEF Intents, Statuses
  <2>. HIDE DEF due, i
  <2>4. intent' \in [Boxes -> Intents] /\ \A b \in Boxes : (intent'[b].status = "none") = (intent[b].status = "none")
    BY <1>0, <2>1, <2>2, <2>3
  <2>5. jan' \in [Janitors -> [todo : SUBSET Boxes, torn : SUBSET Boxes]]
        /\ \A k \in Janitors : jan'[k].todo \subseteq jan[k].todo \cup due /\ jan'[k].torn = jan[k].torn
    BY <1>0, <2>1, <2>2
  <2>6. ASSUME NEW b \in Boxes, InHands(b)' PROVE Doomed(b) /\ box[b] # "none"
    <3>1. InHands(b) \/ b \in due
      BY <2>5, <2>6 DEF InHands
    <3>. QED BY <1>b, <2>2, <3>1 DEF SandboxInv, Unborn, Doomed
  <2>. QED BY <1>0, <1>a, <2>1, <2>4, <2>5, <2>6
<1>2. CASE TearDownClaimed(j) \/ TearDownRaises(j) \/ CompleteClaimed(j) \/ Abandon(j)
  <2>1. /\ jan' \in [Janitors -> [todo : SUBSET Boxes, torn : SUBSET Boxes]]
        /\ \A b \in Boxes : InHands(b)' => InHands(b)
    <3>1. CASE TearDownClaimed(j)
      <4>1. PICK b \in jan[j].todo : jan' = [jan EXCEPT ![j] = [todo |-> jan[j].todo \ {b}, torn |-> {b}]]
        BY <3>1 DEF TearDownClaimed
      <4>2. /\ jan' \in [Janitors -> [todo : SUBSET Boxes, torn : SUBSET Boxes]]
            /\ \A k \in Janitors : k # j => jan'[k] = jan[k]
            /\ jan'[j].todo \subseteq jan[j].todo /\ jan'[j].torn \subseteq jan[j].todo
        BY <1>0, <4>1
      <4>. QED BY <4>2 DEF InHands
    <3>2. CASE TearDownRaises(j)
      <4>1. PICK b \in jan[j].todo : jan' = [jan EXCEPT ![j].todo = @ \ {b}]
        BY <3>2 DEF TearDownRaises
      <4>2. /\ jan' \in [Janitors -> [todo : SUBSET Boxes, torn : SUBSET Boxes]]
            /\ \A k \in Janitors : jan'[k].todo \subseteq jan[k].todo /\ jan'[k].torn \subseteq jan[k].torn
        BY <1>0, <4>1
      <4>. QED BY <4>2 DEF InHands
    <3>3. CASE CompleteClaimed(j)
      <4>1. jan' = [jan EXCEPT ![j].torn = {}]
        BY <3>3 DEF CompleteClaimed
      <4>2. /\ jan' \in [Janitors -> [todo : SUBSET Boxes, torn : SUBSET Boxes]]
            /\ \A k \in Janitors : jan'[k].todo \subseteq jan[k].todo /\ jan'[k].torn \subseteq jan[k].torn
        BY <1>0, <4>1
      <4>. QED BY <4>2 DEF InHands
    <3>4. CASE Abandon(j)
      <4>1. jan' = [jan EXCEPT ![j] = [todo |-> {}, torn |-> {}]]
        BY <3>4 DEF Abandon
      <4>2. /\ jan' \in [Janitors -> [todo : SUBSET Boxes, torn : SUBSET Boxes]]
            /\ \A k \in Janitors : jan'[k].todo \subseteq jan[k].todo /\ jan'[k].torn \subseteq jan[k].torn
        BY <1>0, <4>1
      <4>. QED BY <4>2 DEF InHands
    <3>. QED BY <1>2, <3>1, <3>2, <3>3, <3>4
  <2>2. /\ box' \in [Boxes -> {"none", "alive", "expired", "destroyed"}]
        /\ \A b \in Boxes : /\ (box'[b] = "none") = (box[b] = "none")
                            /\ box'[b] = "destroyed" /\ box[b] # "destroyed" => InHands(b)
    <3>1. CASE TearDownClaimed(j)
      <4>1. PICK b \in jan[j].todo : Destroy(b)
        BY <3>1 DEF TearDownClaimed
      <4>2. b \in Boxes /\ InHands(b)
        BY <1>0 DEF InHands
      <4>3. box' = box \/ box' = Gone(b)
        BY <4>1 DEF Destroy
      <4>. QED BY <1>0, <4>2, <4>3, GoneSays
    <3>2. CASE UNCHANGED box
      BY <1>0, <3>2
    <3>. QED BY <1>2, <3>1, <3>2 DEF TearDownRaises, CompleteClaimed, Abandon
  <2>3. /\ intent' \in [Boxes -> Intents]
        /\ \A b \in Boxes : (intent'[b].status = "none") = (intent[b].status = "none")
    <3>1. CASE TearDownRaises(j)
      <4>1. PICK b \in jan[j].todo : Update(b, Rescheduled(b, FALSE))
        BY <3>1 DEF TearDownRaises
      <4>2. b \in Boxes
        BY <1>0
      <4>. QED BY <4>1, <4>2, UpdateSays, IntentValues
    <3>2. CASE CompleteClaimed(j)
      <4>1. PICK b \in jan[j].torn : Update(b, Completed(b))
        BY <3>2 DEF CompleteClaimed
      <4>2. b \in Boxes
        BY <1>0
      <4>. QED BY <4>1, <4>2, UpdateSays, IntentValues
    <3>3. CASE UNCHANGED intent
      BY <1>0, <3>3
    <3>. QED BY <1>2, <3>1, <3>2, <3>3 DEF TearDownClaimed, Abandon
  <2>. QED BY <1>a, <1>b, <2>1, <2>2, <2>3
<1>. QED BY <1>1, <1>2 DEF JanitorStep

LEMMA SandboxInvInit == SandboxInit => SandboxInv
<1>. SUFFICES ASSUME SandboxInit PROVE SandboxInv
  OBVIOUS
<1>1. row \in Rows /\ row.box = NoBox
  BY DEF SandboxInit, Rows
<1>2. Resting \in AsmRecords /\ NoIntent \in Intents
  BY DEF Resting, AsmRecords, NoIntent, Intents, Statuses
<1>3. SandboxTypes
  BY <1>1, <1>2 DEF SandboxInit, SandboxTypes
<1>4. \A a \in Assemblers : Knows(a) /\ Apart(a)
  BY SandboxAssumption DEF SandboxInit, Resting, Knows, Apart, Mine, Minted, Calls3
<1>5. \A b \in Boxes : ~Doomed(b) /\ Unborn(b)
  BY DEF SandboxInit, NoIntent, Doomed, Unborn, InHands
<1>. QED BY <1>1, <1>3, <1>4, <1>5, SandboxAssumption DEF SandboxInv, Minted, Spared

LEMMA SandboxInvStep == SandboxInv /\ [SandboxNext]_sandboxVars => SandboxInv'
<1>. SUFFICES ASSUME SandboxInv, [SandboxNext]_sandboxVars PROVE SandboxInv'
  OBVIOUS
<1>1. CASE UNCHANGED sandboxVars
  <2>1. UNCHANGED <<row, box, intent, asm, jan, forgotten>>
    BY <1>1 DEF sandboxVars
  <2>. QED BY <2>1, Outside DEF SandboxInv, SandboxTypes, Unborn, Doomed, InHands
<1>. QED BY <1>1, AssemblerKeep, RowKeep, BoxKeep, JanitorKeep DEF SandboxNext

\* No cleanup of a superseded or losing assembler destroys the box an open run is
\* bound to, whichever generation bound it and however often it was reused.
THEOREM BoxSurvives == SandboxSpec => []LiveBoxSurvives
<1>1. SandboxInv => LiveBoxSurvives
  BY DEF SandboxInv, SandboxTypes, Rows, LiveBoxSurvives, Spared, Doomed
<1>. QED BY <1>1, SandboxInvInit, SandboxInvStep, PTL DEF SandboxSpec

----------------------------------------------------------------------------
(* Nothing is forgotten.  A box runs on only where it is kept; what is torn  *)
(* down by a provider that reports its failures is gone.                     *)

\* What keeps a box before a step keeps it after, or the step says what does.
Moves(b) ==
    box'[b] = "alive" =>
      \/ box[b] = "alive" /\ (b \in forgotten => b \in forgotten')
           /\ (row.phase = "open" /\ row.box = b =>
                 \/ row'.phase = "open" /\ row'.box = b
                 \/ b \in forgotten'
                 \/ intent'[b].status \in {"pending", "processing"})
           /\ (intent[b].status \in {"pending", "processing"} => intent'[b].status \in {"pending", "processing"})
           /\ \A a \in Assemblers : Keeps(a, b) =>
                 \/ Keeps(a, b)' \/ b \in forgotten'
                 \/ row'.phase = "open" /\ row'.box = b
                 \/ intent'[b].status \in {"pending", "processing"}
      \/ \E a \in Assemblers : Keeps(a, b)'

LEMMA MovesKeep ==
    ASSUME KeptInv, NEW b \in Boxes, Moves(b)
    PROVE  Kept(b)'
BY DEF KeptInv, Kept, Moves

\* A completed intent names a box that is gone.
Completes(b) ==
    intent'[b].status = "completed" => box'[b] # "alive"

LEMMA StaysGone ==
    ASSUME KeptInv, NEW b \in Boxes, intent'[b].status = "completed" => intent[b].status = "completed",
           box'[b] = "alive" => box[b] \in {"alive", "none"}
    PROVE  Completes(b)
BY DEF KeptInv, CompletedIsGone, Alive, SandboxInv, Unborn, Completes

LEMMA TornStays ==
    ASSUME KeptInv, SandboxInv',
           \A b \in Boxes : box'[b] = "alive" => box[b] \in {"alive", "none"},
           \A j \in Janitors : \A b \in jan'[j].torn : b \in jan[j].torn \/ box'[b] # "alive",
           \A a \in Assemblers : asm'[a].pc = "complete" =>
              (asm[a].pc = "complete" /\ asm'[a].got = asm[a].got) \/ box'[asm'[a].got] # "alive"
    PROVE  TornIsGone'
<1>1. ASSUME NEW j \in Janitors, NEW b \in jan'[j].torn PROVE box'[b] # "alive"
  <2>1. b \in Boxes
    BY <1>1 DEF SandboxInv, SandboxTypes
  <2>2. b \in jan[j].torn => box[b] # "alive" /\ box[b] # "none"
    BY <2>1 DEF KeptInv, TornIsGone, SandboxInv, Unborn, InHands
  <2>. QED BY <1>1, <2>1, <2>2
<1>2. ASSUME NEW a \in Assemblers, asm'[a].pc = "complete" PROVE box'[asm'[a].got] # "alive"
  <2>1. CASE asm[a].pc = "complete" /\ asm'[a].got = asm[a].got
    <3>1. asm[a].got \in Boxes /\ box[asm[a].got] # "none" /\ box[asm[a].got] # "alive"
      BY <2>1 DEF KeptInv, TornIsGone, SandboxInv, Knows, Minted, Calls3
    <3>. QED BY <2>1, <3>1
  <2>. QED BY <1>2, <2>1
<1>. QED BY <1>1, <1>2 DEF TornIsGone

LEMMA KeptFrom ==
    ASSUME SandboxInv', KeptInv, TornIsGone', \A b \in Boxes : Completes(b) /\ Moves(b)
    PROVE  KeptInv'
BY MovesKeep DEF KeptInv, Completes, CompletedIsGone, Alive

\* A step of a call: it keeps its box, or the step says what becomes of it.
LEMMA CallKeeps ==
    ASSUME KeptInv, SandboxInv', NEW a \in Assemblers, UNCHANGED jan, forgotten \subseteq forgotten',
           \A c \in Assemblers : c # a => asm'[c] = asm[c],
           \A b \in Boxes : box'[b] = "alive" => box[b] = "alive" \/ (box[b] = "none" /\ Keeps(a, b)'),
           row'.phase = row.phase,
           \A b \in Boxes : row.phase = "open" /\ row.box = b => row'.box = b \/ b \in forgotten',
           \A b \in Boxes :
             /\ intent[b].status \in {"pending", "processing"} /\ box'[b] = "alive"
                  => intent'[b].status \in {"pending", "processing"}
             /\ intent'[b].status = "completed" => intent[b].status = "completed" \/ box'[b] # "alive",
           \A b \in Boxes : Keeps(a, b) /\ box'[b] = "alive" =>
             \/ Keeps(a, b)' \/ b \in forgotten' \/ (row'.phase = "open" /\ row'.box = b)
             \/ intent'[b].status \in {"pending", "processing"},
           asm'[a].pc = "complete" => box'[asm'[a].got] # "alive"
    PROVE  KeptInv'
<1>1. \A b \in Boxes : box'[b] = "alive" => box[b] \in {"alive", "none"}
  OBVIOUS
<1>2. TornIsGone'
  BY <1>1, TornStays
<1>3. ASSUME NEW b \in Boxes PROVE Completes(b)
  <2>1. CASE box'[b] # "alive"
    BY <2>1 DEF Completes
  <2>2. CASE box'[b] = "alive"
    BY <1>1, <2>2, StaysGone
  <2>. QED BY <2>1, <2>2
<1>4. ASSUME NEW b \in Boxes PROVE Moves(b)
  <2>. SUFFICES ASSUME box'[b] = "alive", ~(\E c \in Assemblers : Keeps(c, b)')
                PROVE  Moves(b)
    BY DEF Moves
  <2>1. box[b] = "alive"
    OBVIOUS
  <2>2. \A c \in Assemblers : Keeps(c, b) => c = a
    <3>1. ASSUME NEW c \in Assemblers, Keeps(c, b), c # a PROVE Keeps(c, b)'
      BY <3>1 DEF Keeps, Fresher
    <3>. QED BY <3>1
  <2>. QED BY <2>1, <2>2 DEF Moves
<1>. QED BY <1>2, <1>3, <1>4, KeptFrom

LEMMA BoundKeeps ==
    ASSUME KeptInv, NEW a \in Assemblers, asm[a].pc = "bind", row' = Bound(a),
           forgotten' = forgotten \cup Replaced(a)
    PROVE  /\ row'.phase = row.phase /\ forgotten \subseteq forgotten'
           /\ \A b \in Boxes : row.phase = "open" /\ row.box = b => row'.box = b \/ b \in forgotten'
<1>1. CASE Binds(a)
  <2>1. row'.box = asm[a].got /\ row'.phase = row.phase
    BY <1>1, BoundSays DEF KeptInv
  <2>. QED BY <1>1, <2>1, SandboxAssumption DEF Replaced
<1>2. CASE ~Binds(a)
  BY <1>2, BoundSays DEF KeptInv
<1>. QED BY <1>1, <1>2

\* What a call has after a step that sets its record to r.
LEMMA HasSet ==
    ASSUME SandboxInv, NEW a \in Assemblers, NEW r, Set(a, r)
    PROVE  \A c \in Assemblers : asm'[c] = IF c = a THEN r ELSE asm[c]
BY DEF SandboxInv, SandboxTypes, Set

LEMMA StartsKeep ==
    ASSUME KeptInv, SandboxInv', NEW a \in Assemblers, Begin(a) \/ ReadPrior(a) \/ ConnectFails(a)
    PROVE  KeptInv'
<1>0. UNCHANGED <<row, box, intent, jan, forgotten>> /\ asm[a] \in AsmRecords /\ \A b \in Boxes : ~Keeps(a, b)
  BY DEF Begin, ReadPrior, ConnectFails, KeptInv, SandboxInv, SandboxTypes, Keeps
<1>1. (\A c \in Assemblers : c # a => asm'[c] = asm[c]) /\ asm'[a].pc # "complete"
  <2>1. CASE Begin(a)
    <3>. DEFINE r == [asm[a] EXCEPT !.pc = "prior", !.gen = row.gen]
    <3>1. Set(a, r) /\ r.pc = "prior"
      BY <1>0, <2>1 DEF Begin, AsmRecords
    <3>. HIDE DEF r
    <3>. QED BY <3>1, HasSet DEF KeptInv
  <2>2. CASE ReadPrior(a)
    <3>. DEFINE r == [asm[a] EXCEPT !.pc = "connect", !.prior = row.box]
    <3>1. Set(a, r) /\ r.pc = "connect"
      BY <1>0, <2>2 DEF ReadPrior, AsmRecords
    <3>. HIDE DEF r
    <3>. QED BY <3>1, HasSet DEF KeptInv
  <2>3. CASE ConnectFails(a)
    <3>. DEFINE r == [asm[a] EXCEPT !.pc = "done"]
    <3>1. Set(a, r) /\ r.pc = "done"
      BY <1>0, <2>3 DEF ConnectFails, End, AsmRecords
    <3>. HIDE DEF r
    <3>. QED BY <3>1, HasSet DEF KeptInv
  <2>. QED BY <2>1, <2>2, <2>3
<1>. QED BY <1>0, <1>1, CallKeeps

\* A box that a call has just got is its own to keep, unless it is the one of the row.
LEMMA ConnectsKeep ==
    ASSUME KeptInv, SandboxInv', NEW a \in Assemblers, Connect(a) \/ CancelConnect(a)
    PROVE  KeptInv'
<1>0. UNCHANGED <<row, intent, jan, forgotten>> /\ asm[a] \in AsmRecords
      /\ box \in [Boxes -> {"none", "alive", "expired", "destroyed"}]
      /\ \A b \in Boxes : ~Keeps(a, b)
  BY DEF Connect, CancelConnect, KeptInv, SandboxInv, SandboxTypes, Keeps
<1>. DEFINE n == asm[a].tries + 1
            c(b) == [asm[a] EXCEPT !.pc = "bind", !.got = b, !.tries = n]
            x(b) == [asm[a] EXCEPT !.pc = "register", !.got = b, !.then = "done"]
            e == [asm[a] EXCEPT !.pc = "done"]
<1>1. \E b \in Boxes :
        /\ \/ UNCHANGED box /\ \E r \in {c(b), x(b), e} : Set(a, r)
           \/ box[b] = "none" /\ box' = [box EXCEPT ![b] = "alive"] /\ \E r \in {c(b), x(b)} : Set(a, r)
           \/ box[b] = "none" /\ b = asm[a].prior
  BY <1>0 DEF Connect, CancelConnect, Reuse, Mint, Unminted, Alive
<1>2. PICK b \in Boxes :
        /\ \/ UNCHANGED box /\ \E r \in {c(b), x(b), e} : Set(a, r)
           \/ box[b] = "none" /\ box' = [box EXCEPT ![b] = "alive"] /\ \E r \in {c(b), x(b)} : Set(a, r)
  <2>1. \A b \in Boxes : box[b] = "none" => b # asm[a].prior
    BY DEF KeptInv, SandboxInv, Knows, Minted
  <2>. QED BY <1>1, <2>1
<1>. HIDE DEF n
<1>3. /\ c(b).pc = "bind" /\ c(b).got = b /\ c(b).prior = asm[a].prior
      /\ x(b).pc = "register" /\ x(b).got = b /\ x(b).prior = asm[a].prior
      /\ e.pc = "done"
  BY <1>0 DEF AsmRecords
<1>. HIDE DEF c, x, e
<1>4. PICK r \in {c(b), x(b), e} : Set(a, r)
  BY <1>2
<1>5. (\A d \in Assemblers : d # a => asm'[d] = asm[d]) /\ asm'[a] = r /\ r.pc # "complete"
  BY <1>3, <1>4, HasSet DEF KeptInv
<1>6. CASE UNCHANGED box
  BY <1>0, <1>5, <1>6, CallKeeps
<1>7. CASE box[b] = "none" /\ box' = [box EXCEPT ![b] = "alive"] /\ \E q \in {c(b), x(b)} : Set(a, q)
  <2>1. b # asm[a].prior
    BY <1>7 DEF KeptInv, SandboxInv, Knows, Minted
  <2>2. PICK q \in {c(b), x(b)} : Set(a, q)
    BY <1>7
  <2>3. asm'[a] = q
    BY <2>2, HasSet DEF KeptInv
  <2>4. Keeps(a, b)'
    BY <1>3, <2>1, <2>3 DEF Keeps, Fresher
  <2>5. \A d \in Boxes : box'[d] = IF d = b THEN "alive" ELSE box[d]
    BY <1>0, <1>7
  <2>. QED BY <1>0, <1>5, <1>7, <2>4, <2>5, CallKeeps
<1>. QED BY <1>2, <1>6, <1>7

LEMMA BindKept ==
    ASSUME KeptInv, SandboxInv', NEW a \in Assemblers, Bind(a)
    PROVE  KeptInv'
<1>0. /\ asm[a].pc = "bind" /\ row' = Bound(a) /\ forgotten' = forgotten \cup Replaced(a)
      /\ UNCHANGED <<box, intent, jan>> /\ asm[a] \in AsmRecords /\ SandboxInv
  BY DEF Bind, KeptInv, SandboxInv, SandboxTypes
<1>1. /\ Binds(a) => row'.box = asm[a].got /\ row.phase = "open" /\ BindAnswer(a) = asm[a].got
      /\ ~Binds(a) => row' = row
      /\ ~Binds(a) /\ BindAnswer(a) = asm[a].got => row.box = asm[a].got /\ row.phase = "open"
  BY <1>0, AnswerSays, BoundSays
<1>2. ASSUME NEW r, Set(a, r), r.pc # "complete",
             \A b \in Boxes : Keeps(a, b) =>
                 \/ r.pc = "register" /\ r.got = asm[a].got /\ r.prior = asm[a].prior
                 \/ BindAnswer(a) = asm[a].got
      PROVE  KeptInv'
  <2>1. (\A d \in Assemblers : d # a => asm'[d] = asm[d]) /\ asm'[a] = r
    BY <1>0, <1>2, HasSet
  <2>2. ASSUME NEW b \in Boxes, Keeps(a, b) PROVE Keeps(a, b)' \/ (row'.phase = "open" /\ row'.box = b)
    <3>1. asm[a].got = b /\ Fresher(a)
      BY <2>2 DEF Keeps
    <3>2. CASE r.pc = "register" /\ r.got = asm[a].got /\ r.prior = asm[a].prior
      BY <2>1, <3>1, <3>2 DEF Keeps, Fresher
    <3>3. CASE BindAnswer(a) = asm[a].got
      <4>1. row'.phase = row.phase
        BY <1>0, BoundKeeps
      <4>. QED BY <1>1, <3>1, <3>3, <4>1
    <3>. QED BY <1>2, <2>2, <3>2, <3>3
  <2>. QED BY <1>0, <1>2, <2>1, <2>2, BoundKeeps, CallKeeps
<1>. DEFINE next == IF asm[a].tries < 3 THEN "connect" ELSE "done"
            o == [asm[a] EXCEPT !.then = "done"]
            u == [o EXCEPT !.pc = "register"]
            v == [o EXCEPT !.pc = o.then]
            w == [asm[a] EXCEPT !.pc = "ready"]
            h == [asm[a] EXCEPT !.pc = "register", !.then = next]
            l == [asm[a] EXCEPT !.pc = next, !.prior = row.box]
<1>3. \/ BindAnswer(a) = NoBox /\ Set(a, IF Owned(a) THEN u ELSE v)
      \/ BindAnswer(a) = asm[a].got /\ Set(a, w)
      \/ BindAnswer(a) \notin {NoBox, asm[a].got} /\ Set(a, IF Owned(a) THEN h ELSE l)
  BY DEF Bind, Leave
<1>4. next \in {"connect", "done"}
  OBVIOUS
<1>. HIDE DEF next
<1>5. /\ u.pc = "register" /\ u.got = asm[a].got /\ u.prior = asm[a].prior
      /\ v.pc = "done" /\ w.pc = "ready" /\ l.pc = next
      /\ h.pc = "register" /\ h.got = asm[a].got /\ h.prior = asm[a].prior
  BY <1>0 DEF AsmRecords
<1>. HIDE DEF u, v, w, h, l
<1>6. ~Owned(a) => \A b \in Boxes : ~Keeps(a, b)
  BY DEF Owned, Keeps
<1>7. CASE Owned(a) /\ (Set(a, u) \/ Set(a, h))
  BY <1>2, <1>5, <1>7
<1>8. CASE ~Owned(a) /\ (Set(a, v) \/ Set(a, l))
  BY <1>2, <1>4, <1>5, <1>6, <1>8
<1>9. CASE BindAnswer(a) = asm[a].got /\ Set(a, w)
  BY <1>2, <1>5, <1>9
<1>. QED BY <1>3, <1>7, <1>8, <1>9

\* A call that ends with an error names the box it lets go of, or has bound it.
LEMMA FailsKept ==
    ASSUME KeptInv, SandboxInv', NEW a \in Assemblers, BindFails(a) \/ RegisterFails(a) \/ Crash(a)
    PROVE  KeptInv'
<1>. DEFINE r == [asm[a] EXCEPT !.pc = "done"]
<1>0. UNCHANGED <<intent, jan>> /\ Set(a, r) /\ asm[a] \in AsmRecords /\ SandboxInv
      /\ box \in [Boxes -> {"none", "alive", "expired", "destroyed"}]
  BY DEF BindFails, RegisterFails, Crash, End, KeptInv, SandboxInv, SandboxTypes
<1>1. r.pc = "done"
  BY <1>0 DEF AsmRecords
<1>. HIDE DEF r
<1>2. (\A d \in Assemblers : d # a => asm'[d] = asm[d]) /\ asm'[a].pc = "done"
  BY <1>0, <1>1, HasSet
<1>3. Forget(a) => forgotten \subseteq forgotten' /\ \A b \in Boxes : Keeps(a, b) => b \in forgotten'
  BY DEF Forget, Keeps
<1>4. CASE BindFails(a)
  <2>1. CASE row' = row /\ Forget(a) /\ UNCHANGED box
    BY <1>0, <1>2, <1>3, <2>1, CallKeeps
  <2>2. CASE asm[a].pc = "bind" /\ Binds(a) /\ row' = Bound(a) /\ forgotten' = forgotten \cup Replaced(a) /\ UNCHANGED box
    <3>1. row'.box = asm[a].got /\ row.phase = "open"
      BY <1>0, <2>2, AnswerSays, BoundSays
    <3>2. \A b \in Boxes : Keeps(a, b) => row'.phase = "open" /\ row'.box = b
      BY <2>2, <3>1, BoundKeeps DEF Keeps
    <3>. QED BY <1>0, <1>2, <2>2, <3>2, BoundKeeps, CallKeeps
  <2>. QED BY <1>4, <2>1, <2>2 DEF BindFails
<1>5. CASE RegisterFails(a)
  <2>1. asm[a].got \in Boxes /\ UNCHANGED row
    BY <1>5 DEF RegisterFails, KeptInv, SandboxInv, Knows, Calls3
  <2>2. CASE box' = Gone(asm[a].got) /\ UNCHANGED forgotten
    <3>1. box'[asm[a].got] # "alive" /\ \A b \in Boxes : box'[b] = "alive" => box[b] = "alive"
      BY <1>0, <2>1, <2>2, GoneSays
    <3>2. \A b \in Boxes : Keeps(a, b) => b = asm[a].got
      BY DEF Keeps
    <3>. QED BY <1>0, <1>2, <2>1, <2>2, <3>1, <3>2, CallKeeps
  <2>3. CASE Forget(a) /\ UNCHANGED box
    BY <1>0, <1>2, <1>3, <2>1, <2>3, CallKeeps
  <2>. QED BY <1>5, <2>2, <2>3 DEF RegisterFails
<1>6. CASE Crash(a)
  <2>1. UNCHANGED <<row, box>> /\ (Forget(a) \/ (UNCHANGED forgotten /\ \A b \in Boxes : ~Keeps(a, b)))
    BY <1>6 DEF Crash, Keeps
  <2>. QED BY <1>0, <1>2, <1>3, <2>1, CallKeeps
<1>. QED BY <1>4, <1>5, <1>6

\* A box that is registered is kept by its intent until it is gone.
LEMMA GivesUpKept ==
    ASSUME KeptInv, SandboxInv', ~Quiet, NEW a \in Assemblers,
           RegisterIntent(a) \/ Teardown(a) \/ TeardownFails(a) \/ Complete(a)
    PROVE  KeptInv'
<1>. DEFINE g == asm[a].got
<1>0. /\ UNCHANGED <<row, jan, forgotten>> /\ asm[a] \in AsmRecords /\ SandboxInv /\ asm[a].pc \in Calls3
      /\ box \in [Boxes -> {"none", "alive", "expired", "destroyed"}] /\ intent \in [Boxes -> Intents]
  BY DEF RegisterIntent, Teardown, TeardownFails, Complete, KeptInv, SandboxInv, SandboxTypes, Calls3
<1>1. g \in Boxes
  BY <1>0 DEF SandboxInv, Knows
<1>2. asm[a].pc # "register" => \A b \in Boxes : ~Keeps(a, b)
  BY <1>0 DEF Keeps, Calls3
<1>3. CASE RegisterIntent(a)
  <2>. DEFINE r == [asm[a] EXCEPT !.pc = "teardown"]
  <2>1. Set(a, r) /\ r.pc = "teardown" /\ intent' = [intent EXCEPT ![g] = Registered(g)] /\ UNCHANGED box
    BY <1>0, <1>3 DEF RegisterIntent, AsmRecords
  <2>. HIDE DEF r
  <2>2. (\A d \in Assemblers : d # a => asm'[d] = asm[d]) /\ asm'[a].pc = "teardown"
    BY <1>0, <2>1, HasSet
  <2>3. \A b \in Boxes : intent'[b] = IF b = g THEN Registered(g) ELSE intent[b]
    BY <1>0, <2>1
  <2>4. /\ Registered(g).status = "completed" => intent[g].status = "completed"
        /\ intent[g].status \in {"pending", "processing"} => Registered(g) = intent[g]
    BY <1>0, <1>1, IntentValues DEF Registered
  <2>5. box[g] = "alive" => Registered(g).status \in {"pending", "processing"}
    <3>1. intent[g].status \in Statuses /\ (box[g] = "alive" => intent[g].status # "completed")
      BY <1>0, <1>1 DEF Intents, KeptInv, CompletedIsGone, Alive
    <3>. QED BY <3>1 DEF Registered, Statuses
  <2>6. \A b \in Boxes : Keeps(a, b) => b = g
    BY DEF Keeps
  <2>. HIDE DEF g
  <2>. QED BY <1>0, <2>1, <2>2, <2>3, <2>4, <2>5, <2>6, CallKeeps
<1>4. CASE Teardown(a)
  <2>. DEFINE r == [asm[a] EXCEPT !.pc = "complete"]
  <2>1. Set(a, r) /\ r.pc = "complete" /\ r.got = g /\ box' = Gone(g) /\ UNCHANGED intent
    BY <1>0, <1>4 DEF Teardown, Destroy, AsmRecords
  <2>. HIDE DEF r
  <2>2. (\A d \in Assemblers : d # a => asm'[d] = asm[d]) /\ asm'[a] = r
    BY <1>0, <2>1, HasSet
  <2>3. box'[g] # "alive" /\ \A b \in Boxes : box'[b] = "alive" => box[b] = "alive"
    BY <1>0, <1>1, <2>1, GoneSays
  <2>4. asm[a].pc # "register"
    BY <1>4 DEF Teardown
  <2>. QED BY <1>0, <1>2, <2>1, <2>2, <2>3, <2>4, CallKeeps
<1>5. CASE TeardownFails(a)
  <2>. DEFINE r == [asm[a] EXCEPT !.pc = "done"]
              i == Rescheduled(g, TRUE)
  <2>1. Set(a, r) /\ r.pc = "done" /\ Update(g, i) /\ UNCHANGED box /\ asm[a].pc # "register"
    BY <1>0, <1>5 DEF TeardownFails, End, AsmRecords
  <2>. HIDE DEF r
  <2>2. (\A d \in Assemblers : d # a => asm'[d] = asm[d]) /\ asm'[a] = r
    BY <1>0, <2>1, HasSet
  <2>3. i \in Intents /\ i.status # "none" /\ (i.status = "completed" => intent[g].status = "completed")
        /\ (intent[g].status \in {"pending", "processing"} => i.status = "pending")
    BY <1>0, <1>1, IntentValues DEF Rescheduled
  <2>. HIDE DEF i
  <2>4. \A b \in Boxes : intent'[b] = intent[b] \/ (b = g /\ intent'[b] = i)
    BY <1>0, <1>1, <2>1, <2>3, UpdateSays
  <2>. QED BY <1>0, <1>2, <2>1, <2>2, <2>3, <2>4, CallKeeps
<1>6. CASE Complete(a)
  <2>. DEFINE r == [asm[a] EXCEPT !.pc = asm[a].then, !.prior = row.box, !.then = "done"]
              i == Completed(g)
  <2>1. Set(a, r) /\ r.pc # "complete" /\ Update(g, i) /\ UNCHANGED box /\ asm[a].pc # "register"
    <3>1. asm[a].then # "complete"
      BY <1>0 DEF AsmRecords
    <3>. QED BY <1>0, <1>6, <3>1 DEF Complete, Then, AsmRecords
  <2>. HIDE DEF r
  <2>2. (\A d \in Assemblers : d # a => asm'[d] = asm[d]) /\ asm'[a] = r
    BY <1>0, <2>1, HasSet
  <2>3. box[g] # "alive"
    BY <1>6 DEF Complete, KeptInv, TornIsGone
  <2>4. i \in Intents /\ i.status # "none"
    BY <1>0, <1>1, IntentValues
  <2>. HIDE DEF i
  <2>5. \A b \in Boxes : intent'[b] = intent[b] \/ b = g
    BY <1>0, <1>1, <2>1, <2>4, UpdateSays
  <2>. QED BY <1>0, <1>2, <2>1, <2>2, <2>3, <2>5, CallKeeps
<1>. QED BY <1>3, <1>4, <1>5, <1>6

\* A step outside the calls: what the row kept, an intent or the row keeps.
LEMMA AroundKeeps ==
    ASSUME KeptInv, SandboxInv', UNCHANGED <<asm, forgotten>>,
           \A b \in Boxes : box'[b] = "alive" => box[b] = "alive",
           \A j \in Janitors : \A b \in jan'[j].torn : b \in jan[j].torn \/ box'[b] # "alive",
           \A b \in Boxes : box'[b] = "alive" =>
             /\ intent'[b].status = "completed" => intent[b].status = "completed"
             /\ intent[b].status \in {"pending", "processing"} => intent'[b].status \in {"pending", "processing"}
             /\ row.phase = "open" /\ row.box = b =>
                  (row'.phase = "open" /\ row'.box = b) \/ intent'[b].status \in {"pending", "processing"}
    PROVE  KeptInv'
<1>1. TornIsGone'
  BY TornStays
<1>2. ASSUME NEW b \in Boxes PROVE Completes(b)
  <2>1. CASE box'[b] # "alive"
    BY <2>1 DEF Completes
  <2>2. CASE box'[b] = "alive"
    BY <2>2, StaysGone
  <2>. QED BY <2>1, <2>2
<1>3. ASSUME NEW b \in Boxes PROVE Moves(b)
  <2>1. \A a \in Assemblers : Keeps(a, b)' <=> Keeps(a, b)
    BY DEF Keeps, Fresher
  <2>. QED BY <2>1 DEF Moves
<1>. QED BY <1>1, <1>2, <1>3, KeptFrom

LEMMA RowKept ==
    ASSUME KeptInv, SandboxInv', LeaseLapses \/ Reclaim \/ EndRun \/ Purge
    PROVE  KeptInv'
<1>0. UNCHANGED <<box, asm, jan, forgotten>> /\ row \in Rows /\ intent \in [Boxes -> Intents]
  BY DEF LeaseLapses, Reclaim, EndRun, Purge, KeptInv, SandboxInv, SandboxTypes
<1>1. CASE LeaseLapses \/ Reclaim
  <2>1. UNCHANGED intent /\ row'.phase = row.phase /\ row'.box = row.box
    BY <1>0, <1>1 DEF LeaseLapses, Reclaim, Rows
  <2>. QED BY <1>0, <2>1, AroundKeeps
<1>2. CASE EndRun
  <2>1. ASSUME NEW b \in Boxes
        PROVE  intent'[b] = IF row.box # NoBox /\ b = row.box THEN Registered(b) ELSE intent[b]
    BY <1>0, <1>2 DEF EndRun
  <2>2. ASSUME NEW b \in Boxes, box[b] = "alive"
        PROVE  /\ Registered(b).status \in {"pending", "processing"}
               /\ intent[b].status # "completed"
    <3>1. intent[b].status \in Statuses /\ intent[b].status # "completed"
      BY <1>0, <2>2 DEF Intents, KeptInv, CompletedIsGone, Alive
    <3>. QED BY <3>1 DEF Registered, Statuses
  <2>. QED BY <1>0, <2>1, <2>2, AroundKeeps, SandboxAssumption
<1>3. CASE Purge
  <2>1. row.phase = "terminal" /\ \A b \in Boxes : intent[b].status \in {"none", "completed"}
        /\ intent'[b] = NoIntent
    BY <1>3 DEF Purge, Purgeable
  <2>. QED BY <1>0, <2>1, AroundKeeps DEF NoIntent
<1>. QED BY <1>1, <1>2, <1>3

LEMMA BoxKept ==
    ASSUME KeptInv, SandboxInv', NEW g \in Boxes, Expires(g) \/ Falls(g)
    PROVE  KeptInv'
<1>0. box \in [Boxes -> {"none", "alive", "expired", "destroyed"}] /\ intent \in [Boxes -> Intents]
  BY DEF KeptInv, SandboxInv, SandboxTypes
<1>1. CASE Expires(g)
  <2>1. UNCHANGED <<row, intent, asm, jan, forgotten>> /\ \A b \in Boxes : box'[b] = IF b = g THEN "expired" ELSE box[b]
    BY <1>0, <1>1 DEF Expires
  <2>. QED BY <2>1, AroundKeeps
<1>2. CASE Falls(g)
  <2>1. UNCHANGED <<row, box, asm, jan, forgotten>> /\ \A b \in Boxes : intent'[b].status = intent[b].status
    BY <1>0, <1>2 DEF Falls, Intents
  <2>. QED BY <2>1, AroundKeeps
<1>. QED BY <1>1, <1>2

\* A janitor completes what it saw torn down, and nothing before.
LEMMA JanitorKept ==
    ASSUME KeptInv, SandboxInv', ~Quiet, NEW j \in Janitors, JanitorStep(j)
    PROVE  KeptInv'
<1>0. /\ jan \in [Janitors -> [todo : SUBSET Boxes, torn : SUBSET Boxes]]
      /\ box \in [Boxes -> {"none", "alive", "expired", "destroyed"}] /\ intent \in [Boxes -> Intents]
      /\ UNCHANGED <<row, asm, forgotten>> /\ SandboxInv
  BY DEF KeptInv, SandboxInv, SandboxTypes, JanitorStep, Claim, TearDownClaimed, TearDownRaises,
         CompleteClaimed, Abandon
<1>1. CASE Claim(j)
  <2>1. /\ UNCHANGED box
        /\ \A b \in Boxes : intent'[b] = IF Due(b) THEN [status |-> "processing", due |-> FALSE] ELSE intent[b]
    BY <1>1 DEF Claim
  <2>2. \A k \in Janitors : jan'[k].torn = jan[k].torn
    BY <1>0, <1>1 DEF Claim
  <2>. QED BY <1>0, <2>1, <2>2, AroundKeeps
<1>2. CASE TearDownClaimed(j)
  <2>1. PICK g \in jan[j].todo : Destroy(g) /\ jan' = [jan EXCEPT ![j] = [todo |-> jan[j].todo \ {g}, torn |-> {g}]]
    BY <1>2 DEF TearDownClaimed
  <2>2. g \in Boxes /\ box' = Gone(g)
    BY <1>0, <2>1 DEF Destroy
  <2>3. box'[g] # "alive" /\ \A b \in Boxes : box'[b] = "alive" => box[b] = "alive"
    BY <1>0, <2>2, GoneSays
  <2>4. \A k \in Janitors : jan'[k].torn \in {jan[k].torn, {g}}
    BY <1>0, <2>1
  <2>. QED BY <1>0, <1>2, <2>3, <2>4, AroundKeeps DEF TearDownClaimed
<1>3. CASE TearDownRaises(j)
  <2>1. PICK g \in jan[j].todo : Update(g, Rescheduled(g, FALSE)) /\ jan' = [jan EXCEPT ![j].todo = @ \ {g}]
    BY <1>3 DEF TearDownRaises
  <2>. DEFINE i == Rescheduled(g, FALSE)
  <2>2. g \in Boxes /\ \A k \in Janitors : jan'[k].torn = jan[k].torn
    BY <1>0, <2>1
  <2>3. i \in Intents /\ i.status # "none" /\ (i.status = "completed" => intent[g].status = "completed")
        /\ (intent[g].status \in {"pending", "processing"} => i.status = "pending")
    BY <1>0, <2>2, IntentValues DEF Rescheduled
  <2>4. Update(g, i)
    BY <2>1
  <2>. HIDE DEF i
  <2>5. \A b \in Boxes : intent'[b] = intent[b] \/ (b = g /\ intent'[b] = i)
    BY <1>0, <2>2, <2>3, <2>4, UpdateSays
  <2>. QED BY <1>0, <1>3, <2>2, <2>3, <2>5, AroundKeeps DEF TearDownRaises
<1>4. CASE CompleteClaimed(j)
  <2>1. PICK g \in jan[j].torn : Update(g, Completed(g))
    BY <1>4 DEF CompleteClaimed
  <2>2. g \in Boxes /\ box[g] # "alive"
    BY <1>0, <2>1 DEF KeptInv, TornIsGone
  <2>3. \A b \in Boxes : intent'[b] = intent[b] \/ b = g
    BY <1>0, <2>1, <2>2, UpdateSays, IntentValues
  <2>4. \A k \in Janitors : jan'[k].torn \subseteq jan[k].torn
    BY <1>0, <1>4 DEF CompleteClaimed
  <2>. QED BY <1>0, <1>4, <2>2, <2>3, <2>4, AroundKeeps DEF CompleteClaimed
<1>5. CASE Abandon(j)
  <2>1. UNCHANGED <<box, intent>> /\ jan' = [jan EXCEPT ![j] = [todo |-> {}, torn |-> {}]]
    BY <1>5 DEF Abandon
  <2>2. \A k \in Janitors : jan'[k].torn \subseteq jan[k].torn
    BY <1>0, <2>1
  <2>. QED BY <1>0, <2>1, <2>2, AroundKeeps
<1>. QED BY <1>1, <1>2, <1>3, <1>4, <1>5 DEF JanitorStep

LEMMA KeptInit == SandboxInit => KeptInv
<1>. SUFFICES ASSUME SandboxInit PROVE KeptInv
  OBVIOUS
<1>1. \A b \in Boxes : box[b] = "none" /\ intent[b].status = "none"
  BY DEF SandboxInit, NoIntent
<1>2. (\A j \in Janitors : jan[j].torn = {}) /\ \A a \in Assemblers : asm[a].pc = "idle"
  BY DEF SandboxInit, Resting
<1>. QED BY <1>1, <1>2, SandboxInvInit DEF KeptInv, CompletedIsGone, TornIsGone, Kept

LEMMA KeptStep == ~Quiet /\ KeptInv /\ [SandboxNext]_sandboxVars => KeptInv'
<1>. SUFFICES ASSUME ~Quiet, KeptInv, [SandboxNext]_sandboxVars PROVE KeptInv'
  OBVIOUS
<1>0. SandboxInv'
  BY SandboxInvStep DEF KeptInv
<1>1. CASE UNCHANGED sandboxVars
  <2>1. UNCHANGED <<row, box, intent, asm, jan, forgotten>>
    BY <1>1 DEF sandboxVars
  <2>. QED BY <1>0, <2>1, AroundKeeps
<1>2. ASSUME NEW a \in Assemblers, AssemblerStep(a) PROVE KeptInv'
  BY <1>0, <1>2, StartsKeep, ConnectsKeep, BindKept, FailsKept, GivesUpKept DEF AssemblerStep
<1>. QED BY <1>0, <1>1, <1>2, RowKept, BoxKept, JanitorKept DEF SandboxNext

\* With a provider that reports its failures, a box that runs is held by a call, bound
\* to the open run, named by an unfinished intent, or was lost in one of the ways the
\* actions name: retention and completion lose none.
THEOREM NothingForgotten == ASSUME ~Quiet PROVE SandboxSpec => []NoBoxForgotten
<1>1. KeptInv => NoBoxForgotten
  BY DEF KeptInv, Kept, Keeps, NoBoxForgotten, Alive
<1>2. KeptInv /\ [SandboxNext]_sandboxVars => KeptInv'
  BY KeptStep
<1>. QED BY <1>1, <1>2, KeptInit, PTL DEF SandboxSpec

----------------------------------------------------------------------------
(* The calls of one generation come back with one box.  A call that may     *)
(* still bind has read the box of the row, unless its generation confirmed   *)
(* another since, and a confirmed box is only replaced by the next one.      *)

Told(a) ==
    /\ asm[a].gen <= row.gen
    /\ row.phase = "open" /\ asm[a].pc \in {"connect", "bind"} /\ asm[a].gen = row.gen /\ row.boxGen # row.gen
         => asm[a].prior = row.box
    /\ asm[a].pc = "ready" => asm[a].got \in Boxes
    /\ asm[a].pc = "ready" /\ row.phase = "open" =>
         row.boxGen >= asm[a].gen /\ (row.boxGen = asm[a].gen => row.box = asm[a].got)
ToldInv == SandboxInv /\ row.boxGen <= row.gen /\ (\A a \in Assemblers : Told(a)) /\ OneBoxPerGeneration

\* A step of a call that leaves the row and does not come back with a box.
LEMMA CallTold ==
    ASSUME ToldInv, SandboxInv', NEW a \in Assemblers, NEW r, Set(a, r), UNCHANGED row,
           r.gen <= row.gen, r.pc # "ready",
           r.pc \in {"connect", "bind"} =>
              \/ r.prior = row.box
              \/ asm[a].pc \in {"connect", "bind"} /\ r.gen = asm[a].gen /\ r.prior = asm[a].prior
    PROVE  ToldInv'
<1>1. (\A c \in Assemblers : c # a => asm'[c] = asm[c]) /\ asm'[a] = r
  BY HasSet DEF ToldInv
<1>2. ASSUME NEW c \in Assemblers PROVE Told(c)'
  <2>1. Told(c)
    BY DEF ToldInv
  <2>2. CASE c = a
    BY <1>1, <2>1, <2>2 DEF Told
  <2>3. CASE c # a
    BY <1>1, <2>1, <2>3 DEF Told
  <2>. QED BY <2>2, <2>3
<1>3. OneBoxPerGeneration'
  BY <1>1 DEF ToldInv, OneBoxPerGeneration
<1>. QED BY <1>2, <1>3 DEF ToldInv

LEMMA RowTold ==
    ASSUME ToldInv, SandboxInv', UNCHANGED asm, row'.gen \in Nat, row'.gen >= row.gen,
           \/ row'.phase = row.phase /\ row'.box = row.box /\ row'.boxGen = row.boxGen
           \/ row'.phase # "open" /\ row'.boxGen \in {row.boxGen, 0} /\ row'.box \in {row.box, NoBox}
    PROVE  ToldInv'
<1>0. row.gen \in Nat /\ row.boxGen \in Nat /\ row'.boxGen \in Nat
  BY DEF ToldInv, SandboxInv, SandboxTypes, Rows
<1>1. ASSUME NEW c \in Assemblers PROVE Told(c)'
  <2>1. Told(c) /\ asm[c].gen \in Nat
    BY Typed DEF ToldInv
  <2>. QED BY <1>0, <2>1 DEF Told, ToldInv
<1>2. OneBoxPerGeneration'
  BY DEF ToldInv, OneBoxPerGeneration
<1>. QED BY <1>0, <1>1, <1>2 DEF ToldInv

\* A bind that is applied confirms the box of its generation for all of them.
LEMMA BindTold ==
    ASSUME ToldInv, SandboxInv', NEW a \in Assemblers, NEW r, Set(a, r), asm[a].pc = "bind",
           row' = Bound(a), r.gen = asm[a].gen,
           r.pc = "ready" => BindAnswer(a) = asm[a].got /\ r.got = asm[a].got,
           r.pc # "bind", r.pc = "connect" => ~Binds(a) /\ r.prior = row.box
    PROVE  ToldInv'
<1>0. /\ row.gen \in Nat /\ row.boxGen \in Nat /\ row \in Rows /\ asm[a].gen \in Nat /\ SandboxInv
      /\ asm[a].got \in Boxes
  BY Typed, AnswerSays DEF ToldInv, SandboxInv, SandboxTypes, Rows
<1>1. (\A c \in Assemblers : c # a => asm'[c] = asm[c]) /\ asm'[a] = r
  BY <1>0, HasSet
<1>2. CASE Binds(a)
  <2>1. /\ row'.box = asm[a].got /\ row'.boxGen = asm[a].gen /\ row'.gen = row.gen /\ row'.phase = row.phase
        /\ asm[a].gen = row.gen /\ row.phase = "open"
    BY <1>0, <1>2 DEF Bound, Rows, Binds, Active
  <2>2. \A c \in Assemblers : asm[c].pc = "ready" => asm[c].gen # row.gen
    <3>1. ASSUME NEW c \in Assemblers, asm[c].pc = "ready", asm[c].gen = row.gen PROVE FALSE
      <4>1. row.boxGen = row.gen /\ row.box = asm[c].got /\ asm[c].got \in Boxes
        BY <1>0, <2>1, <3>1 DEF ToldInv, Told
      <4>. QED BY <1>2, <2>1, <4>1, SandboxAssumption DEF Binds
    <3>. QED BY <3>1
  <2>3. ASSUME NEW c \in Assemblers PROVE Told(c)'
    <3>1. Told(c) /\ asm[c].gen \in Nat
      BY Typed DEF ToldInv
    <3>2. CASE c = a
      BY <1>0, <1>1, <2>1, <3>2, <1>2 DEF Told
    <3>3. CASE c # a
      BY <1>0, <1>1, <2>1, <2>2, <3>1, <3>3 DEF Told
    <3>. QED BY <3>2, <3>3
  <2>4. OneBoxPerGeneration'
    BY <1>1, <2>1, <2>2, <2>3 DEF ToldInv, OneBoxPerGeneration, Told
  <2>. QED BY <1>0, <2>1, <2>3, <2>4 DEF ToldInv
<1>3. CASE ~Binds(a)
  <2>1. row' = row
    BY <1>3 DEF Bound
  <2>2. r.pc = "ready" => row.phase = "open" /\ row.gen = r.gen /\ row.box = r.got /\ row.boxGen = row.gen
    <3>1. SUFFICES ASSUME r.pc = "ready"
                   PROVE  row.phase = "open" /\ row.gen = r.gen /\ row.box = r.got /\ row.boxGen = row.gen
      OBVIOUS
    <3>2. Active(asm[a].gen) /\ row.box = asm[a].got
      BY <1>0, <1>3, <3>1, SandboxAssumption DEF BindAnswer
    <3>3. Told(a)
      BY DEF ToldInv
    <3>. QED BY <1>3, <3>1, <3>2, <3>3 DEF Told, Binds, Active
  <2>3. ASSUME NEW c \in Assemblers PROVE Told(c)'
    <3>1. Told(c)
      BY DEF ToldInv
    <3>2. CASE c = a
      BY <1>0, <1>1, <1>3, <2>1, <2>2, <3>1, <3>2 DEF Told
    <3>3. CASE c # a
      BY <1>1, <2>1, <3>1, <3>3 DEF Told
    <3>. QED BY <3>2, <3>3
  <2>4. OneBoxPerGeneration'
    <3>1. ASSUME NEW c \in Assemblers, asm'[c].pc = "ready"
          PROVE  /\ \A d \in Assemblers : asm'[d].pc = "ready" /\ asm'[d].gen = asm'[c].gen => asm'[d].got = asm'[c].got
                 /\ row'.phase = "open" /\ row'.boxGen = asm'[c].gen => row'.box = asm'[c].got
      <4>1. row'.phase = "open" /\ row'.boxGen = asm'[c].gen => row'.box = asm'[c].got
        BY <2>3, <3>1 DEF Told
      <4>2. ASSUME NEW d \in Assemblers, asm'[d].pc = "ready", asm'[d].gen = asm'[c].gen
            PROVE  asm'[d].got = asm'[c].got
        <5>1. CASE c # a /\ d # a
          BY <1>1, <3>1, <4>2, <5>1 DEF ToldInv, OneBoxPerGeneration
        <5>2. CASE c = a \/ d = a
          <6>1. row'.phase = "open" /\ row'.boxGen = asm'[c].gen
            BY <1>1, <2>1, <2>2, <3>1, <4>2, <5>2
          <6>. QED BY <2>3, <3>1, <4>1, <4>2, <6>1 DEF Told
        <5>. QED BY <5>1, <5>2
      <4>. QED BY <4>1, <4>2
    <3>. QED BY <3>1 DEF OneBoxPerGeneration
  <2>. QED BY <2>1, <2>3, <2>4 DEF ToldInv
<1>. QED BY <1>2, <1>3

\* What the actions of a call write, as records.
LEMMA CallsTold ==
    ASSUME ToldInv, SandboxInv', NEW a \in Assemblers, AssemblerStep(a)
    PROVE  ToldInv'
<1>0. asm[a] \in AsmRecords /\ row.gen \in Nat /\ asm[a].gen <= row.gen /\ asm[a].then \in {"done", "connect"}
  <2>1. asm[a] \in AsmRecords /\ row.gen \in Nat
    BY Typed DEF ToldInv
  <2>. QED BY <2>1 DEF ToldInv, Told, AsmRecords
<1>1. CASE Begin(a)
  <2>. DEFINE r == [asm[a] EXCEPT !.pc = "prior", !.gen = row.gen]
  <2>1. Set(a, r) /\ r.pc = "prior" /\ r.gen = row.gen /\ UNCHANGED row
    BY <1>0, <1>1 DEF Begin, AsmRecords
  <2>. HIDE DEF r
  <2>. QED BY <1>0, <2>1, CallTold
<1>2. CASE ReadPrior(a)
  <2>. DEFINE r == [asm[a] EXCEPT !.pc = "connect", !.prior = row.box]
  <2>1. Set(a, r) /\ r.pc = "connect" /\ r.gen = asm[a].gen /\ r.prior = row.box /\ UNCHANGED row
    BY <1>0, <1>2 DEF ReadPrior, AsmRecords
  <2>. HIDE DEF r
  <2>. QED BY <1>0, <2>1, CallTold
<1>3. CASE Connect(a) \/ CancelConnect(a)
  <2>. DEFINE n == asm[a].tries + 1
              c(b) == [asm[a] EXCEPT !.pc = "bind", !.got = b, !.tries = n]
              x(b) == [asm[a] EXCEPT !.pc = "register", !.got = b, !.then = "done"]
              e == [asm[a] EXCEPT !.pc = "done"]
  <2>1. UNCHANGED row /\ asm[a].pc = "connect" /\ \E b \in Boxes : \E r \in {c(b), x(b), e} : Set(a, r)
    BY <1>3 DEF Connect, CancelConnect, Reuse, Mint, Alive
  <2>2. PICK b \in Boxes : \E r \in {c(b), x(b), e} : Set(a, r)
    BY <2>1
  <2>. HIDE DEF n
  <2>3. /\ c(b).pc = "bind" /\ c(b).prior = asm[a].prior /\ c(b).gen = asm[a].gen
        /\ x(b).pc = "register" /\ x(b).gen = asm[a].gen /\ e.pc = "done" /\ e.gen = asm[a].gen
    BY <1>0 DEF AsmRecords
  <2>. HIDE DEF c, x, e
  <2>4. PICK r \in {c(b), x(b), e} : Set(a, r)
    BY <2>2
  <2>5. r.gen = asm[a].gen /\ r.pc # "ready" /\ r.pc # "connect" /\ (r.pc = "bind" => r.prior = asm[a].prior)
    BY <2>3
  <2>. QED BY <1>0, <2>1, <2>4, <2>5, CallTold
<1>4. CASE Bind(a)
  <2>. DEFINE next == IF asm[a].tries < 3 THEN "connect" ELSE "done"
              o == [asm[a] EXCEPT !.then = "done"]
              u == [o EXCEPT !.pc = "register"]
              v == [o EXCEPT !.pc = o.then]
              w == [asm[a] EXCEPT !.pc = "ready"]
              h == [asm[a] EXCEPT !.pc = "register", !.then = next]
              l == [asm[a] EXCEPT !.pc = next, !.prior = row.box]
  <2>1. \/ BindAnswer(a) = NoBox /\ Set(a, IF Owned(a) THEN u ELSE v)
        \/ BindAnswer(a) = asm[a].got /\ Set(a, w)
        \/ BindAnswer(a) \notin {NoBox, asm[a].got} /\ Set(a, IF Owned(a) THEN h ELSE l)
    BY <1>4 DEF Bind, Leave
  <2>2. asm[a].pc = "bind" /\ row' = Bound(a) /\ (Binds(a) => BindAnswer(a) = asm[a].got)
    BY <1>4, AnswerSays DEF Bind, ToldInv
  <2>3. next \in {"connect", "done"}
    OBVIOUS
  <2>. HIDE DEF next
  <2>4. /\ u.pc = "register" /\ u.gen = asm[a].gen /\ v.pc = "done" /\ v.gen = asm[a].gen
        /\ w.pc = "ready" /\ w.gen = asm[a].gen /\ w.got = asm[a].got
        /\ h.pc = "register" /\ h.gen = asm[a].gen
        /\ l.pc = next /\ l.gen = asm[a].gen /\ l.prior = row.box
    BY <1>0, <2>3 DEF AsmRecords
  <2>. HIDE DEF u, v, w, h, l
  <2>5. CASE Set(a, u) \/ Set(a, v) \/ Set(a, h)
    BY <2>2, <2>4, <2>5, BindTold
  <2>6. CASE BindAnswer(a) = asm[a].got /\ Set(a, w)
    BY <2>2, <2>4, <2>6, BindTold
  <2>7. CASE BindAnswer(a) # asm[a].got /\ Set(a, l)
    BY <2>2, <2>3, <2>4, <2>7, BindTold
  <2>. QED BY <2>1, <2>5, <2>6, <2>7
<1>5. CASE ConnectFails(a) \/ BindFails(a) \/ RegisterFails(a) \/ TeardownFails(a) \/ Crash(a)
  <2>. DEFINE r == [asm[a] EXCEPT !.pc = "done"]
  <2>1. Set(a, r) /\ r.pc = "done" /\ r.gen = asm[a].gen /\ (UNCHANGED row \/ (asm[a].pc = "bind" /\ row' = Bound(a)))
    BY <1>0, <1>5 DEF ConnectFails, BindFails, RegisterFails, TeardownFails, Crash, End, AsmRecords
  <2>. HIDE DEF r
  <2>2. CASE UNCHANGED row
    BY <1>0, <2>1, <2>2, CallTold
  <2>3. CASE asm[a].pc = "bind" /\ row' = Bound(a)
    BY <2>1, <2>3, BindTold
  <2>. QED BY <2>1, <2>2, <2>3
<1>6. CASE RegisterIntent(a) \/ Teardown(a)
  <2>. DEFINE r(p) == [asm[a] EXCEPT !.pc = p]
  <2>1. PICK p \in {"teardown", "complete"} : Set(a, r(p)) /\ UNCHANGED row
    BY <1>6 DEF RegisterIntent, Teardown
  <2>2. r(p).pc = p /\ r(p).gen = asm[a].gen
    BY <1>0, <2>1 DEF AsmRecords
  <2>. HIDE DEF r
  <2>. QED BY <1>0, <2>1, <2>2, CallTold
<1>7. CASE Complete(a)
  <2>. DEFINE r == [asm[a] EXCEPT !.pc = asm[a].then, !.prior = row.box, !.then = "done"]
  <2>1. Set(a, r) /\ r.pc = asm[a].then /\ r.gen = asm[a].gen /\ r.prior = row.box /\ UNCHANGED row
    BY <1>0, <1>7 DEF Complete, Then, AsmRecords
  <2>. HIDE DEF r
  <2>. QED BY <1>0, <2>1, CallTold
<1>. QED BY <1>1, <1>2, <1>3, <1>4, <1>5, <1>6, <1>7 DEF AssemblerStep

LEMMA RowsTold ==
    ASSUME ToldInv, SandboxInv', LeaseLapses \/ Reclaim \/ EndRun \/ Purge
    PROVE  ToldInv'
<1>. DEFINE n == row.gen + 1
<1>0. row \in Rows /\ row.gen \in Nat /\ n \in Nat /\ n > row.gen /\ UNCHANGED asm
  BY DEF ToldInv, SandboxInv, SandboxTypes, Rows, LeaseLapses, Reclaim, EndRun, Purge
<1>1. CASE LeaseLapses
  <2>1. row' = [row EXCEPT !.held = FALSE]
    BY <1>1 DEF LeaseLapses
  <2>2. row'.phase = row.phase /\ row'.box = row.box /\ row'.boxGen = row.boxGen /\ row'.gen = row.gen
    BY <1>0, <2>1 DEF Rows
  <2>. QED BY <1>0, <2>2, RowTold
<1>2. CASE Reclaim
  <2>1. row' = [row EXCEPT !.held = TRUE, !.gen = n]
    BY <1>2 DEF Reclaim
  <2>. HIDE DEF n
  <2>2. row'.phase = row.phase /\ row'.box = row.box /\ row'.boxGen = row.boxGen /\ row'.gen = n
    BY <1>0, <2>1 DEF Rows
  <2>. QED BY <1>0, <2>2, RowTold
<1>3. CASE EndRun
  <2>1. row' = [row EXCEPT !.phase = "terminal", !.held = FALSE]
    BY <1>3 DEF EndRun
  <2>2. row'.phase = "terminal" /\ row'.box = row.box /\ row'.boxGen = row.boxGen /\ row'.gen = row.gen
    BY <1>0, <2>1 DEF Rows
  <2>. QED BY <1>0, <2>2, RowTold
<1>4. CASE Purge
  <2>1. row' = [row EXCEPT !.phase = "purged", !.box = NoBox, !.boxGen = 0]
    BY <1>4 DEF Purge
  <2>2. row'.phase = "purged" /\ row'.box = NoBox /\ row'.boxGen = 0 /\ row'.gen = row.gen
    BY <1>0, <2>1 DEF Rows
  <2>. QED BY <1>0, <2>2, RowTold
<1>. QED BY <1>1, <1>2, <1>3, <1>4

\* Two assemblers of one generation that both came back hold the same box, the one
\* the row confirms while that generation is current.
THEOREM OneBoxEach == SandboxSpec => []OneBoxPerGeneration
<1>1. SandboxInit => ToldInv
  <2>. SUFFICES ASSUME SandboxInit PROVE ToldInv
    OBVIOUS
  <2>1. row.gen = 1 /\ row.boxGen = 0 /\ \A a \in Assemblers : asm[a].pc = "idle" /\ asm[a].gen = 0
    BY DEF SandboxInit, Resting
  <2>. QED BY <2>1, SandboxInvInit DEF ToldInv, Told, OneBoxPerGeneration
<1>2. ToldInv /\ [SandboxNext]_sandboxVars => ToldInv'
  <2>. SUFFICES ASSUME ToldInv, [SandboxNext]_sandboxVars PROVE ToldInv'
    OBVIOUS
  <2>1. SandboxInv'
    BY SandboxInvStep DEF ToldInv
  <2>2. CASE UNCHANGED <<row, asm>>
    <3>1. row.gen \in Nat
      BY Typed DEF ToldInv, SandboxInv, SandboxTypes, Rows
    <3>. QED BY <2>1, <2>2, <3>1, RowTold
  <2>3. ASSUME NEW a \in Assemblers, AssemblerStep(a) PROVE ToldInv'
    BY <2>1, <2>3, CallsTold
  <2>4. \/ UNCHANGED <<row, asm>> \/ LeaseLapses \/ Reclaim \/ EndRun \/ Purge
        \/ \E a \in Assemblers : AssemblerStep(a)
    BY DEF SandboxNext, sandboxVars, Expires, Falls, JanitorStep, Claim, TearDownClaimed, TearDownRaises,
           CompleteClaimed, Abandon
  <2>. QED BY <2>1, <2>2, <2>3, <2>4, RowsTold
<1>3. ToldInv => OneBoxPerGeneration
  BY DEF ToldInv
<1>. QED BY <1>1, <1>2, <1>3, PTL DEF SandboxSpec
=============================================================================
