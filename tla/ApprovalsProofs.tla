-------------------------- MODULE ApprovalsProofs --------------------------
(***************************************************************************)
(* Proofs about Approvals, for any number of devices, calls, hooks, tools  *)
(* and turns, and every window and lifetime.                               *)
(***************************************************************************)
EXTENDS Approvals, FiniteSetTheorems, WellFoundedInduction, TLAPS

\* A request's notification quotes the turn its call was asked in, through every
\* merge with a prompt that may quote another: what lets the end of a tool call
\* tell approvals of the same tool apart.
QuotesTurn(n) ==
    n.form # "prompt" =>
       /\ n.detail \in Call
       /\ tale[n.detail].asked # NoTurn => n.turn = tale[n.detail].asked

TurnTellsCall == \A h \in Stored : QuotesTurn(note[h])

\* EventsTellTheTable, of all notifications at once.
ClientIsTold == shown = [h \in Hook |-> Display(note[h])]

IInv == TypeOK /\ ClientIsTold /\ TurnTellsCall

-----------------------------------------------------------------------------
\* What a call's hooks quote.
LEMMA TaleTypes ==
    ASSUME TypeOK, NEW c \in Call
    PROVE  tale[c].asked \in Turn \union {NoTurn}
<1>1. tale \in [Call -> Tale]
  BY ApprovalAssumption DEF TypeOK
<1> QED
  BY <1>1 DEF Tale

LEMMA IncomingFacts ==
    ASSUME TypeOK, NEW h \in Hook
    PROVE  /\ Incoming(h) \in Note
           /\ Incoming(h).status = "active"
           /\ Incoming(h).form = FormOf[h]
           /\ Incoming(h).detail = IF FormOf[h] = "prompt" THEN NoCall ELSE CallOf[h]
           /\ QuotesTurn(Incoming(h))
<1>1. CallOf[h] \in Call /\ FormOf[h] \in {"request", "prompt", "plan"} /\ 0 \in 0 .. MaxAge
  BY ApprovalAssumption
<1>2. tale[CallOf[h]].asked \in Turn \union {NoTurn}
  BY <1>1, TaleTypes
<1> QED
  BY <1>1, <1>2 DEF Incoming, Note, QuotesTurn

\* The detail and the turn a merge leaves: the request's, if it has one.
LEMMA MergedFacts ==
    ASSUME NEW a \in Note, NEW b \in Note
    PROVE  /\ Merged(a, b) \in Note
           /\ Merged(a, b).status = a.status
           /\ Merged(a, b).form = "request"
           /\ Merged(a, b).detail = IF b.detail = NoCall THEN a.detail ELSE b.detail
           /\ Merged(a, b).turn = IF b.form = "request" /\ b.turn # NoTurn THEN b.turn
                                  ELSE IF a.turn = NoTurn THEN b.turn ELSE a.turn
BY DEF Merged, Note

\* A merged pair has the detail of its request, and its turn.
LEMMA MergedQuotesTurn ==
    ASSUME TypeOK, NEW a \in Note, NEW h \in Hook, QuotesTurn(a), Pairs(a, Incoming(h))
    PROVE  QuotesTurn(Merged(a, Incoming(h)))
<1> DEFINE b == Incoming(h)
           m == Merged(a, b)
<1> SUFFICES QuotesTurn(m)
  OBVIOUS
<1>1. /\ b \in Note /\ QuotesTurn(b) /\ b.form = FormOf[h]
      /\ b.detail = IF FormOf[h] = "prompt" THEN NoCall ELSE CallOf[h]
  BY IncomingFacts
<1>2. {a.form, b.form} = {"request", "prompt"}
  BY DEF Pairs
<1> HIDE DEF b
<1>3. /\ m.detail = IF b.detail = NoCall THEN a.detail ELSE b.detail
      /\ m.turn = IF b.form = "request" /\ b.turn # NoTurn THEN b.turn
                  ELSE IF a.turn = NoTurn THEN b.turn ELSE a.turn
  BY <1>1, MergedFacts
<1> HIDE DEF m
<1>4. CASE b.form = "request" /\ a.form = "prompt"
  <2>1. b.detail \in Call /\ b.detail # NoCall
    BY <1>1, <1>4, ApprovalAssumption DEF QuotesTurn
  <2> QED
    BY <1>1, <1>3, <1>4, <2>1 DEF QuotesTurn
<1>5. CASE b.form = "prompt" /\ a.form = "request"
  BY <1>1, <1>3, <1>5 DEF QuotesTurn
<1>6. (b.form = "request" /\ a.form = "prompt") \/ (b.form = "prompt" /\ a.form = "request")
  BY <1>2
<1> QED
  BY <1>4, <1>5, <1>6

-----------------------------------------------------------------------------
\* What a hook publishes is a notification the client is told of: a merge that
\* sends no event changes nothing the client can see.
LEMMA PublishedFacts ==
    ASSUME IInv, NEW h \in Hook
    PROVE  LET p == Published(h)
           IN  /\ p.row \in Hook /\ p.note \in Note
               /\ p.note.status # "none"
               /\ p.shown = Display(p.note)
               /\ QuotesTurn(p.note)
               /\ FormOf[h] = "plan" => p.row = h
<1> DEFINE gs == Correlated(h)
<1>1. note \in [Hook -> Note]
  BY DEF IInv, TypeOK
<1>2. CASE gs # {}
  <2> DEFINE g == CHOOSE x \in gs : TRUE
             merged == Merged(note[g], Incoming(h))
  <2>1. g \in gs
    BY <1>2
  <2>2. g \in Stored /\ Pairs(note[g], Incoming(h))
    BY <2>1 DEF Correlated, TheNearest
  <2>3. Published(h) = MergesInto(g, h)
    BY <1>2 DEF Published
  <2> HIDE DEF g
  <2>4. g \in Hook /\ note[g] \in Note /\ note[g].status # "none" /\ QuotesTurn(note[g])
    BY <1>1, <2>2 DEF Stored, IInv, TurnTellsCall
  <2>5. /\ Incoming(h) \in Note /\ Incoming(h).form = FormOf[h]
        /\ Incoming(h).detail = IF FormOf[h] = "prompt" THEN NoCall ELSE CallOf[h]
    BY IncomingFacts DEF IInv
  <2>6. /\ merged \in Note /\ merged.status = note[g].status
        /\ merged.detail = IF Incoming(h).detail = NoCall THEN note[g].detail
                           ELSE Incoming(h).detail
    BY <2>4, <2>5, MergedFacts
  <2>7. QuotesTurn(merged)
    BY <2>2, <2>4, MergedQuotesTurn DEF IInv
  <2>8. FormOf[h] \in {"request", "prompt"}
    BY <2>2, <2>5 DEF Pairs
  <2> HIDE DEF merged
  <2>9. shown[g] = Display(note[g])
    BY <2>4 DEF IInv, ClientIsTold
  <2>10. (IF FormOf[h] = "request" /\ Active(g) THEN Display(merged) ELSE shown[g]) = Display(merged)
    BY <2>5, <2>6, <2>8, <2>9 DEF Display, Active
  <2> QED
    BY <2>3, <2>4, <2>6, <2>7, <2>8, <2>10 DEF MergesInto, merged
<1>3. CASE gs = {} /\ note[h].status # "none"
  <2>1. Published(h) = Repeats(h)
    BY <1>3 DEF Published
  <2> QED
    BY <1>1, <1>3, <2>1 DEF Repeats, IInv, ClientIsTold, TurnTellsCall, Stored
<1>4. CASE gs = {} /\ note[h].status = "none"
  <2>1. Published(h) = Inserts(h)
    BY <1>4 DEF Published
  <2> QED
    BY <2>1, IncomingFacts DEF Inserts, IInv
<1> QED
  BY <1>2, <1>3, <1>4

\* The note a device's settings leave of what was published.
LEMMA SilencedFacts ==
    ASSUME NEW n \in Note, n.status # "none", QuotesTurn(n)
    PROVE  LET s == [n EXCEPT !.status = "acknowledged"]
           IN  /\ s \in Note /\ s.status = "acknowledged"
               /\ QuotesTurn(s) /\ Display(s) = Hidden
BY DEF Note, QuotesTurn, Display

\* What every operation keeps, from what it does to each notification.
LEMMA KeepsInv ==
    ASSUME IInv, tale' = tale,
           note' \in [Hook -> Note],
           \A h \in Hook : note[h].status # "none" => note'[h].status # "none",
           \A h \in Hook : note'[h].status # "none" => QuotesTurn(note'[h]),
           shown' = [h \in Hook |-> Display(note'[h])],
           phase' \in [Call -> {"idle", "waiting", "over"}],
           \A read \in confirming' : read \in confirming \/ read[1] \in Stored,
           settled' \subseteq Call, handled' \subseteq Hook \union Call, orderly' \in BOOLEAN
    PROVE  IInv'
<1>1. \A h \in Stored : h \in Stored'
  BY DEF Stored
<1>2. \A read \in confirming' : read[1] \in Stored'
  BY <1>1 DEF IInv, TypeOK
<1>3. TurnTellsCall'
  BY DEF TurnTellsCall, Stored, QuotesTurn
<1>4. ClientIsTold'
  BY DEF ClientIsTold, Display
<1>5. \A h \in Stored' : note'[h].form # "prompt" => note'[h].detail \in Call
  BY DEF Stored, QuotesTurn
<1> QED
  BY <1>2, <1>3, <1>4, <1>5 DEF IInv, TypeOK

LEMMA RememberTypes ==
    ASSUME IInv, NEW inOrder \in BOOLEAN, NEW xs \in SUBSET (Hook \union Call),
           NEW cs \in SUBSET Call, Remember(inOrder, xs, cs)
    PROVE  settled' \subseteq Call /\ handled' \subseteq Hook \union Call /\ orderly' \in BOOLEAN
BY DEF Remember, IInv, TypeOK

\* Closing stored notifications tells the client of each.
LEMMA CloseKeeps ==
    ASSUME IInv, NEW hs \in SUBSET Stored, NEW as \in {"acknowledged", "expired"}, Close(hs, as)
    PROVE  /\ note' \in [Hook -> Note]
           /\ \A h \in Hook : note[h].status # "none" => note'[h].status # "none"
           /\ \A h \in Hook : note'[h].status # "none" => QuotesTurn(note'[h])
           /\ shown' = [h \in Hook |-> Display(note'[h])]
<1>1. note \in [Hook -> Note]
  BY DEF IInv, TypeOK
<1>2. ASSUME NEW h \in hs
      PROVE  /\ note'[h] \in Note /\ note'[h].status # "none" /\ QuotesTurn(note'[h])
             /\ shown'[h] = Display(note'[h])
  <2>1. h \in Hook /\ note[h] \in Note /\ QuotesTurn(note[h])
    BY <1>1 DEF Stored, IInv, TurnTellsCall
  <2>2. note'[h] = [note[h] EXCEPT !.status = as] /\ shown'[h] = Hidden
    BY <2>1 DEF Close
  <2> QED
    BY <2>1, <2>2 DEF Note, QuotesTurn, Display
<1>3. ASSUME NEW h \in Hook \ hs
      PROVE  note'[h] = note[h] /\ shown'[h] = shown[h]
  BY <1>3 DEF Close
<1>4. note' = [h \in Hook |-> note'[h]]
  BY DEF Close
<1>5. \A h \in Hook : note'[h] \in Note
  BY <1>1, <1>2, <1>3
<1>6. note' \in [Hook -> Note]
  BY <1>4, <1>5
<1>7. shown' = [h \in Hook |-> shown'[h]]
  BY DEF Close
<1>8. \A h \in Hook : shown'[h] = Display(note'[h])
  BY <1>2, <1>3 DEF IInv, ClientIsTold
<1>9. shown' = [h \in Hook |-> Display(note'[h])]
  BY <1>7, <1>8
<1> QED
  BY <1>2, <1>3, <1>6, <1>9 DEF IInv, TurnTellsCall, Stored

LEMMA TellsCalls ==
    ASSUME IInv, NEW h \in Hook
    PROVE  Tells(h) \subseteq Call
BY ApprovalAssumption DEF IInv, TypeOK, Tells, Note

-----------------------------------------------------------------------------
(***************************************************************************)
(* One lemma per operation: it keeps the inductive invariant.              *)
(***************************************************************************)
\* A step that leaves the notifications alone.
LEMMA NotesUnchangedStep ==
    ASSUME IInv, UNCHANGED <<tale, note, shown>>, confirming' \subseteq confirming,
           phase' \in [Call -> {"idle", "waiting", "over"}],
           settled' \subseteq Call, handled' \subseteq Hook \union Call, orderly' \in BOOLEAN
    PROVE  IInv'
<1>1. /\ note' \in [Hook -> Note]
      /\ \A h \in Hook : note[h].status # "none" => note'[h].status # "none"
      /\ \A h \in Hook : note'[h].status # "none" => QuotesTurn(note'[h])
      /\ shown' = [h \in Hook |-> Display(note'[h])]
      /\ \A read \in confirming' : read \in confirming \/ read[1] \in Stored
  BY DEF IInv, TypeOK, ClientIsTold, TurnTellsCall, Stored
<1> QED
  BY <1>1, KeepsInv

LEMMA AskStep ==
    ASSUME IInv, NEW h \in Hook, NEW policy \in Policy, Ask(h, policy)
    PROVE  IInv'
<1>1. UNCHANGED <<tale, phase, confirming>>
  BY DEF Ask, session
<1>2. phase' \in [Call -> {"idle", "waiting", "over"}] /\ CallOf[h] \in Call
  BY <1>1, ApprovalAssumption DEF IInv, TypeOK
<1>3. CASE policy = "off"
  <2>1. settled' \subseteq Call /\ handled' \subseteq Hook \union Call /\ orderly' \in BOOLEAN
    BY <1>3, RememberTypes DEF Ask
  <2> QED
    BY <1>1, <1>2, <1>3, <2>1, NotesUnchangedStep DEF Ask
<1>4. CASE policy # "off"
  <2> DEFINE p == Published(h)
             n == IF Silences(p, policy) THEN [p.note EXCEPT !.status = "acknowledged"] ELSE p.note
             told == IF Silences(p, policy) THEN Hidden ELSE p.shown
  <2>1. /\ p.row \in Hook /\ p.note \in Note /\ p.note.status # "none"
        /\ p.shown = Display(p.note) /\ QuotesTurn(p.note)
    BY PublishedFacts
  <2>2. /\ note' = [note EXCEPT ![p.row] = n]
        /\ shown' = [shown EXCEPT ![p.row] = told]
        /\ Remember(InTime(h), {h}, IF Silences(p, policy) THEN {CallOf[h]} ELSE {})
    BY <1>4 DEF Ask, Publish
  <2>3. InTime(h) \in BOOLEAN
    BY DEF InTime
  <2>4. settled' \subseteq Call /\ handled' \subseteq Hook \union Call /\ orderly' \in BOOLEAN
    <3>1. /\ (IF Silences(p, policy) THEN {CallOf[h]} ELSE {}) \in SUBSET Call
          /\ {h} \in SUBSET (Hook \union Call)
      BY <1>2
    <3> QED
      BY <2>2, <2>3, <3>1, RememberTypes
  <2>5. n \in Note /\ n.status # "none" /\ QuotesTurn(n) /\ told = Display(n)
    BY <2>1, SilencedFacts
  <2> HIDE DEF n, told, p
  <2>6. note \in [Hook -> Note] /\ shown = [g \in Hook |-> Display(note[g])]
    BY DEF IInv, TypeOK, ClientIsTold
  <2>7. note' \in [Hook -> Note]
    BY <2>2, <2>5, <2>6
  <2>8. \A g \in Hook : note'[g] = IF g = p.row THEN n ELSE note[g]
    BY <2>2, <2>6
  <2>9. shown' = [g \in Hook |-> Display(note'[g])]
    <3>1. shown' = [g \in Hook |-> shown'[g]]
      BY <2>2, <2>6
    <3>2. \A g \in Hook : shown'[g] = IF g = p.row THEN told ELSE shown[g]
      BY <2>2, <2>6
    <3>3. \A g \in Hook : shown'[g] = Display(note'[g])
      BY <2>5, <2>6, <2>8, <3>2
    <3> QED
      BY <3>1, <3>3
  <2>11. \A g \in Hook : note'[g].status # "none" => QuotesTurn(note'[g])
    BY <2>5, <2>8 DEF IInv, TurnTellsCall, Stored
  <2>12. \A g \in Hook : note[g].status # "none" => note'[g].status # "none"
    BY <2>5, <2>8
  <2> QED
    BY <1>1, <1>2, <2>4, <2>7, <2>9, <2>11, <2>12, KeepsInv
<1> QED
  BY <1>3, <1>4

\* A planning turn's hook is no transport of a tool's approval: it publishes its
\* own notification, and closes those its device sees.
LEMMA PlanEndedStep ==
    ASSUME IInv, NEW h \in Hook, NEW policy \in Policy, PlanEnded(h, policy)
    PROVE  IInv'
<1> DEFINE p == Published(h)
           published == policy # "off"
           others == Pending(Host(h)) \ (IF published THEN {h} ELSE {})
           silenced == [p.note EXCEPT !.status = "acknowledged"]
           mine == IF Silences(p, policy) THEN silenced ELSE p.note
           after(g) == IF g = h /\ published THEN mine
                       ELSE IF g \in others THEN [note[g] EXCEPT !.status = "acknowledged"]
                       ELSE note[g]
           cs == IF Silences(p, policy) THEN {CallOf[h]} ELSE {}
           inOrder == published /\ InTime(h) /\ ~Someone(Call \ {CallOf[h]})
<1>1. /\ UNCHANGED <<tale, phase, confirming>>
      /\ FormOf[h] = "plan"
      /\ note' = [g \in Hook |-> after(g)]
      /\ shown' = [g \in Hook |-> IF g = h \/ g \in others THEN Display(after(g)) ELSE shown[g]]
      /\ Remember(inOrder, {h}, cs)
  BY DEF PlanEnded, session
<1>2. phase' \in [Call -> {"idle", "waiting", "over"}] /\ CallOf[h] \in Call
  BY <1>1, ApprovalAssumption DEF IInv, TypeOK
<1>3. p.note \in Note /\ p.note.status # "none" /\ QuotesTurn(p.note)
  BY PublishedFacts
<1>4. mine \in Note /\ mine.status # "none" /\ QuotesTurn(mine)
  BY <1>3, SilencedFacts
<1>5. /\ cs \in SUBSET Call /\ {h} \in SUBSET (Hook \union Call)
      /\ inOrder \in BOOLEAN
  BY <1>2 DEF InTime, Someone
<1> HIDE DEF mine, cs, inOrder
<1>6. settled' \subseteq Call /\ handled' \subseteq Hook \union Call /\ orderly' \in BOOLEAN
  BY <1>1, <1>5, RememberTypes
<1>7. note \in [Hook -> Note] /\ shown = [g \in Hook |-> Display(note[g])]
  BY DEF IInv, TypeOK, ClientIsTold
<1>8. ASSUME NEW g \in Hook
      PROVE  /\ after(g) \in Note
             /\ note[g].status # "none" => after(g).status # "none"
             /\ after(g).status # "none" => QuotesTurn(after(g))
  <2>1. CASE g = h /\ published
    BY <1>4, <2>1
  <2>2. CASE ~(g = h /\ published) /\ g \in others
    <3>1. note[g].status # "none" /\ QuotesTurn(note[g]) /\ note[g] \in Note
      BY <1>7, <2>2 DEF Pending, Active, IInv, TurnTellsCall, Stored
    <3> QED
      BY <2>2, <3>1, SilencedFacts
  <2>3. CASE ~(g = h /\ published) /\ g \notin others
    BY <1>7, <2>3 DEF IInv, TurnTellsCall, Stored
  <2> QED
    BY <2>1, <2>2, <2>3
<1>9. \A g \in Hook : ~(g = h \/ g \in others) => shown[g] = Display(after(g))
  BY <1>7
<1> HIDE DEF after, others
<1>10. note' \in [Hook -> Note] /\ \A g \in Hook : note'[g] = after(g)
  BY <1>1, <1>8
<1>11. shown' = [g \in Hook |-> Display(note'[g])]
  BY <1>1, <1>9, <1>10
<1> QED
  BY <1>1, <1>2, <1>6, <1>8, <1>10, <1>11, KeepsInv

\* Operations that close, whatever they remember.
LEMMA ClosingStep ==
    ASSUME IInv, NEW hs \in SUBSET Stored, NEW as \in {"acknowledged", "expired"}, Close(hs, as),
           UNCHANGED <<tale, phase>>,
           \A read \in confirming' : read \in confirming \/ read[1] \in Stored,
           settled' \subseteq Call, handled' \subseteq Hook \union Call, orderly' \in BOOLEAN
    PROVE  IInv'
<1>1. phase' \in [Call -> {"idle", "waiting", "over"}]
  BY DEF IInv, TypeOK
<1>2. /\ note' \in [Hook -> Note]
      /\ \A h \in Hook : note[h].status # "none" => note'[h].status # "none"
      /\ \A h \in Hook : note'[h].status # "none" => QuotesTurn(note'[h])
      /\ shown' = [h \in Hook |-> Display(note'[h])]
  BY CloseKeeps
<1> QED
  BY <1>1, <1>2, KeepsInv

LEMMA MatchedActive ==
    ASSUME NEW c
    PROVE  \A h \in Matched(c) : h \in Candidates(c)
BY DEF Matched, OfTurn

LEMMA ToolEndedStep ==
    ASSUME IInv, NEW c \in Call, ToolEnded(c)
    PROVE  IInv'
<1> DEFINE inOrder == c \notin handled /\ ~Someone(Call)
<1>1. /\ Close(Matched(c), "acknowledged")
      /\ Remember(inOrder, {c}, {})
      /\ UNCHANGED <<tale, phase, confirming>>
  BY DEF ToolEnded, session
<1>2. inOrder \in BOOLEAN /\ {c} \in SUBSET (Hook \union Call) /\ {} \in SUBSET Call
  OBVIOUS
<1> HIDE DEF inOrder
<1>3. settled' \subseteq Call /\ handled' \subseteq Hook \union Call /\ orderly' \in BOOLEAN
  BY <1>1, <1>2, RememberTypes
<1>4. Matched(c) \in SUBSET Stored
  BY MatchedActive DEF Candidates, Resolvable, Active, Stored
<1> QED
  BY <1>1, <1>3, <1>4, ClosingStep

LEMMA TurnEndedStep ==
    ASSUME IInv, NEW d \in Device, TurnEnded(d)
    PROVE  IInv'
<1>1. /\ Close(Pending(d), "acknowledged")
      /\ Remember(~Someone(Call), {}, {})
      /\ UNCHANGED <<tale, phase, confirming>>
  BY DEF TurnEnded, session
<1>2. settled' \subseteq Call /\ handled' \subseteq Hook \union Call /\ orderly' \in BOOLEAN
  BY <1>1, RememberTypes
<1>3. Pending(d) \in SUBSET Stored
  BY DEF Pending, Active, Stored
<1> QED
  BY <1>1, <1>2, <1>3, ClosingStep

LEMMA NearestAreSome ==
    ASSUME NEW hs, NEW age
    PROVE  TheNearest(hs, age) \subseteq hs
BY DEF TheNearest

LEMMA SiblingsFacts ==
    ASSUME NEW h, NEW form, NEW turn
    PROVE  \A g \in Siblings(h, form, turn) :
              /\ g \in Stored /\ Active(g) /\ Host(g) = Host(h)
              /\ Pairs(note[g], [note[h] EXCEPT !.form = form, !.turn = turn])
<1> DEFINE reference == [note[h] EXCEPT !.form = form, !.turn = turn]
           hs == {g \in Hook \ {h} : /\ Active(g) /\ Host(g) = Host(h)
                                    /\ Pairs(note[g], reference)}
<1>1. Siblings(h, form, turn) = TheNearest(hs, reference.age)
  BY DEF Siblings
<1>2. \A g \in hs : g \in Stored /\ Active(g) /\ Host(g) = Host(h) /\ Pairs(note[g], reference)
  BY DEF Stored, Active
<1> HIDE DEF hs
<1> QED  BY <1>1, <1>2, NearestAreSome

LEMMA AcknowledgeStep ==
    ASSUME IInv, NEW d \in Device, NEW h \in Hook, Acknowledge(d, h)
    PROVE  IInv'
<1>1. /\ h \in Stored
      /\ Remember(TRUE, {}, Tells(h))
      /\ UNCHANGED <<tale, phase>>
  BY DEF Acknowledge, session
<1>2. settled' \subseteq Call /\ handled' \subseteq Hook \union Call /\ orderly' \in BOOLEAN
  <2>1. Tells(h) \in SUBSET Call
    BY TellsCalls
  <2> QED
    BY <1>1, <2>1, RememberTypes
<1>3. CASE note[h].status = "acknowledged"
  <2> DEFINE hs == Siblings(h, note[h].form, note[h].turn)
  <2>1. Close(hs, "acknowledged") /\ UNCHANGED confirming
    BY <1>3 DEF Acknowledge
  <2>2. hs \in SUBSET Stored
    BY SiblingsFacts
  <2> QED
    BY <1>1, <1>2, <2>1, <2>2, ClosingStep
<1>4. CASE note[h].status # "acknowledged"
  <2>1. Close({h}, "acknowledged") /\ confirming' = {<<h, note[h].form, note[h].turn>>}
    BY <1>4 DEF Acknowledge
  <2> QED
    BY <1>1, <1>2, <2>1, ClosingStep
<1> QED
  BY <1>3, <1>4

LEMMA AcknowledgeSiblingStep ==
    ASSUME IInv, AcknowledgeSibling
    PROVE  IInv'
<1>1. PICK read \in confirming :
         /\ Close(Siblings(read[1], read[2], read[3]), "acknowledged")
         /\ confirming' = {}
         /\ UNCHANGED <<session, history>>
  BY DEF AcknowledgeSibling
<1>2. settled' \subseteq Call /\ handled' \subseteq Hook \union Call /\ orderly' \in BOOLEAN
  BY <1>1 DEF history, IInv, TypeOK
<1>3. Siblings(read[1], read[2], read[3]) \in SUBSET Stored
  BY SiblingsFacts
<1> QED
  BY <1>1, <1>2, <1>3, ClosingStep DEF session

LEMMA ExpireStep ==
    ASSUME IInv, Expire
    PROVE  IInv'
<1> DEFINE cs == UNION {Tells(h) : h \in Due}
<1>1. Close(Due, "expired") /\ Remember(TRUE, {}, cs) /\ UNCHANGED <<tale, phase, confirming>>
  BY DEF Expire, session
<1>2. Due \in SUBSET Stored
  BY DEF Due, Active, Stored
<1>3. cs \in SUBSET Call
  BY TellsCalls DEF Due
<1> HIDE DEF cs
<1>4. settled' \subseteq Call /\ handled' \subseteq Hook \union Call /\ orderly' \in BOOLEAN
  BY <1>1, <1>3, RememberTypes
<1> QED
  BY <1>1, <1>2, <1>4, ClosingStep

LEMMA StartStep ==
    ASSUME IInv, Start
    PROVE  IInv'
<1> DEFINE cs == UNION {Tells(h) : h \in Waiting}
<1>1. /\ Close(Waiting, "acknowledged") /\ Remember(TRUE, {}, cs)
      /\ UNCHANGED <<tale, phase>> /\ confirming' = {}
  BY DEF Start, session
<1>2. Waiting \in SUBSET Stored
  BY DEF Waiting, Active, Stored
<1>3. cs \in SUBSET Call
  BY TellsCalls DEF Waiting
<1> HIDE DEF cs
<1>4. settled' \subseteq Call /\ handled' \subseteq Hook \union Call /\ orderly' \in BOOLEAN
  BY <1>1, <1>3, RememberTypes
<1> QED
  BY <1>1, <1>2, <1>4, ClosingStep

LEMMA TickStep ==
    ASSUME IInv, Tick
    PROVE  IInv'
<1>1. note \in [Hook -> Note] /\ shown = [h \in Hook |-> Display(note[h])]
  BY DEF IInv, TypeOK, ClientIsTold
<1>2. note' = [h \in Hook |-> IF h \in Stored THEN [note[h] EXCEPT !.age = note[h].age + 1]
                              ELSE note[h]]
  BY <1>1 DEF Tick
<1>3. ASSUME NEW h \in Hook
      PROVE  /\ note'[h] \in Note
             /\ note'[h].status = note[h].status
             /\ note'[h].form = note[h].form
             /\ note'[h].detail = note[h].detail
             /\ note'[h].turn = note[h].turn
  <2>1. note[h] \in Note /\ (h \in Stored => note[h].age < MaxAge)
    BY <1>1 DEF Tick
  <2>2. CASE h \in Stored
    <3>1. note'[h] = [note[h] EXCEPT !.age = note[h].age + 1]
      BY <1>2, <2>2
    <3>2. note[h].age + 1 \in 0 .. MaxAge
      BY <2>1, <2>2, ApprovalAssumption DEF Note
    <3> QED
      BY <2>1, <3>1, <3>2 DEF Note
  <2>3. CASE h \notin Stored
    BY <1>2, <2>1, <2>3
  <2> QED
    BY <2>2, <2>3
<1>4. note' \in [Hook -> Note]
  BY <1>2, <1>3
<1>5. \A h \in Hook : note'[h].status # "none" => QuotesTurn(note'[h])
  BY <1>3 DEF IInv, TurnTellsCall, Stored, QuotesTurn
<1>6. shown' = [h \in Hook |-> Display(note'[h])]
  <2>1. \A h \in Hook : Display(note'[h]) = Display(note[h])
    BY <1>3 DEF Display
  <2> QED
    BY <1>1, <2>1 DEF Tick
<1>7. /\ UNCHANGED <<tale, phase, confirming, orderly, handled, settled>>
      /\ phase' \in [Call -> {"idle", "waiting", "over"}]
      /\ settled' \subseteq Call /\ handled' \subseteq Hook \union Call /\ orderly' \in BOOLEAN
  BY DEF Tick, session, history, IInv, TypeOK
<1> QED
  BY <1>3, <1>4, <1>5, <1>6, <1>7, KeepsInv

-----------------------------------------------------------------------------
LEMMA InitInv == Init => IInv
<1> SUFFICES ASSUME Init PROVE IInv
  OBVIOUS
<1>1. None \in Note
  BY ApprovalAssumption DEF None, Note
<1>2. Stored = {}
  BY DEF Init, Stored, None
<1>3. TypeOK
  BY <1>1, <1>2 DEF Init, TypeOK
<1> QED
  BY <1>2, <1>3 DEF Init, IInv, ClientIsTold, TurnTellsCall, Display, None

LEMMA NextInv == IInv /\ [Next]_vars => IInv'
<1> SUFFICES ASSUME IInv, [Next]_vars PROVE IInv'
  OBVIOUS
<1>1. ASSUME NEW h \in Hook, NEW p \in Policy, Ask(h, p) \/ PlanEnded(h, p) PROVE IInv'
  BY <1>1, AskStep, PlanEndedStep
<1>2. ASSUME NEW c \in Call, ToolEnded(c) PROVE IInv'
  BY <1>2, ToolEndedStep
<1>3. ASSUME NEW c \in Call, NeedPermission(c) PROVE IInv'
  <2> DEFINE inOrder == \A b \in Call : phase[b] # "idle" =>
                           phase[b] = "over" /\ Hooks(b) \subseteq handled /\ confirming = {}
  <2>1. /\ phase' = [phase EXCEPT ![c] = "waiting"]
        /\ Remember(inOrder, {}, {})
        /\ UNCHANGED <<tale, note, confirming, shown>>
    BY <1>3 DEF NeedPermission
  <2>2. inOrder \in BOOLEAN
    OBVIOUS
  <2> HIDE DEF inOrder
  <2>3. settled' \subseteq Call /\ handled' \subseteq Hook \union Call /\ orderly' \in BOOLEAN
    BY <2>1, <2>2, RememberTypes
  <2>4. phase' \in [Call -> {"idle", "waiting", "over"}]
    BY <2>1 DEF IInv, TypeOK
  <2> QED
    BY <2>1, <2>3, <2>4, NotesUnchangedStep
<1>4. ASSUME NEW c \in Call, AnsweredAtComputer(c) PROVE IInv'
  <2>1. /\ phase' \in [Call -> {"idle", "waiting", "over"}]
        /\ settled' \subseteq Call /\ handled' \subseteq Hook \union Call /\ orderly' \in BOOLEAN
    BY <1>4 DEF AnsweredAtComputer, history, IInv, TypeOK
  <2> QED
    BY <1>4, <2>1, NotesUnchangedStep DEF AnsweredAtComputer
<1>5. ASSUME NEW d \in Device, TurnEnded(d) PROVE IInv'
  BY <1>5, TurnEndedStep
<1>6. ASSUME NEW d \in Device, NEW h \in Hook, Acknowledge(d, h) PROVE IInv'
  BY <1>6, AcknowledgeStep
<1>7. CASE AcknowledgeSibling \/ Expire \/ Start \/ Tick
  BY <1>7, AcknowledgeSiblingStep, ExpireStep, StartStep, TickStep
<1>8. CASE UNCHANGED vars
  <2>1. /\ phase' \in [Call -> {"idle", "waiting", "over"}]
        /\ settled' \subseteq Call /\ handled' \subseteq Hook \union Call /\ orderly' \in BOOLEAN
    BY <1>8 DEF vars, session, history, IInv, TypeOK
  <2> QED
    BY <1>8, <2>1, NotesUnchangedStep DEF vars, session
<1> QED
  BY <1>1, <1>2, <1>3, <1>4, <1>5, <1>6, <1>7, <1>8 DEF Next

\* The inductive invariant holds in every reachable state.
THEOREM Invariance == Spec => []IInv
BY InitInv, NextInv, PTL DEF Spec

\* The notifications keep their types, and requests their calls.
THEOREM TypeCorrectness == Spec => []TypeOK
<1>1. IInv => TypeOK
  BY DEF IInv
<1> QED
  BY <1>1, Invariance, PTL

\* A client that applies every event in order shows the active approvals, with
\* the detail the table has, whatever was merged without an event.
THEOREM ClientShowsTheTable == Spec => []EventsTellTheTable
<1>1. IInv => EventsTellTheTable
  BY DEF IInv, ClientIsTold, EventsTellTheTable
<1> QED
  BY <1>1, Invariance, PTL

\* Only what an operation closes is closed by it.
LEMMA ClosedByClose ==
    ASSUME NEW hs, NEW as, Close(hs, as), NEW h \in Hook, Closes(h)
    PROVE  h \in hs
BY DEF Close, Closes, Active

\* The end of a tool call closes no approval that its hooks tell apart from it.
THEOREM ToolEndsAreTheirOwn == Spec => ToolEndClosesItsOwn
<1>1. ASSUME IInv, NEW h \in Hook, NEW c \in Call, Closes(h), ToolEnded(c)
      PROVE  ~Distinct(c, note[h].detail)
  <2> DEFINE d == note[h].detail
  <2>1. h \in Matched(c)
    BY <1>1, ClosedByClose DEF ToolEnded
  <2>2. Active(h) /\ note[h].form = "request" /\ tale[d].tool = tale[c].tool
    BY <2>1, MatchedActive DEF Candidates, Resolvable, SameKey
  <2>3. tale[d].asked # NoTurn => note[h].turn = tale[d].asked
    BY <1>1, <2>2 DEF IInv, TurnTellsCall, QuotesTurn, Stored, Active
  <2>4. tale[c].ended # NoTurn => note[h].turn \in {tale[c].ended, NoTurn}
    BY <2>1 DEF Matched, OfTurn
  <2> QED
    BY <2>2, <2>3, <2>4 DEF Distinct
<1>2. IInv /\ [Next]_vars =>
         [\A h \in Hook, c \in Call :
             Closes(h) /\ ToolEnded(c) => ~Distinct(c, note[h].detail)]_vars
  BY <1>1
<1> QED
  BY <1>2, Invariance, PTL DEF Spec, ToolEndClosesItsOwn

\* A guest's hooks and confirmations close the guest's own approvals only.
THEOREM GuestsKeepToThemselves == Spec => GuestsCloseTheirOwn
<1>1. ASSUME NEW h \in Hook, NEW d \in Guest, Closes(h), Acts(d)
      PROVE  Host(h) = d
  <2>1. ASSUME NEW c \in Call, tale[c].host = d, ToolEnded(c)
        PROVE  Host(h) = d
    <3>1. h \in Matched(c)
      BY <1>1, <2>1, ClosedByClose DEF ToolEnded
    <3> QED
      BY <2>1, <3>1, MatchedActive DEF Candidates, Sees
  <2>2. CASE TurnEnded(d)
    BY <1>1, <2>2, ClosedByClose DEF TurnEnded, Pending, Sees
  <2>3. ASSUME NEW g \in Hook, Acknowledge(d, g)
        PROVE  Host(h) = d
    <3>1. Host(g) = d
      BY <2>3 DEF Acknowledge, Sees
    <3>2. CASE note[g].status = "acknowledged"
      <4>1. h \in Siblings(g, note[g].form, note[g].turn)
        BY <1>1, <2>3, <3>2, ClosedByClose DEF Acknowledge
      <4> QED
        BY <3>1, <4>1, SiblingsFacts
    <3>3. CASE note[g].status # "acknowledged"
      <4>1. h \in {g}
        BY <1>1, <2>3, <3>3, ClosedByClose DEF Acknowledge
      <4> QED
        BY <3>1, <4>1
    <3> QED
      BY <3>2, <3>3
  <2> QED
    BY <1>1, <2>1, <2>2, <2>3 DEF Acts
<1>2. [Next]_vars =>
         [\A h \in Hook, d \in Guest : Closes(h) /\ Acts(d) => Host(h) = d]_vars
  BY <1>1
<1> QED
  BY <1>2, PTL DEF Spec, GuestsCloseTheirOwn

-----------------------------------------------------------------------------
(***************************************************************************)
(* A call that waits is shown.  While the hooks come undisturbed, one call *)
(* waits at a time and the earlier ones have been told; so a prompt that   *)
(* stands alone is of the call that waits, it comes before the request,    *)
(* the request finds it, and no confirmation of another approval takes it  *)
(* for a sibling, however long ago that one's row was read.                *)
(***************************************************************************)
Prompt(h) == h \in Stored /\ note[h].form = "prompt"
Request(h) == h \in Stored /\ note[h].form = "request"
Asks(c) == {h \in Hook : CallOf[h] = c /\ FormOf[h] # "prompt"}
Reference(read) == [note[read[1]] EXCEPT !.form = read[2], !.turn = read[3]]

\* What time and merging do not change.
OwnTimes == \A g, h \in Stored : note[g].age = note[h].age => g = h
ExpiredAreOld == \A h \in Stored : note[h].status = "expired" => note[h].age >= TTL
PromptsTellNoCall ==
    \A g \in Hook : Prompt(g) =>
       /\ FormOf[g] = "prompt" /\ note[g].detail = NoCall
       /\ note[g].turn = tale[CallOf[g]].asked
Times == OwnTimes /\ ExpiredAreOld /\ PromptsTellNoCall

\* One call waits at a time, and of the earlier ones every hook was handled.
OneAtATime ==
    /\ \A b, c \in Call : phase[b] = "waiting" /\ phase[c] = "waiting" => b = c
    /\ \A b, c \in Call : phase[b] = "over" /\ phase[c] = "waiting" => Hooks(b) \subseteq handled

\* Notifications are of hooks that were handled, and requests have theirs.
HandledAreTold ==
    /\ Stored \subseteq handled
    /\ \A h \in handled \intersect Hook : phase[CallOf[h]] # "idle" /\ h \in Hooks(CallOf[h])
    /\ \A h \in Stored : note[h].form # "prompt" =>
          Asks(note[h].detail) \intersect handled # {}
    /\ \A r \in handled \intersect Hook : FormOf[r] = "request" =>
          \E h \in Hook : Request(h) /\ note[h].detail = CallOf[r] /\ Host(h) = Host(r)

\* A prompt of its own comes before its request, and no request is near it.
PromptsAreEarly ==
    \A g, r \in Hook :
       Prompt(g) /\ CallOf[r] = CallOf[g] /\ FormOf[r] = "request" => r \notin handled
PromptsAreAlone ==
    \A g, h \in Hook : Prompt(g) /\ Request(h) /\ Host(g) = Host(h) => ~Pairs(note[g], note[h])

\* What is shown of a call that waits.
PromptsAreShown ==
    \A g \in Hook : Prompt(g) /\ phase[CallOf[g]] = "waiting" /\ CallOf[g] \notin settled => Active(g)
RequestsAreShown ==
    \A c \in Call : phase[c] = "waiting" /\ c \notin settled /\ Asks(c) \intersect handled # {} =>
       \E h \in Hook : Active(h) /\ note[h].detail = c

\* A confirmation that is under way closes no other call's approval.
NoPromptComes ==
    \A p \in Hook : FormOf[p] = "prompt" /\ p \in Hooks(CallOf[p]) /\ phase[CallOf[p]] # "idle" =>
       p \in handled
ReadsAreRight ==
    \A read \in confirming :
       /\ read[2] = "request" =>
             /\ Request(read[1])
             /\ note[read[1]].turn = read[3] \/ NoPromptComes
             /\ \A g \in Hook : Prompt(g) /\ Host(g) = Host(read[1]) => ~Pairs(note[g], Reference(read))
       /\ read[2] = "prompt" =>
             /\ CallOf[read[1]] \in settled
             /\ \A c \in Call : phase[c] = "waiting" => c = CallOf[read[1]]

Undisturbed ==
    /\ OneAtATime /\ HandledAreTold
    /\ PromptsAreEarly /\ PromptsAreAlone /\ PromptsAreShown /\ RequestsAreShown
    /\ ReadsAreRight

ShownInv == IInv /\ Times /\ (orderly => Undisturbed)

-----------------------------------------------------------------------------
\* Ages have a least one.
LEMMA LeastAge ==
    ASSUME NEW T \in SUBSET Nat, T # {}
    PROVE  \E x \in T : \A y \in T : x <= y
<1> DEFINE Younger(n) == {k \in Nat : k < n}
           Youngers == {Younger(n) : n \in T}
<1>1. Youngers \subseteq FiniteSubsetsOf(Nat) /\ Youngers # {}
  <2>1. ASSUME NEW n \in T  PROVE IsFiniteSet(Younger(n)) /\ Younger(n) \subseteq Nat
    <3>1. Younger(n) \subseteq 0 .. n /\ IsFiniteSet(0 .. n)
      BY FS_Interval
    <3> QED  BY <3>1, FS_Subset
  <2> QED  BY <2>1 DEF FiniteSubsetsOf
<1> HIDE DEF Youngers
<1>2. PICK S \in Youngers : \A R \in Youngers : <<R, S>> \notin StrictSubsetOrdering(Nat)
  BY <1>1, FS_StrictSubsetOrderingWellFounded, WFMin
<1>3. PICK x \in T : S = Younger(x)
  BY DEF Youngers
<1>4. ASSUME NEW y \in T, y < x  PROVE FALSE
  <2>1. /\ Younger(y) \subseteq Younger(x) /\ y \in Younger(x) /\ y \notin Younger(y)
        /\ Younger(y) \in SUBSET Nat /\ Younger(x) \in SUBSET Nat
    BY <1>4
  <2>2. Younger(y) \in Youngers
    BY DEF Youngers
  <2> HIDE DEF Younger
  <2> QED  BY <1>2, <1>3, <2>1, <2>2 DEF StrictSubsetOrdering
<1> QED  BY <1>4

\* As no two are of one time, one of some notifications is the newest.
LEMMA SomeIsNewest ==
    ASSUME TypeOK, OwnTimes, NEW hs \in SUBSET Stored, hs # {}
    PROVE  TheNearest(hs, 0) # {}
<1> DEFINE Ages == {note[h].age : h \in hs}
<1>1. \A h \in hs : h \in Hook /\ note[h].age \in Nat
  BY ApprovalAssumption DEF TypeOK, Stored, Note
<1>2. PICK x \in Ages : \A y \in Ages : x <= y
  <2>1. Ages \in SUBSET Nat /\ Ages # {}
    BY <1>1
  <2> HIDE DEF Ages
  <2> QED  BY <2>1, LeastAge
<1>3. PICK h \in hs : x = note[h].age
  OBVIOUS
<1>4. \A g \in hs : note[h].age <= note[g].age
  BY <1>2, <1>3
<1>5. \A g \in hs : Distance(note[g].age, 0) = note[g].age
  BY <1>1 DEF Distance
<1>6. {g \in hs : \A f \in hs : Distance(note[g].age, 0) <= Distance(note[f].age, 0)} = {h}
  <2>1. \A f \in hs : Distance(note[h].age, 0) <= Distance(note[f].age, 0)
    BY <1>4, <1>5
  <2>2. ASSUME NEW g \in hs, \A f \in hs : Distance(note[g].age, 0) <= Distance(note[f].age, 0)
        PROVE  g = h
    <3>1. note[g].age <= note[h].age /\ note[h].age <= note[g].age
      BY <1>4, <1>5, <2>2
    <3>2. note[g].age = note[h].age
      BY <1>1, <3>1
    <3> QED  BY <3>2 DEF OwnTimes
  <2> QED  BY <2>1, <2>2
<1>7. Cardinality({h}) = 1
  BY FS_Singleton
<1> QED  BY <1>6, <1>7 DEF TheNearest

\* Two that pair pair either way round.
LEMMA PairsAreMutual ==
    ASSUME NEW a \in Note, NEW b \in Note
    PROVE  Pairs(a, b) <=> Pairs(b, a)
<1>1. a.age \in Nat /\ b.age \in Nat
  BY ApprovalAssumption DEF Note
<1>2. Distance(a.age, b.age) = Distance(b.age, a.age)
  BY <1>1 DEF Distance
<1> QED  BY <1>2 DEF Pairs

\* What is compared of a row as it was read.
LEMMA ReferenceFacts ==
    ASSUME NEW n \in Note, NEW form, NEW turn
    PROVE  LET r == [n EXCEPT !.form = form, !.turn = turn]
           IN  r.age = n.age /\ r.form = form /\ r.turn = turn
BY DEF Note

\* Hooks are of one kind with their call.
LEMMA HooksOfCall ==
    ASSUME TypeOK, NEW c \in Call
    PROVE  /\ tale[c].plan \in BOOLEAN
           /\ \A h \in Hook : h \in Hooks(c) <=> CallOf[h] = c /\ (FormOf[h] = "plan" <=> tale[c].plan)
<1>1. tale[c].plan \in BOOLEAN
  BY ApprovalAssumption DEF TypeOK, Tale
<1> QED  BY <1>1 DEF Hooks

\* A prompt of its own is of the call that waits.
LEMMA PromptOfWaiting ==
    ASSUME TypeOK, Times, Undisturbed, NEW g \in Hook, Prompt(g),
           NEW c \in Call, phase[c] = "waiting"
    PROVE  CallOf[g] = c /\ ~tale[c].plan
<1>1. FormOf[g] = "prompt" /\ CallOf[g] \in Call
  BY ApprovalAssumption DEF Times, PromptsTellNoCall
<1>2. g \in handled /\ phase[CallOf[g]] # "idle" /\ g \in Hooks(CallOf[g])
  BY DEF Undisturbed, HandledAreTold, Prompt
<1>3. ~tale[CallOf[g]].plan
  BY <1>1, <1>2, HooksOfCall
<1>4. PICK r \in Hook : CallOf[r] = CallOf[g] /\ FormOf[r] = "request"
  BY <1>1, ApprovalAssumption
<1>5. r \in Hooks(CallOf[g]) /\ r \notin handled
  BY <1>1, <1>3, <1>4, HooksOfCall DEF Undisturbed, PromptsAreEarly
<1>6. phase[CallOf[g]] = "waiting"
  <2>1. phase[CallOf[g]] \in {"idle", "waiting", "over"}
    BY <1>1 DEF TypeOK
  <2> QED  BY <1>1, <1>2, <1>5, <2>1 DEF Undisturbed, OneAtATime
<1> QED  BY <1>1, <1>3, <1>6 DEF Undisturbed, OneAtATime

\* What is kept where notifications change their status or grow older together.
LEMMA RowsKeep ==
    ASSUME IInv, IInv', Undisturbed, tale' = tale,
           \A h \in Hook : /\ h \in Stored' <=> h \in Stored
                           /\ note'[h].form = note[h].form /\ note'[h].detail = note[h].detail
                           /\ note'[h].turn = note[h].turn,
           \A g, h \in Stored :
              Distance(note'[g].age, note'[h].age) = Distance(note[g].age, note[h].age),
           \A c \in Call : phase'[c] = "idle" <=> phase[c] = "idle",
           \A c \in Call : phase'[c] = "waiting" => phase[c] = "waiting",
           handled' \intersect Hook = handled \intersect Hook,
           settled \subseteq settled'
    PROVE  /\ HandledAreTold' /\ PromptsAreEarly' /\ PromptsAreAlone'
           /\ confirming' \subseteq confirming => ReadsAreRight'
<1>1. /\ HandledAreTold /\ PromptsAreEarly /\ PromptsAreAlone /\ ReadsAreRight
      /\ Stored \subseteq Hook /\ \A h \in Hook : CallOf[h] \in Call
  BY ApprovalAssumption DEF Undisturbed, Stored
<1>2. /\ \A h \in Hook : (Prompt(h)' <=> Prompt(h)) /\ (Request(h)' <=> Request(h))
      /\ \A h \in Hook : Host(h)' = Host(h)
      /\ \A c \in Call : Hooks(c)' = Hooks(c)
  BY DEF Prompt, Request, Host, Hooks
<1>3. \A g, h \in Stored : Pairs(note'[g], note'[h]) <=> Pairs(note[g], note[h])
  BY DEF Pairs, Stored
<1>4. HandledAreTold'
  <2>1. Stored' \subseteq handled'
    BY <1>1 DEF HandledAreTold, Stored
  <2>2. \A h \in handled' \intersect Hook : phase'[CallOf[h]] # "idle" /\ h \in Hooks(CallOf[h])'
    BY <1>1, <1>2 DEF HandledAreTold
  <2>3. \A h \in Stored' : note'[h].form # "prompt" =>
           Asks(note'[h].detail) \intersect handled' # {}
    <3> SUFFICES ASSUME NEW h \in Stored', note'[h].form # "prompt"
                 PROVE  Asks(note'[h].detail) \intersect handled' # {}
      OBVIOUS
    <3>1. h \in Stored /\ note[h].form # "prompt" /\ note'[h].detail = note[h].detail
      BY DEF Stored
    <3>2. PICK r \in Asks(note[h].detail) : r \in handled
      BY <1>1, <3>1 DEF HandledAreTold
    <3>3. r \in handled'
      BY <3>2 DEF Asks
    <3> QED  BY <3>1, <3>2, <3>3
  <2>4. \A r \in handled' \intersect Hook : FormOf[r] = "request" =>
           \E h \in Hook : Request(h)' /\ note'[h].detail = CallOf[r] /\ Host(h)' = Host(r)'
    BY <1>1, <1>2 DEF HandledAreTold
  <2> QED  BY <2>1, <2>2, <2>3, <2>4 DEF HandledAreTold
<1>5. PromptsAreEarly'
  BY <1>1, <1>2 DEF PromptsAreEarly
<1>6. PromptsAreAlone'
  BY <1>1, <1>2, <1>3 DEF PromptsAreAlone, Prompt, Request
<1>7. ASSUME confirming' \subseteq confirming  PROVE ReadsAreRight'
  <2> SUFFICES ASSUME NEW read \in confirming'
               PROVE  ReadsAreRight!(read)'
    BY DEF ReadsAreRight
  <2>1. read \in confirming /\ read[1] \in Stored
    BY <1>7 DEF IInv, TypeOK
  <2>2. NoPromptComes => NoPromptComes'
    BY <1>1, <1>2 DEF NoPromptComes
  <2>3. ASSUME read[2] = "request", NEW g \in Hook, Prompt(g)', Host(g)' = Host(read[1])'
        PROVE  ~Pairs(note'[g], Reference(read)')
    <3>1. Prompt(g) /\ Host(g) = Host(read[1]) /\ g \in Stored /\ read[1] \in Hook
      BY <1>1, <1>2, <2>1, <2>3 DEF Prompt
    <3>2. ~Pairs(note[g], Reference(read))
      BY <1>1, <2>1, <2>3, <3>1 DEF ReadsAreRight
    <3>3. note[read[1]] \in Note /\ note'[read[1]] \in Note
      BY <3>1 DEF IInv, TypeOK
    <3>4. /\ Reference(read).age = note[read[1]].age
          /\ Reference(read).form = read[2] /\ Reference(read).turn = read[3]
          /\ Reference(read)'.age = note'[read[1]].age
          /\ Reference(read)'.form = read[2] /\ Reference(read)'.turn = read[3]
      BY <3>3, ReferenceFacts DEF Reference
    <3>5. Distance(note'[g].age, note'[read[1]].age) = Distance(note[g].age, note[read[1]].age)
      BY <2>1, <3>1
    <3> QED  BY <3>1, <3>2, <3>4, <3>5 DEF Pairs
  <2>4. read[2] = "prompt" => /\ CallOf[read[1]] \in settled'
                              /\ \A c \in Call : phase'[c] = "waiting" => c = CallOf[read[1]]
    BY <1>1, <2>1 DEF ReadsAreRight
  <2>5. read[2] = "request" => /\ Request(read[1])'
                               /\ note'[read[1]].turn = read[3] \/ NoPromptComes'
    BY <1>1, <1>2, <2>1, <2>2 DEF ReadsAreRight
  <2> QED  BY <2>3, <2>4, <2>5
<1> QED  BY <1>4, <1>5, <1>6, <1>7

\* Closing changes the status of rows, and nothing else.
OnlyClosed(hs, as) ==
    \A h \in Hook :
       /\ h \in Stored' <=> h \in Stored
       /\ note'[h].status = IF h \in hs THEN as ELSE note[h].status
       /\ note'[h].form = note[h].form /\ note'[h].detail = note[h].detail
       /\ note'[h].turn = note[h].turn /\ note'[h].age = note[h].age
       /\ h \notin hs => note'[h] = note[h]

LEMMA ClosedRows ==
    ASSUME IInv, NEW hs \in SUBSET Stored, NEW as \in {"acknowledged", "expired"}, Close(hs, as)
    PROVE  OnlyClosed(hs, as)
<1> SUFFICES ASSUME NEW h \in Hook
             PROVE  /\ h \in Stored' <=> h \in Stored
                    /\ note'[h].status = IF h \in hs THEN as ELSE note[h].status
                    /\ note'[h].form = note[h].form /\ note'[h].detail = note[h].detail
                    /\ note'[h].turn = note[h].turn /\ note'[h].age = note[h].age
                    /\ h \notin hs => note'[h] = note[h]
  BY DEF OnlyClosed
<1>1. note[h] \in Note
  BY DEF IInv, TypeOK
<1>2. note'[h] = IF h \in hs THEN [note[h] EXCEPT !.status = as] ELSE note[h]
  BY DEF Close
<1> QED  BY <1>1, <1>2 DEF Note, Stored

\* An operation that closes keeps a waiting call shown, unless what it closes
\* counts as settled.
LEMMA ClosingShows ==
    ASSUME ShownInv, IInv', NEW hs \in SUBSET Stored, NEW as \in {"acknowledged", "expired"},
           Close(hs, as), UNCHANGED <<tale, phase>>,
           as = "expired" => \A h \in hs : note[h].age >= TTL,
           orderly' => /\ orderly /\ settled \subseteq settled'
                       /\ handled' \intersect Hook = handled \intersect Hook
                       /\ handled \subseteq handled'
                       /\ \A h \in hs, c \in Call :
                             /\ phase[c] = "waiting"
                             /\ note[h].detail = c \/ (Prompt(h) /\ CallOf[h] = c)
                             => c \in settled'
                       /\ confirming' \subseteq confirming \/ ReadsAreRight'
    PROVE  ShownInv'
<1>0. IInv
  BY DEF ShownInv
<1>1. \A h \in Hook :
         /\ h \in Stored' <=> h \in Stored
         /\ note'[h].status = IF h \in hs THEN as ELSE note[h].status
         /\ note'[h].form = note[h].form /\ note'[h].detail = note[h].detail
         /\ note'[h].turn = note[h].turn /\ note'[h].age = note[h].age
         /\ h \notin hs => note'[h] = note[h]
  <2>1. OnlyClosed(hs, as)
    BY <1>0, ClosedRows
  <2> QED  BY <2>1 DEF OnlyClosed
<1>2. Stored \subseteq Hook /\ Stored' \subseteq Hook /\ Times /\ IInv
  BY DEF Stored, ShownInv
<1>3. Times'
  <2>1. OwnTimes'
    <3> SUFFICES ASSUME NEW g \in Stored', NEW h \in Stored', note'[g].age = note'[h].age
                 PROVE  g = h
      BY DEF OwnTimes
    <3>1. g \in Stored /\ h \in Stored /\ note[g].age = note[h].age
      BY <1>1, <1>2
    <3> QED  BY <1>2, <3>1 DEF Times, OwnTimes
  <2>2. ExpiredAreOld'
    BY <1>1, <1>2 DEF Times, ExpiredAreOld
  <2>3. PromptsTellNoCall'
    BY <1>1, <1>2 DEF Times, PromptsTellNoCall, Prompt
  <2> QED  BY <2>1, <2>2, <2>3 DEF Times
<1>4. ASSUME orderly'  PROVE Undisturbed'
  <2>1. /\ orderly /\ settled \subseteq settled' /\ handled \subseteq handled'
        /\ handled' \intersect Hook = handled \intersect Hook
        /\ \A h \in hs, c \in Call :
              /\ phase[c] = "waiting"
              /\ note[h].detail = c \/ (Prompt(h) /\ CallOf[h] = c)
              => c \in settled'
        /\ confirming' \subseteq confirming \/ ReadsAreRight'
        /\ Undisturbed
    BY <1>4 DEF ShownInv
  <2>2. \A g, h \in Stored :
           Distance(note'[g].age, note'[h].age) = Distance(note[g].age, note[h].age)
    BY <1>1, <1>2
  <2>3. /\ HandledAreTold' /\ PromptsAreEarly' /\ PromptsAreAlone'
        /\ confirming' \subseteq confirming => ReadsAreRight'
    BY <1>1, <1>2, <2>1, <2>2, RowsKeep
  <2>4. OneAtATime'
    BY <2>1 DEF Undisturbed, OneAtATime, Hooks
  <2>5. PromptsAreShown'
    <3> SUFFICES ASSUME NEW g \in Hook, Prompt(g)', phase[CallOf[g]] = "waiting",
                        CallOf[g] \notin settled'
                 PROVE  Active(g)'
      BY DEF PromptsAreShown
    <3>1. Prompt(g) /\ CallOf[g] \in Call
      BY <1>1, ApprovalAssumption DEF Prompt
    <3>2. Active(g) /\ g \notin hs
      BY <2>1, <3>1 DEF Undisturbed, PromptsAreShown
    <3> QED  BY <1>1, <3>2 DEF Active
  <2>6. RequestsAreShown'
    <3> SUFFICES ASSUME NEW c \in Call, phase[c] = "waiting", c \notin settled',
                        Asks(c) \intersect handled' # {}
                 PROVE  \E h \in Hook : Active(h)' /\ note'[h].detail = c
      BY DEF RequestsAreShown
    <3>1. Asks(c) \intersect handled # {}
      BY <2>1 DEF Asks
    <3>2. PICK h \in Hook : Active(h) /\ note[h].detail = c
      BY <2>1, <3>1 DEF Undisturbed, RequestsAreShown
    <3>3. h \notin hs
      BY <2>1, <3>2
    <3> QED  BY <1>1, <3>2, <3>3 DEF Active
  <2> QED  BY <2>1, <2>3, <2>4, <2>5, <2>6 DEF Undisturbed
<1> QED  BY <1>3, <1>4 DEF ShownInv

\* The ends of tools and turns are in order while nobody waits.
LEMMA ToolEndedShows ==
    ASSUME ShownInv, NEW c \in Call, ToolEnded(c)
    PROVE  ShownInv'
<1>1. /\ Close(Matched(c), "acknowledged")
      /\ Remember(c \notin handled /\ ~Someone(Call), {c}, {})
      /\ UNCHANGED <<tale, phase, confirming>>
  BY DEF ToolEnded, session
<1>2. Matched(c) \in SUBSET Stored
  BY MatchedActive DEF Candidates, Resolvable, Active, Stored
<1>3. IInv'
  BY ToolEndedStep DEF ShownInv
<1>4. orderly' => /\ orderly /\ settled \subseteq settled'
                  /\ handled' \intersect Hook = handled \intersect Hook
                  /\ handled \subseteq handled'
                  /\ \A b \in Call : phase[b] # "waiting"
  <2> SUFFICES ASSUME orderly'
               PROVE  /\ orderly /\ settled \subseteq settled'
                      /\ handled' \intersect Hook = handled \intersect Hook
                      /\ handled \subseteq handled'
                      /\ \A b \in Call : phase[b] # "waiting"
    OBVIOUS
  <2>1. orderly /\ ~Someone(Call) /\ handled' = handled \union {c} /\ settled' = settled \union {}
    BY <1>1 DEF Remember
  <2>2. c \notin Hook
    BY ApprovalAssumption
  <2> QED  BY <2>1, <2>2 DEF Someone
<1> QED  BY <1>1, <1>2, <1>3, <1>4, ClosingShows

LEMMA TurnEndedShows ==
    ASSUME ShownInv, NEW d \in Device, TurnEnded(d)
    PROVE  ShownInv'
<1>1. /\ Close(Pending(d), "acknowledged")
      /\ Remember(~Someone(Call), {}, {})
      /\ UNCHANGED <<tale, phase, confirming>>
  BY DEF TurnEnded, session
<1>2. Pending(d) \in SUBSET Stored
  BY DEF Pending, Active, Stored
<1>3. IInv'
  BY TurnEndedStep DEF ShownInv
<1>4. orderly' => /\ orderly /\ settled \subseteq settled'
                  /\ handled' \intersect Hook = handled \intersect Hook
                  /\ handled \subseteq handled'
                  /\ \A b \in Call : phase[b] # "waiting"
  BY <1>1 DEF Someone, Remember
<1> QED  BY <1>1, <1>2, <1>3, <1>4, ClosingShows

\* What expires, and what the start of the server closes, counts as settled.
LEMMA ExpireShows ==
    ASSUME ShownInv, Expire
    PROVE  ShownInv'
<1> DEFINE cs == UNION {Tells(h) : h \in Due}
<1>1. Close(Due, "expired") /\ Remember(TRUE, {}, cs) /\ UNCHANGED <<tale, phase, confirming>>
  BY DEF Expire, session
<1>2. Due \in SUBSET Stored /\ \A h \in Due : note[h].age >= TTL
  BY DEF Due, Active, Stored
<1>3. IInv'
  BY ExpireStep DEF ShownInv
<1>4. ASSUME NEW h \in Due, NEW c \in Call, note[h].detail = c \/ CallOf[h] = c
      PROVE  c \in cs
  BY <1>4, ApprovalAssumption DEF Tells
<1> HIDE DEF cs
<1>5. orderly' => orderly /\ handled' = handled /\ settled' = settled \union cs
  BY <1>1 DEF Remember
<1> QED  BY <1>1, <1>2, <1>3, <1>4, <1>5, ClosingShows

LEMMA StartShows ==
    ASSUME ShownInv, Start
    PROVE  ShownInv'
<1> DEFINE cs == UNION {Tells(h) : h \in Waiting}
<1>1. /\ Close(Waiting, "acknowledged") /\ Remember(TRUE, {}, cs)
      /\ UNCHANGED <<tale, phase>> /\ confirming' = {}
  BY DEF Start, session
<1>2. Waiting \in SUBSET Stored
  BY DEF Waiting, Active, Stored
<1>3. IInv'
  BY StartStep DEF ShownInv
<1>4. ASSUME NEW h \in Waiting, NEW c \in Call, note[h].detail = c \/ CallOf[h] = c
      PROVE  c \in cs
  BY <1>4, ApprovalAssumption DEF Tells
<1> HIDE DEF cs
<1>5. orderly' => orderly /\ handled' = handled /\ settled' = settled \union cs
  BY <1>1 DEF Remember
<1> QED  BY <1>1, <1>2, <1>3, <1>4, <1>5, ClosingShows

\* While nothing is out of order, an approval has no sibling.
LEMMA NoSiblings ==
    ASSUME IInv, Undisturbed, NEW h \in Stored
    PROVE  Siblings(h, note[h].form, note[h].turn) = {}
<1> SUFFICES ASSUME NEW g \in Siblings(h, note[h].form, note[h].turn)
             PROVE  FALSE
  OBVIOUS
<1> DEFINE reference == [note[h] EXCEPT !.form = note[h].form, !.turn = note[h].turn]
<1>1. /\ g \in Stored /\ Host(g) = Host(h) /\ g \in Hook /\ h \in Hook
      /\ Pairs(note[g], reference)
  BY SiblingsFacts DEF Stored
<1>2. note[g] \in Note /\ note[h] \in Note
  BY <1>1 DEF IInv, TypeOK
<1>3. reference.age = note[h].age /\ reference.form = note[h].form /\ reference.turn = note[h].turn
  BY <1>2, ReferenceFacts
<1> HIDE DEF reference
<1>4. Pairs(note[g], note[h]) /\ Pairs(note[h], note[g])
  <2>1. Pairs(note[g], note[h])
    BY <1>1, <1>3 DEF Pairs
  <2> QED  BY <1>2, <2>1, PairsAreMutual
<1>5. \/ note[g].form = "prompt" /\ note[h].form = "request"
      \/ note[h].form = "prompt" /\ note[g].form = "request"
  BY <1>4 DEF Pairs
<1> QED  BY <1>1, <1>4, <1>5 DEF Undisturbed, PromptsAreAlone, Prompt, Request

LEMMA AcknowledgeShows ==
    ASSUME ShownInv, NEW d \in Device, NEW h \in Hook, Acknowledge(d, h)
    PROVE  ShownInv'
<1>1. /\ confirming = {} /\ h \in Stored
      /\ Remember(TRUE, {}, Tells(h))
      /\ UNCHANGED <<tale, phase>>
  BY DEF Acknowledge, session
<1>2. IInv /\ IInv'
  BY AcknowledgeStep DEF ShownInv
<1>3. ASSUME orderly'
      PROVE  /\ orderly /\ handled' = handled /\ settled' = settled \union Tells(h)
             /\ Undisturbed
  BY <1>1, <1>3 DEF Remember, ShownInv
<1>4. CASE note[h].status = "acknowledged"
  <2>1. Close(Siblings(h, note[h].form, note[h].turn), "acknowledged") /\ UNCHANGED confirming
    BY <1>4 DEF Acknowledge
  <2>2. Siblings(h, note[h].form, note[h].turn) \in SUBSET Stored
    BY SiblingsFacts
  <2>3. orderly' => Siblings(h, note[h].form, note[h].turn) = {}
    BY <1>1, <1>2, <1>3, NoSiblings
  <2> QED  BY <1>1, <1>2, <1>3, <2>1, <2>2, <2>3, ClosingShows
<1>5. CASE note[h].status # "acknowledged"
  <2>0. PICK read : read = <<h, note[h].form, note[h].turn>>
    OBVIOUS
  <2>1. Close({h}, "acknowledged") /\ confirming' = {read}
    BY <1>5, <2>0 DEF Acknowledge
  <2>2. {h} \in SUBSET Stored
    BY <1>1
  <2>3. ASSUME NEW c \in Call, note[h].detail = c \/ CallOf[h] = c
        PROVE  c \in Tells(h)
    BY <2>3, ApprovalAssumption DEF Tells
  <2>4. ASSUME orderly'  PROVE ReadsAreRight'
    <3>1. /\ orderly /\ settled' = settled \union Tells(h) /\ Undisturbed /\ Times
      BY <1>3, <2>4 DEF ShownInv
    <3>2. \A g \in Hook :
             /\ g \in Stored' <=> g \in Stored
             /\ note'[g].form = note[g].form /\ note'[g].detail = note[g].detail
             /\ note'[g].turn = note[g].turn /\ note'[g].age = note[g].age
      <4>1. OnlyClosed({h}, "acknowledged")
        BY <1>2, <2>1, <2>2, ClosedRows
      <4> QED  BY <4>1 DEF OnlyClosed
    <3>3. CallOf[h] \in Call /\ CallOf[h] \in settled'
      BY <2>3, <3>1, ApprovalAssumption
    <3>4. note[h].form = "prompt" =>
             \A c \in Call : phase'[c] = "waiting" => c = CallOf[h]
      BY <1>1, <1>2, <3>1, PromptOfWaiting DEF IInv, Prompt
    <3>5. note[h].form = "request" => Request(h)' /\ note'[h].turn = note[h].turn
      BY <1>1, <3>2 DEF Request
    <3>6. ASSUME note[h].form = "request", NEW g \in Hook, Prompt(g)', Host(g)' = Host(h)'
          PROVE  ~Pairs(note'[g], Reference(read)')
      <4>1. Prompt(g) /\ Request(h) /\ Host(g) = Host(h)
        BY <1>1, <3>2, <3>6 DEF Prompt, Request, Host
      <4>2. ~Pairs(note[g], note[h])
        BY <3>1, <4>1 DEF Undisturbed, PromptsAreAlone
      <4>3. note'[h] \in Note
        BY <1>2 DEF IInv, TypeOK
      <4>4. /\ Reference(read)'.age = note'[h].age
            /\ Reference(read)'.form = note[h].form /\ Reference(read)'.turn = note[h].turn
        BY <2>0, <4>3, ReferenceFacts DEF Reference
      <4> QED  BY <3>2, <4>2, <4>4 DEF Pairs
    <3>7. read[1] = h /\ read[2] = note[h].form /\ read[3] = note[h].turn
      BY <2>0
    <3> QED  BY <2>1, <3>3, <3>4, <3>5, <3>6, <3>7 DEF ReadsAreRight
  <2> QED  BY <1>1, <1>2, <1>3, <2>1, <2>2, <2>3, <2>4, ClosingShows
<1> QED  BY <1>4, <1>5

\* A prompt that a stale row pairs with is of no waiting call, and a request
\* that does is of the call that was confirmed.
LEMMA AcknowledgeSiblingShows ==
    ASSUME ShownInv, AcknowledgeSibling
    PROVE  ShownInv'
<1>1. PICK read \in confirming :
         /\ Close(Siblings(read[1], read[2], read[3]), "acknowledged")
         /\ confirming' = {}
         /\ UNCHANGED <<tale, phase, orderly, handled, settled>>
  BY DEF AcknowledgeSibling, session, history
<1>2. IInv /\ IInv'
  BY AcknowledgeSiblingStep DEF ShownInv
<1> DEFINE hs == Siblings(read[1], read[2], read[3])
<1>3. /\ hs \in SUBSET Stored
      /\ \A g \in hs : Host(g) = Host(read[1]) /\ Pairs(note[g], Reference(read))
  BY SiblingsFacts DEF Reference
<1> HIDE DEF hs
<1>4. ASSUME orderly, NEW g \in hs, NEW c \in Call, phase[c] = "waiting",
             note[g].detail = c \/ (Prompt(g) /\ CallOf[g] = c)
      PROVE  c \in settled
  <2>1. Undisturbed /\ Times
    BY <1>4 DEF ShownInv
  <2>2. read[1] \in Hook /\ note[read[1]] \in Note /\ g \in Hook /\ g \in Stored
    BY <1>2, <1>3 DEF IInv, TypeOK, Stored
  <2>3. Reference(read).form = read[2]
    BY <2>2, ReferenceFacts DEF Reference
  <2>4. \/ note[g].form = "prompt" /\ read[2] = "request"
        \/ note[g].form = "request" /\ read[2] = "prompt"
    BY <1>3, <2>3 DEF Pairs
  <2>5. CASE note[g].form = "prompt" /\ read[2] = "request"
    BY <1>3, <2>1, <2>2, <2>5 DEF Undisturbed, ReadsAreRight, Prompt
  <2>6. CASE note[g].form = "request" /\ read[2] = "prompt"
    BY <1>4, <2>1, <2>6 DEF Undisturbed, ReadsAreRight
  <2> QED  BY <2>4, <2>5, <2>6
<1>5. Close(hs, "acknowledged")
  BY <1>1 DEF hs
<1> QED  BY <1>1, <1>2, <1>3, <1>4, <1>5, ClosingShows

\* Where no notification changes but in its age, what was shown still is.
LEMMA StillShown ==
    ASSUME IInv, IInv', Undisturbed, OneAtATime', tale' = tale,
           \A h \in Hook : /\ h \in Stored' <=> h \in Stored
                           /\ note'[h].status = note[h].status
                           /\ note'[h].form = note[h].form /\ note'[h].detail = note[h].detail
                           /\ note'[h].turn = note[h].turn,
           \A g, h \in Stored :
              Distance(note'[g].age, note'[h].age) = Distance(note[g].age, note[h].age),
           \A c \in Call : phase'[c] = "idle" <=> phase[c] = "idle",
           \A c \in Call : phase'[c] = "waiting" => phase[c] = "waiting",
           UNCHANGED <<handled, settled, confirming>>
    PROVE  Undisturbed'
<1>1. HandledAreTold' /\ PromptsAreEarly' /\ PromptsAreAlone' /\ ReadsAreRight'
  BY RowsKeep
<1>2. \A h \in Hook : (Active(h)' <=> Active(h)) /\ (Prompt(h)' <=> Prompt(h)) /\ CallOf[h] \in Call
  BY ApprovalAssumption DEF Active, Prompt
<1>3. PromptsAreShown'
  BY <1>2 DEF Undisturbed, PromptsAreShown
<1>4. RequestsAreShown'
  <2> SUFFICES ASSUME NEW c \in Call, phase'[c] = "waiting", c \notin settled,
                      Asks(c) \intersect handled # {}
               PROVE  \E h \in Hook : Active(h)' /\ note'[h].detail = c
    BY DEF RequestsAreShown
  <2>1. PICK h \in Hook : Active(h) /\ note[h].detail = c
    BY DEF Undisturbed, RequestsAreShown
  <2> QED  BY <1>2, <2>1
<1> QED  BY <1>1, <1>3, <1>4 DEF Undisturbed

LEMMA TickShows ==
    ASSUME ShownInv, Tick
    PROVE  ShownInv'
<1>1. /\ IInv /\ IInv' /\ Times /\ note \in [Hook -> Note] /\ Stored \subseteq Hook
      /\ UNCHANGED <<tale, phase, confirming, orderly, handled, settled>>
  BY TickStep DEF ShownInv, IInv, TypeOK, Tick, session, history, Stored
<1>2. \A h \in Hook :
         /\ h \in Stored' <=> h \in Stored
         /\ note'[h].status = note[h].status
         /\ note'[h].form = note[h].form /\ note'[h].detail = note[h].detail
         /\ note'[h].turn = note[h].turn
         /\ note[h].age \in Nat
         /\ note'[h].age = IF h \in Stored THEN note[h].age + 1 ELSE note[h].age
  <2> SUFFICES ASSUME NEW h \in Hook
               PROVE  /\ h \in Stored' <=> h \in Stored
                      /\ note'[h].status = note[h].status
                      /\ note'[h].form = note[h].form /\ note'[h].detail = note[h].detail
                      /\ note'[h].turn = note[h].turn
                      /\ note[h].age \in Nat
                      /\ note'[h].age = IF h \in Stored THEN note[h].age + 1 ELSE note[h].age
    OBVIOUS
  <2>1. note[h] \in Note /\ note[h].age \in Nat
    BY <1>1, ApprovalAssumption DEF Note
  <2>2. note'[h] = IF h \in Stored THEN [note[h] EXCEPT !.age = note[h].age + 1] ELSE note[h]
    BY DEF Tick
  <2>3. /\ note'[h].status = note[h].status
        /\ note'[h].form = note[h].form /\ note'[h].detail = note[h].detail
        /\ note'[h].turn = note[h].turn
        /\ note'[h].age = IF h \in Stored THEN note[h].age + 1 ELSE note[h].age
    BY <2>1, <2>2 DEF Note
  <2> QED  BY <2>1, <2>3 DEF Stored
<1>3. Times'
  <2>1. OwnTimes'
    <3> SUFFICES ASSUME NEW g \in Stored', NEW h \in Stored', note'[g].age = note'[h].age
                 PROVE  g = h
      BY DEF OwnTimes
    <3>1. g \in Hook /\ h \in Hook
      BY DEF Stored
    <3>2. g \in Stored /\ h \in Stored /\ note[g].age = note[h].age
      BY <1>2, <3>1
    <3> QED  BY <1>1, <3>2 DEF Times, OwnTimes
  <2>2. ExpiredAreOld'
    <3> SUFFICES ASSUME NEW h \in Stored', note'[h].status = "expired"
                 PROVE  note'[h].age >= TTL
      BY DEF ExpiredAreOld
    <3>1. h \in Hook /\ TTL \in Nat
      BY ApprovalAssumption DEF Stored
    <3>2. h \in Stored /\ note[h].age >= TTL /\ note[h].age \in Nat /\ note'[h].age = note[h].age + 1
      BY <1>1, <1>2, <3>1 DEF Times, ExpiredAreOld
    <3> QED  BY <3>1, <3>2
  <2>3. PromptsTellNoCall'
    BY <1>1, <1>2 DEF Times, PromptsTellNoCall, Prompt
  <2> QED  BY <2>1, <2>2, <2>3 DEF Times
<1>4. \A g, h \in Stored :
         Distance(note'[g].age, note'[h].age) = Distance(note[g].age, note[h].age)
  BY <1>1, <1>2 DEF Distance
<1>5. ASSUME orderly  PROVE Undisturbed'
  <2>1. Undisturbed
    BY <1>5 DEF ShownInv
  <2>2. OneAtATime'
    BY <1>1, <2>1 DEF Undisturbed, OneAtATime, Hooks
  <2> QED  BY <1>1, <1>2, <1>4, <2>1, <2>2, StillShown
<1> QED  BY <1>1, <1>3, <1>5 DEF ShownInv

\* A call that is answered waits no more.
LEMMA AnsweredShows ==
    ASSUME ShownInv, NEW c \in Call, AnsweredAtComputer(c)
    PROVE  ShownInv'
<1>1. /\ phase[c] = "waiting" /\ phase' = [phase EXCEPT ![c] = "over"]
      /\ UNCHANGED <<tale, note, confirming, orderly, handled, settled>>
  BY DEF AnsweredAtComputer, history
<1>2. IInv /\ phase \in [Call -> {"idle", "waiting", "over"}]
  BY DEF ShownInv, IInv, TypeOK
<1>3. IInv'
  <2>1. Next
    BY DEF Next
  <2> QED  BY <1>2, <2>1, NextInv
<1>4. \A b \in Call : phase'[b] = IF b = c THEN "over" ELSE phase[b]
  BY <1>1, <1>2
<1>5. Times'
  BY <1>1 DEF ShownInv, Times, OwnTimes, ExpiredAreOld, PromptsTellNoCall, Prompt, Stored
<1>6. ASSUME orderly  PROVE Undisturbed'
  <2>1. Undisturbed
    BY <1>6 DEF ShownInv
  <2>2. OneAtATime'
    BY <1>1, <1>4, <2>1 DEF Undisturbed, OneAtATime, Hooks
  <2>3. \A h \in Hook : h \in Stored' <=> h \in Stored
    BY <1>1 DEF Stored
  <2> QED  BY <1>1, <1>2, <1>3, <1>4, <2>1, <2>2, <2>3, StillShown
<1> QED  BY <1>1, <1>3, <1>5, <1>6 DEF ShownInv

\* A call that begins while nothing is left of the earlier ones.
LEMMA NeedPermissionShows ==
    ASSUME ShownInv, NEW c \in Call, NeedPermission(c)
    PROVE  ShownInv'
<1> DEFINE inOrder == \A b \in Call : phase[b] # "idle" =>
                         phase[b] = "over" /\ Hooks(b) \subseteq handled /\ confirming = {}
<1>1. /\ phase[c] = "idle" /\ phase' = [phase EXCEPT ![c] = "waiting"]
      /\ Remember(inOrder, {}, {})
      /\ UNCHANGED <<tale, note, confirming>>
  BY DEF NeedPermission
<1>2. IInv /\ phase \in [Call -> {"idle", "waiting", "over"}]
  BY DEF ShownInv, IInv, TypeOK
<1>3. IInv'
  <2>1. Next
    BY DEF Next
  <2> QED  BY <1>2, <2>1, NextInv
<1>4. \A b \in Call : phase'[b] = IF b = c THEN "waiting" ELSE phase[b]
  BY <1>1, <1>2
<1>5. Times'
  BY <1>1 DEF ShownInv, Times, OwnTimes, ExpiredAreOld, PromptsTellNoCall, Prompt, Stored
<1>6. ASSUME orderly'  PROVE Undisturbed'
  <2>1. /\ inOrder /\ orderly
        /\ handled' = handled \union {} /\ settled' = settled \union {}
    BY <1>1, <1>6 DEF Remember
  <2>2. Undisturbed /\ handled' = handled /\ settled' = settled
    BY <2>1 DEF ShownInv
  <2>3. \A h \in handled \intersect Hook : CallOf[h] # c /\ CallOf[h] \in Call
    BY <1>1, <2>2, ApprovalAssumption DEF Undisturbed, HandledAreTold
  <2>4. \A b \in Call : phase'[b] = "waiting" => b = c
    BY <1>4, <2>1
  <2>5. confirming = {}
    <3> SUFFICES ASSUME confirming # {} PROVE FALSE
      OBVIOUS
    <3>1. PICK read \in confirming : read[1] \in Stored
      BY <1>2 DEF IInv, TypeOK
    <3>2. read[1] \in handled \intersect Hook
      BY <2>2, <3>1 DEF Undisturbed, HandledAreTold, Stored
    <3>3. CallOf[read[1]] \in Call /\ phase[CallOf[read[1]]] # "idle"
      BY <2>2, <2>3, <3>2 DEF Undisturbed, HandledAreTold
    <3> QED  BY <2>1, <3>3
  <2>6. OneAtATime'
    BY <1>1, <1>4, <2>1, <2>2, <2>4 DEF OneAtATime, Hooks
  <2>7. /\ Stored' = Stored /\ Stored \subseteq Hook
        /\ \A h : (Prompt(h)' <=> Prompt(h)) /\ (Request(h)' <=> Request(h))
        /\ \A h : Host(h)' = Host(h)
        /\ \A b \in Call : Hooks(b)' = Hooks(b)
    BY <1>1 DEF Stored, Prompt, Request, Host, Hooks
  <2>8. HandledAreTold'
    <3>1. \A h \in handled \intersect Hook : phase'[CallOf[h]] # "idle" /\ h \in Hooks(CallOf[h])'
      BY <1>4, <2>2, <2>3, <2>7 DEF Undisturbed, HandledAreTold
    <3>2. \A r \in handled \intersect Hook : FormOf[r] = "request" =>
             \E h \in Hook : Request(h)' /\ note'[h].detail = CallOf[r] /\ Host(h)' = Host(r)'
      BY <1>1, <2>2, <2>7 DEF Undisturbed, HandledAreTold
    <3> QED  BY <1>1, <2>2, <2>7, <3>1, <3>2 DEF Undisturbed, HandledAreTold
  <2>9. PromptsAreEarly' /\ PromptsAreAlone'
    BY <1>1, <2>2, <2>7 DEF Undisturbed, PromptsAreEarly, PromptsAreAlone
  <2>10. PromptsAreShown'
    BY <2>2, <2>3, <2>4, <2>7, ApprovalAssumption
       DEF Undisturbed, HandledAreTold, PromptsAreShown, Prompt
  <2>11. RequestsAreShown'
    BY <2>2, <2>3, <2>4 DEF RequestsAreShown, Asks
  <2>12. ReadsAreRight'
    BY <1>1, <2>5 DEF ReadsAreRight
  <2> QED  BY <2>6, <2>8, <2>9, <2>10, <2>11, <2>12 DEF Undisturbed
<1> QED  BY <1>3, <1>5, <1>6 DEF ShownInv

-----------------------------------------------------------------------------
\* What a hook publishes is a merge with one that pairs, the row it made before,
\* or a row of its own.
LEMMA PublishedRow ==
    ASSUME IInv, NEW h \in Hook
    PROVE  \/ \E g \in Stored :
                 /\ note[g].status \in {"active", "acknowledged"} /\ Host(g) = Host(h)
                 /\ Pairs(note[g], Incoming(h))
                 /\ Published(h).row = g /\ Published(h).note = Merged(note[g], Incoming(h))
           \/ h \in Stored /\ Published(h).row = h /\ Published(h).note = note[h]
           \/ /\ h \notin Stored /\ Correlated(h) = {}
              /\ Published(h).row = h /\ Published(h).note = Incoming(h)
<1>1. CASE Correlated(h) # {}
  <2> DEFINE g == CHOOSE x \in Correlated(h) : TRUE
  <2>1. g \in Correlated(h)
    BY <1>1
  <2>2. Published(h) = MergesInto(g, h)
    BY <1>1 DEF Published
  <2> HIDE DEF g
  <2>3. /\ g \in Stored /\ note[g].status \in {"active", "acknowledged"}
        /\ Host(g) = Host(h) /\ Pairs(note[g], Incoming(h))
    BY <2>1 DEF Correlated, TheNearest
  <2> QED  BY <2>2, <2>3 DEF MergesInto
<1>2. CASE Correlated(h) = {} /\ h \in Stored
  <2>1. Published(h) = Repeats(h)
    BY <1>2 DEF Published, Stored
  <2> QED  BY <1>2, <2>1 DEF Repeats
<1>3. CASE Correlated(h) = {} /\ h \notin Stored
  <2>1. Published(h) = Inserts(h)
    BY <1>3 DEF Published, Stored
  <2> QED  BY <1>3, <2>1 DEF Inserts
<1> QED  BY <1>1, <1>2, <1>3

\* A notification the hook pairs with is found.
LEMMA OneIsFound ==
    ASSUME TypeOK, OwnTimes, NEW h \in Hook, NEW g \in Stored,
           note[g].status \in {"active", "acknowledged"}, Host(g) = Host(h),
           Pairs(note[g], Incoming(h))
    PROVE  Correlated(h) # {}
<1> DEFINE hs == {x \in Stored : /\ note[x].status \in {"active", "acknowledged"}
                                 /\ Host(x) = Host(h) /\ Pairs(note[x], Incoming(h))}
<1>1. hs \in SUBSET Stored /\ hs # {}
  OBVIOUS
<1>2. Correlated(h) = TheNearest(hs, 0)
  BY DEF Correlated
<1> HIDE DEF hs
<1> QED  BY <1>1, <1>2, SomeIsNewest

\* What publishing leaves of the rows.
Leaves(p, policy) ==
    /\ p.row \in Hook /\ p.note \in Note /\ p.note.status # "none"
    /\ \A x \in Hook : x # p.row => note'[x] = note[x]
    /\ note'[p.row].status = IF Silences(p, policy) THEN "acknowledged" ELSE p.note.status
    /\ note'[p.row].form = p.note.form /\ note'[p.row].detail = p.note.detail
    /\ note'[p.row].turn = p.note.turn /\ note'[p.row].age = p.note.age

LEMMA AskLeaves ==
    ASSUME IInv, NEW h \in Hook, NEW policy \in Policy, Ask(h, policy), policy # "off"
    PROVE  Leaves(Published(h), policy)
<1> DEFINE p == Published(h)
           n == IF Silences(p, policy) THEN [p.note EXCEPT !.status = "acknowledged"] ELSE p.note
<1>1. p.row \in Hook /\ p.note \in Note /\ p.note.status # "none"
  BY PublishedFacts
<1>2. note' = [note EXCEPT ![p.row] = n]
  BY DEF Ask, Publish
<1>3. note \in [Hook -> Note]
  BY DEF IInv, TypeOK
<1> HIDE DEF p
<1>4. /\ n.status = IF Silences(p, policy) THEN "acknowledged" ELSE p.note.status
      /\ n.form = p.note.form /\ n.detail = p.note.detail
      /\ n.turn = p.note.turn /\ n.age = p.note.age
  BY <1>1 DEF Note
<1> HIDE DEF n
<1>5. Leaves(p, policy)
  BY <1>1, <1>2, <1>3, <1>4 DEF Leaves
<1> QED  BY <1>5 DEF p

\* Times are kept by what leaves one row and confirms some others: the row's age
\* is its own, or it is new, and nothing else is.
LEMMA TimesKept ==
    ASSUME TypeOK, Times, tale' = tale, NEW g \in Hook,
           \A x \in Hook : x # g =>
              /\ x \in Stored' <=> x \in Stored
              /\ note'[x].status \in {note[x].status, "acknowledged"}
              /\ note'[x].form = note[x].form /\ note'[x].detail = note[x].detail
              /\ note'[x].turn = note[x].turn /\ note'[x].age = note[x].age,
           \/ /\ g \in Stored /\ note'[g].age = note[g].age
              /\ note'[g].status \in {note[g].status, "acknowledged"}
           \/ /\ g \notin Stored /\ note'[g].age = 0 /\ note'[g].status # "expired"
              /\ \A x \in Stored : note[x].age > 0,
           note'[g].form = "prompt" =>
              /\ FormOf[g] = "prompt" /\ note'[g].detail = NoCall
              /\ note'[g].turn = tale[CallOf[g]].asked
    PROVE  Times'
<1>1. /\ \A x \in Hook : note[x] \in Note /\ note[x].age \in Nat
      /\ Stored \subseteq Hook /\ Stored' \subseteq Hook
  <2>1. note \in [Hook -> Note] /\ \A n \in Note : n.age \in Nat
    BY ApprovalAssumption DEF TypeOK, Note
  <2> QED  BY <2>1 DEF Stored
<1>2. OwnTimes'
  <2> SUFFICES ASSUME NEW x \in Stored', NEW y \in Stored', note'[x].age = note'[y].age
               PROVE  x = y
    BY DEF OwnTimes
  <2>1. x \in Hook /\ y \in Hook
    BY <1>1
  <2>2. CASE g \in Stored
    <3>1. x \in Stored /\ y \in Stored /\ note[x].age = note[y].age
      BY <2>1, <2>2
    <3> QED  BY <3>1 DEF Times, OwnTimes
  <2>3. CASE g \notin Stored
    <3>1. \A z \in Stored' : z # g => z \in Stored /\ note'[z].age = note[z].age /\ note[z].age > 0
      BY <1>1, <2>3
    <3>2. note'[g].age = 0
      BY <2>3
    <3>3. CASE x = g \/ y = g
      <4>1. x # g => note'[x].age > 0
        BY <3>1
      <4>2. y # g => note'[y].age > 0
        BY <3>1
      <4> QED  BY <3>2, <3>3, <4>1, <4>2
    <3>4. CASE x # g /\ y # g
      <4>1. x \in Stored /\ y \in Stored /\ note[x].age = note[y].age
        BY <3>1, <3>4
      <4> QED  BY <4>1 DEF Times, OwnTimes
    <3> QED  BY <3>3, <3>4
  <2> QED  BY <2>2, <2>3
<1>3. ExpiredAreOld'
  <2> SUFFICES ASSUME NEW x \in Stored', note'[x].status = "expired"
               PROVE  note'[x].age >= TTL
    BY DEF ExpiredAreOld
  <2>1. x \in Stored /\ note[x].status = "expired" /\ note'[x].age = note[x].age
    BY <1>1
  <2> QED  BY <2>1 DEF Times, ExpiredAreOld
<1>4. PromptsTellNoCall'
  <2> SUFFICES ASSUME NEW x \in Hook, Prompt(x)'
               PROVE  /\ FormOf[x] = "prompt" /\ note'[x].detail = NoCall
                      /\ note'[x].turn = tale[CallOf[x]].asked
    BY DEF PromptsTellNoCall
  <2>1. CASE x = g
    BY <2>1 DEF Prompt
  <2>2. CASE x # g
    BY <2>2 DEF Prompt, Times, PromptsTellNoCall
  <2> QED  BY <2>1, <2>2
<1> QED  BY <1>2, <1>3, <1>4 DEF Times

LEMMA AskTimes ==
    ASSUME ShownInv, NEW h \in Hook, NEW policy \in Policy, Ask(h, policy)
    PROVE  Times'
<1>1. IInv /\ Times /\ TypeOK /\ tale' = tale
  BY DEF ShownInv, IInv, Ask, session
<1>2. CASE policy = "off"
  BY <1>1, <1>2 DEF Ask, Times, OwnTimes, ExpiredAreOld, PromptsTellNoCall, Prompt, Stored
<1>3. CASE policy # "off"
  <2> DEFINE p == Published(h)
             g == p.row
  <2>1. Leaves(p, policy) /\ AtItsOwnTime(p)
    BY <1>1, <1>3, AskLeaves DEF Ask
  <2>2. \/ \E f \in Stored :
              /\ note[f].status \in {"active", "acknowledged"}
              /\ p.row = f /\ p.note = Merged(note[f], Incoming(h))
        \/ h \in Stored /\ p.row = h /\ p.note = note[h]
        \/ h \notin Stored /\ p.row = h /\ p.note = Incoming(h)
    BY <1>1, PublishedRow
  <2> HIDE DEF p
  <2>3. /\ Incoming(h) \in Note /\ Incoming(h).status = "active" /\ Incoming(h).age = 0
        /\ Incoming(h).form = FormOf[h]
        /\ Incoming(h).detail = IF FormOf[h] = "prompt" THEN NoCall ELSE CallOf[h]
        /\ Incoming(h).turn = tale[CallOf[h]].asked
    <3>1. Incoming(h).age = 0 /\ Incoming(h).turn = tale[CallOf[h]].asked
      BY DEF Incoming
    <3> QED  BY <1>1, <3>1, IncomingFacts
  <2>4. /\ \A x \in Hook : x # g =>
              /\ x \in Stored' <=> x \in Stored
              /\ note'[x].status \in {note[x].status, "acknowledged"}
              /\ note'[x].form = note[x].form /\ note'[x].detail = note[x].detail
              /\ note'[x].turn = note[x].turn /\ note'[x].age = note[x].age
        /\ g \in Hook
    BY <2>1 DEF Leaves, Stored
  <2>5. note'[g].status \in {p.note.status, "acknowledged"} /\ note'[g].age = p.note.age
    BY <2>1 DEF Leaves
  <2>6. note'[g].form = p.note.form /\ note'[g].detail = p.note.detail /\ note'[g].turn = p.note.turn
    BY <2>1 DEF Leaves
  <2>7. CASE \E f \in Stored :
              /\ note[f].status \in {"active", "acknowledged"}
              /\ p.row = f /\ p.note = Merged(note[f], Incoming(h))
    <3>1. g \in Stored /\ p.note = Merged(note[g], Incoming(h)) /\ note[g] \in Note
      BY <1>1, <2>7 DEF TypeOK, Stored
    <3>2. p.note.status = note[g].status /\ p.note.form = "request"
      BY <2>3, <3>1, MergedFacts
    <3>3. p.note.age = note[g].age
      BY <3>1 DEF Merged, Note
    <3> HIDE DEF g
    <3> QED  BY <1>1, <2>4, <2>5, <2>6, <3>1, <3>2, <3>3, TimesKept
  <2>8. CASE h \in Stored /\ p.row = h /\ p.note = note[h]
    <3>1. note'[g].form = "prompt" =>
              /\ FormOf[g] = "prompt" /\ note'[g].detail = NoCall
              /\ note'[g].turn = tale[CallOf[g]].asked
      BY <1>1, <2>6, <2>8 DEF Times, PromptsTellNoCall, Prompt
    <3>2. g \in Stored /\ note'[g].age = note[g].age /\ note'[g].status \in {note[g].status, "acknowledged"}
      BY <2>5, <2>8
    <3> HIDE DEF g
    <3> QED  BY <1>1, <2>4, <3>1, <3>2, TimesKept
  <2>9. CASE h \notin Stored /\ p.row = h /\ p.note = Incoming(h)
    <3>1. note'[g].form = "prompt" =>
              /\ FormOf[g] = "prompt" /\ note'[g].detail = NoCall
              /\ note'[g].turn = tale[CallOf[g]].asked
      BY <2>3, <2>6, <2>9
    <3>2. g \notin Stored /\ note'[g].age = 0 /\ note'[g].status # "expired"
      BY <2>3, <2>5, <2>9
    <3>3. \A x \in Stored : note[x].age > 0
      BY <2>1, <2>9 DEF AtItsOwnTime, Stored
    <3> HIDE DEF g
    <3> QED  BY <1>1, <2>4, <3>1, <3>2, <3>3, TimesKept
  <2> QED  BY <2>2, <2>7, <2>8, <2>9
<1> QED  BY <1>2, <1>3

\* An undisturbed hook that asks is the first of its call in its form, and what
\* tells of the call is recent.
AsksInOrder(h) ==
    /\ orderly /\ Undisturbed
    /\ h \notin handled /\ h \notin Stored
    /\ phase[CallOf[h]] = "waiting" /\ CallOf[h] \in Call
    /\ FormOf[h] \in {"request", "prompt"} /\ h \in Hooks(CallOf[h])
    /\ \A g \in Stored : CallOf[h] \in Tells(g) => note[g].age <= Window
    /\ handled' = handled \union {h} /\ settled \subseteq settled'
    /\ UNCHANGED <<tale, phase, confirming>>

LEMMA AskInOrder ==
    ASSUME ShownInv, NEW h \in Hook, NEW policy \in Policy, Ask(h, policy), orderly'
    PROVE  /\ AsksInOrder(h) /\ policy # "off"
           /\ Silences(Published(h), policy) => CallOf[h] \in settled'
<1>1. policy # "off"
  BY DEF Ask, Remember
<1>2. Remember(InTime(h), {h}, IF Silences(Published(h), policy) THEN {CallOf[h]} ELSE {})
  BY <1>1 DEF Ask
<1>3. orderly /\ InTime(h)
  BY <1>2 DEF Remember
<1>4. /\ handled' = handled \union {h}
      /\ settled' = settled \union (IF Silences(Published(h), policy) THEN {CallOf[h]} ELSE {})
  BY <1>2 DEF Remember
<1>5. Undisturbed
  BY <1>3 DEF ShownInv
<1>6. /\ h \notin handled /\ phase[CallOf[h]] = "waiting"
      /\ \A g \in Stored : CallOf[h] \in Tells(g) => note[g].age <= Window
  BY <1>3 DEF InTime
<1>7. h \notin Stored
  BY <1>5, <1>6 DEF Undisturbed, HandledAreTold
<1>8. /\ FormOf[h] # "plan" /\ h \in Hooks(CallOf[h])
      /\ UNCHANGED <<tale, phase, confirming>>
  BY DEF Ask, session
<1>9. CallOf[h] \in Call /\ FormOf[h] \in {"request", "prompt"}
  BY <1>8, ApprovalAssumption
<1> QED  BY <1>1, <1>3, <1>4, <1>5, <1>6, <1>7, <1>8, <1>9 DEF AsksInOrder

\* The row g it leaves: a request keeps its detail, a hook with a detail leaves
\* it; a prompt it leaves is its own, early and alone.
AskedRow(h, g) ==
    /\ g \in Hook /\ (g \in Stored \/ g = h) /\ Host(g) = Host(h)
    /\ \A x \in Hook : x # g => note'[x] = note[x]
    /\ note'[g].status # "none" /\ note'[g].form \in {"request", "prompt"}
    /\ Request(g) => /\ Request(g)' /\ note'[g].detail = note[g].detail
                     /\ note'[g].turn = note[g].turn \/ NoPromptComes'
    /\ FormOf[h] = "request" => Request(g)' /\ note'[g].detail = CallOf[h]
    /\ FormOf[h] = "prompt" /\ Request(g)' => Request(g)
    /\ Active(g)' \/ CallOf[h] \in settled' \/ (Request(g) /\ FormOf[h] = "prompt" /\ ~Active(g))
    /\ \A x \in Hook : Prompt(x)' =>
          /\ x = h /\ g = h /\ FormOf[h] = "prompt"
          /\ \A r \in Hook : CallOf[r] = CallOf[h] /\ FormOf[r] = "request" => r \notin handled
          /\ \A z \in Hook : Request(z) /\ Host(z) = Host(h) => ~Pairs(note'[h], note[z])

\* A hook that asks and leaves such a row keeps a waiting call shown.
LEMMA AskKeeps ==
    ASSUME IInv, IInv', NEW h \in Hook, AsksInOrder(h), NEW g \in Hook, AskedRow(h, g)
    PROVE  Undisturbed'
<1> DEFINE c == CallOf[h]
<1>1. /\ OneAtATime /\ HandledAreTold /\ PromptsAreEarly /\ PromptsAreAlone
      /\ PromptsAreShown /\ RequestsAreShown /\ ReadsAreRight
      /\ h \notin handled /\ h \notin Stored /\ phase[c] = "waiting" /\ c \in Call
      /\ FormOf[h] \in {"request", "prompt"} /\ h \in Hooks(c)
      /\ handled' = handled \union {h} /\ settled \subseteq settled'
      /\ UNCHANGED <<tale, phase, confirming>>
  BY DEF AsksInOrder, Undisturbed
<1>2. /\ g \in Stored \/ g = h
      /\ Host(g) = Host(h)
      /\ \A x \in Hook : x # g => note'[x] = note[x]
      /\ note'[g].status # "none" /\ note'[g].form \in {"request", "prompt"}
      /\ Request(g) => /\ Request(g)' /\ note'[g].detail = note[g].detail
                       /\ note'[g].turn = note[g].turn \/ NoPromptComes'
      /\ FormOf[h] = "request" => Request(g)' /\ note'[g].detail = c
      /\ FormOf[h] = "prompt" /\ Request(g)' => Request(g)
      /\ Active(g)' \/ c \in settled' \/ (Request(g) /\ FormOf[h] = "prompt" /\ ~Active(g))
  BY DEF AskedRow
<1>3. \A x \in Hook : Prompt(x)' =>
         /\ x = h /\ g = h /\ FormOf[h] = "prompt"
         /\ \A r \in Hook : CallOf[r] = c /\ FormOf[r] = "request" => r \notin handled
         /\ \A z \in Hook : Request(z) /\ Host(z) = Host(h) => ~Pairs(note'[h], note[z])
  BY DEF AskedRow
<1>4. /\ \A x \in Hook : x # g => /\ x \in Stored' <=> x \in Stored
                                  /\ (Prompt(x)' <=> Prompt(x)) /\ (Request(x)' <=> Request(x))
                                  /\ (Active(x)' <=> Active(x))
      /\ \A x \in Hook : Host(x)' = Host(x)
      /\ \A b \in Call : Hooks(b)' = Hooks(b)
      /\ Stored \subseteq Hook /\ Stored' \subseteq Hook /\ g \in Stored'
      /\ \A x \in Hook : CallOf[x] \in Call
  BY <1>1, <1>2, ApprovalAssumption DEF Stored, Prompt, Request, Active, Host, Hooks
<1>5. OneAtATime'
  BY <1>1, <1>4 DEF OneAtATime
<1>6. HandledAreTold'
  <2>1. Stored' \subseteq handled'
    <3>1. g \in handled'
      BY <1>1, <1>2 DEF HandledAreTold
    <3> QED  BY <1>1, <1>4, <3>1 DEF HandledAreTold
  <2>2. \A x \in handled' \intersect Hook : phase'[CallOf[x]] # "idle" /\ x \in Hooks(CallOf[x])'
    BY <1>1, <1>4 DEF HandledAreTold
  <2>3. \A x \in Stored' : note'[x].form # "prompt" => Asks(note'[x].detail) \intersect handled' # {}
    <3> SUFFICES ASSUME NEW x \in Stored', note'[x].form # "prompt"
                 PROVE  \E r \in Asks(note'[x].detail) : r \in handled'
      OBVIOUS
    <3>1. CASE x # g
      <4>1. x \in Stored /\ note'[x] = note[x]
        BY <1>2, <1>4, <3>1
      <4> QED  BY <1>1, <4>1 DEF HandledAreTold
    <3>2. CASE x = g /\ Request(g)
      <4>1. note'[x].detail = note[g].detail /\ g \in Stored /\ note[g].form # "prompt"
        BY <1>2, <3>2 DEF Request
      <4> QED  BY <1>1, <4>1 DEF HandledAreTold
    <3>3. CASE x = g /\ ~Request(g)
      <4>1. Request(g)'
        BY <1>2, <1>4, <3>3 DEF Request
      <4>2. FormOf[h] = "request" /\ note'[x].detail = c
        BY <1>1, <1>2, <3>3, <4>1
      <4>3. h \in Asks(c)
        BY <4>2 DEF Asks
      <4> QED  BY <1>1, <4>2, <4>3
    <3> QED  BY <3>1, <3>2, <3>3
  <2>4. \A r \in handled' \intersect Hook : FormOf[r] = "request" =>
           \E x \in Hook : Request(x)' /\ note'[x].detail = CallOf[r] /\ Host(x)' = Host(r)'
    <3> SUFFICES ASSUME NEW r \in handled' \intersect Hook, FormOf[r] = "request"
                 PROVE  \E x \in Hook : /\ Request(x)' /\ note'[x].detail = CallOf[r]
                                        /\ Host(x)' = Host(r)'
      OBVIOUS
    <3>1. CASE r = h
      BY <1>2, <1>4, <3>1
    <3>2. CASE r # h
      <4>1. PICK x \in Hook : Request(x) /\ note[x].detail = CallOf[r] /\ Host(x) = Host(r)
        BY <1>1, <3>2 DEF HandledAreTold
      <4>2. Request(x)' /\ note'[x].detail = CallOf[r]
        BY <1>2, <1>4, <4>1
      <4> QED  BY <1>4, <4>1, <4>2
    <3> QED  BY <3>1, <3>2
  <2> QED  BY <2>1, <2>2, <2>3, <2>4 DEF HandledAreTold
<1>7. PromptsAreEarly'
  <2> SUFFICES ASSUME NEW x \in Hook, NEW r \in Hook, Prompt(x)', CallOf[r] = CallOf[x],
                      FormOf[r] = "request"
               PROVE  r \notin handled'
    BY DEF PromptsAreEarly
  <2>1. x = h /\ FormOf[h] = "prompt" /\ r \notin handled
    BY <1>3
  <2> QED  BY <1>1, <2>1
<1>8. PromptsAreAlone'
  <2> SUFFICES ASSUME NEW x \in Hook, NEW z \in Hook, Prompt(x)', Request(z)', Host(x)' = Host(z)'
               PROVE  ~Pairs(note'[x], note'[z])
    BY DEF PromptsAreAlone
  <2>1. x = h /\ g = h /\ Prompt(h)'
    BY <1>3
  <2>2. z # g
    BY <2>1 DEF Prompt, Request
  <2>3. Request(z) /\ Host(z) = Host(h) /\ note'[z] = note[z]
    BY <1>2, <1>4, <2>1, <2>2
  <2> QED  BY <1>3, <2>1, <2>3
<1>9. PromptsAreShown'
  <2> SUFFICES ASSUME NEW x \in Hook, Prompt(x)', CallOf[x] \notin settled'
               PROVE  Active(x)'
    BY DEF PromptsAreShown
  <2>1. x = h /\ g = h
    BY <1>3
  <2>2. ~Request(g)
    BY <1>1, <2>1 DEF Request
  <2> QED  BY <1>2, <2>1, <2>2
<1>10. RequestsAreShown'
  <2> SUFFICES ASSUME NEW b \in Call, phase[b] = "waiting", b \notin settled',
                      Asks(b) \intersect handled' # {}
               PROVE  \E x \in Hook : Active(x)' /\ note'[x].detail = b
    BY <1>1 DEF RequestsAreShown
  <2>1. b = c
    BY <1>1 DEF OneAtATime
  <2>2. CASE FormOf[h] = "request"
    <3>1. Active(g)' /\ note'[g].detail = c
      BY <1>2, <2>1, <2>2
    <3> QED  BY <2>1, <3>1
  <2>3. CASE FormOf[h] = "prompt"
    <3>1. Asks(c) \intersect handled # {}
      BY <1>1, <2>1, <2>3 DEF Asks
    <3>2. PICK x \in Hook : Active(x) /\ note[x].detail = c
      BY <1>1, <2>1, <3>1 DEF RequestsAreShown
    <3>3. CASE x # g
      BY <1>2, <1>4, <2>1, <3>2, <3>3
    <3>4. CASE x = g
      <4>1. Active(g)'
        BY <1>2, <2>1, <3>2, <3>4
      <4>2. Stored \subseteq Hook /\ note[g].form \in {"request", "prompt", "plan"} /\ g \in Stored
        BY <3>2, <3>4 DEF Active, IInv, TypeOK, Note, Stored
      <4>3. note'[g].detail = c
        <5>1. ~Prompt(g)'
          BY <1>1, <1>3, <4>2
        <5>2. Request(g)'
          BY <1>2, <1>4, <5>1 DEF Prompt, Request
        <5> QED  BY <1>2, <2>3, <3>2, <3>4, <5>2
      <4> QED  BY <2>1, <4>1, <4>3
    <3> QED  BY <3>3, <3>4
  <2> QED  BY <1>1, <2>2, <2>3
<1>11. ReadsAreRight'
  <2> SUFFICES ASSUME NEW read \in confirming
               PROVE  ReadsAreRight!(read)'
    BY <1>1 DEF ReadsAreRight
  <2>1. read[1] \in Stored /\ read[1] \in Hook
    BY <1>4 DEF IInv, TypeOK
  <2>2. NoPromptComes => NoPromptComes'
    BY <1>1, <1>4 DEF NoPromptComes
  <2>3. ASSUME read[2] = "request"
        PROVE  /\ Request(read[1])'
               /\ note'[read[1]].turn = read[3] \/ NoPromptComes'
    <3>1. Request(read[1]) /\ (note[read[1]].turn = read[3] \/ NoPromptComes)
      BY <2>3, <1>1 DEF ReadsAreRight
    <3>2. CASE read[1] = g
      BY <1>2, <2>2, <3>1, <3>2
    <3>3. CASE read[1] # g
      BY <1>2, <1>4, <2>1, <2>2, <3>1, <3>3
    <3> QED  BY <3>2, <3>3
  <2>4. ASSUME read[2] = "request", NEW x \in Hook, Prompt(x)', Host(x)' = Host(read[1])'
        PROVE  ~Pairs(note'[x], Reference(read)')
    <3>1. /\ x = h /\ g = h /\ FormOf[h] = "prompt"
          /\ \A z \in Hook : Request(z) /\ Host(z) = Host(h) => ~Pairs(note'[h], note[z])
      BY <1>3, <2>4
    <3>2. read[1] # g
      BY <1>1, <2>1, <3>1
    <3>3. note'[read[1]] = note[read[1]] /\ note[read[1]] \in Note
      BY <1>2, <2>1, <3>2 DEF IInv, TypeOK
    <3>4. Request(read[1]) /\ (note[read[1]].turn = read[3] \/ NoPromptComes)
      BY <2>4, <1>1 DEF ReadsAreRight
    <3>5. ~NoPromptComes
      BY <1>1, <3>1 DEF NoPromptComes
    <3>6. /\ Reference(read)'.age = note[read[1]].age
          /\ Reference(read)'.form = note[read[1]].form
          /\ Reference(read)'.turn = note[read[1]].turn
      BY <2>4, <3>3, <3>4, <3>5, ReferenceFacts DEF Reference, Request
    <3>7. ~Pairs(note'[h], note[read[1]])
      BY <1>4, <2>1, <2>4, <3>1, <3>4
    <3> QED  BY <3>1, <3>6, <3>7 DEF Pairs
  <2>5. read[2] = "prompt" => /\ CallOf[read[1]] \in settled'
                              /\ \A b \in Call : phase'[b] = "waiting" => b = CallOf[read[1]]
    BY <1>1 DEF ReadsAreRight
  <2> QED  BY <2>3, <2>4, <2>5
<1> QED  BY <1>5, <1>6, <1>7, <1>8, <1>9, <1>10, <1>11 DEF Undisturbed

\* One that pairs with the hook is not expired, and is found.
LEMMA PairIsFound ==
    ASSUME IInv, Times, NEW h \in Hook, NEW g \in Stored, Host(g) = Host(h),
           Pairs(note[g], Incoming(h))
    PROVE  Correlated(h) # {}
<1>1. note[g] \in Note /\ note[g].age \in Nat /\ note[g].status # "none" /\ TypeOK
  BY ApprovalAssumption DEF IInv, TypeOK, Stored, Note
<1>2. note[g].age <= Window
  <2>1. Incoming(h).age = 0
    BY DEF Incoming
  <2> QED  BY <1>1, <2>1 DEF Pairs, Distance
<1>3. note[g].status # "expired"
  BY <1>1, <1>2, ApprovalAssumption DEF Times, ExpiredAreOld
<1>4. note[g].status \in {"active", "acknowledged"}
  BY <1>1, <1>3 DEF Note
<1> QED  BY <1>1, <1>4, OneIsFound DEF Times

\* A prompt that comes finds no other, and a request only one of its own call.
LEMMA PromptsInOrder ==
    ASSUME IInv, Times, NEW h \in Hook, AsksInOrder(h), NEW x \in Hook, Prompt(x)
    PROVE  /\ FormOf[h] = "request" /\ CallOf[x] = CallOf[h] /\ FormOf[x] = "prompt"
           /\ \A y \in Hook : Prompt(y) => y = x
           /\ Active(x) \/ CallOf[h] \in settled'
           /\ note[x].turn = tale[CallOf[h]].asked /\ note[x].age <= Window
<1>1. \A y \in Hook : Prompt(y) =>
         CallOf[y] = CallOf[h] /\ FormOf[y] = "prompt" /\ note[y].turn = tale[CallOf[y]].asked
  BY PromptOfWaiting DEF AsksInOrder, IInv, Times, PromptsTellNoCall
<1>2. \A y \in Hook : Prompt(y) => y = x
  BY <1>1, ApprovalAssumption
<1>3. FormOf[h] = "request"
  <2>1. FormOf[h] = "prompt" => x = h
    BY <1>1, ApprovalAssumption
  <2> QED  BY <2>1 DEF AsksInOrder, Prompt
<1>4. Active(x) \/ CallOf[h] \in settled'
  BY <1>1 DEF AsksInOrder, Undisturbed, PromptsAreShown
<1>5. note[x].age <= Window
  <2>1. CallOf[h] \in Tells(x)
    BY <1>1, ApprovalAssumption DEF Tells, AsksInOrder
  <2> QED  BY <2>1 DEF AsksInOrder, Prompt
<1> QED  BY <1>1, <1>2, <1>3, <1>4, <1>5

\* The row a hook leaves that asks in order: it joins one, or stands alone.
LEMMA JoinedRow ==
    ASSUME IInv, Times, NEW h \in Hook, AsksInOrder(h), NEW policy \in Policy,
           NEW g \in Stored, Host(g) = Host(h), Pairs(note[g], Incoming(h)),
           Published(h).row = g, Published(h).note = Merged(note[g], Incoming(h)),
           Leaves(Published(h), policy),
           Silences(Published(h), policy) => CallOf[h] \in settled'
    PROVE  AskedRow(h, g)
<1> DEFINE n == Merged(note[g], Incoming(h))
<1>1. /\ g \in Hook /\ note[g] \in Note /\ note[g].status # "none"
      /\ FormOf[h] \in {"request", "prompt"} /\ CallOf[h] \in Call
  BY DEF IInv, TypeOK, Stored, AsksInOrder
<1>2. /\ Incoming(h) \in Note /\ Incoming(h).form = FormOf[h]
      /\ Incoming(h).detail = IF FormOf[h] = "prompt" THEN NoCall ELSE CallOf[h]
  BY IncomingFacts DEF IInv
<1>3. /\ n.status = note[g].status /\ n.form = "request"
      /\ n.detail = IF Incoming(h).detail = NoCall THEN note[g].detail ELSE Incoming(h).detail
  BY <1>1, <1>2, MergedFacts
<1> HIDE DEF n
<1>4. /\ \A x \in Hook : x # g => note'[x] = note[x]
      /\ note'[g].status = IF Silences(Published(h), policy) THEN "acknowledged" ELSE n.status
      /\ note'[g].status # "none"
      /\ note'[g].form = "request" /\ note'[g].detail = n.detail
  BY <1>1, <1>3 DEF Leaves, n
<1>5. {note[g].form, FormOf[h]} = {"request", "prompt"}
  BY <1>2 DEF Pairs
<1>6. \A x \in Hook : Prompt(x)' => x # g /\ Prompt(x)
  BY <1>1, <1>4 DEF Prompt, Stored
<1>7. Request(g)'
  BY <1>1, <1>3, <1>4 DEF Request, Stored
<1>8. Active(g)' \/ CallOf[h] \in settled' \/ ~Active(g)
  BY <1>3, <1>4 DEF Active
<1>9. CASE FormOf[h] = "prompt"
  <2>1. Request(g) /\ note'[g].detail = note[g].detail
    BY <1>2, <1>3, <1>4, <1>5, <1>9 DEF Request
  <2>2. \A x \in Hook : ~Prompt(x)'
    <3>1. \A x \in Hook : ~Prompt(x)
      BY <1>9, PromptsInOrder
    <3> QED  BY <1>6, <3>1
  <2>3. NoPromptComes'
    <3> SUFFICES ASSUME NEW p \in Hook, FormOf[p] = "prompt", p \in Hooks(CallOf[p])',
                        phase'[CallOf[p]] # "idle"
                 PROVE  p \in handled'
      BY DEF NoPromptComes
    <3>1. /\ CallOf[p] \in Call /\ p \in Hooks(CallOf[p]) /\ phase[CallOf[p]] # "idle"
          /\ handled' = handled \union {h} /\ phase[CallOf[h]] = "waiting" /\ OneAtATime
      BY ApprovalAssumption DEF AsksInOrder, Undisturbed, Hooks
    <3>2. CASE phase[CallOf[p]] = "waiting"
      <4>1. CallOf[p] = CallOf[h]
        BY <1>1, <3>1, <3>2 DEF OneAtATime
      <4>2. p = h
        BY <1>9, <4>1, ApprovalAssumption
      <4> QED  BY <3>1, <4>2
    <3>3. CASE phase[CallOf[p]] = "over"
      BY <1>1, <3>1, <3>3 DEF OneAtATime
    <3> QED  BY <3>1, <3>2, <3>3 DEF IInv, TypeOK
  <2> QED  BY <1>1, <1>4, <1>7, <1>8, <1>9, <2>1, <2>2, <2>3 DEF AskedRow
<1>10. CASE FormOf[h] = "request"
  <2>1. Prompt(g) /\ ~Request(g)
    BY <1>5, <1>10 DEF Prompt, Request
  <2>2. note'[g].detail = CallOf[h]
    BY <1>1, <1>2, <1>3, <1>4, <1>10, ApprovalAssumption
  <2>3. Active(g) \/ CallOf[h] \in settled'
    BY <1>1, <2>1, PromptsInOrder
  <2>4. \A x \in Hook : ~Prompt(x)'
    <3>1. \A x \in Hook : Prompt(x) => x = g
      BY <1>1, <2>1, PromptsInOrder
    <3> QED  BY <1>6, <3>1
  <2> QED  BY <1>1, <1>4, <1>7, <1>8, <1>10, <2>1, <2>2, <2>3, <2>4 DEF AskedRow
<1> QED  BY <1>1, <1>9, <1>10

LEMMA InsertedRow ==
    ASSUME IInv, Times, NEW h \in Hook, AsksInOrder(h), NEW policy \in Policy,
           Correlated(h) = {},
           Published(h).row = h, Published(h).note = Incoming(h),
           Leaves(Published(h), policy),
           Silences(Published(h), policy) => CallOf[h] \in settled'
    PROVE  AskedRow(h, h)
<1> DEFINE c == CallOf[h]
<1>1. /\ FormOf[h] \in {"request", "prompt"} /\ c \in Call /\ h \notin Stored
      /\ Window \in Nat
  BY ApprovalAssumption DEF AsksInOrder
<1>2. /\ Incoming(h) \in Note /\ Incoming(h).form = FormOf[h] /\ Incoming(h).status = "active"
      /\ Incoming(h).detail = IF FormOf[h] = "prompt" THEN NoCall ELSE c
      /\ Incoming(h).age = 0 /\ Incoming(h).turn = tale[c].asked
  <2>1. Incoming(h).age = 0 /\ Incoming(h).turn = tale[c].asked
    BY DEF Incoming
  <2> QED  BY <2>1, IncomingFacts DEF IInv
<1>3. /\ \A x \in Hook : x # h => note'[x] = note[x]
      /\ note'[h].status = IF Silences(Published(h), policy) THEN "acknowledged" ELSE "active"
      /\ note'[h].form = FormOf[h] /\ note'[h].detail = Incoming(h).detail
      /\ note'[h].turn = Incoming(h).turn /\ note'[h].age = 0
  BY <1>2 DEF Leaves
<1>4. Active(h)' \/ c \in settled'
  BY <1>3 DEF Active
<1>5. ~Request(h) /\ h \in Stored'
  BY <1>1, <1>3 DEF Request, Stored
<1>6. \A x \in Hook : Prompt(x)' => (x = h /\ FormOf[h] = "prompt") \/ Prompt(x)
  BY <1>3 DEF Prompt, Stored
<1>7. \A x \in Stored : Host(x) = Host(h) => ~Pairs(note[x], Incoming(h))
  BY PairIsFound
<1>8. \A x \in Stored : note[x] \in Note /\ note[x].age \in Nat /\ x \in Hook
  BY ApprovalAssumption DEF IInv, TypeOK, Stored, Note
<1>9. CASE FormOf[h] = "request"
  <2>1. Request(h)' /\ note'[h].detail = c
    BY <1>1, <1>2, <1>3, <1>5, <1>9 DEF Request
  <2>2. ASSUME NEW x \in Hook, Prompt(x)  PROVE FALSE
    <3>1. /\ x \in Stored /\ note[x].form = "prompt" /\ CallOf[x] = c
          /\ note[x].turn = tale[c].asked /\ note[x].age <= Window
      BY <2>2, PromptsInOrder DEF Prompt
    <3>2. Host(x) = Host(h)
      BY <3>1 DEF Host
    <3>3. Distance(note[x].age, 0) <= Window
      BY <1>8, <3>1 DEF Distance
    <3>4. Pairs(note[x], Incoming(h))
      BY <1>2, <1>9, <3>1, <3>3 DEF Pairs
    <3> QED  BY <1>7, <3>1, <3>2, <3>4
  <2>3. \A x \in Hook : ~Prompt(x)'
    BY <1>6, <1>9, <2>2
  <2> QED  BY <1>3, <1>4, <1>5, <1>9, <2>1, <2>3 DEF AskedRow
<1>10. CASE FormOf[h] = "prompt"
  <2>1. \A x \in Hook : ~Prompt(x)
    BY <1>10, PromptsInOrder
  <2>2. ASSUME NEW r \in Hook, CallOf[r] = c, FormOf[r] = "request", r \in handled
        PROVE  FALSE
    <3>1. PICK x \in Hook : Request(x) /\ note[x].detail = c /\ Host(x) = Host(r)
      BY <2>2 DEF AsksInOrder, Undisturbed, HandledAreTold
    <3>2. Host(x) = Host(h) /\ x \in Stored /\ note[x].form = "request"
      BY <2>2, <3>1 DEF Host, Request
    <3>3. note[x].age <= Window
      <4>1. c \in Tells(x)
        BY <1>1, <3>1, ApprovalAssumption DEF Tells
      <4> QED  BY <3>2, <4>1 DEF AsksInOrder
    <3>4. Distance(note[x].age, 0) <= Window
      BY <1>8, <3>2, <3>3 DEF Distance
    <3>5. tale[c].asked # NoTurn => note[x].turn = tale[c].asked
      BY <3>1, <3>2 DEF IInv, TurnTellsCall, QuotesTurn
    <3>6. Pairs(note[x], Incoming(h))
      BY <1>2, <1>10, <3>2, <3>4, <3>5 DEF Pairs
    <3> QED  BY <1>7, <3>2, <3>6
  <2>3. ASSUME NEW z \in Hook, Request(z), Host(z) = Host(h), Pairs(note'[h], note[z])
        PROVE  FALSE
    <3>1. z \in Stored /\ note[z] \in Note
      BY <1>8, <2>3 DEF Request
    <3>2. Pairs(Incoming(h), note[z])
      BY <1>2, <1>3, <2>3 DEF Pairs
    <3>3. Pairs(note[z], Incoming(h))
      BY <1>2, <3>1, <3>2, PairsAreMutual
    <3> QED  BY <1>7, <2>3, <3>1, <3>3
  <2>4. ~Request(h)' /\ FormOf[h] # "request"
    BY <1>3, <1>10 DEF Request
  <2>5. \A x \in Hook : Prompt(x)' =>
          /\ x = h /\ FormOf[h] = "prompt"
          /\ \A r \in Hook : CallOf[r] = CallOf[h] /\ FormOf[r] = "request" => r \notin handled
          /\ \A z \in Hook : Request(z) /\ Host(z) = Host(h) => ~Pairs(note'[h], note[z])
    BY <1>6, <2>1, <2>2, <2>3
  <2> QED  BY <1>1, <1>3, <1>4, <1>5, <1>10, <2>4, <2>5 DEF AskedRow
<1> QED  BY <1>1, <1>9, <1>10

LEMMA AskShows ==
    ASSUME ShownInv, NEW h \in Hook, NEW policy \in Policy, Ask(h, policy)
    PROVE  ShownInv'
<1>1. IInv /\ IInv' /\ Times /\ Times'
  BY AskStep, AskTimes DEF ShownInv
<1>2. ASSUME orderly'  PROVE Undisturbed'
  <2>1. /\ AsksInOrder(h) /\ policy # "off"
        /\ Silences(Published(h), policy) => CallOf[h] \in settled'
    BY <1>2, AskInOrder
  <2>2. Leaves(Published(h), policy)
    BY <1>1, <2>1, AskLeaves
  <2>3. CASE \E g \in Stored :
                 /\ note[g].status \in {"active", "acknowledged"} /\ Host(g) = Host(h)
                 /\ Pairs(note[g], Incoming(h))
                 /\ Published(h).row = g /\ Published(h).note = Merged(note[g], Incoming(h))
    <3>1. PICK g \in Stored :
                 /\ Host(g) = Host(h) /\ Pairs(note[g], Incoming(h))
                 /\ Published(h).row = g /\ Published(h).note = Merged(note[g], Incoming(h))
      BY <2>3
    <3>2. AskedRow(h, g) /\ g \in Hook
      BY <1>1, <2>1, <2>2, <3>1, JoinedRow DEF Stored
    <3> QED  BY <1>1, <2>1, <3>2, AskKeeps
  <2>4. CASE h \in Stored
    BY <2>1, <2>4 DEF AsksInOrder
  <2>5. CASE /\ h \notin Stored /\ Correlated(h) = {}
             /\ Published(h).row = h /\ Published(h).note = Incoming(h)
    <3>1. AskedRow(h, h)
      BY <1>1, <2>1, <2>2, <2>5, InsertedRow
    <3> QED  BY <1>1, <2>1, <3>1, AskKeeps
  <2> QED  BY <1>1, <2>3, <2>4, <2>5, PublishedRow
<1> QED  BY <1>1, <1>2 DEF ShownInv

\* A planning turn's end, with nothing published: it closes, and is not in order.
LEMMA PlanEndedUnpublished ==
    ASSUME ShownInv, NEW h \in Hook, PlanEnded(h, "off")
    PROVE  ShownInv'
<1> DEFINE hs == Pending(Host(h))
<1>1. IInv /\ IInv'
  BY PlanEndedStep DEF ShownInv, Policy
<1>2. hs \in SUBSET Stored /\ \A g \in hs : Active(g)
  BY DEF Pending, Active, Stored
<1>3. /\ note' = [g \in Hook |-> IF g \in hs THEN [note[g] EXCEPT !.status = "acknowledged"]
                                 ELSE note[g]]
      /\ UNCHANGED <<tale, phase, confirming>>
      /\ ~orderly'
  <2>1. /\ note' = [g \in Hook |->
              IF g = h /\ "off" # "off"
              THEN IF Silences(Published(h), "off")
                   THEN [Published(h).note EXCEPT !.status = "acknowledged"]
                   ELSE Published(h).note
              ELSE IF g \in Pending(Host(h)) \ {} THEN [note[g] EXCEPT !.status = "acknowledged"]
              ELSE note[g]]
        /\ UNCHANGED <<tale, phase, confirming>>
    BY DEF PlanEnded, session
  <2>2. ~orderly'
    BY DEF PlanEnded, Remember
  <2> HIDE DEF hs
  <2>3. Pending(Host(h)) \ {} = hs
    BY DEF hs
  <2> QED  BY <2>1, <2>2, <2>3
<1>4. shown' = [g \in Hook |-> IF g \in hs THEN Hidden ELSE shown[g]]
  <2>1. /\ shown = [g \in Hook |-> Display(note[g])] /\ shown' = [g \in Hook |-> Display(note'[g])]
        /\ note \in [Hook -> Note]
    BY <1>1 DEF IInv, ClientIsTold, TypeOK, Display
  <2>2. ASSUME NEW g \in Hook  PROVE Display(note'[g]) = IF g \in hs THEN Hidden ELSE shown[g]
    <3> HIDE DEF hs
    <3>1. CASE g \in hs
      <4>1. note'[g].status = "acknowledged"
        BY <1>3, <2>1, <3>1 DEF Note
      <4> QED  BY <3>1, <4>1 DEF Display
    <3>2. CASE g \notin hs
      BY <1>3, <2>1, <3>2
    <3> QED  BY <3>1, <3>2
  <2> HIDE DEF hs
  <2> QED  BY <2>1, <2>2
<1>5. Close(hs, "acknowledged")
  BY <1>3, <1>4 DEF Close
<1> HIDE DEF hs
<1> QED  BY <1>1, <1>2, <1>3, <1>5, ClosingShows

\* What the published end of a planning turn leaves: its own row, as published or
\* silenced, and of the others some that are confirmed.
PlanRow(h, policy) ==
    /\ Published(h).row = h
    /\ Published(h).note = IF h \in Stored THEN note[h] ELSE Incoming(h)
    /\ h \notin Stored => \A x \in Stored : note[x].age > 0
    /\ note'[h].status = IF Silences(Published(h), policy) THEN "acknowledged"
                         ELSE Published(h).note.status
    /\ note'[h].form = Published(h).note.form /\ note'[h].detail = Published(h).note.detail
    /\ note'[h].turn = Published(h).note.turn /\ note'[h].age = Published(h).note.age
    /\ \A x \in Hook : x # h =>
          /\ x \in Stored' <=> x \in Stored
          /\ note'[x].status \in {note[x].status, "acknowledged"}
          /\ note'[x].form = note[x].form /\ note'[x].detail = note[x].detail
          /\ note'[x].turn = note[x].turn /\ note'[x].age = note[x].age

LEMMA PlanEndedLeaves ==
    ASSUME IInv, NEW h \in Hook, NEW policy \in Policy, PlanEnded(h, policy), policy # "off"
    PROVE  PlanRow(h, policy)
<1> DEFINE p == Published(h)
           others == Pending(Host(h)) \ {h}
           n == IF Silences(p, policy) THEN [p.note EXCEPT !.status = "acknowledged"] ELSE p.note
<1>1. /\ note' = [g \in Hook |-> IF g = h THEN n
                                 ELSE IF g \in others THEN [note[g] EXCEPT !.status = "acknowledged"]
                                 ELSE note[g]]
      /\ AtItsOwnTime(p) /\ FormOf[h] = "plan"
  BY DEF PlanEnded
<1>2. note \in [Hook -> Note] /\ p.note \in Note
  BY PublishedFacts DEF IInv, TypeOK
<1>3. p.row = h /\ p.note = IF h \in Stored THEN note[h] ELSE Incoming(h)
  <2>1. \A g \in Stored : ~Pairs(note[g], Incoming(h))
    <3>1. Incoming(h).form = "plan"
      BY <1>1 DEF Incoming
    <3> QED  BY <3>1 DEF Pairs
  <2> QED  BY <2>1, PublishedRow
<1>4. \A x \in Hook : x # h =>
         /\ x \in Stored' <=> x \in Stored
         /\ note'[x].status \in {note[x].status, "acknowledged"}
         /\ note'[x].form = note[x].form /\ note'[x].detail = note[x].detail
         /\ note'[x].turn = note[x].turn /\ note'[x].age = note[x].age
  <2> SUFFICES ASSUME NEW x \in Hook, x # h
               PROVE  /\ x \in Stored' <=> x \in Stored
                      /\ note'[x].status \in {note[x].status, "acknowledged"}
                      /\ note'[x].form = note[x].form /\ note'[x].detail = note[x].detail
                      /\ note'[x].turn = note[x].turn /\ note'[x].age = note[x].age
    OBVIOUS
  <2>1. x \in others => Active(x)
    BY DEF Pending
  <2> HIDE DEF others, n
  <2>2. CASE x \in others
    <3>1. note'[x] = [note[x] EXCEPT !.status = "acknowledged"] /\ note[x] \in Note
      BY <1>1, <1>2, <2>2
    <3> QED  BY <2>1, <2>2, <3>1 DEF Note, Stored, Active
  <2>3. CASE x \notin others
    <3>1. note'[x] = note[x]
      BY <1>1, <2>3
    <3> QED  BY <3>1 DEF Stored
  <2> QED  BY <2>2, <2>3
<1>5. h \notin Stored => \A x \in Stored : note[x].age > 0
  BY <1>1, <1>3 DEF AtItsOwnTime, Stored
<1> HIDE DEF p
<1>6. /\ n.status = IF Silences(p, policy) THEN "acknowledged" ELSE p.note.status
      /\ n.form = p.note.form /\ n.detail = p.note.detail
      /\ n.turn = p.note.turn /\ n.age = p.note.age
  BY <1>2 DEF Note
<1> HIDE DEF n, others
<1>7. note'[h] = n
  BY <1>1
<1> QED  BY <1>3, <1>4, <1>5, <1>6, <1>7 DEF PlanRow, p

LEMMA PlanEndedShows ==
    ASSUME ShownInv, NEW h \in Hook, NEW policy \in Policy, PlanEnded(h, policy)
    PROVE  ShownInv'
<1> DEFINE c == CallOf[h]
<1>1. CASE policy = "off"
  BY <1>1, PlanEndedUnpublished
<1>2. CASE policy # "off"
  <2>1. /\ IInv /\ IInv' /\ Times /\ TypeOK /\ PlanRow(h, policy)
        /\ UNCHANGED <<tale, phase, confirming>>
        /\ FormOf[h] = "plan" /\ h \in Hooks(c) /\ c \in Call
    <3>1. IInv /\ Times
      BY DEF ShownInv
    <3>2. IInv' /\ PlanRow(h, policy)
      BY <1>2, <3>1, PlanEndedStep, PlanEndedLeaves
    <3>3. UNCHANGED <<tale, phase, confirming>> /\ FormOf[h] = "plan" /\ h \in Hooks(c)
      BY DEF PlanEnded, session
    <3>4. TypeOK /\ c \in Call
      BY <3>1, ApprovalAssumption DEF IInv
    <3> QED  BY <3>1, <3>2, <3>3, <3>4
  <2>2. /\ Incoming(h).status = "active" /\ Incoming(h).form = "plan"
        /\ Incoming(h).detail = c /\ Incoming(h).age = 0
    BY <2>1 DEF Incoming
  <2>3. \A x \in Hook : x # h =>
           /\ x \in Stored' <=> x \in Stored
           /\ note'[x].status \in {note[x].status, "acknowledged"}
           /\ note'[x].form = note[x].form /\ note'[x].detail = note[x].detail
           /\ note'[x].turn = note[x].turn /\ note'[x].age = note[x].age
    BY <2>1 DEF PlanRow
  <2>4. Times'
    <3>1. CASE h \in Stored
      <4>1. /\ note'[h].status \in {note[h].status, "acknowledged"} /\ note'[h].age = note[h].age
            /\ note'[h].form = note[h].form /\ note'[h].detail = note[h].detail
            /\ note'[h].turn = note[h].turn
        BY <2>1, <3>1 DEF PlanRow
      <4>2. note'[h].form = "prompt" =>
               /\ FormOf[h] = "prompt" /\ note'[h].detail = NoCall
               /\ note'[h].turn = tale[CallOf[h]].asked
        BY <2>1, <3>1, <4>1 DEF Times, PromptsTellNoCall, Prompt
      <4> QED  BY <2>1, <2>3, <3>1, <4>1, <4>2, TimesKept
    <3>2. CASE h \notin Stored
      <4>1. /\ note'[h].status # "expired" /\ note'[h].age = 0 /\ note'[h].form = "plan"
            /\ \A x \in Stored : note[x].age > 0
        BY <2>1, <2>2, <3>2 DEF PlanRow
      <4>2. note'[h].form # "prompt"
        BY <4>1
      <4> QED  BY <2>1, <2>3, <3>2, <4>1, <4>2, TimesKept
    <3> QED  BY <3>1, <3>2
  <2>5. ASSUME orderly'  PROVE Undisturbed'
    <3>1. Remember(InTime(h) /\ ~Someone(Call \ {c}), {h},
                   IF Silences(Published(h), policy) THEN {c} ELSE {})
      BY <1>2 DEF PlanEnded, Remember
    <3>2. orderly /\ InTime(h)
      BY <2>5, <3>1 DEF Remember
    <3>3. /\ handled' = handled \union {h}
          /\ settled' = settled \union (IF Silences(Published(h), policy) THEN {c} ELSE {})
      BY <2>5, <3>1 DEF Remember
    <3>4. h \notin handled /\ phase[c] = "waiting"
      BY <3>2 DEF InTime
    <3>5. /\ OneAtATime /\ HandledAreTold /\ ReadsAreRight /\ Undisturbed
          /\ h \notin Stored /\ settled \subseteq settled'
          /\ \A x \in Hook : CallOf[x] \in Call
      BY <3>2, <3>3, <3>4, ApprovalAssumption DEF ShownInv, Undisturbed, HandledAreTold
    <3>6. /\ note'[h].form = "plan" /\ note'[h].detail = c
          /\ note'[h].status # "none"
          /\ note'[h].status = "active" \/ c \in settled'
      BY <2>1, <2>2, <3>3, <3>5 DEF PlanRow
    <3>7. \A x \in Hook : ~Prompt(x)
      <4>1. tale[c].plan
        BY <2>1, HooksOfCall
      <4> QED  BY <2>1, <3>4, <3>5, <4>1, PromptOfWaiting
    <3>8. /\ \A x \in Hook : ~Prompt(x)'
          /\ \A x \in Hook : (Request(x)' <=> Request(x)) /\ Host(x)' = Host(x)
          /\ \A b \in Call : Hooks(b)' = Hooks(b)
          /\ Stored' \subseteq Stored \union {h} /\ Stored \subseteq Hook
      <4>1. ~Prompt(h)' /\ ~Request(h)' /\ ~Request(h)
        BY <3>5, <3>6 DEF Prompt, Request
      <4>2. \A x \in Hook : x # h => (Prompt(x)' <=> Prompt(x)) /\ (Request(x)' <=> Request(x))
        BY <2>3 DEF Prompt, Request
      <4>3. \A x \in Hook : ~Prompt(x)' /\ (Request(x)' <=> Request(x))
        BY <3>7, <4>1, <4>2
      <4>4. \A x \in Hook : Host(x)' = Host(x)
        BY <2>1 DEF Host
      <4>5. \A b \in Call : Hooks(b)' = Hooks(b)
        BY <2>1 DEF Hooks
      <4>6. Stored' \subseteq Stored \union {h} /\ Stored \subseteq Hook
        BY <2>3 DEF Stored
      <4> QED  BY <4>3, <4>4, <4>5, <4>6
    <3>9. OneAtATime'
      BY <2>1, <3>3, <3>5, <3>8 DEF OneAtATime
    <3>10. HandledAreTold'
      <4>1. Stored' \subseteq handled'
        BY <3>3, <3>5, <3>8 DEF HandledAreTold
      <4>2. \A x \in handled' \intersect Hook : phase'[CallOf[x]] # "idle" /\ x \in Hooks(CallOf[x])'
        BY <2>1, <3>3, <3>4, <3>5, <3>8 DEF HandledAreTold
      <4>3. \A x \in Stored' : note'[x].form # "prompt" =>
               Asks(note'[x].detail) \intersect handled' # {}
        <5> SUFFICES ASSUME NEW x \in Stored', note'[x].form # "prompt"
                     PROVE  \E r \in Asks(note'[x].detail) : r \in handled'
          OBVIOUS
        <5>1. CASE x = h
          <6>1. h \in Asks(c)
            BY <2>1 DEF Asks
          <6> QED  BY <3>3, <3>6, <5>1, <6>1
        <5>2. CASE x # h
          <6>1. x \in Stored /\ note[x].form # "prompt" /\ note'[x].detail = note[x].detail
            BY <2>3, <3>8, <5>2
          <6> QED  BY <3>3, <3>5, <6>1 DEF HandledAreTold
        <5> QED  BY <5>1, <5>2
      <4>4. \A r \in handled' \intersect Hook : FormOf[r] = "request" =>
               \E x \in Hook : Request(x)' /\ note'[x].detail = CallOf[r] /\ Host(x)' = Host(r)'
        <5> SUFFICES ASSUME NEW r \in handled' \intersect Hook, FormOf[r] = "request"
                     PROVE  \E x \in Hook : /\ Request(x)' /\ note'[x].detail = CallOf[r]
                                            /\ Host(x)' = Host(r)'
          OBVIOUS
        <5>1. r \in handled
          BY <2>1, <3>3
        <5>2. PICK x \in Hook : Request(x) /\ note[x].detail = CallOf[r] /\ Host(x) = Host(r)
          BY <3>5, <5>1 DEF HandledAreTold
        <5>3. note'[x].detail = note[x].detail
          BY <2>3, <3>5, <5>2 DEF Request
        <5> QED  BY <3>8, <5>2, <5>3
      <4> QED  BY <4>1, <4>2, <4>3, <4>4 DEF HandledAreTold
    <3>11. PromptsAreEarly' /\ PromptsAreAlone' /\ PromptsAreShown'
      BY <3>8 DEF PromptsAreEarly, PromptsAreAlone, PromptsAreShown
    <3>12. RequestsAreShown'
      <4> SUFFICES ASSUME NEW b \in Call, phase[b] = "waiting", b \notin settled'
                   PROVE  \E x \in Hook : Active(x)' /\ note'[x].detail = b
        BY <2>1 DEF RequestsAreShown
      <4>1. b = c
        BY <2>1, <3>4, <3>5 DEF OneAtATime
      <4> QED  BY <3>6, <4>1 DEF Active
    <3>13. ReadsAreRight'
      <4> SUFFICES ASSUME NEW read \in confirming
                   PROVE  ReadsAreRight!(read)'
        BY <2>1 DEF ReadsAreRight
      <4>1. read[1] \in Stored /\ read[1] \in Hook /\ read[1] # h
        BY <2>1, <3>5, <3>8 DEF TypeOK
      <4>2. NoPromptComes => NoPromptComes'
        BY <2>1, <3>3, <3>5, <3>8 DEF NoPromptComes
      <4>3. read[2] = "request" => /\ Request(read[1])'
                                   /\ note'[read[1]].turn = read[3] \/ NoPromptComes'
        BY <2>3, <3>5, <3>8, <4>1, <4>2 DEF ReadsAreRight
      <4>4. read[2] = "prompt" => /\ CallOf[read[1]] \in settled'
                                  /\ \A b \in Call : phase'[b] = "waiting" => b = CallOf[read[1]]
        BY <2>1, <3>5 DEF ReadsAreRight
      <4> QED  BY <3>8, <4>3, <4>4
    <3> QED  BY <3>9, <3>10, <3>11, <3>12, <3>13 DEF Undisturbed
  <2> QED  BY <2>1, <2>4, <2>5 DEF ShownInv
<1> QED  BY <1>1, <1>2

-----------------------------------------------------------------------------
LEMMA ShownBegins == Init => ShownInv
<1> SUFFICES ASSUME Init PROVE ShownInv
  OBVIOUS
<1>1. IInv
  BY InitInv
<1>2. /\ Stored = {} /\ \A h : ~Prompt(h) /\ ~Request(h)
      /\ handled = {} /\ confirming = {} /\ \A c \in Call : phase[c] = "idle"
  BY DEF Init, Stored, None, Prompt, Request
<1>3. Times
  BY <1>2 DEF Times, OwnTimes, ExpiredAreOld, PromptsTellNoCall
<1>4. Undisturbed
  BY <1>2 DEF Undisturbed, OneAtATime, HandledAreTold, PromptsAreEarly, PromptsAreAlone,
              PromptsAreShown, RequestsAreShown, ReadsAreRight
<1> QED  BY <1>1, <1>3, <1>4 DEF ShownInv

LEMMA ShownStutters ==
    ASSUME ShownInv, UNCHANGED vars
    PROVE  ShownInv'
<1>1. UNCHANGED <<tale, phase, note, confirming, shown, orderly, handled, settled>>
  BY DEF vars, session, history
<1>2. IInv /\ IInv' /\ Times
  BY NextInv DEF ShownInv
<1>3. Times'
  BY <1>1, <1>2 DEF Times, OwnTimes, ExpiredAreOld, PromptsTellNoCall, Prompt, Stored
<1>4. ASSUME orderly  PROVE Undisturbed'
  <2>1. Undisturbed
    BY <1>4 DEF ShownInv
  <2>2. OneAtATime'
    BY <1>1, <2>1 DEF Undisturbed, OneAtATime, Hooks
  <2>3. \A h \in Hook : h \in Stored' <=> h \in Stored
    BY <1>1 DEF Stored
  <2> QED  BY <1>1, <1>2, <2>1, <2>2, <2>3, StillShown
<1> QED  BY <1>1, <1>2, <1>3, <1>4 DEF ShownInv

LEMMA ShownIsKept == ShownInv /\ [Next]_vars => ShownInv'
<1> SUFFICES ASSUME ShownInv, [Next]_vars PROVE ShownInv'
  OBVIOUS
<1>1. ASSUME NEW h \in Hook, NEW p \in Policy, Ask(h, p)  PROVE ShownInv'
  BY <1>1, AskShows
<1>2. ASSUME NEW h \in Hook, NEW p \in Policy, PlanEnded(h, p)  PROVE ShownInv'
  BY <1>2, PlanEndedShows
<1>3. ASSUME NEW c \in Call, ToolEnded(c)  PROVE ShownInv'
  BY <1>3, ToolEndedShows
<1>4. ASSUME NEW c \in Call, NeedPermission(c)  PROVE ShownInv'
  BY <1>4, NeedPermissionShows
<1>5. ASSUME NEW c \in Call, AnsweredAtComputer(c)  PROVE ShownInv'
  BY <1>5, AnsweredShows
<1>6. ASSUME NEW d \in Device, TurnEnded(d)  PROVE ShownInv'
  BY <1>6, TurnEndedShows
<1>7. ASSUME NEW d \in Device, NEW h \in Hook, Acknowledge(d, h)  PROVE ShownInv'
  BY <1>7, AcknowledgeShows
<1>8. CASE AcknowledgeSibling
  BY <1>8, AcknowledgeSiblingShows
<1>9. CASE Expire
  BY <1>9, ExpireShows
<1>10. CASE Start
  BY <1>10, StartShows
<1>11. CASE Tick
  BY <1>11, TickShows
<1>12. CASE UNCHANGED vars
  BY <1>12, ShownStutters
<1> QED
  BY <1>1, <1>2, <1>3, <1>4, <1>5, <1>6, <1>7, <1>8, <1>9, <1>10, <1>11, <1>12 DEF Next

LEMMA ShownMeansSeen == ShownInv => WaitingIsShown
BY DEF ShownInv, Undisturbed, RequestsAreShown, WaitingIsShown, Asks

\* WaitingIsShown: in a session whose hooks come undisturbed, whatever earlier
\* approvals looked like it, whichever of its two hooks comes first, and whatever
\* confirmation of another is under way, a call that waits is shown with its own
\* detail until the user, time or the device's settings close it.
THEOREM WaitingStaysShown == Spec => []WaitingIsShown
<1> QED
  BY ShownBegins, ShownIsKept, ShownMeansSeen, PTL DEF Spec
=============================================================================
