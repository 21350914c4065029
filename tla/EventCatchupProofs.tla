------------------------- MODULE EventCatchupProofs -------------------------
(***************************************************************************)
(* A client that is told there is no more has the right list, for any      *)
(* number of notifications and events, any limit of an answer, and any     *)
(* number of changes of its device.                                        *)
(***************************************************************************)
EXTENDS EventCatchup, SequenceTheorems, FiniteSetTheorems, TLAPS

-----------------------------------------------------------------------------
(***************************************************************************)
(* The inductive invariant.  CaughtUp speaks of the moment there is no     *)
(* more.  Before that moment what is wrong on the list must be on its way: *)
(* of every notification the list is right about or an event is yet to be  *)
(* read (ViewFollows).  That the newest event tells the status             *)
(* (LogTellsStatus) makes reading it enough, and that the cursor is found  *)
(* and the answer is given for the device as it is (Cursors, Requests)     *)
(* makes the next answer go on where the last one ended.                   *)
(***************************************************************************)
Event == [n : Notification, type : {"created", "acknowledged", "expired"}]

Requested == [for : {"nothing", "list", "active", "baseline", "page", "all", "rest"},
              enabled : BOOLEAN, since : Int]
Following == [view : SUBSET Notification, next : {"list", "baseline", "page", "all"},
              cursor : Int, listed : Nat]

CatchupTypes ==
    /\ status \in [Notification -> {"none", "active", "acknowledged", "expired"}]
    /\ due \subseteq Notification
    /\ log \in Seq(Event)
    /\ role \in {"member", "guest"} /\ enabled \in BOOLEAN
    /\ request \in Requested
    /\ client \in Following
    /\ current \in BOOLEAN /\ changed \in BOOLEAN /\ gap \subseteq Notification

Cursors ==
    /\ client.cursor \in DOMAIN log \union {0, FreshList}
    /\ client.next = "page" => client.cursor \in DOMAIN log
    /\ client.next = "all" => client.cursor # FreshList
    /\ client.next = "baseline" => client.cursor = FreshList
    /\ client.next = "list" /\ client.cursor \in DOMAIN log => log[client.cursor].n \in Own
    /\ client.cursor \in DOMAIN log /\ ~changed => Found(client.cursor)
    /\ client.listed <= Len(log)

Requests ==
    /\ request.for \in {"list", "active"} => client.next = "list"
    /\ request.for \in {"baseline", "page"} => client.next = request.for
    /\ request.for \in {"all", "rest"} => client.next = "all"
    /\ request.for # "nothing" /\ ~changed => request.enabled = enabled
    /\ request.for = "active" => request.enabled
    /\ request.for = "rest" /\ ~changed => request.since = client.cursor

LogTellsStatus ==
    \A n \in Notification :
       status[n] = "active" <=>
          \E i \in DOMAIN log :
             /\ log[i].n = n /\ log[i].type = "created"
             /\ \A j \in DOMAIN log : j > i => log[j].n # n

\* The list is right about n.
Right(n) == n \in client.view <=> enabled /\ n \in Active

\* Some of the events numbered by rows is about n.
Tells(rows, n) == \E i \in rows : log[i].n = n

ViewFollows ==
    ~changed =>
       /\ client.next \in {"page", "all"} =>
             \A n \in Notification \ gap : Right(n) \/ Tells(After(client.cursor), n)
       /\ client.next = "baseline" =>
             \A n \in Notification :
                Right(n) \/ Tells({i \in DOMAIN log : i > client.listed}, n)
       /\ client.next # "list" /\ ~enabled => client.view = {}
       /\ current => \A n \in Notification \ gap : Right(n)

CatchupInv == CatchupTypes /\ Cursors /\ Requests /\ LogTellsStatus /\ ViewFollows

-----------------------------------------------------------------------------
(***************************************************************************)
(* The newest row, and the first rows, of a set of them.                   *)
(***************************************************************************)
\* A set of natural numbers with an element has a least one.
LEMMA LeastOf ==
    ASSUME NEW T \in SUBSET Nat, T # {}
    PROVE  \E x \in T : \A y \in T : x <= y
<1> DEFINE Initials == {0 .. n : n \in T}
<1>1. Initials \subseteq FiniteSubsetsOf(Nat) /\ Initials # {}
  <2>1. \A n \in T : IsFiniteSet(0 .. n) /\ 0 .. n \subseteq Nat
    BY FS_Interval
  <2> QED  BY <2>1 DEF FiniteSubsetsOf
<1> HIDE DEF Initials
<1>2. PICK S \in Initials : \A R \in Initials : <<R, S>> \notin StrictSubsetOrdering(Nat)
  BY <1>1, FS_StrictSubsetOrderingWellFounded, WFMin
<1>3. PICK x \in T : S = 0 .. x
  BY DEF Initials
<1>4. ASSUME NEW y \in T, y < x  PROVE FALSE
  <2>1. /\ 0 .. y \subseteq 0 .. x /\ 0 .. y # 0 .. x
        /\ 0 .. y \in SUBSET Nat /\ 0 .. x \in SUBSET Nat
    BY <1>4
  <2>2. 0 .. y \in Initials
    BY DEF Initials
  <2> QED  BY <1>2, <1>3, <2>1, <2>2 DEF StrictSubsetOrdering
<1> QED  BY <1>4

\* Rows of the table have a newest one.
LEMMA NewestOf ==
    ASSUME NEW k \in Nat, NEW rows \in SUBSET (1 .. k), rows # {}
    PROVE  Newest(rows) \in rows /\ \A j \in rows : j <= Newest(rows)
<1> DEFINE Back == {k - i : i \in rows}
<1>1. Back \in SUBSET Nat /\ Back # {}
  <2>1. \A i \in rows : i \in Int /\ 1 <= i /\ i <= k
    OBVIOUS
  <2>2. \A i \in rows : k - i \in Nat
    BY <2>1
  <2> QED  BY <2>2
<1>2. PICK x \in Back : \A y \in Back : x <= y
  <2> HIDE DEF Back
  <2> QED  BY <1>1, LeastOf
<1>3. PICK i \in rows : x = k - i
  BY DEF Back
<1>4. \A j \in rows : k - j \in Back
  BY DEF Back
<1>5. \A j \in rows : j <= i
  BY <1>2, <1>3, <1>4
<1> QED  BY <1>5 DEF Newest

\* The first rows are those before some row, and all of them if they are fewer
\* than were asked for.
LEMMA FirstRows ==
    ASSUME NEW k \in Nat, NEW rows \in SUBSET (1 .. k), NEW limit \in Nat
    PROVE  /\ First(rows, limit) \subseteq rows
           /\ \A i \in rows, j \in First(rows, limit) : i <= j => i \in First(rows, limit)
           /\ IsFiniteSet(First(rows, limit)) /\ Cardinality(First(rows, limit)) \in Nat
<1>1. IsFiniteSet(rows)
  <2>1. IsFiniteSet(1 .. k)
    BY FS_Interval
  <2> QED  BY <2>1, FS_Subset
<1>2. First(rows, limit) \subseteq rows
  BY DEF First
<1>3. IsFiniteSet(First(rows, limit)) /\ Cardinality(First(rows, limit)) \in Nat
  BY <1>1, <1>2, FS_Subset, FS_CardinalityType
<1>4. ASSUME NEW i \in rows, NEW j \in First(rows, limit), i <= j
      PROVE  i \in First(rows, limit)
  <2>1. {h \in rows : h < i} \subseteq {h \in rows : h < j}
    <3>1. j \in rows /\ \A h \in rows : h \in Int
      BY <1>2
    <3>2. \A h \in rows : h < i => h < j
      <4> TAKE h \in rows
      <4>1. h \in Int /\ i \in Int /\ j \in Int
        BY <3>1
      <4> QED  BY <1>4, <4>1
    <3> QED  BY <3>2
  <2>2. IsFiniteSet({h \in rows : h < j})
    BY <1>1, FS_Subset
  <2>3. /\ Cardinality({h \in rows : h < i}) <= Cardinality({h \in rows : h < j})
        /\ Cardinality({h \in rows : h < i}) \in Nat
        /\ Cardinality({h \in rows : h < j}) \in Nat
    BY <2>1, <2>2, FS_Subset, FS_CardinalityType
  <2>4. Cardinality({h \in rows : h < j}) < limit
    BY DEF First
  <2> QED  BY <2>3, <2>4 DEF First
<1> QED  BY <1>2, <1>3, <1>4

\* Fewer rows than were asked for are all there are.
LEMMA FewAreAll ==
    ASSUME NEW k \in Nat, NEW rows \in SUBSET (1 .. k), NEW limit \in Nat,
           Cardinality(First(rows, limit)) < limit
    PROVE  First(rows, limit) = rows
<1> DEFINE missing == rows \ First(rows, limit)
<1>1. SUFFICES ASSUME missing # {}  PROVE FALSE
  BY DEF First
<1>2. PICK x \in missing : \A y \in missing : x <= y
  <2>1. missing \in SUBSET Nat
    <3>1. rows \subseteq Nat
      OBVIOUS
    <3> QED  BY <3>1
  <2> HIDE DEF missing
  <2> QED  BY <1>1, <2>1, LeastOf
<1>3. {h \in rows : h < x} = First(rows, limit)
  <2>1. \A h \in rows : h < x => h \in First(rows, limit)
    BY <1>2
  <2>2. \A h \in First(rows, limit) : h \in rows /\ (x <= h => x \in First(rows, limit))
    BY <1>2, FirstRows
  <2>3. x \in rows /\ x \notin First(rows, limit) /\ \A h \in rows : h \in Int
    BY <1>2
  <2>4. \A h \in First(rows, limit) : h \in rows /\ h < x
    <3> TAKE h \in First(rows, limit)
    <3>1. h \in rows /\ h \in Int /\ x \in Int /\ ~(x <= h)
      BY <2>2, <2>3
    <3> QED  BY <3>1
  <2> QED  BY <2>1, <2>4
<1>4. Cardinality({h \in rows : h < x}) < limit
  BY <1>3
<1> QED  BY <1>2, <1>4 DEF First

\* What the first few rows of the first rows are.
LEMMA AllOfFew ==
    ASSUME NEW k \in Nat, NEW rows \in SUBSET (1 .. k), NEW limit \in Nat,
           Cardinality(rows) <= limit
    PROVE  First(rows, limit) = rows
<1>1. IsFiniteSet(rows)
  <2>1. IsFiniteSet(1 .. k)
    BY FS_Interval
  <2> QED  BY <2>1, FS_Subset
<1>2. SUFFICES ASSUME NEW i \in rows
               PROVE  Cardinality({h \in rows : h < i}) < limit
  BY DEF First
<1>3. {h \in rows : h < i} \subseteq rows /\ {h \in rows : h < i} # rows
  OBVIOUS
<1>4. /\ Cardinality({h \in rows : h < i}) < Cardinality(rows)
      /\ Cardinality({h \in rows : h < i}) \in Nat /\ Cardinality(rows) \in Nat
  BY <1>1, <1>3, FS_Subset, FS_CardinalityType
<1> QED  BY <1>4

-----------------------------------------------------------------------------
(***************************************************************************)
(* The events table.                                                       *)
(***************************************************************************)
LEMMA TableFacts ==
    ASSUME CatchupTypes
    PROVE  /\ Len(log) \in Nat /\ DOMAIN log = 1 .. Len(log)
           /\ \A i \in DOMAIN log : log[i] \in Event /\ log[i].n \in Notification
           /\ Scope \subseteq 1 .. Len(log)
           /\ \A cursor \in Int : After(cursor) \subseteq 1 .. Len(log)
           /\ \A n \in Notification : n \in Active <=> status[n] = "active" /\ Visible(n)
           /\ Scope = {} => Latest = 0
           /\ Scope # {} => Latest \in Scope /\ \A j \in Scope : j <= Latest
<1>1. /\ Len(log) \in Nat /\ DOMAIN log = 1 .. Len(log)
      /\ \A i \in DOMAIN log : log[i] \in Event
  BY LenProperties, ElementOfSeq DEF CatchupTypes, Requested, Following
<1>2. \A i \in DOMAIN log : log[i].n \in Notification
  BY <1>1 DEF Event
<1>3. Scope \subseteq 1 .. Len(log)
  BY <1>1 DEF Scope
<1>4. \A cursor \in Int : After(cursor) \subseteq 1 .. Len(log)
  BY <1>3 DEF After
<1>5. Scope # {} => Latest \in Scope /\ \A j \in Scope : j <= Latest
  BY <1>1, <1>3, NewestOf DEF Latest
<1> QED  BY <1>1, <1>2, <1>3, <1>4, <1>5 DEF Latest, Active

\* When events are only added, and one about every notification that becomes
\* active or ceases to be, a list that was on its way still is.
LEMMA TableGrows ==
    ASSUME CatchupTypes, Cursors, ViewFollows,
           log' \in Seq(Event), Len(log) <= Len(log'),
           \A i \in DOMAIN log : log'[i] = log[i],
           \A n \in Notification :
              (status[n] = "active") # (status'[n] = "active") =>
                 \E i \in DOMAIN log' : i > Len(log) /\ log'[i].n = n,
           current' => current /\ UNCHANGED status,
           UNCHANGED <<role, enabled, client, changed, gap>>
    PROVE  Cursors' /\ ViewFollows'
<1>1. /\ Len(log) \in Nat /\ DOMAIN log = 1 .. Len(log)
      /\ Len(log') \in Nat /\ DOMAIN log' = 1 .. Len(log')
      /\ DOMAIN log \subseteq DOMAIN log'
  BY TableFacts, LenProperties
<1>2. \A n \in Notification : Visible(n)' <=> Visible(n)
  BY DEF Visible
<1>3. \A i \in DOMAIN log : log[i].n \in Notification
  BY TableFacts
<1>4. \A i \in DOMAIN log : i \in Scope' <=> i \in Scope
  BY <1>1, <1>2, <1>3 DEF Scope
<1>5. Cursors'
  <2>1. client'.cursor = FreshList \/ client'.cursor = 0 \/ client'.cursor \in DOMAIN log
    BY DEF Cursors
  <2>2. FreshList \notin DOMAIN log' /\ 0 \notin DOMAIN log'
    BY <1>1 DEF FreshList, Following
  <2>3. client'.listed <= Len(log')
    BY <1>1 DEF Cursors, CatchupTypes, Requested, Following
  <2> QED  BY <1>1, <1>3, <1>4, <2>1, <2>2, <2>3 DEF Cursors, Found
<1>6. client.cursor \in Int /\ client.listed \in Int /\ client.cursor <= Len(log)
  BY <1>1 DEF CatchupTypes, Requested, Following, Cursors, FreshList
\* What changes is told by a new event, in the scope of those it concerns.
<1>7. ASSUME NEW n \in Notification, Right(n), ~Right(n)'
      PROVE  \E i \in DOMAIN log' : i > Len(log) /\ log'[i].n = n /\ i \in Scope'
  <2>1. (n \in Active) # (n \in Active')
    BY <1>7 DEF Right
  <2>2. Visible(n)' /\ (status[n] = "active") # (status'[n] = "active")
    BY <1>2, <2>1 DEF Active
  <2>3. PICK i \in DOMAIN log' : i > Len(log) /\ log'[i].n = n
    BY <2>2
  <2> QED  BY <2>2, <2>3 DEF Scope
<1>8. ASSUME ~changed', client'.next \in {"page", "all"}, NEW n \in Notification \ gap'
      PROVE  Right(n)' \/ Tells(After(client.cursor), n)'
  <2>1. Right(n) \/ Tells(After(client.cursor), n)
    BY <1>8 DEF ViewFollows
  <2>2. CASE Right(n)
    BY <1>1, <1>6, <1>7, <2>2 DEF Tells, After
  <2>3. CASE Tells(After(client.cursor), n)
    <3>1. PICK i \in Scope : i > client.cursor /\ log[i].n = n
      BY <2>3 DEF Tells, After
    <3>2. i \in DOMAIN log /\ i \in Scope'
      BY <1>4 DEF Scope
    <3> QED  BY <3>1, <3>2 DEF Tells, After
  <2> QED  BY <2>1, <2>2, <2>3
<1>9. ASSUME ~changed', client'.next = "baseline", NEW n \in Notification
      PROVE  Right(n)' \/ Tells({i \in DOMAIN log : i > client.listed}, n)'
  <2>1. Right(n) \/ Tells({i \in DOMAIN log : i > client.listed}, n)
    BY <1>9 DEF ViewFollows
  <2>2. client.listed <= Len(log)
    BY DEF Cursors
  <2>3. CASE Right(n)
    BY <1>1, <1>6, <1>7, <2>2, <2>3 DEF Tells
  <2>4. CASE Tells({i \in DOMAIN log : i > client.listed}, n)
    BY <1>1, <2>4 DEF Tells
  <2> QED  BY <2>1, <2>3, <2>4
<1>10. ASSUME ~changed', current', NEW n \in Notification \ gap'
       PROVE  Right(n)'
  <2>1. Right(n) /\ Active' = Active
    BY <1>10, <1>2 DEF ViewFollows, Active
  <2> QED  BY <2>1 DEF Right
<1>11. ViewFollows'
  BY <1>8, <1>9, <1>10 DEF ViewFollows
<1> QED  BY <1>5, <1>11

\* Requests are about the client and the device only.
LEMMA RequestsKept ==
    ASSUME Requests, UNCHANGED <<request, client, enabled, changed>>
    PROVE  Requests'
BY DEF Requests

-----------------------------------------------------------------------------
(***************************************************************************)
(* The service's steps.                                                    *)
(***************************************************************************)
LEMMA CommitStep ==
    ASSUME CatchupInv, NEW n \in Notification,
           NEW new \in {"active", "acknowledged"}, NEW type \in {"created", "acknowledged"},
           new = "active" <=> type = "created",
           Commit(n, new, type)
    PROVE  CatchupInv'
<1>1. CatchupTypes /\ Cursors /\ Requests /\ LogTellsStatus /\ ViewFollows
  BY DEF CatchupInv
<1>2. /\ status' = [status EXCEPT ![n] = new]
      /\ log' = Append(log, [n |-> n, type |-> type])
      /\ current' = FALSE
      /\ UNCHANGED <<due, role, enabled, request, client, changed, gap>>
  BY DEF Commit, device, history
<1> DEFINE e == [n |-> n, type |-> type]
<1>3. e \in Event /\ e.n = n /\ e.type = type
  BY DEF Event
<1>4. /\ Len(log) \in Nat /\ DOMAIN log = 1 .. Len(log)
      /\ log' \in Seq(Event) /\ Len(log') = Len(log) + 1
      /\ DOMAIN log' = 1 .. Len(log) + 1
      /\ \A i \in DOMAIN log : log'[i] = log[i]
      /\ log'[Len(log) + 1] = e
  <2> HIDE DEF e
  <2>1. log \in Seq(Event) /\ log' = Append(log, e)
    BY <1>1, <1>2 DEF CatchupTypes, Requested, Following, e
  <2>2. Append(log, e) \in Seq(Event)
    BY <1>3, <2>1, AppendProperties
  <2>3. /\ Len(Append(log, e)) = Len(log) + 1
        /\ \A i \in 1 .. Len(log) : Append(log, e)[i] = log[i]
        /\ Append(log, e)[Len(log) + 1] = e
    BY <1>3, <2>1, AppendProperties
  <2>4. Len(log) \in Nat /\ DOMAIN log = 1 .. Len(log)
    BY <1>1, TableFacts
  <2>5. DOMAIN Append(log, e) = 1 .. Len(Append(log, e))
    BY <2>2, LenProperties
  <2> QED  BY <2>1, <2>2, <2>3, <2>4, <2>5
<1>5. CatchupTypes'
  BY <1>1, <1>2, <1>4 DEF CatchupTypes, Requested, Following
<1>6. /\ status'[n] = new
      /\ \A m \in Notification : m # n => status'[m] = status[m]
  BY <1>1, <1>2 DEF CatchupTypes, Requested, Following
<1>7. \A m \in Notification :
         (status[m] = "active") # (status'[m] = "active") =>
            \E i \in DOMAIN log' : i > Len(log) /\ log'[i].n = m
  BY <1>3, <1>4, <1>6
<1>8. Cursors' /\ ViewFollows'
  BY <1>1, <1>2, <1>4, <1>7, TableGrows
<1>9. LogTellsStatus'
  <2>1. ASSUME NEW m \in Notification, m # n
        PROVE  status'[m] = "active" <=>
                  \E i \in DOMAIN log' :
                     /\ log'[i].n = m /\ log'[i].type = "created"
                     /\ \A j \in DOMAIN log' : j > i => log'[j].n # m
    <3>1. status'[m] = "active" <=>
             \E i \in DOMAIN log :
                /\ log[i].n = m /\ log[i].type = "created"
                /\ \A j \in DOMAIN log : j > i => log[j].n # m
      BY <1>1, <1>6, <2>1 DEF LogTellsStatus
    <3>2. \A i \in DOMAIN log' : log'[i].n = m => i \in DOMAIN log
      BY <1>3, <1>4, <2>1
    <3> QED  BY <1>3, <1>4, <2>1, <3>1, <3>2
  <2>2. status'[n] = "active" <=>
           \E i \in DOMAIN log' :
              /\ log'[i].n = n /\ log'[i].type = "created"
              /\ \A j \in DOMAIN log' : j > i => log'[j].n # n
    <3>1. \A i \in DOMAIN log' : i = Len(log) + 1 \/ Len(log) + 1 > i
      BY <1>4
    <3>2. Len(log) + 1 \in DOMAIN log' /\ ~(\E j \in DOMAIN log' : j > Len(log) + 1)
      BY <1>4
    <3> QED  BY <1>3, <1>4, <1>6, <3>1, <3>2
  <2> QED  BY <2>1, <2>2 DEF LogTellsStatus
<1>10. Requests'
  BY <1>1, <1>2, RequestsKept
<1> QED  BY <1>5, <1>8, <1>9, <1>10 DEF CatchupInv

\* Expiry adds one event for each notification that ceases to be active.
LEMMA ExpiryStep ==
    ASSUME CatchupInv, ExpireDue, UNCHANGED <<role, enabled, client, changed, gap>>
    PROVE  /\ Cursors' /\ LogTellsStatus' /\ ViewFollows'
           /\ status' \in [Notification -> {"none", "active", "acknowledged", "expired"}]
           /\ due' = due /\ log' \in Seq(Event) /\ current' \in BOOLEAN
<1>1. CatchupTypes /\ Cursors /\ LogTellsStatus /\ ViewFollows
  BY DEF CatchupInv
<1>2. /\ status' = [n \in Notification |-> IF n \in Overdue THEN "expired" ELSE status[n]]
      /\ current' = (current /\ Overdue = {})
      /\ due' = due
  BY DEF ExpireDue
<1>3. PICK order \in Bijection(1 .. Cardinality(Overdue), Overdue) :
         log' = log \o [i \in DOMAIN order |-> [n |-> order[i], type |-> "expired"]]
  BY DEF ExpireDue
<1> DEFINE k == Cardinality(Overdue)
           news == [i \in DOMAIN order |-> [n |-> order[i], type |-> "expired"]]
<1>4. Overdue \subseteq Notification /\ k \in Nat
  <2>1. Overdue \subseteq Notification /\ IsFiniteSet(Notification)
    BY <1>1, CatchupAssumption DEF Overdue, CatchupTypes, Requested, Following
  <2> QED  BY <2>1, FS_Subset, FS_CardinalityType
<1>5. /\ order \in [1 .. k -> Overdue] /\ DOMAIN order = 1 .. k
      /\ \A n \in Overdue : \E i \in 1 .. k : order[i] = n
  BY <1>3 DEF Bijection, Injection, Surjection
<1>6. /\ news \in Seq(Event) /\ Len(news) = k
      /\ \A i \in 1 .. k : news[i].n = order[i] /\ news[i].type = "expired"
      /\ \A i \in 1 .. k : order[i] \in Overdue
  <2>1. \A i \in 1 .. k : news[i] = [n |-> order[i], type |-> "expired"] /\ order[i] \in Overdue
    BY <1>5
  <2>2. news \in [1 .. k -> Event]
    BY <1>4, <1>5 DEF Event
  <2>3. news \in Seq(Event) /\ Len(news) = k
    <3> HIDE DEF news
    <3>1. news \in Seq(Event)
      BY <1>4, <2>2
    <3>2. Len(news) \in Nat /\ DOMAIN news = 1 .. Len(news)
      BY <3>1, LenProperties
    <3> QED  BY <1>4, <2>2, <3>1, <3>2
  <2> QED  BY <2>1, <2>3
<1>7. /\ Len(log) \in Nat /\ DOMAIN log = 1 .. Len(log)
      /\ log' \in Seq(Event) /\ Len(log') = Len(log) + k
      /\ DOMAIN log' = 1 .. Len(log) + k
      /\ \A i \in DOMAIN log : log'[i] = log[i]
      /\ \A i \in 1 .. k : log'[Len(log) + i] = news[i]
  <2>1. log' = log \o news /\ log \in Seq(Event) /\ news \in Seq(Event) /\ Len(news) = k
    BY <1>1, <1>3, <1>6 DEF CatchupTypes, Requested, Following
  <2> HIDE DEF news
  <2>2. /\ log \o news \in Seq(Event)
        /\ Len(log \o news) = Len(log) + Len(news)
        /\ \A i \in 1 .. Len(log) + Len(news) :
              (log \o news)[i] = IF i <= Len(log) THEN log[i] ELSE news[i - Len(log)]
    BY <2>1, ConcatProperties
  <2>3. Len(log) \in Nat /\ DOMAIN log = 1 .. Len(log)
    BY <1>1, TableFacts
  <2>4. DOMAIN (log \o news) = 1 .. Len(log \o news)
    BY <2>2, LenProperties
  <2>5. ASSUME NEW i \in 1 .. k  PROVE (log \o news)[Len(log) + i] = news[i]
    <3>1. /\ Len(log) + i \in 1 .. Len(log) + Len(news) /\ ~(Len(log) + i <= Len(log))
          /\ (Len(log) + i) - Len(log) = i
      BY <1>4, <2>1, <2>3
    <3> QED  BY <2>2, <3>1
  <2>6. \A i \in 1 .. Len(log) : i \in 1 .. Len(log) + Len(news) /\ i <= Len(log)
    BY <1>4, <2>1, <2>3
  <2> QED  BY <2>1, <2>2, <2>3, <2>4, <2>5, <2>6
<1> HIDE DEF news
<1>8. \A i \in DOMAIN log' :
         i \in DOMAIN log \/ \E j \in 1 .. k : i = Len(log) + j
  <2> TAKE i \in DOMAIN log'
  <2>1. i \in Int /\ 1 <= i /\ i <= Len(log) + k
    BY <1>4, <1>7
  <2>2. CASE i <= Len(log)
    BY <1>7, <2>1, <2>2
  <2>3. CASE i > Len(log)
    <3>1. i - Len(log) \in 1 .. k /\ i = Len(log) + (i - Len(log))
      BY <1>4, <1>7, <2>1, <2>3
    <3> QED  BY <3>1
  <2> QED  BY <1>7, <2>1, <2>2, <2>3
<1>9. \A i \in DOMAIN log' :
         i \in DOMAIN log \/ (log'[i].n \in Overdue /\ log'[i].type = "expired")
  BY <1>6, <1>7, <1>8, SMTT(30)
<1>10. \A n \in Overdue : \E i \in DOMAIN log' : i > Len(log) /\ log'[i].n = n
  <2> TAKE n \in Overdue
  <2>1. PICK j \in 1 .. k : order[j] = n
    BY <1>5
  <2>2. Len(log) + j \in DOMAIN log' /\ Len(log) + j > Len(log)
    BY <1>4, <1>7
  <2> QED  BY <1>6, <1>7, <2>1, <2>2
<1>11. \A n \in Notification : status'[n] = IF n \in Overdue THEN "expired" ELSE status[n]
  BY <1>2
<1>12. Cursors' /\ ViewFollows'
  <2>1. \A n \in Notification :
           (status[n] = "active") # (status'[n] = "active") =>
              \E i \in DOMAIN log' : i > Len(log) /\ log'[i].n = n
    BY <1>10, <1>11
  <2>2. Len(log) <= Len(log')
    BY <1>4, <1>7
  <2>3. current' => current /\ UNCHANGED status
    BY <1>1, <1>2 DEF CatchupTypes, Requested, Following
  <2> QED  BY <1>1, <1>7, <2>1, <2>2, <2>3, TableGrows
<1>13. LogTellsStatus'
  <2> SUFFICES ASSUME NEW n \in Notification
               PROVE  status'[n] = "active" <=>
                         \E i \in DOMAIN log' :
                            /\ log'[i].n = n /\ log'[i].type = "created"
                            /\ \A j \in DOMAIN log' : j > i => log'[j].n # n
    BY DEF LogTellsStatus
  <2>1. CASE n \in Overdue
    <3>1. status'[n] # "active"
      BY <1>11, <2>1
    <3>2. \A i \in DOMAIN log' : log'[i].type = "created" => i \in DOMAIN log
      BY <1>9
    <3>3. \A i \in DOMAIN log : i <= Len(log) /\ i \in Int
      BY <1>7
    <3>4. PICK last \in DOMAIN log' : last > Len(log) /\ log'[last].n = n
      BY <1>10, <2>1
    <3>5. \A i \in DOMAIN log : last > i
      BY <1>4, <1>7, <3>3, <3>4
    <3> QED  BY <3>1, <3>2, <3>4, <3>5
  <2>2. CASE n \notin Overdue
    <3>1. status'[n] = "active" <=>
             \E i \in DOMAIN log :
                /\ log[i].n = n /\ log[i].type = "created"
                /\ \A j \in DOMAIN log : j > i => log[j].n # n
      BY <1>1, <1>11, <2>2 DEF LogTellsStatus
    <3>2. \A i \in DOMAIN log' : log'[i].n = n => i \in DOMAIN log
      BY <1>9, <2>2
    <3>3. DOMAIN log \subseteq DOMAIN log' /\ \A i \in DOMAIN log : log'[i] = log[i]
      BY <1>4, <1>7
    <3> QED  BY <3>1, <3>2, <3>3
  <2> QED  BY <2>1, <2>2
<1>14. status' \in [Notification -> {"none", "active", "acknowledged", "expired"}]
  BY <1>1, <1>2 DEF CatchupTypes, Requested, Following
<1> QED  BY <1>1, <1>2, <1>7, <1>12, <1>13, <1>14 DEF CatchupTypes, Requested, Following

LEMMA BecomeDueStep ==
    ASSUME CatchupInv, NEW n \in Notification, BecomeDue(n)
    PROVE  CatchupInv'
<1>1. UNCHANGED <<status, log, role, enabled, request, client, current, changed, gap>>
      /\ due' \subseteq Notification
  BY DEF BecomeDue, device, history, CatchupInv, CatchupTypes, Requested, Following
<1>2. CatchupTypes' /\ Requests' /\ LogTellsStatus'
  BY <1>1 DEF CatchupInv, CatchupTypes, Requested, Following, Requests, LogTellsStatus
<1>3. Cursors' /\ ViewFollows'
  BY <1>1 DEF CatchupInv, Cursors, ViewFollows, Found, Right, Tells, After, Scope, Active, Visible
<1> QED  BY <1>2, <1>3 DEF CatchupInv

LEMMA ExpireStep ==
    ASSUME CatchupInv, Expire
    PROVE  CatchupInv'
<1>1. ExpireDue /\ UNCHANGED <<role, enabled, request, client, changed, gap>>
  BY DEF Expire, device, history
<1>2. /\ Cursors' /\ LogTellsStatus' /\ ViewFollows'
      /\ status' \in [Notification -> {"none", "active", "acknowledged", "expired"}]
      /\ due' = due /\ log' \in Seq(Event) /\ current' \in BOOLEAN
  BY <1>1, ExpiryStep
<1>3. CatchupTypes'
  BY <1>1, <1>2 DEF CatchupInv, CatchupTypes, Requested, Following
<1>4. Requests'
  BY <1>1, RequestsKept DEF CatchupInv
<1> QED  BY <1>2, <1>3, <1>4 DEF CatchupInv

\* What a change of the device conceals or shows is not expected of the client.
LEMMA ChangeDeviceStep ==
    ASSUME CatchupInv, ChangeDevice
    PROVE  CatchupInv'
<1>1. UNCHANGED <<status, due, log, request, client, current, gap>> /\ changed' = TRUE
  BY DEF ChangeDevice, table
<1>2. role' \in {"member", "guest"} /\ enabled' \in BOOLEAN
  BY DEF ChangeDevice, CatchupInv, CatchupTypes, Requested, Following
<1>3. CatchupTypes' /\ Requests' /\ LogTellsStatus' /\ Cursors' /\ ViewFollows'
  BY <1>1, <1>2
     DEF CatchupInv, CatchupTypes, Requests, LogTellsStatus, Cursors, ViewFollows
<1> QED  BY <1>3 DEF CatchupInv

-----------------------------------------------------------------------------
(***************************************************************************)
(* The client's steps.                                                     *)
(***************************************************************************)
\* What does not depend on the client, when only the client moves.
LEMMA TableStays ==
    ASSUME CatchupTypes, UNCHANGED <<status, due, log, role, enabled>>
    PROVE  /\ Scope' = Scope /\ Active' = Active
           /\ \A i \in Int : Found(i)' <=> Found(i)
           /\ \A cursor : After(cursor)' = {i \in Scope : i > cursor}
           /\ LogTellsStatus => LogTellsStatus'
<1>1. Scope' = Scope /\ Active' = Active
  BY DEF Scope, Active, Visible
<1> QED  BY <1>1 DEF Found, After, LogTellsStatus

LEMMA AskStep ==
    ASSUME CatchupInv, Ask
    PROVE  CatchupInv'
<1>1. /\ UNCHANGED <<status, due, log, role, enabled, client, gap>>
      /\ request' = [for |-> client.next, enabled |-> enabled, since |-> 0]
      /\ changed' = (changed /\ client.next # "list")
      /\ current' = (current /\ client.next # "list")
  BY DEF Ask, table, device
<1>2. CatchupTypes /\ Cursors /\ LogTellsStatus /\ ViewFollows
  BY DEF CatchupInv
<1>3. CatchupTypes'
  BY <1>1, <1>2 DEF CatchupTypes, Requested, Following
<1>4. /\ Scope' = Scope /\ Active' = Active /\ LogTellsStatus'
      /\ After(client.cursor)' = After(client.cursor)
  BY <1>1, <1>2, TableStays DEF After
<1>5. Requests'
  BY <1>1, <1>2 DEF Requests, CatchupTypes, Requested, Following
\* A list is asked for with a cursor that any role finds, or none.
<1>6. Cursors'
  <2>1. client.next = "list" /\ client.cursor \in DOMAIN log => Found(client.cursor)
    BY <1>2 DEF Cursors, Found, Scope, Visible
  <2> QED  BY <1>1, <1>2, <1>4, <2>1 DEF Cursors, Found
<1>7. ViewFollows'
  <2>1. \A n \in Notification : Right(n)' <=> Right(n)
    BY <1>1, <1>4 DEF Right
  <2>2. CASE client.next = "list"
    BY <1>1, <2>2 DEF ViewFollows
  <2>3. CASE client.next # "list"
    <3>1. changed' = changed /\ current' = current
      BY <1>1, <1>2, <2>3 DEF CatchupTypes, Requested, Following
    <3>2. UNCHANGED <<log, client, gap, enabled>>
      BY <1>1
    <3>3. \A n \in Notification :
             /\ Tells(After(client.cursor), n)' <=> Tells(After(client.cursor), n)
             /\ Tells({i \in DOMAIN log : i > client.listed}, n)' <=>
                Tells({i \in DOMAIN log : i > client.listed}, n)
      BY <1>4, <3>2 DEF Tells
    <3> QED  BY <1>2, <2>1, <3>1, <3>2, <3>3 DEF ViewFollows
  <2> QED  BY <2>2, <2>3
<1> QED  BY <1>3, <1>4, <1>5, <1>6, <1>7 DEF CatchupInv

\* When the client and the table stay, so does what is known of its list.
LEMMA ClientWaits ==
    ASSUME CatchupInv, UNCHANGED <<status, due, log, role, enabled, client, changed, gap, current>>,
           request' \in Requested,
           Requests'
    PROVE  CatchupInv'
<1>1. CatchupTypes'
  BY DEF CatchupInv, CatchupTypes, Requested, Following
<1>2. LogTellsStatus' /\ Cursors'
  BY DEF CatchupInv, LogTellsStatus, Cursors, Found, Scope, Visible
<1>3. ViewFollows'
  BY DEF CatchupInv, ViewFollows, Right, Tells, After, Scope, Active, Visible
<1> QED  BY <1>1, <1>2, <1>3 DEF CatchupInv

LEMMA LoseStep ==
    ASSUME CatchupInv, Lose
    PROVE  CatchupInv'
<1>1. UNCHANGED <<status, due, log, role, enabled, client, changed, gap, current>>
      /\ request' = Idle
  BY DEF Lose, table, device, history
<1>2. Requests' /\ request' \in Requested
  BY <1>1 DEF Requests, Idle, Requested
<1> QED  BY <1>1, <1>2, ClientWaits

LEMMA ListExpiresStep ==
    ASSUME CatchupInv, ListExpires
    PROVE  CatchupInv'
<1>1. /\ ExpireDue /\ UNCHANGED <<role, enabled, client, changed, gap>>
      /\ request.for = "list" /\ request.enabled
      /\ request' = [request EXCEPT !.for = "active"]
  BY DEF ListExpires, device, history
<1>2. CatchupTypes /\ Requests
  BY DEF CatchupInv
<1>3. /\ Cursors' /\ LogTellsStatus' /\ ViewFollows'
      /\ status' \in [Notification -> {"none", "active", "acknowledged", "expired"}]
      /\ due' = due /\ log' \in Seq(Event) /\ current' \in BOOLEAN
  BY <1>1, ExpiryStep
<1>4. CatchupTypes'
  BY <1>1, <1>2, <1>3 DEF CatchupTypes, Requested, Following
<1>5. Requests'
  BY <1>1, <1>2 DEF CatchupTypes, Requested, Following, Requests
<1> QED  BY <1>3, <1>4, <1>5 DEF CatchupInv

LEMMA LookUpStep ==
    ASSUME CatchupInv, LookUp
    PROVE  CatchupInv'
<1>1. /\ UNCHANGED <<status, due, log, role, enabled, client, changed, gap, current>>
      /\ request.for = "all"
      /\ request' = [request EXCEPT !.for = "rest",
                        !.since = IF Found(client.cursor) THEN client.cursor ELSE 0]
  BY DEF LookUp, table, device, history
<1>2. CatchupTypes /\ Cursors /\ Requests
  BY DEF CatchupInv
<1>3. request' \in Requested
  <2> DEFINE from == IF Found(client.cursor) THEN client.cursor ELSE 0
  <2>1. from \in Int /\ request' = [request EXCEPT !.for = "rest", !.since = from]
    BY <1>1, <1>2 DEF CatchupTypes, Requested, Following
  <2> HIDE DEF from
  <2> QED  BY <1>2, <2>1 DEF CatchupTypes, Requested, Following
\* A cursor that is not found is the beginning, or the device has changed.
<1>4. ~changed => request'.since = client.cursor
  BY <1>1, <1>2 DEF CatchupTypes, Requested, Following, Cursors, Requests
<1>5. Requests'
  BY <1>1, <1>2, <1>4 DEF CatchupTypes, Requested, Following, Requests
<1> QED  BY <1>1, <1>3, <1>5, ClientWaits

LEMMA ListAnswerStep ==
    ASSUME CatchupInv, ListAnswer
    PROVE  CatchupInv'
<1> DEFINE view == IF request.enabled THEN Active ELSE {}
<1>1. /\ UNCHANGED <<status, due, log, role, enabled, changed>>
      /\ request.for \in {"list", "active"}
      /\ client' = [view |-> view,
                    next |-> CASE client.cursor = FreshList -> "baseline"
                               [] client.cursor = 0 -> "list"
                               [] OTHER -> "page",
                    cursor |-> IF client.cursor = 0 THEN FreshList ELSE client.cursor,
                    listed |-> IF client.cursor = FreshList THEN Len(log) ELSE 0]
      /\ current' = (client.cursor = 0)
      /\ gap' = {} /\ request' = Idle
  BY DEF ListAnswer, table, device
<1>2. CatchupTypes /\ Cursors /\ Requests
  BY DEF CatchupInv
<1>3. /\ Len(log) \in Nat /\ DOMAIN log = 1 .. Len(log)
      /\ FreshList \in Int /\ FreshList # 0 /\ FreshList \notin DOMAIN log
  BY <1>2, TableFacts DEF FreshList
<1>4. client.next = "list"
  BY <1>1, <1>2 DEF Requests
<1>5. view \subseteq Notification
  BY DEF Active
<1> HIDE DEF view
<1>6. /\ client'.view = view
      /\ client.cursor = FreshList =>
            client'.next = "baseline" /\ client'.cursor = FreshList /\ client'.listed = Len(log)
      /\ client.cursor = 0 =>
            client'.next = "list" /\ client'.cursor = FreshList /\ client'.listed = 0
      /\ client.cursor \in DOMAIN log =>
            client'.next = "page" /\ client'.cursor = client.cursor /\ client'.listed = 0
  BY <1>1, <1>3
<1>7. client.cursor \in DOMAIN log \union {0, FreshList}
  BY <1>2 DEF Cursors
<1>8. CatchupTypes'
  <2>1. client' \in Following
    BY <1>1, <1>2, <1>3, <1>5 DEF CatchupTypes, Requested, Following
  <2>2. request' \in Requested
    BY <1>1 DEF Idle, Requested
  <2> QED  BY <1>1, <1>2, <2>1, <2>2 DEF CatchupTypes, Requested, Following
<1>9. /\ Scope' = Scope /\ Active' = Active /\ LogTellsStatus'
  BY <1>1, <1>2, TableStays DEF CatchupInv
<1>10. Cursors'
  BY <1>1, <1>2, <1>3, <1>4, <1>6, <1>7, <1>9 DEF Cursors, Found
<1>11. Requests'
  BY <1>1 DEF Requests, Idle
<1>12. ~changed' => /\ \A n \in Notification : Right(n)'
                    /\ ~enabled' => client'.view = {}
  <2>1. ~changed => request.enabled = enabled
    BY <1>1, <1>2 DEF Requests
  <2>2. ~changed => view = IF enabled THEN Active ELSE {}
    BY <2>1 DEF view
  <2> QED  BY <1>1, <1>6, <1>9, <2>2 DEF Right
<1>13. ViewFollows'
  BY <1>12 DEF ViewFollows
<1> QED  BY <1>8, <1>9, <1>10, <1>11, <1>13 DEF CatchupInv

LEMMA BaselineStep ==
    ASSUME CatchupInv, Baseline
    PROVE  CatchupInv'
<1>1. /\ UNCHANGED <<status, due, log, role, enabled, changed>>
      /\ request.for = "baseline"
      /\ client' = [client EXCEPT !.cursor = IF Latest = 0 THEN FreshList ELSE Latest,
                                  !.next = IF Latest = 0 THEN "list" ELSE "page",
                                  !.listed = 0]
      /\ gap' = {log[i].n : i \in client.listed + 1 .. Len(log)}
      /\ current' = TRUE /\ request' = Idle
  BY DEF Baseline, table, device
<1>2. CatchupTypes /\ Cursors /\ Requests /\ ViewFollows
  BY DEF CatchupInv
<1>3. /\ Len(log) \in Nat /\ DOMAIN log = 1 .. Len(log)
      /\ \A i \in DOMAIN log : log[i].n \in Notification
      /\ Scope \subseteq 1 .. Len(log)
      /\ Scope = {} => Latest = 0
      /\ Scope # {} => Latest \in Scope /\ \A j \in Scope : j <= Latest
      /\ FreshList \in Int /\ FreshList # 0 /\ FreshList \notin DOMAIN log
  BY <1>2, TableFacts DEF FreshList
<1>4. /\ client'.view = client.view /\ client'.listed = 0
      /\ Latest = 0 => client'.cursor = FreshList /\ client'.next = "list"
      /\ Latest # 0 => client'.cursor = Latest /\ client'.next = "page"
      /\ Latest \in Int /\ (Latest # 0 => Latest \in Scope)
  BY <1>1, <1>2, <1>3 DEF CatchupTypes, Requested, Following
<1>5. client.next = "baseline" /\ client.listed \in Int
  BY <1>1, <1>2 DEF Requests, CatchupTypes, Requested, Following
<1>6. \A n : Tells({i \in DOMAIN log : i > client.listed}, n) => n \in gap'
  BY <1>1, <1>3, <1>5 DEF Tells
<1>7. \A n \in Notification \ gap' : ~changed => Right(n)
  BY <1>2, <1>5, <1>6 DEF ViewFollows
<1>8. /\ Scope' = Scope /\ Active' = Active /\ LogTellsStatus'
  BY <1>1, <1>2, TableStays DEF CatchupInv
<1>9. CatchupTypes'
  <2>1. client' \in Following
    <3> DEFINE cursor == IF Latest = 0 THEN FreshList ELSE Latest
               next == IF Latest = 0 THEN "list" ELSE "page"
    <3>1. cursor \in Int /\ next \in {"list", "page"}
      BY <1>3, <1>4
    <3>2. client' = [client EXCEPT !.cursor = cursor, !.next = next, !.listed = 0]
      BY <1>1
    <3> HIDE DEF cursor, next
    <3> QED  BY <1>2, <3>1, <3>2 DEF CatchupTypes, Requested, Following
  <2>2. request' \in Requested
    BY <1>1 DEF Idle, Requested
  <2>3. gap' \subseteq Notification
    <3>1. 0 <= client.listed
      BY <1>2 DEF CatchupTypes, Requested, Following
    <3> QED  BY <1>1, <1>3, <1>5, <3>1
  <2> QED  BY <1>1, <1>2, <2>1, <2>2, <2>3 DEF CatchupTypes, Requested, Following
<1>10. Cursors'
  BY <1>1, <1>3, <1>4, <1>8 DEF Cursors, Found
<1>11. Requests'
  BY <1>1 DEF Requests, Idle
<1>12. ViewFollows'
  <2>1. \A n \in Notification \ gap' : ~changed' => Right(n)'
    BY <1>1, <1>4, <1>7, <1>8 DEF Right
  <2>2. ~changed' /\ ~enabled' => client'.view = {}
    BY <1>1, <1>2, <1>4, <1>5 DEF ViewFollows
  <2>3. client'.next \notin {"baseline", "all"}
    BY <1>4
  <2> QED  BY <2>1, <2>2, <2>3 DEF ViewFollows
<1> QED  BY <1>8, <1>9, <1>10, <1>11, <1>12 DEF CatchupInv

-----------------------------------------------------------------------------
(***************************************************************************)
(* Reading events.  Whatever of those after the cursor is read, as long as *)
(* none is left out before the last one, the list is right about the       *)
(* notifications they are about, or will be by an event that remains.      *)
(***************************************************************************)
LEMMA Reading ==
    ASSUME CatchupInv, ~changed, client.next \in {"page", "all"},
           UNCHANGED <<status, due, log, role, enabled, changed>>,
           request.enabled = enabled,
           NEW read \in SUBSET After(client.cursor),
           \A i \in After(client.cursor), j \in read : i <= j => i \in read,
           client' = [client EXCEPT !.view = View(read),
                                    !.cursor = IF read = {} THEN @ ELSE Newest(read)],
           gap \ {log[i].n : i \in read} \subseteq gap'
    PROVE  /\ \A n \in Notification \ gap' : Right(n)' \/ Tells(After(client.cursor), n)'
           /\ ~enabled' => client'.view = {}
           /\ read = After(client.cursor) => \A n \in Notification \ gap' : Right(n)'
<1>1. CatchupTypes /\ Cursors /\ LogTellsStatus /\ ViewFollows
  BY DEF CatchupInv
<1>2. /\ Len(log) \in Nat /\ DOMAIN log = 1 .. Len(log)
      /\ \A i \in DOMAIN log : log[i].n \in Notification /\ log[i] \in Event
      /\ Scope \subseteq 1 .. Len(log)
      /\ client.cursor \in Int
      /\ After(client.cursor) \subseteq 1 .. Len(log)
      /\ \A n \in Notification : n \in Active <=> status[n] = "active" /\ Visible(n)
  <2>1. client.cursor \in Int
    BY <1>1 DEF CatchupTypes, Requested, Following
  <2> QED  BY <1>1, <2>1, TableFacts
<1>3. read \subseteq 1 .. Len(log)
  BY <1>2
<1>4. read # {} => Newest(read) \in read /\ \A j \in read : j <= Newest(read)
  BY <1>2, <1>3, NewestOf
<1>5. /\ client'.view = View(read)
      /\ client'.cursor = IF read = {} THEN client.cursor ELSE Newest(read)
  BY <1>1 DEF CatchupTypes, Requested, Following
<1>6. Scope' = Scope /\ Active' = Active
  BY <1>1, TableStays
\* An event that was not read comes after the cursor still.
<1>7. ASSUME NEW i \in After(client.cursor), i \notin read
      PROVE  i \in After(client.cursor)'
  <2>1. i \in Scope /\ i > client.cursor /\ i \in Int
    BY <1>2 DEF After
  <2>2. read # {} => i > Newest(read)
    <3>1. read # {} => ~(i <= Newest(read)) /\ Newest(read) \in Int
      BY <1>3, <1>4, <1>7
    <3> QED  BY <2>1, <3>1
  <2> QED  BY <1>5, <1>6, <2>1, <2>2 DEF After
\* Of a notification nothing was read about, the list says what it said.
<1>8. ASSUME NEW n \in Notification, ~Tells(read, n)
      PROVE  n \in client'.view <=> n \in client.view
  <2>1. About(n, read) = {}
    BY <1>8 DEF About, Tells
  <2> QED  BY <1>5, <2>1 DEF View
<1>9. ASSUME NEW n \in Notification, ~Tells(read, n), n \notin gap'
      PROVE  Right(n) \/ \E i \in After(client.cursor) : log[i].n = n /\ i \notin read
  <2>1. n \notin gap
    BY <1>9 DEF Tells
  <2>2. Right(n) \/ Tells(After(client.cursor), n)
    BY <1>1, <2>1 DEF ViewFollows
  <2> QED  BY <1>9, <2>2 DEF Tells
\* Without reception the list stays empty.
<1>10. ~enabled => client'.view = {}
  <2> SUFFICES ASSUME ~enabled, NEW n \in Notification PROVE n \notin View(read)
    BY <1>5 DEF View
  <2>1. client.view = {}
    BY <1>1 DEF ViewFollows
  <2>2. \A i \in About(n, read) : log[i].type # "created"
    BY DEF About, Seen
  <2>3. About(n, read) \subseteq 1 .. Len(log)
    BY <1>3 DEF About
  <2>4. About(n, read) # {} => Newest(About(n, read)) \in About(n, read)
    BY <1>2, <2>3, NewestOf
  <2> QED  BY <2>1, <2>2, <2>4 DEF View
\* The newest event about a notification decides, if it was read.
<1>11. ASSUME NEW n \in Notification, Tells(read, n)
       PROVE  Right(n)' \/ \E i \in After(client.cursor) : log[i].n = n /\ i \notin read
  <2> DEFINE about == {i \in DOMAIN log : log[i].n = n}
  <2>1. PICK i \in read : log[i].n = n
    BY <1>11 DEF Tells
  <2>2. i \in Scope /\ i \in DOMAIN log /\ i > client.cursor /\ i \in Int
    BY <1>2, <1>3 DEF After
  <2>3. Visible(n)
    BY <2>1, <2>2 DEF Scope
  <2>4. about \subseteq 1 .. Len(log) /\ i \in about
    BY <1>2, <2>1, <2>2
  <2>5. Newest(about) \in about /\ \A j \in about : j <= Newest(about)
    <3> HIDE DEF about
    <3>1. about \in SUBSET (1 .. Len(log)) /\ about # {}
      BY <2>4
    <3> QED  BY <1>2, <3>1, NewestOf
  <2> DEFINE last == Newest(about)
  <2>6. /\ last \in DOMAIN log /\ log[last].n = n /\ last \in Int /\ last >= i
        /\ \A j \in DOMAIN log : log[j].n = n => j <= last
    BY <1>2, <2>4, <2>5
  <2> HIDE DEF last, about
  <2>7. last \in After(client.cursor)
    <3>1. last > client.cursor
      BY <1>2, <2>2, <2>6
    <3> QED  BY <2>3, <2>6, <3>1 DEF After, Scope
  <2>8. CASE last \notin read
    BY <2>6, <2>7, <2>8
  <2>9. CASE last \in read /\ enabled
    <3>1. last \in About(n, read)
      BY <2>6, <2>9 DEF About, Seen
    <3>2. About(n, read) \subseteq 1 .. Len(log) /\ About(n, read) \subseteq read
      BY <1>3 DEF About
    <3>3. /\ Newest(About(n, read)) \in About(n, read)
          /\ \A j \in About(n, read) : j <= Newest(About(n, read))
      BY <1>2, <3>1, <3>2, NewestOf
    <3>4. Newest(About(n, read)) = last
      <4>1. Newest(About(n, read)) <= last /\ last <= Newest(About(n, read))
        BY <1>2, <1>3, <2>6, <3>1, <3>3 DEF About
      <4>2. Newest(About(n, read)) \in Int
        BY <3>2, <3>3
      <4> QED  BY <2>6, <4>1, <4>2
    <3>5. n \in View(read) <=> log[last].type = "created"
      BY <3>1, <3>4 DEF View
    <3>6. status[n] = "active" <=> log[last].type = "created"
      <4>1. status[n] = "active" <=>
               \E j \in DOMAIN log :
                  /\ log[j].n = n /\ log[j].type = "created"
                  /\ \A h \in DOMAIN log : h > j => log[h].n # n
        BY <1>1 DEF LogTellsStatus
      <4>2. ASSUME NEW j \in DOMAIN log, log[j].n = n,
                   \A h \in DOMAIN log : h > j => log[h].n # n
            PROVE  j = last
        <5>1. j \in Int /\ j <= last /\ ~(last > j)
          BY <1>2, <2>6, <4>2
        <5> QED  BY <2>6, <5>1
      <4>3. \A h \in DOMAIN log : h > last => log[h].n # n
        BY <1>2, <2>6
      <4> QED  BY <2>6, <4>1, <4>2, <4>3
    <3>7. n \in client'.view <=> enabled' /\ n \in Active'
      BY <1>2, <1>5, <1>6, <2>3, <2>9, <3>5, <3>6
    <3> QED  BY <3>7 DEF Right
  <2>10. CASE ~enabled
    BY <1>10, <2>10 DEF Right
  <2> QED  BY <2>8, <2>9, <2>10
<1>12. ASSUME NEW n \in Notification \ gap'
       PROVE  Right(n)' \/ \E i \in After(client.cursor) : log[i].n = n /\ i \notin read
  <2>1. CASE Tells(read, n)
    BY <1>11, <2>1
  <2>2. CASE ~Tells(read, n)
    <3>1. Right(n) => Right(n)'
      BY <1>6, <1>8, <2>2 DEF Right
    <3> QED  BY <1>9, <2>2, <3>1
  <2> QED  BY <2>1, <2>2
<1>13. \A n \in Notification \ gap' : Right(n)' \/ Tells(After(client.cursor), n)'
  BY <1>7, <1>12 DEF Tells
<1> QED  BY <1>10, <1>12, <1>13

LEMMA PageStep ==
    ASSUME CatchupInv, Page
    PROVE  CatchupInv'
<1> DEFINE rows == Fetched(client.cursor)
           given == First(rows, Limit)
<1>1. /\ UNCHANGED <<status, due, log, role, enabled, changed>>
      /\ request.for = "page" /\ Found(client.cursor)
      /\ client' = [client EXCEPT !.view = View(given),
                                  !.cursor = IF given = {} THEN @ ELSE Newest(given)]
      /\ current' = ~HasMore(rows)
      /\ gap' = gap \ {log[i].n : i \in given}
      /\ request' = Idle
  BY DEF Page, table, device
<1>2. CatchupTypes /\ Cursors /\ Requests /\ ViewFollows
  BY DEF CatchupInv
<1>3. /\ Len(log) \in Nat /\ DOMAIN log = 1 .. Len(log)
      /\ Scope \subseteq 1 .. Len(log)
      /\ client.cursor \in Int
      /\ After(client.cursor) \subseteq 1 .. Len(log)
  <2>1. client.cursor \in Int
    BY <1>2 DEF CatchupTypes, Requested, Following
  <2> QED  BY <1>2, <2>1, TableFacts
<1>4. Limit \in Nat /\ Limit + 1 \in Nat
  BY CatchupAssumption
<1> DEFINE after == After(client.cursor)
<1>5. /\ rows = First(after, Limit + 1) /\ after \in SUBSET (1 .. Len(log))
  BY <1>3 DEF Fetched
<1>6. /\ rows \subseteq after
      /\ \A i \in after, j \in rows : i <= j => i \in rows
      /\ Cardinality(rows) \in Nat
  <2> HIDE DEF rows, after
  <2> QED  BY <1>3, <1>4, <1>5, FirstRows
<1>7. /\ given \subseteq rows
      /\ \A i \in rows, j \in given : i <= j => i \in given
  <2>1. rows \in SUBSET (1 .. Len(log))
    BY <1>5, <1>6
  <2> HIDE DEF rows
  <2> QED  BY <1>3, <1>4, <2>1, FirstRows
<1>8. ~HasMore(rows) => given = after
  <2> SUFFICES ASSUME ~HasMore(rows) PROVE given = after
    OBVIOUS
  <2>1. Cardinality(rows) <= Limit /\ Cardinality(rows) < Limit + 1
    BY <1>4, <1>6 DEF HasMore
  <2>2. rows = after
    <3> HIDE DEF after
    <3>1. Cardinality(First(after, Limit + 1)) < Limit + 1
      BY <1>5, <2>1
    <3>2. First(after, Limit + 1) = after
      <4> HIDE DEF rows
      <4> QED  BY <1>3, <1>4, <1>5, <3>1, FewAreAll
    <3> QED  BY <1>5, <3>2
  <2>3. given = rows
    <3>1. rows \in SUBSET (1 .. Len(log))
      BY <1>5, <1>6
    <3> HIDE DEF rows
    <3> QED  BY <1>3, <1>4, <2>1, <3>1, AllOfFew
  <2> QED  BY <2>2, <2>3
<1>9. \A i \in after, j \in given : i <= j => i \in given
  BY <1>6, <1>7
<1>10. /\ given \in SUBSET After(client.cursor)
       /\ given # {} => Newest(given) \in given /\ Newest(given) \in Scope
  <2>1. given \in SUBSET (1 .. Len(log)) /\ given \in SUBSET Scope
    BY <1>5, <1>6, <1>7 DEF After
  <2> HIDE DEF given, rows
  <2>2. given # {} => Newest(given) \in given
    BY <1>3, <2>1, NewestOf
  <2> QED  BY <1>6, <1>7, <2>1, <2>2
<1> HIDE DEF given, rows, after
<1>11. client.next = "page"
  BY <1>1, <1>2 DEF Requests
<1>12. ~changed => request.enabled = enabled
  BY <1>1, <1>2 DEF Requests
<1>13. /\ client'.view = View(given) /\ client'.next = "page"
       /\ client'.listed = client.listed
       /\ client'.cursor = IF given = {} THEN client.cursor ELSE Newest(given)
       /\ client'.cursor \in Scope /\ client'.cursor \in Int
  BY <1>1, <1>2, <1>3, <1>10, <1>11 DEF CatchupTypes, Requested, Following, Found
<1>14. CatchupTypes'
  <2>1. View(given) \subseteq Notification
    BY DEF View
  <2>2. client' \in Following
    <3> DEFINE cursor == IF given = {} THEN client.cursor ELSE Newest(given)
    <3>1. client' = [client EXCEPT !.view = View(given), !.cursor = cursor] /\ cursor \in Int
      BY <1>1, <1>13
    <3> HIDE DEF cursor
    <3> QED  BY <1>2, <2>1, <3>1 DEF CatchupTypes, Requested, Following
  <2>3. request' \in Requested
    BY <1>1 DEF Idle, Requested
  <2>4. current' \in BOOLEAN /\ gap' \subseteq Notification
    BY <1>1, <1>2 DEF HasMore, CatchupTypes, Requested, Following
  <2> QED  BY <1>1, <1>2, <2>2, <2>3, <2>4 DEF CatchupTypes, Requested, Following
<1>15. Scope' = Scope /\ LogTellsStatus'
  BY <1>1, <1>2, TableStays DEF CatchupInv
<1>16. Cursors'
  <2>1. client'.cursor \in DOMAIN log
    BY <1>3, <1>13
  <2> QED  BY <1>1, <1>2, <1>13, <1>15, <2>1, <1>3 DEF Cursors, Found, FreshList
<1>17. Requests'
  BY <1>1 DEF Requests, Idle
<1>18. ~changed =>
          /\ \A n \in Notification \ gap' : Right(n)' \/ Tells(After(client.cursor), n)'
          /\ ~enabled' => client'.view = {}
          /\ given = After(client.cursor) => \A n \in Notification \ gap' : Right(n)'
  <2>1. gap \ {log[i].n : i \in given} \subseteq gap'
    BY <1>1
  <2>2. \A i \in After(client.cursor), j \in given : i <= j => i \in given
    BY <1>9 DEF after
  <2> QED  BY <1>1, <1>10, <1>11, <1>12, <2>1, <2>2, Reading
<1>19. ViewFollows'
  BY <1>1, <1>8, <1>13, <1>18 DEF ViewFollows, after
<1> QED  BY <1>14, <1>15, <1>16, <1>17, <1>19 DEF CatchupInv

LEMMA RestStep ==
    ASSUME CatchupInv, Rest
    PROVE  CatchupInv'
<1> DEFINE rows == After(request.since)
<1>1. /\ UNCHANGED <<status, due, log, role, enabled, changed, gap>>
      /\ request.for = "rest"
      /\ client' = [client EXCEPT !.view = View(rows),
                                  !.cursor = IF rows = {} THEN @ ELSE Newest(rows)]
      /\ current' = TRUE /\ request' = Idle
  BY DEF Rest, table, device, history
<1>2. CatchupTypes /\ Cursors /\ Requests /\ ViewFollows
  BY DEF CatchupInv
<1>3. /\ Len(log) \in Nat /\ DOMAIN log = 1 .. Len(log)
      /\ Scope \subseteq 1 .. Len(log)
      /\ client.cursor \in Int
      /\ rows \in SUBSET (1 .. Len(log)) /\ rows \subseteq Scope
  <2>1. client.cursor \in Int /\ request.since \in Int
    BY <1>2 DEF CatchupTypes, Requested, Following
  <2> QED  BY <1>2, <2>1, TableFacts DEF After
<1>4. client.next = "all"
  BY <1>1, <1>2 DEF Requests
<1>5. ~changed => request.enabled = enabled /\ rows = After(client.cursor)
  BY <1>1, <1>2 DEF Requests
<1> HIDE DEF rows
<1>6. rows # {} => Newest(rows) \in rows /\ \A j \in rows : j <= Newest(rows)
  BY <1>3, NewestOf
<1>7. /\ client'.view = View(rows) /\ client'.next = "all"
      /\ client'.listed = client.listed
      /\ client'.cursor = IF rows = {} THEN client.cursor ELSE Newest(rows)
      /\ client'.cursor = client.cursor \/ client'.cursor \in Scope
      /\ client'.cursor \in Int
  BY <1>1, <1>2, <1>3, <1>4, <1>6 DEF CatchupTypes, Requested, Following
<1>8. CatchupTypes'
  <2>1. View(rows) \subseteq Notification
    BY DEF View
  <2>2. client' \in Following
    <3> DEFINE cursor == IF rows = {} THEN client.cursor ELSE Newest(rows)
    <3>1. client' = [client EXCEPT !.view = View(rows), !.cursor = cursor] /\ cursor \in Int
      BY <1>1, <1>7
    <3> HIDE DEF cursor
    <3> QED  BY <1>2, <2>1, <3>1 DEF CatchupTypes, Requested, Following
  <2>3. request' \in Requested
    BY <1>1 DEF Idle, Requested
  <2> QED  BY <1>1, <1>2, <2>2, <2>3 DEF CatchupTypes, Requested, Following
<1>9. Scope' = Scope /\ LogTellsStatus'
  BY <1>1, <1>2, TableStays DEF CatchupInv
<1>10. Cursors'
  <2>1. client'.cursor = client.cursor \/ client'.cursor \in DOMAIN log
    BY <1>3, <1>7
  <2>2. \A i \in Scope : i # FreshList
    BY <1>3 DEF FreshList
  <2> QED  BY <1>1, <1>2, <1>4, <1>7, <1>9, <2>1, <2>2 DEF Cursors, Found
<1>11. Requests'
  BY <1>1 DEF Requests, Idle
<1>12. ~changed =>
          /\ \A n \in Notification \ gap' : Right(n)' \/ Tells(After(client.cursor), n)'
          /\ ~enabled' => client'.view = {}
          /\ rows = After(client.cursor) => \A n \in Notification \ gap' : Right(n)'
  <2> SUFFICES ASSUME ~changed
               PROVE  /\ \A n \in Notification \ gap' : Right(n)' \/ Tells(After(client.cursor), n)'
                      /\ ~enabled' => client'.view = {}
                      /\ rows = After(client.cursor) => \A n \in Notification \ gap' : Right(n)'
    OBVIOUS
  <2>1. /\ rows \in SUBSET After(client.cursor)
        /\ \A i \in After(client.cursor), j \in rows : i <= j => i \in rows
        /\ gap \ {log[i].n : i \in rows} \subseteq gap'
    BY <1>1, <1>5
  <2> QED  BY <1>1, <1>4, <1>5, <2>1, Reading
<1>13. ViewFollows'
  BY <1>1, <1>5, <1>7, <1>12 DEF ViewFollows
<1> QED  BY <1>8, <1>9, <1>10, <1>11, <1>13 DEF CatchupInv

\* A cursor is not found by a guest only, of a notification that is not its own;
\* the newest event it is given instead is about one of its own.
LEMMA NotFoundStep ==
    ASSUME CatchupInv, NotFound
    PROVE  CatchupInv'
<1>1. /\ UNCHANGED <<status, due, log, role, enabled, changed, gap>>
      /\ request.for = "page" /\ ~Found(client.cursor)
      /\ client' = [client EXCEPT !.cursor = Latest, !.next = "list"]
      /\ current' = FALSE /\ request' = Idle
  BY DEF NotFound, table, device, history
<1>2. CatchupTypes /\ Cursors /\ Requests
  BY DEF CatchupInv
<1>3. /\ Len(log) \in Nat /\ DOMAIN log = 1 .. Len(log)
      /\ Scope \subseteq DOMAIN log
      /\ Scope = {} => Latest = 0
      /\ Scope # {} => Latest \in Scope
      /\ Latest \in Int
  BY <1>2, TableFacts
<1>4. client.next = "page" /\ client.cursor \in DOMAIN log
  BY <1>1, <1>2 DEF Requests, Cursors
<1>5. role = "guest" /\ changed
  BY <1>1, <1>2, <1>4 DEF Found, Scope, Visible, CatchupTypes, Requested, Following, Cursors
<1>6. Latest \in DOMAIN log => log[Latest].n \in Own /\ Latest \in Scope
  BY <1>3, <1>5 DEF Scope, Visible
<1>7. /\ client'.cursor = Latest /\ client'.next = "list"
      /\ client'.listed = client.listed
  BY <1>1, <1>2 DEF CatchupTypes, Requested, Following
<1>8. CatchupTypes'
  <2>1. client' \in Following
    BY <1>1, <1>2, <1>3 DEF CatchupTypes, Requested, Following
  <2>2. request' \in Requested
    BY <1>1 DEF Idle, Requested
  <2> QED  BY <1>1, <1>2, <2>1, <2>2 DEF CatchupTypes, Requested, Following
<1>9. Scope' = Scope /\ LogTellsStatus'
  BY <1>1, <1>2, TableStays DEF CatchupInv
<1>10. Cursors'
  BY <1>1, <1>2, <1>3, <1>6, <1>7, <1>9 DEF Cursors, Found
<1>11. Requests'
  BY <1>1 DEF Requests, Idle
<1>12. ViewFollows'
  BY <1>1, <1>5 DEF ViewFollows
<1> QED  BY <1>8, <1>9, <1>10, <1>11, <1>12 DEF CatchupInv

LEMMA ReloadStep ==
    ASSUME CatchupInv, Reload
    PROVE  CatchupInv'
<1>1. /\ UNCHANGED <<status, due, log, role, enabled, request, changed, gap>>
      /\ request = Idle /\ changed
      /\ client' = [client EXCEPT !.next = "list", !.cursor = FreshList]
      /\ current' = FALSE
  BY DEF Reload, table, device, history
<1>2. CatchupTypes /\ Cursors
  BY DEF CatchupInv
<1>3. Len(log) \in Nat /\ DOMAIN log = 1 .. Len(log)
  BY <1>2, TableFacts
<1>4. client'.cursor = FreshList /\ client'.next = "list" /\ client'.listed = client.listed
  BY <1>1, <1>2 DEF CatchupTypes, Requested, Following
<1>5. CatchupTypes'
  <2>1. FreshList \in Int
    BY DEF FreshList
  <2>2. client' \in Following
    BY <1>1, <1>2, <2>1 DEF CatchupTypes, Requested, Following
  <2> QED  BY <1>1, <1>2, <2>2 DEF CatchupTypes, Requested, Following
<1>6. LogTellsStatus'
  BY <1>1, <1>2, TableStays DEF CatchupInv
<1>7. FreshList \notin DOMAIN log
  BY <1>3 DEF FreshList
<1>8. Cursors' /\ Requests' /\ ViewFollows'
  BY <1>1, <1>2, <1>4, <1>7 DEF Cursors, Requests, Idle, Requested, ViewFollows
<1> QED  BY <1>5, <1>6, <1>8 DEF CatchupInv

-----------------------------------------------------------------------------
LEMMA CatchupBegins == CatchupInit => CatchupInv
<1> SUFFICES ASSUME CatchupInit PROVE CatchupInv
  OBVIOUS
<1>1. PICK way \in Way :
         client = [view |-> {}, listed |-> 0,
                   next |-> IF way = "all" THEN "all" ELSE "list",
                   cursor |-> IF way = "all" THEN 0 ELSE FreshList]
  BY DEF CatchupInit
<1>2. /\ client.view = {} /\ client.listed = 0
      /\ \/ client.next = "all" /\ client.cursor = 0
         \/ client.next = "list" /\ client.cursor = FreshList
  BY <1>1
<1>3. log = <<>> /\ log \in Seq(Event) /\ DOMAIN log = {} /\ Len(log) = 0
  BY DEF CatchupInit
<1>4. CatchupTypes
  <2>1. client \in Following
    BY <1>1 DEF FreshList, Following
  <2>2. request \in Requested
    BY DEF CatchupInit, Idle, Requested
  <2>3. /\ status \in [Notification -> {"none", "active", "acknowledged", "expired"}]
        /\ due \subseteq Notification
        /\ role \in {"member", "guest"} /\ enabled \in BOOLEAN
        /\ current \in BOOLEAN /\ changed \in BOOLEAN /\ gap \subseteq Notification
    BY DEF CatchupInit
  <2> QED  BY <1>3, <2>1, <2>2, <2>3 DEF CatchupTypes, Requested, Following
<1>5. Cursors /\ Requests /\ LogTellsStatus
  BY <1>2, <1>3 DEF CatchupInit, Cursors, Requests, Idle, Requested, LogTellsStatus, FreshList
<1>6. Active = {}
  BY DEF Active, CatchupInit
<1>7. ViewFollows
  BY <1>2, <1>6 DEF CatchupInit, ViewFollows, Right
<1> QED  BY <1>4, <1>5, <1>7 DEF CatchupInv

LEMMA CatchupKept == CatchupInv /\ [CatchupNext]_catchupVars => CatchupInv'
<1> SUFFICES ASSUME CatchupInv, [CatchupNext]_catchupVars PROVE CatchupInv'
  OBVIOUS
<1>1. ASSUME NEW n \in Notification, Publish(n) PROVE CatchupInv'
  BY <1>1, CommitStep DEF Publish
<1>2. ASSUME NEW n \in Notification, PublishSilently(n) PROVE CatchupInv'
  BY <1>2, CommitStep DEF PublishSilently
<1>3. ASSUME NEW n \in Notification, Acknowledge(n) PROVE CatchupInv'
  BY <1>3, CommitStep DEF Acknowledge
<1>4. ASSUME NEW n \in Notification, ShowAgain(n) PROVE CatchupInv'
  BY <1>4, CommitStep DEF ShowAgain
<1>5. CASE Serve
  BY <1>1, <1>2, <1>3, <1>4, <1>5, BecomeDueStep, ExpireStep, ChangeDeviceStep DEF Serve
<1>6. CASE Begin \/ End
  BY <1>6, ListExpiresStep, LookUpStep, ListAnswerStep, RestStep DEF Begin, End
<1>7. CASE Tell
  BY <1>7, BaselineStep, PageStep, NotFoundStep DEF Tell
<1>8. CASE Ask \/ Lose \/ Reload
  BY <1>8, AskStep, LoseStep, ReloadStep
<1>9. CASE UNCHANGED catchupVars
  <2>1. UNCHANGED <<status, due, log, role, enabled, client, changed, gap, current, request>>
    BY <1>9 DEF catchupVars, table, device, history
  <2>2. Requests'
    BY <2>1, RequestsKept DEF CatchupInv
  <2> QED  BY <2>1, <2>2, ClientWaits DEF CatchupInv, CatchupTypes, Requested, Following
<1> QED  BY <1>5, <1>6, <1>7, <1>8, <1>9 DEF CatchupNext

LEMMA CatchupImplies == CatchupInv => CatchupTypeOK /\ CaughtUp
<1> SUFFICES ASSUME CatchupInv PROVE CatchupTypeOK /\ CaughtUp
  OBVIOUS
<1>1. Range(log) \subseteq Event
  BY TableFacts DEF Range, CatchupInv
<1>2. CatchupTypeOK
  BY <1>1 DEF CatchupInv, CatchupTypes, Requested, Following, Cursors, CatchupTypeOK, Event
<1>3. CaughtUp
  BY DEF CatchupInv, ViewFollows, Right, CaughtUp
<1> QED  BY <1>2, <1>3

\* Whatever is committed between a client's requests and between the queries of
\* each, and whichever answers are lost, a client that is told there is no more
\* (event_window, events_after) has exactly the active notifications it may see,
\* but for what its device's changes concealed and what came between a first
\* list and its baseline.
THEOREM ClientsCatchUp == CatchupSpec => []CaughtUp
BY CatchupBegins, CatchupKept, CatchupImplies, PTL DEF CatchupSpec
=============================================================================
