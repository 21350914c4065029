--------------------------- MODULE DeliveryProofs ---------------------------
(***************************************************************************)
(* What Delivery keeps for any devices, connections, requests that publish *)
(* together and notifications, and through any number of changes:          *)
(* connections hear only what is theirs, and news is not lost on the way   *)
(* to those that listen.  That tasks end needs fairness, and stays with    *)
(* the runs.                                                               *)
(***************************************************************************)
EXTENDS Delivery, SequenceTheorems, FiniteSetTheorems, TLAPS

-----------------------------------------------------------------------------
(***************************************************************************)
(* Induction over the natural numbers, in terms of sets.                   *)
(***************************************************************************)
\* A set of natural numbers with an element has a least one.
LEMMA LeastElement ==
    ASSUME NEW T \in SUBSET Nat, T # {}
    PROVE  \E x \in T : \A y \in T : x <= y
<1> DEFINE Initial(n) == 0 .. n
           Initials == {Initial(n) : n \in T}
<1>1. ASSUME NEW n \in T  PROVE Initial(n) \in FiniteSubsetsOf(Nat)
  <2>1. IsFiniteSet(0 .. n)
    BY FS_Interval
  <2> QED  BY <2>1 DEF FiniteSubsetsOf
<1>2. Initials \subseteq FiniteSubsetsOf(Nat) /\ Initials # {}
  BY <1>1
<1> HIDE DEF Initials
<1>3. PICK S \in Initials : \A R \in Initials : <<R, S>> \notin StrictSubsetOrdering(Nat)
  BY <1>2, FS_StrictSubsetOrderingWellFounded, WFMin
<1>4. PICK x \in T : S = Initial(x)
  BY DEF Initials
<1>5. ASSUME NEW y \in T, y < x  PROVE FALSE
  <2>1. /\ 0 .. y \subseteq 0 .. x /\ 0 .. y # 0 .. x
        /\ 0 .. y \in SUBSET Nat /\ 0 .. x \in SUBSET Nat
    BY <1>5
  <2>2. Initial(y) \in Initials
    BY DEF Initials
  <2> QED  BY <1>3, <1>4, <2>1, <2>2 DEF StrictSubsetOrdering
<1> QED  BY <1>5

-----------------------------------------------------------------------------
(***************************************************************************)
(* Lists: what is in one after an element is added, or the first taken.    *)
(***************************************************************************)
LEMMA RangeOfAppend ==
    ASSUME NEW S, NEW s \in Seq(S), NEW e \in S
    PROVE  Append(s, e) \in Seq(S) /\ Range(Append(s, e)) = Range(s) \union {e}
<1>1. /\ Append(s, e) \in Seq(S) /\ Len(Append(s, e)) = Len(s) + 1 /\ Len(s) \in Nat
      /\ \A i \in 1 .. Len(s) : Append(s, e)[i] = s[i]
      /\ Append(s, e)[Len(s) + 1] = e
  BY AppendProperties, LenProperties
<1>2. DOMAIN s = 1 .. Len(s) /\ DOMAIN Append(s, e) = 1 .. Len(s) + 1
  BY <1>1, LenProperties
<1> QED  BY <1>1, <1>2 DEF Range

LEMMA AppendKeepsApart ==
    ASSUME NEW S, NEW s \in Seq(S), IsInjective(s), NEW e \in S, e \notin Range(s)
    PROVE  IsInjective(Append(s, e))
<1>1. /\ Append(s, e) \in Seq(S) /\ Len(Append(s, e)) = Len(s) + 1 /\ Len(s) \in Nat
      /\ \A i \in 1 .. Len(s) : Append(s, e)[i] = s[i]
      /\ Append(s, e)[Len(s) + 1] = e
  BY AppendProperties, LenProperties
<1>2. DOMAIN s = 1 .. Len(s) /\ DOMAIN Append(s, e) = 1 .. Len(s) + 1
  BY <1>1, LenProperties
<1> QED  BY <1>1, <1>2 DEF Range, IsInjective

LEMMA FirstAndRest ==
    ASSUME NEW S, NEW s \in Seq(S), s # <<>>
    PROVE  /\ Head(s) \in S /\ Tail(s) \in Seq(S)
           /\ Range(s) = {Head(s)} \union Range(Tail(s))
           /\ Len(s) > 1 <=> Tail(s) # <<>>
           /\ IsInjective(s) => IsInjective(Tail(s)) /\ Head(s) \notin Range(Tail(s))
<1>1. /\ Head(s) \in S /\ Tail(s) \in Seq(S) /\ Len(Tail(s)) = Len(s) - 1
      /\ \A i \in 1 .. Len(Tail(s)) : Tail(s)[i] = s[i + 1]
      /\ Head(s) = s[1]
  BY HeadTailProperties
<1>2. /\ Len(s) \in Nat \ {0} /\ DOMAIN s = 1 .. Len(s) /\ DOMAIN Tail(s) = 1 .. Len(s) - 1
  BY <1>1, LenProperties, EmptySeq
<1>3. Range(s) = {Head(s)} \union Range(Tail(s))
  <2>1. ASSUME NEW i \in DOMAIN s  PROVE s[i] = Head(s) \/ s[i] \in Range(Tail(s))
    <3>1. i # 1 => i - 1 \in DOMAIN Tail(s) /\ Tail(s)[i - 1] = s[i]
      BY <1>1, <1>2
    <3> QED  BY <1>1, <3>1 DEF Range
  <2>2. ASSUME NEW i \in DOMAIN Tail(s)  PROVE i + 1 \in DOMAIN s /\ Tail(s)[i] = s[i + 1]
    BY <1>1, <1>2
  <2>3. Head(s) \in Range(s)
    BY <1>1, <1>2 DEF Range
  <2>4. Range(Tail(s)) \subseteq Range(s)
    BY <2>2 DEF Range
  <2>5. Range(s) \subseteq {Head(s)} \union Range(Tail(s))
    <3> HIDE DEF Range
    <3>1. \A x \in Range(s) : \E i \in DOMAIN s : x = s[i]
      BY DEF Range
    <3> QED  BY <2>1, <3>1
  <2> QED  BY <2>3, <2>4, <2>5
<1>4. Len(s) > 1 <=> Tail(s) # <<>>
  <2>1. Tail(s) = <<>> => Len(Tail(s)) = 0
    BY EmptySeq
  <2>2. Tail(s) # <<>> => Len(Tail(s)) \in Nat \ {0}
    BY <1>1, EmptySeq
  <2> QED  BY <1>1, <1>2, <2>1, <2>2
<1>5. ASSUME IsInjective(s)  PROVE IsInjective(Tail(s)) /\ Head(s) \notin Range(Tail(s))
  BY <1>1, <1>2, <1>5 DEF IsInjective, Range
<1> QED  BY <1>1, <1>3, <1>4, <1>5

\* What the removal of connections leaves of a list: the others, each as often as it
\* was there.
LEMMA WithoutKeepsOthers ==
    ASSUME NEW S, NEW s \in Seq(S), NEW gone
    PROVE  /\ Without(s, gone) \in Seq(S)
           /\ Range(Without(s, gone)) = Range(s) \ gone
           /\ IsInjective(s) => IsInjective(Without(s, gone))
<1> DEFINE Step(f, i) == IF i = 0 THEN <<>>
                         ELSE IF s[i] \in gone THEN f[i - 1] ELSE Append(f[i - 1], s[i])
           Solves(f, n) == f = [i \in 0 .. n |-> Step(f, i)]
           kept == CHOOSE f : Solves(f, Len(s))
<1>1. Len(s) \in Nat /\ DOMAIN s = 1 .. Len(s) /\ \A i \in 1 .. Len(s) : s[i] \in S
  BY LenProperties, ElementOfSeq
\* The recursion has a solution.
<1>2. \A n \in 0 .. Len(s) : \E f : Solves(f, n)
  <2> DEFINE Bad == {n \in 0 .. Len(s) : ~ \E f : Solves(f, n)}
  <2> SUFFICES ASSUME Bad # {}  PROVE FALSE
    OBVIOUS
  <2>1. Bad \in SUBSET Nat
    BY <1>1
  <2>2. PICK n \in Bad : \A m \in Bad : n <= m
    BY <2>1, LeastElement
  <2>3. CASE n = 0
    <3>1. Solves([i \in 0 .. 0 |-> <<>>], 0)
      OBVIOUS
    <3> QED  BY <2>3, <3>1
  <2>4. CASE n # 0
    <3>1. n \in Nat /\ n - 1 \in 0 .. Len(s) /\ n - 1 \notin Bad
      <4> HIDE DEF Solves
      <4>1. n \in 0 .. Len(s)
        OBVIOUS
      <4>2. n \in Nat /\ n - 1 \in 0 .. Len(s) /\ ~(n <= n - 1)
        BY <1>1, <2>4, <4>1
      <4> HIDE DEF Bad
      <4> QED  BY <2>2, <4>2
    <3>2. PICK f : Solves(f, n - 1)
      <4> HIDE DEF Solves
      <4> QED  BY <3>1
    <3> DEFINE g == [i \in 0 .. n |-> IF i = n THEN Step(f, n) ELSE f[i]]
    <3>3. ASSUME NEW i \in 0 .. n  PROVE g[i] = Step(g, i)
      <4>1. CASE i = 0
        BY <2>4, <3>1, <3>2, <4>1
      <4>2. CASE i # 0
        <5>1. i - 1 \in 0 .. n /\ i - 1 # n /\ g[i - 1] = f[i - 1]
          BY <3>1, <4>2
        <5>2. i # n => f[i] = Step(f, i)
          <6>1. i # n => i \in 0 .. n - 1
            BY <3>1
          <6> HIDE DEF Bad, Step
          <6> QED  BY <3>2, <6>1
        <5> QED  BY <4>2, <5>1, <5>2
      <4> QED  BY <4>1, <4>2
    <3>4. Solves(g, n)
      BY <3>3
    <3> QED  BY <3>4
  <2> QED  BY <2>3, <2>4
<1>3. Solves(kept, Len(s))
  <2> HIDE DEF Solves
  <2>1. \E f : Solves(f, Len(s))
    BY <1>1, <1>2
  <2> QED  BY <2>1
<1>4. Without(s, gone) = kept[Len(s)]
  BY DEF Without
<1> HIDE DEF kept
<1>5. /\ kept[0] = <<>>
      /\ \A i \in 1 .. Len(s) :
            kept[i] = IF s[i] \in gone THEN kept[i - 1] ELSE Append(kept[i - 1], s[i])
  <2>1. \A i \in 0 .. Len(s) : kept[i] = Step(kept, i)
    <3> HIDE DEF Step
    <3> QED  BY <1>3
  <2>2. 0 \in 0 .. Len(s) /\ \A i \in 1 .. Len(s) : i \in 0 .. Len(s) /\ i # 0
    BY <1>1
  <2> QED  BY <2>1, <2>2
\* What it keeps of the first i.
<1> DEFINE Is(r, i) == /\ r \in Seq(S)
                       /\ Range(r) = {s[k] : k \in 1 .. i} \ gone
                       /\ IsInjective(s) => IsInjective(r)
<1>6. Is(<<>>, 0)
  BY EmptySeq DEF Range, IsInjective
<1>7. ASSUME NEW i \in 1 .. Len(s), NEW r, Is(r, i - 1)
      PROVE  Is(IF s[i] \in gone THEN r ELSE Append(r, s[i]), i)
  <2>1. {s[k] : k \in 1 .. i} = {s[k] : k \in 1 .. i - 1} \union {s[i]}
    BY <1>1
  <2>2. CASE s[i] \in gone
    BY <1>7, <2>1, <2>2
  <2>3. CASE s[i] \notin gone
    <3>1. Append(r, s[i]) \in Seq(S) /\ Range(Append(r, s[i])) = Range(r) \union {s[i]}
      BY <1>1, <1>7, RangeOfAppend
    <3>2. ASSUME IsInjective(s)  PROVE s[i] \notin Range(r)
      BY <1>1, <1>7, <3>2 DEF IsInjective
    <3>3. IsInjective(s) => IsInjective(Append(r, s[i]))
      BY <1>1, <1>7, <3>2, AppendKeepsApart
    <3> QED  BY <1>7, <2>1, <2>3, <3>1, <3>3
  <2> QED  BY <2>2, <2>3
<1>8. \A i \in 0 .. Len(s) : Is(kept[i], i)
  <2> DEFINE Bad == {i \in 0 .. Len(s) : ~ Is(kept[i], i)}
  <2> SUFFICES ASSUME Bad # {}  PROVE FALSE
    OBVIOUS
  <2>1. Bad \in SUBSET Nat
    BY <1>1
  <2>2. PICK n \in Bad : \A m \in Bad : n <= m
    BY <2>1, LeastElement
  <2> HIDE DEF Is
  <2>3. n # 0
    BY <1>5, <1>6
  <2>4. n \in 1 .. Len(s) /\ n - 1 \in 0 .. Len(s) /\ n - 1 \notin Bad
    BY <1>1, <2>2, <2>3
  <2>5. Is(kept[n - 1], n - 1)
    BY <2>4
  <2> QED  BY <1>5, <1>7, <2>4, <2>5
<1>9. Range(s) = {s[k] : k \in 1 .. Len(s)}
  BY <1>1 DEF Range
<1>10. Is(kept[Len(s)], Len(s))
  <2> HIDE DEF Is
  <2> QED  BY <1>1, <1>8
<1> QED  BY <1>4, <1>9, <1>10

-----------------------------------------------------------------------------
(***************************************************************************)
(* The inductive invariant.  What a connection has heard depends on what   *)
(* tasks still have on their lists; so the lists are typed by the events   *)
(* there are, a task that waits is known to have written its event to the  *)
(* connection it visits (Queues), a connection that is not registered yet  *)
(* has heard nothing and is on no list (Unheard), and the hub is tied to   *)
(* the stages of the connections (HubIsCurrent).                           *)
(***************************************************************************)
Index == 1 .. Len(log)

Types ==
    /\ status \in [Notification -> {"none", "active", "acknowledged", "expired"}]
    /\ auto \subseteq {n \in Notification : status[n] = "acknowledged"}
    /\ overdue \subseteq Notification
    /\ log \in Seq(Event)
    /\ guests \subseteq Device /\ revoked \subseteq Device /\ muted \subseteq Device
    /\ spared \subseteq Connection
    /\ stage \in [Connection -> {"new", "accepting", "open", "broken", "closing", "gone"}]
    /\ outdated \subseteq Connection
    /\ hub \in Seq(Connection)
    /\ since \in [Connection -> Nat]
    /\ received \in [Connection -> Seq(Index)]
    /\ skipped \in [Connection -> SUBSET Nat]
    /\ loop \in Task \union {Free}
    /\ todo \in [Task -> Seq(Index)]
    /\ rest \in [Task -> Seq(Connection)]
    /\ stale \in [Task -> SUBSET Connection]
    /\ at \in [Task -> Place]
    /\ waiting \in [Connection -> Seq(Task)]
    /\ changes \in 0 .. MaxChanges

HubIsCurrent ==
    /\ IsInjective(hub)
    /\ Registered = {c \in Connection : stage[c] \in {"open", "broken"}}

Queues ==
    /\ \A c \in Connection : IsInjective(waiting[c])
    /\ \A t \in Task, c \in Connection : at[t] = c <=> t \in Range(waiting[c])
    /\ \A t \in Task :
          /\ loop = t => at[t] = Nowhere
          /\ loop = t \/ at[t] # Nowhere => todo[t] # <<>>
          /\ at[t] \in Connection =>
                /\ rest[t] # <<>> /\ Head(rest[t]) = at[t]
                /\ Head(todo[t]) \in Range(received[at[t]])

Unheard ==
    \A c \in Connection :
       stage[c] \in {"new", "accepting"} =>
          received[c] = <<>> /\ \A t \in Task : c \notin Range(rest[t])

IInv ==
    /\ Types
    /\ HubIsCurrent
    /\ Queues
    /\ Unheard
    /\ HubHoldsNoRevoked
    /\ GuestsHearTheirOwn
    /\ NewsReachesListeners

\* Nobody and no place to wait at is mistaken for a task or a connection.
LEMMA Distinct ==
    /\ Free \notin Task
    /\ Nowhere \in Place /\ Closing \in Place /\ Connection \subseteq Place
    /\ Nowhere \notin Connection /\ Closing \notin Connection /\ Nowhere # Closing
BY DeliveryAssumption DEF Task, Place

-----------------------------------------------------------------------------
(***************************************************************************)
(* What happens around the tasks.                                          *)
(***************************************************************************)
\* Whatever leaves the tasks and the events alone only has to let nobody into the
\* hub, make nobody there a guest and bring no authorization back.
LEMMA SurroundingsStep ==
    ASSUME IInv, Types', HubIsCurrent',
           UNCHANGED <<log, since, received, skipped, tasks>>,
           \A c \in Registered' :
              /\ c \in Registered
              /\ DeviceOf[c] \in revoked' => c \in spared'
              /\ DeviceOf[c] \in guests' => DeviceOf[c] \in guests
              /\ stage'[c] = "open" => stage[c] = "open"
              /\ Authorized(c)' => Authorized(c),
           \A c \in Connection :
              stage'[c] \in {"new", "accepting"} => stage[c] \in {"new", "accepting"}
    PROVE  IInv'
<1>1. Queues'
  BY DEF IInv, Queues, tasks
<1>2. Unheard'
  BY DEF IInv, Unheard, tasks
<1>3. HubHoldsNoRevoked'
  BY DEF HubHoldsNoRevoked
<1>4. GuestsHearTheirOwn'
  BY DEF IInv, GuestsHearTheirOwn
<1>5. NewsReachesListeners'
  BY DEF IInv, NewsReachesListeners, Reaches, Pending, tasks
<1> QED  BY <1>1, <1>2, <1>3, <1>4, <1>5 DEF IInv

\* A request that publishes nothing, and the time of a notification that passes.
LEMMA QuietStep ==
    ASSUME IInv, NEW n \in Notification,
           (\E d \in Device : AcknowledgeAgain(n, d)) \/ BecomeOverdue(n)
    PROVE  IInv'
<1> USE DEF AcknowledgeAgain, BecomeOverdue
<1>1. UNCHANGED <<status, log, devices, connections, received, skipped, tasks, changes>>
  OBVIOUS
<1>2. Types'
  BY <1>1 DEF IInv, Types, Index, devices, connections, tasks
<1>3. HubIsCurrent'
  BY <1>1 DEF IInv, HubIsCurrent, Registered, connections
<1> QED  BY <1>1, <1>2, <1>3, SurroundingsStep
            DEF IInv, HubHoldsNoRevoked, Registered, Authorized, devices, connections

LEMMA ConnectStep ==
    ASSUME IInv, NEW c \in Connection, Connect(c)
    PROVE  IInv'
<1> USE DEF Connect
<1>1. Types'
  BY DEF IInv, Types, Index, store, devices, tasks
<1>2. HubIsCurrent'
  BY DEF IInv, Types, HubIsCurrent, Registered
<1>3. UNCHANGED <<log, since, received, skipped, tasks, devices, outdated>>
  BY DEF store
<1>4. \A d \in Connection : stage'[d] = stage[d] \/ stage'[d] = "accepting"
  BY DEF IInv, Types
<1>5. \A d \in Registered' :
         /\ d \in Registered
         /\ DeviceOf[d] \in revoked' => d \in spared'
         /\ DeviceOf[d] \in guests' => DeviceOf[d] \in guests
         /\ stage'[d] = "open" => stage[d] = "open"
         /\ Authorized(d)' => Authorized(d)
  BY <1>1, <1>2, <1>3, <1>4 DEF IInv, HubIsCurrent, HubHoldsNoRevoked, Registered, Authorized, devices
<1> QED  BY <1>1, <1>2, <1>3, <1>4, <1>5, SurroundingsStep

LEMMA BreakStep ==
    ASSUME IInv, NEW c \in Connection, Break(c)
    PROVE  IInv'
<1> USE DEF Break, Change
<1>1. Types'
  BY DeliveryAssumption DEF IInv, Types, Index, store, devices, tasks
<1>2. HubIsCurrent'
  BY DEF IInv, Types, HubIsCurrent, Registered
<1>3. UNCHANGED <<log, since, received, skipped, tasks, devices, outdated>>
  BY DEF store
<1>4. \A d \in Connection : stage'[d] = stage[d] \/ stage'[d] = "broken"
  BY DEF IInv, Types
<1>5. \A d \in Registered' :
         /\ d \in Registered
         /\ DeviceOf[d] \in revoked' => d \in spared'
         /\ DeviceOf[d] \in guests' => DeviceOf[d] \in guests
         /\ stage'[d] = "open" => stage[d] = "open"
         /\ Authorized(d)' => Authorized(d)
  BY <1>1, <1>2, <1>3, <1>4 DEF IInv, HubIsCurrent, HubHoldsNoRevoked, Registered, Authorized, devices
<1> QED  BY <1>1, <1>2, <1>3, <1>4, <1>5, SurroundingsStep

LEMMA DisconnectStep ==
    ASSUME IInv, NEW c \in Connection, Disconnect(c)
    PROVE  IInv'
<1> USE DEF Disconnect, Leaves
<1>1. /\ hub' \in Seq(Connection) /\ IsInjective(hub')
      /\ Registered' = Registered \ {c}
  BY WithoutKeepsOthers DEF IInv, Types, HubIsCurrent, Registered
<1>2. Types'
  BY <1>1 DEF IInv, Types, Index, store, devices, tasks
<1>3. HubIsCurrent'
  BY <1>1 DEF IInv, Types, HubIsCurrent
<1>4. UNCHANGED <<log, since, received, skipped, tasks, devices, outdated>>
  BY DEF store
<1>5. \A d \in Connection : stage'[d] = stage[d] \/ stage'[d] = "gone"
  BY DEF IInv, Types
<1>6. \A d \in Registered' :
         /\ d \in Registered
         /\ DeviceOf[d] \in revoked' => d \in spared'
         /\ DeviceOf[d] \in guests' => DeviceOf[d] \in guests
         /\ stage'[d] = "open" => stage[d] = "open"
         /\ Authorized(d)' => Authorized(d)
  BY <1>1, <1>2, <1>3, <1>4, <1>5 DEF IInv, HubIsCurrent, HubHoldsNoRevoked, Registered, Authorized, devices
<1> QED  BY <1>1, <1>2, <1>3, <1>4, <1>5, <1>6, SurroundingsStep

LEMMA ReplaceTokenStep ==
    ASSUME IInv, NEW d \in Device, ReplaceToken(d)
    PROVE  IInv'
<1> USE DEF ReplaceToken, Change
<1>1. Types'
  BY DeliveryAssumption DEF IInv, Types, Index, Of, store, devices, tasks
<1>2. HubIsCurrent'
  BY DEF IInv, HubIsCurrent, Registered
<1> QED  BY <1>1, <1>2, SurroundingsStep
            DEF IInv, HubHoldsNoRevoked, Registered, Authorized, store, devices

LEMMA MuteStep ==
    ASSUME IInv, NEW d \in Device, Mute(d)
    PROVE  IInv'
<1> USE DEF Mute, Change
<1>1. Types'
  BY DeliveryAssumption DEF IInv, Types, Index, store, connections, tasks
<1>2. HubIsCurrent'
  BY DEF IInv, HubIsCurrent, Registered, connections
<1> QED  BY <1>1, <1>2, SurroundingsStep
            DEF IInv, HubHoldsNoRevoked, Registered, Authorized, store, connections

\* A device that must connect anew is in the hub no more.
LEMMA ReconnectDeviceEmpties ==
    ASSUME IInv, NEW d \in Device, ReconnectDevice(d)
    PROVE  /\ hub' \in Seq(Connection)
           /\ stage' \in [Connection ->
                             {"new", "accepting", "open", "broken", "closing", "gone"}]
           /\ HubIsCurrent'
           /\ Registered' = {c \in Registered : DeviceOf[c] # d}
           /\ \A c \in Connection :
                 stage'[c] = stage[c] \/ (stage'[c] = "closing" /\ c \in Registered)
<1> USE DEF ReconnectDevice
<1>1. /\ hub' \in Seq(Connection) /\ IsInjective(hub')
      /\ Registered' = Registered \ Of(d)
  BY WithoutKeepsOthers DEF IInv, Types, HubIsCurrent, Registered
<1>2. Registered \ Of(d) = {c \in Registered : DeviceOf[c] # d}
  BY DEF IInv, HubIsCurrent, Of
<1>3. HubIsCurrent'
  BY <1>1 DEF IInv, Types, HubIsCurrent
<1> QED  BY <1>1, <1>2, <1>3 DEF IInv, Types

LEMMA ChangeRoleStep ==
    ASSUME IInv, NEW d \in Device, ChangeRole(d)
    PROVE  IInv'
<1> USE DEF ChangeRole, Change
<1>1. Types'
  BY ReconnectDeviceEmpties, DeliveryAssumption DEF IInv, Types, Index, store, tasks
<1>2. \A c \in Registered' : c \in Registered /\ DeviceOf[c] # d
  BY ReconnectDeviceEmpties
<1> QED  BY <1>1, <1>2, ReconnectDeviceEmpties, SurroundingsStep
            DEF IInv, Types, HubHoldsNoRevoked, HubIsCurrent, Authorized, store

LEMMA RevokeDeviceStep ==
    ASSUME IInv, NEW d \in Device, RevokeDevice(d)
    PROVE  IInv'
<1> USE DEF RevokeDevice, Change
<1>1. Types'
  BY ReconnectDeviceEmpties, DeliveryAssumption DEF IInv, Types, Index, store, tasks
<1>2. \A c \in Registered' : c \in Registered /\ DeviceOf[c] # d
  BY ReconnectDeviceEmpties
<1> QED  BY <1>1, <1>2, ReconnectDeviceEmpties, SurroundingsStep
            DEF IInv, Types, HubHoldsNoRevoked, HubIsCurrent, Authorized, store

\* The local script leaves the hub as it is, and every connection in it has its
\* handshake behind it.
LEMMA ResetDevicesStep ==
    ASSUME IInv, ResetDevices
    PROVE  IInv'
<1> USE DEF ResetDevices, Change
<1>1. Types'
  BY DeliveryAssumption DEF IInv, Types, Index, store, connections, tasks
<1>2. HubIsCurrent' /\ Registered' = Registered
  BY DEF IInv, HubIsCurrent, Registered, connections
<1>3. \A c \in Registered : c \in Connection /\ PastHandshake(c)
  BY DEF IInv, HubIsCurrent, PastHandshake
<1>4. \A c \in Registered : c \in spared'
  BY <1>3 DEF IInv, HubHoldsNoRevoked
<1>5. \A c \in Registered : ~Authorized(c)'
  BY <1>3, DeliveryAssumption DEF Authorized
<1>6. UNCHANGED <<log, since, received, skipped, tasks, guests, stage>>
  BY DEF store, connections
<1> QED  BY <1>1, <1>2, <1>4, <1>5, <1>6, SurroundingsStep

\* A connection that is registered has heard nothing and is owed nothing yet.
LEMMA RegisterStep ==
    ASSUME IInv, NEW c \in Connection, Register(c)
    PROVE  IInv'
<1>1. /\ stage[c] = "accepting" /\ received[c] = <<>> /\ c \notin Registered
      /\ UNCHANGED <<store, devices, outdated, received, skipped, tasks, changes>>
  BY DEF Register, IInv, Unheard, HubIsCurrent
<1>2. CASE /\ StillWelcome(c)
           /\ stage' = [stage EXCEPT ![c] = "open"]
           /\ hub' = Append(hub, c)
           /\ since' = [since EXCEPT ![c] = Len(log)]
  <2>1. hub' \in Seq(Connection) /\ Registered' = Registered \union {c} /\ IsInjective(hub')
    <3>1. hub \in Seq(Connection) /\ IsInjective(hub) /\ c \notin Range(hub)
      BY <1>1 DEF IInv, Types, HubIsCurrent, Registered
    <3>2. /\ Append(hub, c) \in Seq(Connection) /\ IsInjective(Append(hub, c))
          /\ Range(Append(hub, c)) = Range(hub) \union {c}
      BY <3>1, RangeOfAppend, AppendKeepsApart
    <3> QED  BY <1>2, <3>2 DEF Registered
  <2>2. Len(log) \in Nat /\ DOMAIN log = 1 .. Len(log)
    BY LenProperties DEF IInv, Types
  <2>3. Types'
    BY <1>1, <1>2, <2>1, <2>2 DEF IInv, Types, Index, store, devices, tasks
  <2>4. HubIsCurrent'
    BY <1>2, <2>1 DEF IInv, Types, HubIsCurrent
  <2>5. Queues' /\ Unheard'
    BY <1>1, <1>2 DEF IInv, Types, Queues, Unheard, tasks
  <2>6. HubHoldsNoRevoked'
    BY <1>1, <1>2, <2>1 DEF IInv, HubHoldsNoRevoked, StillWelcome, Authorized, devices
  <2>7. GuestsHearTheirOwn'
    <3>1. Range(received[c]) = {}
      BY <1>1 DEF Range
    <3> QED  BY <1>1, <2>1, <3>1 DEF IInv, GuestsHearTheirOwn, store, devices
  <2>8. NewsReachesListeners'
    <3> SUFFICES ASSUME NEW d \in Registered', (stage[d] = "open" /\ Authorized(d))',
                        NEW i \in DOMAIN log', i > since'[d],
                        log'[i].type \in {"created", "acknowledged"}
                 PROVE  (i \in Range(received[d]) \union skipped[d] \/ Pending(i, d))'
      BY DEF NewsReachesListeners, Reaches
    <3>1. d # c
      BY <1>1, <1>2, <2>2 DEF IInv, Types, store
    <3>2. /\ d \in Registered /\ d \in Connection /\ stage[d] = "open" /\ Authorized(d)
          /\ i \in DOMAIN log /\ i > since[d] /\ log[i].type \in {"created", "acknowledged"}
      BY <1>1, <1>2, <2>1, <3>1 DEF IInv, Types, HubIsCurrent, Authorized, store, devices
    <3>3. i \in Range(received[d]) \union skipped[d] \/ Pending(i, d)
      BY <3>2 DEF IInv, NewsReachesListeners, Reaches
    <3> QED  BY <1>1, <3>3 DEF Pending, tasks
  <2> QED  BY <2>3, <2>4, <2>5, <2>6, <2>7, <2>8 DEF IInv
<1>3. CASE stage' = [stage EXCEPT ![c] = "gone"] /\ UNCHANGED <<hub, since>>
  <2>1. Types'
    BY <1>1, <1>3 DEF IInv, Types, Index, store, devices, tasks
  <2>2. HubIsCurrent'
    BY <1>1, <1>3 DEF IInv, Types, HubIsCurrent, Registered
  <2>3. \A d \in Connection : stage'[d] = stage[d] \/ stage'[d] = "gone"
    BY <1>3 DEF IInv, Types
  <2>4. \A d \in Registered' :
           /\ d \in Registered
           /\ DeviceOf[d] \in revoked' => d \in spared'
           /\ DeviceOf[d] \in guests' => DeviceOf[d] \in guests
           /\ stage'[d] = "open" => stage[d] = "open"
           /\ Authorized(d)' => Authorized(d)
    BY <1>1, <1>3, <2>2, <2>3
       DEF IInv, HubIsCurrent, HubHoldsNoRevoked, Registered, Authorized, devices
  <2>5. UNCHANGED <<log, since, received, skipped, tasks>>
    BY <1>1, <1>3 DEF store
  <2> QED  BY <2>1, <2>2, <2>3, <2>4, <2>5, SurroundingsStep
<1> QED  BY <1>2, <1>3 DEF Register

\* After a crash nobody listens, and nobody is owed anything.
LEMMA CrashStep ==
    ASSUME IInv, Crash
    PROVE  IInv'
<1> USE DEF Crash, Change
<1>1. Range(<<>>) = {} /\ IsInjective(<<>>)
  BY DEF Range, IsInjective
<1>2. Registered' = {}
  BY <1>1 DEF Registered
<1>3. Types'
  BY Distinct, EmptySeq, DeliveryAssumption DEF IInv, Types, Index, store, devices
<1>4. HubIsCurrent'
  BY <1>1, <1>2 DEF HubIsCurrent
<1>5. Queues'
  BY <1>1, Distinct DEF Queues
<1>6. Unheard'
  BY <1>1 DEF IInv, Unheard
<1>7. (HubHoldsNoRevoked /\ GuestsHearTheirOwn /\ NewsReachesListeners)'
  BY <1>2 DEF HubHoldsNoRevoked, GuestsHearTheirOwn, NewsReachesListeners, Reaches
<1> QED  BY <1>3, <1>4, <1>5, <1>6, <1>7 DEF IInv

-----------------------------------------------------------------------------
(***************************************************************************)
(* What is committed, and published.                                       *)
(***************************************************************************)
\* Events keep their numbers when others are committed.
LEMMA LogGrows ==
    ASSUME Types, NEW es \in Seq(Event), log' = log \o es
    PROVE  /\ log' \in Seq(Event)
           /\ Len(log) \in Nat /\ Len(es) \in Nat /\ Len(log') = Len(log) + Len(es)
           /\ DOMAIN log = Index /\ DOMAIN log' = Index' /\ Index \subseteq Index'
           /\ \A i \in Index : log'[i] = log[i]
           /\ \A i \in Index' \ Index : i - Len(log) \in 1 .. Len(es)
                                        /\ log'[i] = es[i - Len(log)]
           /\ \A s \in Seq(Index) : s \in Seq(Index')
<1>1. /\ log' \in Seq(Event) /\ Len(log') = Len(log) + Len(es)
      /\ \A i \in 1 .. Len(log) + Len(es) :
            log'[i] = IF i <= Len(log) THEN log[i] ELSE es[i - Len(log)]
  BY ConcatProperties DEF Types
<1>2. Len(log) \in Nat /\ Len(es) \in Nat /\ DOMAIN log = Index /\ DOMAIN log' = Index'
  BY <1>1, LenProperties DEF Types, Index
<1>3. Index \subseteq Index'
  BY <1>1, <1>2 DEF Index
<1>4. \A s \in Seq(Index) : s \in Seq(Index')
  BY <1>3, SeqMonotonic
<1>5. \A i \in Index : log'[i] = log[i]
  BY <1>1, <1>2 DEF Index
<1>6. \A i \in Index' \ Index : /\ i - Len(log) \in 1 .. Len(es)
                                /\ log'[i] = es[i - Len(log)]
  BY <1>1, <1>2 DEF Index
<1> QED  BY <1>1, <1>2, <1>3, <1>4, <1>5, <1>6

\* What was heard stays what it was.
LEMMA GuestsStay ==
    ASSUME IInv, NEW es \in Seq(Event), log' = log \o es,
           UNCHANGED <<devices, connections, received>>
    PROVE  GuestsHearTheirOwn'
<1>1. ASSUME NEW c \in Connection, NEW i \in Range(received[c])
      PROVE  log'[i] = log[i]
  <2>1. i \in Index
    BY <1>1, RangeOfSeq DEF IInv, Types
  <2> QED  BY <2>1, LogGrows DEF IInv
<1>2. Registered' = Registered /\ Registered \subseteq Connection
  BY DEF IInv, HubIsCurrent, Registered, connections
<1> SUFFICES ASSUME NEW c \in Registered', DeviceOf[c] \in guests',
                    NEW i \in Range(received'[c])
             PROVE  Origin[log'[i].n] = DeviceOf[c]
  BY DEF GuestsHearTheirOwn
<1> QED  BY <1>1, <1>2, ZenonT(40) DEF IInv, GuestsHearTheirOwn, devices

\* The task that commits has everybody on its list who is registered.
LEMMA PublishStep ==
    ASSUME IInv, NEW t \in Task, NEW es \in Seq(Event), es # <<>>, Publish(t, es),
           status' \in [Notification -> {"none", "active", "acknowledged", "expired"}],
           auto' \subseteq {n \in Notification : status'[n] = "acknowledged"},
           overdue' \subseteq Notification
    PROVE  IInv'
<1> USE DEF Publish
<1>1. /\ loop = Free /\ todo[t] = <<>> /\ log' = log \o es
      /\ todo' = [todo EXCEPT ![t] = [i \in 1 .. Len(es) |-> Len(log) + i]]
      /\ rest' = [rest EXCEPT ![t] = hub]
      /\ loop' = t
      /\ UNCHANGED <<devices, connections, received, skipped, stale, at, waiting, changes>>
  OBVIOUS
<1> DEFINE new == [i \in 1 .. Len(es) |-> Len(log) + i]
<1>2. Types
  BY DEF IInv
<1>3. new \in Seq(Index') /\ new # <<>> /\ Range(new) = Index' \ Index
  <2>1. /\ Len(es) \in Nat /\ Len(es) # 0 /\ Len(log) \in Nat
        /\ Index = 1 .. Len(log) /\ Index' = 1 .. Len(log) + Len(es)
    BY <1>1, <1>2, LogGrows, EmptySeq DEF Index
  <2>2. \A i \in 1 .. Len(es) : Len(log) + i \in Index' \ Index
    BY <2>1
  <2>3. new \in [1 .. Len(es) -> Index']
    BY <2>2
  <2>4. new \in Seq(Index') /\ DOMAIN new = 1 .. Len(es) /\ 1 \in DOMAIN new
    BY <2>1, <2>3
  <2>5. new # <<>>
    BY <2>4, EmptySeq, LenProperties
  <2>6. \A i \in Index' \ Index : i - Len(log) \in 1 .. Len(es) /\ Len(log) + (i - Len(log)) = i
    BY <2>1
  <2>7. Range(new) = Index' \ Index
    BY <2>2, <2>4, <2>6 DEF Range
  <2> QED  BY <2>4, <2>5, <2>7
<1> HIDE DEF new
<1>4. Types'
  <2>1. /\ received' \in [Connection -> Seq(Index')]
        /\ todo' \in [Task -> Seq(Index')]
    <3>1. \A s \in Seq(Index) : s \in Seq(Index')
      BY <1>1, <1>2, LogGrows
    <3>2. received' \in [Connection -> Seq(Index)] /\ todo \in [Task -> Seq(Index)]
      BY <1>1, <1>2 DEF Types
    <3>3. todo' = [todo EXCEPT ![t] = new]
      BY <1>1 DEF new
    <3> QED  BY <1>3, <3>1, <3>2, <3>3
  <2>2. log' \in Seq(Event) /\ rest' \in [Task -> Seq(Connection)]
    BY <1>1, <1>2, LogGrows DEF Types, connections
  <2>3. loop' \in Task \union {Free}
    BY <1>1
  <2> QED  BY <1>1, <1>2, <2>1, <2>2, <2>3 DEF Types, devices, connections
<1>5. HubIsCurrent'
  BY <1>1 DEF IInv, HubIsCurrent, Registered, connections
<1>6. Queues'
  <2>1. at[t] = Nowhere
    BY <1>1 DEF IInv, Queues
  <2>2. \A u \in Task : u # t => todo'[u] = todo[u] /\ rest'[u] = rest[u]
    BY <1>1, <1>2 DEF Types
  <2>3. todo'[t] # <<>>
    BY <1>1, <1>2, <1>3 DEF Types, new
  <2>4. loop # t /\ \A u \in Task : loop' = u => u = t
    BY <1>1, Distinct
  <2> QED  BY <1>1, <2>1, <2>2, <2>3, <2>4, Distinct DEF IInv, Queues
<1>7. Unheard'
  BY <1>1, <1>2 DEF IInv, Types, Unheard, HubIsCurrent, Registered, connections
<1>8. HubHoldsNoRevoked'
  BY <1>1 DEF IInv, HubHoldsNoRevoked, Registered, devices, connections
<1>9. GuestsHearTheirOwn'
  BY <1>1, GuestsStay
<1>10. NewsReachesListeners'
  <2> SUFFICES ASSUME NEW c \in Registered', (stage[c] = "open" /\ Authorized(c))',
                      NEW i \in DOMAIN log', i > since'[c],
                      log'[i].type \in {"created", "acknowledged"}
               PROVE  (i \in Range(received[c]) \union skipped[c] \/ Pending(i, c))'
    BY DEF NewsReachesListeners, Reaches
  <2>1. CASE i \in Index
    <3>1. i \in Range(received[c]) \union skipped[c] \/ Pending(i, c)
      BY <1>1, <1>2, <2>1, LogGrows
         DEF IInv, NewsReachesListeners, Reaches, Registered, Authorized, devices, connections
    <3>2. Pending(i, c) => Pending(i, c)'
      <4> SUFFICES ASSUME NEW u \in Task, i \in Range(todo[u]),
                          i = Head(todo[u]) => c \in Range(rest[u]) \union stale[u]
                   PROVE  Pending(i, c)'
        BY DEF Pending
      <4>1. u # t
        BY <1>1 DEF Range
      <4> QED  BY <1>1, <1>2, <4>1 DEF Types, Pending
    <3> QED  BY <1>1, <3>1, <3>2
  <2>2. CASE i \notin Index
    <3>1. i \in Range(todo'[t])
      BY <1>1, <1>2, <1>3, <2>2, LogGrows DEF Types, new
    <3>2. c \in Range(rest'[t])
      BY <1>1, <1>2 DEF Types, Registered, connections
    <3> QED  BY <3>1, <3>2 DEF Pending
  <2> QED  BY <2>1, <2>2
<1> QED  BY <1>4, <1>5, <1>6, <1>7, <1>8, <1>9, <1>10 DEF IInv

\* The events of several notifications, in any order.
LEMMA EventsOfSeveral ==
    ASSUME NEW ns \in SUBSET Notification, ns # {}, NEW order \in SetToSeqs(ns),
           NEW type \in {"created", "acknowledged", "expired"},
           NEW es, es = [i \in DOMAIN order |-> On(type, order[i])]
    PROVE  es \in Seq(Event) /\ es # <<>> /\ \A i \in 1 .. Len(es) : es[i].type = type
<1>1. Cardinality(ns) \in Nat /\ Cardinality(ns) # 0
  BY DeliveryAssumption, FS_Subset, FS_CardinalityType, FS_EmptySet
<1>2. order \in [1 .. Cardinality(ns) -> ns]
  BY DEF SetToSeqs
<1>3. es \in [1 .. Cardinality(ns) -> Event]
  BY <1>2 DEF On, Event
<1>4. es \in Seq(Event) /\ DOMAIN es = 1 .. Cardinality(ns) /\ 1 \in DOMAIN es
  BY <1>1, <1>3
<1>5. es # <<>> /\ DOMAIN es = 1 .. Len(es)
  <2>1. DOMAIN es = 1 .. Len(es)
    BY <1>4, LenProperties
  <2>2. Len(<<>>) = 0
    BY EmptySeq
  <2>3. 1 \in 1 .. Len(es)
    BY <1>4, <2>1
  <2>4. 1 \notin 1 .. 0
    OBVIOUS
  <2>5. es # <<>>
    BY <2>2, <2>3, <2>4
  <2> QED  BY <2>1, <2>5
<1>6. \A i \in DOMAIN es : es[i].type = type
  BY DEF On
<1> QED  BY <1>4, <1>5, <1>6

\* The event of one notification.
LEMMA EventOfOne ==
    ASSUME NEW n \in Notification, NEW type \in {"created", "acknowledged", "expired"}
    PROVE  <<On(type, n)>> \in Seq(Event) /\ <<On(type, n)>> # <<>>
BY DEF On, Event

LEMMA RequestStep ==
    ASSUME IInv, Request
    PROVE  IInv'
<1>1. Types
  BY DEF IInv
<1>2. ASSUME NEW h \in Handler, NEW n \in Notification,
             \/ CreateNotification(h, n) \/ CreateSilently(h, n)
             \/ MergeApproval(h, n) \/ Reopen(h, n)
             \/ \E d \in Device : Acknowledge(h, n, d)
      PROVE  IInv'
  <2>1. h \in Task
    BY DEF Task
  <2>2. \E type \in {"created", "acknowledged", "expired"} : Publish(h, <<On(type, n)>>)
    BY <1>2 DEF CreateNotification, CreateSilently, MergeApproval, Reopen, Acknowledge
  <2>3. /\ status' \in [Notification -> {"none", "active", "acknowledged", "expired"}]
        /\ auto' \subseteq {m \in Notification : status'[m] = "acknowledged"}
        /\ overdue' \subseteq Notification
    BY <1>1, <1>2
       DEF Types, CreateNotification, CreateSilently, MergeApproval, Reopen, Acknowledge
  <2> QED  BY <2>1, <2>2, <2>3, EventOfOne, PublishStep
<1>3. ASSUME NEW h \in Handler, NEW ns \in SUBSET Notification, Settle(h, ns)
      PROVE  IInv'
  <2>1. h \in Task
    BY DEF Task
  <2>2. PICK order \in SetToSeqs(ns) :
           Publish(h, [i \in DOMAIN order |-> On("acknowledged", order[i])])
    BY <1>3 DEF Settle
  <2>3. /\ status' \in [Notification -> {"none", "active", "acknowledged", "expired"}]
        /\ auto' \subseteq {m \in Notification : status'[m] = "acknowledged"}
        /\ overdue' \subseteq Notification
    BY <1>1, <1>3 DEF Types, Settle
  <2>4. ns # {}
    BY <1>3 DEF Settle
  <2> DEFINE es == [i \in DOMAIN order |-> On("acknowledged", order[i])]
  <2>5. Publish(h, es)
    BY <2>2
  <2>6. es = [i \in DOMAIN order |-> On("acknowledged", order[i])]
    OBVIOUS
  <2> HIDE DEF es
  <2>7. es \in Seq(Event) /\ es # <<>>
    BY <2>4, <2>6, EventsOfSeveral
  <2> QED  BY <2>1, <2>3, <2>5, <2>7, PublishStep
<1>4. ASSUME ListNotifications  PROVE IInv'
  <2>1. PICK order \in SetToSeqs(Due) :
           log' = log \o [i \in DOMAIN order |-> On("expired", order[i])]
    BY <1>4 DEF ListNotifications
  <2> DEFINE es == [i \in DOMAIN order |-> On("expired", order[i])]
  <2>2. es \in Seq(Event) /\ \A i \in 1 .. Len(es) : es[i].type = "expired"
    <3>1. Due # {} /\ Due \in SUBSET Notification
      BY <1>1, <1>4 DEF ListNotifications, Due, Types
    <3>2. es = [i \in DOMAIN order |-> On("expired", order[i])]
      OBVIOUS
    <3> HIDE DEF es
    <3> QED  BY <3>1, <3>2, EventsOfSeveral
  <2>3. /\ log' = log \o es /\ status' = Expired
        /\ UNCHANGED <<auto, overdue, devices, connections, received, skipped, tasks, changes>>
    BY <1>4, <2>1 DEF ListNotifications
  <2> HIDE DEF es
  <2>4. Types'
    <3>1. /\ received' \in [Connection -> Seq(Index')]
          /\ todo' \in [Task -> Seq(Index')]
      <4>1. \A s \in Seq(Index) : s \in Seq(Index')
        BY <1>1, <2>2, <2>3, LogGrows
      <4>2. received' \in [Connection -> Seq(Index)] /\ todo' \in [Task -> Seq(Index)]
        BY <1>1, <2>3 DEF Types, tasks
      <4> QED  BY <4>1, <4>2
    <3>2. /\ status' \in [Notification -> {"none", "active", "acknowledged", "expired"}]
          /\ auto' \subseteq {m \in Notification : status'[m] = "acknowledged"}
      BY <1>1, <2>3 DEF Types, Expired, Due
    <3>3. log' \in Seq(Event)
      BY <1>1, <2>2, <2>3, LogGrows
    <3> QED  BY <1>1, <2>3, <3>1, <3>2, <3>3 DEF Types, devices, connections, tasks
  <2>5. HubIsCurrent' /\ Queues' /\ Unheard' /\ HubHoldsNoRevoked'
    BY <2>3 DEF IInv, HubIsCurrent, Queues, Unheard, HubHoldsNoRevoked, Registered,
                devices, connections, tasks
  <2>6. GuestsHearTheirOwn'
    BY <2>2, <2>3, GuestsStay
  <2>7. NewsReachesListeners'
    <3> SUFFICES ASSUME NEW c \in Registered', (stage[c] = "open" /\ Authorized(c))',
                        NEW i \in DOMAIN log', i > since'[c],
                        log'[i].type \in {"created", "acknowledged"}
                 PROVE  (i \in Range(received[c]) \union skipped[c] \/ Pending(i, c))'
      BY DEF NewsReachesListeners, Reaches
    <3>1. i \in Index /\ i \in DOMAIN log /\ log'[i] = log[i]
      BY <1>1, <2>2, <2>3, LogGrows, SMTT(30)
    <3>2. i \in Range(received[c]) \union skipped[c] \/ Pending(i, c)
      BY <2>3, <3>1
         DEF IInv, NewsReachesListeners, Reaches, Registered, Authorized, devices, connections
    <3> QED  BY <2>3, <3>2 DEF Pending, tasks
  <2> QED  BY <2>4, <2>5, <2>6, <2>7 DEF IInv
<1> QED  BY <1>2, <1>3, <1>4, QuietStep DEF Request

LEMMA SweepStep ==
    ASSUME IInv, Sweep
    PROVE  IInv'
<1>1. Sweeper \in Task
  BY DEF Task
<1>2. PICK order \in SetToSeqs(Due) :
         Publish(Sweeper, [i \in DOMAIN order |-> On("expired", order[i])])
  BY DEF Sweep
<1>3. Due # {} /\ Due \in SUBSET Notification
  BY DEF Sweep, IInv, Types, Due
<1>4. /\ status' \in [Notification -> {"none", "active", "acknowledged", "expired"}]
      /\ auto' \subseteq {m \in Notification : status'[m] = "acknowledged"}
      /\ overdue' \subseteq Notification
  BY DEF Sweep, IInv, Types, Expired, Due
<1> DEFINE es == [i \in DOMAIN order |-> On("expired", order[i])]
<1>5. Publish(Sweeper, es) /\ es = [i \in DOMAIN order |-> On("expired", order[i])]
  BY <1>2
<1> HIDE DEF es
<1>6. es \in Seq(Event) /\ es # <<>>
  BY <1>3, <1>5, EventsOfSeveral
<1> QED  BY <1>1, <1>4, <1>5, <1>6, PublishStep

-----------------------------------------------------------------------------
(***************************************************************************)
(* WebSocketHub.broadcast.                                                 *)
(***************************************************************************)
\* A task on its way: it does not wait, and has an event to publish.
LEMMA OnItsWay ==
    ASSUME IInv, NEW t \in Task, loop = t
    PROVE  /\ at[t] = Nowhere /\ todo[t] # <<>>
           /\ Head(todo[t]) \in Index /\ Head(todo[t]) \in Nat
           /\ Head(todo[t]) \in Range(todo[t])
           /\ \A c \in Connection : t \notin Range(waiting[c])
           /\ \A u \in Task : u # t => loop # u
<1>1. at[t] = Nowhere /\ todo[t] # <<>>
  BY DEF IInv, Queues
<1>2. Head(todo[t]) \in Index /\ Head(todo[t]) \in Range(todo[t])
  BY <1>1, FirstAndRest DEF IInv, Types
<1>3. \A c \in Connection : t \notin Range(waiting[c])
  BY <1>1, Distinct DEF IInv, Queues
<1>4. Index \subseteq Nat
  BY DEF Index
<1> QED  BY <1>1, <1>2, <1>3, <1>4

\* The connection a task visits is the first of those it still has on its list.
LEMMA OnItsList ==
    ASSUME IInv, NEW t \in Task, NEW c \in Connection, rest[t] # <<>>, c = Head(rest[t])
    PROVE  /\ Tail(rest[t]) \in Seq(Connection)
           /\ Range(rest[t]) = {c} \union Range(Tail(rest[t]))
           /\ stage[c] \notin {"new", "accepting"}
<1>1. rest[t] \in Seq(Connection)
  BY DEF IInv, Types
<1>2. /\ Tail(rest[t]) \in Seq(Connection)
      /\ Range(rest[t]) = {c} \union Range(Tail(rest[t]))
  BY <1>1, FirstAndRest
<1> QED  BY <1>2 DEF IInv, Unheard

\* A step of a task that leaves the devices, the connections and the events alone
\* preserves what depends on nothing else.
LEMMA HubStays ==
    ASSUME IInv, UNCHANGED <<log, devices, connections>>
    PROVE  /\ HubIsCurrent' /\ HubHoldsNoRevoked'
           /\ UNCHANGED received => GuestsHearTheirOwn'
BY DEF IInv, HubIsCurrent, HubHoldsNoRevoked, GuestsHearTheirOwn, Registered,
       devices, connections

\* What was owed to a connection is owed to it still, unless this step of a task
\* has given it, found why it must not be given, or found the connection unusable.
LEMMA StillOwed ==
    ASSUME IInv, UNCHANGED <<log, devices, connections>>,
           \A c \in Connection, i \in Nat :
              i \in Range(received[c]) \union skipped[c] =>
                 i \in Range(received'[c]) \union skipped'[c],
           \A c \in Connection, i \in Nat, t \in Task :
              /\ c \in Registered /\ stage[c] = "open" /\ Authorized(c)
              /\ i \in Range(todo[t])
              /\ i = Head(todo[t]) => c \in Range(rest[t]) \union stale[t]
              => (i \in Range(received[c]) \union skipped[c] \/ Pending(i, c))'
    PROVE  NewsReachesListeners'
<1> SUFFICES ASSUME NEW c \in Registered', (stage[c] = "open" /\ Authorized(c))',
                    NEW i \in DOMAIN log', i > since'[c],
                    log'[i].type \in {"created", "acknowledged"}
             PROVE  (i \in Range(received[c]) \union skipped[c] \/ Pending(i, c))'
  BY DEF NewsReachesListeners, Reaches
<1>1. /\ c \in Registered /\ c \in Connection /\ stage[c] = "open" /\ Authorized(c)
      /\ i \in DOMAIN log /\ i > since[c] /\ log[i].type \in {"created", "acknowledged"}
  BY DEF IInv, HubIsCurrent, Registered, Authorized, devices, connections
<1>2. i \in Nat
  BY <1>1, LenProperties DEF IInv, Types
<1>3. i \in Range(received[c]) \union skipped[c] \/ Pending(i, c)
  BY <1>1 DEF IInv, NewsReachesListeners, Reaches
<1>4. CASE i \in Range(received[c]) \union skipped[c]
  BY <1>1, <1>2, <1>4
<1>5. CASE Pending(i, c)
  BY <1>1, <1>2, <1>5 DEF Pending
<1> QED  BY <1>3, <1>4, <1>5

LEMMA SkipStep ==
    ASSUME IInv, NEW t \in Task, Skip(t)
    PROVE  IInv'
<1>1. PICK c \in Connection :
         /\ loop = t /\ rest[t] # <<>> /\ c = Head(rest[t])
         /\ \/ /\ ~Authorized(c)
               /\ stale' = [stale EXCEPT ![t] = @ \union {c}]
               /\ UNCHANGED skipped
            \/ /\ skipped' = [skipped EXCEPT ![c] = @ \union {Head(todo[t])}]
               /\ UNCHANGED stale
         /\ rest' = [rest EXCEPT ![t] = Tail(@)]
         /\ UNCHANGED <<store, devices, connections, received, loop, todo, at, waiting, changes>>
  BY DEF Skip, Visiting, Proceed
<1>2. Types
  BY DEF IInv
<1>3. /\ at[t] = Nowhere /\ todo[t] # <<>> /\ Head(todo[t]) \in Nat
      /\ Tail(rest[t]) \in Seq(Connection)
      /\ Range(rest[t]) = {c} \union Range(Tail(rest[t]))
  BY <1>1, OnItsWay, OnItsList
<1>4. Types'
  <2>1. /\ stale' \in [Task -> SUBSET Connection]
        /\ skipped' \in [Connection -> SUBSET Nat]
        /\ rest' \in [Task -> Seq(Connection)]
    <3>1. /\ stale \in [Task -> SUBSET Connection] /\ skipped \in [Connection -> SUBSET Nat]
          /\ rest \in [Task -> Seq(Connection)]
      BY <1>2 DEF Types
    <3>2. rest' \in [Task -> Seq(Connection)]
      BY <1>1, <1>3, <3>1
    <3>3. /\ stale[t] \union {c} \in SUBSET Connection
          /\ skipped[c] \union {Head(todo[t])} \in SUBSET Nat
      BY <1>3, <3>1
    <3>4. /\ [stale EXCEPT ![t] = @ \union {c}] \in [Task -> SUBSET Connection]
          /\ [skipped EXCEPT ![c] = @ \union {Head(todo[t])}] \in [Connection -> SUBSET Nat]
      BY <3>1, <3>3
    <3>5. stale' \in [Task -> SUBSET Connection] /\ skipped' \in [Connection -> SUBSET Nat]
      BY <1>1, <3>1, <3>4
    <3> QED  BY <3>2, <3>5
  <2> QED  BY <1>1, <1>2, <2>1 DEF Types, Index, store, devices, connections
<1>5. HubIsCurrent' /\ HubHoldsNoRevoked' /\ GuestsHearTheirOwn'
  BY <1>1, HubStays DEF store
<1>6. Queues'
  BY <1>1, <1>2, <1>3, Distinct, SMTT(30) DEF IInv, Types, Queues
<1>7. Unheard'
  BY <1>1, <1>2, <1>3 DEF IInv, Types, Unheard, connections
<1>8. NewsReachesListeners'
  <2>1. \A d \in Connection, i \in Nat :
           i \in Range(received[d]) \union skipped[d] =>
              i \in Range(received'[d]) \union skipped'[d]
    <3>1. received' = received /\ skipped \in [Connection -> SUBSET Nat]
      BY <1>1, <1>2 DEF Types
    <3>2. \A d \in Connection : skipped[d] \subseteq skipped'[d]
      BY <1>1, <3>1
    <3> QED  BY <3>1, <3>2
  <2>2. ASSUME NEW d \in Connection, NEW i \in Nat, NEW u \in Task,
               d \in Registered, stage[d] = "open", Authorized(d),
               i \in Range(todo[u]),
               i = Head(todo[u]) => d \in Range(rest[u]) \union stale[u]
        PROVE  (i \in Range(received[d]) \union skipped[d] \/ Pending(i, d))'
    <3>1. CASE u # t
      BY <1>1, <1>2, <2>2, <3>1 DEF Types, Pending
    <3>2. CASE u = t /\ (i # Head(todo[t]) \/ d # c)
      <4>1. i = Head(todo[t]) => d \in Range(rest'[t]) \union stale'[t]
        BY <1>1, <1>2, <1>3, <2>2, <3>2 DEF Types
      <4> QED  BY <1>1, <2>2, <3>2, <4>1 DEF Pending
    <3>3. CASE u = t /\ i = Head(todo[t]) /\ d = c
      <4>1. skipped' = [skipped EXCEPT ![c] = @ \union {Head(todo[t])}]
        BY <1>1, <2>2, <3>3
      <4> QED  BY <1>2, <3>3, <4>1 DEF Types
    <3> QED  BY <3>1, <3>2, <3>3
  <2>3. UNCHANGED <<log, devices, connections>>
    BY <1>1 DEF store
  <2> QED  BY <2>1, <2>2, <2>3, StillOwed
<1> QED  BY <1>4, <1>5, <1>6, <1>7, <1>8 DEF IInv

\* A write to a connection that does not take it: the task will close it.
LEMMA SendFailsStep ==
    ASSUME IInv, NEW t \in Task, SendFails(t)
    PROVE  IInv'
<1>1. PICK c \in Connection :
         /\ loop = t /\ rest[t] # <<>> /\ c = Head(rest[t])
         /\ stale' = [stale EXCEPT ![t] = @ \union {c}]
         /\ rest' = [rest EXCEPT ![t] = Tail(@)]
         /\ UNCHANGED <<store, devices, connections, received, skipped,
                        loop, todo, at, waiting, changes>>
  BY DEF SendFails, Gets, Visiting, TryTheNext, Proceed
<1>2. Types
  BY DEF IInv
<1>3. /\ at[t] = Nowhere /\ todo[t] # <<>>
      /\ Tail(rest[t]) \in Seq(Connection)
      /\ Range(rest[t]) = {c} \union Range(Tail(rest[t]))
  BY <1>1, OnItsWay, OnItsList
<1>4. Types'
  BY <1>1, <1>2, <1>3 DEF Types, Index, store, devices, connections
<1>5. HubIsCurrent' /\ HubHoldsNoRevoked' /\ GuestsHearTheirOwn'
  BY <1>1, HubStays DEF store
<1>6. Queues'
  BY <1>1, <1>2, <1>3, Distinct DEF IInv, Types, Queues
<1>7. Unheard'
  BY <1>1, <1>2, <1>3 DEF IInv, Types, Unheard, connections
<1>8. NewsReachesListeners'
  <2>1. ASSUME NEW d \in Connection, NEW i \in Nat, NEW u \in Task,
               i \in Range(todo[u]),
               i = Head(todo[u]) => d \in Range(rest[u]) \union stale[u]
        PROVE  Pending(i, d)'
    <3>1. d \in Range(rest[u]) \union stale[u] => d \in Range(rest'[u]) \union stale'[u]
      BY <1>1, <1>2, <1>3 DEF Types
    <3> QED  BY <1>1, <2>1, <3>1 DEF Pending
  <2>2. UNCHANGED <<log, devices, connections>>
    BY <1>1 DEF store
  <2> QED  BY <1>1, <2>1, <2>2, StillOwed
<1> QED  BY <1>4, <1>5, <1>6, <1>7, <1>8 DEF IInv

\* The event is written to the connection, which is registered or was when the task
\* took its list; no guest among them gets what is not its own.
LEMMA SendStep ==
    ASSUME IInv, NEW t \in Task, Send(t)
    PROVE  IInv'
<1>1. PICK c \in Connection :
         /\ Gets(t, c)
         /\ received' = [received EXCEPT ![c] = Append(@, Head(todo[t]))]
         /\ \/ /\ Proceed(t)
               /\ UNCHANGED <<loop, at, waiting>>
            \/ /\ at' = [at EXCEPT ![t] = c]
               /\ waiting' = [waiting EXCEPT ![c] = Append(@, t)]
               /\ loop' = Free
               /\ UNCHANGED rest
         /\ UNCHANGED <<store, devices, connections, skipped, todo, stale, changes>>
  BY DEF Send
<1> DEFINE e == Head(todo[t])
<1>2. /\ loop = t /\ rest[t] # <<>> /\ c = Head(rest[t])
      /\ ShouldDeliver(log[e], DeviceOf[c])
  BY <1>1 DEF Gets, Visiting, Current
<1>3. Types
  BY DEF IInv
<1>4. /\ at[t] = Nowhere /\ todo[t] # <<>> /\ e \in Index
      /\ \A d \in Connection : t \notin Range(waiting[d])
      /\ Tail(rest[t]) \in Seq(Connection)
      /\ Range(rest[t]) = {c} \union Range(Tail(rest[t]))
      /\ stage[c] \notin {"new", "accepting"}
  BY <1>2, OnItsWay, OnItsList
<1> HIDE DEF e
<1>5. /\ received' = [received EXCEPT ![c] = Append(@, e)]
      /\ received' \in [Connection -> Seq(Index)]
      /\ \A d \in Connection : Range(received'[d]) =
            IF d = c THEN Range(received[d]) \union {e} ELSE Range(received[d])
  <2>1. /\ Append(received[c], e) \in Seq(Index)
        /\ Range(Append(received[c], e)) = Range(received[c]) \union {e}
    BY <1>3, <1>4, RangeOfAppend DEF Types
  <2>2. received' = [received EXCEPT ![c] = Append(@, e)]
    BY <1>1 DEF e
  <2> QED  BY <1>3, <2>1, <2>2 DEF Types
<1>6. HubIsCurrent' /\ HubHoldsNoRevoked'
  BY <1>1, HubStays DEF store
<1>7. GuestsHearTheirOwn'
  <2> SUFFICES ASSUME NEW d \in Registered, DeviceOf[d] \in guests,
                      NEW i \in Range(received'[d])
               PROVE  Origin[log[i].n] = DeviceOf[d]
    BY <1>1 DEF GuestsHearTheirOwn, Registered, store, devices, connections
  <2>1. CASE i \in Range(received[d])
    BY <2>1 DEF IInv, GuestsHearTheirOwn
  <2>2. CASE d = c /\ i = e
    BY <1>2, <2>2 DEF ShouldDeliver, MaySee, SeesAll
  <2>3. d \in Connection
    BY DEF IInv, HubIsCurrent
  <2> QED  BY <1>5, <2>1, <2>2, <2>3
<1>8. Unheard'
  <2>1. \A u \in Task : Range(rest'[u]) \subseteq Range(rest[u])
    BY <1>1, <1>3, <1>4 DEF Types, Proceed
  <2>2. \A d \in Connection : d # c => received'[d] = received[d]
    BY <1>3, <1>5 DEF Types
  <2> QED  BY <1>1, <1>4, <2>1, <2>2 DEF IInv, Unheard, connections
<1>9. NewsReachesListeners'
  <2>1. ASSUME NEW d \in Connection, NEW i \in Nat, NEW u \in Task,
               i \in Range(todo[u]),
               i = Head(todo[u]) => d \in Range(rest[u]) \union stale[u]
        PROVE  (i \in Range(received[d]) \union skipped[d] \/ Pending(i, d))'
    <3>1. CASE u = t /\ d = c /\ i = e
      BY <1>5, <3>1
    <3>2. CASE ~(u = t /\ d = c /\ i = e)
      <4>1. i = Head(todo[u]) => d \in Range(rest'[u]) \union stale'[u]
        BY <1>1, <1>3, <1>4, <2>1, <3>2 DEF Types, Proceed, e
      <4> QED  BY <1>1, <2>1, <4>1 DEF Pending
    <3> QED  BY <3>1, <3>2
  <2>2. \A d \in Connection, i \in Nat :
           i \in Range(received[d]) \union skipped[d] =>
              i \in Range(received'[d]) \union skipped'[d]
    BY <1>1, <1>5
  <2>3. UNCHANGED <<log, devices, connections>>
    BY <1>1 DEF store
  <2> QED  BY <2>1, <2>2, <2>3, StillOwed
\* It goes on, or it waits for the connection to drain.
<1>10. CASE Proceed(t) /\ UNCHANGED <<loop, at, waiting>>
  <2>1. Types'
    BY <1>1, <1>3, <1>4, <1>5, <1>10
       DEF Types, Index, Proceed, store, devices, connections
  <2>2. Queues'
    <3>1. \A d \in Connection : Range(received[d]) \subseteq Range(received'[d])
      BY <1>5
    <3>2. \A u \in Task : u # t => rest'[u] = rest[u]
      BY <1>3, <1>10 DEF Types, Proceed
    <3> QED  BY <1>1, <1>4, <1>10, <3>1, <3>2, Distinct, ZenonT(40) DEF IInv, Queues
  <2> QED  BY <1>6, <1>7, <1>8, <1>9, <2>1, <2>2 DEF IInv
<1>11. CASE /\ at' = [at EXCEPT ![t] = c]
            /\ waiting' = [waiting EXCEPT ![c] = Append(@, t)]
            /\ loop' = Free
            /\ UNCHANGED rest
  <2>1. /\ Append(waiting[c], t) \in Seq(Task) /\ IsInjective(Append(waiting[c], t))
        /\ Range(Append(waiting[c], t)) = Range(waiting[c]) \union {t}
    <3>1. waiting[c] \in Seq(Task) /\ IsInjective(waiting[c]) /\ t \notin Range(waiting[c])
      BY <1>3, <1>4 DEF IInv, Types, Queues
    <3> QED  BY <3>1, RangeOfAppend, AppendKeepsApart
  <2>2. Types'
    <3>1. /\ at' \in [Task -> Place] /\ waiting' \in [Connection -> Seq(Task)]
          /\ loop' \in Task \union {Free}
      BY <1>3, <1>11, <2>1, Distinct DEF Types
    <3> QED  BY <1>1, <1>3, <1>5, <1>11, <3>1
                DEF Types, Index, store, devices, connections
  <2>3. Queues'
    <3>1. \A d \in Connection : IsInjective(waiting'[d])
      BY <1>3, <1>11, <2>1 DEF IInv, Types, Queues
    <3>2. \A u \in Task, d \in Connection : at'[u] = d <=> u \in Range(waiting'[d])
      <4> SUFFICES ASSUME NEW u \in Task, NEW d \in Connection
                   PROVE  at'[u] = d <=> u \in Range(waiting'[d])
        OBVIOUS
      <4>1. at'[u] = IF u = t THEN c ELSE at[u]
        BY <1>3, <1>11 DEF Types
      <4>2. Range(waiting'[d]) = IF d = c THEN Range(waiting[c]) \union {t}
                                          ELSE Range(waiting[d])
        BY <1>3, <1>11, <2>1 DEF Types
      <4>3. at[u] = d <=> u \in Range(waiting[d])
        BY DEF IInv, Queues
      <4> QED  BY <1>4, <4>1, <4>2, <4>3
    <3>3. ASSUME NEW u \in Task
          PROVE  /\ loop' # u
                 /\ at'[u] # Nowhere => todo'[u] # <<>>
                 /\ at'[u] \in Connection =>
                       /\ rest'[u] # <<>> /\ Head(rest'[u]) = at'[u]
                       /\ Head(todo'[u]) \in Range(received'[at'[u]])
      <4>1. loop' # u
        BY <1>11, Distinct
      <4>2. CASE u = t
        <5>1. at'[u] = c
          BY <1>3, <1>11, <4>2 DEF Types
        <5>2. Head(todo'[u]) = e /\ e \in Range(received'[c])
          BY <1>1, <1>5, <4>2 DEF e
        <5> QED  BY <1>1, <1>2, <1>4, <1>11, <4>1, <4>2, <5>1, <5>2
      <4>3. CASE u # t
        <5>1. at'[u] = at[u]
          BY <1>3, <1>11, <4>3 DEF Types
        <5>2. /\ at[u] # Nowhere => todo[u] # <<>>
              /\ at[u] \in Connection =>
                    /\ rest[u] # <<>> /\ Head(rest[u]) = at[u]
                    /\ Head(todo[u]) \in Range(received[at[u]])
          BY DEF IInv, Queues
        <5> QED  BY <1>1, <1>5, <1>11, <4>1, <5>1, <5>2
      <4> QED  BY <4>2, <4>3
    <3> QED  BY <3>1, <3>2, <3>3 DEF Queues
  <2> QED  BY <1>6, <1>7, <1>8, <1>9, <2>2, <2>3 DEF IInv
<1> QED  BY <1>1, <1>10, <1>11

\* The write is over; the task goes on with the next connection.
LEMMA ResumeStep ==
    ASSUME IInv, NEW t \in Task, Resume(t)
    PROVE  IInv'
<1>1. PICK c \in Connection :
         /\ loop = Free
         /\ at[t] = c /\ t = Head(waiting[c])
         /\ \/ UNCHANGED stale
            \/ stale' = [stale EXCEPT ![t] = @ \union {c}]
         /\ loop' = t
         /\ at' = [at EXCEPT ![t] = Nowhere]
         /\ waiting' = [waiting EXCEPT ![c] = Tail(@)]
         /\ rest' = [rest EXCEPT ![t] = Tail(@)]
         /\ UNCHANGED <<store, devices, connections, received, skipped, todo, changes>>
  BY DEF Resume, Proceed
<1>2. Types
  BY DEF IInv
<1>3. /\ rest[t] # <<>> /\ c = Head(rest[t]) /\ todo[t] # <<>>
      /\ Head(todo[t]) \in Range(received[c])
      /\ t \in Range(waiting[c])
  BY <1>1, Distinct DEF IInv, Queues
<1>4. /\ Tail(rest[t]) \in Seq(Connection)
      /\ Range(rest[t]) = {c} \union Range(Tail(rest[t]))
  BY <1>3, OnItsList
<1>5. /\ Tail(waiting[c]) \in Seq(Task) /\ IsInjective(Tail(waiting[c]))
      /\ Range(waiting[c]) = {t} \union Range(Tail(waiting[c]))
      /\ t \notin Range(Tail(waiting[c]))
  <2>1. waiting[c] # <<>>
    BY <1>3 DEF Range
  <2>2. waiting[c] \in Seq(Task) /\ IsInjective(waiting[c])
    BY <1>2 DEF IInv, Types, Queues
  <2> QED  BY <1>1, <2>1, <2>2, FirstAndRest
<1>6. /\ stale' \in [Task -> SUBSET Connection]
      /\ \A u \in Task : stale[u] \subseteq stale'[u]
  <2>1. stale \in [Task -> SUBSET Connection] /\ stale[t] \union {c} \in SUBSET Connection
    BY <1>2 DEF Types
  <2>2. [stale EXCEPT ![t] = @ \union {c}] \in [Task -> SUBSET Connection]
    BY <2>1
  <2> QED  BY <1>1, <2>1, <2>2
<1>7. Types'
  <2>1. /\ at' \in [Task -> Place] /\ waiting' \in [Connection -> Seq(Task)]
        /\ rest' \in [Task -> Seq(Connection)] /\ loop' \in Task \union {Free}
    BY <1>1, <1>2, <1>4, <1>5, Distinct DEF Types
  <2> QED  BY <1>1, <1>2, <1>6, <2>1 DEF Types, Index, store, devices, connections
<1>8. HubIsCurrent' /\ HubHoldsNoRevoked' /\ GuestsHearTheirOwn'
  BY <1>1, HubStays DEF store
<1>9. Queues'
  <2>0. \A d \in Connection :
           waiting'[d] = IF d = c THEN Tail(waiting[c]) ELSE waiting[d]
    BY <1>1, <1>2 DEF Types
  <2>1. \A d \in Connection : IsInjective(waiting'[d])
    BY <1>5, <2>0 DEF IInv, Queues
  <2>2. ASSUME NEW u \in Task, NEW d \in Connection
        PROVE  at'[u] = d <=> u \in Range(waiting'[d])
    <3>1. at'[u] = IF u = t THEN Nowhere ELSE at[u]
      BY <1>1, <1>2 DEF Types
    <3>2. Range(waiting'[d]) = IF d = c THEN Range(waiting[c]) \ {t} ELSE Range(waiting[d])
      BY <1>5, <2>0
    <3>3. at[u] = d <=> u \in Range(waiting[d])
      BY DEF IInv, Queues
    <3> QED  BY <1>1, <3>1, <3>2, <3>3, Distinct
  <2>3. ASSUME NEW u \in Task
        PROVE  /\ loop' = u => at'[u] = Nowhere
               /\ loop' = u \/ at'[u] # Nowhere => todo'[u] # <<>>
               /\ at'[u] \in Connection =>
                     /\ rest'[u] # <<>> /\ Head(rest'[u]) = at'[u]
                     /\ Head(todo'[u]) \in Range(received'[at'[u]])
    <3>1. CASE u = t
      BY <1>1, <1>2, <1>3, <3>1, Distinct DEF Types
    <3>2. CASE u # t
      <4>1. at'[u] = at[u] /\ rest'[u] = rest[u] /\ loop' # u
        BY <1>1, <1>2, <3>2 DEF Types
      <4> QED  BY <1>1, <4>1 DEF IInv, Queues
    <3> QED  BY <3>1, <3>2
  <2> QED  BY <2>1, <2>2, <2>3 DEF Queues
<1>10. Unheard'
  <2>1. \A u \in Task : Range(rest'[u]) \subseteq Range(rest[u])
    BY <1>1, <1>2, <1>4 DEF Types
  <2> QED  BY <1>1, <2>1 DEF IInv, Unheard, connections
<1>11. NewsReachesListeners'
  <2>1. ASSUME NEW d \in Connection, NEW i \in Nat, NEW u \in Task,
               i \in Range(todo[u]),
               i = Head(todo[u]) => d \in Range(rest[u]) \union stale[u]
        PROVE  (i \in Range(received[d]) \union skipped[d] \/ Pending(i, d))'
    <3>1. CASE u = t /\ d = c /\ i = Head(todo[t])
      BY <1>1, <1>3, <3>1
    <3>2. CASE ~(u = t /\ d = c /\ i = Head(todo[t]))
      <4>1. i = Head(todo[u]) => d \in Range(rest'[u]) \union stale'[u]
        BY <1>1, <1>2, <1>4, <1>6, <2>1, <3>2 DEF Types
      <4> QED  BY <1>1, <2>1, <4>1 DEF Pending
    <3> QED  BY <3>1, <3>2
  <2>2. UNCHANGED <<log, devices, connections>>
    BY <1>1 DEF store
  <2> QED  BY <1>1, <2>1, <2>2, StillOwed
<1> QED  BY <1>7, <1>8, <1>9, <1>10, <1>11 DEF IInv

\* The useless connections leave the hub; nothing more is owed to them.
LEMMA CloseStaleStep ==
    ASSUME IInv, NEW t \in Task, CloseStale(t)
    PROVE  IInv'
<1>1. /\ loop = t /\ rest[t] = <<>> /\ todo[t] # <<>>
      /\ hub' = Without(hub, stale[t])
      /\ stage' = [c \in Connection |-> IF c \in stale[t] THEN "gone" ELSE stage[c]]
      /\ stale' = [stale EXCEPT ![t] = {}]
      /\ at' = [at EXCEPT ![t] = Closing]
      /\ loop' = Free
      /\ UNCHANGED <<store, devices, outdated, since, received, skipped, todo, rest,
                     waiting, changes>>
  BY DEF CloseStale
<1>2. Types
  BY DEF IInv
<1>3. at[t] = Nowhere /\ \A c \in Connection : t \notin Range(waiting[c])
  BY <1>1, OnItsWay
<1>4. /\ hub' \in Seq(Connection) /\ IsInjective(hub')
      /\ Registered' = Registered \ stale[t]
  BY <1>1, WithoutKeepsOthers DEF IInv, Types, HubIsCurrent, Registered
<1>5. Types'
  <2>1. at' \in [Task -> Place] /\ loop' \in Task \union {Free}
    BY <1>1, <1>2, Distinct DEF Types
  <2>2. stale' \in [Task -> SUBSET Connection]
    BY <1>1, <1>2 DEF Types
  <2>3. stage' \in [Connection -> {"new", "accepting", "open", "broken", "closing", "gone"}]
    BY <1>1, <1>2 DEF Types
  <2> QED  BY <1>1, <1>2, <1>4, <2>1, <2>2, <2>3 DEF Types, Index, store, devices
<1>6. HubIsCurrent'
  BY <1>1, <1>2, <1>4 DEF IInv, Types, HubIsCurrent
<1>7. Queues'
  <2>1. \A u \in Task : at'[u] = IF u = t THEN Closing ELSE at[u]
    BY <1>1, <1>2 DEF Types
  <2>2. \A u \in Task : loop' # u
    BY <1>1, Distinct
  <2> QED  BY <1>1, <1>3, <2>1, <2>2, Distinct DEF IInv, Queues
<1>8. Unheard'
  BY <1>1, <1>2 DEF IInv, Types, Unheard
<1>9. HubHoldsNoRevoked' /\ GuestsHearTheirOwn'
  BY <1>1, <1>4 DEF IInv, HubHoldsNoRevoked, GuestsHearTheirOwn, store, devices
<1>10. NewsReachesListeners'
  <2> SUFFICES ASSUME NEW c \in Registered', (stage[c] = "open" /\ Authorized(c))',
                      NEW i \in DOMAIN log', i > since'[c],
                      log'[i].type \in {"created", "acknowledged"}
               PROVE  (i \in Range(received[c]) \union skipped[c] \/ Pending(i, c))'
    BY DEF NewsReachesListeners, Reaches
  <2>1. /\ c \in Registered /\ c \in Connection /\ c \notin stale[t]
        /\ stage[c] = "open" /\ Authorized(c)
        /\ i \in DOMAIN log /\ i > since[c] /\ log[i].type \in {"created", "acknowledged"}
    BY <1>1, <1>4 DEF IInv, HubIsCurrent, Authorized, store, devices
  <2>2. i \in Range(received[c]) \union skipped[c] \/ Pending(i, c)
    BY <2>1 DEF IInv, NewsReachesListeners, Reaches
  <2>3. ASSUME NEW u \in Task, c \in Range(rest[u]) \union stale[u]
        PROVE  c \in Range(rest'[u]) \union stale'[u]
    BY <1>1, <1>2, <2>1, <2>3 DEF Types
  <2> QED  BY <1>1, <2>2, <2>3 DEF Pending
<1> QED  BY <1>5, <1>6, <1>7, <1>8, <1>9, <1>10 DEF IInv

LEMMA StaleClosedStep ==
    ASSUME IInv, NEW t \in Task, StaleClosed(t)
    PROVE  IInv'
<1>1. /\ loop = Free /\ at[t] = Closing
      /\ at' = [at EXCEPT ![t] = Nowhere]
      /\ loop' = t
      /\ UNCHANGED <<store, devices, connections, received, skipped, todo, rest, stale,
                     waiting, changes>>
  BY DEF StaleClosed
<1>2. Types
  BY DEF IInv
<1>3. Types'
  <2>1. at' \in [Task -> Place] /\ loop' \in Task \union {Free}
    BY <1>1, <1>2, Distinct DEF Types
  <2> QED  BY <1>1, <1>2, <2>1 DEF Types, Index, store, devices, connections
<1>4. HubIsCurrent' /\ HubHoldsNoRevoked' /\ GuestsHearTheirOwn'
  BY <1>1, HubStays DEF store
<1>5. Queues'
  <2>1. \A u \in Task : at'[u] = IF u = t THEN Nowhere ELSE at[u]
    BY <1>1, <1>2 DEF Types
  <2>2. todo[t] # <<>> /\ \A c \in Connection : t \notin Range(waiting[c])
    BY <1>1, Distinct DEF IInv, Queues
  <2> QED  BY <1>1, <2>1, <2>2, Distinct DEF IInv, Queues
<1>6. Unheard'
  BY <1>1 DEF IInv, Unheard, connections
<1>7. NewsReachesListeners'
  BY <1>1, StillOwed DEF Pending, store
<1> QED  BY <1>3, <1>4, <1>5, <1>6, <1>7 DEF IInv

\* The next event of the task: whoever is registered by now is on its list.
LEMMA NextEventStep ==
    ASSUME IInv, NEW t \in Task, NextEvent(t)
    PROVE  IInv'
<1>1. /\ loop = t /\ rest[t] = <<>> /\ todo[t] # <<>> /\ stale[t] = {}
      /\ todo' = [todo EXCEPT ![t] = Tail(@)]
      /\ IF Len(todo[t]) > 1
         THEN rest' = [rest EXCEPT ![t] = hub] /\ UNCHANGED loop
         ELSE loop' = Free /\ UNCHANGED rest
      /\ UNCHANGED <<store, devices, connections, received, skipped, stale, at,
                     waiting, changes>>
  BY DEF NextEvent
<1>2. Types
  BY DEF IInv
<1>3. /\ Tail(todo[t]) \in Seq(Index)
      /\ Range(todo[t]) = {Head(todo[t])} \union Range(Tail(todo[t]))
      /\ Len(todo[t]) > 1 <=> Tail(todo[t]) # <<>>
  BY <1>1, <1>2, FirstAndRest, ZenonT(40) DEF Types
<1>4. at[t] = Nowhere
  BY <1>1, OnItsWay
<1>5. Types'
  <2>1. todo' \in [Task -> Seq(Index)]
    BY <1>1, <1>2, <1>3 DEF Types
  <2>2. rest' \in [Task -> Seq(Connection)] /\ loop' \in Task \union {Free}
    BY <1>1, <1>2 DEF Types
  <2> QED  BY <1>1, <1>2, <2>1, <2>2 DEF Types, Index, store, devices, connections
<1>6. HubIsCurrent' /\ HubHoldsNoRevoked' /\ GuestsHearTheirOwn'
  BY <1>1, HubStays DEF store
<1>7. Queues'
  <2>1. \A u \in Task : u # t => todo'[u] = todo[u] /\ rest'[u] = rest[u]
    BY <1>1, <1>2 DEF Types
  <2>2. loop' = Free \/ (loop' = t /\ todo'[t] # <<>>)
    BY <1>1, <1>2, <1>3 DEF Types
  <2> QED  BY <1>1, <1>4, <2>1, <2>2, Distinct DEF IInv, Queues
<1>8. Unheard'
  <2>1. \A u \in Task : rest'[u] = rest[u] \/ rest'[u] = hub
    BY <1>1, <1>2 DEF Types
  <2> QED  BY <1>1, <2>1 DEF IInv, HubIsCurrent, Registered, Unheard, connections
<1>9. NewsReachesListeners'
  <2>1. ASSUME NEW d \in Registered, NEW i \in Nat, NEW u \in Task,
               i \in Range(todo[u]),
               i = Head(todo[u]) => d \in Range(rest[u]) \union stale[u]
        PROVE  Pending(i, d)'
    <3>1. CASE u # t
      BY <1>1, <1>2, <2>1, <3>1 DEF Types, Pending
    <3>2. CASE u = t
      <4>1. Range(rest[t]) \union stale[t] = {}
        BY <1>1 DEF Range
      <4>2. i \in Range(Tail(todo[t]))
        BY <1>3, <2>1, <3>2, <4>1
      <4>3. Tail(todo[t]) # <<>>
        BY <4>2 DEF Range
      <4>4. todo'[t] = Tail(todo[t]) /\ rest'[t] = hub
        BY <1>1, <1>2, <1>3, <4>3 DEF Types
      <4> QED  BY <4>2, <4>4 DEF Pending, Registered
    <3> QED  BY <3>1, <3>2
  <2>2. UNCHANGED <<log, devices, connections>>
    BY <1>1 DEF store
  <2> QED  BY <1>1, <2>1, <2>2, StillOwed
<1> QED  BY <1>5, <1>6, <1>7, <1>8, <1>9 DEF IInv

-----------------------------------------------------------------------------
LEMMA InitInv == Init => IInv
<1> SUFFICES ASSUME Init  PROVE IInv
  OBVIOUS
<1>1. Range(<<>>) = {} /\ IsInjective(<<>>) /\ Len(<<>>) = 0
  BY EmptySeq DEF Range, IsInjective
<1>2. \A S : <<>> \in Seq(S)
  BY EmptySeq
<1>3. Types
  BY <1>2, Distinct, DeliveryAssumption DEF Init, Types
<1>4. HubIsCurrent /\ Registered = {}
  BY <1>1 DEF Init, HubIsCurrent, Registered
<1>5. Queues
  BY <1>1, Distinct DEF Init, Queues
<1>6. Unheard
  BY <1>1 DEF Init, Unheard
<1>7. HubHoldsNoRevoked /\ GuestsHearTheirOwn /\ NewsReachesListeners
  BY <1>4 DEF HubHoldsNoRevoked, GuestsHearTheirOwn, NewsReachesListeners, Reaches
<1> QED  BY <1>3, <1>4, <1>5, <1>6, <1>7 DEF IInv

LEMMA NextInv == IInv /\ [Next]_vars => IInv'
<1> SUFFICES ASSUME IInv, [Next]_vars  PROVE IInv'
  OBVIOUS
<1>1. CASE Request
  BY <1>1, RequestStep
<1>2. CASE Sweep
  BY <1>2, SweepStep
<1>3. ASSUME NEW t \in Task, Broadcast(t)  PROVE IInv'
  BY <1>3, SkipStep, SendStep, SendFailsStep, ResumeStep, CloseStaleStep, StaleClosedStep,
     NextEventStep DEF Broadcast
<1>4. CASE Listening
  BY <1>4, ConnectStep, RegisterStep, BreakStep, DisconnectStep DEF Listening
<1>5. CASE Administration
  BY <1>5, ReplaceTokenStep, ChangeRoleStep, MuteStep, RevokeDeviceStep, ResetDevicesStep
     DEF Administration
<1>6. CASE \E n \in Notification : BecomeOverdue(n)
  BY <1>6, QuietStep
<1>7. CASE Crash
  BY <1>7, CrashStep
<1>8. CASE UNCHANGED vars
  <2>1. Types' /\ HubIsCurrent'
    BY <1>8 DEF IInv, Types, HubIsCurrent, Index, Registered, vars, store, devices,
                connections, tasks
  <2> QED  BY <1>8, <2>1, SurroundingsStep
              DEF IInv, HubHoldsNoRevoked, Registered, Authorized, vars, store, devices,
                  connections
<1> QED  BY <1>1, <1>2, <1>3, <1>4, <1>5, <1>6, <1>7, <1>8 DEF Next

\* The inductive invariant holds in every reachable state.
THEOREM Invariance == Spec => []IInv
<1>1. Init => IInv
  BY InitInv
<1>2. IInv /\ [Next]_vars => IInv'
  BY NextInv
<1> QED  BY <1>1, <1>2, PTL DEF Spec

\* The tables, the hub, the lists of the tasks and the connections they wait for
\* have their types, and the hub holds exactly the connections that are open or
\* broken without the server's knowledge.
THEOREM TypeCorrectness == Spec => []TypeOK
<1>1. IInv => TypeOK
  <2> SUFFICES ASSUME IInv  PROVE TypeOK
    OBVIOUS
  <2>1. \A i \in DOMAIN log : log[i] \in Event
    BY LenProperties, ElementOfSeq DEF IInv, Types
  <2>2. ASSUME NEW t \in Task
        PROVE  /\ \A i \in DOMAIN todo[t] : todo[t][i] \in DOMAIN log
               /\ Range(rest[t]) \union stale[t] \subseteq Connection
    <3>1. todo[t] \in Seq(DOMAIN log) /\ rest[t] \in Seq(Connection) /\ stale[t] \subseteq Connection
      BY LenProperties DEF IInv, Types, Index
    <3>2. \A i \in DOMAIN todo[t] : todo[t][i] \in DOMAIN log
      BY <3>1, LenProperties, ElementOfSeq
    <3>3. Range(rest[t]) \subseteq Connection
      BY <3>1, RangeOfSeq
    <3> QED  BY <3>1, <3>2, <3>3
  <2>3. \A t \in Task :
           /\ loop = t => at[t] = Nowhere /\ todo[t] # <<>>
           /\ \A c \in Connection : at[t] = c <=> t \in Range(waiting[c])
    BY DEF IInv, Queues
  <2> QED  BY <2>1, <2>2, <2>3 DEF IInv, Types, HubIsCurrent, TypeOK
<1> QED  BY <1>1, Invariance, PTL

\* hub.reconnect_device and the second look at the authorization after the handshake
\* keep every device that an administrator revoked out of the hub, and every
\* device whose handshake the local script overtook; what the script leaves in the
\* hub was there when it ran.
THEOREM RevokedStayOut == Spec => []HubHoldsNoRevoked
<1>1. IInv => HubHoldsNoRevoked
  BY DEF IInv
<1> QED  BY <1>1, Invariance, PTL

\* A guest's connection has heard of nothing but the guest's own notifications,
\* through any changes of role before, during and after a broadcast.
THEOREM GuestsStayAmongThemselves == Spec => []GuestsHearTheirOwn
<1>1. IInv => GuestsHearTheirOwn
  BY DEF IInv
<1> QED  BY <1>1, Invariance, PTL

\* No created or acknowledged event is forgotten on the way to a connection that
\* works, however many tasks publish, wait, fail and close connections together.
THEOREM NewsIsNotLost == Spec => []NewsReachesListeners
<1>1. IInv => NewsReachesListeners
  BY DEF IInv
<1> QED  BY <1>1, Invariance, PTL

\* broadcast asks again, right before it writes, what the device is by now: nothing
\* is written to a device revoked, demoted or muted since it was put on the list,
\* unless it may have it all the same.
THEOREM WrittenToTheEntitled == Spec => OnlyTheEntitledHear
<1> DEFINE e(c) == log[Last(received'[c])]
           Entitled ==
              \A c \in Connection :
                 received'[c] # received[c] =>
                    /\ DeviceOf[c] \notin revoked
                    /\ DeviceOf[c] \in guests => Origin[e(c).n] = DeviceOf[c]
                    /\ e(c).type = "created" => DeviceOf[c] \notin muted
<1>1. ASSUME IInv, [Next]_vars
      PROVE  [Entitled]_vars
  <2>1. ASSUME NEW t \in Task, Send(t)  PROVE Entitled
    <3>1. PICK d \in Connection :
             /\ rest[t] # <<>> /\ loop = t
             /\ Authorized(d) /\ ShouldDeliver(Current(t), DeviceOf[d])
             /\ received' = [received EXCEPT ![d] = Append(@, Head(todo[t]))]
      BY <2>1 DEF Send, Gets, Visiting
    <3>2. received \in [Connection -> Seq(Index)] /\ Head(todo[t]) \in Index
      BY <1>1, <3>1, FirstAndRest DEF IInv, Types, Queues
    <3>3. received'[d] = Append(received[d], Head(todo[t]))
      BY <3>1, <3>2
    <3>4. Last(received'[d]) = Head(todo[t])
      BY <3>2, <3>3, AppendProperties DEF Last
    <3>5. \A c \in Connection : c # d => received'[c] = received[c]
      BY <3>1, <3>2
    <3> QED  BY <3>1, <3>4, <3>5 DEF ShouldDeliver, MaySee, SeesAll, Current
  <2>2. ASSUME received' = received  PROVE Entitled
    BY <2>2
  <2>3. CASE Request
    BY <2>2, <2>3, ZenonT(40) DEF Request, CreateNotification, CreateSilently, MergeApproval,
                Reopen, Acknowledge, Settle, AcknowledgeAgain, ListNotifications, Publish
  <2>4. CASE Sweep
    BY <2>2, <2>4 DEF Sweep, Publish
  <2>5. ASSUME NEW t \in Task, Broadcast(t)  PROVE Entitled
    BY <2>1, <2>2, <2>5 DEF Broadcast, Skip, SendFails, Resume, CloseStale, StaleClosed, NextEvent
  <2>6. CASE Listening
    BY <2>2, <2>6 DEF Listening, Connect, Register, Break, Disconnect
  <2>7. CASE Administration
    BY <2>2, <2>7 DEF Administration, ReplaceToken, ChangeRole, Mute, RevokeDevice, ResetDevices
  <2>8. CASE (\E n \in Notification : BecomeOverdue(n)) \/ Crash \/ UNCHANGED vars
    BY <2>2, <2>8 DEF BecomeOverdue, Crash, vars
  <2> HIDE DEF Entitled
  <2> QED  BY <1>1, <2>3, <2>4, <2>5, <2>6, <2>7, <2>8 DEF Next
<1>2. IInv /\ [Next]_vars => [Entitled]_vars
  BY <1>1
<1> QED  BY <1>2, Invariance, PTL DEF Spec, OnlyTheEntitledHear
=============================================================================
