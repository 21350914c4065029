--------------------------- MODULE DevicesProofs ---------------------------
(***************************************************************************)
(* Proofs about Devices, for every set of devices and codes, every         *)
(* lifetime and an unbounded history.  One inductive invariant carries all *)
(* of them: its four parts need each other (a code is refused when its     *)
(* issuer is no administrator, which keeps administrators in existence,    *)
(* which makes the issuer of the next code one).                           *)
(***************************************************************************)
EXTENDS Devices, TLAPS

IInv ==
    /\ TypeOK
    /\ AdministratorAlwaysExists
    /\ CodesHaveAuthority
    /\ AccessWithinRefresh

\* SoleAdminPermanent as a relation on a set of administrators and deadlines.
Sole(admins, refresh, t) ==
    \/ admins = {}
    \/ \E d \in admins : refresh[d] = Never
    \/ \E d, e \in admins : d # e /\ Live(refresh[d], t) /\ Live(refresh[e], t)

Within(access, refresh) ==
    \A d \in Device : refresh[d] # Never => access[d] # Never /\ access[d] <= refresh[d]

Deadlines == [Device -> Deadline]

-----------------------------------------------------------------------------
\* Whatever _ensure_admin_invariant_locked leaves is protected, and it only ever
\* makes an administrator permanent.
LEMMA ProtectResult ==
    ASSUME NEW admins \in SUBSET Device, NEW refresh \in Deadlines, NEW t \in Nat,
           NEW result \in Protect(admins, refresh, t)
    PROVE  /\ result \in Deadlines
           /\ Sole(admins, result, t)
           /\ \A d \in Device : result[d] = refresh[d] \/ (result[d] = Never /\ d \in admins)
<1>1. CASE NeedsSurvivor(admins, refresh, t)
  <2>1. PICK d \in Latest(admins, refresh) : result = [refresh EXCEPT ![d] = Never]
    BY <1>1 DEF Protect
  <2>2. d \in admins /\ d \in Device
    BY <2>1 DEF Latest
  <2> QED
    BY <2>1, <2>2 DEF Deadlines, Deadline, Sole
<1>2. CASE ~NeedsSurvivor(admins, refresh, t)
  <2>1. result = refresh
    BY <1>2 DEF Protect
  <2>2. Sole(admins, refresh, t)
    BY <1>2, NullAssumption DEF NeedsSurvivor, Sole, Live, Deadlines, Deadline
  <2> QED
    BY <2>1, <2>2
<1> QED
  BY <1>1, <1>2

\* A sweep that comes late changes exactly what one on time would have changed:
\* the docstring's "applies the same transition retrospectively".
LEMMA LateSweepSameSurvivor ==
    ASSUME NEW admins \in SUBSET Device, NEW refresh \in Deadlines, NEW t \in Nat,
           NEW u \in Nat, t <= u, NeedsSurvivor(admins, refresh, t)
    PROVE  Protect(admins, refresh, u) = Protect(admins, refresh, t)
<1>1. NeedsSurvivor(admins, refresh, u)
  BY DEF NeedsSurvivor, Deadlines, Deadline
<1> QED
  BY <1>1 DEF Protect

\* Protecting twice in one transaction is protecting once.
LEMMA ProtectIdempotent ==
    ASSUME NEW admins \in SUBSET Device, NEW refresh \in Deadlines, NEW t \in Nat,
           NEW result \in Protect(admins, refresh, t)
    PROVE  Protect(admins, result, t) = {result}
<1>1. ~NeedsSurvivor(admins, result, t)
  BY ProtectResult DEF Sole, NeedsSurvivor, Live
<1> QED
  BY <1>1 DEF Protect

\* The access deadlines that binding, refreshing and shortening compute.
LEMMA CapWithin ==
    ASSUME NEW t \in Nat, NEW deadline \in Deadline
    PROVE  /\ Cap(t, deadline) \in Nat
           /\ deadline # Never => Cap(t, deadline) <= deadline
BY NullAssumption DEF Cap, Live, Deadline

LEMMA ShortenWithin ==
    ASSUME NEW access \in Deadline, NEW deadline \in Deadline
    PROVE  /\ Shorten(access, deadline) \in Deadline
           /\ deadline # Never => /\ Shorten(access, deadline) # Never
                                  /\ Shorten(access, deadline) <= deadline
BY NullAssumption DEF Shorten, Live, Deadline

LEMMA ResolveType ==
    ASSUME NEW t \in Nat, NEW policy,
           policy \in Explicit \union {Omitted} \/ \E row \in PairCode : policy = row.policy
    PROVE  ResolveExpiry(policy, t) \in Deadline
<1>1. /\ policy.kind \in {"omitted", "permanent", "days", "until"}
      /\ policy.value \in Nat
  BY LifetimeAssumption DEF Explicit, Omitted, Permanent, Days, Until, PairCode
<1> QED
  BY <1>1, LifetimeAssumption DEF ResolveExpiry, Deadline

-----------------------------------------------------------------------------
(***************************************************************************)
(* One lemma per operation: it keeps the inductive invariant and commits a *)
(* protected table.                                                        *)
(***************************************************************************)
\* What every operation starts from.
LEMMA EnsuredFacts ==
    ASSUME IInv, NEW refresh \in Ensured
    PROVE  /\ refresh \in Deadlines
           /\ Sole(Admins, refresh, now)
           /\ Within(accessExp, refresh)
<1>1. now \in Nat /\ Admins \in SUBSET Device /\ refreshExp \in Deadlines
  BY LifetimeAssumption DEF IInv, TypeOK, Time, Admins, Unrevoked, Deadlines
<1>2. /\ refresh \in Deadlines
      /\ Sole(Admins, refresh, now)
      /\ \A d \in Device : refresh[d] = refreshExp[d] \/ refresh[d] = Never
  BY <1>1, ProtectResult DEF Ensured
<1>3. Within(accessExp, refresh)
  BY <1>2 DEF Within, IInv, AccessWithinRefresh
<1> QED
  BY <1>2, <1>3

\* The invariant's parts that only the tables of devices decide.
LEMMA EnforceStep ==
    ASSUME IInv, Enforce
    PROVE  IInv' /\ Sole(Admins, refreshExp, now)'
<1>1. refreshExp' \in Deadlines /\ Sole(Admins, refreshExp', now) /\ Within(accessExp, refreshExp')
  BY EnsuredFacts DEF Enforce
<1>2. TypeOK'
  BY <1>1 DEF Enforce, IInv, TypeOK, Bound, Deadlines
<1>3. AdministratorAlwaysExists' /\ CodesHaveAuthority'
  BY DEF Enforce, IInv, AdministratorAlwaysExists, CodesHaveAuthority, Active, Bound,
         Admins, Unrevoked
<1>4. AccessWithinRefresh'
  BY <1>1 DEF Enforce, Within, AccessWithinRefresh
<1>5. Sole(Admins, refreshExp, now)'
  BY <1>1 DEF Enforce, Sole, Admins, Unrevoked, Live
<1> QED
  BY <1>2, <1>3, <1>4, <1>5 DEF IInv

LEMMA OpenStorageStep ==
    ASSUME IInv, OpenStorage
    PROVE  IInv' /\ Sole(Admins, refreshExp, now)'
<1>1. PICK refresh \in Ensured :
         /\ refreshExp' = refresh
         /\ accessExp' = [d \in Device |-> Shorten(accessExp[d], refresh[d])]
  BY DEF OpenStorage
<1>2. refresh \in Deadlines /\ Sole(Admins, refresh, now) /\ Within(accessExp, refresh)
  BY EnsuredFacts
<1>3. accessExp \in Deadlines
  BY DEF IInv, TypeOK, Deadlines
<1>4. accessExp' \in Deadlines /\ Within(accessExp', refreshExp')
  BY <1>1, <1>2, <1>3, ShortenWithin DEF Deadlines, Within
<1>5. TypeOK'
  BY <1>1, <1>2, <1>4 DEF OpenStorage, IInv, TypeOK, Bound, Deadlines
<1>6. AdministratorAlwaysExists' /\ CodesHaveAuthority'
  BY DEF OpenStorage, IInv, AdministratorAlwaysExists, CodesHaveAuthority, Active, Bound,
         Admins, Unrevoked
<1>7. AccessWithinRefresh'
  BY <1>4 DEF Within, AccessWithinRefresh
<1>8. Sole(Admins, refreshExp, now)'
  BY <1>1, <1>2 DEF OpenStorage, Sole, Admins, Unrevoked, Live
<1> QED
  BY <1>5, <1>6, <1>7, <1>8 DEF IInv

LEMMA RotateAccessStep ==
    ASSUME IInv, NEW d \in Device, RotateAccess(d)
    PROVE  IInv' /\ Sole(Admins, refreshExp, now)'
<1>1. PICK refresh \in Ensured :
         /\ refreshExp' = refresh
         /\ accessExp' = [accessExp EXCEPT ![d] = Cap(now + AccessTTL, refresh[d])]
  BY DEF RotateAccess
<1>2. refresh \in Deadlines /\ Sole(Admins, refresh, now) /\ Within(accessExp, refresh)
  BY EnsuredFacts
<1>3. accessExp \in Deadlines /\ now + AccessTTL \in Nat
  BY LifetimeAssumption DEF IInv, TypeOK, Deadlines, Time
<1>4. /\ Cap(now + AccessTTL, refresh[d]) \in Nat
      /\ refresh[d] # Never => Cap(now + AccessTTL, refresh[d]) <= refresh[d]
  BY <1>2, <1>3, CapWithin DEF Deadlines
<1>5. accessExp' \in Deadlines /\ Within(accessExp', refreshExp')
  BY <1>1, <1>2, <1>3, <1>4, NullAssumption DEF Deadlines, Within, Deadline
<1>6. TypeOK'
  BY <1>1, <1>2, <1>5 DEF RotateAccess, IInv, TypeOK, Bound, Deadlines
<1>7. AdministratorAlwaysExists' /\ CodesHaveAuthority'
  BY DEF RotateAccess, IInv, AdministratorAlwaysExists, CodesHaveAuthority, Active,
         Bound, Admins, Unrevoked
<1>8. AccessWithinRefresh'
  BY <1>5 DEF Within, AccessWithinRefresh
<1>9. Sole(Admins, refreshExp, now)'
  BY <1>1, <1>2 DEF RotateAccess, Sole, Admins, Unrevoked, Live
<1> QED
  BY <1>6, <1>7, <1>8, <1>9 DEF IInv

LEMMA RevokeAllDevicesStep ==
    ASSUME IInv, RevokeAllDevices
    PROVE  IInv' /\ Sole(Admins, refreshExp, now)'
<1>1. Active' = {} /\ Admins' = {}
  BY DEF RevokeAllDevices, Active, Bound, Admins, Unrevoked, IInv, TypeOK
<1>2. TypeOK'
  BY DEF RevokeAllDevices, IInv, TypeOK, Bound
<1> QED
  BY <1>1, <1>2 DEF RevokeAllDevices, IInv, AdministratorAlwaysExists, CodesHaveAuthority,
     AccessWithinRefresh, Sole

LEMMA TickStep ==
    ASSUME IInv, Tick
    PROVE  IInv'
<1>1. TypeOK'
  BY LifetimeAssumption DEF Tick, IInv, TypeOK, Time, Bound
<1> QED
  BY <1>1 DEF Tick, IInv, AdministratorAlwaysExists, CodesHaveAuthority, AccessWithinRefresh,
     Active, Bound, Admins, Unrevoked

LEMMA IssuePairCodeStep ==
    ASSUME IInv, NEW d \in Device, NEW code \in Code, NEW newRole \in Role,
           NEW policy \in Explicit \union {Omitted}, IssuePairCode(d, code, newRole, policy)
    PROVE  IInv' /\ Sole(Admins, refreshExp, now)'
<1>1. PICK refresh \in Ensured :
         AccessOk(d, refresh) /\ role[d] = "admin" /\ refreshExp' = refresh
  BY DEF IssuePairCode
<1>2. refresh \in Deadlines /\ Sole(Admins, refresh, now) /\ Within(accessExp, refresh)
  BY EnsuredFacts
<1>3. d \in Admins
  BY <1>1 DEF AccessOk, RefreshOk, Active, Admins, Unrevoked
<1>4. NewCode(code, d, newRole, policy) \in PairCode
  BY LifetimeAssumption DEF NewCode, PairCode, Explicit, Omitted, Permanent, Days, Until,
     IInv, TypeOK, Time
<1>5. TypeOK'
  BY <1>1, <1>2, <1>4 DEF IssuePairCode, IInv, TypeOK, Bound, Deadlines
<1>6. CodesHaveAuthority'
  BY <1>3 DEF IssuePairCode, IInv, CodesHaveAuthority, Admins, Unrevoked, NewCode
<1>7. AdministratorAlwaysExists' /\ AccessWithinRefresh'
  BY <1>1, <1>2 DEF IssuePairCode, IInv, AdministratorAlwaysExists, Active, Bound, Admins,
     Unrevoked, Within, AccessWithinRefresh
<1>8. Sole(Admins, refreshExp, now)'
  BY <1>1, <1>2 DEF IssuePairCode, Sole, Admins, Unrevoked, Live
<1> QED
  BY <1>5, <1>6, <1>7, <1>8 DEF IInv

LEMMA IssueBootstrapCodeStep ==
    ASSUME IInv, NEW code \in Code, IssueBootstrapCode(code)
    PROVE  IInv' /\ Sole(Admins, refreshExp, now)'
<1>1. refreshExp' \in Deadlines /\ Sole(Admins, refreshExp', now) /\ Within(accessExp, refreshExp')
  BY EnsuredFacts DEF IssueBootstrapCode
<1>2. NewCode(code, Bootstrap, "admin", Permanent) \in PairCode
  BY LifetimeAssumption DEF NewCode, PairCode, Omitted, Permanent, IInv, TypeOK, Time, Role
<1>3. TypeOK'
  BY <1>1, <1>2 DEF IssueBootstrapCode, IInv, TypeOK, Bound, Deadlines, WithoutCodesOf
<1>4. CodesHaveAuthority'
  BY DEF IssueBootstrapCode, IInv, CodesHaveAuthority, Admins, Unrevoked, NewCode, WithoutCodesOf
<1>5. AdministratorAlwaysExists' /\ AccessWithinRefresh'
  BY <1>1 DEF IssueBootstrapCode, IInv, AdministratorAlwaysExists, Active, Bound, Admins,
     Unrevoked, Within, AccessWithinRefresh
<1>6. Sole(Admins, refreshExp, now)'
  BY <1>1 DEF IssueBootstrapCode, Sole, Admins, Unrevoked, Live
<1> QED
  BY <1>3, <1>4, <1>5, <1>6 DEF IInv

\* A new row: `refresh` is the protected table it is inserted into.
LEMMA InsertFacts ==
    ASSUME IInv, NEW d \in Device, NEW newRole \in Role, NEW policy,
           ResolveExpiry(policy, now) \in Deadline,
           NEW refresh \in Ensured, Insert(d, newRole, policy, refresh),
           UNCHANGED <<now, revoked>>,
           newRole = "admin" \/ Active # {}
    PROVE  /\ role' \in [Device -> Role \union {"unbound"}]
           /\ refreshExp' \in Deadlines
           /\ accessExp' \in Deadlines
           /\ revoked' \subseteq Bound'
           /\ Admins \subseteq Admins'
           /\ AdministratorAlwaysExists'
           /\ AccessWithinRefresh'
           /\ Sole(Admins, refreshExp, now)'
<1> DEFINE first == newRole = "admin" /\ Admins = {}
           deadline == IF first THEN Never ELSE ResolveExpiry(policy, now)
           roles == [role EXCEPT ![d] = newRole]
<1>1. /\ role[d] = "unbound"
      /\ role' = roles
      /\ accessExp' = [accessExp EXCEPT ![d] = Cap(now + AccessTTL, deadline)]
      /\ refreshExp' \in Protect(Unrevoked(roles, revoked), [refresh EXCEPT ![d] = deadline], now)
  BY DEF Insert
<1>2. refresh \in Deadlines /\ Within(accessExp, refresh)
  BY EnsuredFacts
<1>3. deadline \in Deadline
  BY DEF Deadline
<1>4. /\ now \in Nat
      /\ now + AccessTTL \in Nat
      /\ accessExp \in Deadlines
      /\ role \in [Device -> Role \union {"unbound"}]
      /\ revoked \subseteq Bound
  BY LifetimeAssumption DEF IInv, TypeOK, Time, Deadlines
<1> HIDE DEF deadline
<1>5. /\ Cap(now + AccessTTL, deadline) \in Nat
      /\ deadline # Never => Cap(now + AccessTTL, deadline) <= deadline
  BY <1>3, <1>4, CapWithin
<1>6. Unrevoked(roles, revoked) \in SUBSET Device /\ [refresh EXCEPT ![d] = deadline] \in Deadlines
  BY <1>2, <1>3 DEF Unrevoked, Deadlines
<1>7. /\ refreshExp' \in Deadlines
      /\ Sole(Unrevoked(roles, revoked), refreshExp', now)
      /\ \A e \in Device : \/ refreshExp'[e] = [refresh EXCEPT ![d] = deadline][e]
                           \/ refreshExp'[e] = Never
  <2> DEFINE admins == Unrevoked(roles, revoked)
             inserted == [refresh EXCEPT ![d] = deadline]
  <2>1. admins \in SUBSET Device /\ inserted \in Deadlines /\ now \in Nat
    BY <1>4, <1>6
  <2>2. refreshExp' \in Protect(admins, inserted, now)
    BY <1>1
  <2> HIDE DEF admins, inserted
  <2>3. /\ refreshExp' \in Deadlines
        /\ Sole(admins, refreshExp', now)
        /\ \A e \in Device : refreshExp'[e] = inserted[e] \/ refreshExp'[e] = Never
    BY <2>1, <2>2, ProtectResult
  <2> QED
    BY <2>3 DEF admins, inserted
<1>8. accessExp' \in Deadlines /\ Within(accessExp', refreshExp')
  BY <1>1, <1>2, <1>3, <1>4, <1>5, <1>7, NullAssumption DEF Deadlines, Within, Deadline
<1>9. role' \in [Device -> Role \union {"unbound"}] /\ revoked' \subseteq Bound'
  BY <1>1, <1>4 DEF Bound, Role
<1>10. Admins \subseteq Admins' /\ Admins' = Unrevoked(roles, revoked)
  BY <1>1, <1>4 DEF Admins, Unrevoked
<1>11. AdministratorAlwaysExists'
  <2>1. CASE Admins # {}
    BY <2>1, <1>10 DEF AdministratorAlwaysExists
  <2>2. CASE Admins = {}
    <3>1. newRole = "admin" /\ d \notin revoked
      BY <2>2, <1>1, <1>4 DEF IInv, AdministratorAlwaysExists, Bound
    <3>2. d \in Admins'
      BY <3>1, <1>1, <1>4 DEF Admins, Unrevoked
    <3> QED
      BY <3>2 DEF AdministratorAlwaysExists
  <2> QED
    BY <2>1, <2>2
<1>12. AccessWithinRefresh'
  BY <1>8 DEF Within, AccessWithinRefresh
<1>13. Sole(Admins, refreshExp, now)'
  BY <1>7, <1>10 DEF Sole, Live
<1> QED
  BY <1>7, <1>8, <1>9, <1>10, <1>11, <1>12, <1>13

LEMMA BindDeviceStep ==
    ASSUME IInv, NEW d \in Device, BindDevice(d)
    PROVE  IInv' /\ Sole(Admins, refreshExp, now)'
<1> DEFINE newRole == IF Active = {} THEN "admin" ELSE "member"
<1>1. PICK refresh \in Ensured : Insert(d, newRole, Omitted, refresh)
  BY DEF BindDevice
<1>2. newRole \in Role /\ (newRole = "admin" \/ Active # {})
  BY DEF Role
<1>3. ResolveExpiry(Omitted, now) \in Deadline
  BY ResolveType, LifetimeAssumption DEF IInv, TypeOK, Time
<1>4. UNCHANGED <<now, revoked, pairCodes>>
  BY DEF BindDevice
<1> HIDE DEF newRole
<1>5. /\ role' \in [Device -> Role \union {"unbound"}]
      /\ refreshExp' \in Deadlines
      /\ accessExp' \in Deadlines
      /\ revoked' \subseteq Bound'
      /\ Admins \subseteq Admins'
      /\ AdministratorAlwaysExists'
      /\ AccessWithinRefresh'
      /\ Sole(Admins, refreshExp, now)'
  BY <1>1, <1>2, <1>3, <1>4, InsertFacts
<1>6. TypeOK' /\ CodesHaveAuthority'
  BY <1>4, <1>5 DEF IInv, TypeOK, CodesHaveAuthority, Deadlines
<1> QED
  BY <1>5, <1>6 DEF IInv

LEMMA ConsumePairCodeStep ==
    ASSUME IInv, NEW row \in pairCodes, NEW d \in Device, ConsumePairCode(row, d)
    PROVE  IInv' /\ Sole(Admins, refreshExp, now)'
<1> DEFINE newRole == IF row.issuer = Bootstrap THEN "admin" ELSE row.role
<1>1. PICK refresh \in Ensured :
         IssuerStands(row.issuer, refresh) /\ Insert(d, newRole, row.policy, refresh)
  BY DEF ConsumePairCode
<1>2. row \in PairCode
  BY DEF IInv, TypeOK
<1>3. newRole \in Role /\ (newRole = "admin" \/ Active # {})
  BY <1>1, <1>2 DEF Role, PairCode, IssuerStands, RefreshOk
<1>4. ResolveExpiry(row.policy, now) \in Deadline
  BY <1>2, ResolveType, LifetimeAssumption DEF IInv, TypeOK, Time
<1>5. UNCHANGED <<now, revoked>> /\ pairCodes' = Consume(row)
  BY DEF ConsumePairCode
<1> HIDE DEF newRole
<1>6. /\ role' \in [Device -> Role \union {"unbound"}]
      /\ refreshExp' \in Deadlines
      /\ accessExp' \in Deadlines
      /\ revoked' \subseteq Bound'
      /\ Admins \subseteq Admins'
      /\ AdministratorAlwaysExists'
      /\ AccessWithinRefresh'
      /\ Sole(Admins, refreshExp, now)'
  BY <1>1, <1>3, <1>4, <1>5, InsertFacts
<1>7. [row EXCEPT !.consumed = TRUE] \in PairCode /\ [row EXCEPT !.consumed = TRUE].issuer = row.issuer
  BY <1>2 DEF PairCode
<1>8. TypeOK' /\ CodesHaveAuthority'
  BY <1>5, <1>6, <1>7 DEF IInv, TypeOK, CodesHaveAuthority, Deadlines, Consume
<1> QED
  BY <1>6, <1>8 DEF IInv

LEMMA RevokeDeviceStep ==
    ASSUME IInv, NEW actor \in Device, NEW target \in Device, RevokeDevice(actor, target)
    PROVE  IInv' /\ Sole(Admins, refreshExp, now)'
<1> DEFINE gone == revoked \union {target}
           admins == Unrevoked(role, gone)
<1>1. PICK refresh \in Ensured :
         /\ target \in Active
         /\ role[target] = "admin" => AnotherUsableAdmin(target, refresh)
         /\ revoked' = gone
         /\ pairCodes' = WithoutCodesOf(target)
         /\ refreshExp' \in Protect(admins, refresh, now)
  BY DEF RevokeDevice
<1>2. UNCHANGED <<now, role, accessExp>>
  BY DEF RevokeDevice
<1>3. refresh \in Deadlines /\ Within(accessExp, refresh)
  BY EnsuredFacts
<1>4. admins \in SUBSET Device /\ now \in Nat
  BY LifetimeAssumption DEF IInv, TypeOK, Time, Unrevoked
<1>5. Admins' = admins /\ admins = Admins \ {target}
  BY <1>1, <1>2 DEF Admins, Unrevoked
<1> HIDE DEF admins
<1>6. /\ refreshExp' \in Deadlines
      /\ Sole(admins, refreshExp', now)
      /\ \A e \in Device : refreshExp'[e] = refresh[e] \/ refreshExp'[e] = Never
  BY <1>1, <1>3, <1>4, ProtectResult
<1>7. TypeOK'
  BY <1>1, <1>2, <1>6 DEF IInv, TypeOK, Bound, Deadlines, WithoutCodesOf, Active
<1>8. AdministratorAlwaysExists'
  <2>1. CASE role[target] = "admin"
    BY <2>1, <1>1, <1>5 DEF AnotherUsableAdmin, AdministratorAlwaysExists
  <2>2. CASE role[target] # "admin"
    <3>1. Admins # {} /\ target \notin Admins
      BY <2>2, <1>1 DEF IInv, AdministratorAlwaysExists, Admins, Unrevoked
    <3> QED
      BY <3>1, <1>5 DEF AdministratorAlwaysExists
  <2> QED
    BY <2>1, <2>2
<1>9. CodesHaveAuthority'
  BY <1>1, <1>5 DEF IInv, CodesHaveAuthority, WithoutCodesOf
<1>10. AccessWithinRefresh'
  BY <1>2, <1>3, <1>6 DEF Within, AccessWithinRefresh
<1>11. Sole(Admins, refreshExp, now)'
  BY <1>2, <1>5, <1>6 DEF Sole, Live
<1> QED
  BY <1>7, <1>8, <1>9, <1>10, <1>11 DEF IInv

LEMMA UpdateDeviceStep ==
    ASSUME IInv, NEW actor \in Device, NEW target \in Device, NEW newRole \in Role,
           NEW policy \in Explicit \union {Omitted},
           UpdateDevice(actor, target, newRole, policy)
    PROVE  IInv' /\ Sole(Admins, refreshExp, now)'
<1> DEFINE demotes == role[target] = "admin" /\ newRole # "admin"
           moves == policy # Omitted
           roles == [role EXCEPT ![target] = newRole]
           admins == Unrevoked(roles, revoked)
           DeadlineFrom(refresh) == IF moves THEN ResolveExpiry(policy, now) ELSE refresh[target]
<1>1. PICK refresh \in Ensured :
         /\ target \in Active
         /\ demotes => AnotherUsableAdmin(target, refresh)
         /\ role' = roles
         /\ pairCodes' = IF demotes THEN WithoutCodesOf(target) ELSE pairCodes
         /\ accessExp' = IF moves
                         THEN [accessExp EXCEPT ![target] = Shorten(@, DeadlineFrom(refresh))]
                         ELSE accessExp
         /\ refreshExp' \in Protect(admins, [refresh EXCEPT ![target] = DeadlineFrom(refresh)], now)
  BY DEF UpdateDevice
<1> DEFINE deadline == DeadlineFrom(refresh)
           changed == [refresh EXCEPT ![target] = deadline]
<1>2. UNCHANGED <<now, revoked>>
  BY DEF UpdateDevice
<1>3. refresh \in Deadlines /\ Within(accessExp, refresh)
  BY EnsuredFacts
<1>4. /\ now \in Nat
      /\ accessExp \in Deadlines
      /\ role \in [Device -> Role \union {"unbound"}]
      /\ revoked \subseteq Bound
  BY LifetimeAssumption DEF IInv, TypeOK, Time, Deadlines
<1>5. deadline \in Deadline
  BY <1>3, <1>4, ResolveType DEF Deadlines
<1>6. Admins' = admins /\ admins \in SUBSET Device
  BY <1>1, <1>2 DEF Admins, Unrevoked
<1>7. /\ ~demotes => Admins \subseteq admins
      /\ demotes => admins = Admins \ {target}
  BY <1>4, <1>1 DEF Admins, Unrevoked
<1>8. changed \in Deadlines /\ refreshExp' \in Protect(admins, changed, now)
  BY <1>1, <1>3, <1>5 DEF Deadlines
<1>9. accessExp' \in Deadlines /\ Within(accessExp', changed)
  <2>1. CASE moves
    <3>1. accessExp' = [accessExp EXCEPT ![target] = Shorten(accessExp[target], deadline)]
      BY <2>1, <1>1, <1>4 DEF Deadlines
    <3>2. /\ Shorten(accessExp[target], deadline) \in Deadline
          /\ deadline # Never => /\ Shorten(accessExp[target], deadline) # Never
                                 /\ Shorten(accessExp[target], deadline) <= deadline
      BY <1>4, <1>5, ShortenWithin DEF Deadlines
    <3> HIDE DEF deadline
    <3> QED
      BY <3>1, <3>2, <1>3, <1>4, <1>5 DEF Deadlines, Within
  <2>2. CASE ~moves
    BY <2>2, <1>1, <1>3, <1>4 DEF Deadlines, Within
  <2> QED
    BY <2>1, <2>2
<1>10. target \in Bound /\ Bound' = Bound
  BY <1>1, <1>4 DEF Active, Bound, Role
<1> HIDE DEF changed, admins, deadline
<1>11. /\ refreshExp' \in Deadlines
       /\ Sole(admins, refreshExp', now)
       /\ \A e \in Device : refreshExp'[e] = changed[e] \/ refreshExp'[e] = Never
  BY <1>4, <1>6, <1>8, ProtectResult
<1>12. TypeOK'
  BY <1>1, <1>2, <1>4, <1>9, <1>10, <1>11 DEF IInv, TypeOK, Deadlines, WithoutCodesOf
<1>13. AdministratorAlwaysExists'
  <2>1. CASE demotes
    BY <2>1, <1>1, <1>6, <1>7 DEF AnotherUsableAdmin, AdministratorAlwaysExists
  <2>2. CASE ~demotes
    BY <2>2, <1>1, <1>6, <1>7 DEF IInv, AdministratorAlwaysExists
  <2> QED
    BY <2>1, <2>2
<1>14. CodesHaveAuthority'
  BY <1>1, <1>6, <1>7 DEF IInv, CodesHaveAuthority, WithoutCodesOf
<1>15. AccessWithinRefresh'
  BY <1>9, <1>11 DEF Within, AccessWithinRefresh
<1>16. Sole(Admins, refreshExp, now)'
  BY <1>2, <1>6, <1>11 DEF Sole, Live
<1> QED
  BY <1>12, <1>13, <1>14, <1>15, <1>16 DEF IInv

-----------------------------------------------------------------------------
(***************************************************************************)
(* The invariant, and what follows from it.                                *)
(***************************************************************************)
LEMMA InitInv == Init => IInv
<1> SUFFICES ASSUME Init PROVE IInv
  OBVIOUS
<1>1. TypeOK
  BY LifetimeAssumption DEF Init, TypeOK, Time, Role, Deadline, Bound
<1>2. AdministratorAlwaysExists
  BY DEF Init, AdministratorAlwaysExists, Active, Bound, Admins, Unrevoked
<1>3. CodesHaveAuthority /\ AccessWithinRefresh
  BY DEF Init, CodesHaveAuthority, AccessWithinRefresh
<1> QED
  BY <1>1, <1>2, <1>3 DEF IInv

LEMMA SoleMeansPermanent == Sole(Admins, refreshExp, now)' => SoleAdminPermanent'
BY DEF Sole, SoleAdminPermanent, Usable, Live

\* Every step keeps the invariant; every step but the passing of time commits a
\* protected table.
LEMMA StepInv ==
    ASSUME IInv, Next
    PROVE  IInv' /\ (Tick \/ SoleAdminPermanent')
<1>1. CASE Enforce
  BY <1>1, EnforceStep, SoleMeansPermanent
<1>2. CASE OpenStorage
  BY <1>2, OpenStorageStep, SoleMeansPermanent
<1>3. CASE RevokeAllDevices
  BY <1>3, RevokeAllDevicesStep, SoleMeansPermanent
<1>4. CASE Tick
  BY <1>4, TickStep
<1>5. ASSUME NEW d \in Device, BindDevice(d)
      PROVE  IInv' /\ SoleAdminPermanent'
  BY <1>5, BindDeviceStep, SoleMeansPermanent
<1>6. ASSUME NEW d \in Device, RebindDevice(d) \/ RefreshAccessToken(d)
      PROVE  IInv' /\ SoleAdminPermanent'
  BY <1>6, RotateAccessStep, SoleMeansPermanent DEF RebindDevice, RefreshAccessToken
<1>7. ASSUME NEW actor \in Device, NEW target \in Device, NEW newRole \in Role,
             NEW policy \in Explicit \union {Omitted},
             UpdateDevice(actor, target, newRole, policy)
      PROVE  IInv' /\ SoleAdminPermanent'
  BY <1>7, UpdateDeviceStep, SoleMeansPermanent
<1>8. ASSUME NEW actor \in Device, NEW target \in Device, RevokeDevice(actor, target)
      PROVE  IInv' /\ SoleAdminPermanent'
  BY <1>8, RevokeDeviceStep, SoleMeansPermanent
<1>9. ASSUME NEW d \in Device, NEW code \in Code, NEW newRole \in Role,
             NEW policy \in Explicit \union {Omitted},
             IssuePairCode(d, code, newRole, policy)
      PROVE  IInv' /\ SoleAdminPermanent'
  BY <1>9, IssuePairCodeStep, SoleMeansPermanent
<1>10. ASSUME NEW code \in Code, IssueBootstrapCode(code)
       PROVE  IInv' /\ SoleAdminPermanent'
  BY <1>10, IssueBootstrapCodeStep, SoleMeansPermanent
<1>11. ASSUME NEW row \in pairCodes, NEW d \in Device, ConsumePairCode(row, d)
       PROVE  IInv' /\ SoleAdminPermanent'
  BY <1>11, ConsumePairCodeStep, SoleMeansPermanent
<1> QED
  BY <1>1, <1>2, <1>3, <1>4, <1>5, <1>6, <1>7, <1>8, <1>9, <1>10, <1>11 DEF Next

LEMMA NextInv == IInv /\ [Next]_vars => IInv'
<1>1. ASSUME IInv, UNCHANGED vars PROVE IInv'
  BY <1>1 DEF vars, IInv, TypeOK, AdministratorAlwaysExists, CodesHaveAuthority,
     AccessWithinRefresh, Active, Bound, Admins, Unrevoked
<1> QED
  BY <1>1, StepInv

\* The inductive invariant holds in every reachable state.
THEOREM Invariance == Spec => []IInv
BY InitInv, NextInv, PTL DEF Spec

\* The tables keep their types.
THEOREM TypeCorrectness == Spec => []TypeOK
<1>1. IInv => TypeOK
  BY DEF IInv
<1> QED
  BY <1>1, Invariance, PTL

\* A server with devices has an administrator, whatever demotions, revocations
\* and invitations race each other.
THEOREM AdministratorExists == Spec => []AdministratorAlwaysExists
<1>1. IInv => AdministratorAlwaysExists
  BY DEF IInv
<1> QED
  BY <1>1, Invariance, PTL

\* No stored code survives the authority of its issuer.
THEOREM CodesKeepAuthority == Spec => []CodesHaveAuthority
<1>1. IInv => CodesHaveAuthority
  BY DEF IInv
<1> QED
  BY <1>1, Invariance, PTL

\* No access token outlives its device's refresh deadline.
THEOREM AccessIsBounded == Spec => []AccessWithinRefresh
<1>1. IInv => AccessWithinRefresh
  BY DEF IInv
<1> QED
  BY <1>1, Invariance, PTL

\* Every transaction leaves the last usable administrator permanent.
THEOREM CommitsProtect == Spec => EveryCommitProtects
<1>1. IInv /\ [Next]_vars => [now' = now => SoleAdminPermanent']_vars
  <2>1. ASSUME IInv, Next, now' = now PROVE SoleAdminPermanent'
    <3>1. ~Tick
      BY <2>1, LifetimeAssumption DEF Tick, IInv, TypeOK, Time
    <3> QED
      BY <2>1, <3>1, StepInv
  <2> QED
    BY <2>1
<1> QED
  BY <1>1, Invariance, PTL DEF Spec, EveryCommitProtects

-----------------------------------------------------------------------------
(***************************************************************************)
(* The tables implement AdminAuthority.  Consuming a code closes exactly   *)
(* one invitation because a code is stored only once, used or not; a       *)
(* removal leaves an administrator because there was one to authorise it.  *)
(***************************************************************************)
\* Invitations as AdminAuthority sees them.
InvitationsOf(rows) == {<<row.code, row.issuer>> : row \in {r \in rows : ~r.consumed}}

\* No two rows of pair_codes have the same code.
CodesUnique == \A r, s \in pairCodes : r.code = s.code => r = s

\* Only an unused code is inserted (the primary key of pair_codes), and using
\* a code rewrites its row.
LEMMA CodesUniqueStep ==
    ASSUME IInv, CodesUnique, Next
    PROVE  CodesUnique'
<1>1. ASSUME NEW code \in Code, NEW issuer, NEW newRole, NEW policy, NEW rows \in SUBSET pairCodes,
             Unused(code, pairCodes),
             pairCodes' = rows \union {NewCode(code, issuer, newRole, policy)}
      PROVE  CodesUnique'
  <2> DEFINE new == NewCode(code, issuer, newRole, policy)
  <2>1. new.code = code
    BY DEF NewCode
  <2> HIDE DEF new
  <2>2. \A r \in pairCodes' : r = new \/ (r \in pairCodes /\ r.code # code)
    BY <1>1 DEF Unused, new
  <2> QED
    BY <2>1, <2>2 DEF CodesUnique
<1>2. ASSUME NEW row \in pairCodes, pairCodes' = Consume(row)
      PROVE  CodesUnique'
  <2>1. row \in PairCode
    BY DEF IInv, TypeOK
  <2>2. [row EXCEPT !.consumed = TRUE].code = row.code
    BY <2>1 DEF PairCode
  <2> QED
    BY <1>2, <2>2 DEF CodesUnique, Consume
<1>3. ASSUME pairCodes' \subseteq pairCodes
      PROVE  CodesUnique'
  BY <1>3 DEF CodesUnique
<1>4. CASE Enforce \/ OpenStorage \/ RevokeAllDevices \/ Tick
  BY <1>3, <1>4 DEF Enforce, OpenStorage, RevokeAllDevices, Tick
<1>5. ASSUME NEW d \in Device, BindDevice(d) \/ RebindDevice(d) \/ RefreshAccessToken(d)
      PROVE  CodesUnique'
  BY <1>3, <1>5 DEF BindDevice, RebindDevice, RefreshAccessToken, RotateAccess
<1>6. ASSUME NEW actor \in Device, NEW target \in Device,
             \/ RevokeDevice(actor, target)
             \/ \E newRole \in Role, policy \in Explicit \union {Omitted} :
                   UpdateDevice(actor, target, newRole, policy)
      PROVE  CodesUnique'
  BY <1>3, <1>6 DEF UpdateDevice, RevokeDevice, WithoutCodesOf
<1>7. ASSUME NEW d \in Device, NEW code \in Code, NEW newRole \in Role,
             NEW policy \in Explicit \union {Omitted}, IssuePairCode(d, code, newRole, policy)
      PROVE  CodesUnique'
  BY <1>1, <1>7 DEF IssuePairCode
<1>8. ASSUME NEW code \in Code, IssueBootstrapCode(code)
      PROVE  CodesUnique'
  BY <1>1, <1>8, ZenonT(40) DEF IssueBootstrapCode, WithoutCodesOf
<1>9. ASSUME NEW row \in pairCodes, NEW d \in Device, ConsumePairCode(row, d)
      PROVE  CodesUnique'
  BY <1>2, <1>9 DEF ConsumePairCode
<1> QED
  BY <1>4, <1>5, <1>6, <1>7, <1>8, <1>9 DEF Next

\* A code is stored at most once.
LEMMA CodesStayUnique == Spec => []CodesUnique
<1>1. Init => CodesUnique
  BY DEF Init, CodesUnique
<1>2. IInv /\ CodesUnique /\ [Next]_vars => CodesUnique'
  BY CodesUniqueStep DEF vars, CodesUnique
<1> QED
  BY <1>1, <1>2, Invariance, PTL DEF Spec

\* What a new row means to AdminAuthority: a device unknown until now belongs.
LEMMA InsertAdmits ==
    ASSUME IInv, NEW d \in Device, NEW newRole \in Role, NEW policy, NEW refresh,
           Insert(d, newRole, policy, refresh), revoked' = revoked
    PROVE  Authority!Admit(d, newRole = "admin")
<1>1. role[d] = "unbound" /\ role' = [role EXCEPT ![d] = newRole]
  BY DEF Insert
<1>2. role \in [Device -> Role \union {"unbound"}] /\ revoked \subseteq Bound
  BY DEF IInv, TypeOK
<1>3. d \notin Active \union revoked
  BY <1>1, <1>2 DEF Active, Bound
<1>4. Active' = Active \union {d}
  BY <1>1, <1>2, <1>3 DEF Active, Bound, Role
<1>5. Admins' = IF newRole = "admin" THEN Admins \union {d} ELSE Admins
  BY <1>1, <1>2, <1>3 DEF Admins, Unrevoked, Role
<1> QED
  BY <1>3, <1>4, <1>5 DEF Authority!Admit

LEMMA BindDeviceJoins ==
    ASSUME IInv, NEW d \in Device, BindDevice(d)
    PROVE  Authority!JoinOpenly(d)
<1> DEFINE newRole == IF Active = {} THEN "admin" ELSE "member"
<1>1. PICK refresh \in Ensured : Insert(d, newRole, Omitted, refresh)
  BY DEF BindDevice
<1>2. newRole \in Role /\ (newRole = "admin" <=> Active = {})
  BY DEF Role
<1>3. PairMode = "easy" /\ revoked' = revoked /\ pairCodes' = pairCodes
  BY DEF BindDevice
<1> HIDE DEF newRole
<1>4. Authority!Admit(d, newRole = "admin")
  BY <1>1, <1>2, <1>3, InsertAdmits
<1>5. Authority!Admit(d, Active = {})
  BY <1>2, <1>4 DEF Authority!Admit
<1> QED
  BY <1>3, <1>5 DEF Authority!JoinOpenly

\* The code's row is the only one of that code, so its invitation is gone.
LEMMA ConsumePairCodeJoins ==
    ASSUME IInv, CodesUnique, NEW row \in pairCodes, NEW d \in Device, ConsumePairCode(row, d)
    PROVE  \E inv \in InvitationsOf(pairCodes), manages \in BOOLEAN :
              Authority!JoinByInvitation(d, inv, manages)
<1> DEFINE newRole == IF row.issuer = Bootstrap THEN "admin" ELSE row.role
           inv == <<row.code, row.issuer>>
<1>1. PICK refresh \in Ensured :
         IssuerStands(row.issuer, refresh) /\ Insert(d, newRole, row.policy, refresh)
  BY DEF ConsumePairCode
<1>2. row \in PairCode
  BY DEF IInv, TypeOK
<1>3. ~row.consumed /\ revoked' = revoked /\ pairCodes' = Consume(row)
  BY DEF ConsumePairCode
<1>4. newRole \in Role
  BY <1>2 DEF Role, PairCode
<1>5. Authority!Admit(d, newRole = "admin")
  BY <1>1, <1>3, <1>4, InsertAdmits
<1>6. inv[2] \in Admins \/ (inv[2] = Bootstrap /\ Active = {} /\ newRole = "admin")
  BY <1>1 DEF IssuerStands, RefreshOk, Active, Bound, Admins, Unrevoked
<1>7. inv \in InvitationsOf(pairCodes)
  BY <1>3 DEF InvitationsOf
<1>8. InvitationsOf(pairCodes') = InvitationsOf(pairCodes) \ {inv}
  <2>1. [row EXCEPT !.consumed = TRUE].consumed
    BY <1>2 DEF PairCode
  <2>2. InvitationsOf(pairCodes') = InvitationsOf(pairCodes \ {row})
    BY <1>3, <2>1 DEF Consume, InvitationsOf
  <2>3. ASSUME NEW other \in pairCodes, ~other.consumed, other # row
        PROVE  <<other.code, other.issuer>> # inv
    BY <2>3 DEF CodesUnique
  <2> QED
    BY <2>2, <2>3 DEF InvitationsOf
<1> HIDE DEF newRole
<1>9. Authority!JoinByInvitation(d, inv, newRole = "admin")
  BY <1>5, <1>6, <1>7, <1>8 DEF Authority!JoinByInvitation, InvitationsOf
<1>10. (newRole = "admin") \in BOOLEAN
  OBVIOUS
<1> QED
  BY <1>7, <1>9, <1>10

\* Invitations and their issuers are all that deleting or adding a code changes.
LEMMA InvitationsChange ==
    /\ \A issuer : InvitationsOf(WithoutCodesOf(issuer)) =
                      {inv \in InvitationsOf(pairCodes) : inv[2] # issuer}
    /\ \A rows, code, issuer, newRole, policy :
          InvitationsOf(rows \union {NewCode(code, issuer, newRole, policy)}) =
             InvitationsOf(rows) \union {<<code, issuer>>}
<1>1. ASSUME NEW issuer
      PROVE  InvitationsOf(WithoutCodesOf(issuer)) =
                {inv \in InvitationsOf(pairCodes) : inv[2] # issuer}
  BY DEF InvitationsOf, WithoutCodesOf
<1>2. ASSUME NEW rows, NEW code, NEW issuer, NEW newRole, NEW policy
      PROVE  InvitationsOf(rows \union {NewCode(code, issuer, newRole, policy)}) =
                InvitationsOf(rows) \union {<<code, issuer>>}
  <2> DEFINE new == NewCode(code, issuer, newRole, policy)
  <2>1. new.code = code /\ new.issuer = issuer /\ ~new.consumed
    BY DEF NewCode
  <2> HIDE DEF new
  <2>2. {r \in rows \union {new} : ~r.consumed} = {r \in rows : ~r.consumed} \union {new}
    BY <2>1
  <2>3. InvitationsOf(rows \union {new}) = InvitationsOf(rows) \union {<<new.code, new.issuer>>}
    BY <2>2 DEF InvitationsOf
  <2> QED
    BY <2>1, <2>3 DEF new
<1> QED
  BY <1>1, <1>2

LEMMA IssuePairCodeInvites ==
    ASSUME NEW d \in Device, NEW code \in Code, NEW newRole \in Role, NEW policy,
           IssuePairCode(d, code, newRole, policy)
    PROVE  Authority!Invite(d, code)
<1>1. /\ d \in Admins
      /\ pairCodes' = pairCodes \union {NewCode(code, d, newRole, policy)}
      /\ UNCHANGED <<role, revoked>>
  BY DEF IssuePairCode, AccessOk, RefreshOk, Active, Admins, Unrevoked
<1>2. InvitationsOf(pairCodes') = InvitationsOf(pairCodes) \union {<<code, d>>}
  BY <1>1, InvitationsChange
<1> QED
  BY <1>1, <1>2 DEF Authority!Invite, InvitationsOf, Active, Bound, Admins, Unrevoked

LEMMA IssueBootstrapCodeInvites ==
    ASSUME NEW code \in Code, IssueBootstrapCode(code)
    PROVE  Authority!InviteLocally(code)
<1>1. /\ Active = {}
      /\ pairCodes' = WithoutCodesOf(Bootstrap)
                         \union {NewCode(code, Bootstrap, "admin", Permanent)}
      /\ UNCHANGED <<role, revoked>>
  BY DEF IssueBootstrapCode
<1>2. InvitationsOf(pairCodes') =
         {inv \in InvitationsOf(pairCodes) : inv[2] # Bootstrap} \union {<<code, Bootstrap>>}
  BY <1>1, InvitationsChange
<1>3. InvitationsOf(pairCodes') =
         (InvitationsOf(pairCodes) \ {inv \in InvitationsOf(pairCodes) : inv[2] = Bootstrap})
            \union {<<code, Bootstrap>>}
  BY <1>2
<1> QED
  BY <1>1, <1>3 DEF Authority!InviteLocally, Authority!IssuedBy, InvitationsOf, Active, Bound,
     Admins, Unrevoked

\* A demotion leaves another administrator, and takes the target's codes along.
LEMMA UpdateDeviceManages ==
    ASSUME IInv, NEW actor \in Device, NEW target \in Device, NEW newRole \in Role,
           NEW policy \in Explicit \union {Omitted},
           UpdateDevice(actor, target, newRole, policy)
    PROVE  \/ Authority!Promote(target)
           \/ Authority!Demote(target)
           \/ UNCHANGED Authority!authority
<1> DEFINE demotes == role[target] = "admin" /\ newRole # "admin"
<1>1. PICK refresh \in Ensured :
         /\ target \in Active
         /\ demotes => AnotherUsableAdmin(target, refresh)
         /\ role' = [role EXCEPT ![target] = newRole]
         /\ pairCodes' = IF demotes THEN WithoutCodesOf(target) ELSE pairCodes
  BY DEF UpdateDevice
<1>2. revoked' = revoked
  BY DEF UpdateDevice
<1>3. role \in [Device -> Role \union {"unbound"}]
  BY DEF IInv, TypeOK
<1>4. Active' = Active
  BY <1>1, <1>2, <1>3 DEF Active, Bound, Role
<1>5. Admins' = IF newRole = "admin" THEN Admins \union {target} ELSE Admins \ {target}
  BY <1>1, <1>2, <1>3, <1>4 DEF Active, Admins, Unrevoked, Role
<1>6. CASE demotes
  <2>1. Admins \ {target} # {}
    BY <1>1, <1>6 DEF AnotherUsableAdmin
  <2>2. InvitationsOf(pairCodes') = {inv \in InvitationsOf(pairCodes) : inv[2] # target}
    BY <1>1, <1>6, InvitationsChange
  <2>3. InvitationsOf(pairCodes') =
           InvitationsOf(pairCodes) \ {inv \in InvitationsOf(pairCodes) : inv[2] = target}
    BY <2>2
  <2>4. Admins' = Admins \ {target}
    BY <1>5, <1>6
  <2> QED
    BY <1>2, <1>4, <2>1, <2>3, <2>4
       DEF Authority!Demote, Authority!IssuedBy, InvitationsOf
<1>7. CASE newRole = "admin"
  BY <1>1, <1>2, <1>4, <1>5, <1>7 DEF Authority!Promote
<1>8. CASE role[target] # "admin" /\ newRole # "admin"
  <2>1. target \notin Admins
    BY <1>8 DEF Admins, Unrevoked
  <2> QED
    BY <1>1, <1>2, <1>4, <1>5, <1>8, <2>1 DEF Authority!authority
<1> QED
  BY <1>6, <1>7, <1>8

\* Whoever removes the target is, or leaves, an administrator.
LEMMA RevokeDeviceRemoves ==
    ASSUME IInv, NEW actor \in Device, NEW target \in Device, RevokeDevice(actor, target)
    PROVE  Authority!Remove(target)
<1>1. PICK refresh \in Ensured :
         /\ target \in Active
         /\ role[target] = "admin" => AnotherUsableAdmin(target, refresh)
         /\ revoked' = revoked \union {target}
         /\ pairCodes' = WithoutCodesOf(target)
  BY DEF RevokeDevice
<1>2. role' = role
  BY DEF RevokeDevice
<1>3. Active' = Active \ {target} /\ Admins' = Admins \ {target}
  BY <1>1, <1>2 DEF Active, Bound, Admins, Unrevoked
<1>4. Admins \ {target} # {}
  <2>1. CASE role[target] = "admin"
    BY <1>1, <2>1 DEF AnotherUsableAdmin
  <2>2. CASE role[target] # "admin"
    BY <1>1, <2>2 DEF IInv, AdministratorAlwaysExists, Admins, Unrevoked
  <2> QED
    BY <2>1, <2>2
<1>5. InvitationsOf(pairCodes') = {inv \in InvitationsOf(pairCodes) : inv[2] # target}
  BY <1>1, InvitationsChange
<1>6. InvitationsOf(pairCodes') =
         InvitationsOf(pairCodes) \ {inv \in InvitationsOf(pairCodes) : inv[2] = target}
  BY <1>5
<1> QED
  BY <1>1, <1>3, <1>4, <1>6 DEF Authority!Remove, Authority!IssuedBy, InvitationsOf

LEMMA RevokeAllDevicesResets ==
    ASSUME RevokeAllDevices
    PROVE  Authority!Reset
<1>1. Active' = {} /\ Admins' = {} /\ revoked' = revoked \union Active
  BY DEF RevokeAllDevices, Active, Bound, Admins, Unrevoked
<1>2. InvitationsOf(pairCodes') = {}
  BY DEF RevokeAllDevices, InvitationsOf
<1> QED
  BY <1>1, <1>2 DEF Authority!Reset, InvitationsOf

\* Every step of the tables is a step of AdminAuthority or changes nothing it sees.
LEMMA StepImplements ==
    ASSUME IInv, CodesUnique, Next
    PROVE  [Authority!AuthorityNext]_(Authority!authority)
<1>1. ASSUME UNCHANGED <<role, revoked, pairCodes>>
      PROVE  UNCHANGED Authority!authority
  BY <1>1 DEF Authority!authority, Active, Bound, Admins, Unrevoked
<1>2. CASE Enforce \/ OpenStorage \/ Tick
  BY <1>1, <1>2 DEF Enforce, OpenStorage, Tick
<1>3. CASE RevokeAllDevices
  BY <1>3, RevokeAllDevicesResets DEF Authority!AuthorityNext
<1>4. ASSUME NEW d \in Device, BindDevice(d)
      PROVE  Authority!AuthorityNext
  BY <1>4, BindDeviceJoins DEF Authority!AuthorityNext
<1>5. ASSUME NEW d \in Device, RebindDevice(d) \/ RefreshAccessToken(d)
      PROVE  UNCHANGED Authority!authority
  BY <1>1, <1>5 DEF RebindDevice, RefreshAccessToken, RotateAccess
<1>6. ASSUME NEW actor \in Device, NEW target \in Device, NEW newRole \in Role,
             NEW policy \in Explicit \union {Omitted},
             UpdateDevice(actor, target, newRole, policy)
      PROVE  Authority!AuthorityNext \/ UNCHANGED Authority!authority
  BY <1>6, UpdateDeviceManages DEF Authority!AuthorityNext
<1>7. ASSUME NEW actor \in Device, NEW target \in Device, RevokeDevice(actor, target)
      PROVE  Authority!AuthorityNext
  BY <1>7, RevokeDeviceRemoves DEF Authority!AuthorityNext
<1>8. ASSUME NEW d \in Device, NEW code \in Code, NEW newRole \in Role,
             NEW policy \in Explicit \union {Omitted}, IssuePairCode(d, code, newRole, policy)
      PROVE  Authority!AuthorityNext
  BY <1>8, IssuePairCodeInvites DEF Authority!AuthorityNext
<1>9. ASSUME NEW code \in Code, IssueBootstrapCode(code)
      PROVE  Authority!AuthorityNext
  BY <1>9, IssueBootstrapCodeInvites DEF Authority!AuthorityNext
<1>10. ASSUME NEW row \in pairCodes, NEW d \in Device, ConsumePairCode(row, d)
       PROVE  Authority!AuthorityNext
  BY <1>10, ConsumePairCodeJoins DEF Authority!AuthorityNext, InvitationsOf
<1> QED
  BY <1>2, <1>3, <1>4, <1>5, <1>6, <1>7, <1>8, <1>9, <1>10 DEF Next

\* The tables implement what they promise to the owners of the devices.
THEOREM AuthorityImplemented == Spec => ImplementsAuthority
<1>1. Init => Authority!AuthorityInit
  BY LegacyAssumption DEF Init, Authority!AuthorityInit, Active, Bound, Admins, Unrevoked
<1>2. IInv /\ CodesUnique /\ [Next]_vars => [Authority!AuthorityNext]_(Authority!authority)
  <2>1. ASSUME UNCHANGED vars
        PROVE  UNCHANGED Authority!authority
    BY <2>1 DEF vars, Authority!authority, Active, Bound, Admins, Unrevoked
  <2> QED
    BY <2>1, StepImplements
<1> QED
  BY <1>1, <1>2, Invariance, CodesStayUnique, PTL
     DEF Spec, ImplementsAuthority, Authority!AuthoritySpec

-----------------------------------------------------------------------------
(***************************************************************************)
(* Deadlines.  A transaction protects the last administrator before and    *)
(* after its own change, so a deadline can move three times in one step.   *)
(***************************************************************************)
\* d is made permanent as the last administrator among `admins`.
Survives(d, admins, refresh, result, t) ==
    /\ result[d] = Never
    /\ d \in admins
    /\ \A e \in admins \ {d} : refresh[e] # Never /\ refresh[e] <= refresh[d]
    /\ ~ \E e \in admins \ {d} : Live(refresh[e], t)

\* Protect moves the deadline of one survivor only, and only when every
\* administrator's was finite.
LEMMA ProtectMoves ==
    ASSUME NEW admins \in SUBSET Device, NEW refresh \in Deadlines, NEW t \in Nat,
           NEW result \in Protect(admins, refresh, t), NEW d \in Device,
           result[d] # refresh[d]
    PROVE  /\ Survives(d, admins, refresh, result, t)
           /\ \A e \in admins : refresh[e] # Never
<1>1. NeedsSurvivor(admins, refresh, t)
  BY DEF Protect
<1>2. PICK e \in Latest(admins, refresh) : result = [refresh EXCEPT ![e] = Never]
  BY <1>1 DEF Protect
<1>3. e = d
  BY <1>2 DEF Deadlines
<1>4. d \in admins /\ \A f \in admins : refresh[f] \in Nat /\ refresh[f] <= refresh[d]
  BY <1>1, <1>2, <1>3 DEF Latest, NeedsSurvivor, Deadlines, Deadline
<1>5. \A f \in admins \ {d} : ~(refresh[f] > t)
  BY <1>1, <1>4 DEF NeedsSurvivor
<1>6. result[d] = Never
  BY <1>2, <1>3 DEF Deadlines
<1> QED
  BY <1>1, <1>4, <1>5, <1>6 DEF Survives, NeedsSurvivor, Live

\* What DeadlineMovedByAdminOrSurvival says of one device that stays out of an
\* administrator's hands.
MovedBySurvival(d) ==
    refreshExp'[d] # refreshExp[d] =>
       Survives(d, Admins \intersect Admins', refreshExp, refreshExp', now)

\* The two protections of one transaction around a change of the deadlines
\* `changed` that leaves d's alone and those of the administrators who stay; and
\* around a change of roles that keeps a survivor of the first in office.
LEMMA TwiceProtected ==
    ASSUME IInv, NEW refresh \in Ensured, NEW changed \in Deadlines, NEW d \in Device,
           refreshExp' \in Protect(Admins', changed, now),
           changed[d] = refresh[d],
           \A e \in Admins \intersect Admins' : changed[e] = refresh[e],
           d \in Admins' => d \in Admins,
           refresh[d] # refreshExp[d] => d \in Admins'
    PROVE  MovedBySurvival(d)
<1>1. /\ now \in Nat /\ Admins \in SUBSET Device /\ Admins' \in SUBSET Device
      /\ refreshExp \in Deadlines /\ refresh \in Deadlines
  <2>1. refresh \in Deadlines
    BY EnsuredFacts
  <2> QED
    BY <2>1, LifetimeAssumption DEF IInv, TypeOK, Time, Admins, Unrevoked, Deadlines
<1>2. CASE refresh[d] # refreshExp[d]
  <2>1. /\ Survives(d, Admins, refreshExp, refresh, now)
        /\ \A e \in Admins : refreshExp[e] # Never
    BY <1>1, <1>2, ProtectMoves DEF Ensured
  <2> DEFINE result == refreshExp'
  <2>2. result \in Protect(Admins', changed, now) /\ changed[d] = Never
    BY <2>1 DEF Survives
  <2> HIDE DEF result
  <2>3. result[d] = Never
    BY <1>1, <2>2, ProtectResult
  <2> QED
    BY <1>2, <2>1, <2>3 DEF Survives, MovedBySurvival, result
<1>3. CASE refresh[d] = refreshExp[d] /\ refreshExp'[d] # refreshExp[d]
  <2> DEFINE result == refreshExp'
  <2>1. result \in Protect(Admins', changed, now) /\ result[d] # changed[d]
    BY <1>3
  <2> HIDE DEF result
  <2>2. /\ Survives(d, Admins', changed, result, now)
        /\ \A e \in Admins' : changed[e] # Never
    BY <1>1, <2>1, ProtectMoves
  <2>3. \A e \in Admins \intersect Admins' : refresh[e] = refreshExp[e]
    BY <1>1, <2>2, ProtectResult DEF Ensured
  <2> QED
    BY <1>3, <2>2, <2>3 DEF Survives, MovedBySurvival, result
<1> QED
  BY <1>2, <1>3 DEF MovedBySurvival

\* An operation that only protects.
LEMMA OnceProtected ==
    ASSUME IInv, refreshExp' \in Ensured, UNCHANGED <<role, revoked>>, NEW d \in Device
    PROVE  MovedBySurvival(d)
<1>1. now \in Nat /\ Admins \in SUBSET Device /\ refreshExp \in Deadlines
  BY LifetimeAssumption DEF IInv, TypeOK, Time, Admins, Unrevoked, Deadlines
<1>2. Admins' = Admins
  BY DEF Admins, Unrevoked
<1> DEFINE result == refreshExp'
<1>3. result \in Protect(Admins, refreshExp, now)
  BY DEF Ensured
<1> HIDE DEF result
<1>4. result[d] # refreshExp[d] => Survives(d, Admins, refreshExp, result, now)
  BY <1>1, <1>3, ProtectMoves
<1> QED
  BY <1>2, <1>4 DEF MovedBySurvival, result

\* The deadline d has after the first protection alone.
LEMMA FirstProtected ==
    ASSUME IInv, NEW refresh \in Ensured, NEW d \in Device,
           refreshExp'[d] = refresh[d],
           refresh[d] # refreshExp[d] => d \in Admins'
    PROVE  MovedBySurvival(d)
<1>1. now \in Nat /\ Admins \in SUBSET Device /\ refreshExp \in Deadlines
  BY LifetimeAssumption DEF IInv, TypeOK, Time, Admins, Unrevoked, Deadlines
<1>2. refresh[d] # refreshExp[d] => Survives(d, Admins, refreshExp, refresh, now)
  BY <1>1, ProtectMoves DEF Ensured
<1> QED
  BY <1>2 DEF MovedBySurvival, Survives

\* Nobody else is usable beside a survivor.
LEMMA SurvivorAlone ==
    ASSUME IInv, NEW refresh \in Ensured, NEW d \in Device, refresh[d] # refreshExp[d]
    PROVE  d \in Admins /\ ~AnotherUsableAdmin(d, refresh)
<1>1. now \in Nat /\ Admins \in SUBSET Device /\ refreshExp \in Deadlines
  BY LifetimeAssumption DEF IInv, TypeOK, Time, Admins, Unrevoked, Deadlines
<1>2. /\ Survives(d, Admins, refreshExp, refresh, now)
      /\ \A e \in Admins : refreshExp[e] # Never
  BY <1>1, ProtectMoves DEF Ensured
<1>3. \A e \in Admins \ {d} : refresh[e] = refreshExp[e]
  <2>1. PICK f \in Latest(Admins, refreshExp) : refresh = [refreshExp EXCEPT ![f] = Never]
    BY DEF Ensured, Protect
  <2> QED
    BY <1>1, <2>1 DEF Deadlines
<1> QED
  BY <1>2, <1>3 DEF Survives, AnotherUsableAdmin

\* A new row moves nobody's deadline but a survivor's.
LEMMA InsertMoves ==
    ASSUME IInv, NEW new \in Device, NEW newRole \in Role, NEW policy,
           ResolveExpiry(policy, now) \in Deadline,
           NEW refresh \in Ensured, Insert(new, newRole, policy, refresh),
           revoked' = revoked, NEW d \in Bound
    PROVE  MovedBySurvival(d)
<1> DEFINE first == newRole = "admin" /\ Admins = {}
           deadline == IF first THEN Never ELSE ResolveExpiry(policy, now)
           changed == [refresh EXCEPT ![new] = deadline]
<1>1. /\ role[new] = "unbound"
      /\ role' = [role EXCEPT ![new] = newRole]
      /\ refreshExp' \in Protect(Unrevoked(role', revoked'), changed, now)
  BY DEF Insert
<1>2. role \in [Device -> Role \union {"unbound"}] /\ refresh \in Deadlines
  BY EnsuredFacts DEF IInv, TypeOK
<1>3. deadline \in Deadline
  BY DEF Deadline
<1>4. d \in Device /\ d # new /\ new \notin Admins
  BY <1>1, <1>2 DEF Bound, Admins, Unrevoked
<1> HIDE DEF deadline
<1>5. changed \in Deadlines /\ \A e \in Device \ {new} : changed[e] = refresh[e]
  BY <1>2, <1>3 DEF Deadlines
<1>6. Admins' \ {new} = Admins /\ refreshExp' \in Protect(Admins', changed, now)
  BY <1>1, <1>2, <1>4 DEF Admins, Unrevoked
<1>7. refresh[d] # refreshExp[d] => d \in Admins
  BY <1>4, SurvivorAlone
<1> HIDE DEF changed
<1>8. Admins \subseteq Device
  BY DEF Admins, Unrevoked
<1> QED
  BY <1>4, <1>5, <1>6, <1>7, <1>8, TwiceProtected

LEMMA RevokeDeviceMoves ==
    ASSUME IInv, NEW actor \in Device, NEW target \in Device, RevokeDevice(actor, target),
           NEW d \in Device
    PROVE  MovedBySurvival(d)
<1>1. PICK refresh \in Ensured :
         /\ role[target] = "admin" => AnotherUsableAdmin(target, refresh)
         /\ revoked' = revoked \union {target}
         /\ refreshExp' \in Protect(Unrevoked(role, revoked \union {target}), refresh, now)
  BY DEF RevokeDevice
<1>2. role' = role
  BY DEF RevokeDevice
<1>3. Admins' = Admins \ {target} /\ refreshExp' \in Protect(Admins', refresh, now)
  BY <1>1, <1>2 DEF Admins, Unrevoked
<1>4. refresh[d] # refreshExp[d] => d \in Admins'
  BY <1>1, <1>3, SurvivorAlone DEF Admins, Unrevoked
<1>5. refresh \in Deadlines
  BY EnsuredFacts
<1> QED
  BY <1>3, <1>4, <1>5, TwiceProtected

\* A change of one device moves other deadlines only to save the last
\* administrator, and the device's own only if the request says so: promoting
\* a device or giving an administrator another deadline leaves two usable ones
\* or a permanent one, so the second protection does nothing then.
LEMMA UpdateDeviceMoves ==
    ASSUME IInv, NEW actor \in Device, NEW target \in Device, NEW newRole \in Role,
           NEW policy \in Explicit \union {Omitted},
           UpdateDevice(actor, target, newRole, policy),
           NEW d \in Device, d # target \/ policy = Omitted
    PROVE  MovedBySurvival(d)
<1> DEFINE demotes == role[target] = "admin" /\ newRole # "admin"
           moves == policy # Omitted
           DeadlineFrom(refresh) == IF moves THEN ResolveExpiry(policy, now) ELSE refresh[target]
<1>1. PICK refresh \in Ensured :
         /\ MayChange(actor, target, newRole # role[target] \/ moves, refresh)
         /\ target \in Active
         /\ demotes => AnotherUsableAdmin(target, refresh)
         /\ moves => Acceptable(policy, now)
         /\ moves /\ newRole = "admin" /\ DeadlineFrom(refresh) # Never
               => AnotherUsableAdmin(target, refresh)
         /\ role' = [role EXCEPT ![target] = newRole]
         /\ refreshExp' \in Protect(Unrevoked(role', revoked),
                                    [refresh EXCEPT ![target] = DeadlineFrom(refresh)], now)
  BY DEF UpdateDevice
<1> DEFINE deadline == DeadlineFrom(refresh)
           changed == [refresh EXCEPT ![target] = deadline]
<1>2. revoked' = revoked
  BY DEF UpdateDevice
<1>3. /\ refresh \in Deadlines
      /\ Sole(Admins, refresh, now)
      /\ role \in [Device -> Role \union {"unbound"}]
      /\ now \in Nat
  BY EnsuredFacts, LifetimeAssumption DEF IInv, TypeOK, Time
<1>4. deadline \in Deadline
  BY <1>3, ResolveType DEF Deadlines
<1>5. Admins' = IF newRole = "admin" THEN Admins \union {target} ELSE Admins \ {target}
  BY <1>1, <1>2, <1>3 DEF Active, Admins, Unrevoked, Role
<1>6. changed \in Deadlines /\ refreshExp' \in Protect(Admins', changed, now)
  BY <1>1, <1>2, <1>3, <1>4 DEF Deadlines, Admins
<1>7. /\ \A e \in Device \ {target} : changed[e] = refresh[e]
      /\ changed[target] = deadline
      /\ ~moves => changed = refresh
  BY <1>3, <1>4 DEF Deadlines
<1>8. changed[d] = refresh[d]
  BY <1>7
<1>9. Admins \subseteq Device
  BY DEF Admins, Unrevoked
<1>10. refresh[d] # refreshExp[d] => d \in Admins /\ d \in Admins'
  BY <1>1, <1>5, SurvivorAlone DEF Admins, Unrevoked
<1>11. ASSUME ~NeedsSurvivor(Admins', changed, now)
       PROVE  MovedBySurvival(d)
  <2>1. refreshExp' = changed
    BY <1>6, <1>11 DEF Protect
  <2> QED
    BY <2>1, <1>8, <1>10, FirstProtected
<1>12. CASE moves /\ newRole = "admin" /\ target \in Admins
  <2>1. target \in Admins' /\ \A e \in Admins \ {target} : e \in Admins' /\ changed[e] = refresh[e]
    BY <1>5, <1>7, <1>9, <1>12
  <2>2. CASE deadline = Never
    BY <2>1, <2>2, <1>7, <1>11 DEF NeedsSurvivor
  <2>3. CASE deadline # Never
    <3>1. PICK e \in Admins \ {target} : Live(refresh[e], now)
      BY <1>1, <1>12, <2>3 DEF AnotherUsableAdmin
    <3>2. deadline > now
      <4>1. policy \in Explicit /\ policy # Permanent
        BY <1>12, <2>3 DEF ResolveExpiry, Permanent
      <4> QED
        BY <4>1, <1>1, <1>3, <1>12, LifetimeAssumption
           DEF Explicit, Days, Until, Acceptable, ResolveExpiry
    <3>3. ~NeedsSurvivor(Admins', changed, now)
      <4>1. changed[e] = refresh[e] /\ e \in Admins' /\ e # target
        BY <3>1, <2>1
      <4>2. changed[target] > now /\ target \in Admins'
        BY <3>2, <1>7, <2>1
      <4> HIDE DEF changed
      <4> QED
        BY <3>1, <4>1, <4>2 DEF NeedsSurvivor, Live
    <3> QED
      BY <3>3, <1>11
  <2> QED
    BY <2>2, <2>3
<1>13. CASE ~moves /\ newRole = "admin" /\ target \notin Admins
  <2>1. Admins # {}
    BY <1>1 DEF IInv, AdministratorAlwaysExists
  <2>2. ~NeedsSurvivor(Admins', refresh, now)
    BY <1>3, <1>5, <1>13, <2>1 DEF Sole, NeedsSurvivor, Live
  <2> QED
    BY <2>2, <1>7, <1>11, <1>13
<1>14. CASE ~(moves /\ newRole = "admin" /\ target \in Admins)
            /\ ~(~moves /\ newRole = "admin" /\ target \notin Admins)
  <2>1. \A e \in Admins \intersect Admins' : changed[e] = refresh[e]
    BY <1>5, <1>7, <1>9, <1>14
  <2>2. d \in Admins' => d \in Admins
    BY <1>5, <1>14
  <2> HIDE DEF changed
  <2> QED
    BY <1>6, <1>8, <1>10, <2>1, <2>2, TwiceProtected
<1> QED
  BY <1>12, <1>13, <1>14

\* Each step, with UpdateDevice by an administrator the only other mover.
LEMMA StepMoves ==
    ASSUME IInv, Next, NEW d \in Bound
    PROVE  \/ \E actor \in Managers, newRole \in Role, policy \in Explicit :
                 UpdateDevice(actor, d, newRole, policy)
           \/ MovedBySurvival(d)
<1>0. d \in Device
  BY DEF Bound
<1>1. CASE Enforce
  BY <1>0, <1>1, OnceProtected DEF Enforce
<1>2. CASE OpenStorage
  BY <1>0, <1>2, OnceProtected DEF OpenStorage
<1>3. CASE RevokeAllDevices \/ Tick
  BY <1>3 DEF RevokeAllDevices, Tick, MovedBySurvival
<1>4. ASSUME NEW new \in Device, BindDevice(new)
      PROVE  MovedBySurvival(d)
  <2> DEFINE newRole == IF Active = {} THEN "admin" ELSE "member"
  <2>1. PICK refresh \in Ensured : Insert(new, newRole, Omitted, refresh)
    BY <1>4 DEF BindDevice
  <2>2. newRole \in Role /\ ResolveExpiry(Omitted, now) \in Deadline /\ revoked' = revoked
    BY <1>4, ResolveType, LifetimeAssumption DEF Role, BindDevice, IInv, TypeOK, Time
  <2> HIDE DEF newRole
  <2> QED
    BY <2>1, <2>2, InsertMoves
<1>5. ASSUME NEW e \in Device, RebindDevice(e) \/ RefreshAccessToken(e)
      PROVE  MovedBySurvival(d)
  BY <1>0, <1>5, OnceProtected DEF RebindDevice, RefreshAccessToken, RotateAccess
<1>6. ASSUME NEW actor \in Device, NEW target \in Device, NEW newRole \in Role,
             NEW policy \in Explicit \union {Omitted},
             UpdateDevice(actor, target, newRole, policy)
      PROVE  \/ \E a \in Managers, r \in Role, p \in Explicit : UpdateDevice(a, d, r, p)
             \/ MovedBySurvival(d)
  <2>1. CASE d = target /\ policy # Omitted
    <3>1. actor \in Managers
      BY <1>6, <2>1 DEF UpdateDevice, MayChange, AccessOk, RefreshOk, Active, Managers, Admins, Unrevoked
    <3>2. policy \in Explicit
      BY <2>1
    <3> QED
      BY <3>1, <3>2, <2>1, <1>6
  <2>2. CASE d # target \/ policy = Omitted
    BY <1>0, <1>6, <2>2, UpdateDeviceMoves
  <2> QED
    BY <2>1, <2>2
<1>7. ASSUME NEW actor \in Device, NEW target \in Device, RevokeDevice(actor, target)
      PROVE  MovedBySurvival(d)
  BY <1>0, <1>7, RevokeDeviceMoves
<1>8. ASSUME NEW e \in Device, NEW code \in Code, NEW newRole \in Role,
             NEW policy \in Explicit \union {Omitted}, IssuePairCode(e, code, newRole, policy)
      PROVE  MovedBySurvival(d)
  BY <1>0, <1>8, OnceProtected DEF IssuePairCode
<1>9. ASSUME NEW code \in Code, IssueBootstrapCode(code)
      PROVE  MovedBySurvival(d)
  BY <1>0, <1>9, OnceProtected DEF IssueBootstrapCode
<1>10. ASSUME NEW row \in pairCodes, NEW new \in Device, ConsumePairCode(row, new)
       PROVE  MovedBySurvival(d)
  <2> DEFINE newRole == IF row.issuer = Bootstrap THEN "admin" ELSE row.role
  <2>1. PICK refresh \in Ensured : Insert(new, newRole, row.policy, refresh)
    BY <1>10 DEF ConsumePairCode
  <2>2. row \in PairCode
    BY DEF IInv, TypeOK
  <2>3. newRole \in Role /\ ResolveExpiry(row.policy, now) \in Deadline /\ revoked' = revoked
    BY <2>2, <1>10, ResolveType, LifetimeAssumption
       DEF Role, PairCode, ConsumePairCode, IInv, TypeOK, Time
  <2> HIDE DEF newRole
  <2> QED
    BY <2>1, <2>3, InsertMoves
<1> QED
  BY <1>1, <1>2, <1>3, <1>4, <1>5, <1>6, <1>7, <1>8, <1>9, <1>10 DEF Next

\* Only update_device changes the role of a bound device, and only it and the two
\* revocations take one out; the caller they accept is an administrator then, or
\* the device that leaves.
LEMMA StepManages ==
    ASSUME IInv, Next, NEW d \in Bound
    PROVE  RoleGivenByAdmin(d) /\ RevokedByAdminOrSelf(d)
<1>0. role \in [Device -> Role \union {"unbound"}] /\ d \in Device /\ role[d] # "unbound"
  BY DEF IInv, TypeOK, Bound
<1>1. CASE UNCHANGED <<role, revoked>>
  BY <1>1 DEF RoleGivenByAdmin, RevokedByAdminOrSelf
<1>2. ASSUME NEW new \in Device, NEW newRole, NEW policy, NEW refresh,
             Insert(new, newRole, policy, refresh), revoked' = revoked
      PROVE  RoleGivenByAdmin(d) /\ RevokedByAdminOrSelf(d)
  <2>1. role'[d] = role[d]
    BY <1>0, <1>2 DEF Insert
  <2> QED
    BY <1>2, <2>1 DEF RoleGivenByAdmin, RevokedByAdminOrSelf
<1>3. CASE RevokeAllDevices
  BY <1>3 DEF RevokeAllDevices, RoleGivenByAdmin, RevokedByAdminOrSelf
<1>4. ASSUME NEW actor \in Device, NEW target \in Device, NEW newRole \in Role,
             NEW policy \in Explicit \union {Omitted},
             UpdateDevice(actor, target, newRole, policy)
      PROVE  RoleGivenByAdmin(d) /\ RevokedByAdminOrSelf(d)
  <2>1. role' = [role EXCEPT ![target] = newRole] /\ revoked' = revoked
    BY <1>4 DEF UpdateDevice
  <2>2. ASSUME role'[d] # role[d]
        PROVE  actor \in Managers /\ target = d
    <3>1. target = d /\ newRole # role[target]
      BY <1>0, <2>1, <2>2
    <3> QED
      BY <3>1, <1>4
         DEF UpdateDevice, MayChange, AccessOk, RefreshOk, Active, Managers, Admins, Unrevoked
  <2> QED
    BY <1>4, <2>1, <2>2 DEF RoleGivenByAdmin, RevokedByAdminOrSelf
<1>5. ASSUME NEW actor \in Device, NEW target \in Device, RevokeDevice(actor, target)
      PROVE  RoleGivenByAdmin(d) /\ RevokedByAdminOrSelf(d)
  <2>1. role' = role /\ revoked' = revoked \union {target}
    BY <1>5 DEF RevokeDevice
  <2>2. actor \in Managers \union {target}
    BY <1>5 DEF RevokeDevice, MayChange, AccessOk, RefreshOk, Active, Managers, Admins, Unrevoked
  <2> QED
    BY <1>5, <2>1, <2>2 DEF RoleGivenByAdmin, RevokedByAdminOrSelf
<1>6. CASE Enforce \/ OpenStorage \/ Tick
  BY <1>1, <1>6 DEF Enforce, OpenStorage, Tick
<1>7. CASE \E e \in Device : BindDevice(e)
  BY <1>2, <1>7 DEF BindDevice
<1>8. CASE \E e \in Device : RebindDevice(e) \/ RefreshAccessToken(e)
  BY <1>1, <1>8 DEF RebindDevice, RefreshAccessToken, RotateAccess
<1>9. CASE \E e \in Device, code \in Code, newRole \in Role,
             policy \in Explicit \union {Omitted} : IssuePairCode(e, code, newRole, policy)
  BY <1>1, <1>9 DEF IssuePairCode
<1>10. CASE \E code \in Code : IssueBootstrapCode(code)
  BY <1>1, <1>10 DEF IssueBootstrapCode
<1>11. CASE \E row \in pairCodes, e \in Device : ConsumePairCode(row, e)
  BY <1>2, <1>11 DEF ConsumePairCode
<1> QED
  BY <1>3, <1>4, <1>5, <1>6, <1>7, <1>8, <1>9, <1>10, <1>11 DEF Next

\* Roles, revocations and deadlines of bound devices change only by somebody who
\* is an administrator in the transaction that changes them, whatever the caller
\* was when it was authenticated; the exceptions are a device that leaves, the
\* local script, and the last administrator made permanent.
THEOREM AdminsManage == Spec => ManagedByAdminsOnly
<1> DEFINE Managed ==
       \A d \in Bound :
          /\ RoleGivenByAdmin(d)
          /\ RevokedByAdminOrSelf(d)
          /\ DeadlineMovedByAdminOrSurvival(d)
<1>1. IInv /\ [Next]_vars => [Managed]_vars
  BY StepMoves, StepManages DEF MovedBySurvival, Survives, DeadlineMovedByAdminOrSurvival
<1> QED
  BY <1>1, Invariance, PTL DEF Spec, ManagedByAdminsOnly
=============================================================================
