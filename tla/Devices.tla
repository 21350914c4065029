------------------------------ MODULE Devices ------------------------------
(***************************************************************************)
(* Device authority: the tables `devices` and `pair_codes` of              *)
(* app/storage.py and every operation that changes a role, a revocation, a *)
(* credential deadline or a pairing code.                                  *)
(*                                                                         *)
(* Every operation of Storage runs in one SQLite write transaction         *)
(* (BEGIN IMMEDIATE under an RLock), so it is one atomic action here, and  *)
(* the actions of all worker processes interleave.  An operation that      *)
(* raises rolls its transaction back and is a stuttering step; one that    *)
(* returns an error after its transaction commits Enforce and nothing      *)
(* else.  Tokens are not represented: whoever performs RebindDevice or     *)
(* RefreshAccessToken holds the device's current refresh token.  A request *)
(* was authenticated some time before its transaction starts, so any bound *)
(* device may be the actor of one and only the guards inside the           *)
(* transaction count.                                                      *)
(***************************************************************************)
EXTENDS Naturals

CONSTANTS
    Device,       \* the device identities that may ever be bound
    Code,         \* pairing codes that may be stored at the same time
    Legacy,       \* devices found by the migration of an older database
    PairMode,     \* SESSION_NOTIFY_PAIR_MODE
    AccessTTL,    \* lifetime of an access token
    RefreshTTL,   \* default lifetime of a refresh token
    PairCodeTTL,  \* lifetime of a pairing code
    TtlDays,      \* the refresh_ttl_days a request may carry
    Dates,        \* the refresh_expires_at a request may carry
    MaxTime,      \* bound of the clock
    Never,        \* a NULL deadline
    Bootstrap     \* the issuer '@bootstrap' of a locally issued code

ASSUME LegacyAssumption == Legacy \subseteq Device
ASSUME PairModeAssumption == PairMode \in {"strict", "easy"}
ASSUME LifetimeAssumption ==
    /\ AccessTTL \in Nat \ {0}
    /\ RefreshTTL \in Nat \ {0}
    /\ PairCodeTTL \in Nat \ {0}
    /\ TtlDays \subseteq Nat \ {0}
    /\ Dates \subseteq Nat
    /\ MaxTime \in Nat
ASSUME NullAssumption == Never \notin Nat /\ Bootstrap \notin Device

VARIABLES
    now,        \* utc_now(); transactions take no time
    role,       \* devices.role, "unbound" while there is no such row
    revoked,    \* devices with revoked_at set; their rows are kept
    refreshExp, \* devices.refresh_expires_at
    accessExp,  \* devices.access_expires_at
    pairCodes   \* the rows of pair_codes

vars == <<now, role, revoked, refreshExp, accessExp, pairCodes>>

Time == 0 .. MaxTime
Deadline == Nat \union {Never}
Role == {"admin", "member"} \* a guest has the authority of a member: none

(***************************************************************************)
(* An expiry policy as a request or an invitation states it: the server's  *)
(* default, an explicit null, a number of days or a date.                  *)
(***************************************************************************)
Omitted == [kind |-> "omitted", value |-> 0]
Permanent == [kind |-> "permanent", value |-> 0]
Days(n) == [kind |-> "days", value |-> n]
Until(t) == [kind |-> "until", value |-> t]
Explicit == {Permanent} \union {Days(n) : n \in TtlDays} \union {Until(t) : t \in Dates}

\* A policy that Storage accepts: a date must lie in the future.
Acceptable(policy, t) == policy.kind = "until" => policy.value > t

\* The deadline a policy stands for at time t.
ResolveExpiry(policy, t) ==
    CASE policy.kind = "omitted"   -> t + RefreshTTL
      [] policy.kind = "permanent" -> Never
      [] policy.kind = "days"      -> t + policy.value
      [] policy.kind = "until"     -> policy.value

PairCode ==
    [code : Code, issuer : Device \union {Bootstrap}, role : Role, expires : Nat,
     policy : [kind : {"permanent", "days", "until"}, value : Nat], consumed : BOOLEAN]

-----------------------------------------------------------------------------
(***************************************************************************)
(* Credentials and administrators.                                         *)
(***************************************************************************)
Live(deadline, t) == deadline # Never => deadline > t

Bound == {d \in Device : role[d] # "unbound"}
Active == Bound \ revoked
Unrevoked(roles, gone) == {d \in Device : roles[d] = "admin" /\ d \notin gone}
Admins == Unrevoked(role, revoked)

\* _credential_error without and with access=True, on a table of deadlines.
RefreshOk(d, refresh) == d \in Active /\ Live(refresh[d], now)
AccessOk(d, refresh) == RefreshOk(d, refresh) /\ Live(accessExp[d], now)

\* The lesser of a finite time and a deadline.
CapNothing(t, deadline) == t
Cap(t, deadline) == IF Live(deadline, t) THEN t ELSE deadline

\* A device's access deadline after its refresh deadline moved to `deadline`.
KeepAccess(access, deadline) == access
Shorten(access, deadline) ==
    IF deadline # Never /\ Live(access, deadline) THEN deadline ELSE access

(***************************************************************************)
(* _ensure_admin_invariant_locked.  When every unrevoked administrator has *)
(* a finite deadline and at most one of them is still usable, the one with *)
(* the latest deadline becomes permanent.  Ties are broken by created_at   *)
(* and then by a random id: any of the latest may be chosen.               *)
(***************************************************************************)
NeedsSurvivorLate(admins, refresh, t) ==
    /\ admins # {}
    /\ \A d \in admins : refresh[d] # Never
    /\ \A d, e \in admins : refresh[d] >= t /\ refresh[e] >= t => d = e
NeedsSurvivor(admins, refresh, t) ==
    /\ admins # {}
    /\ \A d \in admins : refresh[d] # Never
    /\ \A d, e \in admins : refresh[d] > t /\ refresh[e] > t => d = e

Latest(admins, refresh) == {d \in admins : \A e \in admins : refresh[e] <= refresh[d]}

ProtectNobody(admins, refresh, t) == {refresh}
Protect(admins, refresh, t) ==
    IF NeedsSurvivor(admins, refresh, t)
    THEN {[refresh EXCEPT ![d] = Never] : d \in Latest(admins, refresh)}
    ELSE {refresh}

\* The deadlines every operation starts from.
Ensured == Protect(Admins, refreshExp, now)

\* _another_usable_admin_locked
AnyOther(d, refresh) == TRUE
AnotherUsableAdmin(d, refresh) == \E e \in Admins \ {d} : Live(refresh[e], now)

\* The rows left by DELETE FROM pair_codes WHERE issued_by_device_id = issuer.
KeepCodes(issuer) == pairCodes
WithoutCodesOf(issuer) == {row \in pairCodes : row.issuer # issuer}

\* _authorize_device_change_locked: administrators change anything, the others
\* only themselves, and never their role or their deadline.
MayChangeSelf(actor, target, roleOrExpiry, refresh) ==
    AccessOk(actor, refresh) /\ (role[actor] = "admin" \/ actor = target)
MayChange(actor, target, roleOrExpiry, refresh) ==
    /\ AccessOk(actor, refresh)
    /\ role[actor] = "admin" \/ (actor = target /\ ~roleOrExpiry)

-----------------------------------------------------------------------------
(***************************************************************************)
(* Operations.  Each starts by protecting the last administrator, and the  *)
(* three that may take one away do so again before they commit.            *)
(***************************************************************************)
\* enforce_admin_expiry_invariant: the sweep of every 60 seconds.  It is also
\* all that authenticate, access_token_error, list_devices and
\* device_presence_summary change here, and what a refused
\* refresh_access_token or consume_pair_code leaves behind.
Enforce ==
    /\ refreshExp' \in Ensured
    /\ UNCHANGED <<now, role, revoked, accessExp, pairCodes>>

\* _bind_device_locked, from a transaction that has protected `refresh`.  The
\* first administrator is permanent whatever the policy says.
Insert(d, newRole, policy, refresh) ==
    LET first == newRole = "admin" /\ Admins = {}
        deadline == IF first THEN Never ELSE ResolveExpiry(policy, now)
        roles == [role EXCEPT ![d] = newRole]
    IN  /\ role[d] = "unbound"
        /\ role' = roles
        /\ accessExp' = [accessExp EXCEPT ![d] = Cap(now + AccessTTL, deadline)]
        /\ refreshExp' \in Protect(Unrevoked(roles, revoked),
                                   [refresh EXCEPT ![d] = deadline], now)

\* POST /devices/bind of an unknown device; strict mode asks for a code instead.
BindDevice(d) ==
    /\ PairMode = "easy"
    /\ \E refresh \in Ensured :
          Insert(d, IF Active = {} THEN "admin" ELSE "member", Omitted, refresh)
    /\ UNCHANGED <<now, revoked, pairCodes>>

\* A new access token, never beyond the refresh deadline, which stays.
RotateAccess(d) ==
    /\ \E refresh \in Ensured :
          /\ RefreshOk(d, refresh)
          /\ refreshExp' = refresh
          /\ accessExp' = [accessExp EXCEPT ![d] = Cap(now + AccessTTL, refresh[d])]
    /\ UNCHANGED <<now, role, revoked, pairCodes>>

\* POST /devices/bind with a refresh token, which it rotates as well.
RebindDevice(d) == RotateAccess(d)

\* POST /auth/refresh
RefreshAccessToken(d) == RotateAccess(d)

\* PATCH /devices/{id}: `newRole` is the role afterwards, and Omitted the policy
\* of a request that leaves the deadline alone.
UpdateDevice(actor, target, newRole, policy) ==
    /\ \E refresh \in Ensured :
          LET demotes == role[target] = "admin" /\ newRole # "admin"
              moves == policy # Omitted
              deadline == IF moves THEN ResolveExpiry(policy, now) ELSE refresh[target]
              roles == [role EXCEPT ![target] = newRole]
          IN  /\ MayChange(actor, target, newRole # role[target] \/ moves, refresh)
              /\ target \in Active
              /\ demotes => AnotherUsableAdmin(target, refresh)
              /\ moves => Acceptable(policy, now)
              /\ moves /\ newRole = "admin" /\ deadline # Never
                    => AnotherUsableAdmin(target, refresh)
              /\ role' = roles
              /\ pairCodes' = IF demotes THEN WithoutCodesOf(target) ELSE pairCodes
              /\ accessExp' = IF moves
                              THEN [accessExp EXCEPT ![target] = Shorten(@, deadline)]
                              ELSE accessExp
              /\ refreshExp' \in Protect(Unrevoked(roles, revoked),
                                         [refresh EXCEPT ![target] = deadline], now)
    /\ UNCHANGED <<now, revoked>>

\* DELETE /devices/{id}
RevokeDevice(actor, target) ==
    /\ \E refresh \in Ensured :
          /\ MayChange(actor, target, FALSE, refresh)
          /\ target \in Active
          /\ role[target] = "admin" => AnotherUsableAdmin(target, refresh)
          /\ revoked' = revoked \union {target}
          /\ pairCodes' = WithoutCodesOf(target)
          /\ refreshExp' \in Protect(Unrevoked(role, revoked \union {target}), refresh, now)
    /\ UNCHANGED <<now, role, accessExp>>

\* scripts/reset_devices.py: the only way back to a server without devices.
RevokeAllDevices ==
    /\ revoked' = revoked \union Bound
    /\ pairCodes' = {}
    /\ UNCHANGED <<now, role, refreshExp, accessExp>>

\* _issue_pair_code_locked.  A request that states no policy gets the default
\* in days, so it counts from the day the code is used.
NullCode(code, issuer, newRole, policy) ==
    [code |-> code, issuer |-> issuer, role |-> newRole, expires |-> now + PairCodeTTL,
     policy |-> policy, consumed |-> FALSE]
NewCode(code, issuer, newRole, policy) ==
    [code |-> code, issuer |-> issuer, role |-> newRole, expires |-> now + PairCodeTTL,
     policy |-> IF policy = Omitted THEN Days(RefreshTTL) ELSE policy, consumed |-> FALSE]

Unused(code, rows) == \A row \in rows : row.code # code

\* POST /devices/pair/issue
IssuePairCode(d, code, newRole, policy) ==
    /\ \E refresh \in Ensured :
          /\ AccessOk(d, refresh)
          /\ role[d] = "admin"
          /\ refreshExp' = refresh
    /\ Acceptable(policy, now)
    /\ Unused(code, pairCodes)
    /\ pairCodes' = pairCodes \union {NewCode(code, d, newRole, policy)}
    /\ UNCHANGED <<now, role, revoked, accessExp>>

\* scripts/issue_bootstrap_code.py, which replaces the code it issued before.
IssueBootstrapCode(code) ==
    /\ Active = {}
    /\ refreshExp' \in Ensured
    /\ Unused(code, pairCodes)
    /\ pairCodes' = WithoutCodesOf(Bootstrap)
                      \union {NewCode(code, Bootstrap, "admin", Permanent)}
    /\ UNCHANGED <<now, role, revoked, accessExp>>

\* The issuer's authority at the time its code is used.
IssuerStands(issuer, refresh) ==
    IF issuer = Bootstrap THEN Active = {}
                          ELSE RefreshOk(issuer, refresh) /\ role[issuer] = "admin"

LeaveUnconsumed(row) == pairCodes
Consume(row) == (pairCodes \ {row}) \union {[row EXCEPT !.consumed = TRUE]}

\* POST /devices/pair/consume
ConsumePairCode(row, d) ==
    /\ ~row.consumed
    /\ row.expires > now
    /\ Acceptable(row.policy, now)
    /\ \E refresh \in Ensured :
          /\ IssuerStands(row.issuer, refresh)
          /\ Insert(d, IF row.issuer = Bootstrap THEN "admin" ELSE row.role,
                    row.policy, refresh)
    /\ pairCodes' = Consume(row)
    /\ UNCHANGED <<now, revoked>>

\* Storage.__init__ of a restarted or additional process: it protects the last
\* administrator and _cap_access_expiries_locked; the tables survive.
OpenStorage ==
    /\ \E refresh \in Ensured :
          /\ refreshExp' = refresh
          /\ accessExp' = [d \in Device |-> Shorten(accessExp[d], refresh[d])]
    /\ UNCHANGED <<now, role, revoked, pairCodes>>

\* Time passes while no transaction runs, for as long as it likes.
Tick ==
    /\ now < MaxTime
    /\ now' = now + 1
    /\ UNCHANGED <<role, revoked, refreshExp, accessExp, pairCodes>>

-----------------------------------------------------------------------------
\* The migration of a database without roles makes every device a permanent
\* administrator; a new database is empty.
Init ==
    /\ now = 0
    /\ role = [d \in Device |-> IF d \in Legacy THEN "admin" ELSE "unbound"]
    /\ revoked = {}
    /\ refreshExp = [d \in Device |-> Never]
    /\ accessExp = [d \in Device |-> Never]
    /\ pairCodes = {}

Next ==
    \/ Enforce
    \/ OpenStorage
    \/ RevokeAllDevices
    \/ Tick
    \/ \E d \in Device : BindDevice(d)
    \/ \E d \in Device : RebindDevice(d)
    \/ \E d \in Device : RefreshAccessToken(d)
    \/ \E actor, target \in Device, newRole \in Role, policy \in Explicit \union {Omitted} :
          UpdateDevice(actor, target, newRole, policy)
    \/ \E actor, target \in Device : RevokeDevice(actor, target)
    \/ \E d \in Device, code \in Code, newRole \in Role, policy \in Explicit \union {Omitted} :
          IssuePairCode(d, code, newRole, policy)
    \/ \E code \in Code : IssueBootstrapCode(code)
    \/ \E row \in pairCodes, d \in Device : ConsumePairCode(row, d)

Spec == Init /\ [][Next]_vars

\* The server runs the sweep for as long as it is up.
FairSpec == Spec /\ WF_vars(Enforce)

-----------------------------------------------------------------------------
(***************************************************************************)
(* Properties.                                                             *)
(***************************************************************************)
TypeOK ==
    /\ now \in Time
    /\ role \in [Device -> Role \union {"unbound"}]
    /\ revoked \subseteq Bound
    /\ refreshExp \in [Device -> Deadline]
    /\ accessExp \in [Device -> Deadline]
    /\ pairCodes \subseteq PairCode

\* A server that has devices has an administrator, expired or not: neither the
\* demotions nor the revocations of requests that raced each other leave
\* members without one (LastAdministratorError of update_device and
\* revoke_device).
AdministratorAlwaysExists == Active # {} => Admins # {}

\* Every stored code speaks for a device that is an administrator now, or for
\* the server itself: update_device and revoke_device leave no code behind that
\* a later promotion of its issuer would bring back to life.
CodesHaveAuthority ==
    \A row \in pairCodes : row.issuer = Bootstrap \/ row.issuer \in Admins

\* No access token outlives its refresh deadline, through all the shortenings,
\* extensions, refreshes and survivor promotions of update_device,
\* refresh_access_token and _ensure_admin_invariant_locked.
AccessWithinRefresh ==
    \A d \in Device :
       refreshExp[d] # Never => accessExp[d] # Never /\ accessExp[d] <= refreshExp[d]

\* The administrators that can still act on their refresh token.
Usable(refresh) == {d \in Admins : Live(refresh[d], now)}

\* Two administrators are usable or one is permanent, if there are any.
SoleAdminPermanent ==
    \/ Admins = {}
    \/ \E d \in Admins : refreshExp[d] = Never
    \/ \E d, e \in Usable(refreshExp) : d # e

\* Every transaction that changes something leaves a server whose last usable
\* administrator is permanent ("The last usable administrator must remain
\* permanent", LastAdministratorExpiryError), whatever time has passed before.
EveryCommitProtects == [][now' = now => SoleAdminPermanent']_vars

\* Administrators whose access token counts at this moment.
Managers == {d \in Admins : Live(accessExp[d], now)}

\* A device's role changes only by one of them, and it is revoked only by one of
\* them, by itself or by the local script.
RoleGivenByAdmin(d) ==
    role'[d] # role[d] =>
       \E actor \in Managers, newRole \in Role, policy \in Explicit \union {Omitted} :
          UpdateDevice(actor, d, newRole, policy)
RevokedByAdminOrSelf(d) ==
    d \in revoked' \ revoked =>
       RevokeAllDevices \/ \E actor \in Managers \union {d} : RevokeDevice(actor, d)

\* Its refresh deadline moves only by one of them, or to permanent, for a
\* last administrator with the latest deadline of all.
DeadlineMovedByAdminOrSurvival(d) ==
    refreshExp'[d] # refreshExp[d] =>
       \/ \E actor \in Managers, newRole \in Role, policy \in Explicit :
             UpdateDevice(actor, d, newRole, policy)
       \/ /\ refreshExp'[d] = Never
          /\ d \in Admins \intersect Admins'
          /\ \A e \in (Admins \intersect Admins') \ {d} :
                refreshExp[e] # Never /\ refreshExp[e] <= refreshExp[d]
          /\ ~ \E e \in (Admins \intersect Admins') \ {d} : Live(refreshExp[e], now)

\* Whoever was authenticated when the request came in, what changes a bound device
\* is an administrator with a live access token at the time of the transaction
\* (or the device, leaving; or the rescue of a last administrator): using the
\* tokens, binding again, restarting the server and the sweep promote, extend or
\* revive nobody, and neither does a caller demoted or expired in the meantime.
ManagedByAdminsOnly ==
    [][\A d \in Bound :
          /\ RoleGivenByAdmin(d)
          /\ RevokedByAdminOrSelf(d)
          /\ DeadlineMovedByAdminOrSurvival(d)]_vars

\* The abstract specification of who belongs, manages and is invited.
Authority == INSTANCE AdminAuthority WITH
    Open <- PairMode = "easy",
    Local <- Bootstrap,
    members <- Active,
    admins <- Admins,
    removed <- revoked,
    invitations <- {<<row.code, row.issuer>> : row \in {r \in pairCodes : ~r.consumed}}

\* Through races, expiries and restarts, requests change membership, management
\* and invitations only as AdminAuthority allows.
ImplementsAuthority == Authority!AuthoritySpec

\* When the clock passes the deadline of every administrator at once (the host
\* slept, nobody called), the sweep still gives the household one of them back.
AuthorityRecovers == Admins # {} ~> (Usable(refreshExp) # {} \/ Admins = {})
=============================================================================
