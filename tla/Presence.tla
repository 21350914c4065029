------------------------------ MODULE Presence ------------------------------
(***************************************************************************)
(* The desktop presence that Windows devices report, and what is announced *)
(* of it to Android devices: POST /devices/me/presence (app/main.py),      *)
(* update_device_session_state and device_presence_summary                 *)
(* (app/storage.py).                                                       *)
(*                                                                         *)
(* Nothing on the server runs when a report grows stale, a pause ends or a *)
(* deadline passes: only reports are announced.  The handler does not wait *)
(* between its transaction and the summary it announces, so a report and   *)
(* its announcement are one step; Delivery models how it is published.     *)
(***************************************************************************)
EXTENDS Integers, FiniteSets

CONSTANTS
    Windows,    \* the Windows devices
    Stale,      \* DEVICE_PRESENCE_TTL
    Pauses,     \* how long a user may pause notifications
    MaxTime, MaxMoves   \* bounds

None == -1      \* NULL

ASSUME PresenceAssumption ==
    /\ Stale \in Nat \ {0} /\ MaxTime \in Nat /\ MaxMoves \in Nat
    /\ Pauses \subseteq Nat

Session == {"unknown", "locked", "unlocked"}

VARIABLES
    now,
    session,    \* session_state
    reportedAt, \* session_state_updated_at
    pauseUntil, \* notification_pause_until
    suppresses, \* suppress_codex_permission_requests
    deadline,   \* refresh_expires_at
    revoked,    \* revoked_at
    announced,  \* the last summary published, or read by Android on connecting
    returned,   \* history: devices whose authorization has come back since
    moves       \* deadlines moved so far

reports == <<session, reportedAt, pauseUntil, suppresses>>
presenceVars == <<now, reports, deadline, revoked, announced, returned, moves>>

-----------------------------------------------------------------------------
\* _credential_error; a device renews its access token in time.
Authorized(d) == d \notin revoked /\ (deadline[d] = None \/ deadline[d] > now)

\* A report exactly as old as the threshold still counts.
Recent(d) == reportedAt[d] # None /\ reportedAt[d] >= now - Stale
Paused(d) == pauseUntil[d] # None /\ pauseUntil[d] > now
HasEnded(d) == pauseUntil[d] # None /\ ~Paused(d)

\* device_presence_summary.
Unlocked == {d \in Windows : Authorized(d) /\ Recent(d) /\ session[d] = "unlocked"}
Summary == [unlocked |-> Unlocked # {},
            unpaused |-> {d \in Unlocked : ~Paused(d)} # {},
            suppresses |-> {d \in Windows \ revoked : suppresses[d]}]

\* update_device_session_state: what counts as a change.
Effective(d) == IF Recent(d) THEN session[d] ELSE "unknown"
NewPause(d, length) == Paused(d) # (length > 0)
PauseChanged(d, length) == NewPause(d, length) \/ (HasEnded(d) /\ length = 0)
IsNews(d, state, length, suppress) ==
    \/ Effective(d) # state
    \/ PauseChanged(d, length)
    \/ suppresses[d] # suppress

\* The handler publishes device.presence_changed with the summary of the moment.
Announce(news) ==
    IF news THEN announced' = Summary' /\ returned' = {}
            ELSE UNCHANGED <<announced, returned>>

Report(d, state, length, suppress) ==
    /\ Authorized(d)
    /\ session' = [session EXCEPT ![d] = state]
    /\ reportedAt' = [reportedAt EXCEPT ![d] = now]
    /\ pauseUntil' = [pauseUntil EXCEPT ![d] = IF length > 0 THEN now + length ELSE None]
    /\ suppresses' = [suppresses EXCEPT ![d] = suppress]
    /\ UNCHANGED <<now, deadline, revoked, moves>>
    /\ Announce(IsNews(d, state, length, suppress))

\* GET /devices/presence, by an Android device that (re)connects.
Read ==
    /\ announced' = Summary
    /\ returned' = {}
    /\ UNCHANGED <<now, reports, deadline, revoked, moves>>

\* An administrator moves a deadline, or revokes a device; nothing is announced.
MoveDeadline(d, time) ==
    /\ moves < MaxMoves /\ moves' = moves + 1
    /\ d \notin revoked
    /\ deadline' = [deadline EXCEPT ![d] = time]
    /\ returned' = returned \union {e \in {d} : ~Authorized(d) /\ Authorized(d)'}
    /\ UNCHANGED <<now, reports, revoked, announced>>

Revoke(d) ==
    /\ revoked' = revoked \union {d}
    /\ UNCHANGED <<now, reports, deadline, announced, returned, moves>>

Tick ==
    /\ now < MaxTime
    /\ now' = now + 1
    /\ UNCHANGED <<reports, deadline, revoked, announced, returned, moves>>

PresenceInit ==
    /\ now = 0
    /\ session = [d \in Windows |-> "unknown"]
    /\ reportedAt = [d \in Windows |-> None]
    /\ pauseUntil = [d \in Windows |-> None]
    /\ suppresses = [d \in Windows |-> FALSE]
    /\ deadline = [d \in Windows |-> None]
    /\ revoked = {}
    /\ announced = Summary
    /\ returned = {} /\ moves = 0

PresenceNext ==
    \/ \E d \in Windows :
          \/ \E state \in Session, length \in {0} \union Pauses, suppress \in BOOLEAN :
                Report(d, state, length, suppress)
          \/ \E time \in {None} \union (1 .. MaxTime) : MoveDeadline(d, time)
          \/ Revoke(d)
    \/ Read \/ Tick

PresenceSpec == PresenceInit /\ [][PresenceNext]_presenceVars

-----------------------------------------------------------------------------
(***************************************************************************)
(* Properties.                                                             *)
(***************************************************************************)
PresenceTypeOK ==
    /\ now \in 0 .. MaxTime
    /\ session \in [Windows -> Session]
    /\ reportedAt \in [Windows -> (0 .. now) \union {None}]
    /\ \A d \in Windows : pauseUntil[d] # None => pauseUntil[d] > reportedAt[d]
    /\ \A d \in Windows : session[d] # "unknown" => reportedAt[d] # None
    /\ suppresses \in [Windows -> BOOLEAN]
    /\ deadline \in [Windows -> Nat \union {None}]
    /\ revoked \subseteq Windows /\ returned \subseteq Windows
    /\ announced.unpaused => announced.unlocked

\* Somebody came back to an unpaused desktop: Android was told, unless a pause
\* has ended that the device has not reported since ("the first opportunity",
\* update_device_session_state), or a deadline was moved for a device that had
\* lost its authorization.
ReturnIsAnnounced ==
    Summary.unpaused =>
       announced.unpaused \/ returned # {} \/ \E d \in Unlocked : HasEnded(d)

\* Everybody left: what Android was told last may be outdated by time (a device
\* that was stale may come back without knowing its state) or by a revocation,
\* never by devices that report they are locked, or paused.
Somebody == {d \in Windows : reportedAt[d] # None /\ session[d] # "locked"}
LeavingIsAnnounced ==
    /\ announced.unlocked => Somebody # {}
    /\ announced.unpaused => {d \in Somebody : ~Paused(d)} # {}
    /\ \A d \in Windows \ revoked : suppresses[d] <=> d \in announced.suppresses

\* "Indicate whether effective availability changed": across stale reports,
\* pauses that end and devices that come and go, no report that changes what
\* Android goes by stays unannounced.
AvailabilityIsAnnounced == ReturnIsAnnounced /\ LeavingIsAnnounced
=============================================================================
