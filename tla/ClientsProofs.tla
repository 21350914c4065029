--------------------------- MODULE ClientsProofs ---------------------------
(***************************************************************************)
(* What clients can rely on in what they read of the server, for any       *)
(* number of devices, any length of pauses and any age at which a report   *)
(* is stale.                                                               *)
(***************************************************************************)
EXTENDS MC_Clients, EventCatchupProofs

-----------------------------------------------------------------------------
(***************************************************************************)
(* Presence.  ReturnIsAnnounced is not inductive: it speaks of somebody,   *)
(* and the device whose pause has ended may be the next to lose its        *)
(* authorization while another is unannounced.  So it must be known of     *)
(* every unlocked device why Android need not have been told of it         *)
(* (EveryReturnIsAnnounced).                                               *)
(***************************************************************************)
EveryReturnIsAnnounced ==
    \A d \in Unlocked :
       Paused(d) \/ announced.unpaused \/ d \in returned \/ HasEnded(d)

PresenceInv ==
    /\ PresenceTypeOK
    /\ pauseUntil \in [Windows -> Int]
    /\ EveryReturnIsAnnounced
    /\ LeavingIsAnnounced

\* What the constants are.
LEMMA PresenceConstants ==
    /\ Stale \in Nat /\ MaxTime \in Nat /\ Pauses \subseteq Nat
    /\ None \in Int /\ None < 0
BY PresenceAssumption DEF None

\* Whatever is announced is the summary of the moment.
LEMMA SummaryIsTrue ==
    /\ Summary.unlocked <=> Unlocked # {}
    /\ Summary.unpaused <=> \E d \in Unlocked : ~Paused(d)
    /\ Summary.suppresses = {d \in Windows \ revoked : suppresses[d]}
    /\ Summary.unpaused => Summary.unlocked
BY DEF Summary

\* A device that counts as unlocked has reported that it is.
LEMMA UnlockedHasReported ==
    \A d \in Unlocked : d \in Windows /\ reportedAt[d] # None /\ session[d] = "unlocked"
BY DEF Unlocked, Recent

\* What is announced in a step needs no other reason after it.
LEMMA NewlyAnnounced ==
    ASSUME announced' = Summary'
    PROVE  /\ EveryReturnIsAnnounced' /\ LeavingIsAnnounced'
           /\ announced'.unpaused => announced'.unlocked
<1>1. /\ Summary'.unlocked <=> Unlocked' # {}
      /\ Summary'.unpaused <=> \E d \in Unlocked' : ~Paused(d)'
      /\ Summary'.suppresses = {d \in Windows \ revoked' : suppresses'[d]}
  BY DEF Summary
<1>2. EveryReturnIsAnnounced'
  BY <1>1 DEF EveryReturnIsAnnounced
<1>3. \A d \in Unlocked' : d \in Somebody'
  BY DEF Unlocked, Recent, Somebody
<1>4. LeavingIsAnnounced'
  BY <1>1, <1>3 DEF LeavingIsAnnounced
<1>5. announced'.unpaused => announced'.unlocked
  BY <1>1
<1> QED  BY <1>2, <1>4, <1>5

\* A report that is no news says what Android goes by already: the device was
\* heard of and in that state, and its pause is as it was.
LEMMA NoNews ==
    ASSUME PresenceInv, NEW d \in Windows, NEW state \in Session,
           NEW length \in {0} \union Pauses, NEW suppress \in BOOLEAN,
           Report(d, state, length, suppress), ~IsNews(d, state, length, suppress)
    PROVE  /\ announced' = announced /\ returned' = returned
           /\ suppresses' = suppresses
           /\ state # "unknown" => Recent(d) /\ session[d] = state
           /\ Paused(d) <=> length > 0
           /\ HasEnded(d) => length > 0
           /\ Paused(d)' <=> Paused(d)
<1>1. PresenceTypeOK /\ now \in Nat /\ length \in Nat
  BY PresenceConstants DEF PresenceInv, PresenceTypeOK
<1>2. announced' = announced /\ returned' = returned
  BY DEF Report, Announce
<1>3. suppresses[d] = suppress /\ suppresses' = [suppresses EXCEPT ![d] = suppress]
  BY DEF Report, IsNews
<1>4. suppresses' = suppresses
  BY <1>1, <1>3 DEF PresenceTypeOK
<1>5. state # "unknown" => Recent(d) /\ session[d] = state
  BY DEF IsNews, Effective
<1>6. Paused(d) <=> length > 0
  BY DEF IsNews, PauseChanged, NewPause, Paused
<1>7. HasEnded(d) => length > 0
  BY <1>1 DEF IsNews, PauseChanged
<1>8. /\ pauseUntil'[d] = IF length > 0 THEN now + length ELSE None
      /\ now' = now
  BY DEF Report, PresenceInv
<1>9. Paused(d)' <=> length > 0
  BY <1>1, <1>8, PresenceConstants DEF Paused
<1> QED  BY <1>2, <1>4, <1>5, <1>6, <1>7, <1>9

LEMMA ReportStep ==
    ASSUME PresenceInv, NEW d \in Windows, NEW state \in Session,
           NEW length \in {0} \union Pauses, NEW suppress \in BOOLEAN,
           Report(d, state, length, suppress)
    PROVE  PresenceInv'
<1>1. /\ session' = [session EXCEPT ![d] = state]
      /\ reportedAt' = [reportedAt EXCEPT ![d] = now]
      /\ pauseUntil' = [pauseUntil EXCEPT ![d] = IF length > 0 THEN now + length ELSE None]
      /\ suppresses' = [suppresses EXCEPT ![d] = suppress]
      /\ UNCHANGED <<now, deadline, revoked, moves>>
      /\ Announce(IsNews(d, state, length, suppress))
  BY DEF Report
<1>2. PresenceTypeOK /\ pauseUntil \in [Windows -> Int] /\ now \in Nat /\ length \in Nat
  BY PresenceConstants DEF PresenceInv, PresenceTypeOK
<1>3. pauseUntil' \in [Windows -> Int]
  BY <1>1, <1>2, PresenceConstants
<1>a. \A e \in Windows \ {d} :
         /\ session'[e] = session[e] /\ reportedAt'[e] = reportedAt[e]
         /\ pauseUntil'[e] = pauseUntil[e] /\ suppresses'[e] = suppresses[e]
  BY <1>1, <1>2 DEF PresenceTypeOK
<1>b. /\ session'[d] = state /\ reportedAt'[d] = now /\ suppresses'[d] = suppress
      /\ pauseUntil'[d] = IF length > 0 THEN now + length ELSE None
  BY <1>1, <1>2 DEF PresenceTypeOK
<1>4. ASSUME announced'.unpaused => announced'.unlocked, returned' \subseteq Windows
      PROVE  PresenceTypeOK'
  <2>1. /\ now' \in 0 .. MaxTime
        /\ session' \in [Windows -> Session]
        /\ reportedAt' \in [Windows -> (0 .. now') \union {None}]
        /\ suppresses' \in [Windows -> BOOLEAN]
        /\ deadline' \in [Windows -> Nat \union {None}]
        /\ revoked' \subseteq Windows
    BY <1>1, <1>2 DEF PresenceTypeOK
  <2>2. \A e \in Windows : pauseUntil'[e] # None => pauseUntil'[e] > reportedAt'[e]
    BY <1>a, <1>b, <1>2, PresenceConstants DEF PresenceTypeOK
  <2>3. \A e \in Windows : session'[e] # "unknown" => reportedAt'[e] # None
    BY <1>a, <1>b, <1>2, PresenceConstants DEF PresenceTypeOK
  <2> QED  BY <1>4, <2>1, <2>2, <2>3 DEF PresenceTypeOK
<1>5. CASE IsNews(d, state, length, suppress)
  <2>1. announced' = Summary' /\ returned' = {}
    BY <1>1, <1>5 DEF Announce
  <2>2. EveryReturnIsAnnounced' /\ LeavingIsAnnounced' /\ PresenceTypeOK'
    BY <1>4, <2>1, NewlyAnnounced
  <2> QED  BY <1>3, <2>2 DEF PresenceInv
<1>6. CASE ~IsNews(d, state, length, suppress)
  <2>1. /\ announced' = announced /\ returned' = returned
        /\ suppresses' = suppresses
        /\ state # "unknown" => Recent(d) /\ session[d] = state
        /\ Paused(d) <=> length > 0
        /\ HasEnded(d) => length > 0
        /\ Paused(d)' <=> Paused(d)
    BY <1>6, NoNews
  <2>2. PresenceTypeOK'
    BY <1>2, <1>4, <2>1 DEF PresenceTypeOK
  <2>3. now' = now /\ revoked' = revoked /\ deadline' = deadline
    BY <1>1
  <2>4. ASSUME NEW e \in Windows \ {d}
        PROVE  /\ e \in Unlocked' <=> e \in Unlocked
               /\ Paused(e)' <=> Paused(e)
               /\ HasEnded(e)' <=> HasEnded(e)
               /\ e \in Somebody' <=> e \in Somebody
    <3>1. /\ Recent(e)' <=> Recent(e)
          /\ Authorized(e)' <=> Authorized(e)
          /\ Paused(e)' <=> Paused(e)
          /\ session'[e] = session[e]
          /\ reportedAt'[e] = reportedAt[e]
          /\ pauseUntil'[e] = pauseUntil[e]
      BY <1>a, <2>3 DEF Recent, Authorized, Paused
    <3> QED  BY <3>1 DEF Unlocked, HasEnded, Somebody
  <2>5. d \in Unlocked' => d \in Unlocked
    <3>1. Authorized(d)
      BY DEF Report
    <3> QED  BY <1>b, <2>1, <3>1 DEF Unlocked, Session
  <2>6. d \in Unlocked' /\ HasEnded(d) => Paused(d)'
    BY <2>1 DEF HasEnded
  <2>7. EveryReturnIsAnnounced'
    <3> SUFFICES ASSUME NEW e \in Unlocked'
                 PROVE  Paused(e)' \/ announced'.unpaused \/ e \in returned' \/ HasEnded(e)'
      BY DEF EveryReturnIsAnnounced
    <3>1. e \in Windows
      BY DEF Unlocked
    <3>2. e \in Unlocked
      BY <2>4, <2>5, <3>1
    <3>3. Paused(e) \/ announced.unpaused \/ e \in returned \/ HasEnded(e)
      BY <3>2 DEF PresenceInv, EveryReturnIsAnnounced
    <3> QED  BY <2>1, <2>4, <2>6, <3>1, <3>3
  <2>8. d \in Somebody => d \in Somebody'
    \* Locked is no news only from a device that is known to be locked.
    <3>1. now # None /\ reportedAt'[d] # None
      BY <1>2, <1>b, PresenceConstants
    <3>2. state = "locked" => session[d] = "locked"
      BY <2>1
    <3> QED  BY <1>b, <3>1, <3>2 DEF Somebody
  <2>9. /\ Somebody \subseteq Somebody'
        /\ \A e \in Windows : Paused(e)' <=> Paused(e)
    BY <2>1, <2>4, <2>8 DEF Somebody
  <2>10. LeavingIsAnnounced'
    <3>1. LeavingIsAnnounced
      BY DEF PresenceInv
    <3>2. Somebody \subseteq Windows
      BY DEF Somebody
    <3>3. announced'.unlocked => Somebody' # {}
      BY <2>1, <2>9, <3>1 DEF LeavingIsAnnounced
    <3>4. announced'.unpaused => {e \in Somebody' : ~Paused(e)'} # {}
      BY <2>1, <2>9, <3>1, <3>2 DEF LeavingIsAnnounced
    <3>5. \A e \in Windows \ revoked' : suppresses'[e] <=> e \in announced'.suppresses
      BY <2>1, <2>3, <3>1 DEF LeavingIsAnnounced
    <3> QED  BY <3>3, <3>4, <3>5 DEF LeavingIsAnnounced
  <2> QED  BY <1>3, <2>2, <2>7, <2>10 DEF PresenceInv
<1> QED  BY <1>5, <1>6

LEMMA ReadStep ==
    ASSUME PresenceInv, Read
    PROVE  PresenceInv'
<1>1. UNCHANGED <<now, session, reportedAt, pauseUntil, suppresses, deadline, revoked, moves>>
      /\ announced' = Summary /\ returned' = {}
  BY DEF Read, reports
<1>2. Summary' = Summary
  BY <1>1 DEF Summary, Unlocked, Authorized, Recent, Paused
<1>3. /\ EveryReturnIsAnnounced' /\ LeavingIsAnnounced'
      /\ announced'.unpaused => announced'.unlocked
  BY <1>1, <1>2, NewlyAnnounced
<1> QED  BY <1>1, <1>3 DEF PresenceInv, PresenceTypeOK

\* Everything Android goes by but who is authorized stays as it is.
LEMMA SameReports ==
    ASSUME PresenceInv,
           UNCHANGED <<now, session, reportedAt, pauseUntil, suppresses, announced>>
    PROVE  /\ \A d \in Windows : /\ Paused(d)' <=> Paused(d)
                                 /\ HasEnded(d)' <=> HasEnded(d)
                                 /\ Recent(d)' <=> Recent(d)
           /\ Somebody' = Somebody
           /\ revoked \subseteq revoked' => LeavingIsAnnounced'
<1>1. \A d \in Windows : /\ Paused(d)' <=> Paused(d)
                         /\ HasEnded(d)' <=> HasEnded(d)
                         /\ Recent(d)' <=> Recent(d)
  BY DEF Paused, HasEnded, Recent
<1>2. Somebody' = Somebody
  BY DEF Somebody
<1>3. ASSUME revoked \subseteq revoked' PROVE LeavingIsAnnounced'
  <2>1. LeavingIsAnnounced
    BY DEF PresenceInv
  <2>2. Somebody \subseteq Windows
    BY DEF Somebody
  <2>3. announced'.unpaused => {e \in Somebody' : ~Paused(e)'} # {}
    BY <1>1, <1>2, <2>1, <2>2 DEF LeavingIsAnnounced
  <2> QED  BY <1>2, <1>3, <2>1, <2>3 DEF LeavingIsAnnounced
<1> QED  BY <1>1, <1>2, <1>3

LEMMA MoveDeadlineStep ==
    ASSUME PresenceInv, NEW d \in Windows, NEW time \in {None} \union (1 .. MaxTime),
           MoveDeadline(d, time)
    PROVE  PresenceInv'
<1>1. /\ UNCHANGED <<now, session, reportedAt, pauseUntil, suppresses, revoked, announced>>
      /\ deadline' = [deadline EXCEPT ![d] = time]
      /\ returned' = returned \union {e \in {d} : ~Authorized(d) /\ Authorized(d)'}
  BY DEF MoveDeadline, reports
<1>2. /\ \A e \in Windows : /\ Paused(e)' <=> Paused(e)
                            /\ HasEnded(e)' <=> HasEnded(e)
                            /\ Recent(e)' <=> Recent(e)
      /\ LeavingIsAnnounced'
  BY <1>1, SameReports
<1>3. PresenceTypeOK'
  BY <1>1, PresenceConstants DEF PresenceInv, PresenceTypeOK
<1>4. \A e \in Windows \ {d} : Authorized(e)' <=> Authorized(e)
  BY <1>1 DEF Authorized, PresenceInv, PresenceTypeOK
<1>5. \A e \in Unlocked' : e \in Windows /\ (e \in Unlocked \/ e \in returned')
  BY <1>1, <1>2, <1>4 DEF Unlocked
<1>6. EveryReturnIsAnnounced'
  BY <1>1, <1>2, <1>5 DEF EveryReturnIsAnnounced, PresenceInv
<1> QED  BY <1>1, <1>2, <1>3, <1>6 DEF PresenceInv

LEMMA RevokeStep ==
    ASSUME PresenceInv, NEW d \in Windows, Revoke(d)
    PROVE  PresenceInv'
<1>1. /\ UNCHANGED <<now, session, reportedAt, pauseUntil, suppresses, deadline,
                     announced, returned>>
      /\ revoked' = revoked \union {d}
  BY DEF Revoke, reports
<1>2. /\ \A e \in Windows : /\ Paused(e)' <=> Paused(e)
                            /\ HasEnded(e)' <=> HasEnded(e)
                            /\ Recent(e)' <=> Recent(e)
      /\ LeavingIsAnnounced'
  BY <1>1, SameReports
<1>3. PresenceTypeOK'
  BY <1>1 DEF PresenceInv, PresenceTypeOK
<1>4. \A e \in Unlocked' : e \in Windows /\ e \in Unlocked
  BY <1>1, <1>2 DEF Unlocked, Authorized
<1>5. EveryReturnIsAnnounced'
  BY <1>1, <1>2, <1>4 DEF EveryReturnIsAnnounced, PresenceInv
<1> QED  BY <1>1, <1>2, <1>3, <1>5 DEF PresenceInv

\* Time ends pauses, makes reports stale and lets deadlines pass; it brings
\* nobody back, and pauses nobody.
LEMMA TickStep ==
    ASSUME PresenceInv, Tick
    PROVE  PresenceInv'
<1>1. /\ UNCHANGED <<session, reportedAt, pauseUntil, suppresses, deadline, revoked,
                     announced, returned>>
      /\ now' = now + 1 /\ now < MaxTime
  BY DEF Tick, reports
<1>2. /\ PresenceTypeOK /\ now \in Nat
      /\ \A d \in Windows : /\ pauseUntil[d] \in Int
                            /\ reportedAt[d] \in Int
                            /\ deadline[d] \in Int
  BY PresenceConstants DEF PresenceInv, PresenceTypeOK
<1>3. PresenceTypeOK'
  <2>1. (0 .. now) \subseteq (0 .. now') /\ now' \in 0 .. MaxTime
    BY <1>1, <1>2, PresenceConstants
  <2>2. reportedAt' \in [Windows -> (0 .. now') \union {None}]
    BY <1>1, <1>2, <2>1 DEF PresenceTypeOK
  <2> QED  BY <1>1, <1>2, <2>1, <2>2 DEF PresenceTypeOK
<1>4. \A d \in Windows : /\ Recent(d)' => Recent(d)
                         /\ Authorized(d)' => Authorized(d)
                         /\ Paused(d)' => Paused(d)
                         /\ HasEnded(d) => HasEnded(d)'
                         /\ Paused(d) => Paused(d)' \/ HasEnded(d)'
  <2> SUFFICES ASSUME NEW d \in Windows
               PROVE  /\ Recent(d)' => Recent(d)
                      /\ Authorized(d)' => Authorized(d)
                      /\ Paused(d)' => Paused(d)
                      /\ HasEnded(d) => HasEnded(d)'
                      /\ Paused(d) => Paused(d)' \/ HasEnded(d)'
    OBVIOUS
  <2>1. Recent(d)' => Recent(d)
    BY <1>1, <1>2, PresenceConstants DEF Recent
  <2>2. Authorized(d)' => Authorized(d)
    BY <1>1, <1>2 DEF Authorized
  <2>3. Paused(d)' => Paused(d)
    BY <1>1, <1>2 DEF Paused
  <2>4. HasEnded(d)' <=> pauseUntil[d] # None /\ ~Paused(d)'
    BY <1>1 DEF HasEnded
  <2> QED  BY <2>1, <2>2, <2>3, <2>4 DEF HasEnded, Paused
<1>5. \A d \in Unlocked' : d \in Windows /\ d \in Unlocked
  BY <1>1, <1>4 DEF Unlocked
<1>6. EveryReturnIsAnnounced'
  BY <1>1, <1>4, <1>5 DEF EveryReturnIsAnnounced, PresenceInv
<1>7. LeavingIsAnnounced'
  <2>1. Somebody' = Somebody /\ Somebody \subseteq Windows
    BY <1>1 DEF Somebody
  <2>2. announced'.unpaused => {e \in Somebody' : ~Paused(e)'} # {}
    BY <1>1, <1>4, <2>1 DEF LeavingIsAnnounced, PresenceInv
  <2> QED  BY <1>1, <2>1, <2>2 DEF LeavingIsAnnounced, PresenceInv
<1> QED  BY <1>1, <1>3, <1>6, <1>7 DEF PresenceInv

LEMMA PresenceBegins == PresenceInit => PresenceInv
<1> SUFFICES ASSUME PresenceInit PROVE PresenceInv
  OBVIOUS
<1>1. Unlocked = {} /\ Somebody \subseteq {}
  BY DEF PresenceInit, Unlocked, Recent, Somebody
<1>2. /\ ~announced.unlocked /\ ~announced.unpaused
      /\ announced.suppresses = {}
  BY <1>1, SummaryIsTrue DEF PresenceInit
<1>3. PresenceTypeOK /\ pauseUntil \in [Windows -> Int]
  BY <1>2, PresenceConstants DEF PresenceInit, PresenceTypeOK, Session
<1>4. EveryReturnIsAnnounced /\ LeavingIsAnnounced
  BY <1>1, <1>2 DEF EveryReturnIsAnnounced, LeavingIsAnnounced, PresenceInit
<1> QED  BY <1>3, <1>4 DEF PresenceInv

LEMMA PresenceKept == PresenceInv /\ [PresenceNext]_presenceVars => PresenceInv'
<1> SUFFICES ASSUME PresenceInv, [PresenceNext]_presenceVars PROVE PresenceInv'
  OBVIOUS
<1>1. CASE UNCHANGED presenceVars
  BY <1>1 DEF presenceVars, reports, PresenceInv, PresenceTypeOK, EveryReturnIsAnnounced,
     LeavingIsAnnounced, Somebody, Unlocked, Recent, Authorized, Paused, HasEnded
<1>2. CASE PresenceNext
  BY <1>2, ReportStep, ReadStep, MoveDeadlineStep, RevokeStep, TickStep DEF PresenceNext
<1> QED  BY <1>1, <1>2

LEMMA PresenceImplies == PresenceInv => PresenceTypeOK /\ AvailabilityIsAnnounced
<1> SUFFICES ASSUME PresenceInv, Summary.unpaused
             PROVE  announced.unpaused \/ returned # {} \/ \E d \in Unlocked : HasEnded(d)
  BY DEF PresenceInv, AvailabilityIsAnnounced, ReturnIsAnnounced
<1> QED  BY SummaryIsTrue DEF PresenceInv, EveryReturnIsAnnounced

\* Across reports that grow stale, pauses that end, deadlines that are moved
\* and devices that are revoked, Android is told of everything a report changes
\* for it (update_device_session_state, device_presence_summary): in every
\* behaviour of the server's presence.
THEOREM PresenceIsAnnounced == PresenceSpec => []AvailabilityIsAnnounced
BY PresenceBegins, PresenceKept, PresenceImplies, PTL DEF PresenceSpec

-----------------------------------------------------------------------------
(***************************************************************************)
(* History.  HistoryIsComplete speaks of the end of a walk.  On the way    *)
(* every row that has matched throughout was given or is behind the cursor *)
(* (NothingIsSkipped), which takes that times of creation and ids do not   *)
(* change; and while nothing has changed, what matches was given or is     *)
(* behind the cursor, in full pages (PagesAreFull).                        *)
(***************************************************************************)
Stages == {"closed", "open", "authenticated", "swept", "counted", "over"}
Walk == [stage : Stages, filter : Filters \union {{}}, size : Nat, cursor : Entry \union {0},
         since : Int, enabled : BOOLEAN, total : Nat, pages : Nat, given : Seq(Entry)]
Present == {e \in Entry : entries[e] # Absent}

HistoryTypes ==
    /\ clock \in 0 .. MaxClock
    /\ entries \in [Entry -> [at : Nat, status : Statuses \union {"none"}]]
    /\ \A e \in Present : entries[e].at <= clock /\ entries[e].status \in Statuses
    /\ guest \in BOOLEAN /\ receives \in BOOLEAN
    /\ walk \in Walk
    /\ walk.stage # "closed" => walk.size \in PageSizes
    /\ steady \subseteq Entry /\ quiet \in BOOLEAN

GivenInOrder ==
    /\ Range(walk.given) \subseteq Present
    /\ \A i, j \in DOMAIN walk.given : i < j => Newer(walk.given[i], walk.given[j])
    /\ walk.cursor # 0 => walk.given # <<>> /\ walk.cursor = Last(walk.given)
    /\ (InProgress \/ walk.stage = "closed") /\ walk.cursor = 0 =>
          walk.given = <<>> /\ walk.pages = 0

NothingIsSkipped ==
    /\ InProgress =>
          /\ steady \subseteq Given
          /\ \A e \in steady : e \in Range(walk.given) \/ e \in Behind(walk.cursor)
    /\ walk.stage = "authenticated" /\ ~walk.enabled => steady = {}
    /\ walk.stage \in {"swept", "counted"} => walk.enabled /\ walk.since <= clock - Days
    /\ walk.stage = "over" => steady \subseteq Range(walk.given)

PagesAreFull ==
    quiet =>
       /\ InProgress =>
             /\ Range(walk.given) \subseteq Wanted
             /\ \A e \in Wanted : e \in Range(walk.given) \/ e \in Behind(walk.cursor)
             /\ Len(walk.given) = walk.pages * walk.size
             /\ walk.cursor # 0 => Wanted \intersect Behind(walk.cursor) # {}
             /\ walk.stage # "open" => walk.enabled = receives
             /\ walk.given # <<>> => receives
       /\ walk.stage \in {"swept", "counted"} => Matching(walk.since, walk.filter) = Wanted
       /\ walk.stage = "counted" => walk.total = Cardinality(Wanted)
       /\ walk.stage = "over" =>
             /\ walk.total = Len(walk.given)
             /\ walk.pages = Max({1, Ceiling(walk.total, walk.size)})

HistoryInv == HistoryTypes /\ GivenInOrder /\ NothingIsSkipped /\ PagesAreFull

-----------------------------------------------------------------------------
(***************************************************************************)
(* The order of the history, and the first rows of it.                     *)
(***************************************************************************)
\* Of two rows one is newer, though they be of one time.
LEMMA NewerIsAnOrder ==
    ASSUME HistoryTypes
    PROVE  /\ \A a, b, c \in Entry : Newer(a, b) /\ Newer(b, c) => Newer(a, c)
           /\ \A a \in Entry : ~Newer(a, a)
           /\ \A a, b \in Entry : a = b \/ Newer(a, b) \/ Newer(b, a)
           /\ \A a, b \in Entry : Newer(a, b) => ~Newer(b, a)
<1>1. \A e \in Entry : entries[e].at \in Nat /\ e \in Nat
  BY HistoryAssumption DEF HistoryTypes
<1> QED  BY <1>1 DEF Newer

\* Some rows have a first one.
LEMMA FirstOfSome ==
    ASSUME HistoryTypes, NEW rows \in SUBSET Entry, rows # {}
    PROVE  \E x \in rows : \A y \in rows : ~Newer(y, x)
<1> DEFINE Before(x) == {f \in rows : Newer(f, x)}
           Befores == {Before(x) : x \in rows}
<1>1. IsFiniteSet(Entry) /\ IsFiniteSet(rows)
  BY HistoryAssumption, FS_Subset
<1>2. Befores \subseteq FiniteSubsetsOf(Entry) /\ Befores # {}
  <2>1. \A x \in rows : IsFiniteSet(Before(x)) /\ Before(x) \subseteq Entry
    BY <1>1, FS_Subset
  <2> QED  BY <2>1 DEF FiniteSubsetsOf
<1> HIDE DEF Befores
<1>3. PICK S \in Befores : \A R \in Befores : <<R, S>> \notin StrictSubsetOrdering(Entry)
  BY <1>2, FS_StrictSubsetOrderingWellFounded, WFMin
<1>4. PICK x \in rows : S = Before(x)
  BY DEF Befores
<1>5. ASSUME NEW y \in rows, Newer(y, x)  PROVE FALSE
  <2>1. y \in Entry /\ x \in Entry
    OBVIOUS
  <2>2. Before(y) \subseteq Before(x) /\ y \in Before(x) /\ y \notin Before(y)
    BY <1>5, <2>1, NewerIsAnOrder
  <2>3. /\ Before(y) \in SUBSET Entry /\ Before(x) \in SUBSET Entry
        /\ Before(y) # Before(x) /\ Before(y) \in Befores
    BY <2>2 DEF Befores
  <2> HIDE DEF Before
  <2> QED  BY <1>3, <1>4, <2>2, <2>3 DEF StrictSubsetOrdering
<1> QED  BY <1>5

LEMMA LeadingRows ==
    ASSUME HistoryTypes, NEW rows \in SUBSET Entry, NEW k \in Nat
    PROVE  /\ Leading(rows, k) \subseteq rows
           /\ \A e \in rows, f \in Leading(rows, k) : Newer(e, f) => e \in Leading(rows, k)
           /\ IsFiniteSet(rows) /\ Cardinality(rows) \in Nat
           /\ IsFiniteSet(Leading(rows, k)) /\ Cardinality(Leading(rows, k)) \in Nat
<1>1. IsFiniteSet(rows)
  BY HistoryAssumption, FS_Subset
<1>2. Leading(rows, k) \subseteq rows
  BY DEF Leading
<1>3. ASSUME NEW e \in rows, NEW f \in Leading(rows, k), Newer(e, f)
      PROVE  e \in Leading(rows, k)
  <2>1. f \in rows /\ e \in Entry /\ f \in Entry
    BY <1>2
  <2>2. {g \in rows : Newer(g, e)} \subseteq {g \in rows : Newer(g, f)}
    BY <1>3, <2>1, NewerIsAnOrder
  <2>3. IsFiniteSet({g \in rows : Newer(g, f)})
    BY <1>1, FS_Subset
  <2>4. /\ Cardinality({g \in rows : Newer(g, e)}) <= Cardinality({g \in rows : Newer(g, f)})
        /\ Cardinality({g \in rows : Newer(g, e)}) \in Nat
        /\ Cardinality({g \in rows : Newer(g, f)}) \in Nat
    BY <2>2, <2>3, FS_Subset, FS_CardinalityType
  <2>5. Cardinality({g \in rows : Newer(g, f)}) < k
    BY DEF Leading
  <2> QED  BY <2>4, <2>5 DEF Leading
<1>4. Cardinality(rows) \in Nat
  BY <1>1, FS_CardinalityType
<1>5. IsFiniteSet(Leading(rows, k)) /\ Cardinality(Leading(rows, k)) \in Nat
  BY <1>1, <1>2, FS_Subset, FS_CardinalityType
<1> QED  BY <1>1, <1>2, <1>3, <1>4, <1>5

\* Fewer than were asked for are all there are.
LEMMA FewLead ==
    ASSUME HistoryTypes, NEW rows \in SUBSET Entry, NEW k \in Nat,
           Cardinality(Leading(rows, k)) < k
    PROVE  Leading(rows, k) = rows
<1> DEFINE missing == rows \ Leading(rows, k)
<1>1. SUFFICES ASSUME missing # {}  PROVE FALSE
  BY DEF Leading
<1>2. PICK x \in missing : \A y \in missing : ~Newer(y, x)
  <2>1. missing \in SUBSET Entry
    OBVIOUS
  <2> HIDE DEF missing
  <2> QED  BY <1>1, <2>1, FirstOfSome
<1>3. {f \in rows : Newer(f, x)} = Leading(rows, k)
  <2>1. \A f \in rows : Newer(f, x) => f \in Leading(rows, k)
    BY <1>2
  <2>2. ASSUME NEW f \in Leading(rows, k)  PROVE f \in rows /\ Newer(f, x)
    <3>1. f \in rows /\ x \in rows /\ f \in Entry /\ x \in Entry
      BY LeadingRows
    <3>2. x \notin Leading(rows, k) /\ f # x
      BY <1>2
    <3>3. ~Newer(x, f)
      BY <3>1, <3>2, LeadingRows
    <3> QED  BY <3>1, <3>2, <3>3, NewerIsAnOrder
  <2> QED  BY <2>1, <2>2
<1> QED  BY <1>2, <1>3 DEF Leading

LEMMA AllLead ==
    ASSUME HistoryTypes, NEW rows \in SUBSET Entry, NEW k \in Nat, Cardinality(rows) <= k
    PROVE  Leading(rows, k) = rows
<1>1. IsFiniteSet(rows)
  BY HistoryAssumption, FS_Subset
<1>2. SUFFICES ASSUME NEW e \in rows
               PROVE  Cardinality({f \in rows : Newer(f, e)}) < k
  BY DEF Leading
<1>3. {f \in rows : Newer(f, e)} \subseteq rows /\ {f \in rows : Newer(f, e)} # rows
  BY NewerIsAnOrder
<1>4. /\ Cardinality({f \in rows : Newer(f, e)}) < Cardinality(rows)
      /\ Cardinality({f \in rows : Newer(f, e)}) \in Nat /\ Cardinality(rows) \in Nat
  BY <1>1, <1>3, FS_Subset, FS_CardinalityType
<1> QED  BY <1>4

\* Rows in order are a list of them.
LEMMA ListedInOrder ==
    ASSUME HistoryTypes, NEW rows \in SUBSET Entry, NEW items \in InOrder(rows)
    PROVE  /\ items \in Seq(Entry) /\ Len(items) = Cardinality(rows)
           /\ Len(items) \in Nat /\ DOMAIN items = 1 .. Len(items)
           /\ Range(items) = rows
           /\ \A i, j \in DOMAIN items : i < j => Newer(items[i], items[j])
<1>1. Cardinality(rows) \in Nat
  BY HistoryAssumption, FS_Subset, FS_CardinalityType
<1>2. /\ items \in [1 .. Cardinality(rows) -> rows]
      /\ \A e \in rows : \E i \in 1 .. Cardinality(rows) : items[i] = e
      /\ \A i, j \in DOMAIN items : i < j => Newer(items[i], items[j])
  BY DEF InOrder, Bijection, Injection, Surjection
<1>3. items \in [1 .. Cardinality(rows) -> Entry] /\ items \in Seq(Entry)
  BY <1>1, <1>2
<1>4. Len(items) \in Nat /\ DOMAIN items = 1 .. Len(items)
  BY <1>3, LenProperties
<1>5. Len(items) = Cardinality(rows)
  BY <1>1, <1>2, <1>4
<1>6. Range(items) = rows
  BY <1>2 DEF Range
<1> QED  BY <1>2, <1>3, <1>4, <1>5, <1>6

\* No more than were asked for.
LEMMA NotTooMany ==
    ASSUME HistoryTypes, NEW rows \in SUBSET Entry, NEW k \in Nat,
           NEW items \in InOrder(Leading(rows, k))
    PROVE  /\ Cardinality(Leading(rows, k)) <= k
           /\ Leading(rows, k) # {} =>
                 /\ items # <<>> /\ Last(items) \in Leading(rows, k)
                 /\ \A e \in Leading(rows, k) : e = Last(items) \/ Newer(e, Last(items))
<1> DEFINE L == Leading(rows, k)
           n == Cardinality(L)
<1>1. /\ L \subseteq rows /\ L \in SUBSET Entry
      /\ IsFiniteSet(rows) /\ IsFiniteSet(L) /\ n \in Nat
  BY LeadingRows
<1>2. /\ items \in Seq(Entry) /\ Len(items) = n /\ DOMAIN items = 1 .. n
      /\ Range(items) = L
      /\ \A i, j \in DOMAIN items : i < j => Newer(items[i], items[j])
  <2> HIDE DEF L
  <2>1. items \in InOrder(L)
    BY DEF L
  <2> QED  BY <1>1, <2>1, ListedInOrder
<1> HIDE DEF L
<1>3. CASE L = {}
  <2>1. n = 0
    BY <1>3, FS_EmptySet
  <2> QED  BY <1>3, <2>1 DEF L
<1>4. CASE L # {}
  <2>1. n # 0
    BY <1>1, <1>4, FS_EmptySet
  <2>2. n \in DOMAIN items /\ Last(items) = items[n] /\ items # <<>>
    BY <1>1, <1>2, <2>1 DEF Last
  <2>3. items[n] \in L
    BY <1>2, <2>2 DEF Range
  <2>4. ASSUME NEW e \in L  PROVE e = items[n] \/ Newer(e, items[n])
    <3>1. PICK i \in DOMAIN items : items[i] = e
      BY <1>2 DEF Range
    <3>2. i = n \/ i < n
      BY <1>2, <2>2, <3>1
    <3> QED  BY <1>2, <2>2, <3>1, <3>2
  <2>5. L \ {items[n]} \subseteq {f \in rows : Newer(f, items[n])}
    BY <1>1, <2>4
  <2>6. IsFiniteSet(L \ {items[n]}) /\ Cardinality(L \ {items[n]}) = n - 1
    BY <1>1, <2>3, FS_RemoveElement
  <2>7. IsFiniteSet({f \in rows : Newer(f, items[n])})
    BY <1>1, FS_Subset
  <2>8. /\ n - 1 <= Cardinality({f \in rows : Newer(f, items[n])})
        /\ Cardinality({f \in rows : Newer(f, items[n])}) \in Nat
    BY <2>5, <2>6, <2>7, FS_Subset, FS_CardinalityType
  <2>9. Cardinality({f \in rows : Newer(f, items[n])}) < k
    BY <2>3 DEF L, Leading
  <2>10. n <= k
    BY <1>1, <2>8, <2>9
  <2> QED  BY <2>2, <2>3, <2>4, <2>10 DEF L
<1> QED  BY <1>3, <1>4

\* A list in order holds nothing twice.
LEMMA AsManyAsListed ==
    ASSUME HistoryTypes, NEW list \in Seq(Entry),
           \A i, j \in DOMAIN list : i < j => Newer(list[i], list[j])
    PROVE  IsFiniteSet(Range(list)) /\ Cardinality(Range(list)) = Len(list)
<1>1. Len(list) \in Nat /\ DOMAIN list = 1 .. Len(list)
  BY LenProperties
<1>2. \A i \in 1 .. Len(list) : list[i] \in Entry
  BY <1>1, ElementOfSeq
<1>3. \A i, j \in 1 .. Len(list) : i # j => list[i] # list[j]
  <2> SUFFICES ASSUME NEW i \in 1 .. Len(list), NEW j \in 1 .. Len(list), i # j
               PROVE  list[i] # list[j]
    OBVIOUS
  <2>1. i < j \/ j < i
    BY <1>1
  <2> QED  BY <1>1, <1>2, <2>1, NewerIsAnOrder
<1>4. list \in [1 .. Len(list) -> Range(list)]
  BY <1>1 DEF Range
<1>5. \A e \in Range(list) : \E i \in 1 .. Len(list) : list[i] = e
  BY <1>1 DEF Range
<1>6. list \in Bijection(1 .. Len(list), Range(list))
  BY <1>1, <1>3, <1>4, <1>5 DEF Bijection, Injection, Surjection, IsInjective
<1>7. ExistsBijection(1 .. Len(list), Range(list))
  BY <1>6 DEF ExistsBijection
<1>8. IsFiniteSet(1 .. Len(list)) /\ Cardinality(1 .. Len(list)) = Len(list)
  BY <1>1, FS_Interval, SMTT(30)
<1> QED  BY <1>7, <1>8, FS_Bijection

-----------------------------------------------------------------------------
(***************************************************************************)
(* The table and the device move.                                          *)
(***************************************************************************)
\* A row that was given, or is where the walk has come to, keeps its place.
LEMMA RowsKeepTheirPlace ==
    ASSUME HistoryTypes, GivenInOrder,
           \A e \in Present : e \in Present' /\ entries'[e].at = entries[e].at,
           walk'.cursor = walk.cursor, walk'.given = walk.given, walk'.pages = walk.pages,
           walk.stage = "over" => walk'.stage = "over"
    PROVE  /\ \A a, b \in Present : Newer(a, b)' <=> Newer(a, b)
           /\ walk.cursor # 0 => walk.cursor \in Present
           /\ \A e \in Present : e \in Behind(walk.cursor)' <=> e \in Behind(walk.cursor)
           /\ GivenInOrder'
<1>1. \A a, b \in Present : Newer(a, b)' <=> Newer(a, b)
  BY DEF Newer
<1>2. walk.given \in Seq(Entry)
  BY DEF HistoryTypes, Walk
<1>3. Len(walk.given) \in Nat /\ DOMAIN walk.given = 1 .. Len(walk.given)
  BY <1>2, LenProperties
<1>4. \A i \in DOMAIN walk.given : walk.given[i] \in Present
  BY DEF GivenInOrder, Range
<1>5. walk.cursor # 0 => walk.cursor \in Present
  <2> SUFFICES ASSUME walk.cursor # 0 PROVE walk.cursor \in Present
    OBVIOUS
  <2>1. walk.given # <<>> /\ walk.cursor = walk.given[Len(walk.given)]
    BY DEF GivenInOrder, Last
  <2>2. Len(walk.given) \in DOMAIN walk.given
    BY <1>2, <1>3, <2>1, EmptySeq
  <2> QED  BY <1>4, <2>1, <2>2
<1>6. \A e \in Present : e \in Behind(walk.cursor)' <=> e \in Behind(walk.cursor)
  BY <1>1, <1>5 DEF Behind, Present
<1>7. GivenInOrder'
  BY <1>1, <1>4 DEF GivenInOrder, InProgress
<1> QED  BY <1>1, <1>5, <1>6, <1>7

\* Whatever happens to rows and device while the client waits: what has matched
\* throughout has its place still, and where it counts as quiet nothing moved.
LEMMA WalkWaits ==
    ASSUME HistoryInv, HistoryTypes', UNCHANGED walk, clock <= clock',
           \A e \in Present : e \in Present' /\ entries'[e].at = entries[e].at,
           NEW still \in BOOLEAN, Watch(still),
           still => /\ Wanted' = Wanted /\ receives' = receives
                    /\ Matching(walk.since, walk.filter)' = Matching(walk.since, walk.filter)
    PROVE  HistoryInv'
<1>1. HistoryTypes /\ GivenInOrder /\ NothingIsSkipped /\ PagesAreFull
  BY DEF HistoryInv
<1>2. /\ \A e \in Present : e \in Behind(walk.cursor)' <=> e \in Behind(walk.cursor)
      /\ GivenInOrder'
  BY <1>1, RowsKeepTheirPlace
<1>3. Wanted \subseteq Present /\ Given \subseteq Wanted
  BY DEF Wanted, Matching, StatusOf, Present, Given
<1>4. /\ InProgress' <=> InProgress
      /\ InProgress => steady' = steady \intersect Given' /\ quiet' = (quiet /\ still)
      /\ ~InProgress => steady' = steady /\ quiet' = quiet
  BY DEF Watch, InProgress, trace
<1>5. NothingIsSkipped'
  <2>1. InProgress' => \A e \in steady' : e \in Range(walk'.given) \/ e \in Behind(walk.cursor)'
    BY <1>1, <1>2, <1>3, <1>4 DEF NothingIsSkipped
  <2>2. InProgress' => steady' \subseteq Given'
    BY <1>4
  <2>3. steady' \subseteq steady
    BY <1>4
  <2>4. walk.stage \in {"swept", "counted"} => walk.since <= clock' - Days
    BY <1>1, HistoryAssumption DEF NothingIsSkipped, HistoryTypes, Walk
  <2> QED  BY <1>1, <2>1, <2>2, <2>3, <2>4 DEF NothingIsSkipped
<1>6. PagesAreFull'
  <2> SUFFICES ASSUME quiet' PROVE PagesAreFull'
    BY DEF PagesAreFull
  <2>1. quiet
    BY <1>4
  <2>2. CASE ~InProgress
    BY <1>1, <1>4, <2>1, <2>2 DEF PagesAreFull, InProgress
  <2>3. CASE InProgress
    <3>1. still
      BY <1>4, <2>3
    <3>2. /\ Wanted' = Wanted /\ receives' = receives
          /\ Matching(walk.since, walk.filter)' = Matching(walk.since, walk.filter)
      BY <3>1
    <3>3. Wanted' \intersect Behind(walk.cursor)' = Wanted \intersect Behind(walk.cursor)
      BY <1>2, <1>3, <3>2
    <3>4. \A e \in Wanted' : e \in Behind(walk.cursor)' <=> e \in Behind(walk.cursor)
      BY <1>2, <1>3, <3>2
    <3> QED  BY <1>1, <1>4, <2>1, <2>3, <3>2, <3>3, <3>4 DEF PagesAreFull, InProgress
  <2> QED  BY <2>2, <2>3
<1> QED  BY <1>2, <1>5, <1>6 DEF HistoryInv

LEMMA RecordStep ==
    ASSUME HistoryInv, NEW e \in Entry, NEW outcome \in {"active", "acknowledged"},
           Record(e, outcome)
    PROVE  HistoryInv'
<1>1. /\ entries[e] = Absent
      /\ entries' = [entries EXCEPT ![e] = [at |-> clock, status |-> outcome]]
      /\ UNCHANGED <<clock, guest, receives, walk>>
      /\ Watch(FALSE)
  BY DEF Record
<1>2. HistoryTypes /\ clock \in Nat
  BY HistoryAssumption DEF HistoryInv, HistoryTypes
<1>3. /\ entries'[e] = [at |-> clock, status |-> outcome]
      /\ \A f \in Entry : f # e => entries'[f] = entries[f]
  BY <1>1, <1>2 DEF HistoryTypes
<1>4. \A f \in Present : f \in Present' /\ entries'[f].at = entries[f].at
  BY <1>1, <1>3 DEF Present
<1>5. HistoryTypes'
  <2>1. entries' \in [Entry -> [at : Nat, status : Statuses \union {"none"}]]
    BY <1>1, <1>2 DEF HistoryTypes, Statuses
  <2>2. \A f \in Present' : entries'[f].at <= clock' /\ entries'[f].status \in Statuses
    BY <1>1, <1>2, <1>3 DEF HistoryTypes, Present, Statuses
  <2>3. steady' \subseteq Entry /\ quiet' \in BOOLEAN
    BY <1>1, <1>2 DEF Watch, trace, HistoryTypes
  <2> QED  BY <1>1, <1>2, <2>1, <2>2, <2>3 DEF HistoryTypes
<1>6. UNCHANGED walk /\ clock <= clock' /\ FALSE \in BOOLEAN
  BY <1>1, <1>2
<1> QED  BY <1>1, <1>4, <1>5, <1>6, WalkWaits

LEMMA AlterStep ==
    ASSUME HistoryInv, NEW e \in Entry, NEW outcome \in {"active", "overdue", "acknowledged"},
           Alter(e, outcome)
    PROVE  HistoryInv'
<1>1. /\ Becomes(entries[e].status, outcome)
      /\ entries' = [entries EXCEPT ![e].status = outcome]
      /\ UNCHANGED <<clock, guest, receives, walk>>
      /\ Watch(FALSE)
  BY DEF Alter
<1>2. HistoryTypes /\ clock \in Nat
  BY HistoryAssumption DEF HistoryInv, HistoryTypes
<1>3. /\ entries'[e] = [entries[e] EXCEPT !.status = outcome]
      /\ entries'[e].at = entries[e].at /\ entries'[e].status = outcome
      /\ \A f \in Entry : f # e => entries'[f] = entries[f]
  BY <1>1, <1>2 DEF HistoryTypes
<1>4. entries'[e] # Absent /\ entries[e] # Absent
  BY <1>1, <1>3 DEF Absent, Becomes
<1>5. \A f \in Present : f \in Present' /\ entries'[f].at = entries[f].at
  BY <1>3, <1>4 DEF Present
<1>6. HistoryTypes'
  <2>1. entries' \in [Entry -> [at : Nat, status : Statuses \union {"none"}]]
    BY <1>1, <1>2 DEF HistoryTypes, Statuses
  <2>2. \A f \in Present' : entries'[f].at <= clock' /\ entries'[f].status \in Statuses
    BY <1>1, <1>2, <1>3, <1>4 DEF HistoryTypes, Present, Statuses
  <2>3. steady' \subseteq Entry /\ quiet' \in BOOLEAN
    BY <1>1, <1>2 DEF Watch, trace, HistoryTypes
  <2> QED  BY <1>1, <1>2, <2>1, <2>2, <2>3 DEF HistoryTypes
<1>7. UNCHANGED walk /\ clock <= clock' /\ FALSE \in BOOLEAN
  BY <1>1, <1>2
<1> QED  BY <1>1, <1>5, <1>6, <1>7, WalkWaits

LEMMA AlterDeviceStep ==
    ASSUME HistoryInv, AlterDevice
    PROVE  HistoryInv'
<1>1. UNCHANGED <<clock, entries, walk>> /\ Watch(FALSE)
  BY DEF AlterDevice
<1>2. guest' \in BOOLEAN /\ receives' \in BOOLEAN
  BY DEF AlterDevice, HistoryInv, HistoryTypes
<1>3. HistoryTypes /\ clock \in Nat
  BY HistoryAssumption DEF HistoryInv, HistoryTypes
<1>4. HistoryTypes'
  <2>1. steady' \subseteq Entry /\ quiet' \in BOOLEAN
    BY <1>1, <1>3 DEF Watch, trace, HistoryTypes
  <2> QED  BY <1>1, <1>2, <1>3, <2>1 DEF HistoryTypes, Present
<1>5. \A f \in Present : f \in Present' /\ entries'[f].at = entries[f].at
  BY <1>1 DEF Present
<1>6. UNCHANGED walk /\ clock <= clock' /\ FALSE \in BOOLEAN
  BY <1>1, <1>3
<1> QED  BY <1>1, <1>4, <1>5, <1>6, WalkWaits

\* Time makes rows too old; what was counted from a fixed time on stays.
LEMMA PassStep ==
    ASSUME HistoryInv, Pass
    PROVE  HistoryInv'
<1>1. /\ clock < MaxClock /\ clock' = clock + 1
      /\ UNCHANGED <<entries, guest, receives, walk>>
      /\ Watch(Wanted' = Wanted)
  BY DEF Pass, board
<1>2. HistoryTypes /\ clock \in Nat /\ MaxClock \in Nat
  BY HistoryAssumption DEF HistoryInv, HistoryTypes
<1>3. HistoryTypes'
  <2>1. clock' \in 0 .. MaxClock
    BY <1>1, <1>2
  <2>2. \A f \in Present' : entries'[f].at <= clock' /\ entries'[f].status \in Statuses
    BY <1>1, <1>2 DEF Present, HistoryTypes
  <2>3. steady' \subseteq Entry /\ quiet' \in BOOLEAN
    BY <1>1, <1>2 DEF Watch, trace, HistoryTypes
  <2> QED  BY <1>1, <1>2, <2>1, <2>2, <2>3 DEF HistoryTypes
<1>4. \A f \in Present : f \in Present' /\ entries'[f].at = entries[f].at
  BY <1>1 DEF Present
<1>5. Matching(walk.since, walk.filter)' = Matching(walk.since, walk.filter)
  BY <1>1 DEF Matching, StatusOf
<1>6. clock <= clock' /\ (Wanted' = Wanted) \in BOOLEAN
  BY <1>1, <1>2
<1> QED  BY <1>1, <1>3, <1>4, <1>5, <1>6, WalkWaits

-----------------------------------------------------------------------------
(***************************************************************************)
(* The walk goes on.                                                       *)
(***************************************************************************)
\* What does not depend on the walk, when only the walk moves.
LEMMA RowsStay ==
    ASSUME UNCHANGED <<clock, entries, guest, receives>>
    PROVE  /\ Present' = Present
           /\ \A a, b : Newer(a, b)' <=> Newer(a, b)
           /\ walk'.cursor = walk.cursor => Behind(walk.cursor)' = Behind(walk.cursor)
           /\ walk'.filter = walk.filter => Wanted' = Wanted /\ Given' = Given
           /\ walk'.filter = walk.filter /\ walk'.since = walk.since =>
                 Matching(walk.since, walk.filter)' = Matching(walk.since, walk.filter)
BY DEF Present, Newer, Behind, Given, Wanted, Matching, StatusOf

\* A step inside an answer, that gives nothing yet, or begins the answer again.
LEMMA AnswerGoesOn ==
    ASSUME HistoryInv, UNCHANGED <<clock, entries, guest, receives, steady, quiet>>,
           walk' \in Walk, InProgress, InProgress',
           walk'.filter = walk.filter, walk'.size = walk.size, walk'.since = walk.since,
           walk'.cursor = walk.cursor, walk'.given = walk.given, walk'.pages = walk.pages,
           walk'.stage = "authenticated" /\ ~walk'.enabled => steady = {},
           walk'.stage \in {"swept", "counted"} =>
              walk.stage \in {"swept", "counted"} /\ walk'.enabled = walk.enabled,
           walk'.stage # "open" =>
              walk'.enabled = receives \/ (walk.stage # "open" /\ walk'.enabled = walk.enabled),
           quiet /\ walk'.stage = "counted" => walk'.total = Cardinality(Wanted)
    PROVE  HistoryInv'
<1>1. HistoryTypes /\ GivenInOrder /\ NothingIsSkipped /\ PagesAreFull
  BY DEF HistoryInv
<1>2. /\ Present' = Present
      /\ \A a, b : Newer(a, b)' <=> Newer(a, b)
      /\ Behind(walk.cursor)' = Behind(walk.cursor)
      /\ Wanted' = Wanted /\ Given' = Given
      /\ Matching(walk.since, walk.filter)' = Matching(walk.since, walk.filter)
  BY RowsStay
<1>3. HistoryTypes'
  BY <1>1, <1>2 DEF HistoryTypes, InProgress
<1>4. GivenInOrder'
  BY <1>1, <1>2 DEF GivenInOrder
<1>5. walk'.stage # "over" /\ walk.stage # "over"
  BY DEF InProgress
<1>6. NothingIsSkipped'
  BY <1>1, <1>2, <1>5 DEF NothingIsSkipped
<1>7. PagesAreFull'
  <2> SUFFICES ASSUME quiet PROVE PagesAreFull'
    BY DEF PagesAreFull
  <2>1. walk'.stage # "open" => walk'.enabled = receives
    BY <1>1 DEF PagesAreFull
  <2> QED  BY <1>1, <1>2, <1>5, <2>1 DEF PagesAreFull
<1> QED  BY <1>3, <1>4, <1>6, <1>7 DEF HistoryInv

LEMMA AuthenticateStep ==
    ASSUME HistoryInv, Authenticate
    PROVE  HistoryInv'
<1>1. /\ UNCHANGED <<clock, entries, guest, receives, steady, quiet>>
      /\ walk.stage = "open"
      /\ walk' = [walk EXCEPT !.stage = "authenticated", !.enabled = receives]
  BY DEF Authenticate, board, trace
<1>2. walk \in Walk /\ receives \in BOOLEAN
  BY DEF HistoryInv, HistoryTypes
<1>3. /\ walk'.stage = "authenticated" /\ walk'.enabled = receives
      /\ walk'.filter = walk.filter /\ walk'.size = walk.size /\ walk'.since = walk.since
      /\ walk'.cursor = walk.cursor /\ walk'.given = walk.given /\ walk'.pages = walk.pages
      /\ walk' \in Walk
  BY <1>1, <1>2 DEF Walk, Stages
<1>4. ~receives => steady = {}
  BY <1>1 DEF HistoryInv, NothingIsSkipped, Given, InProgress
<1> QED  BY <1>1, <1>3, <1>4, AnswerGoesOn DEF InProgress

LEMMA TotalStep ==
    ASSUME HistoryInv, Total
    PROVE  HistoryInv'
<1> DEFINE total == Cardinality(Matching(walk.since, walk.filter))
<1>1. /\ UNCHANGED <<clock, entries, guest, receives, steady, quiet>>
      /\ walk.stage = "swept"
      /\ walk' = [walk EXCEPT !.stage = "counted", !.total = total]
  BY DEF Total, board, trace
<1>2. walk \in Walk /\ total \in Nat
  <2>1. Matching(walk.since, walk.filter) \subseteq Entry
    BY DEF Matching
  <2> QED  BY <2>1, HistoryAssumption, FS_Subset, FS_CardinalityType DEF HistoryInv, HistoryTypes
<1>3. quiet => total = Cardinality(Wanted)
  BY <1>1 DEF HistoryInv, PagesAreFull
<1> HIDE DEF total
<1>4. /\ walk'.stage = "counted" /\ walk'.enabled = walk.enabled /\ walk'.total = total
      /\ walk'.filter = walk.filter /\ walk'.size = walk.size /\ walk'.since = walk.since
      /\ walk'.cursor = walk.cursor /\ walk'.given = walk.given /\ walk'.pages = walk.pages
      /\ walk' \in Walk
  BY <1>1, <1>2 DEF Walk, Stages
<1> QED  BY <1>1, <1>3, <1>4, AnswerGoesOn DEF InProgress

LEMMA AskAgainStep ==
    ASSUME HistoryInv, AskAgain
    PROVE  HistoryInv'
<1>1. /\ UNCHANGED <<clock, entries, guest, receives, steady, quiet>>
      /\ walk.stage \in {"authenticated", "swept", "counted"}
      /\ walk' = [walk EXCEPT !.stage = "open"]
  BY DEF AskAgain, board, trace
<1>2. walk \in Walk
  BY DEF HistoryInv, HistoryTypes
<1>3. /\ walk'.stage = "open"
      /\ walk'.filter = walk.filter /\ walk'.size = walk.size /\ walk'.since = walk.since
      /\ walk'.cursor = walk.cursor /\ walk'.given = walk.given /\ walk'.pages = walk.pages
      /\ walk' \in Walk
  BY <1>1, <1>2 DEF Walk, Stages
<1> QED  BY <1>1, <1>3, AnswerGoesOn DEF InProgress

LEMMA OpenStep ==
    ASSUME HistoryInv, NEW filter \in Filters, NEW size \in PageSizes, Open(filter, size)
    PROVE  HistoryInv'
<1>1. /\ UNCHANGED <<clock, entries, guest, receives>>
      /\ walk.stage = "closed"
      /\ walk' = [AtRest EXCEPT !.stage = "open", !.filter = filter, !.size = size]
      /\ steady' = Given' /\ quiet' = TRUE
  BY DEF Open, board
<1>2. HistoryTypes /\ size \in Nat /\ clock \in Nat
  BY HistoryAssumption DEF HistoryInv, HistoryTypes
<1>3. /\ walk'.stage = "open" /\ walk'.filter = filter /\ walk'.size = size
      /\ walk'.cursor = 0 /\ walk'.given = <<>> /\ walk'.pages = 0
      /\ walk' \in Walk
  <2>1. walk' = [stage |-> "open", filter |-> filter, size |-> size, cursor |-> 0,
                 since |-> 0, enabled |-> FALSE, total |-> 0, pages |-> 0, given |-> <<>>]
    BY <1>1 DEF AtRest
  <2>2. walk' \in Walk
    BY <1>2, <2>1 DEF Walk, Stages
  <2> QED  BY <2>1, <2>2
<1>4. Given' \subseteq Wanted' /\ Wanted' \subseteq Entry
  BY DEF Given, Wanted, Matching, StatusOf
<1>5. Range(walk'.given) = {} /\ Len(walk'.given) = 0 /\ DOMAIN walk'.given = {}
  BY <1>3 DEF Range
<1>6. Behind(walk.cursor)' = Entry
  BY <1>3 DEF Behind
<1>7. HistoryTypes'
  BY <1>1, <1>2, <1>3, <1>4 DEF HistoryTypes, Present
<1>8. GivenInOrder'
  BY <1>3, <1>5 DEF GivenInOrder
<1>9. NothingIsSkipped'
  BY <1>1, <1>3, <1>4, <1>6 DEF NothingIsSkipped
<1>10. PagesAreFull'
  BY <1>2, <1>3, <1>4, <1>5, <1>6 DEF PagesAreFull
<1> QED  BY <1>7, <1>8, <1>9, <1>10 DEF HistoryInv

-----------------------------------------------------------------------------
(***************************************************************************)
(* The answers.                                                            *)
(***************************************************************************)
\* The larger of one and a number.
LEMMA AtLeastOne ==
    ASSUME NEW n \in Nat
    PROVE  Max({1, n}) = IF n = 0 THEN 1 ELSE n
<1> DEFINE m == IF n = 0 THEN 1 ELSE n
<1>1. m \in {1, n} /\ \A y \in {1, n} : m >= y
  OBVIOUS
<1>2. \A x \in {1, n} : (\A y \in {1, n} : x >= y) => x = m
  OBVIOUS
<1> QED  BY <1>1, <1>2 DEF Max

\* No row takes a page still.
LEMMA OnePageAtLeast ==
    ASSUME NEW size \in Nat \ {0}
    PROVE  Max({1, Ceiling(0, size)}) = 1
<1>1. (0 + size - 1) \div size = 0
  OBVIOUS
<1> QED  BY <1>1, AtLeastOne DEF Ceiling

\* Full pages and a last one that holds something are as many as the rows take.
LEMMA PagesTaken ==
    ASSUME NEW full \in Nat, NEW size \in Nat \ {0}, NEW rest \in 1 .. size
    PROVE  Max({1, Ceiling(full * size + rest, size)}) = full + 1
<1> DEFINE whole == full * size
<1>1. whole \in Nat /\ whole = size * full
  OBVIOUS
<1>2. (whole + rest + size - 1) = size * (full + 1) + (rest - 1)
  BY <1>1
<1>3. rest - 1 \in 0 .. size - 1
  OBVIOUS
<1>4. (size * (full + 1) + (rest - 1)) \div size = full + 1
  BY <1>3
<1>5. Ceiling(whole + rest, size) = full + 1
  BY <1>2, <1>4 DEF Ceiling
<1> HIDE DEF whole
<1> QED  BY <1>5, AtLeastOne DEF whole

\* Who receives nothing is given nothing, and nothing was to be given.
LEMMA AnswerNothingStep ==
    ASSUME HistoryInv, AnswerNothing
    PROVE  HistoryInv'
<1> DEFINE pages == walk.pages + 1
<1>1. /\ UNCHANGED <<clock, entries, guest, receives, steady, quiet>>
      /\ walk.stage = "authenticated" /\ ~walk.enabled
      /\ walk' = [walk EXCEPT !.stage = "over", !.total = 0, !.pages = pages]
  BY DEF AnswerNothing, board, trace
<1>2. /\ HistoryTypes /\ GivenInOrder /\ NothingIsSkipped /\ PagesAreFull
      /\ walk \in Walk /\ walk.size \in Nat \ {0}
  BY <1>1, HistoryAssumption DEF HistoryInv, HistoryTypes
<1>3. /\ walk'.stage = "over" /\ walk'.total = 0 /\ walk'.pages = pages
      /\ walk'.size = walk.size /\ walk'.cursor = walk.cursor /\ walk'.given = walk.given
      /\ walk' \in Walk
  <2>1. pages \in Nat
    BY <1>2 DEF Walk
  <2> HIDE DEF pages
  <2> QED  BY <1>1, <1>2, <2>1 DEF Walk, Stages
<1>4. Present' = Present /\ \A a, b : Newer(a, b)' <=> Newer(a, b)
  BY <1>1, RowsStay
<1>5. HistoryTypes'
  BY <1>1, <1>2, <1>3, <1>4 DEF HistoryTypes
<1>6. GivenInOrder'
  BY <1>2, <1>3, <1>4 DEF GivenInOrder, InProgress
<1>7. NothingIsSkipped'
  BY <1>1, <1>2, <1>3 DEF NothingIsSkipped, InProgress
<1>8. PagesAreFull'
  <2> SUFFICES ASSUME quiet PROVE PagesAreFull'
    BY <1>1 DEF PagesAreFull
  <2>1. ~receives /\ walk.given = <<>>
    BY <1>1, <1>2 DEF PagesAreFull, InProgress
  <2>2. walk.pages = 0
    BY <1>1, <1>2, <2>1 DEF GivenInOrder, InProgress
  <2>3. Len(walk.given) = 0
    BY <2>1
  <2>4. Max({1, Ceiling(0, walk.size)}) = 1
    BY <1>2, OnePageAtLeast
  <2> QED  BY <1>3, <2>2, <2>3, <2>4 DEF PagesAreFull, InProgress
<1> QED  BY <1>5, <1>6, <1>7, <1>8 DEF HistoryInv

\* What is due expires: that may take rows out of what is asked for.
LEMMA SweepStep ==
    ASSUME HistoryInv, Sweep
    PROVE  HistoryInv'
<1> DEFINE since == clock - Days
<1>1. /\ UNCHANGED <<clock, guest, receives>>
      /\ walk.stage = "authenticated" /\ walk.enabled
      /\ walk' = [walk EXCEPT !.stage = "swept", !.since = since]
      /\ entries' = [e \in Entry |-> IF entries[e].status = "overdue"
                                     THEN [entries[e] EXCEPT !.status = "expired"]
                                     ELSE entries[e]]
      /\ Watch(Wanted' = Wanted)
  BY DEF Sweep
<1>2. /\ HistoryTypes /\ GivenInOrder /\ NothingIsSkipped /\ PagesAreFull
      /\ walk \in Walk /\ clock \in Nat /\ Days \in Nat
  BY HistoryAssumption DEF HistoryInv, HistoryTypes
<1>3. /\ walk'.stage = "swept" /\ walk'.since = since /\ walk'.enabled = walk.enabled
      /\ walk'.size = walk.size /\ walk'.filter = walk.filter
      /\ walk'.cursor = walk.cursor /\ walk'.given = walk.given /\ walk'.pages = walk.pages
      /\ walk' \in Walk
  <2>1. since \in Int
    BY <1>2
  <2> HIDE DEF since
  <2> QED  BY <1>1, <1>2, <2>1 DEF Walk, Stages
<1>4. \A e \in Entry :
         /\ entries'[e].at = entries[e].at
         /\ entries'[e].status = IF entries[e].status = "overdue" THEN "expired"
                                 ELSE entries[e].status
         /\ entries'[e] \in [at : Nat, status : Statuses \union {"none"}]
  BY <1>1, <1>2 DEF HistoryTypes, Statuses
<1>5. \A e \in Entry : e \in Present' <=> e \in Present
  BY <1>1, <1>2 DEF Present, Absent, HistoryTypes
<1>6. \A e \in Present : e \in Present' /\ entries'[e].at = entries[e].at
  BY <1>4, <1>5 DEF Present
<1>7. /\ InProgress /\ InProgress'
      /\ steady' = steady \intersect Given' /\ quiet' = (quiet /\ Wanted' = Wanted)
  BY <1>1, <1>3 DEF Watch, InProgress
<1>8. HistoryTypes'
  <2>1. entries' \in [Entry -> [at : Nat, status : Statuses \union {"none"}]]
    BY <1>1, <1>4
  <2>2. \A e \in Present' : entries'[e].at <= clock' /\ entries'[e].status \in Statuses
    <3> SUFFICES ASSUME NEW e \in Present'
                 PROVE  entries'[e].at <= clock' /\ entries'[e].status \in Statuses
      OBVIOUS
    <3>1. e \in Entry /\ e \in Present
      BY <1>5 DEF Present
    <3>2. entries[e].at <= clock /\ entries[e].status \in Statuses
      BY <1>2, <3>1 DEF HistoryTypes
    <3> QED  BY <1>1, <1>4, <3>1, <3>2 DEF Statuses
  <2>3. steady' \subseteq Entry /\ quiet' \in BOOLEAN
    BY <1>2, <1>7 DEF HistoryTypes
  <2> QED  BY <1>1, <1>2, <1>3, <2>1, <2>2, <2>3 DEF HistoryTypes
<1>9. /\ \A e \in Present : e \in Behind(walk.cursor)' <=> e \in Behind(walk.cursor)
      /\ GivenInOrder'
  BY <1>1, <1>2, <1>3, <1>6, RowsKeepTheirPlace
<1>10. Wanted \subseteq Present /\ Given \subseteq Wanted
  BY DEF Wanted, Matching, StatusOf, Present, Given
<1>11. NothingIsSkipped'
  <2>1. \A e \in steady' : e \in Range(walk'.given) \/ e \in Behind(walk.cursor)'
    BY <1>2, <1>3, <1>7, <1>9, <1>10 DEF NothingIsSkipped
  <2> QED  BY <1>1, <1>2, <1>3, <1>7, <2>1 DEF NothingIsSkipped
<1>12. PagesAreFull'
  <2> SUFFICES ASSUME quiet' PROVE PagesAreFull'
    BY DEF PagesAreFull
  <2>1. quiet /\ Wanted' = Wanted
    BY <1>7
  <2>2. Wanted' \intersect Behind(walk.cursor)' = Wanted \intersect Behind(walk.cursor)
    BY <1>9, <1>10, <2>1
  <2>3. \A e \in Wanted' : e \in Behind(walk.cursor)' <=> e \in Behind(walk.cursor)
    BY <1>9, <1>10, <2>1
  <2>4. Matching(walk.since, walk.filter)' = Wanted'
    BY <1>1, <1>3 DEF Wanted, Matching, StatusOf
  <2> QED  BY <1>1, <1>2, <1>3, <1>7, <2>1, <2>2, <2>3, <2>4 DEF PagesAreFull
<1> QED  BY <1>8, <1>9, <1>11, <1>12 DEF HistoryInv

\* One list in order after another, of which nothing is newer.
LEMMA ListsJoin ==
    ASSUME NEW first \in Seq(Entry), NEW second \in Seq(Entry),
           \A i, j \in DOMAIN first : i < j => Newer(first[i], first[j]),
           \A i, j \in DOMAIN second : i < j => Newer(second[i], second[j]),
           \A a \in Range(first), b \in Range(second) : Newer(a, b)
    PROVE  /\ first \o second \in Seq(Entry)
           /\ Len(first \o second) = Len(first) + Len(second)
           /\ Range(first \o second) = Range(first) \union Range(second)
           /\ \A i, j \in DOMAIN (first \o second) :
                 i < j => Newer((first \o second)[i], (first \o second)[j])
           /\ second # <<>> => /\ first \o second # <<>>
                               /\ Last(first \o second) = Last(second)
<1> DEFINE both == first \o second
           m == Len(first)
           n == Len(second)
<1>1. /\ both \in Seq(Entry) /\ Len(both) = m + n
      /\ \A i \in 1 .. m : both[i] = first[i]
      /\ \A i \in m + 1 .. m + n : both[i] = second[i - m]
  BY ConcatProperties
<1>2. /\ m \in Nat /\ n \in Nat
      /\ DOMAIN first = 1 .. m /\ DOMAIN second = 1 .. n /\ DOMAIN both = 1 .. m + n
  BY <1>1, LenProperties
<1>3. \A i \in DOMAIN both :
         \/ i \in DOMAIN first /\ both[i] = first[i]
         \/ i > m /\ i - m \in DOMAIN second /\ both[i] = second[i - m]
  BY <1>1, <1>2
<1>4. n # 0 <=> second # <<>>
  BY EmptySeq
<1> HIDE DEF both
<1>5. Range(both) = Range(first) \union Range(second)
  <2>1. Range(both) \subseteq Range(first) \union Range(second)
    BY <1>3 DEF Range
  <2>2. Range(first) \subseteq Range(both)
    BY <1>1, <1>2 DEF Range
  <2>3. ASSUME NEW j \in DOMAIN second  PROVE second[j] \in Range(both)
    <3>1. m + j \in DOMAIN both /\ m + j \in m + 1 .. m + n /\ (m + j) - m = j
      BY <1>2
    <3>2. both[m + j] = second[j]
      BY <1>1, <3>1
    <3> QED  BY <3>1, <3>2 DEF Range
  <2>4. Range(second) \subseteq Range(both)
    BY <2>3 DEF Range
  <2> QED  BY <2>1, <2>2, <2>4
<1>6. ASSUME NEW i \in DOMAIN both, NEW j \in DOMAIN both, i < j
      PROVE  Newer(both[i], both[j])
  <2>1. CASE i \in DOMAIN first /\ j \in DOMAIN first
    BY <1>1, <1>2, <1>6, <2>1
  <2>2. CASE i \in DOMAIN first /\ j > m
    <3>1. j - m \in DOMAIN second /\ both[j] = second[j - m] /\ both[i] = first[i]
      BY <1>1, <1>2, <1>3, <2>2
    <3> QED  BY <2>2, <3>1 DEF Range
  <2>3. CASE i > m
    <3>1. /\ i - m \in DOMAIN second /\ both[i] = second[i - m]
          /\ j - m \in DOMAIN second /\ both[j] = second[j - m] /\ i - m < j - m
      BY <1>2, <1>3, <1>6, <2>3
    <3> QED  BY <3>1
  <2> QED  BY <1>2, <2>1, <2>2, <2>3
<1>7. second # <<>> => both # <<>> /\ Last(both) = Last(second)
  <2> SUFFICES ASSUME second # <<>> PROVE both # <<>> /\ Last(both) = Last(second)
    OBVIOUS
  <2>1. n >= 1 /\ m + n \in m + 1 .. m + n /\ (m + n) - m = n
    BY <1>2, <1>4
  <2>2. both[m + n] = second[n]
    BY <1>1, <2>1
  <2>3. both # <<>>
    BY <1>1, <1>2, <2>1, EmptySeq
  <2> QED  BY <1>1, <2>2, <2>3 DEF Last
<1> QED  BY <1>1, <1>5, <1>6, <1>7 DEF both

\* What the next page goes on with.
Ahead == Matching(walk.since, walk.filter) \intersect Behind(walk.cursor)

\* The page holds the first of the rest, in order, after what was given.
LEMMA PageGoesOn ==
    ASSUME HistoryInv, walk.stage = "counted",
           NEW items \in InOrder(Leading(PageRows, walk.size))
    PROVE  /\ items \in Seq(Entry) /\ Len(items) \in 0 .. walk.size
           /\ Len(items) = Cardinality(Leading(PageRows, walk.size))
           /\ Range(items) = Leading(PageRows, walk.size)
           /\ Ahead \subseteq Present /\ PageRows \subseteq Ahead /\ Range(items) \subseteq PageRows
           /\ walk.given \o items \in Seq(Entry)
           /\ Len(walk.given \o items) = Len(walk.given) + Len(items)
           /\ Range(walk.given \o items) = Range(walk.given) \union Range(items)
           /\ \A i, j \in DOMAIN (walk.given \o items) :
                 i < j => Newer((walk.given \o items)[i], (walk.given \o items)[j])
           /\ \A e \in Ahead, f \in Range(items) : Newer(e, f) => e \in Range(items)
           /\ Range(items) # {} =>
                 /\ items # <<>> /\ Last(items) \in Range(items)
                 /\ walk.given \o items # <<>> /\ Last(walk.given \o items) = Last(items)
           /\ steady \subseteq Range(walk.given) \union Ahead
           /\ quiet => Wanted = Range(walk.given) \union Ahead
<1>1. /\ HistoryTypes /\ GivenInOrder /\ NothingIsSkipped /\ PagesAreFull
      /\ walk.size \in Nat \ {0} /\ walk.given \in Seq(Entry) /\ InProgress
      /\ walk.cursor \in Entry \union {0}
  BY HistoryAssumption DEF HistoryInv, HistoryTypes, Walk, InProgress
<1>2. Ahead \subseteq Present /\ Ahead \in SUBSET Entry
  BY DEF Ahead, Matching, StatusOf, Present
<1>3. PageRows = Leading(Ahead, walk.size + 1) /\ walk.size + 1 \in Nat /\ walk.size \in Nat
  BY <1>1 DEF PageRows, Ahead
<1>4. /\ PageRows \subseteq Ahead /\ PageRows \in SUBSET Entry
      /\ \A e \in Ahead, f \in PageRows : Newer(e, f) => e \in PageRows
  BY <1>1, <1>2, <1>3, LeadingRows, ZenonT(40)
<1> DEFINE L == Leading(PageRows, walk.size)
<1>5. /\ L \subseteq PageRows /\ L \in SUBSET Entry /\ Cardinality(L) \in Nat
      /\ \A e \in PageRows, f \in L : Newer(e, f) => e \in L
  BY <1>1, <1>3, <1>4, LeadingRows
<1>6. /\ Cardinality(L) <= walk.size
      /\ L # {} => items # <<>> /\ Last(items) \in L
  BY <1>1, <1>3, <1>4, NotTooMany
<1> HIDE DEF L
<1>7. /\ items \in Seq(Entry) /\ Len(items) = Cardinality(L) /\ Range(items) = L
      /\ \A i, j \in DOMAIN items : i < j => Newer(items[i], items[j])
  <2>1. items \in InOrder(L)
    BY DEF L
  <2> QED  BY <1>1, <1>5, <2>1, ListedInOrder
<1>8. \A a \in Range(walk.given), b \in Range(items) : Newer(a, b)
  <2> SUFFICES ASSUME NEW a \in Range(walk.given), NEW b \in Range(items)
               PROVE  Newer(a, b)
    OBVIOUS
  <2>1. Len(walk.given) \in Nat /\ DOMAIN walk.given = 1 .. Len(walk.given)
    BY <1>1, LenProperties
  <2>2. PICK i \in 1 .. Len(walk.given) : walk.given[i] = a
    BY <2>1 DEF Range
  <2>3. Len(walk.given) \in DOMAIN walk.given /\ walk.given # <<>>
    BY <1>1, <2>1, <2>2, EmptySeq
  <2>4. walk.cursor # 0 /\ walk.cursor = walk.given[Len(walk.given)]
    BY <1>1, <2>3 DEF GivenInOrder, Last
  <2>5. a = walk.cursor \/ Newer(a, walk.cursor)
    BY <1>1, <2>1, <2>2, <2>3, <2>4 DEF GivenInOrder
  <2>6. Newer(walk.cursor, b)
    BY <1>4, <1>5, <1>7, <2>4 DEF Ahead, Behind
  <2>7. a \in Entry /\ b \in Entry /\ walk.cursor \in Entry
    BY <1>1, <1>5, <1>7, <2>4 DEF GivenInOrder, Present
  <2> QED  BY <1>1, <2>5, <2>6, <2>7, NewerIsAnOrder
<1>9. \A e \in Ahead, f \in Range(items) : Newer(e, f) => e \in Range(items)
  BY <1>4, <1>5, <1>7
<1>10. Matching(clock - Days, walk.filter) \subseteq Matching(walk.since, walk.filter)
  <2>1. walk.since <= clock - Days /\ walk.since \in Int /\ clock - Days \in Int
    BY <1>1, HistoryAssumption DEF NothingIsSkipped, HistoryTypes, Walk
  <2>2. \A e \in Entry : entries[e].at \in Nat
    BY <1>1 DEF HistoryTypes
  <2> QED  BY <2>1, <2>2 DEF Matching, StatusOf
<1>11. steady \subseteq Range(walk.given) \union Ahead
  <2>1. steady \subseteq Wanted
    BY <1>1 DEF NothingIsSkipped, Given
  <2> QED  BY <1>1, <1>10, <2>1 DEF NothingIsSkipped, Wanted, Ahead
<1>12. quiet => Wanted = Range(walk.given) \union Ahead
  BY <1>1 DEF PagesAreFull, Ahead
<1>13. /\ walk.given \o items \in Seq(Entry)
       /\ Len(walk.given \o items) = Len(walk.given) + Len(items)
       /\ Range(walk.given \o items) = Range(walk.given) \union Range(items)
       /\ \A i, j \in DOMAIN (walk.given \o items) :
             i < j => Newer((walk.given \o items)[i], (walk.given \o items)[j])
       /\ items # <<>> => /\ walk.given \o items # <<>>
                          /\ Last(walk.given \o items) = Last(items)
  BY <1>1, <1>7, <1>8, ListsJoin DEF GivenInOrder
<1>14. Len(items) \in 0 .. walk.size /\ L = Leading(PageRows, walk.size)
  BY <1>3, <1>5, <1>6, <1>7 DEF L
<1> QED  BY <1>2, <1>4, <1>5, <1>6, <1>7, <1>9, <1>11, <1>12, <1>13, <1>14

\* More follows: the page is full, and the rest begins behind its last row.
LEMMA MoreFollows ==
    ASSUME HistoryInv, walk.stage = "counted", Cardinality(PageRows) > walk.size,
           NEW items \in InOrder(Leading(PageRows, walk.size))
    PROVE  /\ Len(items) = walk.size
           /\ Last(items) \in Range(items) /\ Last(items) # 0
           /\ \A e \in Ahead : e \in Range(items) \/ Newer(Last(items), e)
           /\ \E e \in Ahead : Newer(Last(items), e)
<1>1. HistoryTypes /\ walk.size \in Nat \ {0} /\ Ahead \subseteq Present
  BY HistoryAssumption, PageGoesOn DEF HistoryInv, HistoryTypes
<1>2. /\ PageRows \in SUBSET Entry /\ PageRows \subseteq Ahead
      /\ Range(items) = Leading(PageRows, walk.size) /\ Range(items) \subseteq PageRows
      /\ Len(items) = Cardinality(Leading(PageRows, walk.size)) /\ Len(items) \in 0 .. walk.size
      /\ \A e \in Ahead, f \in Range(items) : Newer(e, f) => e \in Range(items)
      /\ Range(items) # {} => items # <<>> /\ Last(items) \in Range(items)
  BY PageGoesOn DEF Present
<1>3. Leading(PageRows, walk.size) # PageRows
  BY <1>1, <1>2
<1>4. Len(items) = walk.size
  <2>1. ~(Cardinality(Leading(PageRows, walk.size)) < walk.size)
    BY <1>1, <1>2, <1>3, FewLead
  <2> QED  BY <1>1, <1>2, <2>1
<1>5. Range(items) # {}
  BY <1>1, <1>2, <1>4, FS_EmptySet
<1>6. Last(items) \in Range(items) /\ Last(items) \in Entry /\ Last(items) # 0
  BY <1>2, <1>5, HistoryAssumption
<1>7. \A e \in Ahead : e \in Range(items) \/ Newer(Last(items), e)
  BY <1>1, <1>2, <1>6, NewerIsAnOrder DEF Present
<1>8. PICK e \in PageRows : e \notin Range(items)
  BY <1>2, <1>3
<1> QED  BY <1>2, <1>4, <1>6, <1>7, <1>8

\* Nothing follows: the page holds all of the rest.
LEMMA NothingFollows ==
    ASSUME HistoryInv, walk.stage = "counted", ~(Cardinality(PageRows) > walk.size),
           NEW items \in InOrder(Leading(PageRows, walk.size))
    PROVE  Range(items) = Ahead
<1>1. HistoryTypes /\ walk.size \in Nat \ {0} /\ Ahead \subseteq Present
  BY HistoryAssumption, PageGoesOn DEF HistoryInv, HistoryTypes
<1>2. /\ PageRows \in SUBSET Entry /\ Ahead \in SUBSET Entry
      /\ Range(items) = Leading(PageRows, walk.size)
      /\ PageRows = Leading(Ahead, walk.size + 1)
  BY <1>1, PageGoesOn DEF Present, PageRows, Ahead
<1>3. Cardinality(PageRows) \in Nat
  BY <1>1, <1>2, LeadingRows
<1>4. PageRows = Ahead
  <2>1. Cardinality(Leading(Ahead, walk.size + 1)) < walk.size + 1
    BY <1>1, <1>2, <1>3
  <2> QED  BY <1>1, <1>2, <2>1, FewLead
<1>5. Leading(PageRows, walk.size) = PageRows
  BY <1>1, <1>2, <1>3, AllLead
<1> QED  BY <1>2, <1>4, <1>5

LEMMA AnswerStep ==
    ASSUME HistoryInv, Answer
    PROVE  HistoryInv'
<1> DEFINE more == Cardinality(PageRows) > walk.size
<1>1. UNCHANGED <<clock, entries, guest, receives, steady, quiet>> /\ walk.stage = "counted"
  BY DEF Answer, board, trace
<1>2. PICK items \in InOrder(Leading(PageRows, walk.size)) :
        walk' = [walk EXCEPT !.stage = IF more THEN "open" ELSE "over",
                             !.cursor = IF more THEN Last(items) ELSE 0,
                             !.given = @ \o items,
                             !.pages = @ + 1]
  BY DEF Answer
<1> DEFINE stage == IF more THEN "open" ELSE "over"
           cursor == IF more THEN Last(items) ELSE 0
           given == walk.given \o items
           pages == walk.pages + 1
<1>3. /\ HistoryTypes /\ GivenInOrder /\ NothingIsSkipped /\ PagesAreFull
      /\ walk \in Walk /\ walk.size \in Nat \ {0} /\ walk.size \in PageSizes
      /\ walk.pages \in Nat /\ walk.given \in Seq(Entry) /\ InProgress
      /\ walk.enabled
  BY <1>1, HistoryAssumption DEF HistoryInv, HistoryTypes, NothingIsSkipped, Walk, InProgress
<1>4. /\ items \in Seq(Entry) /\ Len(items) \in 0 .. walk.size
      /\ Range(items) \subseteq Ahead /\ Ahead \subseteq Present
      /\ given \in Seq(Entry) /\ Len(given) = Len(walk.given) + Len(items)
      /\ Range(given) = Range(walk.given) \union Range(items)
      /\ \A i, j \in DOMAIN given : i < j => Newer(given[i], given[j])
      /\ Range(items) # {} => given # <<>> /\ Last(given) = Last(items)
      /\ steady \subseteq Range(walk.given) \union Ahead
      /\ quiet => Wanted = Range(walk.given) \union Ahead
  BY <1>1, PageGoesOn
<1>5. cursor \in Entry \union {0}
  BY <1>1, <1>4, MoreFollows DEF Present
<1>6. /\ walk'.stage = stage /\ walk'.cursor = cursor /\ walk'.given = given
      /\ walk'.pages = pages /\ walk'.total = walk.total /\ walk'.enabled = walk.enabled
      /\ walk'.filter = walk.filter /\ walk'.size = walk.size /\ walk'.since = walk.since
      /\ walk' \in Walk
  <2>1. stage \in Stages /\ pages \in Nat
    BY <1>3 DEF Stages
  <2>2. walk' = [walk EXCEPT !.stage = stage, !.cursor = cursor, !.given = given, !.pages = pages]
    BY <1>2
  <2> HIDE DEF stage, cursor, given, pages
  <2> QED  BY <1>3, <1>4, <1>5, <2>1, <2>2 DEF Walk
<1>7. /\ Present' = Present
      /\ \A a, b : Newer(a, b)' <=> Newer(a, b)
      /\ Wanted' = Wanted /\ Given' = Given
  BY <1>1, <1>6, RowsStay
<1>8. HistoryTypes'
  BY <1>1, <1>3, <1>6, <1>7 DEF HistoryTypes
<1>9. Range(given) \subseteq Present
  BY <1>3, <1>4 DEF GivenInOrder
<1> HIDE DEF given
<1>10. CASE more
  <2>1. /\ Len(items) = walk.size
        /\ Last(items) \in Range(items) /\ Last(items) # 0
        /\ \A e \in Ahead : e \in Range(items) \/ Newer(Last(items), e)
        /\ \E e \in Ahead : Newer(Last(items), e)
    BY <1>1, <1>10, MoreFollows
  <2>2. /\ walk'.stage = "open" /\ walk'.cursor = Last(items) /\ InProgress'
        /\ given # <<>> /\ Last(given) = Last(items)
    BY <1>4, <1>6, <1>10, <2>1 DEF InProgress
  <2>3. \A e \in Ahead : Newer(Last(items), e) => e \in Behind(walk.cursor)'
    BY <1>4, <1>7, <2>1, <2>2 DEF Behind, Present
  <2>4. GivenInOrder'
    BY <1>4, <1>6, <1>7, <1>9, <2>1, <2>2 DEF GivenInOrder
  <2>5. NothingIsSkipped'
    BY <1>1, <1>3, <1>4, <1>6, <1>7, <2>1, <2>2, <2>3 DEF NothingIsSkipped
  <2>6. PagesAreFull'
    <3> SUFFICES ASSUME quiet PROVE PagesAreFull'
      BY <1>1 DEF PagesAreFull
    <3>1. /\ Wanted = Range(walk.given) \union Ahead /\ receives
          /\ Len(walk.given) = walk.pages * walk.size
      BY <1>1, <1>3, <1>4 DEF PagesAreFull
    <3>2. Range(given) \subseteq Wanted
      BY <1>4, <3>1
    <3>3. \A e \in Wanted : e \in Range(given) \/ e \in Behind(walk.cursor)'
      BY <1>4, <2>1, <2>3, <3>1
    <3>4. Len(given) = pages * walk.size
      <4>1. (walk.pages + 1) * walk.size = walk.pages * walk.size + walk.size
        BY <1>3
      <4> QED  BY <1>4, <2>1, <3>1, <4>1
    <3>5. Wanted \intersect Behind(walk.cursor)' # {}
      BY <2>1, <2>3, <3>1
    <3> HIDE DEF pages
    <3> QED  BY <1>1, <1>6, <1>7, <2>2, <3>1, <3>2, <3>3, <3>4, <3>5 DEF PagesAreFull
  <2> QED  BY <1>8, <2>4, <2>5, <2>6 DEF HistoryInv
<1>11. CASE ~more
  <2>1. Range(items) = Ahead
    BY <1>1, <1>11, NothingFollows
  <2>2. walk'.stage = "over" /\ walk'.cursor = 0 /\ ~InProgress'
    BY <1>6, <1>11 DEF InProgress
  <2>3. GivenInOrder'
    BY <1>4, <1>6, <1>7, <1>9, <2>2 DEF GivenInOrder
  <2>4. NothingIsSkipped'
    BY <1>1, <1>4, <1>6, <2>1, <2>2 DEF NothingIsSkipped
  <2>5. PagesAreFull'
    <3> SUFFICES ASSUME quiet PROVE PagesAreFull'
      BY <1>1 DEF PagesAreFull
    <3>1. /\ Range(given) = Wanted /\ walk.total = Cardinality(Wanted)
          /\ Len(walk.given) = walk.pages * walk.size
      BY <1>1, <1>3, <1>4, <2>1 DEF PagesAreFull
    <3>2. walk.total = Len(given)
      BY <1>3, <1>4, <3>1, AsManyAsListed
    <3>3. Max({1, Ceiling(walk.total, walk.size)}) = pages
      <4>1. CASE Len(items) = 0
        <5>1. Ahead = {}
          BY <1>4, <2>1, <4>1, EmptySeq DEF Range
        <5>2. walk.cursor = 0
          <6>1. Ahead = Wanted \intersect Behind(walk.cursor)
            BY <1>1, <1>3 DEF PagesAreFull, Ahead
          <6> QED  BY <1>3, <5>1, <6>1 DEF PagesAreFull
        <5>3. walk.given = <<>> /\ walk.pages = 0
          BY <1>3, <5>2 DEF GivenInOrder
        <5>4. walk.total = 0
          BY <1>4, <3>2, <4>1, <5>3
        <5> QED  BY <1>3, <5>3, <5>4, OnePageAtLeast
      <4>2. CASE Len(items) \in 1 .. walk.size
        <5>1. walk.total = walk.pages * walk.size + Len(items)
          BY <1>4, <3>1, <3>2
        <5> QED  BY <1>3, <4>2, <5>1, PagesTaken
      <4> QED  BY <1>3, <1>4, <4>1, <4>2
    <3> HIDE DEF pages
    <3> QED  BY <1>1, <1>6, <2>2, <3>2, <3>3 DEF PagesAreFull
  <2> QED  BY <1>8, <2>3, <2>4, <2>5 DEF HistoryInv
<1> QED  BY <1>10, <1>11

-----------------------------------------------------------------------------
(***************************************************************************)
(* The walk as a whole.                                                    *)
(***************************************************************************)
LEMMA HistoryBegins == HistoryInit => HistoryInv
<1> SUFFICES ASSUME HistoryInit PROVE HistoryInv
  OBVIOUS
<1>1. walk.stage = "closed" /\ walk.cursor = 0 /\ walk.given = <<>> /\ walk.pages = 0
  BY DEF HistoryInit, AtRest
<1>2. Range(walk.given) = {} /\ DOMAIN walk.given = {}
  BY <1>1 DEF Range
<1>3. HistoryTypes
  <2>1. walk \in Walk
    BY DEF HistoryInit, AtRest, Walk, Stages
  <2>2. entries \in [Entry -> [at : Nat, status : Statuses \union {"none"}]] /\ Present = {}
    BY DEF HistoryInit, Absent, Present
  <2> QED  BY <1>1, <2>1, <2>2, HistoryAssumption DEF HistoryTypes, HistoryInit
<1>4. GivenInOrder
  BY <1>1, <1>2 DEF GivenInOrder
<1>5. NothingIsSkipped /\ PagesAreFull
  BY <1>1 DEF NothingIsSkipped, PagesAreFull, InProgress
<1> QED  BY <1>3, <1>4, <1>5 DEF HistoryInv

LEMMA HistoryKept == HistoryInv /\ [HistoryNext]_historyVars => HistoryInv'
<1> SUFFICES ASSUME HistoryInv, [HistoryNext]_historyVars PROVE HistoryInv'
  OBVIOUS
<1>1. CASE UNCHANGED historyVars
  <2>1. UNCHANGED <<clock, entries, guest, receives, walk, steady, quiet>>
    BY <1>1 DEF historyVars, board, trace
  <2>2. /\ Present' = Present
        /\ \A a, b : Newer(a, b)' <=> Newer(a, b)
        /\ Behind(walk.cursor)' = Behind(walk.cursor)
        /\ Wanted' = Wanted /\ Given' = Given
        /\ Matching(walk.since, walk.filter)' = Matching(walk.since, walk.filter)
    BY <2>1, RowsStay
  <2>3. HistoryTypes' /\ GivenInOrder'
    BY <2>1, <2>2 DEF HistoryInv, HistoryTypes, GivenInOrder, InProgress
  <2>4. NothingIsSkipped' /\ PagesAreFull'
    BY <2>1, <2>2 DEF HistoryInv, NothingIsSkipped, PagesAreFull, InProgress
  <2> QED  BY <2>3, <2>4 DEF HistoryInv
<1>2. CASE HistoryNext
  BY <1>2, RecordStep, AlterStep, AlterDeviceStep, PassStep, OpenStep, AuthenticateStep,
     AnswerNothingStep, SweepStep, TotalStep, AnswerStep, AskAgainStep DEF HistoryNext
<1> QED  BY <1>1, <1>2

LEMMA HistoryImplies == HistoryInv => HistoryTypeOK /\ HistoryIsComplete
<1> SUFFICES ASSUME HistoryInv PROVE HistoryTypeOK /\ HistoryIsComplete
  OBVIOUS
<1>1. HistoryTypeOK
  BY DEF HistoryInv, HistoryTypes, GivenInOrder, HistoryTypeOK, Present, Walk, Stages
<1>2. HistoryIsComplete
  BY DEF HistoryInv, GivenInOrder, NothingIsSkipped, PagesAreFull, HistoryIsComplete
<1> QED  BY <1>1, <1>2

\* Whatever is published, altered or concealed between two pages, and within
\* one (list_recent_notifications): the pages repeat nothing, and at the end
\* hold all that matched throughout; for any number of rows and any page sizes.
THEOREM HistoryIsWalked == HistorySpec => []HistoryIsComplete
BY HistoryBegins, HistoryKept, HistoryImplies, PTL DEF HistorySpec

-----------------------------------------------------------------------------
(***************************************************************************)
(* The behaviours TLC checks, in which one of the three moves.             *)
(***************************************************************************)
ClientsInv == CatchupInv /\ HistoryInv /\ PresenceInv

LEMMA ClientsBegin == Init => ClientsInv
BY CatchupBegins, HistoryBegins, PresenceBegins DEF Init, ClientsInv

LEMMA ClientsKept == ClientsInv /\ [Next]_vars => ClientsInv'
<1> SUFFICES ASSUME ClientsInv, [Next]_vars PROVE ClientsInv'
  OBVIOUS
<1>1. /\ [CatchupNext]_catchupVars
      /\ [HistoryNext]_historyVars
      /\ [PresenceNext]_presenceVars
  BY DEF Next, vars
<1> QED  BY <1>1, CatchupKept, HistoryKept, PresenceKept DEF ClientsInv

\* The variables of the three keep their types: the client's cursor in the
\* events, its walk through the history and Android's report among them.
THEOREM TypeCorrectness == Spec => []TypeOK
<1>1. ClientsInv => TypeOK
  BY CatchupImplies, HistoryImplies, PresenceImplies DEF ClientsInv, TypeOK
<1> QED  BY <1>1, ClientsBegin, ClientsKept, PTL DEF Spec

\* What TLC checks of each of the three, for any notifications, rows, pages and
\* clients: list_events misses nothing between two answers, the pages of
\* list_recent_notifications nothing that stayed, and Android no report.
THEOREM WhatClientsRead ==
    Spec => [](CaughtUp /\ HistoryIsComplete /\ AvailabilityIsAnnounced)
<1>1. ClientsInv => CaughtUp /\ HistoryIsComplete /\ AvailabilityIsAnnounced
  BY CatchupImplies, HistoryImplies, PresenceImplies DEF ClientsInv
<1> QED  BY <1>1, ClientsBegin, ClientsKept, PTL DEF Spec
=============================================================================
