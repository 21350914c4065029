------------------------------ MODULE History ------------------------------
(***************************************************************************)
(* Walking through the notification history page by page:                  *)
(* GET /notifications/recent (app/main.py), list_recent_notifications      *)
(* (app/storage.py).                                                       *)
(*                                                                         *)
(* One answer is made of an authentication, an expiry, a count and a page, *)
(* each a section of its own, on a thread; between them and between pages  *)
(* notifications are published, change or grow too old, and the device's   *)
(* role or reception changes.  A page goes on after the last row of the    *)
(* one before, by creation time and id; ids are random, so they are        *)
(* numbers taken in any order, and two rows may be of the same time.       *)
(***************************************************************************)
EXTENDS Integers, FiniteSets, Sequences, SequencesExt

CONSTANTS
    Entry,      \* ids of notifications
    Mine,       \* those the device published
    PageSizes,  \* limit
    Days,       \* effective_days
    MaxClock, MaxAlterations    \* bounds

ASSUME HistoryAssumption ==
    /\ Entry \subseteq Nat \ {0} /\ IsFiniteSet(Entry)
    /\ Mine \subseteq Entry
    /\ PageSizes \subseteq Nat \ {0}
    /\ Days \in Nat /\ MaxClock \in Nat /\ MaxAlterations \in Nat

VARIABLES
    clock,
    entries,    \* the table: created_at, and status
    guest,      \* the device's role is guest,
    receives,   \* and its notifications_enabled
    walk,       \* the client's walk
    steady,     \* history: what has matched since the walk began
    quiet,      \* history: nothing has been changed, expired or grown too old since
    alterations \* of rows and of the device so far

board == <<entries, guest, receives>>
trace == <<steady, quiet>>
historyVars == <<clock, board, walk, trace, alterations>>

Absent == [at |-> 0, status |-> "none"]
Statuses == {"active", "overdue", "acknowledged", "expired"}

\* What the client asks for: the active ones, or all.
Filters == {{"active"}, {"active", "acknowledged", "expired"}}
AtRest == [stage |-> "closed", filter |-> {}, size |-> 0, cursor |-> 0, since |-> 0,
           enabled |-> FALSE, total |-> 0, pages |-> 0, given |-> <<>>]

-----------------------------------------------------------------------------
(***************************************************************************)
(* The queries.                                                            *)
(***************************************************************************)
\* The conditions of the query, "overdue" being active until it is expired.
StatusOf(e) == IF entries[e].status = "overdue" THEN "active" ELSE entries[e].status
Matching(since, filter) ==
    {e \in Entry : /\ entries[e] # Absent
                   /\ entries[e].at >= since
                   /\ guest => e \in Mine
                   /\ StatusOf(e) \in filter}

\* ORDER BY created_at DESC, id DESC.
Newer(a, b) ==
    \/ entries[a].at > entries[b].at
    \/ entries[a].at = entries[b].at /\ a > b
InOrder(rows) ==
    {list \in Bijection(1 .. Cardinality(rows), rows) :
        \A i, j \in DOMAIN list : i < j => Newer(list[i], list[j])}

\* The rows behind the cursor, of which one more is fetched than given.
BehindByTime(cursor) == {e \in Entry : cursor = 0 \/ entries[cursor].at > entries[e].at}
Behind(cursor) == {e \in Entry : cursor = 0 \/ Newer(cursor, e)}
Leading(rows, k) == {e \in rows : Cardinality({f \in rows : Newer(f, e)}) < k}
PageRows ==
    Leading(Matching(walk.since, walk.filter) \intersect Behind(walk.cursor), walk.size + 1)

-----------------------------------------------------------------------------
(***************************************************************************)
(* The table and the device.                                               *)
(***************************************************************************)
InProgress == walk.stage \notin {"closed", "over"}

\* What the walk asks for at the moment, and may be given.
Wanted == Matching(clock - Days, walk.filter)
Given == IF receives THEN Wanted ELSE {}
Watch(still) ==
    IF InProgress
    THEN steady' = steady \intersect Given' /\ quiet' = (quiet /\ still)
    ELSE UNCHANGED trace

\* create_notification, silently or not: a row of the moment.
Record(e, status) ==
    /\ entries[e] = Absent
    /\ entries' = [entries EXCEPT ![e] = [at |-> clock, status |-> status]]
    /\ UNCHANGED <<clock, guest, receives, walk, alterations>>
    /\ Watch(FALSE)

\* What changes a row: confirmed, taken back, past its expires_at.
\* created_at and id stay.
Becomes(old, new) ==
    \/ old \in {"active", "overdue", "expired"} /\ new = "acknowledged"
    \/ old = "active" /\ new = "overdue"
    \/ old = "acknowledged" /\ new = "active"

Alter(e, status) ==
    /\ alterations < MaxAlterations /\ alterations' = alterations + 1
    /\ Becomes(entries[e].status, status)
    /\ entries' = [entries EXCEPT ![e].status = status]
    /\ UNCHANGED <<clock, guest, receives, walk>>
    /\ Watch(FALSE)

AlterDevice ==
    /\ alterations < MaxAlterations /\ alterations' = alterations + 1
    /\ \/ guest' = ~guest /\ UNCHANGED receives
       \/ receives' = ~receives /\ UNCHANGED guest
    /\ UNCHANGED <<clock, entries, walk>>
    /\ Watch(FALSE)

Pass ==
    /\ clock < MaxClock
    /\ clock' = clock + 1
    /\ UNCHANGED <<board, walk, alterations>>
    /\ Watch(Wanted' = Wanted)

-----------------------------------------------------------------------------
(***************************************************************************)
(* The walk.                                                               *)
(***************************************************************************)
Open(filter, size) ==
    /\ walk.stage = "closed"
    /\ walk' = [AtRest EXCEPT !.stage = "open", !.filter = filter, !.size = size]
    /\ UNCHANGED <<clock, board, alterations>>
    /\ steady' = Given'
    /\ quiet' = TRUE

\* current_device.
Authenticate ==
    /\ walk.stage = "open"
    /\ walk' = [walk EXCEPT !.stage = "authenticated", !.enabled = receives]
    /\ UNCHANGED <<clock, board, trace, alterations>>

\* Without reception the answer is empty, and there is no more.
AnswerNothing ==
    /\ walk.stage = "authenticated" /\ ~walk.enabled
    /\ walk' = [walk EXCEPT !.stage = "over", !.total = 0, !.pages = @ + 1]
    /\ UNCHANGED <<clock, board, trace, alterations>>

\* The oldest time is computed, and what is due expires.
Sweep ==
    /\ walk.stage = "authenticated" /\ walk.enabled
    /\ walk' = [walk EXCEPT !.stage = "swept", !.since = clock - Days]
    /\ entries' = [e \in Entry |-> IF entries[e].status = "overdue"
                                   THEN [entries[e] EXCEPT !.status = "expired"] ELSE entries[e]]
    /\ UNCHANGED <<clock, guest, receives, alterations>>
    /\ Watch(Wanted' = Wanted)

Total ==
    /\ walk.stage = "swept"
    /\ walk' = [walk EXCEPT !.stage = "counted",
                            !.total = Cardinality(Matching(walk.since, walk.filter))]
    /\ UNCHANGED <<clock, board, trace, alterations>>

\* next_cursor is the last row given; there is none when there is no more.
Answer ==
    LET more == Cardinality(PageRows) > walk.size
    IN  /\ walk.stage = "counted"
        /\ \E items \in InOrder(Leading(PageRows, walk.size)) :
              walk' = [walk EXCEPT !.stage = IF more THEN "open" ELSE "over",
                                   !.cursor = IF more THEN Last(items) ELSE 0,
                                   !.given = @ \o items,
                                   !.pages = @ + 1]
        /\ UNCHANGED <<clock, board, trace, alterations>>

\* The answer is lost, and the client asks again for the same page.
AskAgain ==
    /\ walk.stage \in {"authenticated", "swept", "counted"}
    /\ walk' = [walk EXCEPT !.stage = "open"]
    /\ UNCHANGED <<clock, board, trace, alterations>>

-----------------------------------------------------------------------------
HistoryInit ==
    /\ clock = 0
    /\ entries = [e \in Entry |-> Absent]
    /\ guest \in BOOLEAN /\ receives = TRUE
    /\ walk = AtRest
    /\ steady = {} /\ quiet = TRUE
    /\ alterations = 0

HistoryNext ==
    \/ \E e \in Entry :
          \/ \E status \in {"active", "acknowledged"} : Record(e, status)
          \/ \E status \in {"active", "overdue", "acknowledged"} : Alter(e, status)
    \/ AlterDevice \/ Pass
    \/ \E filter \in Filters, size \in PageSizes : Open(filter, size)
    \/ Authenticate \/ AnswerNothing \/ Sweep \/ Total \/ Answer \/ AskAgain

HistorySpec == HistoryInit /\ [][HistoryNext]_historyVars

-----------------------------------------------------------------------------
(***************************************************************************)
(* Properties.                                                             *)
(***************************************************************************)
HistoryTypeOK ==
    /\ clock \in 0 .. MaxClock
    /\ \A e \in Entry : entries[e] # Absent => entries[e].at <= clock /\ entries[e].status \in Statuses
    /\ guest \in BOOLEAN /\ receives \in BOOLEAN
    /\ walk.stage \in {"closed", "open", "authenticated", "swept", "counted", "over"}
    /\ Range(walk.given) \subseteq {e \in Entry : entries[e] # Absent}
    /\ walk.cursor # 0 => walk.cursor = Last(walk.given)
    /\ steady \subseteq Entry /\ quiet \in BOOLEAN

\* "One newest-first history page using a stable (created_at, id) cursor":
\* whatever is published, changed or concealed meanwhile, the pages repeat
\* nothing, keep their order and, once there is no more, hold all that matched
\* throughout the walk, rows of one time on both sides of a page included.
\* When nothing changed, the walk had as many rows and pages as each answer says.
Ceiling(n, size) == (n + size - 1) \div size
HistoryIsComplete ==
    /\ \A i, j \in DOMAIN walk.given : i < j => Newer(walk.given[i], walk.given[j])
    /\ walk.stage = "over" =>
          /\ steady \subseteq Range(walk.given)
          /\ quiet => /\ walk.total = Len(walk.given)
                      /\ walk.pages = Max({1, Ceiling(walk.total, walk.size)})
=============================================================================
