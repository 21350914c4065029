---------------------------- MODULE EventCatchup ----------------------------
(***************************************************************************)
(* How a client that polls keeps its list of active notifications:         *)
(* GET /notifications and GET /events (app/main.py) over the events table  *)
(* (app/storage.py).                                                       *)
(*                                                                         *)
(* A request is authenticated first and answered by one or two queries,    *)
(* each under the store's lock; the endpoints run on threads, so anything  *)
(* may be committed in between.  An answer may be lost: the broadcasts     *)
(* have no part in this, and a process that ends before it broadcast what  *)
(* it committed loses nothing here.                                        *)
(*                                                                         *)
(* The clients are outside this repository.  One follows GET /events with  *)
(* a limit as the docstring of event_window says: list, then baseline,     *)
(* then page by page; with cursor_found = false it keeps latest_event_id   *)
(* and loads the list anew.  The other uses it without a limit.            *)
(***************************************************************************)
EXTENDS Integers, FiniteSets, Sequences, SequencesExt

CONSTANTS
    Notification,
    Own,        \* those the client's device published
    Limit,      \* of events in an answer
    Way,        \* how clients follow the events: "pages", "all"
    MaxEvents, MaxChanges   \* bounds

ASSUME CatchupAssumption ==
    /\ IsFiniteSet(Notification) /\ Own \subseteq Notification
    /\ Limit \in Nat \ {0}
    /\ Way \subseteq {"pages", "all"}
    /\ MaxEvents \in Nat /\ MaxChanges \in Nat

VARIABLES
    status,     \* notifications.status
    due,        \* notifications whose expires_at has passed
    log,        \* the events table
    role,       \* of the device,
    enabled,    \* and its notifications_enabled
    request,    \* what the client's request still waits for, and what it read
    client,     \* what the client does next, has seen, and knows
    current,    \* the last answer said there is no more, and there is none yet
    changed,    \* history: role or reception changed since the last list
    gap,        \* history: events between a list and its baseline
    changes     \* so far

table == <<status, due, log>>
device == <<role, enabled, changes>>
history == <<changed, gap>>
catchupVars == <<table, device, request, client, current, history>>

Idle == [for |-> "nothing", enabled |-> TRUE, since |-> 0]
FreshList == -1     \* the list is not loaded for a cursor that was not found

-----------------------------------------------------------------------------
(***************************************************************************)
(* What the service commits: a notification's row and its event together.  *)
(***************************************************************************)
Overdue == {n \in due : status[n] = "active"}

\* Room is kept for the expiry of what is overdue.
Room(k) == Len(log) + Cardinality(Overdue) + k <= MaxEvents

Commit(n, new, type) ==
    /\ Room(1)
    /\ status' = [status EXCEPT ![n] = new]
    /\ log' = Append(log, [n |-> n, type |-> type])
    /\ current' = FALSE
    /\ UNCHANGED <<due, device, request, client, history>>

Publish(n) == status[n] = "none" /\ Commit(n, "active", "created")
PublishSilently(n) == status[n] = "none" /\ Commit(n, "acknowledged", "acknowledged")
Acknowledge(n) == status[n] = "active" /\ Commit(n, "acknowledged", "acknowledged")

\* A merged approval stays active; a question is reopened unless overdue.
ShowAgain(n) ==
    /\ \/ status[n] = "active"
       \/ status[n] = "acknowledged" /\ n \notin due
    /\ Commit(n, "active", "created")

BecomeDue(n) ==
    /\ status[n] # "none" /\ n \notin due
    /\ status[n] = "active" => Room(1)
    /\ due' = due \union {n}
    /\ UNCHANGED <<status, log, device, request, client, current, history>>

\* expire_due_notifications, by the loop or at the start of a list.
ExpireDue ==
    /\ status' = [n \in Notification |-> IF n \in Overdue THEN "expired" ELSE status[n]]
    /\ \E order \in Bijection(1 .. Cardinality(Overdue), Overdue) :
          log' = log \o [i \in DOMAIN order |-> [n |-> order[i], type |-> "expired"]]
    /\ current' = (current /\ Overdue = {})
    /\ UNCHANGED due

Expire ==
    /\ Overdue # {}
    /\ ExpireDue
    /\ UNCHANGED <<device, request, client, history>>

\* PATCH /devices/{id}: an administrator, or the user of the device.
ChangeDevice ==
    /\ changes < MaxChanges
    /\ changes' = changes + 1
    /\ \/ role' \in {"member", "guest"} \ {role} /\ UNCHANGED enabled
       \/ enabled' = ~enabled /\ UNCHANGED role
    /\ changed' = TRUE
    /\ UNCHANGED <<table, request, client, current, gap>>

-----------------------------------------------------------------------------
(***************************************************************************)
(* The queries.                                                            *)
(***************************************************************************)
\* _viewer_scope_sql: the role of the moment.
Visible(n) == role # "guest" \/ n \in Own

\* _event_scope_sql: by the notification the event is about.
Scope == {i \in DOMAIN log : Visible(log[i].n)}

\* The newest event, 0 if there is none.
Newest(rows) == CHOOSE i \in rows : \A j \in rows : j <= i
LatestOfAll == Len(log)
Latest == IF Scope = {} THEN 0 ELSE Newest(Scope)
Found(cursor) == cursor \in Scope
AtOrAfter(cursor) == {i \in Scope : i >= cursor}
After(cursor) == {i \in Scope : i > cursor}

\* Rows are read in their order, event_window one more than it returns.
First(rows, k) == {i \in rows : Cardinality({j \in rows : j < i}) < k}
FetchedPage(cursor) == First(After(cursor), Limit)
Fetched(cursor) == First(After(cursor), Limit + 1)
HasMore(rows) == Cardinality(rows) > Limit

-----------------------------------------------------------------------------
(***************************************************************************)
(* The client, and the answers it gets.                                    *)
(***************************************************************************)
\* A notification the client is not to receive comes without its body
\* (event_for_device, for the device as it was authenticated), and shows
\* nothing; of the others about one notification the newest decides.
Seen(i) == log[i].type = "created" => request.enabled
About(n, rows) == {i \in rows : log[i].n = n /\ Seen(i)}
View(rows) ==
    {n \in Notification : IF About(n, rows) = {} THEN n \in client.view
                          ELSE log[Newest(About(n, rows))].type = "created"}

\* current_device authenticates the request before anything is queried.
Ask ==
    /\ request = Idle
    /\ request' = [for |-> client.next, enabled |-> enabled, since |-> 0]
    /\ changed' = (changed /\ client.next # "list")
    /\ current' = (current /\ client.next # "list")
    /\ UNCHANGED <<table, device, client, gap>>

Lose ==
    /\ request # Idle
    /\ request' = Idle
    /\ UNCHANGED <<table, device, client, current, history>>

\* The list: due notifications expire before it is read.  Without reception it
\* is empty.
ListExpires ==
    /\ request.for = "list" /\ request.enabled
    /\ ExpireDue
    /\ request' = [request EXCEPT !.for = "active"]
    /\ UNCHANGED <<device, client, history>>

Active == {n \in Notification : status[n] = "active" /\ Visible(n)}
ListAnswer ==
    /\ \/ request.for = "active"
       \/ request.for = "list" /\ ~request.enabled
    /\ client' = [view |-> IF request.enabled THEN Active ELSE {},
                  next |-> CASE client.cursor = FreshList -> "baseline"
                             [] client.cursor = 0 -> "list"
                             [] OTHER -> "page",
                  cursor |-> IF client.cursor = 0 THEN FreshList ELSE client.cursor,
                  listed |-> IF client.cursor = FreshList THEN Len(log) ELSE 0]
    /\ current' = (client.cursor = 0)
    /\ gap' = {}
    /\ request' = Idle
    /\ UNCHANGED <<table, device, changed>>

\* GET /events with a limit and no cursor: the newest event, and no other.
Baseline ==
    /\ request.for = "baseline"
    /\ client' = [client EXCEPT !.cursor = IF Latest = 0 THEN FreshList ELSE Latest,
                               !.next = IF Latest = 0 THEN "list" ELSE "page",
                               !.listed = 0]
    /\ gap' = {log[i].n : i \in client.listed + 1 .. Len(log)}
    /\ current' = TRUE
    /\ request' = Idle
    /\ UNCHANGED <<table, device, changed>>

\* With a cursor: up to Limit events after it.
Page ==
    LET rows == Fetched(client.cursor)
        given == First(rows, Limit)
    IN  /\ request.for = "page" /\ Found(client.cursor)
        /\ client' = [client EXCEPT !.view = View(given),
                                   !.cursor = IF given = {} THEN @ ELSE Newest(given)]
        /\ current' = ~HasMore(rows)
        /\ gap' = gap \ {log[i].n : i \in given}
        /\ request' = Idle
        /\ UNCHANGED <<table, device, changed>>

\* cursor_found = false: the list is loaded anew, to go on from the newest event.
NotFound ==
    /\ request.for = "page" /\ ~Found(client.cursor)
    /\ client' = [client EXCEPT !.cursor = Latest, !.next = "list"]
    /\ current' = FALSE
    /\ request' = Idle
    /\ UNCHANGED <<table, device, history>>

\* events_after, without a limit: the cursor is looked up by one query, the rest
\* read by another; an unknown cursor stands for the beginning.
LookUp ==
    /\ request.for = "all"
    /\ request' = [request EXCEPT !.for = "rest",
                                 !.since = IF Found(client.cursor) THEN client.cursor ELSE 0]
    /\ UNCHANGED <<table, device, client, current, history>>

Rest ==
    LET rows == After(request.since)
    IN  /\ request.for = "rest"
        /\ client' = [client EXCEPT !.view = View(rows),
                                   !.cursor = IF rows = {} THEN @ ELSE Newest(rows)]
        /\ current' = TRUE
        /\ request' = Idle
        /\ UNCHANGED <<table, device, history>>

\* The server closes the connection of a device whose role changed, and a client
\* changes its reception itself; either may then load everything anew.
Reload ==
    /\ request = Idle /\ changed /\ client.next = "page"
    /\ client' = [client EXCEPT !.next = "list", !.cursor = FreshList]
    /\ current' = FALSE
    /\ UNCHANGED <<table, device, request, history>>

-----------------------------------------------------------------------------
CatchupInit ==
    /\ status = [n \in Notification |-> "none"]
    /\ due = {} /\ log = <<>>
    /\ role \in {"member", "guest"} /\ enabled = TRUE
    /\ request = Idle
    /\ \E way \in Way :
          client = [view |-> {}, listed |-> 0,
                    next |-> IF way = "all" THEN "all" ELSE "list",
                    cursor |-> IF way = "all" THEN 0 ELSE FreshList]
    /\ current = FALSE /\ changed = FALSE /\ gap = {}
    /\ changes = 0

Serve ==
    \/ \E n \in Notification :
          Publish(n) \/ PublishSilently(n) \/ Acknowledge(n) \/ ShowAgain(n) \/ BecomeDue(n)
    \/ Expire \/ ChangeDevice

\* What answers a request: the first of two queries, the second, the only one.
Begin == ListExpires \/ LookUp
End == ListAnswer \/ Rest
Tell == Baseline \/ Page \/ NotFound

CatchupNext == Serve \/ Begin \/ End \/ Tell \/ Ask \/ Lose \/ Reload

CatchupSpec == CatchupInit /\ [][CatchupNext]_catchupVars

\* The client goes on asking, and not every answer is lost.
CatchupFairness ==
    WF_catchupVars(Ask) /\ SF_catchupVars(Begin) /\ SF_catchupVars(End) /\ SF_catchupVars(Tell)

-----------------------------------------------------------------------------
(***************************************************************************)
(* Properties.                                                             *)
(***************************************************************************)
\* Types; and a cursor the client was given is one the service still finds for
\* it, unless its role has changed.
CatchupTypeOK ==
    /\ status \in [Notification -> {"none", "active", "acknowledged", "expired"}]
    /\ due \subseteq Notification
    /\ Range(log) \subseteq [n : Notification, type : {"created", "acknowledged", "expired"}]
    /\ role \in {"member", "guest"} /\ enabled \in BOOLEAN
    /\ request.for \in {"nothing", "list", "active", "baseline", "page", "all", "rest"}
    /\ client.view \subseteq Notification
    /\ client.cursor \in DOMAIN log \union {0, FreshList}
    /\ client.cursor \in DOMAIN log /\ ~changed => Found(client.cursor)

\* A client that was told there is no more has exactly the active notifications
\* it may see on its list, whatever was committed between its requests and
\* between the queries of each, and also when no broadcast reached it.  It may
\* miss what happened between a first list and its baseline, and what its role
\* or its reception concealed before they changed: it has to load the list.
CaughtUp ==
    current /\ ~changed =>
       \A n \in Notification \ gap : n \in client.view <=> enabled /\ n \in Active
=============================================================================
