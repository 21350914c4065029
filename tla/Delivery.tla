------------------------------ MODULE Delivery ------------------------------
(***************************************************************************)
(* How what is committed reaches the devices that listen: the handlers of  *)
(* app/main.py that commit a transaction and publish its events one after  *)
(* the other, the expiry loop, app/hub.py WebSocketHub and the websocket   *)
(* endpoint.                                                               *)
(*                                                                         *)
(* The tasks of the process share one event loop.  A task keeps the loop   *)
(* until it waits; it waits when it has written to a connection that does  *)
(* not drain, and when it closes connections (asyncio.wait_for writes in   *)
(* the same task since Python 3.12; the image has 3.13).  Tasks that wait  *)
(* for the same connection wake up in the order they wrote.  Handlers      *)
(* declared without `async` (GET /notifications, POST /auth/refresh) run   *)
(* on threads, whoever has the loop; the local reset script is a process   *)
(* of its own.  What these commit between a check and the write after it   *)
(* counts as committed after the write.                                    *)
(***************************************************************************)
EXTENDS Naturals, FiniteSets, Sequences, SequencesExt

CONSTANTS
    Device,
    Connection,    \* each is used once,
    DeviceOf,      \* by one device
    Handler,       \* requests that may be in progress together
    Sweeper,       \* the task of _expire_due_loop
    Free,          \* nobody has the loop
    Nowhere,       \* a task that does not wait
    Closing,       \* a task waits for connections it closes
    Notification,
    Origin,        \* the device that published each notification
    MaxEvents,     \* bound of the events that requests commit
    MaxChanges     \* bound of the changes around them: see Change

Task == Handler \union {Sweeper}
Place == Connection \union {Nowhere, Closing}

ASSUME DeliveryAssumption ==
    /\ DeviceOf \in [Connection -> Device]
    /\ Origin \in [Notification -> Device] /\ IsFiniteSet(Notification)
    /\ MaxEvents \in Nat /\ MaxChanges \in Nat
    /\ Sweeper \notin Handler
    /\ Free \notin Task
    /\ {Nowhere, Closing} \intersect Connection = {} /\ Nowhere # Closing

VARIABLES
    status,   \* notifications.status, "none" before it is created
    auto,     \* acknowledged under the reason of the server's own confirmations only
    overdue,  \* notifications whose expires_at has passed
    log,      \* events, in the order of seq
    guests, revoked, muted, \* devices: role, revoked_at, notifications_enabled
    spared,   \* history: connections past their handshake when the local script
              \* revoked their device
    stage,    \* where each connection is
    outdated, \* connections whose access token was replaced or has expired
    hub,      \* hub._connections, in insertion order
    since,    \* history: events committed before a connection was registered
    received, \* history: events written to each connection, by their seq
    skipped,  \* history: events each connection was not to have
    loop,     \* the task that has the loop
    todo,     \* events a task has still to publish, the first in progress
    rest,     \* connections still to visit for that event
    stale,    \* connections found unusable on the way
    at,       \* where a task waits
    waiting,  \* tasks that wait for each connection, in order
    changes   \* Breaks, administration and crashes so far

store == <<status, auto, overdue, log>>
devices == <<guests, revoked, muted, spared>>
connections == <<stage, outdated, hub, since>>
tasks == <<loop, todo, rest, stale, at, waiting>>
vars == <<store, devices, connections, received, skipped, tasks, changes>>

Event == [type : {"created", "acknowledged", "expired"}, n : Notification]
On(type, n) == [type |-> type, n |-> n]

\* WebSocketHub.broadcast's two questions about a connection.
Authorized(c) == DeviceOf[c] \notin revoked /\ c \notin outdated
SeesAll(d) == d \notin guests
MaySee(d, n) == SeesAll(d) \/ Origin[n] = d
ShouldDeliver(e, d) ==
    /\ d \notin revoked
    /\ MaySee(d, e.n)
    /\ e.type = "created" => d \notin muted

\* dict.pop of each that is gone: the others keep their order.
Without(s, gone) ==
    LET kept[i \in 0 .. Len(s)] ==
            IF i = 0 THEN <<>>
            ELSE IF s[i] \in gone THEN kept[i - 1] ELSE Append(kept[i - 1], s[i])
    IN  kept[Len(s)]
Of(d) == {c \in Connection : stage[c] # "new" /\ DeviceOf[c] = d}
Registered == Range(hub)

-----------------------------------------------------------------------------
(***************************************************************************)
(* Transactions.  A handler that has committed `es` publishes them, and    *)
(* does not wait before it has the first list of connections.  A hook, or  *)
(* the confirmation of one of several approvals, may commit again after it *)
(* has published: it is several of these transactions, each of which waits *)
(* for nothing but the loop.                                               *)
(***************************************************************************)
Publish(t, es) ==
    /\ loop = Free
    /\ todo[t] = <<>>
    /\ log' = log \o es
    /\ todo' = [todo EXCEPT ![t] = [i \in 1 .. Len(es) |-> Len(log) + i]]
    /\ rest' = [rest EXCEPT ![t] = hub]
    /\ loop' = t
    /\ UNCHANGED <<devices, connections, received, skipped, stale, at, waiting, changes>>

Room == Len(log) < MaxEvents

\* POST /notifications and the visible hooks.
CreateNotification(h, n) ==
    /\ Room
    /\ status[n] = "none"
    /\ Origin[n] \notin revoked
    /\ Publish(h, <<On("created", n)>>)
    /\ status' = [status EXCEPT ![n] = "active"]
    /\ UNCHANGED <<auto, overdue>>

\* The same of a device whose notifications are confirmed as they are published.
CreateSilently(h, n) ==
    /\ Room
    /\ status[n] = "none"
    /\ Origin[n] \notin revoked
    /\ Publish(h, <<On("acknowledged", n)>>)
    /\ status' = [status EXCEPT ![n] = "acknowledged"]
    /\ UNCHANGED <<auto, overdue>>

\* The second hook of a Claude approval adds detail to the notification of the first.
MergeApproval(h, n) ==
    /\ Room
    /\ status[n] = "active"
    /\ Origin[n] \notin revoked
    /\ Publish(h, <<On("created", n)>>)
    /\ UNCHANGED <<status, auto, overdue>>

\* POST /notifications/{id}/ack: also of one that has expired.  The reason is the
\* client's, and may be that of the server's own confirmations.
Acknowledge(h, n, d) ==
    /\ Room
    /\ status[n] \in {"active", "expired"}
    /\ d \notin revoked /\ MaySee(d, n)
    /\ Publish(h, <<On("acknowledged", n)>>)
    /\ status' = [status EXCEPT ![n] = "acknowledged"]
    /\ auto' \in {auto, auto \union {n}}
    /\ UNCHANGED overdue

\* The same of one that is acknowledged already: nothing to publish.
AcknowledgeAgain(n, d) ==
    /\ loop = Free
    /\ n \in auto
    /\ d \notin revoked /\ MaySee(d, n)
    /\ auto' = auto \ {n}
    /\ UNCHANGED <<status, overdue, log, devices, connections, received, skipped, tasks, changes>>

\* An answer, a finished tool or a finished session settles notifications.
Settle(h, ns) ==
    /\ Room
    /\ ns # {}
    /\ \A n \in ns : status[n] = "active"
    /\ \E order \in SetToSeqs(ns) :
          Publish(h, [i \in DOMAIN order |-> On("acknowledged", order[i])])
    /\ status' = [n \in Notification |-> IF n \in ns THEN "acknowledged" ELSE status[n]]
    /\ auto' = auto \union ns
    /\ UNCHANGED overdue

\* A late question takes an acknowledgement back that passes for automatic.
Reopen(h, n) ==
    /\ Room
    /\ n \in auto
    /\ n \notin overdue
    /\ Publish(h, <<On("created", n)>>)
    /\ status' = [status EXCEPT ![n] = "active"]
    /\ auto' = auto \ {n}
    /\ UNCHANGED overdue

\* Storage.expire_due_notifications.
DueOnceClosed == {n \in overdue : status[n] = "acknowledged"}
Due == {n \in overdue : status[n] = "active"}
Expired == [n \in Notification |-> IF n \in Due THEN "expired" ELSE status[n]]

\* _expire_due_loop, every minute.
Sweep ==
    /\ Due # {}
    /\ \E order \in SetToSeqs(Due) :
          Publish(Sweeper, [i \in DOMAIN order |-> On("expired", order[i])])
    /\ status' = Expired
    /\ UNCHANGED <<auto, overdue>>

\* GET /notifications and GET /notifications/recent expire first, and ignore
\* the events they get.
ListNotifications ==
    /\ Due # {}
    /\ \E order \in SetToSeqs(Due) :
          log' = log \o [i \in DOMAIN order |-> On("expired", order[i])]
    /\ status' = Expired
    /\ UNCHANGED <<auto, overdue, devices, connections, received, skipped, tasks, changes>>

BecomeOverdue(n) ==
    /\ status[n] # "none" /\ n \notin overdue
    /\ overdue' = overdue \union {n}
    /\ UNCHANGED <<status, auto, log, devices, connections, received, skipped, tasks, changes>>

-----------------------------------------------------------------------------
(***************************************************************************)
(* WebSocketHub.broadcast, by the task that has the loop.                  *)
(***************************************************************************)
Visiting(t, c) == loop = t /\ rest[t] # <<>> /\ c = Head(rest[t])
Current(t) == log[Head(todo[t])]

Proceed(t) == rest' = [rest EXCEPT ![t] = Tail(@)]
GiveUp(t) == rest' = [rest EXCEPT ![t] = <<>>]
TryTheNext(t) == Proceed(t)

\* Not a connection for this event.  The local script may revoke a device between
\* the two questions.
Skip(t) ==
    \E c \in Connection :
       /\ Visiting(t, c)
       /\ \/ /\ ~Authorized(c)
             /\ stale' = [stale EXCEPT ![t] = @ \union {c}]
             /\ UNCHANGED skipped
          \/ /\ Authorized(c) \/ c \in spared
             /\ ~ShouldDeliver(Current(t), DeviceOf[c])
             /\ skipped' = [skipped EXCEPT ![c] = @ \union {Head(todo[t])}]
             /\ UNCHANGED stale
       /\ Proceed(t)
       /\ UNCHANGED <<store, devices, connections, received, loop, todo, at, waiting, changes>>

Listed(t, c) == Visiting(t, c)
Gets(t, c) ==
    Visiting(t, c) /\ Authorized(c) /\ ShouldDeliver(Current(t), DeviceOf[c])

\* It is written to the connection, which may take it at once or later; nothing
\* tells yet that the peer has vanished.
Send(t) ==
    \E c \in Connection :
       /\ Gets(t, c)
       /\ stage[c] # "gone"
       /\ received' = [received EXCEPT ![c] = Append(@, Head(todo[t]))]
       /\ \/ /\ Proceed(t)
             /\ UNCHANGED <<loop, at, waiting>>
          \/ /\ at' = [at EXCEPT ![t] = c]
             /\ waiting' = [waiting EXCEPT ![c] = Append(@, t)]
             /\ loop' = Free
             /\ UNCHANGED rest
       /\ UNCHANGED <<store, devices, connections, skipped, todo, stale, changes>>

\* The connection is gone, and the write fails.
SendFails(t) ==
    \E c \in Connection :
       /\ Gets(t, c)
       /\ stage[c] # "open"
       /\ stale' = [stale EXCEPT ![t] = @ \union {c}]
       /\ TryTheNext(t)
       /\ UNCHANGED <<store, devices, connections, received, skipped, loop, todo, at, waiting, changes>>

\* The write is over: it drained, or it failed, or five seconds have passed.
Drains(c) == stage[c] = "open"
TimesOut(c) == TRUE
Resume(t) ==
    \E c \in Connection :
       /\ loop = Free
       /\ at[t] = c /\ t = Head(waiting[c])
       /\ \/ Drains(c) /\ UNCHANGED stale
          \/ TimesOut(c) /\ stale' = [stale EXCEPT ![t] = @ \union {c}]
       /\ loop' = t
       /\ at' = [at EXCEPT ![t] = Nowhere]
       /\ waiting' = [waiting EXCEPT ![c] = Tail(@)]
       /\ Proceed(t)
       /\ UNCHANGED <<store, devices, connections, received, skipped, todo, changes>>

\* All are visited; the useless ones are forgotten and then closed.
CloseStale(t) ==
    /\ loop = t /\ rest[t] = <<>> /\ todo[t] # <<>>
    /\ stale[t] # {}
    /\ hub' = Without(hub, stale[t])
    /\ stage' = [c \in Connection |-> IF c \in stale[t] THEN "gone" ELSE stage[c]]
    /\ stale' = [stale EXCEPT ![t] = {}]
    /\ at' = [at EXCEPT ![t] = Closing]
    /\ loop' = Free
    /\ UNCHANGED <<store, devices, outdated, since, received, skipped, todo, rest, waiting, changes>>

StaleClosed(t) ==
    /\ loop = Free
    /\ at[t] = Closing
    /\ at' = [at EXCEPT ![t] = Nowhere]
    /\ loop' = t
    /\ UNCHANGED <<store, devices, connections, received, skipped, todo, rest, stale, waiting, changes>>

\* The next event goes to whoever is registered by now.
NextEvent(t) ==
    /\ loop = t /\ rest[t] = <<>> /\ todo[t] # <<>>
    /\ stale[t] = {}
    /\ todo' = [todo EXCEPT ![t] = Tail(@)]
    /\ IF Len(todo[t]) > 1
       THEN rest' = [rest EXCEPT ![t] = hub] /\ UNCHANGED loop
       ELSE loop' = Free /\ UNCHANGED rest
    /\ UNCHANGED <<store, devices, connections, received, skipped, stale, at, waiting, changes>>

Broadcast(t) ==
    \/ Skip(t) \/ Send(t) \/ SendFails(t) \/ Resume(t)
    \/ CloseStale(t) \/ StaleClosed(t) \/ NextEvent(t)

-----------------------------------------------------------------------------
(***************************************************************************)
(* Connections and the devices behind them.                                *)
(***************************************************************************)
\* websocket_endpoint and hub.connect, up to the handshake.
Connect(c) ==
    /\ loop = Free
    /\ stage[c] = "new"
    /\ DeviceOf[c] \notin revoked
    /\ stage' = [stage EXCEPT ![c] = "accepting"]
    /\ UNCHANGED <<store, devices, outdated, hub, since, received, skipped, tasks, changes>>

\* After it, authorization is checked once more.
Welcome(c) == TRUE
StillWelcome(c) == Authorized(c)
Register(c) ==
    /\ loop = Free
    /\ stage[c] = "accepting"
    /\ \/ /\ StillWelcome(c)
          /\ stage' = [stage EXCEPT ![c] = "open"]
          /\ hub' = Append(hub, c)
          /\ since' = [since EXCEPT ![c] = Len(log)]
       \/ /\ ~StillWelcome(c)
          /\ stage' = [stage EXCEPT ![c] = "gone"]
          /\ UNCHANGED <<hub, since>>
    /\ UNCHANGED <<store, devices, outdated, received, skipped, tasks, changes>>

\* What happens around the tasks, so many times.
Change == changes < MaxChanges /\ changes' = changes + 1

\* The peer vanishes; the server learns it when it uses the connection.
Break(c) ==
    /\ stage[c] = "open"
    /\ stage' = [stage EXCEPT ![c] = "broken"]
    /\ Change
    /\ UNCHANGED <<store, devices, outdated, hub, since, received, skipped, tasks>>

Remains(c) == UNCHANGED hub
Leaves(c) == hub' = Without(hub, {c})

\* The endpoint ends: the peer has left, the token no longer counts when the
\* endpoint looks, once a second, or the close that another task began is complete.
EndsByPeer(c) == stage[c] \in {"broken", "closing"}
Ends(c) ==
    \/ stage[c] \in {"broken", "closing"}
    \/ stage[c] = "open" /\ ~Authorized(c)
Disconnect(c) ==
    /\ loop = Free
    /\ Ends(c)
    /\ Leaves(c)
    /\ stage' = [stage EXCEPT ![c] = "gone"]
    /\ UNCHANGED <<store, devices, outdated, since, received, skipped, tasks, changes>>

\* POST /auth/refresh on a thread, or time.
ReplaceToken(d) ==
    /\ Of(d) \ outdated # {}
    /\ outdated' = outdated \union Of(d)
    /\ Change
    /\ UNCHANGED <<store, devices, stage, hub, since, received, skipped, tasks>>

\* hub.reconnect_device: forgets the device's connections, then closes them.
KeepConnections(d) == UNCHANGED <<hub, stage>>
ReconnectDevice(d) ==
    /\ hub' = Without(hub, Of(d))
    /\ stage' = [c \in Connection |->
          IF c \in Of(d) \intersect Registered THEN "closing" ELSE stage[c]]

\* PATCH /devices/{id} with a role.
ChangeRole(d) ==
    /\ loop = Free
    /\ d \notin revoked
    /\ guests' = IF d \in guests THEN guests \ {d} ELSE guests \union {d}
    /\ ReconnectDevice(d)
    /\ Change
    /\ UNCHANGED <<store, revoked, muted, spared, outdated, since, received, skipped, tasks>>

\* PATCH /devices/{id} with notifications_enabled.
Mute(d) ==
    /\ loop = Free
    /\ d \notin revoked
    /\ muted' = IF d \in muted THEN muted \ {d} ELSE muted \union {d}
    /\ Change
    /\ UNCHANGED <<store, guests, revoked, spared, connections, received, skipped, tasks>>

\* DELETE /devices/{id}.
RevokeDevice(d) ==
    /\ loop = Free
    /\ d \notin revoked
    /\ revoked' = revoked \union {d}
    /\ ReconnectDevice(d)
    /\ Change
    /\ UNCHANGED <<store, guests, muted, spared, outdated, since, received, skipped, tasks>>

\* scripts/reset_devices.py, run beside the server: it revokes everybody in the
\* table, and the hub is not told.
PastHandshake(c) == stage[c] \notin {"new", "accepting"}
ResetDevices ==
    /\ revoked # Device
    /\ revoked' = Device
    /\ spared' = spared \union
          {c \in Connection : PastHandshake(c) /\ DeviceOf[c] \notin revoked}
    /\ Change
    /\ UNCHANGED <<store, guests, muted, connections, received, skipped, tasks>>

\* The process ends; the tables remain.
Crash ==
    /\ stage' = [c \in Connection |-> IF stage[c] = "new" THEN "new" ELSE "gone"]
    /\ hub' = <<>>
    /\ loop' = Free
    /\ todo' = [t \in Task |-> <<>>]
    /\ rest' = [t \in Task |-> <<>>]
    /\ stale' = [t \in Task |-> {}]
    /\ at' = [t \in Task |-> Nowhere]
    /\ waiting' = [c \in Connection |-> <<>>]
    /\ Change
    /\ UNCHANGED <<store, devices, outdated, since, received, skipped>>

-----------------------------------------------------------------------------
\* The process starts; the tables may hold notifications that an earlier one
\* acknowledged by itself.
Init ==
    /\ status \in [Notification -> {"none", "acknowledged"}]
    /\ auto = {n \in Notification : status[n] = "acknowledged"}
    /\ overdue = {} /\ log = <<>>
    /\ guests \in SUBSET Device
    /\ revoked = {} /\ muted = {} /\ spared = {}
    /\ stage = [c \in Connection |-> "new"]
    /\ outdated = {} /\ hub = <<>>
    /\ since = [c \in Connection |-> 0]
    /\ received = [c \in Connection |-> <<>>]
    /\ skipped = [c \in Connection |-> {}]
    /\ loop = Free
    /\ todo = [t \in Task |-> <<>>]
    /\ rest = [t \in Task |-> <<>>]
    /\ stale = [t \in Task |-> {}]
    /\ at = [t \in Task |-> Nowhere]
    /\ waiting = [c \in Connection |-> <<>>]
    /\ changes = 0

Request ==
    \/ \E h \in Handler, n \in Notification :
          \/ CreateNotification(h, n) \/ CreateSilently(h, n)
          \/ MergeApproval(h, n) \/ Reopen(h, n)
          \/ \E d \in Device : Acknowledge(h, n, d)
    \/ \E h \in Handler, ns \in SUBSET Notification : Settle(h, ns)
    \/ \E n \in Notification, d \in Device : AcknowledgeAgain(n, d)
    \/ ListNotifications

Listening ==
    \E c \in Connection : Connect(c) \/ Register(c) \/ Break(c) \/ Disconnect(c)

Administration ==
    \/ \E d \in Device : ReplaceToken(d) \/ ChangeRole(d) \/ Mute(d) \/ RevokeDevice(d)
    \/ ResetDevices

Next ==
    \/ Request
    \/ Sweep
    \/ \E t \in Task : Broadcast(t)
    \/ Listening
    \/ Administration
    \/ \E n \in Notification : BecomeOverdue(n)
    \/ Crash

Spec == Init /\ [][Next]_vars

\* A task that may go on does: the event loop is fair, and every write and
\* close has a timeout.  The expiry loop wakes up again and again, and so does the
\* endpoint of every connection, which waits for its peer no longer than a second.
EndpointLooks(c) == c \in Registered /\ ~Authorized(c) /\ Disconnect(c)
FairSpec ==
    /\ Spec
    /\ \A t \in Task : WF_vars(Broadcast(t))
    /\ WF_vars(Sweep)
    /\ \A c \in Connection : WF_vars(EndpointLooks(c))

-----------------------------------------------------------------------------
(***************************************************************************)
(* Properties.                                                             *)
(***************************************************************************)
TypeOK ==
    /\ status \in [Notification -> {"none", "active", "acknowledged", "expired"}]
    /\ auto \subseteq {n \in Notification : status[n] = "acknowledged"}
    /\ overdue \subseteq Notification
    /\ \A i \in DOMAIN log : log[i] \in Event
    /\ guests \subseteq Device /\ revoked \subseteq Device /\ muted \subseteq Device
    /\ spared \subseteq Connection
    /\ stage \in [Connection -> {"new", "accepting", "open", "broken", "closing", "gone"}]
    /\ outdated \subseteq Connection
    /\ Registered = {c \in Connection : stage[c] \in {"open", "broken"}}
    /\ IsInjective(hub)
    /\ changes \in 0 .. MaxChanges
    /\ loop \in Task \union {Free}
    /\ at \in [Task -> Place]
    /\ \A t \in Task :
          /\ loop = t => at[t] = Nowhere /\ todo[t] # <<>>
          /\ \A i \in DOMAIN todo[t] : todo[t][i] \in DOMAIN log
          /\ Range(rest[t]) \union stale[t] \subseteq Connection
          /\ \A c \in Connection : at[t] = c <=> t \in Range(waiting[c])

\* Whatever is written goes to a device that is entitled to it at that moment, not
\* when the event was committed or the connection put on the list: it is not
\* revoked, a guest gets its own, and who muted notifications no new one.
OnlyTheEntitledHear ==
    [][\A c \in Connection :
          LET d == DeviceOf[c]
              e == log[Last(received'[c])]
          IN  received'[c] # received[c] =>
                 /\ d \notin revoked
                 /\ d \in guests => Origin[e.n] = d
                 /\ e.type = "created" => d \notin muted]_vars

\* The list a task took may hold a revoked device.  The hub holds none that an
\* administrator revoked, and none whose handshake a revocation overtook, by the
\* administrator or by the local script; only connections that were there before
\* the script ran stay, until somebody looks.
HubHoldsNoRevoked ==
    \A c \in Registered : DeviceOf[c] \in revoked => c \in spared

\* What a guest's connection has heard is the guest's own, whatever the device
\* was when the event was committed, listed or written.
GuestsHearTheirOwn ==
    \A c \in Registered :
       DeviceOf[c] \in guests =>
          \A i \in Range(received[c]) : Origin[log[i].n] = DeviceOf[c]

\* A task still has to write event i to connection c, or found c unusable.
Pending(i, c) ==
    \E t \in Task :
       /\ i \in Range(todo[t])
       /\ i = Head(todo[t]) => c \in Range(rest[t]) \union stale[t]

\* Events of these types reach every connection registered when they were
\* committed that still works, or a reason was found why it must not have it.
Reaches(types) ==
    \A c \in Registered :
       stage[c] = "open" /\ Authorized(c) =>
          \A i \in DOMAIN log :
             i > since[c] /\ log[i].type \in types =>
                i \in Range(received[c]) \union skipped[c] \/ Pending(i, c)

\* No notification and no acknowledgement is forgotten by the tasks that
\* publish together, whatever the other connections do to them.
NewsReachesListeners == Reaches({"created", "acknowledged"})

\* "Periodically expires what is due and broadcasts the expire events, so that
\* connected clients remove it in time" (main.py, _expire_due_loop).
ExpiryReachesListeners == Reaches({"expired"})

\* "A late question takes the automatic acknowledgement back and updates both
\* ends through notification.created of the original id" (README): whoever
\* hears of both hears of the question last.
ReopenedIsShown ==
    \A c \in Registered :
       \A i, j \in DOMAIN received[c] :
          LET e == log[received[c][i]]
              f == log[received[c][j]]
          IN  e.n = f.n /\ e.type = "created" /\ f.type = "acknowledged"
                 /\ received[c][i] > received[c][j]
              => i > j

\* A connection that does not drain delays its tasks, and stops none.
EveryTaskEnds == \A t \in Task : todo[t] # <<>> ~> todo[t] = <<>>

\* "The WebSocket is closed when its token expires or is rotated or its device is
\* revoked" (README), by whatever process, and whether or not anything is
\* broadcast: no connection stays in the hub without authorization.
UnauthorizedLeave ==
    \A c \in Connection : c \in Registered /\ ~Authorized(c) ~> c \notin Registered

\* What is overdue does not stay active, however long publishing takes.
OverdueEnds ==
    \A n \in Notification : n \in overdue /\ status[n] = "active" ~> status[n] # "active"
=============================================================================
