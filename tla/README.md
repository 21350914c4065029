# Formal model of the session notification server

TLA+ modules for the server under `src/app/` (a FastAPI process over SQLite that
collects notifications of AI sessions and hook events from some devices and shows
them on others), the TLC configurations that check them on small instances, and
theorems about them that TLAPS checks for every value of the constants.

`PROJECT.json` names, for every definition that stands for code, the lines it
stands for; for every property of a passing run, a mutation of the model (a
plausible bug in that code) under which TLC finds the property violated; and the
hazards the properties are for.

## 1. Inventory

The server is one process. Its handlers are of two kinds: those declared
`async def` run on the event loop and share it cooperatively, those declared
`def` run on a pool of threads. All durable state is in one SQLite database
behind one connection and an `RLock` (`storage.py`); a method of `Storage` is one
transaction. Most transactions start with `BEGIN IMMEDIATE`, so they also
exclude other processes that use the database (the operator scripts; further
workers if someone starts them). The hub's table of WebSocket connections is in
memory and dies with the process.

| Part | State | Operations | What makes it correct |
|---|---|---|---|
| Devices, roles, pairing (`storage.py`, `main.py`) | `devices` (role, revocation, token hashes, deadlines), `pair_codes` | bind, rebind, refresh, update, revoke, issue and consume codes, bootstrap code, reset, minute sweep, startup | there is always an administrator, and the last usable one is permanent; a code has no more authority than its issuer; access never outlives refresh |
| Publication quota (`storage.py`) | `publication_usage` | `admit_publication`, the first thing both publishing handlers do | limits per minute and day, exact accounting, an honest `Retry-After` |
| Codex asynchronous questions (`storage.py`, `main.py`) | `codex_async_questions`, `..._answers`, `..._exact_answers`, acks | hooks that ask and that answer, confirmation, expiry | outcome independent of the order of hooks; confirmations by the user final; retries finish what a crash cut |
| Event delivery (`hub.py`, `main.py`) | `_connections`, tasks in the middle of a broadcast, `events` | connect, disconnect, reconnect, broadcast, expiry loop | nobody hears what is not theirs; working connections miss nothing; a slow one holds nobody up for ever |
| Notification lifecycle (`storage.py`) | `notifications`, `acks`, `events` | create (de-duplicated, merged, silent), acknowledge, expire | each status change has one event; a client that applies the events has the table's list |
| Approvals (`storage.py`) | active notifications titled "needs confirmation" | merge of Claude's two hooks, `resolve_pending_permission`, cleanup at session end and at startup, sibling acknowledgement | an approval that waits for the user stays visible; one that is settled disappears everywhere |
| Event catch-up (`storage.py`) | cursor of a client into `events` | `events_after`, `event_window` | no event of the client's scope is skipped between two calls |
| Presence (`storage.py`) | session state, pause, time of the last report | report, summary | Android devices are told of every change of availability |
| History (`storage.py`, `main.py`) | the client's cursor | filters, totals, cursor pages | a walk neither skips nor repeats a row, and is as long as the totals say |
| Hook mapping, privacy (`main.py`, `hook_policy.py`, `privacy.py`) | none | text classification | string functions |
| Request body limit (`payload_limits.py`) | buffer of one request | ASGI middleware | one answer per request, bounded memory |
| HTTPS gateway (`deploy/https/gateway/`) | renewal schedule, CA embargo, operation lock | worker loop, manual renewal, certbot wrapper | the CA's deadline is respected across crashes |
| Certificates, network, logging, schemas, scripts | none of their own | I/O | - |

How they interact: `current_device` authenticates every request in a transaction
of its own, so by the time the operation's transaction runs the caller may have
lost its authority; the publishing handlers charge the quota, commit one or more
transactions and then broadcast the events they got, one after the other; an
administrative change disconnects the device through the hub; the expiry loop
sweeps devices and notifications every minute. Clients learn of notifications from
the broadcasts, from their list and from the catch-up, which ask the same tables in
different transactions. The gateway is a container of its own: a worker, an operator's
commands and certbot share a lock, three files and nginx.

The hard behaviours are: administrators acting against each other on stale
authentication; the clock passing deadlines at any moment; hooks that arrive
repeated, late and in any order; a crash between the two transactions of a hook;
broadcasts of several tasks interleaving at every write to a slow connection;
revocation in the middle of a handshake or a broadcast, by the server or by a script
beside it; approvals that look alike,
told by two hooks each and closed by five different things; a catch-up whose
request is authenticated, looked up and read at three moments; and a certificate
renewal that is killed between two files.

## 2. Modules

| Module | Lines it stands for | Role |
|---|---|---|
| `AdminAuthority` | - | abstract specification: who belongs, who manages, which invitations are open |
| `Devices` | device and pairing part of `storage.py` | component; implements `AdminAuthority` (`ImplementsAuthority`) |
| `DevicesProofs` | - | theorems about `Devices` |
| `PublicationQuota` | `admit_publication` | component |
| `PublicationQuotaProofs` | - | theorems about `PublicationQuota` |
| `AsyncQuestions` | `receive_hook`, `create_notification`, `correlate_codex_async_question`, `acknowledge`, `expire_due_notifications`, for one session | component |
| `AsyncQuestionsProofs` | - | theorems about `AsyncQuestions` |
| `Delivery` | `hub.py`, `publish`, the WebSocket endpoint, `_expire_due_loop`, the handlers | component that composes the notification's life with the hub and the tasks |
| `DeliveryProofs` | - | theorems about `Delivery` |
| `Approvals` | the branches of `receive_hook` for approvals, `_find_` and `_merge_correlated_claude_approval`, `resolve_pending_permission`, the clean-ups, the confirmation handler | component, for one session id |
| `ApprovalsProofs` | - | theorems about `Approvals` |
| `EventCatchup` | `list_events`, `events_after`, `event_window`, `list_notifications` | component: the service's answers and the client they are meant for |
| `EventCatchupProofs` | - | a theorem about `EventCatchup`, alone |
| `History` | `list_recent_notifications` and its handler | component: a walk through the pages |
| `Presence` | `update_device_session_state`, `device_presence_summary`, the presence handler | component |
| `ClientsProofs` | - | theorems about `Presence` and `History`, each alone, and about the three together |
| `Gateway` | `gateway.py` (lock, reconcile, renewal, schedule) and `certbot_runner.py` | component |
| `GatewayProofs` | - | theorems about `Gateway` |
| `MC_*` | - | instances for TLC; `MC_Clients` instantiates `EventCatchup`, `History` and `Presence` |

### Devices

`role`, `revoked`, `refreshExp` and `accessExp` are columns of `devices`
(`"unbound"` where there is no row, `Never` for NULL); `pairCodes` is the set of
rows of `pair_codes`; `now` is `utc_now()`. Each operation is one transaction and
one action, with the protection of the last administrator
(`_ensure_admin_invariant_locked`, here `Protect`) where the code has it: first,
and in three operations once more before the commit. A request that the
transaction refuses rolls back and is a stutter, except where the code returns an
error and commits, which is `Enforce`. The authentication that precedes an
operation only constrains it through the guards repeated inside the transaction,
so the actor is any device: that is the race the code has to survive. The steps of
`AdminAuthority` name no actor; who may take them is `ManagedByAdminsOnly`, for
roles, revocations and deadlines alike: the caller is an administrator with a live
token when the transaction runs, whatever it was when the request came in.

Abstracted: token text (whoever performs an action with a token holds the
current one), names, and display settings. A guest has the authority of a member
here; what a guest may see is in `Delivery`. The local calls without an actor
(`actor_id=None`) have no caller in `src/app` or `src/scripts` and are left out.
Codes are drawn from a finite set; a code may be drawn again once its row is gone.

### PublicationQuota

`usage` is the device's row. Reading the clock (`Arrive`) and the transaction
(`Admit`, `Refuse`) are separate steps, because `admit_publication` reads the
time before it asks for the write lock. A worker has at most one such request,
since the handlers run on its event loop and do not wait in between. `accepted`,
`volume` and `refusal` are history variables that only the properties read.

### AsyncQuestions

One session of one device. What Codex really asked and what was really answered
(`hash`, `askedAt`, `content`) is chosen at the start and unknown to the server
until hooks report it, in any order and any number of times. The hook that asks
is two transactions (`Ask`, `RegisterQuestions`) and the process may crash in
between; the hook that answers is one. `Correlate` is the whole second half of
`correlate_codex_async_question`: every question is matched again against every
receipt, notifications are settled and reopened. `due` holds notifications whose
`expires_at` has passed, whether or not a sweep has noticed.

The reason of a confirmation (`AckRequest.reason`) is any text, is stored as it comes
and decides later whether the confirmation may be taken back. All texts but one are
alike to the code, so two stand for them (`Said`): the default, and the reason the server
gives its own confirmations. `confirmed` and `claimed` are histories of the explicit
confirmations under the one and under the other. Under its own words a client's
confirmation is final (`OwnWordsAreFinal`); under the server's it is not
(`ExplicitConfirmationIsFinal` is violated).

### Delivery

`loop` is the task that has the event loop. A task is a handler with events still
to publish (`todo`) or the expiry loop; `rest` is what is left of the snapshot of
connections it took for the event in progress, `stale` the connections it found
unusable, `at` where it waits and `waiting` who waits for a connection, in order.
A write that drains at once does not give up the loop, one that does not lets any
other task run: those are the two disjuncts of `Send`. `hub` is
`hub._connections`. `ResetDevices` is the local script: a process of its own, which revokes
every device at any moment, between two steps of a broadcast too, and cannot tell the
hub. A connection it finds there (`spared`) stays until a broadcast or its own
endpoint, which looks once a second (`Disconnect`), notices. A check and the write
right after it are one step; what another thread or the script commits in
between counts as committed after the write, and for the two questions of a broadcast, which are
two reads, `Skip` has the case between them. A write ends by draining, failing or timing out (`Resume`);
`CloseStale` and `StaleClosed` are the end of `broadcast`. `since`, `received`
and `skipped` are history variables. This relies on `asyncio.wait_for` running
the write in the same task, as it does since Python 3.12 (the image has 3.13): with
3.11 the loop is given up between the check of a device and the write to it.

`status`, `auto` and `overdue` keep of a notification what decides which events
exist: `AsyncQuestions` and `Approvals` have the details; a client's confirmation may pass
for automatic. A hook or a confirmation
that commits several times is several transactions.

### Approvals

`tale` is what the session really does (which calls need permission, on which
device, which turn their hooks quote, how the device's settings treat them); it is
chosen at the start and unknown to the server, which sees only hooks. `Ask` is
`receive_hook` for a `PermissionRequest` or a `permission_prompt`: `Published` is
`create_notification` (merge with a correlated notification, repeat one of the
same delivery, or insert), `Publish` the silent confirmation. `PlanEnded` is the
end of a planning turn, which publishes and closes the session's other approvals;
its two transactions are one action, since what another handler commits in between
might as well have come first or last. `ToolEnded`, `TurnEnded`, `Acknowledge` with
`AcknowledgeSibling`, `Expire` and `Start` are what closes an approval.
`AcknowledgeSibling` is a step of its own because the handler awaits the broadcast
first, with the notification as it was read before (`confirming`). `note` is the
table and `shown` what a client that applied every event shows. `orderly`, `handled`
and `settled` are histories that say in which sessions `WaitingIsShown` may be
expected: hooks that come once, in time, with no call overlapping another.

Hooks may be repeated, late and in any order. Abstracted: the session's id and
working directory (one of each), texts (a request and a prompt of one device may
always be a pair, which is the worst case for the merge), and more than one
confirmation at a time. No two notifications are equally old (`AtItsOwnTime`):
`created_at` has microseconds and is read by handlers that take turns on the event
loop, so at least one tick lies between two insertions. (Two that are equally near to a third,
one before and one after it, still exist, and then none is chosen.) `expires_at`
follows from the age. A call has at most one prompt, whose hook may be delivered any number
of times, and a call with a prompt has a request (`ApprovalAssumption`). Of the
metadata the call (`detail`), the turn and the transport are kept, which are what
the code decides by.

### EventCatchup

`log` is the `events` table and `status` the `notifications` table; each commit
writes both. A request (`Ask`) is authenticated first, which fixes whether
the device receives bodies, and then answered by `ListExpires` and `ListAnswer`,
by `Baseline`, `Page` or `NotFound` (`event_window`, one locked section), or by
`LookUp` and `Rest` (`events_after`, two sections). `Lose` is an answer that does not
arrive. Roles and reception change at any moment. The client is not in this
repository: the one modelled does what the docstring of `event_window` prescribes.
`changed` and `gap` record what `CaughtUp` excepts. The rows a query selects are
a set of positions of `log`; `ORDER BY sequence LIMIT` takes the first of them, the
rows with fewer than `limit` before them.

### History

`entries` is the table. One answer is four sections of the code, between which
anything may change: `Authenticate`, `Sweep` (the oldest time is computed and what
is due expires), `Total` and `Answer`. `AskAgain` is an answer that was lost.
The status filter stands for every filter: it is the one that rows move in and out
of; texts never change. Ids are random and compared with each other only among rows
of one instant, so they are numbers taken in any order. `steady` records what has
matched since the walk began and `quiet` whether nothing has moved since. A page is
the first rows of a set in the query's order, written as the one bijection that
is in that order. Suggestions
for filters are left out: nothing depends on them.

### Presence

`Report` is the handler of `POST /devices/me/presence`: the row, the decision
whether anything changed for Android (`IsNews`) and the summary that is announced
if so. `announced` is the last summary Android got, from an announcement or from
reading it. Staleness, the end of pauses and deadlines are functions of the clock, as
in the code, which has no timer for them.

### Gateway

`holder` has the operation lock and `at` is the step it is at. `ReconcileFirst`,
`Defer` or `Due`, `Start`, `Verify`, `Schedule` are `renew_once`; `Start` to
`TimeOut` are `run_certbot` with the runner it starts; an operator's `certbot` command
enters at `Start`. `notBefore`, `schedule` and `disk` are the files, which survive
`Crash`; `answer` is what the CA said and the runner has not yet written, which
does not. `demanded` and `lost` are histories. A command names the CA as
`manage.sh` writes it (`--server URL`); `--server=URL` and `--staging`, which
`gateway.py:263` does not recognise, are outside the model. Durations are abstract: the timeout
may strike at any step of certbot. What nginx loads is `loaded`.

## 3. Runs

`tlc -config <cfg> <module>` in this directory; each takes at most three minutes on two cores.

| Run | Instance | Shows |
|---|---|---|
| `devices_strict` | 3 devices, 2 codes, strict, clock 0..2, lifetimes 1 and 2 | the invariants and action properties of `Devices`, who may change what, and that it implements `AdminAuthority` |
| `devices_easy` | 3 devices of which 2 migrated, 1 code, easy mode, clock 0..2, deadlines as dates | access within refresh and the refinement where devices join without a code, tokens live as long as refresh tokens and dates cut deadlines short; when every administrator has expired, the sweep brings one back |
| `async_questions` | 3 questions of one wording in 2 calls, 1 answering hook, plain or structured, 1 device whose silent setting changes, 1 crash | order independence, finality of confirmations in the client's own words, events that agree with the table; retries bring every notification to what the whole session says |
| `async_questions_reserved_reason` | 2 questions in 2 calls, 1 device | *violated*: an explicit confirmation under the reason of the server's own is undone |
| `publication_quota` | 2 devices, minutes of 2 and days of 4 seconds, clock 0..6, one worker | limits, accounting, `Retry-After` |
| `publication_quota_workers` | 1 device, two workers | *violated*: the minute limit does not hold for two workers |
| `delivery` | 2 devices with a connection each, 1 handler and the expiry loop, 1 notification, 2 events, 1 change (the reset script is one) | who hears what; nothing lost on the way; tasks end, overdue notifications end, connections without authorization leave |
| `delivery_expiry_by_query` | 1 connection, 1 notification | *violated*: an expiry that a query noticed is announced to nobody |
| `delivery_reopened_order` | 1 connection, 2 notifications, 2 handlers | *violated*: a reopened question may be taken away by its older acknowledgement |
| `approvals` | 2 devices of one session, one a guest; 2 calls with up to 2 hooks each, in five pairings | clients and table agree; a waiting approval stays visible; the end of a tool call and a guest close only their own |
| `gateway` | interval 3, margin 1, the CA asks to wait 0 or 2, clock 0..5, 2 certificates, 1 command, 1 crash | the CA's deadline is kept; success means nginx serves; a pending reload recovers |
| `clients` | catch-up: 2 notifications (own and another's), pages of 1, 3 events, 1 change of the device; history: 2 notifications (own and another's), pages of 1 and 2, clock 0..2, window 1, 1 change; presence: 2 Windows devices, stale after 1, pauses of 1, clock 0..2, 1 moved deadline | the client's list is right when it is told there is no more, and it gets there; a walk through the history skips and repeats nothing; Android is told what it goes by |

Every bound is a CONSTANT of the module it bounds: `MaxTime` (clocks), `MaxAge` (of
approvals), `MaxCrashes`, `MaxOrders` (operator's commands), `MaxCertificates`,
`MaxMoves` (of deadlines), `MaxClock` and `MaxAlterations` (of rows and of the device
during a walk), `MaxEvents` (events committed), `MaxChanges` (what
administrators, the network, the clock of tokens and crashes do around the tasks).

Why the instances are large enough. *Devices*: an authority race needs an
actor, a target and a third administrator that makes the operation legal, a code
that outlives its issuer needs two lifetimes, and two devices may share a
deadline; the clock reaches every order of the two lifetimes and the code's.
The theorems remove the bounds. *Questions*: ambiguity needs two questions of one
wording, partial answers need two in one call, and an answer that may or may not be
older than a question needs two stamps. With one wording any two questions may be confused.
One device confirms, under both reasons, and publishes silently; what several devices do to
each other's confirmations is proved for any number. *Quota*: three minutes in two days, so both kinds of window
boundary fall on the path. *Delivery*: a handler and the expiry loop overtake one
another at a connection that does not drain (two handlers do in
`delivery_reopened_order`); a third party's failure needs a second
connection; revocation, reset, role change, muting, token replacement, a vanished peer
and a crash each happen at every point of every broadcast. The starting
states include notifications an earlier process acknowledged, so that a late
question may reopen one at once. *Approvals*: confusion needs two calls, and the
five pairings are the ways two calls can be alike or unlike to the code: other tool
in one turn, same tool in another turn, same tool on a guest's device, same tool
through a bridge that quotes no turn and on a silent or switched-off device, and a plan.
The window is shorter than the lifetime, and ages reach past both. (A third
call, which takes 1.8 million states with one tool, changes nothing; the theorems
hold for any number.) *Catch-up*: with
pages of one event the third event is the first that a page leaves behind
another one; an event that the client may not see can stand before, at and after the
cursor. *History*: two rows of one instant, or of two, are what a page of one
separates, and what a page of two ends with; the clock passes the window in the middle of a
walk. With 3 notifications and 2 changes (6.6 million states) the history alone passes as
well. *Presence*: hiding one device behind another needs two; a report, its
staleness and a report after it need three instants. With a clock to 3 and
pauses of 1 and 2 the presence alone passes as well. *Gateway*: two certificates tell
the old from the new; waits of 0 and 2 lie on both sides of what the interval
and the first delay allow. The theorems remove the bounds.

`MC_Clients` checks three modules that share no variable and no step in one run:
`subject` chooses at the start which of them moves. Each property is about one of
them, and fairness is asked of the one that moves.

Deadlock is checked wherever the model cannot stop (the sweep, the startup or a
repeated hook is always possible). `delivery`, `approvals` and `clients` are allowed
to stop: once the bounds are used up, a server without requests has nothing to do.
`PublicationQuota` has no such exception: a request can always be read and then
admitted or refused. Neither has `Gateway`: the worker always comes back.

### Fairness

* `Devices`: the sweep (`_expire_due_loop` calls `enforce_admin_expiry_invariant`
  every minute as long as the server is up). Nothing is assumed of clients.
* `AsyncQuestions`: a client repeats a hook until its handling has finished (the
  reason the code de-duplicates by delivery and by call), and a handler that runs
  finishes or dies. Confirmations, expiry and crashes are not fair.
* `Delivery`: a task that may go on does (asyncio schedules every ready task,
  and every write and close has a timeout), the expiry loop wakes up again, and so does
  the endpoint of each connection, whose wait for its peer ends after a second
  (`EndpointLooks`).
  Requests, connections and draining are not fair: only the timeout forces a
  waiting task on.
* `Gateway`: the worker comes back every minute and in the end gets the lock
  (strong, since others may hold it each time), whoever has the lock goes on, and
  certbot ends by itself or by its timeout (`subprocess.run` kills it). That nginx
  loads a certificate in the end when it is tried again and again is an assumption about
  nginx. The CA, the operator and crashes are not fair.
* `EventCatchup`: the client goes on asking, and not every answer to a request
  of one kind is lost for ever. Commits, changes of roles and the reload a client
  may decide on are not fair. `Presence` and `History` have no liveness: nothing in
  the code happens unless a device reports, and a client may stop reading.

### Disagreements between the program and what it says

* "An explicit acknowledgement is never undone", says `correlate_codex_async_question`, and
  the README that a manual confirmation is always kept. Which acknowledgement is
  explicit is read from its stored reason, and the client is free to give the reason of the
  automatic ones (`AckRequest.reason` has no reserved word). Its confirmation of an
  open question is then undone by the next hook of the session.
* `admit_publication` is documented as "shared across workers and restarts". It
  reads the clock before it takes the write lock, so with two workers a request
  stamped in the last minute may commit after one of the next, write the old minute
  back, and the new minute starts from zero again. One worker, the shipped
  deployment, is not affected (`publication_quota`, and proved).
* `list_notifications` and `list_recent_notifications` call
  `expire_due_notifications` and drop the events. The loop that promises to
  broadcast them then finds nothing, and a connected client that did not itself
  query keeps the expired notification.
* Each handler publishes its own list of events and waits in between, so
  acknowledgements of several notifications that were committed first may reach a
  slow connection after the `notification.created` with which a late question
  takes one of them back. The README promises that this event updates both ends.

Further observations from the models, which no run states as violated because the
properties above are stated with them in mind:

* `acknowledge_legacy_permission_requests` is described as a one-time migration
  (`storage.py:2410`), but every start acknowledges every active
  `PermissionRequest`, those that still wait for the user included. `WaitingIsShown`
  counts them as settled.
* A confirmation looks for the sibling of the approval with the row it read before
  it awaited the broadcast (`main.py:784`). A request that was merged in between
  may make the sibling another call's approval, which is then closed while it waits.
  `WaitingIsShown` is stated for calls that begin while no confirmation is under way.
* A retried hook whose own notification was merged into that of another delivery finds
  neither a partner outside the window nor its own delivery, and inserts a second
  notification, while the README of the program calls retries of a device idempotent.
* `event_window` recommends to load the list and then to ask for the baseline. An
  event committed in between is in neither (`gap`), until the notification's next event.
* A role that changes is noticed by a client that only polls if its cursor becomes
  invisible; otherwise it keeps what it saw before and is not given what it
  may see now (`changed`).
* The decision whether a presence report is news leaves authorization out, the
  summary does not: a device whose deadline was extended comes back without an
  announcement until something else changes (`returned`).

## 4. Proofs

`tlapm` on the eight modules `*Proofs.tla`. Every safety property that a passing run
checks, invariant or action property, is a theorem for every value of the constants;
so is the refinement of `AdminAuthority`. Each proof is the same argument: a
conjunction `IInv` of the property and what it rests on, `Init => IInv`, one lemma per
operation that keeps it, and the properties as its parts or as facts about one step from it.
TLC was asked first where it could answer.

**Devices.** `IInv` is the conjunction of the four invariants the two safety runs
check. None but `TypeOK` is inductive alone: a code is consumed only when its issuer
is an administrator, so the existence of administrators needs the codes' authority;
an update may demote only when another usable administrator exists; access deadlines
are compared with refresh deadlines that are well typed only by `TypeOK`.
`CommitsProtect` follows from `ProtectResult` (whatever `Protect` returns satisfies the
condition) and one step per operation. `LateSweepSameSurvivor` proves what the code's
docstring claims: a sweep that comes late chooses the same survivor as one on time.
`AuthorityImplemented` maps every operation to a step of `AdminAuthority` or a
stutter. It needs `CodesUnique` (the primary key): using up a code closes exactly
one invitation because no other row has the code. `AdminsManage` looks at roles and revocations,
which update, revocation and reset change, and compares the deadlines around
each operation; where `Protect` runs twice, the second survivor must be the first.

**PublicationQuota.** `Invariance` under `OneWorker`. The limit is not inductive: the
row names one minute and one day. `IInv` adds that no request stamped before the
row's windows is still to come (`Ordered`), that nothing was admitted in later
windows (`Fresh`), that the row is exact (`UsageIsExact`) and that a refusal's time
lies beyond the windows that caused it (`RefusalOutlastsUse`); the types are part of it, so no run checks them again. `RowIsExact`,
`BudgetHolds`, `DayQuotaIsKept` and `WaitingIsEnough` follow. Without `OneWorker` `Ordered` fails, which
is the counterexample of `publication_quota_workers`.

**AsyncQuestions.** The four invariants of the run support each other, with three
more: the reasons in `acks` tell confirmations in a client's own words and of silent
devices from everything under the server's reason, a client's under that reason
included (`AcksTellWhoConfirmed`), which is all that lets the correlation spare the one
and take back the other; what is expired was due; and the second transaction of a hook finds
the notification of the first (`HandlingIsStored`), also after a crash. `StatusFollowsReceipts` holds
because a correlation looks at all questions and receipts of the session each time:
the proof never opens what makes a receipt match a question, so it holds for any
rule of matching that depends on the stored rows alone.

**Delivery.** What a connection has heard depends on what tasks still have on their
lists. `IInv` types the lists by the events there are and adds: the hub is the
connections that are open, or broken without the server's knowledge (`HubIsCurrent`);
a task that waits for a connection is in its queue, once, has it at the head of its
list and has written its event to it (`Queues`); and a connection that is not yet registered has heard nothing and is on no
list (`Unheard`), so what happened before its handshake cannot count against it.
`RevokedStayOut` does not promise that the hub holds no revoked device, which the reset
script makes false: it promises that such a connection was there when the script
ran. That it hears nothing is `WrittenToTheEntitled`, that it leaves is a liveness property.
`NewsIsNotLost` then says of each event and connection who is responsible
for it at any time. The facts about lists (`RangeOfAppend`, `FirstAndRest`, `WithoutKeepsOthers`)
are lemmas.

**Approvals.** `IInv` states `EventsTellTheTable` of all notifications at once and adds
`TurnTellsCall`: a request's notification quotes the turn its call was asked in, through every
merge with a prompt that may quote another. With it, `ToolEndsAreTheirOwn` holds
although a resolution never looks at the call. `WaitingStaysShown` is the deep one; its invariant (`ShownInv`) says that in an
undisturbed session one call waits at a time and every hook of the earlier ones was
handled (`OneAtATime`); that a prompt without its request is therefore of the call that waits, came
before the request (`PromptsAreEarly`) and pairs with no other request
(`PromptsAreAlone`); that each handled request has its notification (`HandledAreTold`); and
that a confirmation under way, which goes by the row it read earlier, pairs with
no prompt, or no prompt is to come any more (`ReadsAreRight`). That is what makes a request find its own prompt and no one
else's, and a stale confirmation harmless. The search for the
nearest finds something because ages are distinct and natural numbers have a least
element (`SomeIsNewest`).

**EventCatchup.** `CaughtUp` speaks of the moment there is no more. Before it,
whatever is wrong on the client's list must be on its way: of every notification the
list is right, or an event after the cursor is about it (`ViewFollows`). Reading such
an event is enough because the newest event of a notification tells its status
(`LogTellsStatus`), and the next answer goes on where the last ended because the cursor
is found and the request is answered for the device as it is (`Cursors`, `Requests`),
unless the device was `changed`.

**History.** What is on the pages is in the order of the history and ends at the
cursor (`GivenInOrder`); whatever matched throughout is on them or behind the cursor
(`NothingIsSkipped`); and of a table at rest the pages are full (`PagesAreFull`), from
which the number of pages follows. The lemmas about the order say that a page is the
first rows of what is behind the cursor, and what is behind its last row.

**Presence.** `ReturnIsAnnounced` is not inductive: it speaks of somebody, and the
device whose pause has ended may be the next to lose its authorization while another is
unannounced. So the reason why Android need not have been told is kept for each unlocked
device (`EveryReturnIsAnnounced`).

`ClientsProofs` proves the three again of their composition (`WhatClientsRead`), whose
`subject` moves one of them.

**Gateway.** `IInv` is `TypeOK`, `Covered` and `Sound`. The embargo is about a step
(`Send`) and what was demanded before it: `Covered` says that every demand is
in the runner's file, or is the answer that the runner of that CA has in hand, unless a
process died with it. At `Send` no answer is in hand (`TypeOK` ties it to the step
`"asking"`), so the file covers the demand and `EmbargoRespected` follows. `Sound`
says that where a renewal may still end well, at its check and at its
schedule, the certificate on disk is what an activated nginx serves; only the holder of
the lock writes the certificate, and it does so at neither step.
`SuccessIsServed` follows. Both hold for any interval, margin, waiting time, and number
of commands, certificates and restarts.

Assumed are the named `ASSUME`s of the modules, which TLC evaluates on every run, and
`OneWorker` where it is stated.

**Induction.** The library's rules of induction take an operator, which the provers
cannot instantiate. Where a proof needs induction over numbers or lists
(`LeastElement`, `LeastAge`, `WithoutKeepsOthers`, the pages), it takes a least counterexample: strict
inclusion of finite sets is well-founded, and that is a fact about a set. Recursion is therefore
written as functions (`Without` in `Delivery`), and the rows of a query as sets and
bijections instead of sorted lists.

**What the proofs changed.** The attempt to prove `WaitingIsShown` failed where two
notifications are equally old, and with three calls TLC then found the counterexample: two
requests of one age are equally near to a prompt, which then joins neither. The program's times have
microseconds, so the model was wrong, not the program, and
`AtItsOwnTime` says so. `NothingIsSkipped` and the tie of the hub to the stages are
other strengthenings the proofs asked for.

**Model-checked only.** Liveness, which the prover does not reach: `AuthorityRecovers`,
`AnswersEventuallySettle`, `EveryTaskEnds`, `OverdueEnds`, `UnauthorizedLeave`,
`PendingReloadRecovers` and `CatchUpEnds`. The four violated properties are refuted by their runs and need no proof.

### Assumptions of the models

A transaction takes no time and its clock reading is the time of its commit
(except in `PublicationQuota`, where this is the point). Clocks do not go back.
SQLite transactions are atomic and durable. Random identifiers and tokens are
unique. One process serves WebSockets.

## 5. Not modelled

Text functions (hook titles, classification, redaction, fingerprints) are left to
the repository's table-driven tests: fingerprints are values that are equal or
not. So are the text filters of the history and the suggestions for them. Schemas, certificates, network detection, logging and the deployment
scripts keep no state that others depend on. `RequestBodyLimitMiddleware` serves one
request with local variables only, and its one race (the timeout against the
last part of a body) is decided inside `asyncio.timeout`.

Of the modelled parts: the notification of a finished turn ("completed"), whose
de-duplication by session and turn concerns only itself; the branch of
`resolve_pending_permission` for notifications from before the transport was recorded;
`backfill_hook_expiry` and `acknowledge_noise_hook_notifications` at startup; a second
worker process (except for the quota); the container's bootstrap and
`validate_config`; the spellings `--server=URL` and `--staging` of an operator's command. How an announcement of presence is published is the subject of
`Delivery`: one broadcast may overtake another at a slow connection.

Wanted next: what the liveness properties rest on as safety (the lists of a task, and what
a client has yet to read, shrink with each step), which can be proved without fairness;
abstract specifications of `EventCatchup` (a list that follows the table) and of `Delivery`,
implemented by the modules.
