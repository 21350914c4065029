------------------------------ MODULE Gateway ------------------------------
(***************************************************************************)
(* The HTTPS gateway's renewal of its certificate:                         *)
(* deploy/https/gateway/gateway.py and certbot_runner.py.                  *)
(*                                                                         *)
(* The worker's loop, an operator's `renew` and an operator's `certbot`    *)
(* command take turns under one file lock.  Certbot is a process of its    *)
(* own that asks the CA, once or more; what the CA answers is written to a *)
(* file by the runner, and the next attempt to another file by whoever     *)
(* called it.  The processes of the container end together at any point,   *)
(* and certbot is killed when it takes too long; durations are abstract,   *)
(* so that may be at any of its steps.                                     *)
(***************************************************************************)
EXTENDS Integers, Sequences

CONSTANTS
    INTERVAL,   \* of the regular attempts, and of a refusal without a date
    Base,       \* delay after the first failure
    Margin,     \* added to the CA's date
    Demands,    \* how long the CA may ask to wait
    MaxTime, MaxCertificates, MaxOrders, MaxCrashes  \* bounds

CA == {"production", "staging"}
Caller == {"worker", "renew", "command"}
Nobody == "nobody"

ASSUME GatewayAssumption ==
    /\ {INTERVAL, Base, Margin} \subseteq Nat
    /\ Demands \subseteq Nat
    /\ {MaxTime, MaxCertificates, MaxOrders, MaxCrashes} \subseteq Nat

VARIABLES
    now,
    holder,     \* of the operation lock, and what it does next
    at,
    ca,         \* the CA of the certbot that runs
    ok,         \* whether the holder's work has succeeded so far
    answer,     \* the CA's demand that the runner has not yet recorded, if any
    notBefore,  \* BACKOFF and its staging counterpart
    schedule,   \* STATE: failures and next_attempt
    disk,       \* the certificate in LIVE, 0 if there is none
    loaded,     \* the certificate nginx serves
    activated,  \* nginx is configured to serve one
    demanded,   \* history: the latest time a CA asked to wait for
    lost,       \* history: CAs one of whose demands died with the process
    orders,     \* the operator's commands and the crashes so far
    crashes

files == <<notBefore, schedule, disk>>
nginx == <<loaded, activated>>
work == <<holder, at, ca, ok, answer>>
demands == <<demanded, lost>>
bounds == <<orders, crashes>>
vars == <<now, work, files, nginx, demands, bounds>>

Step == {"start", "reconcile", "check", "certbot", "asking", "verify", "schedule"}
None == -1
Most(a, b) == IF a < b THEN b ELSE a
Least(a, b) == IF a < b THEN a ELSE b

-----------------------------------------------------------------------------
(***************************************************************************)
(* Taking turns.                                                           *)
(***************************************************************************)
\* renew_once looks at the disk first; a command goes straight to certbot.
ChecksFirst(caller) == IF caller = "command" THEN "start" ELSE "check"
First(caller) == IF caller = "command" THEN "start" ELSE "reconcile"

\* operation_lock.  Only a command may choose the CA.
Enter(caller, authority) ==
    /\ holder = Nobody
    /\ caller = "command" \/ authority = "production"
    /\ orders' = IF caller = "worker" THEN orders ELSE orders + 1
    /\ orders' <= MaxOrders
    /\ holder' = caller
    /\ ca' = authority
    /\ at' = First(caller)
    /\ ok' = TRUE
    /\ UNCHANGED <<now, answer, files, nginx, demands, crashes>>

Leave(result) ==
    /\ holder' = Nobody
    /\ at' = "start"
    /\ ok' = result

\* reconcile: without a certificate, or before nginx is to serve one, it does
\* nothing.  Nginx may or may not load the certificate, and any check may fail.
Reconcile(good) ==
    /\ loaded' \in IF activated THEN {loaded, disk} ELSE {loaded}
    /\ good => ~activated \/ loaded' = disk
    /\ UNCHANGED activated

\* renew_once: first of all what is on disk.
ReconcileFirst(good) ==
    /\ at = "reconcile"
    /\ Reconcile(good)
    /\ at' = "check"
    /\ ok' = good
    /\ UNCHANGED <<now, holder, ca, answer, files, demands, bounds>>

\* remaining_delay: an operator may skip the regular interval only.
Deadline(manual) ==
    Most(notBefore["production"], IF manual THEN 0 ELSE schedule.next)

\* Not yet.
Defer ==
    /\ at = "check"
    /\ \/ disk = 0 /\ Leave(TRUE)
       \/ disk # 0 /\ Deadline(holder = "renew") > now /\ Leave(ok)
    /\ UNCHANGED <<now, ca, answer, files, nginx, demands, bounds>>

Due ==
    /\ at = "check"
    /\ disk # 0 /\ Deadline(holder = "renew") <= now
    /\ at' = "start"
    /\ UNCHANGED <<now, holder, ca, ok, answer, files, nginx, demands, bounds>>

-----------------------------------------------------------------------------
(***************************************************************************)
(* run_certbot and certbot_runner.py.                                      *)
(***************************************************************************)
\* Back in its caller: a command ends, a renewal goes on to verify.
ReturnToVerify(result) == at' = "verify" /\ ok' = result /\ UNCHANGED holder
Return(result) ==
    IF holder = "command" THEN Leave(result)
    ELSE at' = "verify" /\ ok' = result /\ UNCHANGED holder

Embargoed == notBefore[ca] > now
Start ==
    /\ at = "start" /\ holder # Nobody
    /\ IF Embargoed THEN Return(FALSE) ELSE at' = "certbot" /\ UNCHANGED <<holder, ok>>
    /\ UNCHANGED <<now, ca, answer, files, nginx, demands, bounds>>

\* Session.send: the embargo is read again before each request.
AskAnyway == TRUE
MayAsk == ~Embargoed
Send ==
    /\ at = "certbot"
    /\ MayAsk
    /\ at' = "asking"
    /\ UNCHANGED <<now, holder, ca, ok, answer, files, nginx, demands, bounds>>

\* An answer that asks for nothing; a refusal with a date, by Retry-After or in
\* its text; one for the rate without a date.
Answered ==
    /\ at = "asking" /\ answer = None
    /\ at' = "certbot"
    /\ UNCHANGED <<now, holder, ca, ok, answer, files, nginx, demands, bounds>>

Refused(wait) ==
    /\ at = "asking" /\ answer = None
    /\ answer' = now + wait + Margin
    /\ demanded' = [demanded EXCEPT ![ca] = Most(@, now + wait)]
    /\ UNCHANGED <<now, holder, at, ca, ok, files, nginx, lost, bounds>>

Limited ==
    /\ at = "asking" /\ answer = None
    /\ answer' = now + INTERVAL
    /\ UNCHANGED <<now, holder, at, ca, ok, files, nginx, demands, bounds>>

\* record_response: a deadline is never brought forward.
Later(deadline) == Most(notBefore[ca], deadline)
Record ==
    /\ answer # None
    /\ notBefore' = [notBefore EXCEPT ![ca] = Later(answer)]
    /\ answer' = None
    /\ at' = "certbot"
    /\ UNCHANGED <<now, holder, ca, ok, schedule, disk, nginx, demands, bounds>>

\* A new certificate is written, before certbot ends.
Obtain ==
    /\ at = "certbot"
    /\ ca = "production" /\ disk < MaxCertificates
    /\ disk' = disk + 1
    /\ UNCHANGED <<now, work, notBefore, schedule, nginx, demands, bounds>>

Finish(result) ==
    /\ at = "certbot"
    /\ Return(result)
    /\ UNCHANGED <<now, ca, answer, files, nginx, demands, bounds>>

\* What dies with certbot.
Forget ==
    /\ answer' = None
    /\ lost' = IF answer = None THEN lost ELSE lost \union {ca}

\* subprocess.run kills certbot after half an hour; a command ends with that.
TimeOut ==
    /\ at \in {"certbot", "asking"}
    /\ Return(FALSE)
    /\ Forget
    /\ UNCHANGED <<now, ca, files, nginx, demanded, bounds>>

-----------------------------------------------------------------------------
(***************************************************************************)
(* After certbot.                                                          *)
(***************************************************************************)
KeepResult(good) == ok
Also(good) == ok /\ good
Verify(good) ==
    /\ at = "verify"
    /\ Reconcile(good)
    /\ ok' = Also(good)
    /\ at' = "schedule"
    /\ UNCHANGED <<now, holder, ca, answer, files, demands, bounds>>

\* schedule_result.
Doubled == <<1, 2, 4, 8, 16, 32>>
RetryDelay(failures) == Least(INTERVAL, Base * Doubled[Least(failures, Len(Doubled))])
Rescheduled ==
    LET failures == IF ok THEN 0 ELSE schedule.failures + 1
        delay == IF ok THEN INTERVAL ELSE RetryDelay(failures)
    IN  [failures |-> failures, next |-> Most(now + delay, notBefore["production"])]

Schedule ==
    /\ at = "schedule"
    /\ schedule' = Rescheduled
    /\ Leave(ok)
    /\ UNCHANGED <<now, ca, answer, notBefore, disk, nginx, demands, bounds>>

-----------------------------------------------------------------------------
(***************************************************************************)
(* Around it.                                                              *)
(***************************************************************************)
\* The container stops and starts again; nginx loads what is on disk.
Crash ==
    /\ crashes < MaxCrashes
    /\ crashes' = crashes + 1
    /\ Leave(FALSE)
    /\ Forget
    /\ loaded' = IF activated THEN disk ELSE loaded
    /\ UNCHANGED <<now, ca, files, activated, demanded, orders>>

\* The operator has nginx serve the certificate.
Activate ==
    /\ ~activated /\ disk # 0
    /\ activated' = TRUE
    /\ loaded' = disk
    /\ UNCHANGED <<now, work, files, demands, bounds>>

Tick ==
    /\ now < MaxTime
    /\ now' = now + 1
    /\ UNCHANGED <<work, files, nginx, demands, bounds>>

Init ==
    /\ now = 0
    /\ holder = Nobody /\ at = "start" /\ ca = "production"
    /\ ok = TRUE /\ answer = None
    /\ notBefore = [authority \in CA |-> 0]
    /\ schedule = [failures |-> 0, next |-> 0]
    /\ disk = 0 /\ loaded = 0 /\ activated = FALSE
    /\ demanded = [authority \in CA |-> 0] /\ lost = {}
    /\ orders = 0 /\ crashes = 0

Renewal ==
    \/ \E good \in BOOLEAN : ReconcileFirst(good) \/ Verify(good) \/ Finish(good)
    \/ Defer \/ Due \/ Start \/ Send \/ Answered \/ Record \/ Obtain
    \/ TimeOut \/ Schedule

Next ==
    \/ Renewal
    \/ \E caller \in Caller, authority \in CA : Enter(caller, authority)
    \/ \E wait \in Demands : Refused(wait)
    \/ Limited \/ Crash \/ Activate \/ Tick

Spec == Init /\ [][Next]_vars

\* The worker comes back every minute, whoever has the lock ends, certbot at the
\* latest by its timeout; and nginx does not fail to load a certificate forever.
FairSpec ==
    /\ Spec
    /\ SF_vars(\E authority \in CA : Enter("worker", authority))
    /\ WF_vars(\E good \in BOOLEAN : ReconcileFirst(good) \/ Verify(good))
    /\ WF_vars(Defer \/ Due \/ Start \/ Schedule \/ TimeOut)
    /\ SF_vars(ReconcileFirst(TRUE))

-----------------------------------------------------------------------------
(***************************************************************************)
(* Properties.                                                             *)
(***************************************************************************)
TypeOK ==
    /\ now \in Nat
    /\ holder \in Caller \union {Nobody}
    /\ at \in Step
    /\ ca \in CA
    /\ ok \in BOOLEAN
    /\ answer \in Nat \union {None}
    /\ notBefore \in [CA -> Nat]
    /\ schedule.failures \in Nat /\ schedule.next \in Nat
    /\ disk \in Nat /\ loaded \in Nat /\ activated \in BOOLEAN
    /\ demanded \in [CA -> Nat] /\ lost \subseteq CA
    /\ orders \in Nat /\ crashes \in Nat
    /\ answer # None => at = "asking"
    /\ holder = Nobody => at = "start"
    /\ holder = "command" => at \in {"start", "certbot", "asking"}
    /\ activated => disk # 0

\* Nobody asks a CA before the time it asked to wait for - not the fallback of
\* the same certbot, nor a renewal or command of anybody else, nor after a
\* restart - unless the process died between the answer and the record.
Asks == at = "certbot" /\ at' = "asking"
EmbargoHolds ==
    [][Asks => now >= demanded[ca] \/ ca \in lost]_vars

\* A renewal that reports success leaves nginx with the certificate on disk,
\* also when it did not ask the CA, or another process wrote the certificate.
Served == activated => loaded = disk
SuccessMeansServed ==
    [][holder' = Nobody /\ ok' /\ holder \in {"worker", "renew"} => Served']_vars

\* "Recover a pending reload even when the CA is unavailable or rate limited"
\* (reconcile): the certificate on disk is served in the end, whatever the CA
\* answers and however long it asks to wait.
PendingReloadRecovers == []<>Served
=============================================================================
