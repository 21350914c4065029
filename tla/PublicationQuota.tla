-------------------------- MODULE PublicationQuota --------------------------
(***************************************************************************)
(* The publication budget of a device: app/storage.py admit_publication,   *)
(* the first thing POST /notifications and POST /hooks do.                 *)
(*                                                                         *)
(* A worker process handles one such request at a time (the handlers run   *)
(* on its event loop and do not yield here), but it reads the clock before *)
(* it asks SQLite for the write lock, and another worker may commit in     *)
(* between.  A device without a row in publication_usage behaves like one  *)
(* with an empty row.                                                      *)
(***************************************************************************)
EXTENDS Integers

CONSTANTS
    Device, Worker,
    MinuteLength,   \* seconds of a minute
    DayLength,      \* seconds of a day
    PerMinute,      \* SESSION_NOTIFY_PUBLISH_PER_MINUTE
    BytesPerDay,    \* SESSION_NOTIFY_PUBLISH_BYTES_PER_DAY
    Size,           \* payload sizes
    Idle,           \* a worker without such a request
    MaxTime         \* bound of the clock

ASSUME WindowAssumption ==
    /\ MinuteLength \in Nat \ {0}
    /\ DayLength \in Nat \ {0}
    /\ MaxTime \in Nat
ASSUME LimitAssumption ==
    /\ PerMinute \in Nat \ {0}
    /\ BytesPerDay \in Nat \ {0}
    /\ Size \subseteq Nat
ASSUME IdleAssumption == Idle \notin [device : Device, size : Size, time : 0 .. MaxTime]

VARIABLES
    now,      \* the clock, in seconds
    usage,    \* publication_usage: the last minute and day, and their use
    request,  \* the request each worker handles: device, size, time it read
    accepted, \* history: requests admitted per device and minute
    volume,   \* history: bytes admitted per device and day
    refusal   \* history: what a device was last told, and not yet tried

vars == <<now, usage, request, accepted, volume, refusal>>

Time == 0 .. MaxTime
MinuteOf(t) == t \div MinuteLength
DayOf(t) == t \div DayLength
Minutes == 0 .. MinuteOf(MaxTime)
Days == 0 .. DayOf(MaxTime)

Usage ==
    [minute : Minutes, count : 0 .. PerMinute, day : Days, bytes : 0 .. BytesPerDay]
Request == [device : Device, size : Size, time : Time]
NoRefusal == [code |-> "none", until |-> 0]
Refusal == [code : {"none", "publish_rate_limited", "publish_daily_quota"},
            until : 0 .. MaxTime + MinuteLength + DayLength]

-----------------------------------------------------------------------------
\* What is used of a device's minute and day at time t.
CountAlways(d, t) == usage[d].count
Count(d, t) == IF usage[d].minute = MinuteOf(t) THEN usage[d].count ELSE 0
BytesAnyDay(d, t) == 0
Bytes(d, t) == IF usage[d].day = DayOf(t) THEN usage[d].bytes ELSE 0

RateExceeded(d, t) == Count(d, t) > PerMinute
RateLimited(d, t) == Count(d, t) >= PerMinute
AtQuota(d, size, t) == Bytes(d, t) > BytesPerDay
OverQuota(d, size, t) == Bytes(d, t) + size > BytesPerDay

\* Seconds to the end of the window of time t: the Retry-After of a refusal.
SinceStart(t, length) == t % length
Remaining(t, length) == length - (t % length)

\* int(utc_now().timestamp()), before the transaction.
Arrive(w, d, size) ==
    /\ request[w] = Idle
    /\ request' = [request EXCEPT ![w] = [device |-> d, size |-> size, time |-> now]]
    /\ UNCHANGED <<now, usage, accepted, volume, refusal>>

\* The transaction, for the request of device d read at time t.
Admit(w) ==
    /\ request[w] # Idle
    /\ LET d == request[w].device
           size == request[w].size
           t == request[w].time
       IN  /\ ~RateLimited(d, t)
           /\ ~OverQuota(d, size, t)
           /\ usage' = [usage EXCEPT ![d] =
                 [minute |-> MinuteOf(t), count |-> Count(d, t) + 1,
                  day |-> DayOf(t), bytes |-> Bytes(d, t) + size]]
           /\ accepted' = [accepted EXCEPT ![d][MinuteOf(t)] = @ + 1]
           /\ volume' = [volume EXCEPT ![d][DayOf(t)] = @ + size]
           /\ refusal' = [refusal EXCEPT ![d] = NoRefusal]
    /\ request' = [request EXCEPT ![w] = Idle]
    /\ UNCHANGED now

Refuse(w) ==
    /\ request[w] # Idle
    /\ LET d == request[w].device
           t == request[w].time
       IN  \/ /\ RateLimited(d, t)
              /\ refusal' = [refusal EXCEPT ![d] =
                    [code |-> "publish_rate_limited", until |-> t + Remaining(t, MinuteLength)]]
           \/ /\ ~RateLimited(d, t)
              /\ OverQuota(d, request[w].size, t)
              /\ refusal' = [refusal EXCEPT ![d] =
                    [code |-> "publish_daily_quota", until |-> t + Remaining(t, DayLength)]]
    /\ request' = [request EXCEPT ![w] = Idle]
    /\ UNCHANGED <<now, usage, accepted, volume>>

\* A worker dies with its request; the table survives.
Restart(w) ==
    /\ request[w] # Idle
    /\ request' = [request EXCEPT ![w] = Idle]
    /\ UNCHANGED <<now, usage, accepted, volume, refusal>>

Tick ==
    /\ now < MaxTime
    /\ now' = now + 1
    /\ UNCHANGED <<usage, request, accepted, volume, refusal>>

-----------------------------------------------------------------------------
Init ==
    /\ now = 0
    /\ usage = [d \in Device |-> [minute |-> 0, count |-> 0, day |-> 0, bytes |-> 0]]
    /\ request = [w \in Worker |-> Idle]
    /\ accepted = [d \in Device |-> [m \in Minutes |-> 0]]
    /\ volume = [d \in Device |-> [y \in Days |-> 0]]
    /\ refusal = [d \in Device |-> NoRefusal]

Next ==
    \/ \E w \in Worker, d \in Device, size \in Size : Arrive(w, d, size)
    \/ \E w \in Worker : Admit(w) \/ Refuse(w) \/ Restart(w)
    \/ Tick

Spec == Init /\ [][Next]_vars

-----------------------------------------------------------------------------
(***************************************************************************)
(* Properties.                                                             *)
(***************************************************************************)
TypeOK ==
    /\ now \in Time
    /\ usage \in [Device -> Usage]
    /\ request \in [Worker -> Request \union {Idle}]
    /\ accepted \in [Device -> [Minutes -> Nat]]
    /\ volume \in [Device -> [Days -> Nat]]
    /\ refusal \in [Device -> Refusal]

\* No device publishes more than its budget of a UTC minute, through retries,
\* refusals and restarts ("the count is kept in SQLite; restarts and several
\* processes sharing the database do not reset it").
MinuteLimitHolds == \A d \in Device, m \in Minutes : accepted[d][m] <= PerMinute

\* The same for the bytes of a UTC day.
DayQuotaHolds == \A d \in Device, y \in Days : volume[d][y] <= BytesPerDay

\* A device that waits as long as Retry-After said finds the window that
\* refused it empty: it is not refused again for the same reason.
RetryAfterIsHonest ==
    \A d \in Device :
       now >= refusal[d].until =>
          /\ refusal[d].code = "publish_rate_limited" => Count(d, now) = 0
          /\ refusal[d].code = "publish_daily_quota" => Bytes(d, now) = 0

\* A rejected request costs nothing and an admitted one is counted exactly
\* once: the table holds the use of the minute and the day it names.
UsageIsExact ==
    \A d \in Device :
       /\ usage[d].count = accepted[d][usage[d].minute]
       /\ usage[d].bytes = volume[d][usage[d].day]
=============================================================================
