----------------------- MODULE PublicationQuotaProofs -----------------------
(***************************************************************************)
(* The publication budget holds for every number of devices, every budget  *)
(* and every length of the windows, as long as one worker serves the       *)
(* database.  The runs show that the assumption is needed.                 *)
(***************************************************************************)
EXTENDS PublicationQuota, TLAPS

OneWorker == \A v, w \in Worker : v = w

-----------------------------------------------------------------------------
(***************************************************************************)
(* Windows.                                                                *)
(***************************************************************************)
\* A later second is in no earlier window.
LEMMA WindowsAreOrdered ==
    ASSUME NEW length \in Nat \ {0}, NEW s \in Nat, NEW t \in Nat, s <= t
    PROVE  /\ s \div length \in Nat
           /\ s \div length <= t \div length
OBVIOUS

\* The remaining seconds of a window lead to the first second after it.
LEMMA RemainingLeadsOut ==
    ASSUME NEW length \in Nat \ {0}, NEW s \in Nat, NEW t \in Nat,
           s + Remaining(s, length) <= t
    PROVE  s \div length < t \div length
BY DEF Remaining

LEMMA RemainingBounds ==
    ASSUME NEW length \in Nat \ {0}, NEW s \in Nat
    PROVE  Remaining(s, length) \in 1 .. length
BY DEF Remaining

-----------------------------------------------------------------------------
(***************************************************************************)
(* The inductive invariant.  The budget itself is not inductive: the row   *)
(* names one minute and one day only, so it must be known that no request  *)
(* of an earlier window is still to come (Ordered), that nothing was       *)
(* admitted after the window the row names (Fresh), that the row is exact  *)
(* for it (UsageIsExact) and where a refusal leads (RefusalOutlastsUse).   *)
(***************************************************************************)
Ordered ==
    \A d \in Device :
       /\ usage[d].minute <= MinuteOf(now)
       /\ usage[d].day <= DayOf(now)
       /\ \A w \in Worker : request[w] # Idle =>
             /\ request[w].time <= now
             /\ usage[d].minute <= MinuteOf(request[w].time)
             /\ usage[d].day <= DayOf(request[w].time)

Fresh ==
    \A d \in Device :
       /\ \A m \in Minutes : m > usage[d].minute => accepted[d][m] = 0
       /\ \A y \in Days : y > usage[d].day => volume[d][y] = 0

RefusalOutlastsUse ==
    \A d \in Device, t \in Nat : t >= refusal[d].until =>
       /\ refusal[d].code = "publish_rate_limited" => usage[d].minute < MinuteOf(t)
       /\ refusal[d].code = "publish_daily_quota" => usage[d].day < DayOf(t)

IInv ==
    /\ TypeOK
    /\ Ordered
    /\ Fresh
    /\ UsageIsExact
    /\ MinuteLimitHolds
    /\ DayQuotaHolds
    /\ RefusalOutlastsUse

\* Every second of the run is in one of the windows.
LEMMA TimeHasWindows ==
    ASSUME NEW t \in Time
    PROVE  /\ t \in Nat
           /\ MinuteOf(t) \in Minutes /\ MinuteOf(t) \in Nat
           /\ DayOf(t) \in Days /\ DayOf(t) \in Nat
BY WindowsAreOrdered, WindowAssumption DEF Time, Minutes, Days, MinuteOf, DayOf

\* A request in progress is one of a device, at a second of the run.
LEMMA RequestType ==
    ASSUME TypeOK, NEW w \in Worker, request[w] # Idle
    PROVE  /\ request[w] \in Request
           /\ request[w].device \in Device
           /\ request[w].size \in Size /\ request[w].size \in Nat
           /\ request[w].time \in Time
BY LimitAssumption DEF TypeOK, Request

-----------------------------------------------------------------------------
(***************************************************************************)
(* Each action preserves it.                                               *)
(***************************************************************************)
LEMMA ArriveStep ==
    ASSUME IInv, NEW w \in Worker, NEW d \in Device, NEW size \in Size, Arrive(w, d, size)
    PROVE  IInv'
<1> USE DEF Arrive
<1>1. TypeOK'
  BY DEF IInv, TypeOK, Request
<1>2. Ordered'
  BY TimeHasWindows DEF IInv, TypeOK, Ordered
<1>3. (Fresh /\ UsageIsExact /\ MinuteLimitHolds /\ DayQuotaHolds /\ RefusalOutlastsUse)'
  BY DEF IInv, Fresh, UsageIsExact, MinuteLimitHolds, DayQuotaHolds, RefusalOutlastsUse
<1> QED  BY <1>1, <1>2, <1>3 DEF IInv

LEMMA RestartStep ==
    ASSUME IInv, NEW w \in Worker, Restart(w)
    PROVE  IInv'
<1> USE DEF Restart
<1>1. TypeOK'
  BY DEF IInv, TypeOK
<1>2. Ordered'
  BY DEF IInv, TypeOK, Ordered
<1>3. (Fresh /\ UsageIsExact /\ MinuteLimitHolds /\ DayQuotaHolds /\ RefusalOutlastsUse)'
  BY DEF IInv, Fresh, UsageIsExact, MinuteLimitHolds, DayQuotaHolds, RefusalOutlastsUse
<1> QED  BY <1>1, <1>2, <1>3 DEF IInv

LEMMA TickStep ==
    ASSUME IInv, Tick
    PROVE  IInv'
<1> USE DEF Tick
<1>1. TypeOK'
  BY WindowAssumption DEF IInv, TypeOK, Time
<1>2. now \in Time /\ now' \in Time
  BY <1>1 DEF IInv, TypeOK
<1>3. MinuteOf(now) <= MinuteOf(now') /\ DayOf(now) <= DayOf(now')
  BY <1>2, WindowsAreOrdered, WindowAssumption DEF Time, MinuteOf, DayOf
<1>4. Ordered'
  <2> SUFFICES ASSUME NEW d \in Device  PROVE Ordered!(d)'
    BY DEF Ordered
  <2>1. usage[d].minute \in Nat /\ usage[d].day \in Nat
    BY DEF IInv, TypeOK, Usage, Minutes, Days
  <2>2. (usage[d].minute <= MinuteOf(now))' /\ (usage[d].day <= DayOf(now))'
    BY <1>2, <1>3, <2>1, TimeHasWindows DEF IInv, Ordered
  <2>3. ASSUME NEW w \in Worker, request[w] # Idle  PROVE request[w].time <= now'
    BY <1>2, <2>3, RequestType DEF IInv, Ordered, Time
  <2> QED  BY <2>2, <2>3 DEF IInv, Ordered
<1>5. (Fresh /\ UsageIsExact /\ MinuteLimitHolds /\ DayQuotaHolds /\ RefusalOutlastsUse)'
  BY DEF IInv, Fresh, UsageIsExact, MinuteLimitHolds, DayQuotaHolds, RefusalOutlastsUse
<1> QED  BY <1>1, <1>4, <1>5 DEF IInv

\* With Ordered, the row of a device names no window later than a request's.
LEMMA RowBehindRequest ==
    ASSUME TypeOK, Ordered, NEW w \in Worker, request[w] # Idle, NEW d \in Device
    PROVE  /\ usage[d].minute \in Nat /\ usage[d].minute <= MinuteOf(request[w].time)
           /\ usage[d].day \in Nat /\ usage[d].day <= DayOf(request[w].time)
<1>1. usage[d].minute \in Nat /\ usage[d].day \in Nat
  BY DEF TypeOK, Usage, Minutes, Days
<1> QED  BY <1>1 DEF Ordered

LEMMA RefuseStep ==
    ASSUME IInv, NEW w \in Worker, Refuse(w)
    PROVE  IInv'
<1> DEFINE d == request[w].device
           size == request[w].size
           t == request[w].time
<1>1. request[w] # Idle /\ d \in Device /\ size \in Nat /\ t \in Time /\ t \in Nat
  BY RequestType, TimeHasWindows DEF Refuse, IInv
<1>2. /\ UNCHANGED <<now, usage, accepted, volume>>
      /\ request' = [request EXCEPT ![w] = Idle]
      /\ \/ /\ RateLimited(d, t)
            /\ refusal' = [refusal EXCEPT ![d] =
                  [code |-> "publish_rate_limited", until |-> t + Remaining(t, MinuteLength)]]
         \/ /\ OverQuota(d, size, t)
            /\ refusal' = [refusal EXCEPT ![d] =
                  [code |-> "publish_daily_quota", until |-> t + Remaining(t, DayLength)]]
  BY DEF Refuse
<1>3. TypeOK'
  <2>1. /\ t + Remaining(t, MinuteLength) \in 0 .. MaxTime + MinuteLength + DayLength
        /\ t + Remaining(t, DayLength) \in 0 .. MaxTime + MinuteLength + DayLength
    <3>1. Remaining(t, MinuteLength) \in 1 .. MinuteLength
      BY <1>1, RemainingBounds, WindowAssumption
    <3>2. Remaining(t, DayLength) \in 1 .. DayLength
      BY <1>1, RemainingBounds, WindowAssumption
    <3>3. t \in 0 .. MaxTime
      BY <1>1 DEF Time
    <3> HIDE DEF t
    <3> QED  BY <3>1, <3>2, <3>3, WindowAssumption
  <2>2. /\ [code |-> "publish_rate_limited",
             until |-> t + Remaining(t, MinuteLength)] \in Refusal
        /\ [code |-> "publish_daily_quota",
             until |-> t + Remaining(t, DayLength)] \in Refusal
    BY <2>1 DEF Refusal
  <2>3. refusal' \in [Device -> Refusal]
    BY <1>1, <1>2, <2>2 DEF IInv, TypeOK
  <2> QED  BY <1>2, <2>3 DEF IInv, TypeOK
<1>4. Ordered'
  BY <1>2 DEF IInv, TypeOK, Ordered
<1>5. RefusalOutlastsUse'
  <2> SUFFICES ASSUME NEW e \in Device, NEW u \in Nat, (u >= refusal[e].until)'
               PROVE  RefusalOutlastsUse!(e, u)!2'
    BY DEF RefusalOutlastsUse
  <2>1. CASE e # d
    BY <1>1, <1>2, <2>1 DEF IInv, TypeOK, RefusalOutlastsUse
  <2>2. CASE e = d
    <3>1. /\ usage[d].minute \in Nat /\ usage[d].minute <= MinuteOf(t)
          /\ usage[d].day \in Nat /\ usage[d].day <= DayOf(t)
      BY <1>1, RowBehindRequest DEF IInv
    <3>2. CASE refusal'[d] = [code |-> "publish_rate_limited",
                              until |-> t + Remaining(t, MinuteLength)]
      <4>1. t + Remaining(t, MinuteLength) <= u
        BY <2>2, <3>2, <1>1, RemainingBounds, WindowAssumption
      <4>2. MinuteOf(t) < MinuteOf(u)
        BY <1>1, <4>1, RemainingLeadsOut, WindowAssumption DEF MinuteOf
      <4>3. MinuteOf(t) \in Nat /\ MinuteOf(u) \in Int
        BY <1>1, TimeHasWindows, WindowAssumption DEF MinuteOf
      <4> QED  BY <1>2, <2>2, <3>1, <3>2, <4>2, <4>3
    <3>3. CASE refusal'[d] = [code |-> "publish_daily_quota",
                              until |-> t + Remaining(t, DayLength)]
      <4>1. t + Remaining(t, DayLength) <= u
        BY <2>2, <3>3, <1>1, RemainingBounds, WindowAssumption
      <4>2. DayOf(t) < DayOf(u)
        BY <1>1, <4>1, RemainingLeadsOut, WindowAssumption DEF DayOf
      <4>3. DayOf(t) \in Nat /\ DayOf(u) \in Int
        BY <1>1, TimeHasWindows, WindowAssumption DEF DayOf
      <4> QED  BY <1>2, <2>2, <3>1, <3>3, <4>2, <4>3
    <3> QED  BY <1>1, <1>2, <3>2, <3>3 DEF IInv, TypeOK
  <2> QED  BY <2>1, <2>2
<1>6. (Fresh /\ UsageIsExact /\ MinuteLimitHolds /\ DayQuotaHolds)'
  BY <1>2 DEF IInv, Fresh, UsageIsExact, MinuteLimitHolds, DayQuotaHolds
<1> QED  BY <1>3, <1>4, <1>5, <1>6 DEF IInv

\* The step the budget is about.  With one worker the request that is admitted
\* is the only one, so the row never names a window later than a request's.
LEMMA AdmitStep ==
    ASSUME OneWorker, IInv, NEW w \in Worker, Admit(w)
    PROVE  IInv'
<1> DEFINE d == request[w].device
           size == request[w].size
           t == request[w].time
           m == MinuteOf(t)
           y == DayOf(t)
<1>1. request[w] # Idle /\ d \in Device /\ size \in Nat /\ t \in Time /\ t \in Nat
  BY RequestType, TimeHasWindows DEF Admit, IInv
<1>2. m \in Minutes /\ m \in Nat /\ y \in Days /\ y \in Nat
  BY <1>1, TimeHasWindows
<1>3. /\ ~RateLimited(d, t) /\ ~OverQuota(d, size, t)
      /\ usage' = [usage EXCEPT ![d] =
            [minute |-> m, count |-> Count(d, t) + 1, day |-> y, bytes |-> Bytes(d, t) + size]]
      /\ accepted' = [accepted EXCEPT ![d][m] = @ + 1]
      /\ volume' = [volume EXCEPT ![d][y] = @ + size]
      /\ refusal' = [refusal EXCEPT ![d] = NoRefusal]
      /\ request' = [request EXCEPT ![w] = Idle]
      /\ now' = now
  BY DEF Admit
<1>4. /\ Count(d, t) \in Nat /\ Count(d, t) + 1 <= PerMinute
      /\ Bytes(d, t) \in Nat /\ Bytes(d, t) + size <= BytesPerDay
  BY <1>1, <1>3, LimitAssumption, SMTT(30)
     DEF IInv, TypeOK, Usage, Count, Bytes, RateLimited, OverQuota
<1>5. TypeOK'
  <2>1. usage' \in [Device -> Usage]
    BY <1>1, <1>2, <1>3, <1>4, LimitAssumption DEF IInv, TypeOK, Usage
  <2>2. accepted' \in [Device -> [Minutes -> Nat]] /\ volume' \in [Device -> [Days -> Nat]]
    BY <1>1, <1>2, <1>3 DEF IInv, TypeOK
  <2>3. NoRefusal \in Refusal
    BY WindowAssumption DEF Refusal, NoRefusal
  <2>4. refusal' \in [Device -> Refusal]
    BY <1>3, <2>3 DEF IInv, TypeOK
  <2> QED  BY <1>3, <2>1, <2>2, <2>4 DEF IInv, TypeOK
<1>6. \A v \in Worker : request'[v] = Idle
  BY <1>3 DEF OneWorker, IInv, TypeOK
<1>7. Ordered'
  <2>1. t <= now /\ now \in Nat /\ t \in Nat
    BY <1>1 DEF IInv, Ordered, TypeOK, Time
  <2>2. m <= MinuteOf(now) /\ y <= DayOf(now)
    BY <2>1, WindowsAreOrdered, WindowAssumption DEF MinuteOf, DayOf
  <2>3. (MinuteOf(now) = MinuteOf(now'))  /\ (DayOf(now) = DayOf(now'))
    BY <1>3
  <2> QED  BY <1>1, <1>3, <1>6, <2>2, <2>3 DEF IInv, TypeOK, Ordered
\* What the row says of the request's windows is what was admitted in them.
<1>8. Count(d, t) = accepted[d][m] /\ Bytes(d, t) = volume[d][y]
  <2>1. /\ usage[d].minute \in Nat /\ usage[d].minute <= m
        /\ usage[d].day \in Nat /\ usage[d].day <= y
    BY <1>1, RowBehindRequest DEF IInv
  <2>2. CASE usage[d].minute = m /\ usage[d].day = y
    BY <1>1, <2>2 DEF IInv, UsageIsExact, Count, Bytes
  <2>3. usage[d].minute # m => accepted[d][m] = 0
    BY <1>1, <1>2, <2>1 DEF IInv, Fresh
  <2>4. usage[d].day # y => volume[d][y] = 0
    BY <1>1, <1>2, <2>1 DEF IInv, Fresh
  <2> QED  BY <1>1, <2>3, <2>4 DEF IInv, UsageIsExact, Count, Bytes
<1>9. UsageIsExact' /\ MinuteLimitHolds' /\ DayQuotaHolds'
  BY <1>1, <1>2, <1>3, <1>4, <1>8
     DEF IInv, TypeOK, UsageIsExact, MinuteLimitHolds, DayQuotaHolds
<1>10. Fresh'
  <2>1. /\ usage[d].minute \in Nat /\ usage[d].minute <= m
        /\ usage[d].day \in Nat /\ usage[d].day <= y
    BY <1>1, RowBehindRequest DEF IInv
  <2>2. \A e \in Device : e # d =>
            usage'[e] = usage[e] /\ accepted'[e] = accepted[e] /\ volume'[e] = volume[e]
    BY <1>3 DEF IInv, TypeOK
  <2>3. usage'[d].minute = m /\ usage'[d].day = y
    BY <1>1, <1>3 DEF IInv, TypeOK
  <2>4. \A n \in Minutes : n > m => accepted'[d][n] = 0
    BY <1>1, <1>2, <1>3, <2>1, SMTT(30) DEF IInv, TypeOK, Fresh, Minutes
  <2>5. \A z \in Days : z > y => volume'[d][z] = 0
    BY <1>1, <1>2, <1>3, <2>1, SMTT(30) DEF IInv, TypeOK, Fresh, Days
  <2> QED  BY <2>2, <2>3, <2>4, <2>5 DEF IInv, Fresh
<1>11. RefusalOutlastsUse'
  BY <1>1, <1>3 DEF IInv, TypeOK, RefusalOutlastsUse, NoRefusal
<1> QED  BY <1>5, <1>7, <1>9, <1>10, <1>11 DEF IInv

-----------------------------------------------------------------------------
LEMMA InitInv == Init => IInv
<1> SUFFICES ASSUME Init  PROVE IInv
  OBVIOUS
<1>1. 0 \in Time /\ 0 \in Minutes /\ 0 \in Days /\ MinuteOf(0) = 0 /\ DayOf(0) = 0
  BY TimeHasWindows, WindowAssumption DEF Time, Minutes, Days, MinuteOf, DayOf
<1>2. NoRefusal \in Refusal
  BY WindowAssumption DEF Refusal, NoRefusal
<1>3. TypeOK
  BY <1>1, <1>2, LimitAssumption DEF Init, TypeOK, Usage
<1>4. Ordered /\ Fresh /\ UsageIsExact
  BY <1>1 DEF Init, Ordered, Fresh, UsageIsExact
<1>5. MinuteLimitHolds /\ DayQuotaHolds
  BY LimitAssumption DEF Init, MinuteLimitHolds, DayQuotaHolds
<1>6. RefusalOutlastsUse
  BY DEF Init, RefusalOutlastsUse, NoRefusal
<1> QED  BY <1>3, <1>4, <1>5, <1>6 DEF IInv

LEMMA NextInv == OneWorker /\ IInv /\ [Next]_vars => IInv'
<1> SUFFICES ASSUME OneWorker, IInv, [Next]_vars  PROVE IInv'
  OBVIOUS
<1>1. CASE Next
  BY <1>1, ArriveStep, AdmitStep, RefuseStep, RestartStep, TickStep DEF Next
<1>2. CASE UNCHANGED vars
  BY <1>2 DEF vars, IInv, TypeOK, Ordered, Fresh, UsageIsExact, MinuteLimitHolds,
              DayQuotaHolds, RefusalOutlastsUse
<1> QED  BY <1>1, <1>2

\* The inductive invariant holds in every reachable state of one worker.
THEOREM Invariance == ASSUME OneWorker PROVE Spec => []IInv
<1>1. Init => IInv
  BY InitInv
<1>2. IInv /\ [Next]_vars => IInv'
  BY NextInv
<1> QED  BY <1>1, <1>2, PTL DEF Spec

\* A device's row always holds the admitted use of the windows it names.
THEOREM RowIsExact == ASSUME OneWorker PROVE Spec => [](TypeOK /\ UsageIsExact)
<1>1. IInv => TypeOK /\ UsageIsExact
  BY DEF IInv
<1> QED  BY <1>1, Invariance, PTL

\* No device exceeds its requests of a minute, for any budget and any sequence of
\* requests, refusals, retries and restarts.
THEOREM BudgetHolds == ASSUME OneWorker PROVE Spec => []MinuteLimitHolds
<1>1. IInv => MinuteLimitHolds
  BY DEF IInv
<1> QED  BY <1>1, Invariance, PTL

\* Nor its bytes of a day, for requests of any sizes in any order.
THEOREM DayQuotaIsKept == ASSUME OneWorker PROVE Spec => []DayQuotaHolds
<1>1. IInv => DayQuotaHolds
  BY DEF IInv
<1> QED  BY <1>1, Invariance, PTL

\* Whoever waits as long as a refusal said finds the refused window unused.
THEOREM WaitingIsEnough == ASSUME OneWorker PROVE Spec => []RetryAfterIsHonest
<1>1. IInv => RetryAfterIsHonest
  <2> SUFFICES ASSUME IInv, NEW d \in Device, now >= refusal[d].until
               PROVE  RetryAfterIsHonest!(d)!2
    BY DEF RetryAfterIsHonest
  <2>1. now \in Nat /\ MinuteOf(now) \in Nat /\ DayOf(now) \in Nat
    BY TimeHasWindows DEF IInv, TypeOK
  <2>2. usage[d].minute \in Nat /\ usage[d].day \in Nat
    BY DEF IInv, TypeOK, Usage, Minutes, Days
  <2>3. /\ refusal[d].code = "publish_rate_limited" => usage[d].minute < MinuteOf(now)
        /\ refusal[d].code = "publish_daily_quota" => usage[d].day < DayOf(now)
    BY <2>1 DEF IInv, RefusalOutlastsUse
  <2> QED  BY <2>1, <2>2, <2>3 DEF Count, Bytes
<1> QED  BY <1>1, Invariance, PTL
=============================================================================
