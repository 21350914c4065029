--------------------------- MODULE GatewayProofs ---------------------------
(***************************************************************************)
(* What holds of the gateway's renewal for every interval, margin and      *)
(* demand of the CA, and any number of commands and restarts.              *)
(*                                                                         *)
(* The embargo: what the runner has recorded, together with the answer it  *)
(* is about to record, covers everything a CA has asked for, unless a      *)
(* process died with an answer in hand (Covered).  The result: wherever a  *)
(* renewal may report success, the certificate on disk is served (Sound).  *)
(***************************************************************************)
EXTENDS Gateway, TLAPS

\* Every demand is recorded, or about to be.
CoveredFor(authority) ==
    \/ demanded[authority] <= notBefore[authority]
    \/ answer # None /\ authority = ca /\ demanded[authority] <= answer
Covered == \A authority \in CA \ lost : CoveredFor(authority)

\* Wherever a renewal may end well.
Sound == at \in {"check", "schedule"} /\ ok => Served

IInv == TypeOK /\ Covered /\ Sound

-----------------------------------------------------------------------------
\* The greater of two numbers is one of them, and no less than either.
LEMMA MostOf ==
    ASSUME NEW a \in Int, NEW b \in Int
    PROVE  Most(a, b) \in {a, b} /\ Most(a, b) >= a /\ Most(a, b) >= b
  BY DEF Most

\* schedule_result's delay is a number of seconds.
LEMMA DelayIsNat ==
    ASSUME NEW failures \in Nat \ {0}
    PROVE  RetryDelay(failures) \in Nat
  <1> DEFINE k == Least(failures, Len(Doubled))
  <1>1. Len(Doubled) = 6
    BY DEF Doubled
  <1>2. k \in 1 .. 6
    BY <1>1 DEF Least
  <1>3. Doubled[k] \in Nat
    BY <1>2 DEF Doubled
  <1>4. Base * Doubled[k] \in Nat
    BY <1>3, GatewayAssumption
  <1> QED
    BY <1>4, GatewayAssumption DEF RetryDelay, Least

-----------------------------------------------------------------------------
LEMMA InitInvariant == Init => IInv
  <1> SUFFICES ASSUME Init PROVE IInv
    OBVIOUS
  <1>1. TypeOK
    BY DEF Init, TypeOK, CA, Caller, Step, None, Nobody
  <1>2. Covered
    BY DEF Init, Covered, CoveredFor
  <1>3. Sound
    BY DEF Init, Sound, Served
  <1> QED
    BY <1>1, <1>2, <1>3 DEF IInv

\* One step per action: types.
LEMMA TypeStep == TypeOK /\ [Next]_vars => TypeOK'
  <1> SUFFICES ASSUME TypeOK, [Next]_vars PROVE TypeOK'
    OBVIOUS
  <1> USE GatewayAssumption DEF TypeOK, Step, CA, Caller, Nobody, None
  <1>1. ASSUME NEW good \in BOOLEAN, ReconcileFirst(good) PROVE TypeOK'
    BY <1>1 DEF ReconcileFirst, Reconcile, files, demands, bounds
  <1>2. ASSUME NEW good \in BOOLEAN, Verify(good) PROVE TypeOK'
    BY <1>2 DEF Verify, Also, Reconcile, files, demands, bounds
  <1>3. ASSUME NEW good \in BOOLEAN, Finish(good) PROVE TypeOK'
    BY <1>3 DEF Finish, Return, Leave, files, nginx, demands, bounds
  <1>4. CASE Defer
    BY <1>4 DEF Defer, Leave, files, nginx, demands, bounds
  <1>5. CASE Due
    BY <1>5 DEF Due, files, nginx, demands, bounds
  <1>6. CASE Start
    BY <1>6 DEF Start, Return, Leave, files, nginx, demands, bounds
  <1>7. CASE Send
    BY <1>7 DEF Send, files, nginx, demands, bounds
  <1>7a. CASE Answered
    BY <1>7a DEF Answered, files, nginx, demands, bounds
  <1>8. CASE Record
    <2>1. answer \in Nat /\ at = "asking"
      BY <1>8 DEF Record
    <2>2. Later(answer) \in Nat
      BY <2>1, MostOf DEF Later
    <2> QED
      BY <1>8, <2>1, <2>2 DEF Record, nginx, demands, bounds
  <1>9. CASE Obtain
    BY <1>9 DEF Obtain, work, nginx, demands, bounds
  <1>10. CASE TimeOut
    BY <1>10 DEF TimeOut, Return, Leave, Forget, files, nginx, bounds
  <1>11. CASE Schedule
    <2>1. ~ok => RetryDelay(schedule.failures + 1) \in Nat
      BY DelayIsNat
    <2>2. Rescheduled.failures \in Nat /\ Rescheduled.next \in Nat
      BY <2>1, MostOf DEF Rescheduled, Most
    <2> QED
      BY <1>11, <2>2 DEF Schedule, Leave, nginx, demands, bounds
  <1>12. ASSUME NEW caller \in Caller, NEW authority \in CA, Enter(caller, authority)
         PROVE TypeOK'
    BY <1>12 DEF Enter, First, files, nginx, demands
  <1>13. ASSUME NEW wait \in Demands, Refused(wait) PROVE TypeOK'
    <2>1. Most(demanded[ca], now + wait) \in Nat
      BY MostOf
    <2> QED
      BY <1>13, <2>1 DEF Refused, files, nginx, bounds
  <1>14. CASE Limited
    BY <1>14 DEF Limited, files, nginx, demands, bounds
  <1>15. CASE Crash
    <2>1. holder' = Nobody /\ at' = "start" /\ ok' = FALSE /\ answer' = None
      BY <1>15 DEF Crash, Leave, Forget
    <2>2. lost' \subseteq CA /\ loaded' \in Nat /\ crashes' \in Nat
      BY <1>15 DEF Crash, Forget
    <2>3. UNCHANGED <<now, ca, files, activated, demanded, orders>>
      BY <1>15 DEF Crash
    <2> QED
      BY <2>1, <2>2, <2>3 DEF files
  <1>16. CASE Activate
    BY <1>16 DEF Activate, work, files, demands, bounds
  <1>17. CASE Tick
    BY <1>17 DEF Tick, work, files, nginx, demands, bounds
  <1>18. CASE UNCHANGED vars
    BY <1>18 DEF vars, work, files, nginx, demands, bounds
  <1> QED
    BY <1>1, <1>2, <1>3, <1>4, <1>5, <1>6, <1>7, <1>7a, <1>8, <1>9, <1>10, <1>11, <1>12,
       <1>13, <1>14, <1>15, <1>16, <1>17, <1>18 DEF Next, Renewal

\* Demands: only a refusal raises one, and only a record or a death takes the
\* answer away.
LEMMA CoveredStep == TypeOK /\ Covered /\ [Next]_vars => Covered'
  <1> SUFFICES ASSUME TypeOK, Covered, [Next]_vars, NEW authority \in CA \ lost'
               PROVE  CoveredFor(authority)'
    BY DEF Covered
  <1> USE GatewayAssumption DEF TypeOK, CA, None
  <1>1. CASE UNCHANGED <<answer, ca, notBefore, demanded, lost>>
    BY <1>1 DEF Covered, CoveredFor
  <1>2. CASE Record
    <2>1. answer \in Nat /\ notBefore[ca] \in Nat /\ authority \notin lost
      BY <1>2 DEF Record, demands
    <2>2. Later(answer) >= answer /\ Later(answer) >= notBefore[ca] /\ Later(answer) \in Nat
      BY <2>1, MostOf DEF Later
    <2>3. CoveredFor(authority)
      BY <2>1 DEF Covered
    <2>4. demanded' = demanded /\ notBefore'[authority] =
             IF authority = ca THEN Later(answer) ELSE notBefore[authority]
      BY <1>2 DEF Record, demands
    <2> QED
      BY <2>1, <2>2, <2>3, <2>4 DEF CoveredFor
  <1>3. ASSUME NEW wait \in Demands, Refused(wait) PROVE CoveredFor(authority)'
    <2>1. CoveredFor(authority) /\ answer = None
      BY <1>3 DEF Refused, Covered
    <2>2. Most(demanded[ca], now + wait) \in {demanded[ca], now + wait}
      BY MostOf
    <2>3. answer' = now + wait + Margin /\ ca' = ca /\ notBefore' = notBefore /\ answer' \in Nat
      BY <1>3 DEF Refused, files
    <2>4. demanded'[authority] =
             IF authority = ca THEN Most(demanded[ca], now + wait) ELSE demanded[authority]
      BY <1>3 DEF Refused
    <2>5. CASE authority = ca
      <3>1. Margin \in Nat /\ now + wait \in Nat
        OBVIOUS
      <3>2. answer' # None /\ now + wait <= answer'
        BY <2>3, <3>1
      <3>3. CASE demanded'[authority] = now + wait
        BY <2>3, <2>5, <3>2, <3>3 DEF CoveredFor
      <3>4. CASE demanded'[authority] = demanded[authority]
        BY <2>1, <2>3, <3>4 DEF CoveredFor
      <3> QED
        BY <2>2, <2>4, <2>5, <3>3, <3>4
    <2>6. CASE authority # ca
      BY <2>1, <2>3, <2>4, <2>6 DEF CoveredFor
    <2> QED
      BY <2>5, <2>6
  <1>4. CASE Limited
    <2>1. CoveredFor(authority) /\ answer = None
      BY <1>4 DEF Limited, demands, Covered
    <2> QED
      BY <1>4, <2>1 DEF Limited, files, demands, CoveredFor
  <1>5. CASE TimeOut \/ Crash
    <2>1. authority \notin lost /\ (answer # None => authority # ca)
      BY <1>5 DEF TimeOut, Crash, Forget
    <2>2. CoveredFor(authority)
      BY <2>1 DEF Covered
    <2> QED
      BY <1>5, <2>1, <2>2 DEF TimeOut, Crash, files, CoveredFor
  <1>6. ASSUME NEW caller \in Caller, NEW chosen \in CA, Enter(caller, chosen)
        PROVE  CoveredFor(authority)'
    <2>1. answer = None
      BY <1>6 DEF Enter, Nobody
    <2>2. CoveredFor(authority)
      BY <1>6 DEF Enter, demands, Covered
    <2> QED
      BY <1>6, <2>1, <2>2 DEF Enter, files, demands, CoveredFor
  <1>7. ASSUME NEW good \in BOOLEAN, ReconcileFirst(good) \/ Verify(good) \/ Finish(good)
        PROVE  UNCHANGED <<answer, ca, notBefore, demanded, lost>>
    BY <1>7 DEF ReconcileFirst, Verify, Finish, files, demands
  <1>8. CASE Defer \/ Due \/ Start \/ Send \/ Answered \/ Obtain \/ Schedule
    BY <1>1, <1>8 DEF Defer, Due, Start, Send, Answered, Obtain, Schedule, files, work, demands
  <1>9. CASE Activate \/ Tick \/ UNCHANGED vars
    BY <1>1, <1>9 DEF Activate, Tick, vars, work, files, demands
  <1> QED
    BY <1>1, <1>2, <1>3, <1>4, <1>5, <1>6, <1>7, <1>8, <1>9 DEF Next, Renewal

\* Results: a renewal reaches "check" and "schedule" through reconcile only, and
\* nobody writes a certificate there.
LEMMA SoundStep == TypeOK /\ Sound /\ [Next]_vars => Sound'
  <1> SUFFICES ASSUME TypeOK, Sound, [Next]_vars PROVE Sound'
    OBVIOUS
  <1> USE DEF Sound, Served
  <1>1. ASSUME NEW good \in BOOLEAN, ReconcileFirst(good) PROVE Sound'
    BY <1>1 DEF ReconcileFirst, Reconcile, files
  <1>2. ASSUME NEW good \in BOOLEAN, Verify(good) PROVE Sound'
    BY <1>2 DEF Verify, Also, Reconcile, files
  <1>3. ASSUME NEW good \in BOOLEAN, Finish(good) PROVE Sound'
    BY <1>3 DEF Finish, Return, Leave
  <1>4. CASE Defer \/ Due \/ Start \/ TimeOut
    BY <1>4 DEF Defer, Due, Start, TimeOut, Return, Leave
  <1>5. CASE Send \/ Answered \/ Record \/ Obtain \/ Schedule
    BY <1>5 DEF Send, Answered, Record, Obtain, Schedule, Leave, work
  <1>6. ASSUME NEW caller \in Caller, NEW authority \in CA, Enter(caller, authority)
        PROVE  Sound'
    BY <1>6 DEF Enter, First
  <1>7. ASSUME NEW wait \in Demands, Refused(wait) PROVE Sound'
    BY <1>7, GatewayAssumption DEF Refused, files, nginx, TypeOK, None
  <1>8. CASE Limited
    BY <1>8 DEF Limited, files, nginx
  <1>9. CASE Crash \/ Activate
    BY <1>9 DEF Crash, Activate, Leave, files
  <1>10. CASE Tick \/ UNCHANGED vars
    BY <1>10 DEF Tick, vars, work, files, nginx
  <1> QED
    BY <1>1, <1>2, <1>3, <1>4, <1>5, <1>6, <1>7, <1>8, <1>9, <1>10 DEF Next, Renewal

-----------------------------------------------------------------------------
(***************************************************************************)
(* The theorems.                                                           *)
(***************************************************************************)
\* The three parts together are an inductive invariant of renew_once,
\* run_certbot and the runner.
THEOREM Invariance == Spec => []IInv
  <1>1. IInv /\ [Next]_vars => IInv'
    BY TypeStep, CoveredStep, SoundStep DEF IInv
  <1> QED
    BY InitInvariant, <1>1, PTL DEF Spec

\* The lock's holder, the files and nginx keep their types: a command never
\* reaches the steps of a renewal, and nothing runs without the lock.
THEOREM TypeCorrectness == Spec => []TypeOK
  BY Invariance, PTL DEF IInv

\* Session.send: no CA is asked before the time it asked to wait for, unless a
\* process died between the answer and its record.
THEOREM EmbargoRespected == Spec => EmbargoHolds
  <1>1. IInv /\ [Next]_vars => [Asks => now >= demanded[ca] \/ ca \in lost]_vars
    <2> SUFFICES ASSUME IInv, Next, Asks, ca \notin lost PROVE now >= demanded[ca]
      OBVIOUS
    <2> USE GatewayAssumption DEF IInv, TypeOK, CA, None
    <2>1. answer = None /\ CoveredFor(ca)
      BY DEF Asks, Covered
    <2>2. Send
      BY DEF Asks, Next, Renewal, ReconcileFirst, Verify, Finish, Return, Leave, Defer, Due, Start,
             Answered, Record, Obtain, TimeOut, Schedule, Enter, Refused, Limited, Crash, Activate,
             Tick, work
    <2>3. notBefore[ca] <= now
      BY <2>2 DEF Send, MayAsk, Embargoed
    <2> QED
      BY <2>1, <2>3 DEF CoveredFor
  <1> QED
    BY Invariance, <1>1, PTL DEF Spec, EmbargoHolds

\* renew_once: a renewal that reports success leaves nginx with the certificate
\* on disk.
THEOREM SuccessIsServed == Spec => SuccessMeansServed
  <1>1. IInv /\ [Next]_vars
          => [holder' = Nobody /\ ok' /\ holder \in {"worker", "renew"} => Served']_vars
    <2> SUFFICES ASSUME IInv, Next, holder' = Nobody, ok', holder \in {"worker", "renew"}
                 PROVE  Served'
      OBVIOUS
    <2> USE DEF Nobody
    <2>1. Defer \/ Schedule
      BY DEF Next, Renewal, ReconcileFirst, Verify, Finish, Return, Leave, Due, Start, Send,
             Answered, Record, Obtain, TimeOut, Enter, Refused, Limited, Crash, Activate,
             Tick, work, Caller, IInv, TypeOK
    <2>2. CASE Defer
      BY <2>2 DEF Defer, Leave, IInv, TypeOK, Sound, Served, files, nginx
    <2>3. CASE Schedule
      BY <2>3 DEF Schedule, Leave, IInv, Sound, Served, nginx
    <2> QED
      BY <2>1, <2>2, <2>3
  <1> QED
    BY Invariance, <1>1, PTL DEF Spec, SuccessMeansServed
=============================================================================
