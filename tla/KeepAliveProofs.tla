--------------------------- MODULE KeepAliveProofs ---------------------------
(***************************************************************************)
(* Proofs about KeepAlive, for every interval, period, grace, delay and    *)
(* clock error.                                                            *)
(***************************************************************************)
EXTENDS KeepAlive, TLAPS

USE KeepAliveAssumption

LEMMA Products == Period \in Nat \ {0} /\ KEEP_ALIVE_PROD \in Nat
  <1>1. \A a, b \in Nat : a * b \in Nat
    OBVIOUS
  <1>2. \A a, b \in Nat \ {0} : a * b \in Nat \ {0}
    OBVIOUS
  <1> QED BY <1>1, <1>2 DEF Period, KEEP_ALIVE_PROD

\* One more of n equal spans.
LEMMA OneMore == ASSUME NEW k \in Nat, NEW n \in Int PROVE
                 /\ k * n \in Int
                 /\ k * (n + 1) = k * n + k
                 /\ k * (n - 1) = k * n - k
                 /\ n >= 0 => k * n >= 0
  OBVIOUS

-----------------------------------------------------------------------------
(* The types.                                                              *)

LEMMA InitTypes == Init => TypeOK
  BY Products DEF Init, Accepted, TypeOK

LEMMA TypeStep == TypeOK /\ [Next]_vars => TypeOK'
  <1> SUFFICES ASSUME TypeOK, [Next]_vars PROVE TypeOK'
    OBVIOUS
  <1> USE Products DEF TypeOK, sender, clock, checks
  <1>1. CASE create_timer
    BY <1>1 DEF create_timer
  <1>2. CASE send_keep_alive
    BY <1>2 DEF send_keep_alive
  <1>3. CASE Die
    BY <1>3 DEF Die
  <1>4. CASE fetch_item
    BY <1>4 DEF fetch_item
  <1>5. CASE iter_keep_alives
    BY <1>5 DEF iter_keep_alives, Expired
  <1>6. CASE SkippedCheck
    BY <1>6 DEF SkippedCheck, Expired
  <1>7. CASE Reconnect
    BY <1>7 DEF Reconnect
  <1>8. CASE Tick
    BY <1>8 DEF Tick, InTime
  <1>9. CASE \E s \in -MaxSkew .. MaxSkew : SetClock(s)
    BY <1>9 DEF SetClock
  <1>10. CASE UNCHANGED vars
    BY <1>10 DEF vars
  <1> QED
    BY <1>1, <1>2, <1>3, <1>4, <1>5, <1>6, <1>7, <1>8, <1>9, <1>10 DEF Next

\* TypeOK holds in every state (the counters of both ends, the two clocks).
THEOREM KeepAliveTypes == Spec => []TypeOK
  BY InitTypes, TypeStep, PTL DEF Spec

-----------------------------------------------------------------------------
(* Why a node that sends is not reported.                                  *)

\* The silence seen by the server is covered by the KEEP_ALIVEs on their way, the
\* time since the last one, and the delay of the first; none of them is late.
Covered ==
    /\ quiet <= sinceSent + KEEP_ALIVE_INTERVAL * unread + MaxDelay
    /\ node = "connected" => sinceSent <= MaxDelay /\ unread = 0 /\ quiet <= sinceSent
    /\ node = "sending" => sinceSent <= KEEP_ALIVE_INTERVAL
    /\ unread > 0 => Oldest <= MaxDelay

\* Delays and clock errors leave room in KEEP_ALIVE_PROD.
Room == KEEP_ALIVE_INTERVAL + 2 * MaxDelay + 2 * MaxSkew <= KEEP_ALIVE_PROD

LiveInv == TypeOK /\ (node # "dead" => Covered) /\ NoFalseAlarm

LEMMA LiveQuiet == ASSUME TypeOK, Covered, node # "dead"
                   PROVE quiet <= KEEP_ALIVE_INTERVAL + 2 * MaxDelay
  <1>1. CASE unread = 0
    <2>1. KEEP_ALIVE_INTERVAL * unread = 0
      BY <1>1
    <2> QED BY <2>1 DEF TypeOK, Covered
  <1>2. CASE unread > 0
    <2>1. KEEP_ALIVE_INTERVAL * (unread - 1) = KEEP_ALIVE_INTERVAL * unread - KEEP_ALIVE_INTERVAL
      BY OneMore DEF TypeOK
    <2>2. KEEP_ALIVE_INTERVAL * unread \in Int
      BY OneMore DEF TypeOK
    <2> QED BY <1>2, <2>1, <2>2 DEF TypeOK, Covered, Oldest
  <1> QED BY <1>1, <1>2 DEF TypeOK

LEMMA CoveredStep == ASSUME TypeOK, TypeOK', node # "dead" => Covered, [Next]_vars, node' # "dead"
                     PROVE Covered'
  <1> DEFINE way == KEEP_ALIVE_INTERVAL * unread
  <1>0. /\ way \in Int /\ KEEP_ALIVE_INTERVAL * (unread + 1) = way + KEEP_ALIVE_INTERVAL
        /\ KEEP_ALIVE_INTERVAL * (unread - 1) = way - KEEP_ALIVE_INTERVAL
    BY OneMore DEF TypeOK
  <1>z. KEEP_ALIVE_INTERVAL * 0 = 0 /\ (unread = 0 => way = 0)
    OBVIOUS
  <1> USE DEF TypeOK, Covered, Oldest, sender, clock, checks
  <1>1. CASE create_timer
    BY <1>1, <1>z DEF create_timer
  <1>2. CASE send_keep_alive
    BY <1>2, <1>0 DEF send_keep_alive
  <1>3. CASE Die
    BY <1>3 DEF Die
  <1>4. CASE fetch_item
    <2>1. unread' = unread - 1 /\ quiet' = 0 /\ sinceSent' = sinceSent /\ node' = node
      BY <1>4 DEF fetch_item
    <2>2. KEEP_ALIVE_INTERVAL * (unread' - 1) <= KEEP_ALIVE_INTERVAL * (unread - 1)
      <3>1. KEEP_ALIVE_INTERVAL * (unread - 1 - 1) = KEEP_ALIVE_INTERVAL * (unread - 1) - KEEP_ALIVE_INTERVAL
        <4>1. unread - 1 \in Int
          OBVIOUS
        <4> QED BY <4>1, OneMore
      <3>2. KEEP_ALIVE_INTERVAL * (unread - 1) \in Int
        BY <1>0
      <3> QED BY <2>1, <3>1, <3>2
    <2>3. unread > 0
      BY <1>4 DEF fetch_item
    <2>4. KEEP_ALIVE_INTERVAL * unread' >= 0
      BY <2>1, <2>3, OneMore
    <2>5. KEEP_ALIVE_INTERVAL * (unread' - 1) \in Int /\ KEEP_ALIVE_INTERVAL * unread' \in Int
      BY OneMore
    <2> QED BY <2>1, <2>2, <2>3, <2>4, <2>5, <1>0
  <1>5. CASE iter_keep_alives
    BY <1>5 DEF iter_keep_alives, Expired
  <1>6. CASE SkippedCheck
    BY <1>6 DEF SkippedCheck, Expired
  <1>7. CASE Reconnect
    BY <1>7, <1>z DEF Reconnect
  <1>8. CASE Tick
    BY <1>8, <1>0 DEF Tick, InTime
  <1>9. CASE \E s \in -MaxSkew .. MaxSkew : SetClock(s)
    BY <1>9 DEF SetClock
  <1>10. CASE UNCHANGED vars
    BY <1>10 DEF vars
  <1> QED
    BY <1>1, <1>2, <1>3, <1>4, <1>5, <1>6, <1>7, <1>8, <1>9, <1>10 DEF Next

\* The delays are those that InTime allows, and diff differs from quiet by two
\* clock errors at most.
LEMMA LiveStep == LiveInv /\ [Next]_vars => LiveInv'
  <1> SUFFICES ASSUME LiveInv, [Next]_vars PROVE LiveInv'
    OBVIOUS
  <1>1. TypeOK'
    BY TypeStep DEF LiveInv
  <1>2. node' # "dead" => Covered'
    <2>1. node' # "dead" => node # "dead" \/ Reconnect
      BY DEF LiveInv, Next, vars, sender, create_timer, send_keep_alive, Die, fetch_item,
             iter_keep_alives, SkippedCheck, Tick, SetClock
    <2>2. ASSUME Reconnect PROVE Covered'
      <3>1. KEEP_ALIVE_INTERVAL * 0 = 0
        OBVIOUS
      <3> QED BY <2>2, <3>1 DEF Reconnect, Covered, Oldest
    <2> QED BY <2>1, <2>2, <1>1, CoveredStep DEF LiveInv
  <1>3. NoFalseAlarm'
    <2> SUFFICES ASSUME Room, node' # "dead" PROVE reports' = 0
      BY DEF NoFalseAlarm, Room
    <2>1. CASE iter_keep_alives
      <3>1. node' = node /\ quiet' = quiet /\ node # "dead"
        BY <2>1 DEF iter_keep_alives, sender
      <3>2. quiet <= KEEP_ALIVE_INTERVAL + 2 * MaxDelay /\ reports = 0
        BY <3>1, LiveQuiet DEF LiveInv, NoFalseAlarm, Room
      <3>3. diff <= KEEP_ALIVE_PROD
        BY <3>2, Products DEF diff, Room, LiveInv, TypeOK
      <3>4. diff \in Int
        BY DEF diff, LiveInv, TypeOK
      <3> QED BY <2>1, <3>2, <3>3, <3>4, Products DEF iter_keep_alives
    <2>2. CASE ~iter_keep_alives
      <3>1. reports' = 0 \/ (reports' = reports /\ node # "dead")
        BY <2>2 DEF LiveInv, Next, vars, sender, checks, create_timer, send_keep_alive, Die,
           fetch_item, SkippedCheck, Reconnect, Tick, SetClock
      <3> QED BY <3>1 DEF LiveInv, NoFalseAlarm, Room
    <2> QED BY <2>1, <2>2
  <1> QED BY <1>1, <1>2, <1>3 DEF LiveInv

\* check_keep_alive never reports a node that sends, if delays and clock errors
\* leave room in KEEP_ALIVE_PROD.
THEOREM LiveNodesAreSafe == Spec => []NoFalseAlarm
  <1>1. Init => LiveInv
    <2> SUFFICES ASSUME Init PROVE LiveInv
      OBVIOUS
    <2>1. KEEP_ALIVE_INTERVAL * 0 = 0
      OBVIOUS
    <2>2. Covered /\ NoFalseAlarm
      BY <2>1 DEF Init, Accepted, Covered, Oldest, NoFalseAlarm
    <2> QED BY <2>2, InitTypes DEF LiveInv
  <1>2. LiveInv => NoFalseAlarm
    BY DEF LiveInv
  <1> QED BY <1>1, <1>2, LiveStep, PTL DEF Spec

-----------------------------------------------------------------------------
(* When a silence is reported.                                             *)

\* Seconds since the last check, or since the server's timer was started.
SinceCheck == Period - toCheck

\* The three bounds on reports, with the time since the last check: what the
\* properties say at a check, this says at every moment.
CheckInv ==
    /\ TypeOK
    /\ reports = 0 => quiet <= KEEP_ALIVE_PROD + 2 * MaxSkew + Period * missed + SinceCheck
    /\ quiet <= Period * failed + SinceCheck
    /\ reports > 0 => /\ KEEP_ALIVE_PROD < Period * failed + 2 * MaxSkew
                      /\ KEEP_ALIVE_PROD + Period * (reports - 1) + SinceCheck < quiet + 2 * MaxSkew

LEMMA CheckStep == CheckInv /\ [Next]_vars => CheckInv'
  <1> SUFFICES ASSUME CheckInv, [Next]_vars PROVE CheckInv'
    OBVIOUS
  <1>1. TypeOK /\ TypeOK'
    BY TypeStep DEF CheckInv
  <1>2. /\ Period * (failed + 1) = Period * failed + Period /\ Period * failed \in Int
        /\ Period * (missed + 1) = Period * missed + Period /\ Period * missed \in Int
        /\ Period * (reports - 1) = Period * reports - Period /\ Period * reports \in Int
        /\ Period * 0 = 0
    BY <1>1, Products, OneMore DEF TypeOK
  <1>3. Period \in Nat /\ KEEP_ALIVE_PROD \in Nat
    BY Products
  <1>4. Period * ((reports + 1) - 1) = Period * reports
    BY <1>1 DEF TypeOK
  <1>5. CASE iter_keep_alives
    <2>1. /\ toCheck = 0 /\ toCheck' = Period /\ failed' = failed + 1
          /\ quiet' = quiet /\ missed' = missed
          /\ reports' = IF diff > KEEP_ALIVE_PROD THEN reports + 1 ELSE reports
      BY <1>5 DEF iter_keep_alives, Expired
    <2>2. diff \in Int /\ diff <= quiet + 2 * MaxSkew /\ quiet <= diff + 2 * MaxSkew
      BY <1>1 DEF diff, TypeOK
    <2>3. CASE diff > KEEP_ALIVE_PROD
      <3>1. reports' = reports + 1
        BY <2>1, <2>3
      <3>2. KEEP_ALIVE_PROD < Period * failed' + 2 * MaxSkew
        BY <1>1, <1>2, <1>3, <2>1, <2>2, <2>3 DEF CheckInv, SinceCheck, TypeOK
      <3>3. KEEP_ALIVE_PROD + Period * reports < quiet + 2 * MaxSkew
        <4>1. CASE reports = 0
          BY <4>1, <1>1, <1>2, <1>3, <2>2, <2>3 DEF TypeOK
        <4>2. CASE reports > 0
          BY <4>2, <1>1, <1>2, <1>3, <2>1 DEF CheckInv, SinceCheck, TypeOK
        <4> QED BY <4>1, <4>2, <1>1 DEF TypeOK
      <3>4. quiet' <= Period * failed' + SinceCheck'
        BY <1>1, <1>2, <1>3, <2>1 DEF CheckInv, SinceCheck, TypeOK
      <3>5. KEEP_ALIVE_PROD + Period * (reports' - 1) + SinceCheck' < quiet' + 2 * MaxSkew
        BY <1>1, <1>2, <1>3, <1>4, <2>1, <3>1, <3>3 DEF SinceCheck, TypeOK
      <3> QED BY <1>1, <3>1, <3>2, <3>4, <3>5 DEF CheckInv, TypeOK
    <2>4. CASE ~(diff > KEEP_ALIVE_PROD)
      <3>1. reports' = reports
        BY <2>1, <2>4
      <3>2. reports = 0 => quiet <= KEEP_ALIVE_PROD + 2 * MaxSkew + Period * missed
        <4>1. 0 <= Period * missed
          BY <1>1, <1>3, OneMore DEF TypeOK
        <4> QED BY <4>1, <1>1, <1>2, <1>3, <2>2, <2>4 DEF TypeOK
      <3> QED BY <1>1, <1>2, <1>3, <2>1, <3>1, <3>2 DEF CheckInv, SinceCheck, TypeOK
    <2> QED BY <2>3, <2>4
  <1>6. CASE SkippedCheck
    BY <1>1, <1>2, <1>3, <1>6 DEF SkippedCheck, Expired, CheckInv, SinceCheck, TypeOK
  <1>7. CASE fetch_item \/ Reconnect
    <2>1. quiet' = 0 /\ failed' = 0 /\ missed' = 0 /\ reports' = 0 /\ toCheck' = toCheck
      BY <1>7 DEF fetch_item, Reconnect
    <2> QED BY <1>1, <1>2, <1>3, <2>1 DEF CheckInv, SinceCheck, TypeOK
  <1>8. CASE Tick
    BY <1>1, <1>2, <1>3, <1>8 DEF Tick, CheckInv, SinceCheck, TypeOK, checks
  <1>9. CASE \/ create_timer \/ send_keep_alive \/ Die
             \/ \E s \in -MaxSkew .. MaxSkew : SetClock(s) \/ UNCHANGED vars
    <2>1. UNCHANGED <<quiet, failed, missed, reports, toCheck>>
      BY <1>9 DEF create_timer, send_keep_alive, Die, SetClock, vars, checks
    <2> QED BY <1>1, <2>1 DEF CheckInv, SinceCheck
  <1> QED
    BY <1>5, <1>6, <1>7, <1>8, <1>9 DEF Next

LEMMA CheckAlways == Spec => []CheckInv
  <1>1. Init => CheckInv
    <2> SUFFICES ASSUME Init PROVE CheckInv
      OBVIOUS
    <2>1. TypeOK /\ Period \in Nat /\ KEEP_ALIVE_PROD \in Nat /\ Period * 0 = 0
      BY InitTypes, Products
    <2> QED BY <2>1 DEF Init, Accepted, CheckInv, SinceCheck, TypeOK
  <1> QED BY <1>1, CheckStep, PTL DEF Spec

\* A silent connection is reported by the first check that gets its locks after
\* KEEP_ALIVE_PROD seconds and the error of the clock.
THEOREM SilenceIsDetected == Spec => []DetectedInTime
  <1>1. ASSUME CheckInv PROVE DetectedInTime
    <2>1. Period * (missed + 1) = Period * missed + Period /\ Period * missed \in Int
      BY <1>1, Products, OneMore DEF CheckInv, TypeOK
    <2> QED BY <1>1, <2>1, Products DEF CheckInv, SinceCheck, TypeOK, DetectedInTime
  <1> QED BY <1>1, CheckAlways, PTL

\* Nobody is reported before the checks of KEEP_ALIVE_GRACE have failed.
THEOREM GraceBeforeReport == Spec => []GraceIsGiven
  <1>1. CheckInv => GraceIsGiven
    BY Products, OneMore DEF CheckInv, TypeOK, GraceIsGiven
  <1> QED BY <1>1, CheckAlways, PTL

\* A silent connection adds one report for each period to read_buff, no more.
THEOREM ReportsAreSpaced == Spec => []OneReportPerPeriod
  <1>1. ASSUME CheckInv PROVE OneReportPerPeriod
    <2>1. Period * (reports - 1) \in Int
      BY <1>1, Products, OneMore DEF CheckInv, TypeOK
    <2> QED BY <1>1, <2>1, Products DEF CheckInv, SinceCheck, TypeOK, OneReportPerPeriod
  <1> QED BY <1>1, CheckAlways, PTL
=============================================================================
