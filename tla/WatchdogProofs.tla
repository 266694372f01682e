--------------------------- MODULE WatchdogProofs ---------------------------
(***************************************************************************)
(* Theorems about watchdog.c: the thread and the reports, for any number   *)
(* of workers and any times, and the arithmetic on time stamps under them. *)
(***************************************************************************)
EXTENDS Watchdog, TimespecCalls, TLAPS

\* The time to wake up is right from the moment it is computed.
TimeoutPointCovers ==
  watchdogPc \in {"top", "wait"} =>
    \A t \in Worker : remaining = 0 \/ remaining + age[t] <= Allowed

IndInv == TypeOK /\ TimeoutPointCovers

\* Time passing keeps ages within their range.
LEMMA OlderType ==
  ASSUME NEW a \in Ages
  PROVE  Older(a) \in Ages /\ Older(a) <= a + 1
  BY WatchdogAssumption DEF Ages, Older

\* Initially nothing is awaited and every stamp is old.
LEMMA InductiveInit == Init => IndInv
  BY WatchdogAssumption
     DEF Init, IndInv, TypeOK, TimeoutPointCovers, Ages, WatchdogPcs

\* A worker's report only makes its stamp younger.
LEMMA ReportStep ==
  ASSUME IndInv, NEW t \in Worker, Report(t) \/ WorkerStops(t)
  PROVE  IndInv'
<1> USE WatchdogAssumption DEF IndInv, TypeOK, MoveWorker, reportFrame, watchdogVars
<1>1. CASE ReportLock(t)
  BY <1>1 DEF ReportLock, TimeoutPointCovers
<1>2. CASE ReportStamp(t)
  <2>1. TypeOK'
    BY <1>2 DEF ReportStamp, Ages
  <2>2. TimeoutPointCovers'
    BY <1>2 DEF ReportStamp, TimeoutPointCovers, Ages
  <2>3. QED
    BY <2>1, <2>2
<1>3. CASE ReportUnlock(t)
  BY <1>3 DEF ReportUnlock, TimeoutPointCovers
<1>4. CASE ReportNotify(t)
  BY <1>4 DEF ReportNotify, TimeoutPointCovers
<1>5. CASE WorkerStops(t)
  BY <1>5 DEF WorkerStops, TimeoutPointCovers
<1>6. QED
  BY <1>1, <1>2, <1>3, <1>4, <1>5 DEF Report

\* The watchdog computes the time to wake up from the oldest stamp.
LEMMA WatchdogStep ==
  ASSUME IndInv, WatchdogThread \/ WatchdogSpuriousWakeup
  PROVE  IndInv'
<1> USE WatchdogAssumption DEF IndInv, TypeOK, workerVars, watchdogVars, WatchdogPcs
<1>1. CASE WatchdogStart
  BY <1>1 DEF WatchdogStart, TimeoutPointCovers, Ages
<1>2. CASE WatchdogLock
  BY <1>2 DEF WatchdogLock, TimeoutPointCovers
<1>3. CASE WatchdogInitialize
  <2>1. captured \in Ages /\ TimeLeft(captured) \in 0 .. Allowed
    BY DEF TimeLeft, Ages
  <2>2. TypeOK'
    BY <1>3, <2>1 DEF WatchdogInitialize
  <2>3. TimeoutPointCovers'
    BY <1>3, <2>1 DEF WatchdogInitialize, TimeoutPointCovers, TimeLeft, Ages
  <2>4. QED
    BY <2>2, <2>3
<1>4. CASE WatchdogTop
  BY <1>4 DEF WatchdogTop, TimeoutPointCovers
<1>5. CASE WatchdogTimeout \/ WatchdogSpuriousWakeup
  BY <1>5 DEF WatchdogTimeout, WatchdogSpuriousWakeup, waitFrame, TimeoutPointCovers
<1>6. CASE WatchdogWake
  BY <1>6 DEF WatchdogWake, TimeoutPointCovers
<1>7. CASE WatchdogCheck
  <2>1. PICK t \in Worker :
          /\ IsOldest(t)
          /\ IF age[t] > Allowed /\ killSwitch = "off"
               THEN /\ killSwitch' = "on" /\ watchdogPc' = "leave"
                    /\ UNCHANGED remaining
               ELSE /\ remaining' = TimeLeft(age[t]) /\ watchdogPc' = "top"
                    /\ UNCHANGED killSwitch
    BY <1>7 DEF WatchdogCheck
  <2>2. age[t] \in Ages /\ TimeLeft(age[t]) \in 0 .. Allowed
    BY DEF TimeLeft, Ages
  <2>3. TypeOK'
    BY <1>7, <2>1, <2>2 DEF WatchdogCheck
  <2>4. TimeoutPointCovers'
    <3>1. CASE remaining' = TimeLeft(age[t])
      <4>1. \A u \in Worker : age[u] \in Ages /\ age[u] <= age[t]
        BY <2>1 DEF IsOldest
      <4>2. age' = age
        BY <1>7 DEF WatchdogCheck
      <4>3. QED
        BY <2>2, <3>1, <4>1, <4>2 DEF TimeoutPointCovers, TimeLeft, Ages
    <3>2. CASE watchdogPc' = "leave"
      BY <3>2 DEF TimeoutPointCovers
    <3>3. QED
      BY <2>1, <3>1, <3>2
  <2>5. QED
    BY <2>3, <2>4
<1>8. CASE WatchdogLeave
  BY <1>8 DEF WatchdogLeave, TimeoutPointCovers
<1>9. QED
  BY <1>1, <1>2, <1>3, <1>4, <1>5, <1>6, <1>7, <1>8 DEF WatchdogThread

\* Time passes for all stamps and for timeoutPoint alike.
LEMMA TickStep ==
  ASSUME IndInv, Tick
  PROVE  IndInv'
<1> USE WatchdogAssumption DEF IndInv, TypeOK
<1>1. TypeOK'
  BY OlderType DEF Tick
<1>2. TimeoutPointCovers'
  <2> SUFFICES ASSUME watchdogPc \in {"top", "wait"}, NEW t \in Worker,
                      remaining' # 0
               PROVE  remaining' + age'[t] <= Allowed
    BY DEF TimeoutPointCovers, Tick
  <2>1. /\ remaining \in Nat \ {0} /\ remaining' = remaining - 1
        /\ age'[t] = Older(age[t])
    BY DEF Tick
  <2>2. remaining + age[t] <= Allowed
    BY <2>1 DEF TimeoutPointCovers
  <2>3. Older(age[t]) \in Nat /\ Older(age[t]) <= age[t] + 1 /\ age[t] \in Nat
    BY OlderType DEF Ages
  <2>4. QED
    BY <2>1, <2>2, <2>3
<1>3. QED
  BY <1>1, <1>2

\* Every step keeps the inductive invariant.
LEMMA InductiveStep == IndInv /\ [Next]_vars => IndInv'
<1> SUFFICES ASSUME IndInv, [Next]_vars PROVE IndInv'
  OBVIOUS
<1>1. CASE Thread_activateKillSwitch
  BY <1>1 DEF Thread_activateKillSwitch, IndInv, TypeOK, TimeoutPointCovers,
              workerVars, watchdogVars
<1>2. CASE UNCHANGED vars
  BY <1>2 DEF vars, IndInv, TypeOK, TimeoutPointCovers, workerVars, watchdogVars
<1>3. QED
  BY <1>1, <1>2, TickStep, ReportStep, WatchdogStep DEF Next

\* Types are right for any set of workers and any allowed time.
THEOREM TypeCorrect == Spec => []TypeOK
<1>1. IndInv => TypeOK
  BY DEF IndInv
<1>2. QED
  BY <1>1, InductiveInit, InductiveStep, PTL DEF Spec

\* The watchdog is awake again before any worker is overdue for longer than
\* it takes to wake up.
THEOREM NeverOversleeps == Spec => []SleepsNoLonger
<1>1. IndInv => SleepsNoLonger
  BY DEF IndInv, TimeoutPointCovers, SleepsNoLonger
<1>2. QED
  BY <1>1, InductiveInit, InductiveStep, PTL DEF Spec

-----------------------------------------------------------------------------
(* The mutex.                                                              *)

\* Every step locks and unlocks as LockDiscipline says.
LEMMA LockStep == TypeOK /\ LockDiscipline /\ [Next]_vars => LockDiscipline'
<1> SUFFICES ASSUME TypeOK, LockDiscipline, [Next]_vars PROVE LockDiscipline'
  OBVIOUS
<1>0. /\ \A t \in Worker : t # "free" /\ t # "watchdog"
      /\ workerPc \in [Worker -> {"busy", "stamp", "unlock", "notify", "stopped"}]
  BY WatchdogAssumption DEF TypeOK
<1> USE <1>0 DEF LockDiscipline, workerVars, watchdogVars, MoveWorker, reportFrame
<1>1. CASE Thread_activateKillSwitch \/ Tick \/ UNCHANGED vars
  BY <1>1 DEF Thread_activateKillSwitch, Tick, vars
<1>2. ASSUME NEW t \in Worker, Report(t) \/ WorkerStops(t)
      PROVE  LockDiscipline'
  <2>1. CASE ReportLock(t)
    BY <2>1 DEF ReportLock
  <2>2. CASE ReportStamp(t)
    BY <2>2 DEF ReportStamp
  <2>3. CASE ReportUnlock(t)
    BY <2>3 DEF ReportUnlock
  <2>4. CASE ReportNotify(t)
    BY <2>4 DEF ReportNotify
  <2>5. CASE WorkerStops(t)
    BY <2>5 DEF WorkerStops
  <2>6. QED
    BY <1>2, <2>1, <2>2, <2>3, <2>4, <2>5 DEF Report
<1>3. CASE WatchdogStart
  BY <1>3 DEF WatchdogStart
<1>4. CASE WatchdogLock
  BY <1>4 DEF WatchdogLock
<1>5. CASE WatchdogInitialize
  BY <1>5 DEF WatchdogInitialize
<1>6. CASE WatchdogTop
  BY <1>6 DEF WatchdogTop
<1>7. CASE WatchdogTimeout \/ WatchdogSpuriousWakeup
  BY <1>7 DEF WatchdogTimeout, WatchdogSpuriousWakeup, waitFrame
<1>8. CASE WatchdogWake
  BY <1>8 DEF WatchdogWake
<1>9. CASE WatchdogCheck
  <2>1. /\ watchdogPc = "check" /\ watchdogPc' \in {"leave", "top"}
        /\ UNCHANGED <<timestampsMtx, workerPc>>
    BY <1>9 DEF WatchdogCheck
  <2>2. QED
    BY <2>1
<1>10. CASE WatchdogLeave
  BY <1>10 DEF WatchdogLeave
<1>11. QED
  BY <1>1, <1>2, <1>3, <1>4, <1>5, <1>6, <1>7, <1>8, <1>9, <1>10
     DEF Next, WatchdogThread

\* The stamps are only touched by the holder of the mutex, on every path.
THEOREM LocksCorrect == Spec => []LockDiscipline
<1>1. Init => LockDiscipline
  BY WatchdogAssumption DEF Init, LockDiscipline
<1>2. QED
  BY <1>1, TypeCorrect, LockStep, PTL DEF Spec

-----------------------------------------------------------------------------
(* Alarms.                                                                 *)

\* A stamp is older than the report behind it by no more than the wait for the
\* mutex at the start, during which the captured time gets old.
StampsFollowReports ==
  /\ watchdogPc \in {"lock", "initialize"} => captured <= LockWait
  /\ watchdogPc \in {"top", "wait", "check"} =>
       \A t \in Worker : age[t] <= silent[t] + LockWait

\* A report makes a stamp and the report behind it new at once.
LEMMA ReportFollows ==
  ASSUME TypeOK, StampsFollowReports, NEW t \in Worker, Report(t) \/ WorkerStops(t)
  PROVE  StampsFollowReports'
<1> USE WatchdogAssumption DEF StampsFollowReports, reportFrame, watchdogVars
<1>1. CASE ReportStamp(t)
  <2>1. /\ age' = [age EXCEPT ![t] = 0] /\ silent' = [silent EXCEPT ![t] = 0]
        /\ UNCHANGED <<watchdogPc, captured>>
    BY <1>1 DEF ReportStamp
  <2>2. age \in [Worker -> Ages] /\ silent \in [Worker -> Ages]
    BY DEF TypeOK
  <2>3. \A u \in Worker : \/ age'[u] = 0 /\ silent'[u] = 0
                          \/ age'[u] = age[u] /\ silent'[u] = silent[u]
    BY <2>1, <2>2
  <2>4. QED
    BY <2>1, <2>3
<1>2. CASE ~ReportStamp(t)
  <2>1. UNCHANGED <<age, silent, watchdogPc, captured>>
    BY <1>2 DEF Report, ReportLock, ReportUnlock, ReportNotify, WorkerStops
  <2>2. QED
    BY <2>1
<1>3. QED
  BY <1>1, <1>2

\* Both get older alike, and the captured time not beyond the wait.
LEMMA TickFollows ==
  ASSUME TypeOK, StampsFollowReports, Tick
  PROVE  StampsFollowReports'
<1> USE WatchdogAssumption DEF StampsFollowReports
<1>1. /\ age \in [Worker -> Ages] /\ silent \in [Worker -> Ages] /\ captured \in Ages
  BY DEF TypeOK
<1>2. watchdogPc' \in {"lock", "initialize"} => captured' <= LockWait
  <2> SUFFICES ASSUME watchdogPc \in {"lock", "initialize"} PROVE captured' <= LockWait
    BY DEF Tick
  <2>1. captured < LockWait /\ captured' = Older(captured)
    BY DEF Tick
  <2>2. Older(captured) = captured + 1
    BY <1>1, <2>1 DEF Older, Ages
  <2>3. QED
    BY <1>1, <2>1, <2>2 DEF Ages
<1>3. ASSUME watchdogPc \in {"top", "wait", "check"}, NEW t \in Worker
      PROVE  age'[t] <= silent'[t] + LockWait
  <2>1. age'[t] = Older(age[t]) /\ silent'[t] = Older(silent[t])
    BY DEF Tick
  <2>2. age[t] \in Ages /\ silent[t] \in Ages /\ age[t] <= silent[t] + LockWait
    BY <1>1, <1>3
  <2>3. QED
    BY <2>1, <2>2 DEF Older, Ages
<1>4. QED
  BY <1>2, <1>3 DEF Tick

\* The watchdog sets all stamps to the captured time, once.
LEMMA WatchdogFollows ==
  ASSUME TypeOK, StampsFollowReports, WatchdogThread \/ WatchdogSpuriousWakeup
  PROVE  StampsFollowReports'
<1> USE WatchdogAssumption DEF StampsFollowReports
<1>1. CASE WatchdogStart
  <2>1. captured' = 0 /\ watchdogPc' \in {"lock", "exited"}
    BY <1>1 DEF WatchdogStart
  <2>2. QED
    BY <2>1
<1>2. CASE WatchdogInitialize
  <2>1. /\ watchdogPc = "initialize" /\ watchdogPc' = "top"
        /\ age' = [t \in Worker |-> captured] /\ silent' = silent
    BY <1>2 DEF WatchdogInitialize, workerVars
  <2>2. captured <= LockWait /\ captured \in Nat
    BY <2>1 DEF TypeOK, Ages
  <2>3. \A t \in Worker : age'[t] = captured /\ silent'[t] \in Nat
    BY <2>1 DEF TypeOK, Ages
  <2>4. QED
    BY <2>1, <2>2, <2>3
<1>3. CASE ~WatchdogStart /\ ~WatchdogInitialize
  <2>1. /\ UNCHANGED <<age, silent, captured>>
        /\ watchdogPc' \in {"lock", "initialize"} => watchdogPc \in {"lock", "initialize"}
        /\ watchdogPc' \in {"top", "wait", "check"} => watchdogPc \in {"top", "wait", "check"}
    BY <1>3 DEF WatchdogThread, WatchdogLock, WatchdogTop, WatchdogTimeout,
         WatchdogSpuriousWakeup, WatchdogWake, WatchdogCheck, WatchdogLeave,
         workerVars, watchdogVars, waitFrame
  <2>2. QED
    BY <2>1
<1>4. QED
  BY <1>1, <1>2, <1>3

\* StampsFollowReports is an invariant.
LEMMA FollowInvariant == Spec => []StampsFollowReports
<1>1. Init => StampsFollowReports
  BY DEF Init, StampsFollowReports
<1>2. TypeOK /\ StampsFollowReports /\ [Next]_vars => StampsFollowReports'
  <2> SUFFICES ASSUME TypeOK, StampsFollowReports, [Next]_vars
               PROVE  StampsFollowReports'
    OBVIOUS
  <2>1. CASE Thread_activateKillSwitch \/ UNCHANGED vars
    BY <2>1 DEF Thread_activateKillSwitch, vars, workerVars, watchdogVars,
                StampsFollowReports
  <2>2. QED
    BY <2>1, TickFollows, ReportFollows, WatchdogFollows DEF Next
<1>3. QED
  BY <1>1, <1>2, TypeCorrect, PTL DEF Spec

\* The watchdog is on its way out only if the kill switch is on.
LeavesOnKill == watchdogPc = "leave" => killSwitch = "on"

\* Nothing turns the kill switch off.
LEMMA LeaveInvariant == Spec => []LeavesOnKill
<1>1. Init => LeavesOnKill
  BY DEF Init, LeavesOnKill
<1>2. LeavesOnKill /\ [Next]_vars => LeavesOnKill'
  <2> SUFFICES ASSUME LeavesOnKill, [Next]_vars PROVE LeavesOnKill'
    OBVIOUS
  <2> USE DEF LeavesOnKill
  <2>1. CASE Thread_activateKillSwitch \/ Tick \/ UNCHANGED vars
    BY <2>1 DEF Thread_activateKillSwitch, Tick, vars, watchdogVars
  <2>2. ASSUME NEW t \in Worker, Report(t) \/ WorkerStops(t)
        PROVE  LeavesOnKill'
    BY <2>2 DEF Report, ReportLock, ReportStamp, ReportUnlock, ReportNotify,
         WorkerStops, reportFrame, watchdogVars
  <2>3. CASE WatchdogThread \/ WatchdogSpuriousWakeup
    BY <2>3 DEF WatchdogThread, WatchdogStart, WatchdogLock, WatchdogInitialize,
         WatchdogTop, WatchdogTimeout, WatchdogWake, WatchdogCheck,
         WatchdogLeave, WatchdogSpuriousWakeup, waitFrame, watchdogVars
  <2>4. QED
    BY <2>1, <2>2, <2>3 DEF Next
<1>3. QED
  BY <1>1, <1>2, PTL DEF Spec

\* The watchdog accuses only a thread that has really been silent for longer
\* than allowed, up to the wait for the mutex at its start.
THEOREM AlarmsAreDue == Spec => NoEarlyAlarm
<1>1. TypeOK /\ StampsFollowReports /\ LeavesOnKill /\ [Next]_vars =>
        [killSwitch' # killSwitch /\ watchdogPc' = "leave" =>
           \E t \in Worker : silent[t] > Allowed - LockWait]_vars
  <2> SUFFICES ASSUME TypeOK, StampsFollowReports, LeavesOnKill, [Next]_vars,
                      killSwitch' # killSwitch, watchdogPc' = "leave"
               PROVE  \E t \in Worker : silent[t] > Allowed - LockWait
    OBVIOUS
  <2>1. WatchdogCheck
    <3>1. ~Thread_activateKillSwitch
      BY DEF Thread_activateKillSwitch, LeavesOnKill, watchdogVars
    <3>2. ~Tick /\ \A t \in Worker : ~Report(t) /\ ~WorkerStops(t)
      BY DEF Tick, Report, ReportLock, ReportStamp, ReportUnlock, ReportNotify,
         WorkerStops, reportFrame
    <3>3. QED
      BY <3>1, <3>2 DEF Next, WatchdogThread, WatchdogStart, WatchdogLock,
         WatchdogInitialize, WatchdogTop, WatchdogTimeout, WatchdogWake,
         WatchdogLeave, WatchdogSpuriousWakeup, vars, waitFrame
  <2>2. PICK t \in Worker : age[t] > Allowed
    BY <2>1 DEF WatchdogCheck
  <2>3. age[t] <= silent[t] + LockWait
    BY <2>1 DEF WatchdogCheck, StampsFollowReports
  <2>4. age[t] \in Nat /\ silent[t] \in Nat /\ Allowed \in Nat /\ LockWait \in Nat
    BY WatchdogAssumption DEF TypeOK, Ages
  <2>5. silent[t] > Allowed - LockWait
    BY <2>2, <2>3, <2>4
  <2>6. QED
    BY <2>5
<1>2. QED
  BY <1>1, TypeCorrect, FollowInvariant, LeaveInvariant, PTL DEF Spec, NoEarlyAlarm

-----------------------------------------------------------------------------
(* The arithmetic on struct timespec, for any length of a second and any   *)
(* times.                                                                  *)

\* One normalised time is after another.
Later(a, b) == sec(a) > sec(b) \/ (sec(a) = sec(b) /\ nsec(a) > nsec(b))

\* The carried sum of two times.
Sum(a, b) == IF nsec(a) + nsec(b) >= NsecInSec
               THEN <<sec(a) + sec(b) + 1, nsec(a) + nsec(b) - NsecInSec>>
               ELSE <<sec(a) + sec(b), nsec(a) + nsec(b)>>

\* Every argument is a normalised time.
TimesInv == now \in Time /\ stamp \in Time /\ other \in Time /\ allowed \in Time

\* The arguments stay normalised times.
LEMMA TimesInvariant == TimeSpec => []TimesInv
<1>1. TimeInit => TimesInv
  BY TimesAssumption DEF TimeInit, TimesInv
<1>2. TimesInv /\ [TimeNext]_timeVars => TimesInv'
  BY TimesAssumption DEF TimesInv, TimeNext, timeVars
<1>3. QED
  BY <1>1, <1>2, PTL DEF TimeSpec

\* What a normalised time is.
LEMMA TimeParts ==
  ASSUME NEW t \in Time
  PROVE  /\ sec(t) \in Nat /\ sec(t) < UnsignedMod
         /\ nsec(t) \in Nat /\ nsec(t) < NsecInSec
  BY TimespecAssumption DEF Time, sec, nsec

\* timespecDifference, compared with the allowed time, tells whether the stamp
\* plus the allowed time has passed: in the borrowing case one second less and
\* NsecInSec or fewer nanoseconds are compared.
LEMMA OverdueExact ==
  ASSUME NEW n \in Time, NEW s \in Time, NEW a \in Time, ~Later(s, n)
  PROVE  Overdue(n, s, a) <=> Later(n, Sum(s, a))
<1>1. /\ sec(n) \in Int /\ sec(s) \in Int /\ sec(a) \in Int
      /\ nsec(n) \in Int /\ nsec(s) \in Int /\ nsec(a) \in Int
      /\ 0 <= nsec(n) /\ nsec(n) < NsecInSec
      /\ 0 <= nsec(s) /\ nsec(s) < NsecInSec
      /\ 0 <= nsec(a) /\ nsec(a) < NsecInSec
      /\ NsecInSec \in Int
  BY TimeParts, TimespecAssumption
<1>2. Overdue(n, s, a) <=>
        LET d == timespecDifference(n, s)
        IN  sec(d) > sec(a) \/ (sec(d) = sec(a) /\ nsec(d) > nsec(a))
  <2> DEFINE d == timespecDifference(n, s)
  <2>1. sec(d) \in Int /\ nsec(d) \in Int
    BY <1>1 DEF timespecDifference, sec, nsec
  <2>2. timespecCompare(d, a) > 0 <=>
          (sec(d) > sec(a) \/ (sec(d) = sec(a) /\ nsec(d) > nsec(a)))
    <3> HIDE DEF d
    <3>1. QED
      BY <1>1, <2>1 DEF timespecCompare
  <2>3. QED
    BY <2>2 DEF Overdue
<1>3. CASE nsec(n) <= nsec(s)
  <2>1. /\ sec(timespecDifference(n, s)) = sec(n) - sec(s) - 1
        /\ nsec(timespecDifference(n, s)) = NsecInSec - (nsec(s) - nsec(n))
    BY <1>3 DEF timespecDifference, sec, nsec
  <2>2. QED
    BY <1>1, <1>2, <1>3, <2>1 DEF Later, Sum, sec, nsec
<1>4. CASE nsec(n) > nsec(s)
  <2>1. /\ sec(timespecDifference(n, s)) = sec(n) - sec(s)
        /\ nsec(timespecDifference(n, s)) = nsec(n) - nsec(s)
    BY <1>1, <1>4 DEF timespecDifference, sec, nsec
  <2>2. QED
    BY <1>1, <1>2, <1>4, <2>1 DEF Later, Sum, sec, nsec
<1>5. QED
  BY <1>1, <1>3, <1>4

\* What every normalised time has, also one that is no longer in Time.
IsTime(t) == /\ sec(t) \in Nat /\ nsec(t) \in Nat /\ nsec(t) < NsecInSec

\* The order of two times is that of their nanoseconds.
LEMMA LaterNanoseconds ==
  ASSUME NEW a, NEW b, IsTime(a), IsTime(b)
  PROVE  /\ Later(a, b) <=> Nanoseconds(a) > Nanoseconds(b)
         /\ Nanoseconds(a) \in Nat /\ Nanoseconds(b) \in Nat
<1>1. /\ sec(a) \in Nat /\ nsec(a) \in Nat /\ nsec(a) < NsecInSec
      /\ sec(b) \in Nat /\ nsec(b) \in Nat /\ nsec(b) < NsecInSec
      /\ NsecInSec \in Nat
  BY TimespecAssumption DEF IsTime
<1>2. sec(a) * NsecInSec \in Nat /\ sec(b) * NsecInSec \in Nat
  BY <1>1
<1>3. ASSUME NEW x \in Nat, NEW y \in Nat, x < y
      PROVE  x * NsecInSec + NsecInSec <= y * NsecInSec
  <2>1. /\ y - x - 1 \in Nat /\ (y - x - 1) * NsecInSec \in Nat
    BY <1>1, <1>3
  <2>2. (y - x - 1) * NsecInSec = y * NsecInSec - x * NsecInSec - NsecInSec
    BY <1>1
  <2>3. x * NsecInSec \in Nat /\ y * NsecInSec \in Nat
    BY <1>1
  <2>4. QED
    BY <1>1, <2>1, <2>2, <2>3
<1>4. /\ sec(a) < sec(b) => sec(a) * NsecInSec + NsecInSec <= sec(b) * NsecInSec
      /\ sec(b) < sec(a) => sec(b) * NsecInSec + NsecInSec <= sec(a) * NsecInSec
  BY <1>1, <1>3
<1>5. sec(a) = sec(b) => sec(a) * NsecInSec = sec(b) * NsecInSec
  OBVIOUS
<1> DEFINE na == sec(a) * NsecInSec
           nb == sec(b) * NsecInSec
<1>6. Nanoseconds(a) = na + nsec(a) /\ Nanoseconds(b) = nb + nsec(b)
  BY DEF Nanoseconds
<1> HIDE DEF na, nb
<1>7. /\ na \in Nat /\ nb \in Nat
      /\ sec(a) < sec(b) => na + NsecInSec <= nb
      /\ sec(b) < sec(a) => nb + NsecInSec <= na
      /\ sec(a) = sec(b) => na = nb
  BY <1>2, <1>4, <1>5 DEF na, nb
<1>8. QED
  BY <1>1, <1>6, <1>7 DEF Later

\* The carry changes nothing.
LEMMA SumNanoseconds ==
  ASSUME NEW a \in Time, NEW b \in Time
  PROVE  /\ IsTime(a) /\ IsTime(b) /\ IsTime(Sum(a, b))
         /\ Nanoseconds(Sum(a, b)) = Nanoseconds(a) + Nanoseconds(b)
<1>1. /\ sec(a) \in Nat /\ nsec(a) \in Nat /\ nsec(a) < NsecInSec
      /\ sec(b) \in Nat /\ nsec(b) \in Nat /\ nsec(b) < NsecInSec
      /\ NsecInSec \in Nat
  BY TimeParts, TimespecAssumption
<1>2. IsTime(a) /\ IsTime(b)
  BY <1>1 DEF IsTime
<1>3. /\ nsec(a) + nsec(b) >= NsecInSec =>
           /\ sec(Sum(a, b)) = sec(a) + sec(b) + 1
           /\ nsec(Sum(a, b)) = nsec(a) + nsec(b) - NsecInSec
      /\ nsec(a) + nsec(b) < NsecInSec =>
           /\ sec(Sum(a, b)) = sec(a) + sec(b)
           /\ nsec(Sum(a, b)) = nsec(a) + nsec(b)
  BY <1>1 DEF Sum, sec, nsec
<1>4. IsTime(Sum(a, b))
  BY <1>1, <1>3 DEF IsTime
<1>5. /\ (sec(a) + sec(b)) * NsecInSec = sec(a) * NsecInSec + sec(b) * NsecInSec
      /\ (sec(a) + sec(b) + 1) * NsecInSec = sec(a) * NsecInSec + sec(b) * NsecInSec + NsecInSec
      /\ sec(a) * NsecInSec \in Nat /\ sec(b) * NsecInSec \in Nat
  BY <1>1
<1>6. Nanoseconds(Sum(a, b)) = Nanoseconds(a) + Nanoseconds(b)
  BY <1>1, <1>3, <1>5 DEF Nanoseconds
<1>7. QED
  BY <1>2, <1>4, <1>6

\* A small number is its own remainder.
LEMMA SmallMod ==
  ASSUME NEW a \in Nat, NEW m \in Nat, a < m
  PROVE  a % m = a
  OBVIOUS

\* The alarm is exact for every length of a second and every times.
THEOREM AlarmExact == TimeSpec => []AlarmIsExact
<1>1. TimesInv => AlarmIsExact
  <2> SUFFICES ASSUME TimesInv, Nanoseconds(stamp) <= Nanoseconds(now)
               PROVE  Overdue(now, stamp, allowed) <=>
                        Nanoseconds(now) - Nanoseconds(stamp) > Nanoseconds(allowed)
    BY DEF AlarmIsExact
  <2>1. /\ IsTime(now) /\ IsTime(stamp) /\ IsTime(allowed) /\ IsTime(Sum(stamp, allowed))
        /\ Nanoseconds(Sum(stamp, allowed)) = Nanoseconds(stamp) + Nanoseconds(allowed)
    BY SumNanoseconds DEF TimesInv
  <2>2. /\ Nanoseconds(now) \in Nat /\ Nanoseconds(stamp) \in Nat /\ Nanoseconds(allowed) \in Nat
        /\ ~Later(stamp, now)
        /\ Later(now, Sum(stamp, allowed)) <=> Nanoseconds(now) > Nanoseconds(Sum(stamp, allowed))
    BY <2>1, LaterNanoseconds
  <2>3. Overdue(now, stamp, allowed) <=> Later(now, Sum(stamp, allowed))
    BY <2>2, OverdueExact DEF TimesInv
  <2>4. QED
    BY <2>1, <2>2, <2>3
<1>2. QED
  BY <1>1, TimesInvariant, PTL

\* A number of milliseconds in seconds and the rest, in nanoseconds.
LEMMA Conversion ==
  ASSUME NEW ms \in Nat
  PROVE  /\ ms \div MsInSec \in Nat
         /\ (ms % MsInSec) * NsecInMs \in Nat
         /\ (ms % MsInSec) * NsecInMs < NsecInSec
         /\ (ms \div MsInSec) * NsecInSec + (ms % MsInSec) * NsecInMs = ms * NsecInMs
<1> DEFINE q == ms \div MsInSec
           r == ms % MsInSec
<1>1. /\ MsInSec \in Nat /\ MsInSec > 0 /\ NsecInMs \in Nat /\ NsecInMs > 0
      /\ NsecInSec = MsInSec * NsecInMs
  BY TimespecAssumption
<1>2. /\ q \in Nat /\ r \in Nat /\ r <= MsInSec - 1
      /\ ms = MsInSec * q + r
  BY <1>1
<1> HIDE DEF q, r
<1>3. q * (MsInSec * NsecInMs) + r * NsecInMs = (MsInSec * q + r) * NsecInMs
  BY <1>1, <1>2
<1>4. r * NsecInMs <= (MsInSec - 1) * NsecInMs
  BY <1>1, <1>2
<1>5. (MsInSec - 1) * NsecInMs = MsInSec * NsecInMs - NsecInMs
  BY <1>1
<1>6. r * NsecInMs \in Nat
  BY <1>1, <1>2
<1>7. /\ q \in Nat /\ r * NsecInMs \in Nat /\ r * NsecInMs < NsecInSec
      /\ q * NsecInSec + r * NsecInMs = ms * NsecInMs
  BY <1>1, <1>2, <1>3, <1>4, <1>5, <1>6
<1>8. QED
  BY <1>7 DEF q, r

\* The end of a wait is exact and normalised.
LEMMA TimePointExact ==
  ASSUME NEW n \in Time, NEW ms \in Nat
  PROVE  /\ Nanoseconds(TimePointMs(n, ms)) = Nanoseconds(n) + ms * NsecInMs
         /\ Normalised(TimePointMs(n, ms))
         /\ Nanoseconds(msToTimespec(ms)) = ms * NsecInMs
<1> DEFINE q == ms \div MsInSec
           x == (ms % MsInSec) * NsecInMs
<1>1. /\ q \in Nat /\ x \in Nat /\ x < NsecInSec
      /\ q * NsecInSec + x = ms * NsecInMs
  BY Conversion
<1>2. /\ sec(n) \in Nat /\ nsec(n) \in Nat /\ nsec(n) < NsecInSec /\ NsecInSec \in Nat
  BY TimeParts, TimespecAssumption
<1>3. /\ nsec(n) + x < NsecInSec =>
           TimePointMs(n, ms) = <<sec(n) + q, nsec(n) + x>>
      /\ ~(nsec(n) + x < NsecInSec) =>
           TimePointMs(n, ms) = <<sec(n) + q + 1, nsec(n) + x - NsecInSec>>
  BY <1>1, <1>2 DEF TimePointMs
<1>4. msToTimespec(ms) = <<q, x>>
  BY DEF msToTimespec
<1> HIDE DEF q, x
<1>5. /\ (sec(n) + q) * NsecInSec = sec(n) * NsecInSec + q * NsecInSec
      /\ (sec(n) + q + 1) * NsecInSec = sec(n) * NsecInSec + q * NsecInSec + NsecInSec
  BY <1>1, <1>2
<1>6. /\ sec(n) * NsecInSec \in Nat /\ q * NsecInSec \in Nat /\ ms * NsecInMs \in Nat
  BY <1>1, <1>2, TimespecAssumption
<1>7. Nanoseconds(msToTimespec(ms)) = ms * NsecInMs
  BY <1>1, <1>4 DEF Nanoseconds, sec, nsec
<1>8. CASE nsec(n) + x < NsecInSec
  <2>1. /\ sec(TimePointMs(n, ms)) = sec(n) + q
        /\ nsec(TimePointMs(n, ms)) = nsec(n) + x
    BY <1>3, <1>8 DEF sec, nsec
  <2>2. QED
    BY <1>1, <1>2, <1>5, <1>6, <1>7, <1>8, <2>1 DEF Nanoseconds, Normalised
<1>9. CASE ~(nsec(n) + x < NsecInSec)
  <2>1. /\ sec(TimePointMs(n, ms)) = sec(n) + q + 1
        /\ nsec(TimePointMs(n, ms)) = nsec(n) + x - NsecInSec
    BY <1>3, <1>9 DEF sec, nsec
  <2>2. QED
    BY <1>1, <1>2, <1>5, <1>6, <1>7, <1>9, <2>1 DEF Nanoseconds, Normalised
<1>10. QED
  BY <1>8, <1>9

\* The next time to look is exact when whole seconds are added, and the end of
\* every other wait always is.
THEOREM TimeoutPointExact == TimeSpec => []TimeoutPointIsExact
<1>1. ASSUME TimesInv PROVE TimeoutPointIsExact
  <2>1. ASSUME nsec(allowed) = 0, sec(stamp) + sec(allowed) < UnsignedMod
        PROVE  timespecAdd(stamp, allowed) = Sum(stamp, allowed)
    <3>1. /\ sec(stamp) \in Nat /\ sec(allowed) \in Nat
          /\ nsec(stamp) \in Nat /\ nsec(stamp) < NsecInSec
          /\ NsecInSec \in Nat /\ UnsignedMod \in Nat /\ NsecInSec < UnsignedMod
      BY <1>1, TimeParts, TimespecAssumption DEF TimesInv
    <3>2. /\ (sec(stamp) + sec(allowed)) % UnsignedMod = sec(stamp) + sec(allowed)
          /\ (nsec(stamp) + nsec(allowed)) % UnsignedMod = nsec(stamp)
      BY <2>1, <3>1, SmallMod
    <3>3. QED
      BY <2>1, <3>1, <3>2 DEF timespecAdd, Sum
  <2>2. /\ Nanoseconds(Sum(stamp, allowed)) = Nanoseconds(stamp) + Nanoseconds(allowed)
        /\ Normalised(Sum(stamp, allowed))
    BY <1>1, SumNanoseconds, TimespecAssumption DEF TimesInv, IsTime, Normalised
  <2>3. \A ms \in Waits :
          /\ Nanoseconds(TimePointMs(now, ms)) = Nanoseconds(now) + ms * NsecInMs
          /\ Normalised(TimePointMs(now, ms))
          /\ Nanoseconds(msToTimespec(ms)) = ms * NsecInMs
    BY <1>1, TimePointExact, TimesAssumption DEF TimesInv
  <2>4. QED
    BY <2>1, <2>2, <2>3 DEF TimeoutPointIsExact
<1>2. QED
  BY <1>1, TimesInvariant, PTL

\* The function that findLowestTimespecIndex defines by recursion exists: for
\* three stamps it is written down, and looks at one after the other.
LEMMA LowestOfThree ==
  ASSUME NEW array, Len(array) = 3
  PROVE  LET second == IF timespecCompare(array[2], array[1]) < 0 THEN 2 ELSE 1
             third == IF timespecCompare(array[3], array[second]) < 0 THEN 3 ELSE second
         IN  findLowestTimespecIndex(array) = third
<1> DEFINE second == IF timespecCompare(array[2], array[1]) < 0 THEN 2 ELSE 1
           third == IF timespecCompare(array[3], array[second]) < 0 THEN 3 ELSE second
           next(f) == [ii \in 0 .. Len(array) |->
                         IF ii = 0 THEN 1
                         ELSE IF timespecCompare(array[ii], array[f[ii - 1]]) < 0
                                THEN ii
                                ELSE f[ii - 1]]
           found == [ii \in 0 .. 3 |-> IF ii = 3 THEN third ELSE IF ii = 2 THEN second ELSE 1]
           oldest == CHOOSE f : f = next(f)
<1>1. findLowestTimespecIndex(array) = oldest[Len(array)]
  BY DEF findLowestTimespecIndex
<1>2. found = next(found)
  OBVIOUS
<1>3. oldest = next(oldest)
  <2> HIDE DEF next, found
  <2>1. QED
    BY <1>2
<1> HIDE DEF oldest
<1>4. oldest[0] = 1 /\ oldest[1] = 1
  BY <1>3
<1>5. oldest[2] = second
  BY <1>3, <1>4
<1>6. oldest[3] = third
  BY <1>3, <1>5
<1>7. QED
  BY <1>1, <1>6

\* timespecCompare says less also of equal times.
LEMMA CompareEffect ==
  ASSUME NEW a \in Time, NEW b \in Time
  PROVE  timespecCompare(a, b) < 0 <=> ~Later(a, b)
  BY TimeParts DEF timespecCompare, Later

\* Being no later is a total order.
LEMMA LaterOrder ==
  ASSUME NEW a \in Time, NEW b \in Time, NEW c \in Time
  PROVE  /\ ~Later(a, a)
         /\ Later(a, b) => ~Later(b, a)
         /\ ~Later(a, b) /\ ~Later(b, c) => ~Later(a, c)
  BY TimeParts DEF Later

\* The stamp the watchdog sleeps by is the oldest, for all times of the stamps
\* and although the comparison never finds two of them equal.
THEOREM LowestFound == TimeSpec => []LowestIsOldest
<1>1. ASSUME TimesInv PROVE LowestIsOldest
  <2> DEFINE array == <<stamp, other, now>>
             second == IF timespecCompare(array[2], array[1]) < 0 THEN 2 ELSE 1
             third == IF timespecCompare(array[3], array[second]) < 0 THEN 3 ELSE second
  <2>1. findLowestTimespecIndex(array) = third
    BY LowestOfThree
  <2>2. array[1] \in Time /\ array[2] \in Time /\ array[3] \in Time
    BY <1>1 DEF TimesInv
  <2> HIDE DEF array
  <2>3. second \in {1, 2} /\ ~Later(array[second], array[1]) /\ ~Later(array[second], array[2])
    BY <2>2, CompareEffect, LaterOrder
  <2> HIDE DEF second
  <2>4. /\ ~Later(array[third], array[second]) /\ ~Later(array[third], array[3])
        /\ array[third] \in Time
    BY <2>2, <2>3, CompareEffect, LaterOrder
  <2> HIDE DEF third
  <2>5. \A i \in {1, 2, 3} : ~Later(array[third], array[i])
    BY <2>2, <2>3, <2>4, LaterOrder
  <2>6. array[third] \in Time /\ \A i \in {1, 2, 3} : array[i] \in Time
    BY <2>2, <2>4
  <2>7. \A i \in {1, 2, 3} : Nanoseconds(array[third]) <= Nanoseconds(array[i])
    <3>1. \A t \in Time : IsTime(t)
      BY SumNanoseconds
    <3>2. QED
      BY <2>5, <2>6, <3>1, LaterNanoseconds
  <2>8. QED
    BY <2>1, <2>7 DEF LowestIsOldest, array
<1>2. QED
  BY <1>1, TimesInvariant, PTL
=============================================================================
