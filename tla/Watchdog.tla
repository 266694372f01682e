------------------------------ MODULE Watchdog ------------------------------
(***************************************************************************)
(* src/threads/watchdog.c: the worker threads report that they are active, *)
(* WatchdogThread raises SIGTERM when one of them did not report for       *)
(* longer than allowed.                                                    *)
(*                                                                         *)
(* A time stamp is represented by its age, the time that passed since, and *)
(* ages above Allowed are not told apart; timeoutPoint by the time that    *)
(* remains until it.  The arithmetic on struct timespec that this stands   *)
(* for is in Timespec.tla.  The watchdog's own stamp is always current.    *)
(***************************************************************************)
EXTENDS Integers

CONSTANTS Worker,      \* the reader, analyzer, printer and logger threads
          Allowed,     \* WATCHDOG_ALLOWED_UNRESPONSIVE_MS, in ticks
          LockWait     \* WATCHDOG_MUTEX_WAIT_TIME_MS, in ticks

ASSUME WatchdogAssumption == /\ Allowed \in Nat
                             /\ LockWait \in 0 .. Allowed
                             /\ Worker # {}
                             /\ Worker \cap {"free", "watchdog"} = {}

VARIABLES
  killSwitch,     \* "off" or "on"
  timestampsMtx,  \* g_timestampsMtx: "free" or its holder
  updatedCv,      \* g_timestampsUpdatedCv: "awaited" by the watchdog or "quiet"
  age,            \* age[t]: the age of g_timestamps[t]
  workerPc,
  silent,         \* history: the age of t's last report, or of t
  watchdogPc,
  captured,       \* the age of the time read before the mutex is locked
  remaining       \* the time until timeoutPoint

workerVars == <<workerPc, silent>>
watchdogVars == <<watchdogPc, captured, remaining>>
vars == <<killSwitch, timestampsMtx, updatedCv, age, workerVars, watchdogVars>>

Ages == 0 .. Allowed + 1

Older(a) == IF a <= Allowed THEN a + 1 ELSE a

\* g_timestamps is static: zero, an old time.
Init == /\ killSwitch = "off"
        /\ timestampsMtx = "free"
        /\ updatedCv = "quiet"
        /\ age = [t \in Worker |-> Allowed + 1]
        /\ workerPc = [t \in Worker |-> "busy"]
        /\ silent = [t \in Worker |-> 0]
        /\ watchdogPc = "start" /\ captured = 0 /\ remaining = 0

\* SIGINT or SIGTERM from outside.
Thread_activateKillSwitch ==
  /\ killSwitch = "off"
  /\ killSwitch' = "on"
  /\ UNCHANGED <<timestampsMtx, updatedCv, age, workerVars, watchdogVars>>

\* Time passes, and a thread can lose the processor anywhere; only from the
\* first getCurrentTime to the initialisation of the stamps it takes no longer
\* than the attempt to lock the mutex may last.
Tick ==
  /\ watchdogPc \in {"lock", "initialize"} => captured < LockWait
  /\ age' = [t \in Worker |-> Older(age[t])]
  /\ silent' = [t \in Worker |-> Older(silent[t])]
  /\ captured' = Older(captured)
  /\ remaining' = IF remaining > 0 THEN remaining - 1 ELSE 0
  /\ UNCHANGED <<killSwitch, timestampsMtx, updatedCv, workerPc, watchdogPc>>

-----------------------------------------------------------------------------
(* Watchdog_reportActive, called by worker t.                              *)

MoveWorker(t, from, to) == /\ workerPc[t] = from
                           /\ workerPc' = [workerPc EXCEPT ![t] = to]

reportFrame == <<killSwitch, watchdogVars>>

\* The mutex is locked, or the report is lost because another thread holds it
\* for too long.
ReportLock(t) ==
  /\ \/ /\ timestampsMtx = "free" /\ timestampsMtx' = t
        /\ MoveWorker(t, "busy", "stamp")
     \/ /\ timestampsMtx # "free" /\ UNCHANGED timestampsMtx
        /\ MoveWorker(t, "busy", "busy")
  /\ UNCHANGED <<reportFrame, updatedCv, age, silent>>

ReportStamp(t) == /\ MoveWorker(t, "stamp", "unlock")
                  /\ age' = [age EXCEPT ![t] = 0]
                  /\ silent' = [silent EXCEPT ![t] = 0]
                  /\ UNCHANGED <<reportFrame, timestampsMtx, updatedCv>>

ReportUnlock(t) == /\ MoveWorker(t, "unlock", "notify")
                   /\ timestampsMtx' = "free"
                   /\ UNCHANGED <<reportFrame, updatedCv, age, silent>>

ReportNotify(t) == /\ MoveWorker(t, "notify", "busy")
                   /\ updatedCv' = "quiet"
                   /\ UNCHANGED <<reportFrame, timestampsMtx, age, silent>>

Report(t) == ReportLock(t) \/ ReportStamp(t) \/ ReportUnlock(t) \/ ReportNotify(t)

\* The worker ends, or hangs for good outside this function.
WorkerStops(t) == /\ MoveWorker(t, "busy", "stopped")
                  /\ UNCHANGED <<reportFrame, timestampsMtx, updatedCv, age, silent>>

-----------------------------------------------------------------------------
(* WatchdogThread.                                                         *)

\* ThreadInfo_set, and the first getCurrentTime.
WatchdogStart ==
  /\ watchdogPc = "start"
  /\ watchdogPc' \in {"lock", "exited"}
  /\ captured' = 0
  /\ UNCHANGED <<killSwitch, timestampsMtx, updatedCv, age, workerVars, remaining>>

\* A timeout ends the watchdog: nobody is watched then.
WatchdogLock ==
  /\ watchdogPc = "lock"
  /\ \/ /\ timestampsMtx = "free" /\ timestampsMtx' = "watchdog"
        /\ watchdogPc' = "initialize"
     \/ /\ timestampsMtx # "free" /\ UNCHANGED timestampsMtx
        /\ watchdogPc' = "exited"
  /\ UNCHANGED <<killSwitch, updatedCv, age, workerVars, captured, remaining>>

\* Sensitivity variant: a moment that has passed is not told apart.
TimeLeft_signed(a) == Allowed - a

\* The time until a moment of age a plus the allowed time.
TimeLeft(a) == IF a <= Allowed THEN Allowed - a ELSE 0

\* Every stamp becomes the time captured before the mutex was locked.
WatchdogInitialize ==
  /\ watchdogPc = "initialize"
  /\ age' = [t \in Worker |-> captured]
  /\ remaining' = TimeLeft(captured)
  /\ watchdogPc' = "top"
  /\ UNCHANGED <<killSwitch, timestampsMtx, updatedCv, workerVars, captured>>

\* The loop condition, and the start of the wait, which releases the mutex.
WatchdogTop ==
  /\ watchdogPc = "top"
  /\ IF killSwitch = "on"
       THEN watchdogPc' = "leave" /\ UNCHANGED <<timestampsMtx, updatedCv>>
       ELSE /\ watchdogPc' = "wait"
            /\ timestampsMtx' = "free"
            /\ updatedCv' = "awaited"
  /\ UNCHANGED <<killSwitch, age, workerVars, captured, remaining>>

waitFrame == <<killSwitch, timestampsMtx, age, workerVars, watchdogVars>>

\* Sensitivity variant: the wait has no time limit.
WatchdogTimeout_never == FALSE /\ UNCHANGED vars

\* timeoutPoint is reached before a notification.
WatchdogTimeout == /\ watchdogPc = "wait" /\ updatedCv = "awaited"
                   /\ remaining = 0
                   /\ updatedCv' = "quiet"
                   /\ UNCHANGED waitFrame

\* A wait may also end for no reason.
WatchdogSpuriousWakeup == /\ watchdogPc = "wait" /\ updatedCv = "awaited"
                          /\ updatedCv' = "quiet"
                          /\ UNCHANGED waitFrame

\* cnd_timedwait takes the mutex again and returns.
WatchdogWake ==
  /\ watchdogPc = "wait" /\ updatedCv = "quiet"
  /\ timestampsMtx = "free"
  /\ timestampsMtx' = "watchdog"
  /\ watchdogPc' = "check"
  /\ UNCHANGED <<killSwitch, updatedCv, age, workerVars, captured, remaining>>

IsOldest(t) == \A u \in Worker : age[u] <= age[t]

\* Sensitivity variant: any stamp instead of the oldest one.
WatchdogCheck_anyStamp ==
  /\ watchdogPc = "check"
  /\ \E t \in Worker :
       IF age[t] > Allowed /\ killSwitch = "off"
         THEN killSwitch' = "on" /\ watchdogPc' = "leave" /\ UNCHANGED remaining
         ELSE /\ remaining' = TimeLeft(age[t]) /\ watchdogPc' = "top"
              /\ UNCHANGED killSwitch
  /\ UNCHANGED <<timestampsMtx, updatedCv, age, workerVars, captured>>

\* Sensitivity variant: the alarm comes at the allowed age already.
WatchdogCheck_early ==
  /\ watchdogPc = "check"
  /\ \E t \in Worker :
       /\ IsOldest(t)
       /\ IF age[t] >= Allowed /\ killSwitch = "off"
            THEN killSwitch' = "on" /\ watchdogPc' = "leave" /\ UNCHANGED remaining
            ELSE /\ remaining' = TimeLeft(age[t]) /\ watchdogPc' = "top"
                 /\ UNCHANGED killSwitch
  /\ UNCHANGED <<timestampsMtx, updatedCv, age, workerVars, captured>>

\* The oldest stamp decides: triggerKillSwitch raises SIGTERM, whose handler
\* has run when raise returns; otherwise the next time to look is set.
WatchdogCheck ==
  /\ watchdogPc = "check"
  /\ \E t \in Worker :
       /\ IsOldest(t)
       /\ IF age[t] > Allowed /\ killSwitch = "off"
            THEN killSwitch' = "on" /\ watchdogPc' = "leave" /\ UNCHANGED remaining
            ELSE /\ remaining' = TimeLeft(age[t]) /\ watchdogPc' = "top"
                 /\ UNCHANGED killSwitch
  /\ UNCHANGED <<timestampsMtx, updatedCv, age, workerVars, captured>>

\* Sensitivity variant: the mutex stays locked.
WatchdogLeave_keepsLock ==
  /\ watchdogPc = "leave"
  /\ watchdogPc' = "exited"
  /\ UNCHANGED <<killSwitch, timestampsMtx, updatedCv, age, workerVars, captured,
                 remaining>>

WatchdogLeave ==
  /\ watchdogPc = "leave"
  /\ timestampsMtx' = "free"
  /\ watchdogPc' = "exited"
  /\ UNCHANGED <<killSwitch, updatedCv, age, workerVars, captured, remaining>>

WatchdogThread == \/ WatchdogStart \/ WatchdogLock \/ WatchdogInitialize
                  \/ WatchdogTop \/ WatchdogTimeout \/ WatchdogWake
                  \/ WatchdogCheck \/ WatchdogLeave

Next == \/ Thread_activateKillSwitch
        \/ Tick
        \/ \E t \in Worker : Report(t) \/ WorkerStops(t)
        \/ WatchdogThread
        \/ WatchdogSpuriousWakeup

Spec == Init /\ [][Next]_vars

\* Time passes, every thread that can run does, and the workers' reports do
\* not keep the watchdog from the mutex for ever: between two reports a
\* worker sleeps or waits.
FairSpec == /\ Spec
            /\ WF_vars(Tick)
            /\ \A t \in Worker : WF_vars(workerPc[t] # "busy" /\ Report(t))
            /\ WF_vars(WatchdogThread)
            /\ SF_vars(WatchdogWake)

-----------------------------------------------------------------------------
WatchdogPcs == {"start", "lock", "initialize", "top", "wait", "check", "leave",
                "exited"}

TypeOK == /\ killSwitch \in {"off", "on"}
          /\ timestampsMtx \in Worker \cup {"free", "watchdog"}
          /\ updatedCv \in {"quiet", "awaited"}
          /\ age \in [Worker -> Ages]
          /\ workerPc \in [Worker -> {"busy", "stamp", "unlock", "notify", "stopped"}]
          /\ silent \in [Worker -> Ages]
          /\ watchdogPc \in WatchdogPcs
          /\ captured \in Ages
          /\ remaining \in 0 .. Allowed

\* The stamps are read and written only by the holder of the mutex, and no
\* path leaves it locked.
LockDiscipline ==
  /\ timestampsMtx = "watchdog" <=>
       watchdogPc \in {"initialize", "top", "check", "leave"}
  /\ \A t \in Worker : timestampsMtx = t <=> workerPc[t] \in {"stamp", "unlock"}

\* The watchdog never sleeps past the moment when a thread becomes overdue,
\* although its wait is bounded by one stamp and the others move meanwhile.
SleepsNoLonger ==
  watchdogPc = "wait" /\ updatedCv = "awaited" =>
    \A t \in Worker : remaining = 0 \/ remaining + age[t] <= Allowed

\* An alarm comes too early by at most the time the watchdog may have waited
\* for the mutex when it started.
NoEarlyAlarm ==
  [][killSwitch' # killSwitch /\ watchdogPc' = "leave" =>
       \E t \in Worker : silent[t] > Allowed - LockWait]_vars

\* A thread that stops reporting is noticed, unless the watchdog itself gave
\* up at its start: no order of reports, timeouts and wakeups prevents it.
StoppedIsNoticed ==
  \A t \in Worker :
    workerPc[t] = "stopped" ~> killSwitch = "on" \/ watchdogPc = "exited"

\* The watchdog itself ends when the kill switch is on, even if nobody
\* reports any more.
KillEndsWatchdog == killSwitch = "on" ~> watchdogPc = "exited"

=============================================================================
