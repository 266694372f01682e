--------------------------- MODULE Responsiveness ---------------------------
(***************************************************************************)
(* The worker threads of the pipeline and the watchdog on one clock: how   *)
(* long their sleeps, waits and prints take, measured against the time the *)
(* watchdog allows between two reports.                                    *)
(*                                                                         *)
(* A step here is what a thread does between two places where it blocks;   *)
(* it takes no time, its interleavings are the subject of Pipeline.tla and *)
(* Watchdog.tla.  left[t] is the time until t can run; a thread that can   *)
(* run does so at most Late ticks later.  Mutexes are held only within a   *)
(* step, so an attempt to lock one never times out: no report is lost for  *)
(* that reason, and no record dropped.  The buffers are the numbers of     *)
(* their items.  The logger is left out: it reports before each            *)
(* of its waits, and every iteration of the reader wakes it.               *)
(***************************************************************************)
EXTENDS Integers, FiniteSets

CONSTANTS Period,            \* READER_SLEEP_TIME_MS, in ticks
          Wait,              \* the ..._CONDVAR_WAIT_TIME_MS, in ticks
          Allowed,           \* WATCHDOG_ALLOWED_UNRESPONSIVE_MS, in ticks
          Late,              \* bound: how late a thread that can run does run
          MaxPrint,          \* bound: how long "clear" and the printing take
          MaxOutage,         \* bound: how long /proc/stat cannot be loaded
          Spurious,          \* bound: the waits that may end for no reason
          ProcStatCapacity,  \* PROCSTAT_CBUF_CAPACITY
          UsageInfoCapacity  \* USAGEINFO_CBUF_CAPACITY

Worker == {"reader", "analyzer", "printer"}
Thread == Worker \cup {"watchdog"}

Larger(a, b) == IF a >= b THEN a ELSE b
Smaller(a, b) == IF a <= b THEN a ELSE b

\* No thread sleeps, waits or prints longer than this.
Longest == Larger(Larger(Period, Wait), Larger(Allowed, Larger(MaxPrint, MaxOutage)))

ASSUME ResponsivenessAssumption ==
  /\ Period \in Nat /\ Wait \in Nat /\ Allowed \in Nat /\ Late \in Nat
  /\ MaxPrint \in Nat /\ MaxOutage \in Nat
  /\ Spurious \subseteq {"waitRoom", "waitIn", "waitOut", "waitInfo"}
  /\ ProcStatCapacity \in Nat \ {0} /\ UsageInfoCapacity \in Nat \ {0}

\* The printer shows a new record within this time, from the start (two loads)
\* or from the record before.
RefreshTime == 2 * MaxOutage + Period + MaxPrint + 6 * Late

\* bound: the histories count as far as the properties look.
MaxScreenAge == RefreshTime + 1
MaxKillAge == Longest + Late + 1

VARIABLES
  killSwitch,    \* "off" or "on"
  alarm,         \* "silent" or "raised" by the watchdog
  pc,            \* what a thread does when it can run
  left,          \* the time until it can
  age,           \* the age of the time stamp of a worker
  procStats,     \* the items of procStatCbuf
  usageInfos,    \* the items of usageInfoCbuf
  samplesRead,   \* oldStatBufferInitialized: 0, or 1 after the first sample
  screenAge,     \* history: the time since the printer got a record, or since
                 \* the start; 0 when the kill switch is on
  killAge        \* history: for how long the kill switch has been on

bufferVars == <<procStats, usageInfos, samplesRead>>
vars == <<killSwitch, alarm, pc, left, age, bufferVars, screenAge, killAge>>

\* The watchdog has initialised the stamps, the threads enter their loops.
Init == /\ killSwitch = "off" /\ alarm = "silent"
        /\ pc = [t \in Thread |-> IF t = "watchdog" THEN "look" ELSE "top"]
        /\ left = [t \in Thread |-> IF t = "watchdog" THEN Allowed ELSE 0]
        /\ age = [t \in Worker |-> 0]
        /\ procStats = 0 /\ usageInfos = 0 /\ samplesRead = 0
        /\ screenAge = 0 /\ killAge = 0

\* Neither at its end nor hanging for good.
Active(t) == pc[t] \notin {"exited", "hung"}

\* t can run, and runs at place.
Runs(t, place) == /\ pc[t] = place
                  /\ left[t] <= 0 \/ place \in Spurious
                  /\ killSwitch = "off"

\* t reaches place and can run there after time; the threads of woken get a
\* notification if they wait for one.
Become(t, place, time, woken) ==
  /\ pc' = [pc EXCEPT ![t] = place]
  /\ left' = [u \in Thread |-> IF u = t THEN time
                               ELSE IF u \in woken THEN Smaller(left[u], 0)
                               ELSE left[u]]

Waiting(t, place) == {u \in {t} : pc[u] = place}

\* Watchdog_reportActive at the top of a loop.  The notification makes the
\* watchdog look, which it may do at any time here.
reports(t) == age' = [age EXCEPT ![t] = 0]

workerFrame == <<killSwitch, alarm, killAge>>

-----------------------------------------------------------------------------
(* ReaderThread.                                                           *)

\* Sensitivity variant: a full buffer takes one item more.
readerWrites_grows == /\ procStats' = procStats + 1
                      /\ Become("reader", "asleep", Period, Waiting("analyzer", "waitIn"))

\* Sensitivity variant: the analyzer is not notified.
readerWrites_noNotify == /\ procStats' = Smaller(procStats + 1, ProcStatCapacity)
                         /\ Become("reader", "asleep", Period, {})

\* The sample is written, the analyzer notified, the reader sleeps.
readerWrites == /\ procStats' = Smaller(procStats + 1, ProcStatCapacity)
                /\ Become("reader", "asleep", Period, Waiting("analyzer", "waitIn"))

\* An iteration with a load that succeeds: at the start, after the sleep, or
\* when an outage of /proc/stat is over.
ReaderIterates ==
  /\ \E place \in {"top", "asleep", "outage"} : Runs("reader", place)
  /\ reports("reader")
  /\ IF procStats = ProcStatCapacity
       THEN Become("reader", "waitRoom", Wait, {}) /\ UNCHANGED procStats
       ELSE readerWrites
  /\ UNCHANGED <<workerFrame, usageInfos, samplesRead, screenAge>>

\* A failed load goes round at once; until the outage is over the reader does
\* nothing but report and try again.
ReaderFailsToLoad ==
  /\ \E place \in {"top", "asleep"} : Runs("reader", place)
  /\ reports("reader")
  /\ \E time \in 1 .. MaxOutage : Become("reader", "outage", time, {})
  /\ UNCHANGED <<workerFrame, bufferVars, screenAge>>

\* The wait for room is over; a full buffer loses its oldest sample.
ReaderHasWaited ==
  /\ Runs("reader", "waitRoom")
  /\ readerWrites
  /\ UNCHANGED <<workerFrame, age, usageInfos, samplesRead, screenAge>>

-----------------------------------------------------------------------------
(* AnalyzerThread.                                                         *)

\* Sensitivity variant: the printer is not notified.
analyzerWrites_noNotify(woken) ==
  /\ usageInfos' = Smaller(usageInfos + 1, UsageInfoCapacity)
  /\ Become("analyzer", "top", 0, woken)

\* The record is written and the printer notified.
analyzerWrites(woken) ==
  /\ usageInfos' = Smaller(usageInfos + 1, UsageInfoCapacity)
  /\ Become("analyzer", "top", 0, woken \cup Waiting("printer", "waitInfo"))

\* A sample is taken and the reader notified.  The first sample is only kept,
\* any other one makes a record, which may have to wait for room.
analyzerReads ==
  LET reader == Waiting("reader", "waitRoom")
  IN  /\ procStats > 0
      /\ procStats' = procStats - 1
      /\ samplesRead' = 1
      /\ \/ /\ samplesRead = 0
            /\ Become("analyzer", "top", 0, reader)
            /\ UNCHANGED usageInfos
         \/ /\ samplesRead = 1 /\ usageInfos = UsageInfoCapacity
            /\ Become("analyzer", "waitOut", Wait, reader)
            /\ UNCHANGED usageInfos
         \/ /\ samplesRead = 1 /\ usageInfos < UsageInfoCapacity
            /\ analyzerWrites(reader)

analyzerFinds(place, time) == /\ procStats = 0
                              /\ Become("analyzer", place, time, {})
                              /\ UNCHANGED bufferVars

AnalyzerIterates ==
  /\ Runs("analyzer", "top")
  /\ reports("analyzer")
  /\ analyzerReads \/ analyzerFinds("waitIn", Wait)
  /\ UNCHANGED <<workerFrame, screenAge>>

\* The wait for a sample is over; without one the loop goes round.
AnalyzerHasWaited ==
  /\ Runs("analyzer", "waitIn")
  /\ analyzerReads \/ analyzerFinds("top", 0)
  /\ UNCHANGED <<workerFrame, age, screenAge>>

\* The wait for room is over; a full buffer loses its oldest record.
AnalyzerHasRoom ==
  /\ Runs("analyzer", "waitOut")
  /\ analyzerWrites({})
  /\ UNCHANGED <<workerFrame, age, procStats, samplesRead, screenAge>>

-----------------------------------------------------------------------------
(* PrinterThread.                                                          *)

\* Something is printed in any case, a new record if there is one.  Nobody is
\* notified of the room.
printerPrints ==
  /\ usageInfos' = Larger(usageInfos - 1, 0)
  /\ screenAge' = IF usageInfos > 0 THEN 0 ELSE screenAge
  /\ \E time \in 0 .. MaxPrint : Become("printer", "top", time, {})

PrinterIterates ==
  /\ Runs("printer", "top")
  /\ reports("printer")
  /\ IF usageInfos = 0
       THEN Become("printer", "waitInfo", Wait, {}) /\ UNCHANGED <<usageInfos, screenAge>>
       ELSE printerPrints
  /\ UNCHANGED <<workerFrame, procStats, samplesRead>>

PrinterHasWaited ==
  /\ Runs("printer", "waitInfo")
  /\ printerPrints
  /\ UNCHANGED <<workerFrame, age, procStats, samplesRead>>

-----------------------------------------------------------------------------
(* WatchdogThread.                                                         *)

\* Sensitivity variant: the watchdog always sleeps as long as it allows.
WatchdogLooks_sleepsAllowed ==
  /\ killSwitch = "off" /\ pc["watchdog"] = "look"
  /\ IF \E t \in Worker : age[t] > Allowed
       THEN /\ killSwitch' = "on" /\ alarm' = "raised"
            /\ Become("watchdog", "exited", 0, {})
            /\ screenAge' = 0
       ELSE /\ left["watchdog"] <= 0
            /\ Become("watchdog", "look", Allowed, {})
            /\ UNCHANGED <<killSwitch, alarm, screenAge>>
  /\ UNCHANGED <<killAge, age, bufferVars>>

\* The alarm raises SIGTERM, whose handler sets the kill switch; otherwise the
\* oldest stamp sets the next time to look.
WatchdogLooks ==
  /\ killSwitch = "off" /\ pc["watchdog"] = "look"
  /\ \E t \in Worker :
       /\ \A u \in Worker : age[u] <= age[t]
       /\ \/ /\ age[t] > Allowed
             /\ killSwitch' = "on" /\ alarm' = "raised"
             /\ Become("watchdog", "exited", 0, {})
             /\ screenAge' = 0
          \/ /\ age[t] <= Allowed
             /\ Become("watchdog", "look", Allowed - age[t], {})
             /\ UNCHANGED <<killSwitch, alarm, screenAge>>
  /\ UNCHANGED <<killAge, age, bufferVars>>

-----------------------------------------------------------------------------
(* The kill switch.                                                        *)

\* SIGINT or SIGTERM from outside.
Thread_activateKillSwitch ==
  /\ killSwitch = "off" /\ killSwitch' = "on"
  /\ screenAge' = 0
  /\ UNCHANGED <<alarm, pc, left, age, bufferVars, killAge>>

\* Sensitivity variant: a wait that ends is begun again.
SeesKillSwitch_waitsAgain(t) ==
  /\ killSwitch = "on" /\ Active(t) /\ left[t] <= 0
  /\ IF pc[t] \in {"waitRoom", "waitIn", "waitOut", "waitInfo"}
       THEN Become(t, pc[t], Wait, {})
       ELSE Become(t, "exited", 0, {})
  /\ UNCHANGED <<workerFrame, age, bufferVars, screenAge>>

\* A thread sees the kill switch at the top of its loop or after a wait.  The
\* signal may end the sleep of the reader.
SeesKillSwitch(t) ==
  /\ killSwitch = "on" /\ Active(t)
  /\ left[t] <= 0 \/ pc[t] \in Spurious \cup {"asleep", "outage", "look"}
  /\ Become(t, "exited", 0, {})
  /\ UNCHANGED <<workerFrame, age, bufferVars, screenAge>>

-----------------------------------------------------------------------------
(* The world outside.                                                      *)

Hung == {t \in Worker : pc[t] = "hung"}

\* A worker hangs for good, or has ended because its start failed.  Bound: one.
Hangs(t) == /\ killSwitch = "off" /\ Active(t) /\ Hung = {}
            /\ Become(t, "hung", 0, {})
            /\ UNCHANGED <<workerFrame, age, bufferVars, screenAge>>

\* Time passes, unless some thread had to run before.  Histories that no
\* property looks at any more stand still.
Tick ==
  /\ \A t \in Thread : Active(t) => left[t] > -Late
  /\ left' = [t \in Thread |-> IF Active(t) THEN left[t] - 1 ELSE left[t]]
  /\ IF killSwitch = "off"
       THEN /\ age' = [t \in Worker |-> IF pc[t] = "outage" THEN 0 ELSE age[t] + 1]
            /\ screenAge' = Smaller(screenAge + 1, MaxScreenAge)
            /\ UNCHANGED killAge
       ELSE /\ killAge' = Smaller(killAge + 1, MaxKillAge)
            /\ UNCHANGED <<age, screenAge>>
  /\ UNCHANGED <<killSwitch, alarm, pc, bufferVars>>

Next == \/ ReaderIterates \/ ReaderFailsToLoad \/ ReaderHasWaited
        \/ AnalyzerIterates \/ AnalyzerHasWaited \/ AnalyzerHasRoom
        \/ PrinterIterates \/ PrinterHasWaited
        \/ WatchdogLooks
        \/ Thread_activateKillSwitch
        \/ \E t \in Thread : SeesKillSwitch(t)
        \/ \E t \in Worker : Hangs(t)
        \/ Tick

Spec == Init /\ [][Next]_vars

-----------------------------------------------------------------------------
Places == [reader |-> {"top", "asleep", "outage", "waitRoom"},
           analyzer |-> {"top", "waitIn", "waitOut"},
           printer |-> {"top", "waitInfo"},
           watchdog |-> {"look"}]

TypeOK ==
  /\ killSwitch \in {"off", "on"} /\ alarm \in {"silent", "raised"}
  /\ DOMAIN pc = Thread
  /\ \A t \in Thread : pc[t] \in Places[t] \cup {"hung", "exited"}
  /\ left \in [Thread -> -Late .. Longest]
  /\ age \in [Worker -> Nat]
  /\ procStats \in 0 .. ProcStatCapacity /\ usageInfos \in 0 .. UsageInfoCapacity
  /\ samplesRead \in {0, 1}
  /\ screenAge \in 0 .. MaxScreenAge /\ killAge \in 0 .. MaxKillAge

\* The watchdog raises an alarm only if a worker hangs: with these bounds the
\* waits of threads that are well never add up to more than it allows.
AlarmHasCause == alarm = "raised" => Hung # {}

\* A thread that hangs is noticed in time, although the watchdog sleeps until
\* a time computed from stamps that have moved since.
NoticedInTime ==
  killSwitch = "off" => \A t \in Worker : age[t] <= Allowed + Late

\* The kill switch wakes nobody, and yet every thread that does not hang is at
\* its end after the longest of the times a thread may be away.
StopsInTime ==
  killAge > Longest + Late =>
    \A t \in Thread : pc[t] \in {"exited", "hung"}

\* The screen is refreshed in time while all threads are well.
ScreenIsFresh ==
  killSwitch = "off" /\ Hung = {} => screenAge <= RefreshTime
=============================================================================
