------------------------- MODULE ResponsivenessProofs -------------------------
(***************************************************************************)
(* Proofs about the threads and the watchdog on one clock, for every       *)
(* length of the sleeps, waits, prints and outages, every lateness of the  *)
(* threads and every capacity of the buffers.                              *)
(***************************************************************************)
EXTENDS Responsiveness, TLAPS

\* What TypeOK says of the threads, and of the rest.
ThreadsOK == /\ DOMAIN pc = Thread
             /\ \A t \in Thread : pc[t] \in Places[t] \cup {"hung", "exited"}
             /\ left \in [Thread -> -Late .. Longest]

FlagsOK == killSwitch \in {"off", "on"} /\ alarm \in {"silent", "raised"}

BuffersOK == /\ procStats \in 0 .. ProcStatCapacity
             /\ usageInfos \in 0 .. UsageInfoCapacity
             /\ samplesRead \in {0, 1}

HistoriesOK == screenAge \in 0 .. MaxScreenAge /\ killAge \in 0 .. MaxKillAge

\* TypeOK is made of these parts.
LEMMA TypeParts ==
  TypeOK <=> FlagsOK /\ ThreadsOK /\ age \in [Worker -> Nat] /\ BuffersOK /\ HistoriesOK
  BY DEF TypeOK, FlagsOK, ThreadsOK, BuffersOK, HistoriesOK

\* Longest bounds every time a thread may be away, and is a number.
LEMMA LongestBounds ==
  /\ Longest \in Nat /\ Late \in Nat
  /\ Period \in 0 .. Longest /\ Wait \in 0 .. Longest /\ 0 \in 0 .. Longest
  /\ Allowed \in Nat /\ Allowed <= Longest
  /\ \A time \in 1 .. MaxOutage : time \in 0 .. Longest
  /\ \A time \in 0 .. MaxPrint : time \in 0 .. Longest
<1>1. \A a, b \in Nat : Larger(a, b) \in Nat /\ a <= Larger(a, b) /\ b <= Larger(a, b)
  BY DEF Larger
<1>2. /\ Period \in Nat /\ Wait \in Nat /\ Allowed \in Nat /\ Late \in Nat
      /\ MaxPrint \in Nat /\ MaxOutage \in Nat
  BY ResponsivenessAssumption
<1> DEFINE a == Larger(Period, Wait)
           b == Larger(MaxPrint, MaxOutage)
           c == Larger(Allowed, b)
<1>3. /\ a \in Nat /\ b \in Nat /\ c \in Nat
      /\ Period <= a /\ Wait <= a /\ MaxPrint <= b /\ MaxOutage <= b
      /\ Allowed <= c /\ b <= c
  BY <1>1, <1>2
<1>4. /\ Longest = Larger(a, c) /\ Longest \in Nat
      /\ a <= Longest /\ c <= Longest
  BY <1>1, <1>3 DEF Longest
<1> HIDE DEF a, b, c
<1>5. QED
  BY <1>2, <1>3, <1>4

\* The histories have natural bounds.
LEMMA HistoryBounds == MaxScreenAge \in Nat /\ MaxKillAge \in Nat
  BY LongestBounds, ResponsivenessAssumption DEF MaxScreenAge, MaxKillAge, RefreshTime

-----------------------------------------------------------------------------
\* A thread that goes to a place of its own leaves the others where they are,
\* and changes the time only of those it wakes.
LEMMA BecomeEffect ==
  ASSUME ThreadsOK, NEW t \in Thread, NEW place \in Places[t] \cup {"hung", "exited"},
         NEW time \in 0 .. Longest, NEW woken, Become(t, place, time, woken)
  PROVE  /\ ThreadsOK'
         /\ pc'[t] = place
         /\ \A u \in Thread \ {t} : pc'[u] = pc[u]
         /\ \A u \in Thread \ {t} : u \notin woken => left'[u] = left[u]
<1>1. /\ DOMAIN pc' = Thread
      /\ \A u \in Thread : pc'[u] = IF u = t THEN place ELSE pc[u]
  BY DEF ThreadsOK, Become
<1>2. \A u \in Thread : left'[u] = IF u = t THEN time
                                   ELSE IF u \in woken THEN Smaller(left[u], 0)
                                   ELSE left[u]
  BY DEF Become
<1>3. \A u \in Thread : left[u] \in -Late .. Longest /\ Smaller(left[u], 0) \in -Late .. Longest
  BY LongestBounds DEF ThreadsOK, Smaller
<1>4. time \in -Late .. Longest
  BY LongestBounds
<1>5. left' \in [Thread -> -Late .. Longest]
  <2>1. \A u \in Thread : left'[u] \in -Late .. Longest
    BY <1>2, <1>3, <1>4
  <2>2. left' = [u \in Thread |-> left'[u]]
    BY DEF Become
  <2>3. QED
    BY <2>1, <2>2
<1>6. QED
  BY <1>1, <1>2, <1>5 DEF ThreadsOK

-----------------------------------------------------------------------------
\* What a step of a worker does and leaves alone.
WorkerStep ==
  /\ killSwitch = "off" /\ UNCHANGED <<killSwitch, alarm, killAge>>
  /\ ThreadsOK' /\ BuffersOK' /\ screenAge' \in 0 .. MaxScreenAge
  /\ age' \in [Worker -> Nat]
  /\ pc'["watchdog"] = pc["watchdog"] /\ left'["watchdog"] = left["watchdog"]
  /\ \A t \in Worker : age'[t] = 0 \/ age'[t] = age[t]

\* The places of the workers.
LEMMA WorkerPlaces ==
  /\ {"top", "asleep", "outage", "waitRoom", "hung"} \subseteq Places["reader"] \cup {"hung", "exited"}
  /\ {"top", "waitIn", "waitOut", "hung"} \subseteq Places["analyzer"] \cup {"hung", "exited"}
  /\ {"top", "waitInfo", "hung"} \subseteq Places["printer"] \cup {"hung", "exited"}
  /\ {"look", "exited"} \subseteq Places["watchdog"] \cup {"hung", "exited"}
  BY DEF Places

\* A worker that goes to another place does not touch the watchdog.
LEMMA WorkerBecomes ==
  ASSUME ThreadsOK, NEW t \in Worker, NEW place \in Places[t] \cup {"hung", "exited"},
         NEW time \in 0 .. Longest, NEW woken, "watchdog" \notin woken,
         Become(t, place, time, woken)
  PROVE  /\ ThreadsOK'
         /\ pc'["watchdog"] = pc["watchdog"] /\ left'["watchdog"] = left["watchdog"]
<1>1. t \in Thread /\ "watchdog" \in Thread \ {t}
  BY DEF Worker, Thread
<1>2. QED
  BY <1>1, BecomeEffect

\* A report makes one stamp new.
LEMMA ReportEffect ==
  ASSUME age \in [Worker -> Nat], NEW t \in Worker, reports(t)
  PROVE  /\ age' \in [Worker -> Nat]
         /\ \A u \in Worker : age'[u] = 0 \/ age'[u] = age[u]
  BY DEF reports

\* Only threads that wait are woken.
LEMMA WaitingIsWorker ==
  \A place : /\ "watchdog" \notin Waiting("reader", place)
             /\ "watchdog" \notin Waiting("analyzer", place)
             /\ "watchdog" \notin Waiting("printer", place)
  BY DEF Waiting

\* The write of the reader keeps the buffer within its capacity.
LEMMA ReaderWritesEffect ==
  ASSUME ThreadsOK, BuffersOK, readerWrites
  PROVE  /\ ThreadsOK' /\ procStats' \in 0 .. ProcStatCapacity
         /\ pc'["watchdog"] = pc["watchdog"] /\ left'["watchdog"] = left["watchdog"]
<1>1. procStats' \in 0 .. ProcStatCapacity
  BY ResponsivenessAssumption DEF readerWrites, BuffersOK, Smaller
<1>2. Become("reader", "asleep", Period, Waiting("analyzer", "waitIn"))
  BY DEF readerWrites
<1>3. QED
  BY <1>1, <1>2, WorkerBecomes, WorkerPlaces, LongestBounds, WaitingIsWorker DEF Worker

\* The steps of the reader.
LEMMA ReaderSteps ==
  ASSUME TypeOK, ReaderIterates \/ ReaderFailsToLoad \/ ReaderHasWaited
  PROVE  WorkerStep
<1> "reader" \in Worker
  BY DEF Worker
<1>1. ThreadsOK /\ BuffersOK /\ age \in [Worker -> Nat] /\ screenAge \in 0 .. MaxScreenAge
  BY TypeParts DEF HistoriesOK
<1>2. CASE ReaderIterates
  <2>1. /\ killSwitch = "off" /\ reports("reader")
        /\ UNCHANGED <<workerFrame, usageInfos, samplesRead, screenAge>>
    BY <1>2 DEF ReaderIterates, Runs
  <2>2. CASE procStats = ProcStatCapacity
    <3>1. Become("reader", "waitRoom", Wait, {}) /\ UNCHANGED procStats
      BY <1>2, <2>2 DEF ReaderIterates
    <3>2. ThreadsOK' /\ pc'["watchdog"] = pc["watchdog"] /\ left'["watchdog"] = left["watchdog"]
      BY <1>1, <3>1, WorkerBecomes, WorkerPlaces, LongestBounds
    <3>3. QED
      BY <1>1, <2>1, <3>1, <3>2, ReportEffect DEF WorkerStep, workerFrame, BuffersOK
  <2>3. CASE procStats # ProcStatCapacity
    <3>1. readerWrites
      BY <1>2, <2>3 DEF ReaderIterates
    <3>2. QED
      BY <1>1, <2>1, <3>1, ReaderWritesEffect, ReportEffect DEF WorkerStep, workerFrame, BuffersOK
  <2>4. QED
    BY <2>2, <2>3
<1>3. CASE ReaderFailsToLoad
  <2>1. /\ killSwitch = "off" /\ reports("reader")
        /\ UNCHANGED <<workerFrame, bufferVars, screenAge>>
    BY <1>3 DEF ReaderFailsToLoad, Runs
  <2>2. PICK time \in 1 .. MaxOutage : Become("reader", "outage", time, {})
    BY <1>3 DEF ReaderFailsToLoad
  <2>3. ThreadsOK' /\ pc'["watchdog"] = pc["watchdog"] /\ left'["watchdog"] = left["watchdog"]
    BY <1>1, <2>2, WorkerBecomes, WorkerPlaces, LongestBounds
  <2>4. QED
    BY <1>1, <2>1, <2>3, ReportEffect DEF WorkerStep, workerFrame, bufferVars, BuffersOK
<1>4. CASE ReaderHasWaited
  <2>1. /\ killSwitch = "off" /\ readerWrites
        /\ UNCHANGED <<workerFrame, age, usageInfos, samplesRead, screenAge>>
    BY <1>4 DEF ReaderHasWaited, Runs
  <2>2. QED
    BY <1>1, <2>1, ReaderWritesEffect DEF WorkerStep, workerFrame, BuffersOK
<1>5. QED
  BY <1>2, <1>3, <1>4

\* The write of the analyzer keeps the buffer within its capacity.
LEMMA AnalyzerWritesEffect ==
  ASSUME ThreadsOK, BuffersOK, NEW woken, "watchdog" \notin woken, analyzerWrites(woken)
  PROVE  /\ ThreadsOK' /\ usageInfos' \in 0 .. UsageInfoCapacity
         /\ pc'["watchdog"] = pc["watchdog"] /\ left'["watchdog"] = left["watchdog"]
<1>1. usageInfos' \in 0 .. UsageInfoCapacity
  BY ResponsivenessAssumption DEF analyzerWrites, BuffersOK, Smaller
<1>2. Become("analyzer", "top", 0, woken \cup Waiting("printer", "waitInfo"))
  BY DEF analyzerWrites
<1>3. "watchdog" \notin woken \cup Waiting("printer", "waitInfo")
  BY WaitingIsWorker
<1>4. QED
  BY <1>1, <1>2, <1>3, WorkerBecomes, WorkerPlaces, LongestBounds DEF Worker

\* Taking a sample, with or without a record to write.
LEMMA AnalyzerReadsEffect ==
  ASSUME ThreadsOK, BuffersOK, analyzerReads
  PROVE  /\ ThreadsOK' /\ BuffersOK'
         /\ pc'["watchdog"] = pc["watchdog"] /\ left'["watchdog"] = left["watchdog"]
<1> DEFINE reader == Waiting("reader", "waitRoom")
<1>1. "analyzer" \in Worker /\ "watchdog" \notin reader
  BY WaitingIsWorker DEF Worker
<1>2. procStats' \in 0 .. ProcStatCapacity /\ samplesRead' \in {0, 1}
  BY ResponsivenessAssumption DEF analyzerReads, BuffersOK
<1>3. \/ Become("analyzer", "top", 0, reader) /\ UNCHANGED usageInfos
      \/ Become("analyzer", "waitOut", Wait, reader) /\ UNCHANGED usageInfos
      \/ analyzerWrites(reader)
  BY DEF analyzerReads
<1> HIDE DEF reader
<1>4. CASE Become("analyzer", "top", 0, reader) /\ UNCHANGED usageInfos
  BY <1>1, <1>2, <1>4, WorkerBecomes, WorkerPlaces, LongestBounds DEF BuffersOK
<1>5. CASE Become("analyzer", "waitOut", Wait, reader) /\ UNCHANGED usageInfos
  BY <1>1, <1>2, <1>5, WorkerBecomes, WorkerPlaces, LongestBounds DEF BuffersOK
<1>6. CASE analyzerWrites(reader)
  BY <1>1, <1>2, <1>6, AnalyzerWritesEffect DEF BuffersOK
<1>7. QED
  BY <1>3, <1>4, <1>5, <1>6

\* Finding no sample.
LEMMA AnalyzerFindsEffect ==
  ASSUME ThreadsOK, BuffersOK, NEW place \in {"top", "waitIn"}, NEW time \in 0 .. Longest,
         analyzerFinds(place, time)
  PROVE  /\ ThreadsOK' /\ BuffersOK'
         /\ pc'["watchdog"] = pc["watchdog"] /\ left'["watchdog"] = left["watchdog"]
<1>1. Become("analyzer", place, time, {}) /\ UNCHANGED bufferVars
  BY DEF analyzerFinds
<1>2. QED
  BY <1>1, WorkerBecomes, WorkerPlaces DEF Worker, BuffersOK, bufferVars

\* The steps of the analyzer.
LEMMA AnalyzerSteps ==
  ASSUME TypeOK, AnalyzerIterates \/ AnalyzerHasWaited \/ AnalyzerHasRoom
  PROVE  WorkerStep
<1>1. ThreadsOK /\ BuffersOK /\ age \in [Worker -> Nat] /\ screenAge \in 0 .. MaxScreenAge
  BY TypeParts DEF HistoriesOK
<1>2. Wait \in 0 .. Longest /\ 0 \in 0 .. Longest /\ "analyzer" \in Worker
  BY LongestBounds DEF Worker
<1>3. CASE AnalyzerIterates
  <2>1. /\ killSwitch = "off" /\ reports("analyzer")
        /\ UNCHANGED <<workerFrame, screenAge>>
        /\ analyzerReads \/ analyzerFinds("waitIn", Wait)
    BY <1>3 DEF AnalyzerIterates, Runs
  <2>2. /\ ThreadsOK' /\ BuffersOK'
        /\ pc'["watchdog"] = pc["watchdog"] /\ left'["watchdog"] = left["watchdog"]
    BY <1>1, <1>2, <2>1, AnalyzerReadsEffect, AnalyzerFindsEffect
  <2>3. QED
    BY <1>1, <1>2, <2>1, <2>2, ReportEffect DEF WorkerStep, workerFrame
<1>4. CASE AnalyzerHasWaited
  <2>1. /\ killSwitch = "off" /\ UNCHANGED <<workerFrame, age, screenAge>>
        /\ analyzerReads \/ analyzerFinds("top", 0)
    BY <1>4 DEF AnalyzerHasWaited, Runs
  <2>2. /\ ThreadsOK' /\ BuffersOK'
        /\ pc'["watchdog"] = pc["watchdog"] /\ left'["watchdog"] = left["watchdog"]
    BY <1>1, <1>2, <2>1, AnalyzerReadsEffect, AnalyzerFindsEffect
  <2>3. QED
    BY <1>1, <2>1, <2>2 DEF WorkerStep, workerFrame
<1>5. CASE AnalyzerHasRoom
  <2>1. /\ killSwitch = "off" /\ analyzerWrites({})
        /\ UNCHANGED <<workerFrame, age, procStats, samplesRead, screenAge>>
    BY <1>5 DEF AnalyzerHasRoom, Runs
  <2>2. QED
    BY <1>1, <2>1, AnalyzerWritesEffect DEF WorkerStep, workerFrame, BuffersOK
<1>6. QED
  BY <1>3, <1>4, <1>5

\* Printing takes a record from the buffer, if there is one.
LEMMA PrinterPrintsEffect ==
  ASSUME ThreadsOK, BuffersOK, screenAge \in 0 .. MaxScreenAge, printerPrints
  PROVE  /\ ThreadsOK' /\ usageInfos' \in 0 .. UsageInfoCapacity
         /\ screenAge' \in 0 .. MaxScreenAge
         /\ pc'["watchdog"] = pc["watchdog"] /\ left'["watchdog"] = left["watchdog"]
<1>1. usageInfos' \in 0 .. UsageInfoCapacity
  BY ResponsivenessAssumption DEF printerPrints, BuffersOK, Larger
<1>2. screenAge' \in 0 .. MaxScreenAge
  BY HistoryBounds DEF printerPrints
<1>3. PICK time \in 0 .. MaxPrint : Become("printer", "top", time, {})
  BY DEF printerPrints
<1>4. QED
  BY <1>1, <1>2, <1>3, WorkerBecomes, WorkerPlaces, LongestBounds DEF Worker

\* The steps of the printer.
LEMMA PrinterSteps ==
  ASSUME TypeOK, PrinterIterates \/ PrinterHasWaited
  PROVE  WorkerStep
<1>1. ThreadsOK /\ BuffersOK /\ age \in [Worker -> Nat] /\ screenAge \in 0 .. MaxScreenAge
  BY TypeParts DEF HistoriesOK
<1>2. Wait \in 0 .. Longest /\ "printer" \in Worker
  BY LongestBounds DEF Worker
<1>3. CASE PrinterIterates
  <2>1. /\ killSwitch = "off" /\ reports("printer")
        /\ UNCHANGED <<workerFrame, procStats, samplesRead>>
    BY <1>3 DEF PrinterIterates, Runs
  <2>2. CASE usageInfos = 0
    <3>1. Become("printer", "waitInfo", Wait, {}) /\ UNCHANGED <<usageInfos, screenAge>>
      BY <1>3, <2>2 DEF PrinterIterates
    <3>2. ThreadsOK' /\ pc'["watchdog"] = pc["watchdog"] /\ left'["watchdog"] = left["watchdog"]
      BY <1>1, <1>2, <3>1, WorkerBecomes, WorkerPlaces
    <3>3. QED
      BY <1>1, <1>2, <2>1, <3>1, <3>2, ReportEffect DEF WorkerStep, workerFrame, BuffersOK
  <2>3. CASE usageInfos # 0
    <3>1. printerPrints
      BY <1>3, <2>3 DEF PrinterIterates
    <3>2. QED
      BY <1>1, <1>2, <2>1, <3>1, PrinterPrintsEffect, ReportEffect
         DEF WorkerStep, workerFrame, BuffersOK
  <2>4. QED
    BY <2>2, <2>3
<1>4. CASE PrinterHasWaited
  <2>1. /\ killSwitch = "off" /\ printerPrints
        /\ UNCHANGED <<workerFrame, age, procStats, samplesRead>>
    BY <1>4 DEF PrinterHasWaited, Runs
  <2>2. QED
    BY <1>1, <2>1, PrinterPrintsEffect DEF WorkerStep, workerFrame, BuffersOK
<1>5. QED
  BY <1>3, <1>4

\* A worker that hangs.
LEMMA HangStep ==
  ASSUME TypeOK, NEW t \in Worker, Hangs(t)
  PROVE  WorkerStep
<1>1. ThreadsOK /\ BuffersOK /\ age \in [Worker -> Nat] /\ screenAge \in 0 .. MaxScreenAge
  BY TypeParts DEF HistoriesOK
<1>2. /\ killSwitch = "off" /\ Become(t, "hung", 0, {})
      /\ UNCHANGED <<workerFrame, age, bufferVars, screenAge>>
  BY DEF Hangs
<1>3. ThreadsOK' /\ pc'["watchdog"] = pc["watchdog"] /\ left'["watchdog"] = left["watchdog"]
  BY <1>1, <1>2, WorkerBecomes, LongestBounds
<1>4. QED
  BY <1>1, <1>2, <1>3 DEF WorkerStep, workerFrame, bufferVars, BuffersOK

-----------------------------------------------------------------------------
\* As long as the program runs, the watchdog looks again before any stamp is
\* older than allowed: it computed that time from the oldest stamp, and reports
\* only make stamps younger.
LooksInTime ==
  killSwitch = "off" =>
    /\ pc["watchdog"] = "look" /\ killAge = 0
    /\ \A t \in Worker : age[t] + left["watchdog"] <= Allowed

\* Since the kill switch is on, nobody goes away for any time.
ReturnsInTime ==
  killSwitch = "on" => \A t \in Thread : Active(t) => killAge + left[t] <= Longest

IndInv == TypeOK /\ LooksInTime /\ ReturnsInTime

\* What TypeOK says of single values.
LEMMA TypeFacts ==
  ASSUME TypeOK
  PROVE  /\ \A t \in Thread : left[t] \in Int /\ -Late <= left[t] /\ left[t] <= Longest
         /\ \A t \in Worker : age[t] \in Nat
         /\ killAge \in Nat /\ killAge <= MaxKillAge
         /\ "watchdog" \in Thread /\ Worker \subseteq Thread
  BY LongestBounds, HistoryBounds DEF TypeOK, Worker, Thread

\* A step of a worker.
LEMMA WorkerStepInductive ==
  ASSUME IndInv, WorkerStep
  PROVE  IndInv'
<1>1. TypeOK'
  BY TypeParts DEF IndInv, WorkerStep, TypeOK, FlagsOK, ThreadsOK, BuffersOK
<1>2. LooksInTime'
  <2>1. /\ pc'["watchdog"] = "look" /\ killAge' = 0
        /\ \A t \in Worker : age[t] + left["watchdog"] <= Allowed
    BY DEF IndInv, LooksInTime, WorkerStep
  <2>2. \A t \in Worker : 0 + left["watchdog"] <= Allowed
    BY <2>1, TypeFacts, LongestBounds DEF IndInv
  <2>3. \A t \in Worker : age'[t] + left'["watchdog"] <= Allowed
    BY <2>1, <2>2 DEF WorkerStep
  <2>4. QED
    BY <2>1, <2>3 DEF LooksInTime
<1>3. ReturnsInTime'
  BY DEF WorkerStep, ReturnsInTime
<1>4. QED
  BY <1>1, <1>2, <1>3 DEF IndInv

\* The watchdog looks: it sleeps until the oldest stamp becomes too old, or
\* sets the kill switch.
LEMMA WatchdogLooksInductive ==
  ASSUME IndInv, WatchdogLooks
  PROVE  IndInv'
<1>1. TypeOK /\ ThreadsOK /\ pc["watchdog"] = "look" /\ killAge = 0
  BY TypeParts DEF IndInv, LooksInTime, WatchdogLooks
<1>2. PICK t \in Worker :
        /\ \A u \in Worker : age[u] <= age[t]
        /\ \/ /\ age[t] > Allowed
              /\ killSwitch' = "on" /\ alarm' = "raised"
              /\ Become("watchdog", "exited", 0, {})
              /\ screenAge' = 0
           \/ /\ age[t] <= Allowed
              /\ Become("watchdog", "look", Allowed - age[t], {})
              /\ UNCHANGED <<killSwitch, alarm, screenAge>>
  BY DEF WatchdogLooks
<1>3. UNCHANGED <<killAge, age, bufferVars>> /\ killSwitch = "off"
  BY DEF WatchdogLooks
<1>4. CASE age[t] > Allowed
  <2>1. /\ killSwitch' = "on" /\ alarm' = "raised" /\ screenAge' = 0
        /\ Become("watchdog", "exited", 0, {})
    BY <1>2, <1>4, TypeFacts, LongestBounds, <1>1
  <2>2. ThreadsOK'
    BY <1>1, <2>1, BecomeEffect, WorkerPlaces, LongestBounds, TypeFacts
  <2>3. TypeOK'
    BY <1>1, <1>3, <2>1, <2>2, HistoryBounds
       DEF TypeOK, ThreadsOK, bufferVars
  <2>4. \A u \in Thread : killAge' + left'[u] <= Longest
    <3>1. \A u \in Thread : left'[u] \in -Late .. Longest
      BY <2>2 DEF ThreadsOK
    <3>2. QED
      BY <1>1, <1>3, <3>1, LongestBounds
  <2>5. QED
    BY <2>1, <2>3, <2>4 DEF IndInv, LooksInTime, ReturnsInTime
<1>5. CASE age[t] <= Allowed
  <2>1. /\ UNCHANGED <<killSwitch, alarm, screenAge>>
        /\ Become("watchdog", "look", Allowed - age[t], {})
    BY <1>2, <1>5, TypeFacts, LongestBounds, <1>1
  <2>2. Allowed - age[t] \in 0 .. Longest /\ age[t] \in Nat
    BY <1>1, <1>5, TypeFacts, LongestBounds
  <2>3. ThreadsOK' /\ pc'["watchdog"] = "look"
    BY <1>1, <2>1, <2>2, BecomeEffect, WorkerPlaces, TypeFacts
  <2>4. left'["watchdog"] = Allowed - age[t]
    BY <1>1, <2>1, TypeFacts DEF Become
  <2>5. TypeOK'
    BY <1>1, <1>3, <2>1, <2>3 DEF TypeOK, ThreadsOK, bufferVars
  <2>6. \A u \in Worker : age[u] + (Allowed - age[t]) <= Allowed
    BY <1>1, <1>2, TypeFacts, LongestBounds
  <2>7. LooksInTime'
    BY <1>1, <1>3, <2>3, <2>4, <2>6 DEF LooksInTime
  <2>8. QED
    BY <1>3, <2>1, <2>5, <2>7 DEF IndInv, ReturnsInTime
<1>6. QED
  BY <1>1, <1>4, <1>5, TypeFacts, LongestBounds

\* The signal.
LEMMA KillSwitchInductive ==
  ASSUME IndInv, Thread_activateKillSwitch
  PROVE  IndInv'
<1>1. TypeOK'
  BY HistoryBounds DEF IndInv, TypeOK, Thread_activateKillSwitch, bufferVars
<1>2. killSwitch' = "on" /\ killAge' = 0 /\ UNCHANGED left
  BY DEF IndInv, LooksInTime, Thread_activateKillSwitch
<1>3. \A t \in Thread : 0 + left[t] <= Longest
  BY TypeFacts, LongestBounds DEF IndInv
<1>4. QED
  BY <1>1, <1>2, <1>3 DEF IndInv, LooksInTime, ReturnsInTime

\* A thread that ends.
LEMMA SeesKillSwitchInductive ==
  ASSUME IndInv, NEW t \in Thread, SeesKillSwitch(t)
  PROVE  IndInv'
<1>1. /\ killSwitch = "on" /\ Become(t, "exited", 0, {})
      /\ UNCHANGED <<workerFrame, age, bufferVars, screenAge>>
  BY DEF SeesKillSwitch
<1>2. /\ ThreadsOK' /\ pc'[t] = "exited"
      /\ \A u \in Thread \ {t} : pc'[u] = pc[u] /\ left'[u] = left[u]
  BY <1>1, BecomeEffect, LongestBounds, TypeParts DEF IndInv
<1>3. TypeOK'
  BY <1>1, <1>2 DEF IndInv, TypeOK, ThreadsOK, workerFrame, bufferVars
<1>4. \A u \in Thread : Active(u)' => killAge' + left'[u] <= Longest
  BY <1>1, <1>2 DEF IndInv, ReturnsInTime, Active, workerFrame
<1>5. QED
  BY <1>1, <1>3, <1>4 DEF IndInv, LooksInTime, ReturnsInTime, workerFrame

\* Time passes.
LEMMA TickInductive ==
  ASSUME IndInv, Tick
  PROVE  IndInv'
<1>1. /\ UNCHANGED <<killSwitch, alarm, pc, bufferVars>>
      /\ left' = [t \in Thread |-> IF Active(t) THEN left[t] - 1 ELSE left[t]]
      /\ \A t \in Thread : Active(t) => left[t] > -Late
  BY DEF Tick
<1>2. left' \in [Thread -> -Late .. Longest]
  <2>1. \A t \in Thread : (IF Active(t) THEN left[t] - 1 ELSE left[t]) \in -Late .. Longest
    BY <1>1, TypeFacts, LongestBounds DEF IndInv
  <2>2. QED
    BY <1>1, <2>1
<1>3. CASE killSwitch = "off"
  <2>1. /\ age' = [t \in Worker |-> IF pc[t] = "outage" THEN 0 ELSE age[t] + 1]
        /\ screenAge' = Smaller(screenAge + 1, MaxScreenAge) /\ UNCHANGED killAge
    BY <1>3 DEF Tick
  <2>2. TypeOK'
    <3>1. age' \in [Worker -> Nat]
      BY <2>1, TypeFacts DEF IndInv
    <3>2. screenAge' \in 0 .. MaxScreenAge
      BY <2>1, HistoryBounds DEF IndInv, TypeOK, Smaller
    <3>3. QED
      BY <1>1, <1>2, <2>1, <3>1, <3>2 DEF IndInv, TypeOK, bufferVars
  <2>3. LooksInTime'
    <3>1. /\ pc["watchdog"] = "look" /\ killAge = 0
          /\ \A t \in Worker : age[t] + left["watchdog"] <= Allowed
      BY <1>3 DEF IndInv, LooksInTime
    <3>2. left'["watchdog"] = left["watchdog"] - 1
      BY <1>1, <3>1, TypeFacts DEF IndInv, Active
    <3>3. \A t \in Worker : /\ (age[t] + 1) + (left["watchdog"] - 1) <= Allowed
                            /\ 0 + (left["watchdog"] - 1) <= Allowed
      BY <3>1, TypeFacts, LongestBounds DEF IndInv
    <3>4. QED
      BY <1>1, <2>1, <3>1, <3>2, <3>3 DEF LooksInTime
  <2>4. QED
    BY <1>1, <1>3, <2>2, <2>3 DEF IndInv, ReturnsInTime
<1>4. CASE killSwitch # "off"
  <2>1. killAge' = Smaller(killAge + 1, MaxKillAge) /\ UNCHANGED <<age, screenAge>>
    BY <1>4 DEF Tick
  <2>2. killAge' \in 0 .. MaxKillAge /\ killAge' <= killAge + 1
    BY <2>1, TypeFacts, HistoryBounds DEF IndInv, Smaller
  <2>3. TypeOK'
    BY <1>1, <1>2, <2>1, <2>2 DEF IndInv, TypeOK, bufferVars
  <2>4. \A t \in Thread : Active(t) => killAge + left[t] <= Longest
    BY <1>4 DEF IndInv, TypeOK, ReturnsInTime
  <2>5. \A t \in Thread : Active(t) => killAge' + left'[t] <= Longest
    <3>1. \A t \in Thread : Active(t) => killAge' + (left[t] - 1) <= Longest
      BY <2>2, <2>4, TypeFacts, LongestBounds DEF IndInv
    <3>2. QED
      BY <1>1, <3>1
  <2>6. QED
    BY <1>1, <1>4, <2>3, <2>5 DEF IndInv, LooksInTime, ReturnsInTime, Active
<1>5. QED
  BY <1>3, <1>4

\* The invariant is inductive.
LEMMA Invariance == Spec => []IndInv
<1>1. Init => IndInv
  <2> SUFFICES ASSUME Init PROVE IndInv
    OBVIOUS
  <2>1. TypeOK
    <3>1. left \in [Thread -> -Late .. Longest]
      BY LongestBounds DEF Init
    <3>2. \A t \in Thread : pc[t] \in Places[t] \cup {"hung", "exited"}
      BY DEF Init, Places, Thread, Worker
    <3>3. QED
      BY <3>1, <3>2, HistoryBounds, ResponsivenessAssumption DEF Init, TypeOK
  <2>2. QED
    BY <2>1, LongestBounds DEF IndInv, Init, LooksInTime, ReturnsInTime, Worker, Thread
<1>2. IndInv /\ [Next]_vars => IndInv'
  <2> SUFFICES ASSUME IndInv, [Next]_vars PROVE IndInv'
    OBVIOUS
  <2>1. CASE ReaderIterates \/ ReaderFailsToLoad \/ ReaderHasWaited
    BY <2>1, ReaderSteps, WorkerStepInductive DEF IndInv
  <2>2. CASE AnalyzerIterates \/ AnalyzerHasWaited \/ AnalyzerHasRoom
    BY <2>2, AnalyzerSteps, WorkerStepInductive DEF IndInv
  <2>3. CASE PrinterIterates \/ PrinterHasWaited
    BY <2>3, PrinterSteps, WorkerStepInductive DEF IndInv
  <2>4. CASE WatchdogLooks
    BY <2>4, WatchdogLooksInductive
  <2>5. CASE Thread_activateKillSwitch
    BY <2>5, KillSwitchInductive
  <2>6. CASE \E t \in Thread : SeesKillSwitch(t)
    BY <2>6, SeesKillSwitchInductive
  <2>7. CASE \E t \in Worker : Hangs(t)
    BY <2>7, HangStep, WorkerStepInductive DEF IndInv
  <2>8. CASE Tick
    BY <2>8, TickInductive
  <2>9. CASE UNCHANGED vars
    BY <2>9 DEF vars, bufferVars, IndInv, TypeOK, LooksInTime, ReturnsInTime, Active
  <2>10. QED
    BY <2>1, <2>2, <2>3, <2>4, <2>5, <2>6, <2>7, <2>8, <2>9 DEF Next
<1>3. QED
  BY <1>1, <1>2, PTL DEF Spec

\* Every variable keeps its type: no thread is late by more than it may be or
\* away for longer than the longest of its times, and no buffer exceeds its
\* capacity.
THEOREM TypeCorrect == Spec => []TypeOK
<1>1. IndInv => TypeOK
  BY DEF IndInv
<1>2. QED
  BY <1>1, Invariance, PTL

\* A worker that stops reporting is noticed within the allowed time, whatever
\* the other threads do and however long they wait.
THEOREM Notices == Spec => []NoticedInTime
<1>1. ASSUME IndInv PROVE NoticedInTime
  <2> SUFFICES ASSUME killSwitch = "off", NEW t \in Worker PROVE age[t] <= Allowed + Late
    BY DEF NoticedInTime
  <2>1. age[t] + left["watchdog"] <= Allowed
    BY <1>1 DEF IndInv, LooksInTime
  <2>2. /\ age[t] \in Nat /\ left["watchdog"] \in Int /\ -Late <= left["watchdog"]
        /\ Allowed \in Nat /\ Late \in Nat
    BY <1>1, TypeFacts, LongestBounds DEF IndInv
  <2>3. QED
    BY <2>1, <2>2
<1>2. QED
  BY <1>1, Invariance, PTL

\* Every thread that does not hang has ended once the kill switch has been on
\* for longer than the longest time a thread may be away.
THEOREM Stops == Spec => []StopsInTime
<1>1. ASSUME IndInv PROVE StopsInTime
  <2> SUFFICES ASSUME killAge > Longest + Late, NEW t \in Thread, Active(t) PROVE FALSE
    BY DEF StopsInTime, Active
  <2>1. /\ left[t] \in Int /\ -Late <= left[t] /\ killAge \in Nat
        /\ Longest \in Nat /\ Late \in Nat
    BY <1>1, TypeFacts, LongestBounds DEF IndInv
  <2>2. killSwitch = "on"
    BY <1>1, <2>1 DEF IndInv, LooksInTime, TypeOK
  <2>3. killAge + left[t] <= Longest
    BY <1>1, <2>2 DEF IndInv, ReturnsInTime
  <2>4. QED
    BY <2>1, <2>3
<1>2. QED
  BY <1>1, Invariance, PTL

-----------------------------------------------------------------------------
(* The pace of the pipeline.  While the program runs and nobody hangs, a    *)
(* sample is taken and its record printed before the next sample is there.  *)

\* The period of the reader has room for the analyzer and the printer to run
\* late and for a print that is still going on.
KeepsUp == 2 * Late + MaxPrint < Period

\* The watchdog allows the printer to wait for a new record and print.
StaysAllowed == RefreshTime + MaxPrint + Late <= Allowed

Well == killSwitch = "off" /\ Hung = {}

\* The time until the reader must have written a sample, or be late for it.
SampleDue == left["reader"] + IF pc["reader"] = "outage" THEN 0 ELSE Late + MaxOutage

\* From one sample to the next.
Cycle == Period + MaxOutage + Late

\* One item at most is on its way; nobody waits for room.
InTurn ==
  /\ procStats \in {0, 1} /\ usageInfos \in {0, 1} /\ procStats + usageInfos <= 1
  /\ pc["reader"] \in {"top", "asleep", "outage"}
  /\ pc["analyzer"] \in {"top", "waitIn"}
  /\ pc["printer"] \in {"top", "waitInfo"}
  /\ SampleDue <= Cycle
  /\ pc["reader"] = "top" => samplesRead = 0 /\ procStats = 0 /\ left["reader"] <= 0
  /\ pc["analyzer"] = "top" => left["analyzer"] <= 0
  /\ pc["printer"] = "top" => left["printer"] <= MaxPrint
  /\ usageInfos = 1 => samplesRead = 1

\* A sample is taken in the sleep of the reader after it, a record too.
TakenInTime ==
  /\ procStats = 1 =>
       /\ pc["reader"] = "asleep" /\ left["analyzer"] <= 0
       /\ left["analyzer"] + Period <= left["reader"]
  /\ usageInfos = 1 =>
       /\ pc["reader"] = "asleep" /\ left["printer"] <= MaxPrint
       /\ pc["printer"] = "waitInfo" => left["printer"] <= 0
       /\ left["printer"] + Period <= left["reader"] + Late + MaxPrint

ReaderReports ==
  /\ pc["reader"] = "asleep" => age["reader"] + left["reader"] <= Period
  /\ pc["reader"] = "outage" => age["reader"] = 0
  /\ pc["reader"] = "top" => age["reader"] + left["reader"] <= 0

AnalyzerReports ==
  /\ pc["analyzer"] = "waitIn" /\ procStats = 0 => age["analyzer"] + SampleDue <= Cycle
  /\ pc["analyzer"] = "waitIn" /\ procStats = 1 => age["analyzer"] + left["analyzer"] <= Cycle + Late
  /\ pc["analyzer"] = "top" => age["analyzer"] + left["analyzer"] <= Cycle + 2 * Late

\* How old the screen is when the next sample, or the record, gets there.
Refreshes ==
  /\ samplesRead = 0 /\ procStats = 0 => screenAge + SampleDue <= MaxOutage + Late
  /\ samplesRead = 0 /\ procStats = 1 => screenAge + SampleDue <= Cycle + MaxOutage + 2 * Late
  /\ samplesRead = 1 /\ procStats = 0 /\ usageInfos = 0
       => screenAge + SampleDue <= Cycle + MaxOutage + 2 * Late
  /\ samplesRead = 1 /\ procStats = 1
       => screenAge + left["analyzer"] + 2 * Late + MaxPrint <= RefreshTime
  /\ usageInfos = 1 => screenAge + left["printer"] + Late <= RefreshTime

\* The printer waits no longer than the screen is old.
PrinterReports ==
  /\ pc["printer"] = "waitInfo" => age["printer"] <= screenAge
  /\ pc["printer"] = "top" => age["printer"] + left["printer"] <= RefreshTime + MaxPrint

Pace == /\ InTurn /\ TakenInTime /\ Refreshes
        /\ ReaderReports /\ AnalyzerReports /\ PrinterReports

-----------------------------------------------------------------------------
\* The numbers the pace is made of.
LEMMA PaceNumbers ==
  /\ Period \in Nat /\ Wait \in Nat /\ Allowed \in Nat /\ Late \in Nat
  /\ MaxPrint \in Nat /\ MaxOutage \in Nat
  /\ ProcStatCapacity \in Nat \ {0} /\ UsageInfoCapacity \in Nat \ {0}
  /\ Cycle = Period + MaxOutage + Late
  /\ RefreshTime = 2 * MaxOutage + Period + MaxPrint + 6 * Late
  /\ MaxScreenAge = RefreshTime + 1
  BY ResponsivenessAssumption DEF Cycle, RefreshTime, MaxScreenAge

\* The values that Pace compares are numbers.
LEMMA PaceValues ==
  ASSUME TypeOK
  PROVE  /\ left["reader"] \in Int /\ left["analyzer"] \in Int /\ left["printer"] \in Int
         /\ -Late <= left["reader"] /\ -Late <= left["analyzer"] /\ -Late <= left["printer"]
         /\ age["reader"] \in Nat /\ age["analyzer"] \in Nat /\ age["printer"] \in Nat
         /\ screenAge \in Nat /\ procStats \in Nat /\ usageInfos \in Nat
         /\ samplesRead \in {0, 1}
         /\ SampleDue \in Int /\ -Late <= SampleDue
         /\ SampleDue = left["reader"] + IF pc["reader"] = "outage" THEN 0 ELSE Late + MaxOutage
<1>1. /\ left["reader"] \in Int /\ left["analyzer"] \in Int /\ left["printer"] \in Int
      /\ -Late <= left["reader"] /\ -Late <= left["analyzer"] /\ -Late <= left["printer"]
      /\ age["reader"] \in Nat /\ age["analyzer"] \in Nat /\ age["printer"] \in Nat
  BY TypeFacts DEF Worker, Thread
<1>2. /\ screenAge \in Nat /\ procStats \in Nat /\ usageInfos \in Nat
      /\ samplesRead \in {0, 1}
  BY PaceNumbers, HistoryBounds DEF TypeOK
<1>3. SampleDue \in Int /\ -Late <= SampleDue
  BY <1>1, PaceNumbers DEF SampleDue
<1>4. QED
  BY <1>1, <1>2, <1>3 DEF SampleDue

\* At this pace the screen is fresh.
LEMMA PaceRefreshes ==
  ASSUME TypeOK, Pace
  PROVE  screenAge <= RefreshTime
<1>1. CASE samplesRead = 0 /\ procStats = 0
  BY <1>1, PaceNumbers, PaceValues DEF Pace, Refreshes
<1>2. CASE samplesRead = 0 /\ procStats = 1
  BY <1>2, PaceNumbers, PaceValues DEF Pace, Refreshes
<1>3. CASE samplesRead = 1 /\ procStats = 0 /\ usageInfos = 0
  BY <1>3, PaceNumbers, PaceValues DEF Pace, Refreshes
<1>4. CASE samplesRead = 1 /\ procStats = 1
  BY <1>4, PaceNumbers, PaceValues DEF Pace, Refreshes
<1>5. CASE usageInfos = 1
  BY <1>5, PaceNumbers, PaceValues DEF Pace, Refreshes
<1>6. QED
  BY <1>1, <1>2, <1>3, <1>4, <1>5, PaceValues DEF Pace, InTurn

\* At this pace no stamp is too old.
LEMMA PaceReports ==
  ASSUME TypeOK, Pace, StaysAllowed, NEW t \in Worker
  PROVE  age[t] <= Allowed
<1> USE PaceNumbers, PaceValues DEF Pace, InTurn
<1>1. age["reader"] <= Allowed
  BY DEF ReaderReports, StaysAllowed
<1>2. age["analyzer"] <= Allowed
  <2>1. age["analyzer"] <= Cycle + 3 * Late
    BY DEF AnalyzerReports
  <2>2. QED
    BY <2>1 DEF StaysAllowed
<1>3. age["printer"] <= Allowed
  BY PaceRefreshes DEF PrinterReports, StaysAllowed
<1>4. QED
  BY <1>1, <1>2, <1>3 DEF Worker

\* When the reader can run, both buffers are empty.
LEMMA PaceEmpties ==
  ASSUME TypeOK, Pace, KeepsUp, left["reader"] <= 0 \/ pc["reader"] # "asleep"
  PROVE  procStats = 0 /\ usageInfos = 0
  BY PaceNumbers, PaceValues DEF Pace, InTurn, TakenInTime, KeepsUp

-----------------------------------------------------------------------------
\* Where the workers are, and when they can run, after one of them has moved.
LEMMA BecomeValues ==
  ASSUME ThreadsOK, NEW t \in Worker, NEW place, NEW time, NEW woken,
         Become(t, place, time, woken)
  PROVE  \A u \in Worker :
           /\ pc'[u] = IF u = t THEN place ELSE pc[u]
           /\ left'[u] = IF u = t THEN time
                         ELSE IF u \in woken THEN Smaller(left[u], 0)
                         ELSE left[u]
  BY DEF Become, ThreadsOK, Worker, Thread

\* The write of a sample.
LEMMA PaceReaderWrites ==
  ASSUME TypeOK, TypeOK', Pace, KeepsUp, ReaderIterates
  PROVE  Pace'
<1>1. /\ ThreadsOK /\ reports("reader") /\ left["reader"] <= 0
      /\ UNCHANGED <<usageInfos, samplesRead, screenAge>>
  BY TypeParts, ResponsivenessAssumption DEF ReaderIterates, Runs
<1>2. procStats = 0 /\ usageInfos = 0
  BY <1>1, PaceEmpties
<1>3. /\ Become("reader", "asleep", Period, Waiting("analyzer", "waitIn"))
      /\ procStats' = 1
  BY <1>2, PaceNumbers DEF ReaderIterates, readerWrites, Smaller
<1>4. /\ pc'["reader"] = "asleep" /\ left'["reader"] = Period
      /\ pc'["analyzer"] = pc["analyzer"]
      /\ left'["analyzer"] = IF pc["analyzer"] = "waitIn" THEN Smaller(left["analyzer"], 0)
                             ELSE left["analyzer"]
      /\ pc'["printer"] = pc["printer"] /\ left'["printer"] = left["printer"]
  BY <1>1, <1>3, BecomeValues DEF Worker, Waiting
<1>5. /\ age'["reader"] = 0
      /\ age'["analyzer"] = age["analyzer"] /\ age'["printer"] = age["printer"]
  BY <1>1 DEF reports, TypeOK, Worker
<1>6. left'["analyzer"] <= 0 /\ left'["analyzer"] <= left["analyzer"] /\ left'["analyzer"] \in Int
  BY <1>4, PaceValues, PaceNumbers DEF Smaller, Pace, InTurn
<1>7. SampleDue' = Cycle /\ Cycle \in Nat
  BY <1>4, PaceNumbers DEF SampleDue
<1> USE PaceNumbers, PaceValues
<1>8. InTurn'
  BY <1>1, <1>2, <1>3, <1>4, <1>6, <1>7 DEF Pace, InTurn
<1>9. TakenInTime'
  BY <1>1, <1>2, <1>3, <1>4, <1>6 DEF TakenInTime
<1>10. Refreshes'
  BY <1>1, <1>2, <1>3, <1>6, <1>7 DEF Pace, Refreshes
<1>11. ReaderReports'
  BY <1>4, <1>5 DEF ReaderReports
<1>12. AnalyzerReports'
  BY <1>2, <1>3, <1>4, <1>5, <1>6 DEF Pace, InTurn, AnalyzerReports
<1>13. PrinterReports'
  BY <1>1, <1>4, <1>5 DEF Pace, PrinterReports
<1>14. QED
  BY <1>8, <1>9, <1>10, <1>11, <1>12, <1>13 DEF Pace

\* A failed load.
LEMMA PaceReaderFails ==
  ASSUME TypeOK, TypeOK', Pace, KeepsUp, ReaderFailsToLoad
  PROVE  Pace'
<1>1. /\ ThreadsOK /\ reports("reader") /\ left["reader"] <= 0
      /\ pc["reader"] \in {"top", "asleep"}
      /\ UNCHANGED <<procStats, usageInfos, samplesRead, screenAge>>
  BY TypeParts, ResponsivenessAssumption DEF ReaderFailsToLoad, Runs, bufferVars
<1>2. procStats = 0 /\ usageInfos = 0
  BY <1>1, PaceEmpties
<1>3. PICK time \in 1 .. MaxOutage : Become("reader", "outage", time, {})
  BY DEF ReaderFailsToLoad
<1>4. /\ pc'["reader"] = "outage" /\ left'["reader"] = time
      /\ pc'["analyzer"] = pc["analyzer"] /\ left'["analyzer"] = left["analyzer"]
      /\ pc'["printer"] = pc["printer"] /\ left'["printer"] = left["printer"]
  BY <1>1, <1>3, BecomeValues DEF Worker
<1>5. /\ age'["reader"] = 0
      /\ age'["analyzer"] = age["analyzer"] /\ age'["printer"] = age["printer"]
  BY <1>1 DEF reports, TypeOK, Worker
<1>6. SampleDue' = time /\ SampleDue' <= SampleDue /\ SampleDue' \in Int
  BY <1>1, <1>4, PaceNumbers, PaceValues DEF SampleDue
<1> USE PaceNumbers, PaceValues
<1>8. InTurn'
  BY <1>1, <1>2, <1>4, <1>6 DEF Pace, InTurn
<1>9. TakenInTime'
  BY <1>1, <1>2 DEF TakenInTime
<1>10. Refreshes'
  BY <1>1, <1>2, <1>6 DEF Pace, Refreshes
<1>11. ReaderReports'
  BY <1>4, <1>5 DEF ReaderReports
<1>12. AnalyzerReports'
  BY <1>1, <1>2, <1>4, <1>5, <1>6 DEF Pace, AnalyzerReports
<1>13. PrinterReports'
  BY <1>1, <1>4, <1>5 DEF Pace, PrinterReports
<1>14. QED
  BY <1>8, <1>9, <1>10, <1>11, <1>12, <1>13 DEF Pace

\* A sample is taken: the first one is only kept, another one makes a record.
LEMMA PaceAnalyzerReads ==
  ASSUME TypeOK, TypeOK', Pace, KeepsUp, analyzerReads, UNCHANGED screenAge,
         age'["reader"] = age["reader"], age'["printer"] = age["printer"],
         age'["analyzer"] <= Cycle + 2 * Late
  PROVE  Pace'
<1>1. /\ ThreadsOK /\ procStats = 1 /\ procStats' = 0 /\ usageInfos = 0 /\ samplesRead' = 1
      /\ pc["reader"] = "asleep"
  BY TypeParts, PaceValues DEF analyzerReads, Pace, InTurn, TakenInTime
<1>2. Waiting("reader", "waitRoom") = {}
  BY <1>1 DEF Waiting
<1>3. \/ samplesRead = 0 /\ Become("analyzer", "top", 0, {}) /\ usageInfos' = 0
      \/ /\ samplesRead = 1 /\ usageInfos' = 1
         /\ Become("analyzer", "top", 0, Waiting("printer", "waitInfo"))
  BY <1>1, <1>2, PaceNumbers DEF analyzerReads, analyzerWrites, Smaller
<1>4. /\ pc'["reader"] = "asleep" /\ left'["reader"] = left["reader"]
      /\ pc'["analyzer"] = "top" /\ left'["analyzer"] = 0
      /\ pc'["printer"] = pc["printer"]
  BY <1>1, <1>3, BecomeValues DEF Worker, Waiting
<1>5. SampleDue' = SampleDue
  BY <1>1, <1>4 DEF SampleDue
<1>6. left'["printer"] \in Int /\ left'["printer"] <= left["printer"]
  BY <1>1, <1>3, BecomeValues, PaceValues DEF Worker, Waiting, Smaller
<1> USE PaceNumbers, PaceValues
<1>7. InTurn'
  BY <1>1, <1>3, <1>4, <1>5, <1>6 DEF Pace, InTurn
<1>8. ReaderReports' /\ AnalyzerReports' /\ PrinterReports'
  <2>1. ReaderReports'
    BY <1>1, <1>4 DEF Pace, ReaderReports
  <2>2. AnalyzerReports'
    <3>1. age'["analyzer"] \in Nat
      BY DEF TypeOK, Worker
    <3>2. QED
      BY <1>4, <3>1 DEF AnalyzerReports
  <2>3. PrinterReports'
    BY <1>4, <1>6 DEF Pace, PrinterReports
  <2>4. QED
    BY <2>1, <2>2, <2>3
<1>9. CASE usageInfos' = 0
  <2>1. samplesRead = 0
    BY <1>3, <1>9
  <2>2. TakenInTime'
    BY <1>1, <1>9 DEF TakenInTime
  <2>3. Refreshes'
    BY <1>1, <1>5, <1>9, <2>1 DEF Pace, Refreshes
  <2>4. QED
    BY <1>7, <1>8, <2>2, <2>3 DEF Pace
<1>10. CASE usageInfos' = 1
  <2>1. samplesRead = 1 /\ Become("analyzer", "top", 0, Waiting("printer", "waitInfo"))
    BY <1>3, <1>10
  <2>2. /\ left'["printer"] <= MaxPrint
        /\ pc["printer"] = "waitInfo" => left'["printer"] <= 0
    <3>1. CASE pc["printer"] = "waitInfo"
      <4>1. left'["printer"] = Smaller(left["printer"], 0)
        BY <1>1, <2>1, <3>1, BecomeValues DEF Worker, Waiting
      <4>2. QED
        BY <4>1 DEF Smaller
    <3>2. CASE pc["printer"] = "top"
      BY <1>6, <3>2 DEF Pace, InTurn
    <3>3. QED
      BY <3>1, <3>2 DEF Pace, InTurn
  <2>3. /\ left["analyzer"] + Period <= left["reader"]
        /\ screenAge + left["analyzer"] + 2 * Late + MaxPrint <= RefreshTime
    BY <1>1, <2>1 DEF Pace, TakenInTime, Refreshes
  <2>4. TakenInTime'
    BY <1>1, <1>4, <1>6, <2>2, <2>3 DEF TakenInTime
  <2>5. Refreshes'
    BY <1>1, <1>6, <1>10, <2>2, <2>3 DEF Refreshes
  <2>6. QED
    BY <1>7, <1>8, <2>4, <2>5 DEF Pace
<1>11. QED
  BY <1>3, <1>9, <1>10

\* No sample is there.
LEMMA PaceAnalyzerFinds ==
  ASSUME TypeOK, TypeOK', Pace, NEW place \in {"top", "waitIn"}, NEW time \in Nat,
         analyzerFinds(place, time), UNCHANGED screenAge,
         age'["reader"] = age["reader"], age'["printer"] = age["printer"],
         \/ place = "waitIn" /\ age'["analyzer"] = 0
         \/ place = "top" /\ time = 0 /\ age'["analyzer"] <= Cycle + 2 * Late
  PROVE  Pace'
<1>1. /\ ThreadsOK /\ procStats = 0
      /\ UNCHANGED <<procStats, usageInfos, samplesRead, screenAge>>
      /\ Become("analyzer", place, time, {})
  BY TypeParts DEF analyzerFinds, bufferVars
<1>2. /\ pc'["reader"] = pc["reader"] /\ left'["reader"] = left["reader"]
      /\ pc'["analyzer"] = place /\ left'["analyzer"] = time
      /\ pc'["printer"] = pc["printer"] /\ left'["printer"] = left["printer"]
  BY <1>1, BecomeValues DEF Worker
<1>3. SampleDue' = SampleDue
  BY <1>2 DEF SampleDue
<1> USE PaceNumbers, PaceValues
<1>4. InTurn'
  BY <1>1, <1>2, <1>3 DEF Pace, InTurn
<1>5. TakenInTime'
  BY <1>1, <1>2 DEF Pace, TakenInTime
<1>6. Refreshes'
  BY <1>1, <1>2, <1>3 DEF Pace, Refreshes
<1>7. ReaderReports'
  BY <1>2 DEF Pace, ReaderReports
<1>8. AnalyzerReports'
  <2>1. age'["analyzer"] \in Nat
    BY DEF TypeOK, Worker
  <2>2. QED
    BY <1>1, <1>2, <1>3, <2>1 DEF Pace, InTurn, AnalyzerReports
<1>9. PrinterReports'
  BY <1>1, <1>2 DEF Pace, PrinterReports
<1>10. QED
  BY <1>4, <1>5, <1>6, <1>7, <1>8, <1>9 DEF Pace

\* The analyzer at the top of its loop, and after its wait.
LEMMA PaceAnalyzer ==
  ASSUME TypeOK, TypeOK', Pace, KeepsUp, AnalyzerIterates \/ AnalyzerHasWaited
  PROVE  Pace'
<1>1. UNCHANGED screenAge
  BY DEF AnalyzerIterates, AnalyzerHasWaited
<1>2. CASE AnalyzerIterates
  <2>1. /\ age'["reader"] = age["reader"] /\ age'["printer"] = age["printer"]
        /\ age'["analyzer"] = 0 /\ 0 <= Cycle + 2 * Late
    BY <1>2, PaceNumbers DEF AnalyzerIterates, reports, TypeOK, Worker
  <2>2. analyzerReads \/ analyzerFinds("waitIn", Wait)
    BY <1>2 DEF AnalyzerIterates
  <2>3. QED
    BY <1>1, <2>1, <2>2, PaceAnalyzerReads, PaceAnalyzerFinds, PaceNumbers
<1>3. CASE AnalyzerHasWaited
  <2>1. UNCHANGED age /\ pc["analyzer"] = "waitIn"
    BY <1>3 DEF AnalyzerHasWaited, Runs
  <2>2. age["analyzer"] <= Cycle + 2 * Late
    BY <2>1, PaceNumbers, PaceValues DEF Pace, InTurn, AnalyzerReports
  <2>3. analyzerReads \/ analyzerFinds("top", 0)
    BY <1>3 DEF AnalyzerHasWaited
  <2>4. QED
    BY <1>1, <2>1, <2>2, <2>3, PaceAnalyzerReads, PaceAnalyzerFinds
<1>4. QED
  BY <1>2, <1>3

\* A print, of a new record or of the last one once more.
LEMMA PacePrints ==
  ASSUME TypeOK, TypeOK', Pace, printerPrints, UNCHANGED <<procStats, samplesRead>>,
         age'["reader"] = age["reader"], age'["analyzer"] = age["analyzer"],
         age'["printer"] <= RefreshTime
  PROVE  Pace'
<1>1. ThreadsOK /\ usageInfos' = 0 /\ screenAge' = IF usageInfos > 0 THEN 0 ELSE screenAge
  BY TypeParts, PaceValues DEF printerPrints, Larger, Pace, InTurn
<1>2. PICK time \in 0 .. MaxPrint : Become("printer", "top", time, {})
  BY DEF printerPrints
<1>3. /\ pc'["reader"] = pc["reader"] /\ left'["reader"] = left["reader"]
      /\ pc'["analyzer"] = pc["analyzer"] /\ left'["analyzer"] = left["analyzer"]
      /\ pc'["printer"] = "top" /\ left'["printer"] = time
  BY <1>1, <1>2, BecomeValues DEF Worker
<1>4. SampleDue' = SampleDue
  BY <1>3 DEF SampleDue
<1> USE PaceNumbers, PaceValues
<1>5. InTurn'
  BY <1>1, <1>3, <1>4 DEF Pace, InTurn
<1>6. TakenInTime'
  BY <1>1, <1>3 DEF Pace, TakenInTime
<1>7. Refreshes'
  <2>1. CASE usageInfos = 0
    BY <1>1, <1>3, <1>4, <2>1 DEF Pace, Refreshes
  <2>2. CASE usageInfos = 1
    <3>1. screenAge' = 0 /\ samplesRead' = 1 /\ procStats' = 0 /\ SampleDue <= Cycle
      BY <1>1, <2>2 DEF Pace, InTurn
    <3>2. QED
      BY <1>1, <1>4, <3>1 DEF Refreshes
  <2>3. QED
    BY <2>1, <2>2 DEF Pace, InTurn
<1>8. ReaderReports'
  BY <1>3 DEF Pace, ReaderReports
<1>9. AnalyzerReports'
  BY <1>3, <1>4 DEF Pace, AnalyzerReports
<1>10. PrinterReports'
  <2>1. age'["printer"] \in Nat
    BY DEF TypeOK, Worker
  <2>2. QED
    BY <1>3, <2>1 DEF PrinterReports
<1>11. QED
  BY <1>5, <1>6, <1>7, <1>8, <1>9, <1>10 DEF Pace

\* The printer at the top of its loop, and after its wait.
LEMMA PacePrinter ==
  ASSUME TypeOK, TypeOK', Pace, PrinterIterates \/ PrinterHasWaited
  PROVE  Pace'
<1>1. ThreadsOK /\ RefreshTime \in Nat /\ UNCHANGED <<procStats, samplesRead>>
  BY TypeParts, PaceNumbers DEF PrinterIterates, PrinterHasWaited
<1>2. CASE PrinterIterates /\ usageInfos = 0
  <2>1. /\ Become("printer", "waitInfo", Wait, {}) /\ UNCHANGED <<usageInfos, screenAge>>
        /\ age'["reader"] = age["reader"] /\ age'["analyzer"] = age["analyzer"]
        /\ age'["printer"] = 0
    BY <1>2 DEF PrinterIterates, reports, TypeOK, Worker
  <2>2. /\ pc'["reader"] = pc["reader"] /\ left'["reader"] = left["reader"]
        /\ pc'["analyzer"] = pc["analyzer"] /\ left'["analyzer"] = left["analyzer"]
        /\ pc'["printer"] = "waitInfo"
    BY <1>1, <2>1, BecomeValues DEF Worker
  <2>3. SampleDue' = SampleDue
    BY <2>2 DEF SampleDue
  <2>4. InTurn' /\ TakenInTime'
    BY <1>1, <1>2, <2>1, <2>2, <2>3 DEF Pace, InTurn, TakenInTime
  <2>5. Refreshes'
    BY <1>1, <1>2, <2>1, <2>2, <2>3 DEF Pace, Refreshes
  <2>6. ReaderReports' /\ AnalyzerReports'
    BY <1>1, <2>1, <2>2, <2>3 DEF Pace, ReaderReports, AnalyzerReports
  <2>7. PrinterReports'
    BY <2>1, <2>2, PaceValues DEF PrinterReports
  <2>8. QED
    BY <2>4, <2>5, <2>6, <2>7 DEF Pace
<1>3. CASE PrinterIterates /\ usageInfos # 0
  <2>1. /\ printerPrints
        /\ age'["reader"] = age["reader"] /\ age'["analyzer"] = age["analyzer"]
        /\ age'["printer"] = 0
    BY <1>3 DEF PrinterIterates, reports, TypeOK, Worker
  <2>2. age'["printer"] <= RefreshTime
    BY <1>1, <2>1
  <2>3. QED
    BY <1>1, <2>1, <2>2, PacePrints
<1>4. CASE PrinterHasWaited
  <2>1. printerPrints /\ UNCHANGED age /\ pc["printer"] = "waitInfo"
    BY <1>4 DEF PrinterHasWaited, Runs
  <2>2. age["printer"] <= RefreshTime
    BY <1>1, <2>1, PaceRefreshes, PaceValues DEF Pace, PrinterReports
  <2>3. QED
    BY <1>1, <2>1, <2>2, PacePrints
<1>5. QED
  BY <1>2, <1>3, <1>4

\* Time passes for everybody.
LEMMA PaceTick ==
  ASSUME TypeOK, TypeOK', Pace, killSwitch = "off", Tick
  PROVE  Pace'
<1>1. /\ \A t \in Worker : left'[t] = left[t] - 1
      /\ \A t \in Worker : age'[t] = IF pc[t] = "outage" THEN 0 ELSE age[t] + 1
  <2>1. \A t \in Worker : Active(t)
    BY DEF Active, Worker, Pace, InTurn
  <2>2. QED
    BY <2>1 DEF Tick, Worker, Thread
<1>2. /\ left'["reader"] = left["reader"] - 1 /\ left'["analyzer"] = left["analyzer"] - 1
      /\ left'["printer"] = left["printer"] - 1
      /\ age'["reader"] = IF pc["reader"] = "outage" THEN 0 ELSE age["reader"] + 1
      /\ age'["analyzer"] = age["analyzer"] + 1 /\ age'["printer"] = age["printer"] + 1
  BY <1>1 DEF Worker, Pace, InTurn
<1>3. UNCHANGED <<pc, procStats, usageInfos, samplesRead>>
  BY DEF Tick, bufferVars
<1>4. SampleDue' = SampleDue - 1
  BY <1>2, <1>3, PaceNumbers, PaceValues DEF SampleDue
<1>5. screenAge' = screenAge + 1
  BY PaceRefreshes, PaceNumbers, PaceValues DEF Tick, Smaller
<1> USE PaceNumbers, PaceValues
<1>6. InTurn'
  BY <1>2, <1>3, <1>4 DEF Pace, InTurn
<1>7. TakenInTime'
  BY <1>2, <1>3 DEF Pace, TakenInTime
<1>8. Refreshes'
  BY <1>2, <1>3, <1>4, <1>5 DEF Pace, Refreshes
<1>9. ReaderReports'
  BY <1>2, <1>3 DEF Pace, ReaderReports
<1>10. AnalyzerReports'
  BY <1>2, <1>3, <1>4 DEF Pace, AnalyzerReports
<1>11. PrinterReports'
  BY <1>2, <1>3, <1>5 DEF Pace, PrinterReports
<1>12. QED
  BY <1>6, <1>7, <1>8, <1>9, <1>10, <1>11 DEF Pace

\* The watchdog moves no worker.
LEMMA WatchdogAlone ==
  ASSUME TypeOK, WatchdogLooks, NEW t \in Worker
  PROVE  pc'[t] = pc[t] /\ left'[t] = left[t]
  BY TypeParts DEF WatchdogLooks, Become, ThreadsOK, Worker, Thread

\* A look of the watchdog that raises no alarm keeps Pace.
LEMMA PaceWatchdog ==
  ASSUME TypeOK, Pace, WatchdogLooks, killSwitch' = "off"
  PROVE  Pace'
<1>1. UNCHANGED <<age, procStats, usageInfos, samplesRead, screenAge>>
  BY DEF WatchdogLooks, bufferVars
<1>2. /\ pc'["reader"] = pc["reader"] /\ left'["reader"] = left["reader"]
      /\ pc'["analyzer"] = pc["analyzer"] /\ left'["analyzer"] = left["analyzer"]
      /\ pc'["printer"] = pc["printer"] /\ left'["printer"] = left["printer"]
  BY WatchdogAlone DEF Worker
<1>3. SampleDue' = SampleDue
  BY <1>2 DEF SampleDue
<1>4. InTurn' /\ TakenInTime'
  BY <1>1, <1>2, <1>3 DEF Pace, InTurn, TakenInTime
<1>5. Refreshes'
  BY <1>1, <1>2, <1>3 DEF Pace, Refreshes
<1>6. ReaderReports' /\ AnalyzerReports' /\ PrinterReports'
  BY <1>1, <1>2, <1>3 DEF Pace, ReaderReports, AnalyzerReports, PrinterReports
<1>7. QED
  BY <1>4, <1>5, <1>6 DEF Pace

-----------------------------------------------------------------------------
\* Whoever hangs goes on hanging.
LEMMA HungStays ==
  ASSUME TypeOK, [Next]_vars, NEW t \in Worker, pc[t] = "hung"
  PROVE  pc'[t] = "hung"
<1> DEFINE Moves(u) == \E place, time, woken : Become(u, place, time, woken)
<1>1. ASSUME NEW u \in Thread, Moves(u), Active(u) PROVE pc'[t] = "hung"
  <2>1. t \in Thread /\ DOMAIN pc = Thread /\ t # u
    BY <1>1, TypeParts DEF ThreadsOK, Worker, Thread, Active
  <2>2. QED
    BY <1>1, <2>1 DEF Become
<1>2. ReaderIterates \/ ReaderFailsToLoad \/ ReaderHasWaited => Moves("reader") /\ Active("reader")
  BY DEF ReaderIterates, ReaderFailsToLoad, ReaderHasWaited, readerWrites, Runs, Active
<1>3. AnalyzerIterates \/ AnalyzerHasWaited \/ AnalyzerHasRoom
        => Moves("analyzer") /\ Active("analyzer")
  <2>1. analyzerReads => Moves("analyzer")
    BY DEF analyzerReads, analyzerWrites
  <2>2. \A place, time : analyzerFinds(place, time) => Moves("analyzer")
    BY DEF analyzerFinds
  <2>3. analyzerWrites({}) => Moves("analyzer")
    BY DEF analyzerWrites
  <2> HIDE DEF Moves
  <2>4. QED
    BY <2>1, <2>2, <2>3 DEF AnalyzerIterates, AnalyzerHasWaited, AnalyzerHasRoom, Runs, Active
<1>4. PrinterIterates \/ PrinterHasWaited => Moves("printer") /\ Active("printer")
  BY DEF PrinterIterates, PrinterHasWaited, printerPrints, Runs, Active
<1>5. WatchdogLooks => Moves("watchdog") /\ Active("watchdog")
  BY DEF WatchdogLooks, Active
<1>6. \A u \in Thread : SeesKillSwitch(u) \/ Hangs(u) => Moves(u) /\ Active(u)
  BY DEF SeesKillSwitch, Hangs
<1>7. Thread_activateKillSwitch \/ Tick \/ UNCHANGED vars => UNCHANGED pc
  BY DEF Thread_activateKillSwitch, Tick, vars
<1> HIDE DEF Moves
<1>8. QED
  BY <1>1, <1>2, <1>3, <1>4, <1>5, <1>6, <1>7 DEF Next, Worker, Thread

\* A state that is well comes from one that was.
LEMMA WasWell ==
  ASSUME TypeOK, [Next]_vars, Well'
  PROVE  Well
<1>1. killSwitch' = "off" /\ \A t \in Worker : pc'[t] # "hung"
  BY DEF Well, Hung
<1>2. killSwitch = "off"
  BY <1>1 DEF Next, vars, ReaderIterates, ReaderFailsToLoad, ReaderHasWaited, AnalyzerIterates,
              AnalyzerHasWaited, AnalyzerHasRoom, PrinterIterates, PrinterHasWaited, Runs,
              WatchdogLooks, Thread_activateKillSwitch, SeesKillSwitch, Hangs, Tick, workerFrame
<1>3. Hung = {}
  BY <1>1, HungStays DEF Hung
<1>4. QED
  BY <1>2, <1>3 DEF Well

\* At this pace every step but the one that hangs keeps it.
LEMMA PaceKept ==
  ASSUME TypeOK, TypeOK', Pace, KeepsUp, [Next]_vars, Well, Well'
  PROVE  Pace'
<1>1. killSwitch = "off" /\ killSwitch' = "off" /\ Hung' = {}
  BY DEF Well
<1>2. CASE ReaderIterates
  BY <1>2, PaceReaderWrites
<1>3. CASE ReaderFailsToLoad
  BY <1>3, PaceReaderFails
<1>4. ~ReaderHasWaited /\ ~AnalyzerHasRoom
  BY DEF ReaderHasWaited, AnalyzerHasRoom, Runs, Pace, InTurn
<1>5. CASE AnalyzerIterates \/ AnalyzerHasWaited
  BY <1>5, PaceAnalyzer
<1>6. CASE PrinterIterates \/ PrinterHasWaited
  BY <1>6, PacePrinter
<1>7. CASE WatchdogLooks
  BY <1>1, <1>7, PaceWatchdog
<1>8. ~Thread_activateKillSwitch /\ \A t \in Thread : ~SeesKillSwitch(t)
  BY <1>1 DEF Thread_activateKillSwitch, SeesKillSwitch
<1>9. \A t \in Worker : ~Hangs(t)
  <2> SUFFICES ASSUME NEW t \in Worker, Hangs(t) PROVE FALSE
    OBVIOUS
  <2>1. pc'[t] = "hung"
    BY TypeParts, BecomeValues DEF Hangs
  <2>2. QED
    BY <1>1, <2>1 DEF Hung
<1>10. CASE Tick
  BY <1>1, <1>10, PaceTick
<1>11. CASE UNCHANGED vars
  BY <1>11 DEF vars, bufferVars, Pace, InTurn, TakenInTime, Refreshes, SampleDue,
              ReaderReports, AnalyzerReports, PrinterReports
<1>12. QED
  BY <1>2, <1>3, <1>4, <1>5, <1>6, <1>7, <1>8, <1>9, <1>10, <1>11 DEF Next

\* The pace is kept from the start.
LEMMA PaceInvariance ==
  ASSUME KeepsUp
  PROVE  Spec => [](Well => Pace)
<1>1. Init => (Well => Pace)
  <2> SUFFICES ASSUME Init PROVE Pace
    OBVIOUS
  <2>1. /\ pc["reader"] = "top" /\ pc["analyzer"] = "top" /\ pc["printer"] = "top"
        /\ left["reader"] = 0 /\ left["analyzer"] = 0 /\ left["printer"] = 0
        /\ age["reader"] = 0 /\ age["analyzer"] = 0 /\ age["printer"] = 0
        /\ procStats = 0 /\ usageInfos = 0 /\ samplesRead = 0 /\ screenAge = 0
    BY DEF Init, Worker, Thread
  <2>2. SampleDue = Late + MaxOutage
    BY <2>1, PaceNumbers DEF SampleDue
  <2>3. QED
    BY <2>1, <2>2, PaceNumbers
       DEF Pace, InTurn, TakenInTime, Refreshes, ReaderReports, AnalyzerReports, PrinterReports
<1>2. TypeOK /\ TypeOK' /\ (Well => Pace) /\ [Next]_vars => (Well => Pace)'
  BY WasWell, PaceKept
<1>3. QED
  BY <1>1, <1>2, TypeCorrect, PTL DEF Spec

\* An alarm needs somebody who hangs, now and later.
LEMMA CauseKept ==
  ASSUME TypeOK, Well => Pace, AlarmHasCause, StaysAllowed, [Next]_vars
  PROVE  AlarmHasCause'
<1>1. CASE Hung # {}
  <2>1. PICK t \in Worker : pc[t] = "hung"
    BY <1>1 DEF Hung
  <2>2. QED
    BY <2>1, HungStays DEF Hung, AlarmHasCause
<1>2. CASE Hung = {}
  <2>1. alarm # "raised"
    BY <1>2 DEF AlarmHasCause
  <2>2. WatchdogLooks => alarm' = alarm
    <3> SUFFICES ASSUME WatchdogLooks PROVE alarm' = alarm
      OBVIOUS
    <3>1. Pace
      BY <1>2 DEF WatchdogLooks, Well
    <3>2. \A t \in Worker : age[t] <= Allowed /\ age[t] \in Nat
      BY <3>1, PaceReports, TypeFacts
    <3>3. QED
      BY <3>2, PaceNumbers DEF WatchdogLooks
  <2>3. ~WatchdogLooks => alarm' = alarm
    BY DEF Next, vars, ReaderIterates, ReaderFailsToLoad, ReaderHasWaited, AnalyzerIterates,
           AnalyzerHasWaited, AnalyzerHasRoom, PrinterIterates, PrinterHasWaited,
           Thread_activateKillSwitch, SeesKillSwitch, Hangs, Tick, workerFrame
  <2>4. QED
    BY <2>1, <2>2, <2>3 DEF AlarmHasCause
<1>3. QED
  BY <1>1, <1>2

\* While all threads are well, every record is on the screen in time: from the
\* failed load to the print no wait is missed, whatever the times are, if a
\* period of the reader is longer than a print and two late threads.
THEOREM Fresh ==
  ASSUME KeepsUp
  PROVE  Spec => []ScreenIsFresh
<1>1. TypeOK /\ (Well => Pace) => ScreenIsFresh
  BY PaceRefreshes DEF ScreenIsFresh, Well
<1>2. QED
  BY <1>1, TypeCorrect, PaceInvariance, PTL

\* The watchdog raises no alarm while all threads are well, whatever the times
\* are, if it also allows the time to a fresh screen, a print and a late thread.
THEOREM NoFalseAlarm ==
  ASSUME KeepsUp, StaysAllowed
  PROVE  Spec => []AlarmHasCause
<1>1. Init => AlarmHasCause
  BY DEF Init, AlarmHasCause
<1>2. TypeOK /\ (Well => Pace) /\ AlarmHasCause /\ [Next]_vars => AlarmHasCause'
  BY CauseKept
<1>3. QED
  BY <1>1, <1>2, TypeCorrect, PaceInvariance, PTL DEF Spec
=============================================================================
