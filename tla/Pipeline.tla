------------------------------ MODULE Pipeline ------------------------------
(***************************************************************************)
(* The three worker threads of app/app.c together, and the kill switch.    *)
(***************************************************************************)
EXTENDS Reader, Analyzer, Printer

AllExited == /\ readerPc = "exited"
             /\ analyzerPc = "exited"
             /\ printerPc = "exited"

\* main has joined the three threads.
Terminated == AllExited /\ UNCHANGED vars

Next == \/ Thread_activateKillSwitch
        \/ ReaderThread
        \/ AnalyzerThread
        \/ PrinterThread
        \/ Terminated

Spec == Init /\ [][Next]_vars

\* The operating system runs every thread that can run.
FairSpec == /\ Spec
            /\ WF_vars(ReaderThread)
            /\ WF_vars(AnalyzerThread)
            /\ WF_vars(PrinterThread)

-----------------------------------------------------------------------------
(* Where a thread holds a mutex.                                           *)

ReaderHolds == {"check", "decide", "write", "unlock"}
AnalyzerHoldsIn == {"checkIn", "decideIn", "read", "unlockIn"}
AnalyzerHoldsOut == {"checkOut", "decideOut", "write", "unlockOut"}
PrinterHolds == {"check", "decide", "read", "unlock"}

ReaderPcs == ReaderHolds \cup {"start", "top", "load", "lock", "wait", "notify",
                               "free", "exited"}
AnalyzerPcs == AnalyzerHoldsIn \cup AnalyzerHoldsOut \cup
                 {"start", "top", "lockIn", "waitIn", "notifyIn", "calculate",
                  "lockOut", "waitOut", "notifyOut", "swap", "exited"}
PrinterPcs == PrinterHolds \cup {"start", "top", "lock", "wait", "print", "exited"}

\* Every variable has a value of its type; no buffer exceeds its capacity.
TypeOK ==
  /\ killSwitch \in {"off", "on"}
  /\ procStatMtx \in {"free", "reader", "analyzer"}
  /\ usageInfoMtx \in {"free", "analyzer", "printer"}
  /\ procStatNotEmptyCv \in {"quiet", "awaited"}
  /\ procStatNotFullCv \in {"quiet", "awaited"}
  /\ usageInfoNotEmptyCv \in {"quiet", "awaited"}
  /\ usageInfoNotFullCv \in {"quiet", "awaited"}
  /\ procStatCbuf \in Seq(Nat) /\ Len(procStatCbuf) <= ProcStatCapacity
  /\ usageInfoCbuf \in Seq(Nat \X Nat) /\ Len(usageInfoCbuf) <= UsageInfoCapacity
  /\ readerPc \in ReaderPcs
  /\ analyzerPc \in AnalyzerPcs
  /\ printerPc \in PrinterPcs
  /\ loaded \in 0 .. MaxSamples /\ procStat \in Nat /\ allocated \in Int
  /\ oldStatBuffer \in Nat /\ newStatBuffer \in Nat
  /\ oldStatBufferInitialized \in {0, 1}
  /\ usageInfoBuffer \in Nat \X Nat /\ published \in Nat \X Nat
  /\ printerBuffer \in Nat \X Nat /\ screen \in Nat \X Nat

\* On every path, the early exits and the timeouts included, a thread is
\* inside a critical section exactly when it holds the mutex of that buffer:
\* none is left locked, none is entered or unlocked without being held.
LockDiscipline ==
  /\ procStatMtx = "reader" <=> readerPc \in ReaderHolds
  /\ procStatMtx = "analyzer" <=> analyzerPc \in AnalyzerHoldsIn
  /\ usageInfoMtx = "analyzer" <=> analyzerPc \in AnalyzerHoldsOut
  /\ usageInfoMtx = "printer" <=> printerPc \in PrinterHolds

\* The notification comes after the mutex is released: while the analyzer waits
\* beside a sample, the reader beside room or the printer beside a record, the
\* other thread is still about to notify it.  The analyzer that waits for room is
\* an exception: against printer.h:30 the printer never notifies it, and only its
\* timeout ends that wait (Responsiveness.tla has what follows from it).
NoMissedWakeup ==
  /\ procStatNotEmptyCv = "awaited" /\ procStatCbuf # <<>> =>
       readerPc \in {"unlock", "notify"}
  /\ procStatNotFullCv = "awaited" /\ Room(procStatCbuf, ProcStatCapacity) =>
       analyzerPc \in {"unlockIn", "notifyIn"}
  /\ usageInfoNotEmptyCv = "awaited" /\ usageInfoCbuf # <<>> =>
       analyzerPc \in {"unlockOut", "notifyOut"}

-----------------------------------------------------------------------------
(* The data that flows through the buffers.                                *)

\* newStatBuffer holds a sample that is newer than oldStatBuffer.
NewStatInUse == {"unlockIn", "notifyIn", "calculate", "lockOut", "checkOut",
                 "waitOut", "decideOut", "write", "unlockOut", "notifyOut", "swap"}

\* The samples on their way, from the analyzer's buffers to the reader's.
SamplesOnTheWay ==
  (IF oldStatBufferInitialized = 1 THEN <<oldStatBuffer>> ELSE <<>>)
  \o (IF analyzerPc \in NewStatInUse THEN <<newStatBuffer>> ELSE <<>>)
  \o procStatCbuf
  \o (IF readerPc \in {"lock", "check", "wait", "decide", "write"}
        THEN <<procStat>> ELSE <<>>)

\* Lost locks, dropped samples and overwritten ones never put a sample before
\* an older one or hand it out twice.
SamplesInOrder ==
  \A i \in 1 .. Len(SamplesOnTheWay) - 1 :
    SamplesOnTheWay[i] < SamplesOnTheWay[i + 1]

\* A usage record starts where the one published before it ended, so no time
\* is counted twice or left out, even when the analyzer had to drop a record
\* because the output mutex was not to be had.
UsageContiguous ==
  [][published' # published =>
        /\ published # Unset => published'[1] = published[2]
        /\ published'[1] < published'[2]]_vars

\* The screen never goes back in time, whatever the printer reads, misses or
\* prints again.
ScreenMovesForward ==
  [][screen' # screen => /\ screen[2] <= screen'[1]
                         /\ screen'[1] < screen'[2]]_vars

\* The sample the next record starts from: a written record has used up
\* oldStatBuffer even before the buffers are exchanged.
Basis == IF oldStatBufferInitialized = 0 THEN 0
         ELSE IF analyzerPc \in {"unlockOut", "notifyOut", "swap"} THEN newStatBuffer
         ELSE oldStatBuffer

\* The printer has taken a record that it has not printed.
Taken == IF printerBuffer # screen THEN <<printerBuffer>> ELSE <<>>

\* The threads together are one feed of joined records: locks that are not
\* had, timeouts, empty reads and overwritten samples lose no record, take none
\* twice from the buffer and change no order; a record only gives way to a buffer
\* full of newer ones.  To print a record again is a stutter here: it leaves the
\* screen as it was.
Feed == INSTANCE UsageFeed WITH Capacity <- UsageInfoCapacity, basis <- Basis,
                                pending <- Taken \o usageInfoCbuf
ImplementsFeed == Feed!Spec

\* Once the kill switch is on, every thread ends: none waits for a
\* notification that no longer comes or for a mutex that is not released.
KillStopsAll == killSwitch = "on" ~> AllExited

-----------------------------------------------------------------------------
(* What comments say and the code does not do.                             *)

\* "Thread will periodically read data from provided buffer and print it"
\* (printer.h): what is printed was read from the buffer.
PrinterPrintsUsage == printerPc = "print" => printerBuffer # Unset
=============================================================================
