--------------------------- MODULE PipelineProofs ---------------------------
(***************************************************************************)
(* Proofs about Pipeline, for all capacities and any number of samples:    *)
(* the types, the mutexes and the condition variables, and the data.       *)
(***************************************************************************)
EXTENDS Pipeline, SequenceTheorems, TLAPS

\* A thread that is blocked on a condition variable is in its wait.
AwaitedAtWait ==
  /\ procStatNotEmptyCv = "awaited" => analyzerPc = "waitIn"
  /\ procStatNotFullCv = "awaited" => readerPc = "wait"
  /\ usageInfoNotEmptyCv = "awaited" => printerPc = "wait"
  /\ usageInfoNotFullCv = "awaited" => analyzerPc = "waitOut"

\* The inductive strengthening of LockDiscipline and NoMissedWakeup.
SyncInv == LockDiscipline /\ AwaitedAtWait /\ NoMissedWakeup

-----------------------------------------------------------------------------
(* The queue operators.                                                    *)

\* A write keeps the type and the capacity.
LEMMA PushType ==
  ASSUME NEW S, NEW q \in Seq(S), NEW cap \in Nat \ {0}, Len(q) <= cap,
         NEW x \in S
  PROVE  Push(q, cap, x) \in Seq(S) /\ Len(Push(q, cap, x)) <= cap
  BY DEF Push

\* A read hands out an item and keeps the type and the capacity.
LEMMA TailType ==
  ASSUME NEW S, NEW q \in Seq(S), NEW cap \in Nat, Len(q) <= cap, q # <<>>
  PROVE  Head(q) \in S /\ Tail(q) \in Seq(S) /\ Len(Tail(q)) <= cap
  OBVIOUS

-----------------------------------------------------------------------------
(* Types.                                                                  *)

\* The initial state is well typed.
LEMMA InitType == Init => TypeOK
  BY PipelineAssumption
     DEF Init, TypeOK, Unset, ReaderPcs, AnalyzerPcs, PrinterPcs

\* The reader's steps keep the types.
LEMMA ReaderType ==
  TypeOK /\ ReaderThread => TypeOK'
<1> SUFFICES ASSUME TypeOK, ReaderThread PROVE TypeOK'
  OBVIOUS
<1> USE PipelineAssumption DEF TypeOK, ReaderPcs, ReaderHolds, procStatVars,
     usageInfoVars, readerLocals, analyzerVars, printerVars, analyzerLocals,
     printerLocals, readerVars, readerFrame
<1>1. CASE ReaderStart
  BY <1>1 DEF ReaderStart
<1>2. CASE ReaderTop
  BY <1>2 DEF ReaderTop
<1>3. CASE ReaderLoad
  <2>1. CASE loaded < MaxSamples /\ loaded' = loaded + 1
    BY <1>3, <2>1 DEF ReaderLoad
  <2>2. CASE loaded' = loaded
    BY <1>3, <2>2 DEF ReaderLoad
  <2>3. QED
    BY <1>3, <2>1, <2>2 DEF ReaderLoad
<1>4. CASE ReaderLock
  BY <1>4 DEF ReaderLock
<1>5. CASE ReaderCheck
  BY <1>5 DEF ReaderCheck
<1>6. CASE ReaderTimeout
  BY <1>6 DEF ReaderTimeout
<1>7. CASE ReaderWake
  BY <1>7 DEF ReaderWake
<1>8. CASE ReaderDecide
  BY <1>8 DEF ReaderDecide
<1>9. CASE ReaderWrite
  BY <1>9, PushType DEF ReaderWrite
<1>10. CASE ReaderUnlock
  BY <1>10 DEF ReaderUnlock
<1>11. CASE ReaderNotify
  BY <1>11 DEF ReaderNotify
<1>12. CASE ReaderFree
  BY <1>12 DEF ReaderFree
<1>13. QED
  BY <1>1, <1>2, <1>3, <1>4, <1>5, <1>6, <1>7, <1>8, <1>9, <1>10, <1>11,
     <1>12 DEF ReaderThread

\* The analyzer's steps keep the types.
LEMMA AnalyzerType ==
  TypeOK /\ AnalyzerThread => TypeOK'
<1> SUFFICES ASSUME TypeOK, AnalyzerThread PROVE TypeOK'
  OBVIOUS
<1> USE PipelineAssumption DEF TypeOK, AnalyzerPcs, AnalyzerHoldsIn,
     AnalyzerHoldsOut, procStatVars, usageInfoVars, readerLocals,
     analyzerVars, printerVars, analyzerLocals, printerLocals, readerVars,
     analyzerFrame, inFrame, outFrame
<1>1. CASE AnalyzerStart
  BY <1>1 DEF AnalyzerStart
<1>2. CASE AnalyzerTop
  BY <1>2 DEF AnalyzerTop
<1>3. CASE AnalyzerLockIn
  BY <1>3 DEF AnalyzerLockIn
<1>4. CASE AnalyzerCheckIn
  BY <1>4 DEF AnalyzerCheckIn
<1>5. CASE AnalyzerTimeoutIn
  BY <1>5 DEF AnalyzerTimeoutIn
<1>6. CASE AnalyzerWakeIn
  BY <1>6 DEF AnalyzerWakeIn
<1>7. CASE AnalyzerDecideIn
  BY <1>7 DEF AnalyzerDecideIn
<1>8. CASE AnalyzerRead
  <2>1. CASE procStatCbuf # <<>>
    <3>1. /\ Head(procStatCbuf) \in Nat /\ Tail(procStatCbuf) \in Seq(Nat)
          /\ Len(Tail(procStatCbuf)) <= ProcStatCapacity
      BY <2>1, TailType
    <3>2. /\ procStatCbuf' = Tail(procStatCbuf)
          /\ newStatBuffer' = Head(procStatCbuf)
      BY <1>8, <2>1 DEF AnalyzerRead
    <3>3. QED
      BY <1>8, <2>1, <3>1, <3>2 DEF AnalyzerRead
  <2>2. CASE procStatCbuf = <<>>
    BY <1>8, <2>2 DEF AnalyzerRead
  <2>3. QED
    BY <2>1, <2>2
<1>9. CASE AnalyzerUnlockIn
  BY <1>9 DEF AnalyzerUnlockIn
<1>10. CASE AnalyzerNotifyIn
  BY <1>10 DEF AnalyzerNotifyIn
<1>11. CASE AnalyzerCalculate
  BY <1>11 DEF AnalyzerCalculate, swapStatBuffers
<1>12. CASE AnalyzerLockOut
  BY <1>12 DEF AnalyzerLockOut
<1>13. CASE AnalyzerCheckOut
  BY <1>13 DEF AnalyzerCheckOut
<1>14. CASE AnalyzerTimeoutOut
  BY <1>14 DEF AnalyzerTimeoutOut
<1>15. CASE AnalyzerWakeOut
  BY <1>15 DEF AnalyzerWakeOut
<1>16. CASE AnalyzerDecideOut
  BY <1>16 DEF AnalyzerDecideOut
<1>17. CASE AnalyzerWrite
  BY <1>17, PushType DEF AnalyzerWrite
<1>18. CASE AnalyzerUnlockOut
  BY <1>18 DEF AnalyzerUnlockOut
<1>19. CASE AnalyzerNotifyOut
  BY <1>19 DEF AnalyzerNotifyOut
<1>20. CASE AnalyzerSwap
  BY <1>20 DEF AnalyzerSwap, swapStatBuffers
<1>21. QED
  BY <1>1, <1>2, <1>3, <1>4, <1>5, <1>6, <1>7, <1>8, <1>9, <1>10, <1>11,
     <1>12, <1>13, <1>14, <1>15, <1>16, <1>17, <1>18, <1>19, <1>20 DEF
     AnalyzerThread

\* The printer's steps keep the types.
LEMMA PrinterType ==
  TypeOK /\ PrinterThread => TypeOK'
<1> SUFFICES ASSUME TypeOK, PrinterThread PROVE TypeOK'
  OBVIOUS
<1> USE PipelineAssumption DEF TypeOK, PrinterPcs, PrinterHolds,
     procStatVars, usageInfoVars, readerLocals, analyzerVars, printerVars,
     analyzerLocals, printerLocals, readerVars, printerFrame
<1>1. CASE PrinterStart
  BY <1>1 DEF PrinterStart
<1>2. CASE PrinterTop
  BY <1>2 DEF PrinterTop
<1>3. CASE PrinterLock
  BY <1>3 DEF PrinterLock
<1>4. CASE PrinterCheck
  BY <1>4 DEF PrinterCheck
<1>5. CASE PrinterTimeout
  BY <1>5 DEF PrinterTimeout
<1>6. CASE PrinterWake
  BY <1>6 DEF PrinterWake
<1>7. CASE PrinterDecide
  BY <1>7 DEF PrinterDecide
<1>8. CASE PrinterRead
  <2>1. CASE usageInfoCbuf # <<>>
    <3>1. /\ Head(usageInfoCbuf) \in Nat \X Nat
          /\ Tail(usageInfoCbuf) \in Seq(Nat \X Nat)
          /\ Len(Tail(usageInfoCbuf)) <= UsageInfoCapacity
      BY <2>1, TailType
    <3>2. /\ usageInfoCbuf' = Tail(usageInfoCbuf)
          /\ printerBuffer' = Head(usageInfoCbuf)
      BY <1>8, <2>1 DEF PrinterRead
    <3>3. QED
      BY <1>8, <2>1, <3>1, <3>2 DEF PrinterRead
  <2>2. CASE usageInfoCbuf = <<>>
    BY <1>8, <2>2 DEF PrinterRead
  <2>3. QED
    BY <2>1, <2>2
<1>9. CASE PrinterUnlock
  BY <1>9 DEF PrinterUnlock
<1>10. CASE PrinterPrint
  BY <1>10 DEF PrinterPrint
<1>11. QED
  BY <1>1, <1>2, <1>3, <1>4, <1>5, <1>6, <1>7, <1>8, <1>9, <1>10 DEF
     PrinterThread

\* Every step of the program keeps the types.
LEMMA TypeStep == TypeOK /\ [Next]_vars => TypeOK'
<1> SUFFICES ASSUME TypeOK, [Next]_vars PROVE TypeOK'
  OBVIOUS
<1>1. CASE Thread_activateKillSwitch
  BY <1>1 DEF Thread_activateKillSwitch, TypeOK, procStatVars,
       usageInfoVars, readerVars, readerLocals, analyzerVars,
       analyzerLocals, printerVars, printerLocals
<1>2. CASE UNCHANGED vars
  BY <1>2 DEF vars, TypeOK, procStatVars, usageInfoVars, readerVars,
       readerLocals, analyzerVars, analyzerLocals, printerVars,
       printerLocals
<1>3. QED
  BY <1>1, <1>2, ReaderType, AnalyzerType, PrinterType DEF Next, Terminated

\* Every variable keeps its type and no buffer exceeds its capacity.
THEOREM TypeCorrect == Spec => []TypeOK
  BY InitType, TypeStep, PTL DEF Spec

-----------------------------------------------------------------------------
(* Mutexes and condition variables.                                        *)

\* Initially no mutex is held and nobody waits.
LEMMA InitSync == Init => SyncInv
  BY DEF Init, SyncInv, LockDiscipline, AwaitedAtWait, NoMissedWakeup,
         ReaderHolds, AnalyzerHoldsIn, AnalyzerHoldsOut, PrinterHolds

\* The reader locks, waits, unlocks and notifies as SyncInv says.
LEMMA ReaderSync ==
  SyncInv /\ ReaderThread => SyncInv'
<1> SUFFICES ASSUME SyncInv, ReaderThread PROVE SyncInv'
  OBVIOUS
<1> USE DEF SyncInv, LockDiscipline, AwaitedAtWait, NoMissedWakeup,
     ReaderHolds, AnalyzerHoldsIn, AnalyzerHoldsOut, PrinterHolds,
     procStatVars, usageInfoVars, readerLocals, analyzerVars, printerVars,
     analyzerLocals, printerLocals, readerVars, readerFrame
<1>1. CASE ReaderStart
  BY <1>1 DEF ReaderStart
<1>2. CASE ReaderTop
  BY <1>2 DEF ReaderTop
<1>3. CASE ReaderLoad
  BY <1>3 DEF ReaderLoad
<1>4. CASE ReaderLock
  BY <1>4 DEF ReaderLock
<1>5. CASE ReaderCheck
  BY <1>5 DEF ReaderCheck
<1>6. CASE ReaderTimeout
  BY <1>6 DEF ReaderTimeout
<1>7. CASE ReaderWake
  BY <1>7 DEF ReaderWake
<1>8. CASE ReaderDecide
  BY <1>8 DEF ReaderDecide
<1>9. CASE ReaderWrite
  BY <1>9 DEF ReaderWrite
<1>10. CASE ReaderUnlock
  BY <1>10 DEF ReaderUnlock
<1>11. CASE ReaderNotify
  BY <1>11 DEF ReaderNotify
<1>12. CASE ReaderFree
  BY <1>12 DEF ReaderFree
<1>13. QED
  BY <1>1, <1>2, <1>3, <1>4, <1>5, <1>6, <1>7, <1>8, <1>9, <1>10, <1>11,
     <1>12 DEF ReaderThread

\* So does the analyzer, on both buffers.
LEMMA AnalyzerSync ==
  SyncInv /\ AnalyzerThread => SyncInv'
<1> SUFFICES ASSUME SyncInv, AnalyzerThread PROVE SyncInv'
  OBVIOUS
<1> USE DEF SyncInv, LockDiscipline, AwaitedAtWait, NoMissedWakeup,
     ReaderHolds, AnalyzerHoldsIn, AnalyzerHoldsOut, PrinterHolds,
     procStatVars, usageInfoVars, readerLocals, analyzerVars, printerVars,
     analyzerLocals, printerLocals, readerVars, analyzerFrame, inFrame,
     outFrame
<1>1. CASE AnalyzerStart
  BY <1>1 DEF AnalyzerStart
<1>2. CASE AnalyzerTop
  BY <1>2 DEF AnalyzerTop
<1>3. CASE AnalyzerLockIn
  BY <1>3 DEF AnalyzerLockIn
<1>4. CASE AnalyzerCheckIn
  BY <1>4 DEF AnalyzerCheckIn
<1>5. CASE AnalyzerTimeoutIn
  BY <1>5 DEF AnalyzerTimeoutIn
<1>6. CASE AnalyzerWakeIn
  BY <1>6 DEF AnalyzerWakeIn
<1>7. CASE AnalyzerDecideIn
  BY <1>7 DEF AnalyzerDecideIn
<1>8. CASE AnalyzerRead
  BY <1>8 DEF AnalyzerRead
<1>9. CASE AnalyzerUnlockIn
  BY <1>9 DEF AnalyzerUnlockIn
<1>10. CASE AnalyzerNotifyIn
  BY <1>10 DEF AnalyzerNotifyIn
<1>11. CASE AnalyzerCalculate
  BY <1>11 DEF AnalyzerCalculate
<1>12. CASE AnalyzerLockOut
  BY <1>12 DEF AnalyzerLockOut
<1>13. CASE AnalyzerCheckOut
  BY <1>13 DEF AnalyzerCheckOut
<1>14. CASE AnalyzerTimeoutOut
  BY <1>14 DEF AnalyzerTimeoutOut
<1>15. CASE AnalyzerWakeOut
  BY <1>15 DEF AnalyzerWakeOut
<1>16. CASE AnalyzerDecideOut
  BY <1>16 DEF AnalyzerDecideOut
<1>17. CASE AnalyzerWrite
  BY <1>17 DEF AnalyzerWrite
<1>18. CASE AnalyzerUnlockOut
  BY <1>18 DEF AnalyzerUnlockOut
<1>19. CASE AnalyzerNotifyOut
  BY <1>19 DEF AnalyzerNotifyOut
<1>20. CASE AnalyzerSwap
  BY <1>20 DEF AnalyzerSwap
<1>21. QED
  BY <1>1, <1>2, <1>3, <1>4, <1>5, <1>6, <1>7, <1>8, <1>9, <1>10, <1>11,
     <1>12, <1>13, <1>14, <1>15, <1>16, <1>17, <1>18, <1>19, <1>20 DEF
     AnalyzerThread

\* So does the printer.
LEMMA PrinterSync ==
  SyncInv /\ PrinterThread => SyncInv'
<1> SUFFICES ASSUME SyncInv, PrinterThread PROVE SyncInv'
  OBVIOUS
<1> USE DEF SyncInv, LockDiscipline, AwaitedAtWait, NoMissedWakeup,
     ReaderHolds, AnalyzerHoldsIn, AnalyzerHoldsOut, PrinterHolds,
     procStatVars, usageInfoVars, readerLocals, analyzerVars, printerVars,
     analyzerLocals, printerLocals, readerVars, printerFrame
<1>1. CASE PrinterStart
  BY <1>1 DEF PrinterStart
<1>2. CASE PrinterTop
  BY <1>2 DEF PrinterTop
<1>3. CASE PrinterLock
  BY <1>3 DEF PrinterLock
<1>4. CASE PrinterCheck
  BY <1>4 DEF PrinterCheck
<1>5. CASE PrinterTimeout
  BY <1>5 DEF PrinterTimeout
<1>6. CASE PrinterWake
  BY <1>6 DEF PrinterWake
<1>7. CASE PrinterDecide
  BY <1>7 DEF PrinterDecide
<1>8. CASE PrinterRead
  BY <1>8 DEF PrinterRead
<1>9. CASE PrinterUnlock
  BY <1>9 DEF PrinterUnlock
<1>10. CASE PrinterPrint
  BY <1>10 DEF PrinterPrint
<1>11. QED
  BY <1>1, <1>2, <1>3, <1>4, <1>5, <1>6, <1>7, <1>8, <1>9, <1>10 DEF
     PrinterThread

\* Every step of the program keeps SyncInv.
LEMMA SyncStep == SyncInv /\ [Next]_vars => SyncInv'
<1> SUFFICES ASSUME SyncInv, [Next]_vars PROVE SyncInv'
  OBVIOUS
<1> USE DEF SyncInv, LockDiscipline, AwaitedAtWait, NoMissedWakeup
<1>1. CASE Thread_activateKillSwitch
  BY <1>1 DEF Thread_activateKillSwitch, procStatVars, usageInfoVars,
       readerVars, readerLocals, analyzerVars, analyzerLocals, printerVars,
       printerLocals
<1>2. CASE UNCHANGED vars
  BY <1>2 DEF vars, procStatVars, usageInfoVars, readerVars, readerLocals,
       analyzerVars, analyzerLocals, printerVars, printerLocals
<1>3. QED
  BY <1>1, <1>2, ReaderSync, AnalyzerSync, PrinterSync DEF Next, Terminated

\* SyncInv is an invariant.
LEMMA SyncInvariant == Spec => []SyncInv
  BY InitSync, SyncStep, PTL DEF Spec

\* A thread is in a critical section exactly when it holds that mutex.
THEOREM LocksCorrect == Spec => []LockDiscipline
<1>1. SyncInv => LockDiscipline
  BY DEF SyncInv
<1>2. QED
  BY <1>1, SyncInvariant, PTL

\* The analyzer does not sleep beside a sample, the reader beside room or the
\* printer beside a record without a notification on its way.  Of the analyzer
\* that waits for room it would be false.
THEOREM NoWakeupMissed == Spec => []NoMissedWakeup
<1>1. SyncInv => NoMissedWakeup
  BY DEF SyncInv
<1>2. QED
  BY <1>1, SyncInvariant, PTL

-----------------------------------------------------------------------------
(* The data of the pipeline: samples stay in order, usage records join      *)
(* without a gap, and the screen moves forward.                             *)

\* Where the reader has a sample that it has not written.
HasSample == {"lock", "check", "wait", "decide", "write"}

\* Where the analyzer has both samples of a record; until the write the record
\* is not published.
HasRecord == {"lockOut", "checkOut", "waitOut", "decideOut", "write"}
HasPublished == {"unlockOut", "notifyOut", "swap"}

Increasing(q) == \A i, j \in 1 .. Len(q) : i < j => q[i] < q[j]

\* The samples after n: none of those on their way behind it.
Behind(n) == /\ n <= loaded
             /\ readerPc \in HasSample => n < loaded
             /\ \A i \in 1 .. Len(procStatCbuf) : n < procStatCbuf[i]

\* The reader's sample is the last one loaded, newer than all in the buffer.
WrittenInOrder ==
  /\ readerPc \in HasSample => procStat = loaded
  /\ \A i \in 1 .. Len(procStatCbuf) :
       /\ procStatCbuf[i] <= loaded
       /\ readerPc \in HasSample => procStatCbuf[i] < loaded
  /\ Increasing(procStatCbuf)

\* The analyzer's samples are older than those on their way.
TakenInOrder ==
  /\ analyzerPc \in NewStatInUse => Behind(newStatBuffer)
  /\ oldStatBufferInitialized = 1 => Behind(oldStatBuffer)
  /\ analyzerPc \in NewStatInUse /\ oldStatBufferInitialized = 1 =>
       oldStatBuffer < newStatBuffer
  /\ analyzerPc \in HasRecord \cup HasPublished => oldStatBufferInitialized = 1

\* The inductive strengthening of SamplesInOrder.
SampleInv == WrittenInOrder /\ TakenInOrder

\* The record published last ends where the next one will start.
PublishedLast ==
  /\ oldStatBufferInitialized = 0 => published = Unset
  /\ analyzerPc \in HasRecord => usageInfoBuffer = <<oldStatBuffer, newStatBuffer>>
  /\ analyzerPc \in HasPublished => published = <<oldStatBuffer, newStatBuffer>>
  /\ published # Unset /\ analyzerPc \notin HasPublished => published[2] = oldStatBuffer

Forward(r) == r = Unset \/ r[1] < r[2]

\* The records from the screen to the buffer follow each other in time.
RecordsInOrder ==
  /\ Forward(screen) /\ Forward(printerBuffer)
  /\ screen = printerBuffer \/ screen[2] <= printerBuffer[1]
  /\ printerBuffer[2] <= published[2]
  /\ \A i \in 1 .. Len(usageInfoCbuf) :
       /\ usageInfoCbuf[i][1] < usageInfoCbuf[i][2]
       /\ printerBuffer[2] <= usageInfoCbuf[i][1]
       /\ usageInfoCbuf[i][2] <= published[2]
  /\ \A i, j \in 1 .. Len(usageInfoCbuf) :
       i < j => usageInfoCbuf[i][2] <= usageInfoCbuf[j][1]

\* The inductive strengthening of UsageContiguous and ScreenMovesForward.
RecordInv == PublishedLast /\ RecordsInOrder

-----------------------------------------------------------------------------
(* The queue operators.                                                    *)

\* After a write the new item is the last one, and the others are items of the
\* queue before, in their order.
LEMMA PushItems ==
  ASSUME NEW S, NEW q \in Seq(S), NEW cap \in Nat \ {0}, Len(q) <= cap,
         NEW x \in S
  PROVE  \E d \in {0, 1} :
           /\ Len(q) >= d /\ Len(Push(q, cap, x)) = Len(q) + 1 - d
           /\ Push(q, cap, x)[Len(q) + 1 - d] = x
           /\ \A i \in 1 .. Len(q) - d : Push(q, cap, x)[i] = q[i + d]
<1>1. CASE Len(q) < cap
  <2>1. Push(q, cap, x) = Append(q, x)
    BY <1>1 DEF Push
  <2>2. /\ Len(Append(q, x)) = Len(q) + 1
        /\ Append(q, x)[Len(q) + 1] = x
        /\ \A i \in 1 .. Len(q) : Append(q, x)[i] = q[i]
    OBVIOUS
  <2>3. /\ Len(q) >= 0 /\ Len(Push(q, cap, x)) = Len(q) + 1 - 0
        /\ Push(q, cap, x)[Len(q) + 1 - 0] = x
        /\ \A i \in 1 .. Len(q) - 0 : Push(q, cap, x)[i] = q[i + 0]
    BY <2>1, <2>2
  <2>4. QED
    BY <2>3
<1>2. CASE Len(q) >= cap
  <2>1. Push(q, cap, x) = Append(Tail(q), x)
    BY <1>2 DEF Push
  <2>2. /\ q # <<>> /\ Tail(q) \in Seq(S) /\ Len(Tail(q)) = Len(q) - 1
        /\ \A i \in 1 .. Len(q) - 1 : Tail(q)[i] = q[i + 1]
    BY <1>2
  <2>3. /\ Len(Append(Tail(q), x)) = Len(q)
        /\ Append(Tail(q), x)[Len(q)] = x
        /\ \A i \in 1 .. Len(q) - 1 : Append(Tail(q), x)[i] = q[i + 1]
    BY <2>2
  <2>4. /\ Len(q) >= 1 /\ Len(Push(q, cap, x)) = Len(q) + 1 - 1
        /\ Push(q, cap, x)[Len(q) + 1 - 1] = x
        /\ \A i \in 1 .. Len(q) - 1 : Push(q, cap, x)[i] = q[i + 1]
    BY <1>2, <2>1, <2>3
  <2>5. QED
    BY <2>4
<1>3. QED
  BY <1>1, <1>2

\* A read shifts the items.
LEMMA TailItems ==
  ASSUME NEW S, NEW q \in Seq(S), q # <<>>
  PROVE  /\ Head(q) = q[1] /\ Len(q) >= 1
         /\ Len(Tail(q)) = Len(q) - 1
         /\ \A i \in 1 .. Len(q) - 1 : Tail(q)[i] = q[i + 1]
  OBVIOUS

-----------------------------------------------------------------------------
(* Samples.                                                                *)

\* Nothing has been loaded.
LEMMA InitSample == Init => SampleInv
  BY DEF Init, SampleInv, WrittenInOrder, TakenInOrder, Behind, Increasing,
         HasSample, HasRecord, HasPublished, NewStatInUse

\* A write of the reader appends the newest sample and may drop the oldest.
LEMMA ReaderWriteSample ==
  TypeOK /\ SampleInv /\ ReaderWrite => SampleInv'
<1> SUFFICES ASSUME TypeOK, SampleInv, ReaderWrite PROVE SampleInv'
  OBVIOUS
<1>1. /\ procStatCbuf \in Seq(Nat) /\ Len(procStatCbuf) <= ProcStatCapacity
      /\ ProcStatCapacity \in Nat \ {0} /\ procStat \in Nat
      /\ loaded \in Nat /\ oldStatBuffer \in Nat /\ newStatBuffer \in Nat
  BY PipelineAssumption DEF TypeOK
<1>2. /\ procStatCbuf' = Push(procStatCbuf, ProcStatCapacity, procStat)
      /\ readerPc = "write" /\ readerPc' = "unlock"
      /\ UNCHANGED <<loaded, procStat, analyzerPc, oldStatBuffer, newStatBuffer,
                     oldStatBufferInitialized>>
  BY DEF ReaderWrite, readerLocals, readerFrame, analyzerVars, analyzerLocals
<1>3. readerPc \in HasSample /\ readerPc' \notin HasSample
  BY <1>2 DEF HasSample
<1>4. PICK d \in {0, 1} :
        /\ Len(procStatCbuf) >= d /\ Len(procStatCbuf') = Len(procStatCbuf) + 1 - d
        /\ procStatCbuf'[Len(procStatCbuf) + 1 - d] = procStat
        /\ \A i \in 1 .. Len(procStatCbuf) - d : procStatCbuf'[i] = procStatCbuf[i + d]
  BY <1>1, <1>2, PushItems
<1>5. \A i \in 1 .. Len(procStatCbuf) : procStatCbuf[i] \in Nat
  BY <1>1
<1>6. /\ procStat = loaded
      /\ \A i \in 1 .. Len(procStatCbuf) : procStatCbuf[i] < loaded
      /\ \A i, j \in 1 .. Len(procStatCbuf) : i < j => procStatCbuf[i] < procStatCbuf[j]
  BY <1>3 DEF SampleInv, WrittenInOrder, Increasing
<1>7. \A i \in 1 .. Len(procStatCbuf') :
        procStatCbuf'[i] = loaded \/ \E k \in 1 .. Len(procStatCbuf) :
                                        k = i + d /\ procStatCbuf'[i] = procStatCbuf[k]
  BY <1>1, <1>4, <1>6
<1>8. WrittenInOrder'
  <2>1. \A i \in 1 .. Len(procStatCbuf') : procStatCbuf'[i] <= loaded
    BY <1>1, <1>5, <1>6, <1>7
  <2>2. ASSUME NEW i \in 1 .. Len(procStatCbuf'), NEW j \in 1 .. Len(procStatCbuf'),
               i < j
        PROVE  procStatCbuf'[i] < procStatCbuf'[j]
    <3>1. i + d \in 1 .. Len(procStatCbuf) /\ procStatCbuf'[i] = procStatCbuf[i + d]
      BY <1>1, <1>4, <2>2
    <3>2. CASE j = Len(procStatCbuf')
      BY <1>1, <1>4, <1>6, <3>1, <3>2
    <3>3. CASE j < Len(procStatCbuf')
      <4>1. j + d \in 1 .. Len(procStatCbuf) /\ procStatCbuf'[j] = procStatCbuf[j + d]
        BY <1>1, <1>4, <3>3
      <4>2. i + d < j + d
        BY <1>1, <2>2
      <4>3. QED
        BY <1>6, <3>1, <4>1, <4>2
    <3>4. Len(procStatCbuf') \in Nat
      BY <1>1, <1>4
    <3>5. QED
      BY <3>2, <3>3, <3>4
  <2>3. QED
    BY <1>2, <1>3, <2>1, <2>2 DEF WrittenInOrder, Increasing
<1>9. ASSUME NEW n \in Nat, Behind(n), NEW m, m = n
      PROVE  /\ m <= loaded'
             /\ \A i \in 1 .. Len(procStatCbuf') : m < procStatCbuf'[i]
  BY <1>1, <1>2, <1>3, <1>5, <1>7, <1>9 DEF Behind
<1>10. /\ analyzerPc \in NewStatInUse => Behind(newStatBuffer)'
       /\ oldStatBufferInitialized = 1 => Behind(oldStatBuffer)'
  BY <1>1, <1>2, <1>3, <1>9 DEF SampleInv, TakenInOrder, Behind
<1>11. QED
  BY <1>2, <1>8, <1>10 DEF SampleInv, TakenInOrder

\* The reader's other steps leave the buffer alone.
LEMMA ReaderSample ==
  TypeOK /\ SampleInv /\ ReaderThread => SampleInv'
<1> SUFFICES ASSUME TypeOK, SampleInv, ReaderThread PROVE SampleInv'
  OBVIOUS
<1>1. CASE ReaderWrite
  BY <1>1, ReaderWriteSample
<1>2. CASE ReaderLoad /\ readerPc' = "lock"
  <2>1. /\ loaded' = loaded + 1 /\ procStat' = loaded + 1
        /\ UNCHANGED <<procStatCbuf, analyzerPc, oldStatBuffer, newStatBuffer,
                       oldStatBufferInitialized>>
    BY <1>2 DEF ReaderLoad, readerFrame, procStatVars, analyzerVars, analyzerLocals
  <2>2. /\ loaded \in Nat /\ procStatCbuf \in Seq(Nat)
        /\ oldStatBuffer \in Nat /\ newStatBuffer \in Nat
    BY DEF TypeOK
  <2>3. WrittenInOrder'
    BY <2>1, <2>2 DEF SampleInv, WrittenInOrder, Increasing
  <2>4. TakenInOrder'
    BY <2>1, <2>2 DEF SampleInv, TakenInOrder, Behind
  <2>5. QED
    BY <2>3, <2>4 DEF SampleInv
<1>3. CASE ~ReaderWrite /\ ~(ReaderLoad /\ readerPc' = "lock")
  <2>1. /\ UNCHANGED <<loaded, procStatCbuf, analyzerPc, oldStatBuffer,
                       newStatBuffer, oldStatBufferInitialized>>
        /\ readerPc' \in HasSample => readerPc \in HasSample /\ procStat' = procStat
    BY <1>3 DEF ReaderThread, ReaderStart, ReaderTop, ReaderLoad, ReaderLock,
         ReaderCheck, ReaderTimeout, ReaderWake, ReaderDecide, ReaderUnlock,
         ReaderNotify, ReaderFree, readerFrame, procStatVars, readerVars,
         readerLocals, analyzerVars, analyzerLocals, HasSample
  <2>2. WrittenInOrder'
    BY <2>1 DEF SampleInv, WrittenInOrder, Increasing
  <2>3. TakenInOrder'
    BY <2>1 DEF SampleInv, TakenInOrder, Behind
  <2>4. QED
    BY <2>2, <2>3 DEF SampleInv
<1>4. QED
  BY <1>1, <1>2, <1>3

\* A read of the analyzer takes the oldest sample of the buffer.
LEMMA AnalyzerReadSample ==
  TypeOK /\ SampleInv /\ AnalyzerRead /\ procStatCbuf # <<>> => SampleInv'
<1> SUFFICES ASSUME TypeOK, SampleInv, AnalyzerRead, procStatCbuf # <<>>
             PROVE  SampleInv'
  OBVIOUS
<1>1. /\ procStatCbuf \in Seq(Nat) /\ loaded \in Nat /\ oldStatBuffer \in Nat
  BY DEF TypeOK
<1>2. /\ procStatCbuf' = Tail(procStatCbuf) /\ newStatBuffer' = Head(procStatCbuf)
      /\ analyzerPc = "read" /\ analyzerPc' = "unlockIn"
      /\ UNCHANGED <<loaded, procStat, readerPc, oldStatBuffer,
                     oldStatBufferInitialized>>
  BY DEF AnalyzerRead, inFrame, analyzerFrame, readerVars, readerLocals
<1>3. /\ newStatBuffer' = procStatCbuf[1] /\ Len(procStatCbuf) >= 1
      /\ Len(procStatCbuf') = Len(procStatCbuf) - 1
      /\ \A i \in 1 .. Len(procStatCbuf) - 1 : procStatCbuf'[i] = procStatCbuf[i + 1]
  BY <1>1, <1>2, TailItems
<1>4. \A i \in 1 .. Len(procStatCbuf') :
         i + 1 \in 1 .. Len(procStatCbuf) /\ procStatCbuf'[i] = procStatCbuf[i + 1]
  BY <1>1, <1>3
<1>5. \A i, j \in 1 .. Len(procStatCbuf) : i < j => procStatCbuf[i] < procStatCbuf[j]
  BY DEF SampleInv, WrittenInOrder, Increasing
<1>6. WrittenInOrder'
  <2>1. \A i, j \in 1 .. Len(procStatCbuf') : i < j => procStatCbuf'[i] < procStatCbuf'[j]
    BY <1>4, <1>5
  <2>2. QED
    BY <1>2, <1>4, <2>1 DEF SampleInv, WrittenInOrder, Increasing
<1>7. Behind(newStatBuffer)'
  <2>1. 1 \in 1 .. Len(procStatCbuf)
    BY <1>1, <1>3
  <2>2. /\ procStatCbuf[1] <= loaded
        /\ readerPc \in HasSample => procStatCbuf[1] < loaded
    BY <2>1 DEF SampleInv, WrittenInOrder
  <2>3. ASSUME NEW i \in 1 .. Len(procStatCbuf') PROVE procStatCbuf[1] < procStatCbuf'[i]
    BY <1>4, <1>5, <2>1
  <2>4. QED
    BY <1>2, <1>3, <2>2, <2>3 DEF Behind
<1>8. oldStatBufferInitialized = 1 =>
        Behind(oldStatBuffer)' /\ oldStatBuffer < newStatBuffer'
  <2>1. 1 \in 1 .. Len(procStatCbuf)
    BY <1>1, <1>3
  <2>2. QED
    BY <1>2, <1>3, <1>4, <2>1 DEF SampleInv, TakenInOrder, Behind
<1>9. analyzerPc' \in NewStatInUse /\ analyzerPc' \notin HasRecord \cup HasPublished
  BY <1>2 DEF NewStatInUse, HasRecord, HasPublished
<1>10. QED
  BY <1>2, <1>6, <1>7, <1>8, <1>9 DEF SampleInv, TakenInOrder

\* The analyzer's other steps at most make the new sample the old one.
LEMMA AnalyzerSample ==
  TypeOK /\ SampleInv /\ AnalyzerThread => SampleInv'
<1> SUFFICES ASSUME TypeOK, SampleInv, AnalyzerThread PROVE SampleInv'
  OBVIOUS
<1> DEFINE Others == <<loaded, procStat, readerPc, procStatCbuf>>
           Stats == <<oldStatBuffer, newStatBuffer, oldStatBufferInitialized>>
<1>1. CASE AnalyzerRead /\ procStatCbuf # <<>>
  BY <1>1, AnalyzerReadSample
<1>2. CASE AnalyzerCalculate \/ AnalyzerSwap
  <2>1. /\ UNCHANGED Others /\ analyzerPc \in NewStatInUse
        /\ \/ /\ oldStatBuffer' = newStatBuffer /\ oldStatBufferInitialized' = 1
              /\ analyzerPc' \notin NewStatInUse \cup HasRecord \cup HasPublished
           \/ /\ UNCHANGED Stats /\ oldStatBufferInitialized # 0
              /\ analyzerPc' \in NewStatInUse
    BY <1>2 DEF AnalyzerCalculate, AnalyzerSwap, swapStatBuffers, procStatVars,
         readerVars, readerLocals, analyzerFrame, NewStatInUse, HasRecord,
         HasPublished, SampleInv, TakenInOrder
  <2>2. WrittenInOrder'
    BY <2>1 DEF SampleInv, WrittenInOrder, Increasing
  <2>3. oldStatBufferInitialized \in {0, 1}
    BY DEF TypeOK
  <2>4. TakenInOrder'
    BY <2>1, <2>3 DEF SampleInv, TakenInOrder, Behind
  <2>5. QED
    BY <2>2, <2>4 DEF SampleInv
<1>3. CASE ~(AnalyzerRead /\ procStatCbuf # <<>>) /\ ~(AnalyzerCalculate \/ AnalyzerSwap)
  <2>1. /\ UNCHANGED Others /\ UNCHANGED Stats
        /\ analyzerPc' \in NewStatInUse => analyzerPc \in NewStatInUse
        /\ analyzerPc' \in HasRecord \cup HasPublished =>
             analyzerPc \in HasRecord \cup HasPublished
    BY <1>3 DEF AnalyzerThread, AnalyzerStart, AnalyzerTop, AnalyzerLockIn,
         AnalyzerCheckIn, AnalyzerTimeoutIn, AnalyzerWakeIn, AnalyzerDecideIn,
         AnalyzerRead, AnalyzerUnlockIn, AnalyzerNotifyIn, AnalyzerLockOut,
         AnalyzerCheckOut, AnalyzerTimeoutOut, AnalyzerWakeOut,
         AnalyzerDecideOut, AnalyzerWrite, AnalyzerUnlockOut,
         AnalyzerNotifyOut, inFrame, outFrame, analyzerFrame, procStatVars,
         readerVars, readerLocals, analyzerVars, analyzerLocals, NewStatInUse,
         HasRecord, HasPublished
  <2>2. WrittenInOrder'
    BY <2>1 DEF SampleInv, WrittenInOrder, Increasing
  <2>3. TakenInOrder'
    BY <2>1 DEF SampleInv, TakenInOrder, Behind
  <2>4. QED
    BY <2>2, <2>3 DEF SampleInv
<1>4. QED
  BY <1>1, <1>2, <1>3

\* Every step of the program keeps the samples in order.
LEMMA SampleStep == TypeOK /\ SampleInv /\ [Next]_vars => SampleInv'
<1> SUFFICES ASSUME TypeOK, SampleInv, [Next]_vars PROVE SampleInv'
  OBVIOUS
<1>1. CASE PrinterThread \/ Thread_activateKillSwitch \/ UNCHANGED vars
  <2>1. UNCHANGED <<loaded, procStat, readerPc, procStatCbuf, analyzerPc,
                    oldStatBuffer, newStatBuffer, oldStatBufferInitialized>>
    BY <1>1 DEF PrinterThread, PrinterStart, PrinterTop, PrinterLock,
         PrinterCheck, PrinterTimeout, PrinterWake, PrinterDecide, PrinterRead,
         PrinterUnlock, PrinterPrint, printerFrame, Thread_activateKillSwitch,
         vars, procStatVars, readerVars, readerLocals, analyzerVars,
         analyzerLocals
  <2>2. QED
    BY <2>1 DEF SampleInv, WrittenInOrder, TakenInOrder, Behind, Increasing
<1>2. QED
  BY <1>1, ReaderSample, AnalyzerSample DEF Next, Terminated

\* SampleInv is an invariant.
LEMMA SampleInvariant == Spec => []SampleInv
  BY TypeCorrect, InitSample, SampleStep, PTL DEF Spec

\* A sequence that continues an increasing one with greater items.
LEMMA ConcatIncreasing ==
  ASSUME NEW s \in Seq(Nat), NEW t \in Seq(Nat), Increasing(s), Increasing(t),
         \A i \in 1 .. Len(s) : \A j \in 1 .. Len(t) : s[i] < t[j]
  PROVE  /\ Increasing(s \o t) /\ s \o t \in Seq(Nat)
         /\ \A i \in 1 .. Len(s \o t) : \/ \E k \in 1 .. Len(s) : (s \o t)[i] = s[k]
                                        \/ \E k \in 1 .. Len(t) : (s \o t)[i] = t[k]
<1>1. /\ s \o t \in Seq(Nat) /\ Len(s \o t) = Len(s) + Len(t)
      /\ \A i \in 1 .. Len(s) : (s \o t)[i] = s[i]
      /\ \A i \in Len(s) + 1 .. Len(s) + Len(t) : (s \o t)[i] = t[i - Len(s)]
  OBVIOUS
<1>2. \A i \in 1 .. Len(s \o t) :
        \/ i \in 1 .. Len(s) /\ (s \o t)[i] = s[i]
        \/ i > Len(s) /\ i - Len(s) \in 1 .. Len(t) /\ (s \o t)[i] = t[i - Len(s)]
  BY <1>1
<1>3. ASSUME NEW i \in 1 .. Len(s \o t), NEW j \in 1 .. Len(s \o t), i < j
      PROVE  (s \o t)[i] < (s \o t)[j]
  <2>1. CASE j \in 1 .. Len(s)
    <3>1. i \in 1 .. Len(s)
      BY <1>1, <1>3, <2>1
    <3>2. QED
      BY <1>1, <1>3, <2>1, <3>1 DEF Increasing
  <2>2. CASE i \in 1 .. Len(s) /\ ~(j \in 1 .. Len(s))
    BY <1>2, <2>2
  <2>3. CASE ~(i \in 1 .. Len(s)) /\ ~(j \in 1 .. Len(s))
    <3>1. /\ i - Len(s) \in 1 .. Len(t) /\ (s \o t)[i] = t[i - Len(s)]
          /\ j - Len(s) \in 1 .. Len(t) /\ (s \o t)[j] = t[j - Len(s)]
      BY <1>2, <2>3
    <3>2. i - Len(s) < j - Len(s)
      BY <1>1, <1>3
    <3>3. QED
      BY <3>1, <3>2 DEF Increasing
  <2>4. CASE ~(i \in 1 .. Len(s)) /\ j \in 1 .. Len(s)
    BY <1>1, <1>3, <2>4
  <2>5. QED
    BY <2>1, <2>2, <2>3, <2>4
<1>4. QED
  BY <1>1, <1>2, <1>3 DEF Increasing

\* A sequence of at most one item.
Optional(present, n) == IF present THEN <<n>> ELSE <<>>

\* It holds nothing but n, and that only if n is there.
LEMMA OptionalItems ==
  ASSUME NEW present \in BOOLEAN, NEW n \in Nat
  PROVE  /\ Optional(present, n) \in Seq(Nat) /\ Increasing(Optional(present, n))
         /\ \A i \in 1 .. Len(Optional(present, n)) :
              present /\ Optional(present, n)[i] = n
<1>1. CASE present
  <2>1. Optional(present, n) = <<n>>
    BY <1>1 DEF Optional
  <2>2. /\ <<n>> \in Seq(Nat) /\ Len(<<n>>) = 1
        /\ \A i \in 1 .. Len(<<n>>) : i = 1 /\ <<n>>[i] = n
    OBVIOUS
  <2>3. Increasing(<<n>>)
    BY <2>2 DEF Increasing
  <2>4. QED
    BY <1>1, <2>1, <2>2, <2>3
<1>2. CASE ~present
  <2>1. Optional(present, n) = <<>>
    BY <1>2 DEF Optional
  <2>2. <<>> \in Seq(Nat) /\ 1 .. Len(<<>>) = {}
    OBVIOUS
  <2>3. QED
    BY <2>1, <2>2 DEF Increasing
<1>3. QED
  BY <1>1, <1>2

\* The pieces of SamplesOnTheWay are increasing, and each is before the next.
LEMMA OnTheWay == TypeOK /\ SampleInv => SamplesInOrder
<1> SUFFICES ASSUME TypeOK, SampleInv PROVE SamplesInOrder
  OBVIOUS
<1> DEFINE old == IF oldStatBufferInitialized = 1 THEN <<oldStatBuffer>> ELSE <<>>
           new == IF analyzerPc \in NewStatInUse THEN <<newStatBuffer>> ELSE <<>>
           fresh == IF readerPc \in HasSample THEN <<procStat>> ELSE <<>>
           taken == old \o new
           read == taken \o procStatCbuf
<1>1. /\ procStatCbuf \in Seq(Nat) /\ procStat \in Nat /\ loaded \in Nat
      /\ oldStatBuffer \in Nat /\ newStatBuffer \in Nat
  BY DEF TypeOK
<1>2. /\ /\ old \in Seq(Nat) /\ Increasing(old)
         /\ \A i \in 1 .. Len(old) : oldStatBufferInitialized = 1 /\ old[i] = oldStatBuffer
      /\ /\ new \in Seq(Nat) /\ Increasing(new)
         /\ \A i \in 1 .. Len(new) : analyzerPc \in NewStatInUse /\ new[i] = newStatBuffer
      /\ /\ fresh \in Seq(Nat) /\ Increasing(fresh)
         /\ \A i \in 1 .. Len(fresh) : readerPc \in HasSample /\ fresh[i] = procStat
  <2>1. old = Optional(oldStatBufferInitialized = 1, oldStatBuffer)
    BY DEF Optional
  <2>2. new = Optional(analyzerPc \in NewStatInUse, newStatBuffer)
    BY DEF Optional
  <2>3. fresh = Optional(readerPc \in HasSample, procStat)
    BY DEF Optional
  <2>4. (oldStatBufferInitialized = 1) \in BOOLEAN
    OBVIOUS
  <2>5. (analyzerPc \in NewStatInUse) \in BOOLEAN
    OBVIOUS
  <2>6. (readerPc \in HasSample) \in BOOLEAN
    OBVIOUS
  <2> HIDE DEF old, new, fresh
  <2>7. QED
    BY <1>1, <2>1, <2>2, <2>3, <2>4, <2>5, <2>6, OptionalItems
<1>3. /\ \A i \in 1 .. Len(procStatCbuf) : 
           readerPc \in HasSample => procStatCbuf[i] < procStat
      /\ Increasing(procStatCbuf)
  BY DEF SampleInv, WrittenInOrder
<1>5. /\ oldStatBufferInitialized = 1 /\ analyzerPc \in NewStatInUse =>
           oldStatBuffer < newStatBuffer
      /\ oldStatBufferInitialized = 1 =>
           /\ \A i \in 1 .. Len(procStatCbuf) : oldStatBuffer < procStatCbuf[i]
           /\ readerPc \in HasSample => oldStatBuffer < procStat
      /\ analyzerPc \in NewStatInUse =>
           /\ \A i \in 1 .. Len(procStatCbuf) : newStatBuffer < procStatCbuf[i]
           /\ readerPc \in HasSample => newStatBuffer < procStat
  BY DEF SampleInv, TakenInOrder, WrittenInOrder, Behind
<1>6. SamplesOnTheWay = read \o fresh
  BY DEF SamplesOnTheWay, HasSample
<1> HIDE DEF old, new, fresh
<1>7. /\ Increasing(taken) /\ taken \in Seq(Nat)
      /\ \A i \in 1 .. Len(taken) : 
           \/ oldStatBufferInitialized = 1 /\ taken[i] = oldStatBuffer
           \/ analyzerPc \in NewStatInUse /\ taken[i] = newStatBuffer
  <2>1. \A i \in 1 .. Len(old) : \A j \in 1 .. Len(new) : old[i] < new[j]
    BY <1>2, <1>5
  <2>2. /\ Increasing(taken) /\ taken \in Seq(Nat)
        /\ \A i \in 1 .. Len(taken) : \/ \E k \in 1 .. Len(old) : taken[i] = old[k]
                                      \/ \E k \in 1 .. Len(new) : taken[i] = new[k]
    BY <1>2, <2>1, ConcatIncreasing
  <2>3. QED
    BY <1>2, <2>2
<1> HIDE DEF taken
<1>8. /\ Increasing(read) /\ read \in Seq(Nat)
      /\ \A i \in 1 .. Len(read) : 
           \/ \E k \in 1 .. Len(taken) : read[i] = taken[k]
           \/ \E k \in 1 .. Len(procStatCbuf) : read[i] = procStatCbuf[k]
  <2>1. \A i \in 1 .. Len(taken) : \A j \in 1 .. Len(procStatCbuf) :
           taken[i] < procStatCbuf[j]
    BY <1>5, <1>7
  <2>2. QED
    BY <1>1, <1>3, <1>7, <2>1, ConcatIncreasing
<1> HIDE DEF read
<1>9. Increasing(read \o fresh) /\ read \o fresh \in Seq(Nat)
  <2>1. \A i \in 1 .. Len(read) : \A j \in 1 .. Len(fresh) : read[i] < fresh[j]
    BY <1>2, <1>3, <1>5, <1>7, <1>8
  <2>2. QED
    BY <1>2, <1>8, <2>1, ConcatIncreasing
<1>10. Increasing(SamplesOnTheWay) /\ Len(SamplesOnTheWay) \in Nat
  BY <1>6, <1>9
<1>11. ASSUME NEW i \in 1 .. Len(SamplesOnTheWay) - 1
       PROVE  SamplesOnTheWay[i] < SamplesOnTheWay[i + 1]
  <2>1. /\ i \in 1 .. Len(SamplesOnTheWay) /\ i + 1 \in 1 .. Len(SamplesOnTheWay)
        /\ i < i + 1
    BY <1>10
  <2>2. QED
    BY <1>10, <2>1 DEF Increasing
<1>12. QED
  BY <1>11 DEF SamplesInOrder

\* The samples in the hands of the reader, in the buffer and in the hands of
\* the analyzer are always in the order of their loading, none twice.
THEOREM SamplesStayInOrder == Spec => []SamplesInOrder
  BY TypeCorrect, SampleInvariant, OnTheWay, PTL

-----------------------------------------------------------------------------
(* Records.                                                                *)

\* Nothing has been published or printed.
LEMMA InitRecord == Init => RecordInv
  BY DEF Init, RecordInv, PublishedLast, RecordsInOrder, Forward, Unset,
         HasRecord, HasPublished

\* The reader touches no record.
LEMMA ReaderRecord ==
  RecordInv /\ (ReaderThread \/ Thread_activateKillSwitch \/ UNCHANGED vars)
    => RecordInv' /\ published' = published /\ screen' = screen
<1> SUFFICES ASSUME RecordInv,
                    ReaderThread \/ Thread_activateKillSwitch \/ UNCHANGED vars
             PROVE  RecordInv' /\ published' = published /\ screen' = screen
  OBVIOUS
<1>1. UNCHANGED <<analyzerPc, oldStatBuffer, newStatBuffer,
                  oldStatBufferInitialized, usageInfoBuffer, published,
                  usageInfoCbuf, printerBuffer, screen>>
  BY DEF ReaderThread, ReaderStart, ReaderTop, ReaderLoad, ReaderLock,
     ReaderCheck, ReaderTimeout, ReaderWake, ReaderDecide, ReaderWrite,
     ReaderUnlock, ReaderNotify, ReaderFree, readerFrame, usageInfoVars,
     analyzerVars, analyzerLocals, printerVars, printerLocals,
     Thread_activateKillSwitch, vars
<1>2. QED
  BY <1>1 DEF RecordInv, PublishedLast, RecordsInOrder, Forward

\* The usage records.
Record == Nat \X Nat

\* What the invariants say when the analyzer is about to publish a record: it
\* starts where the one before ended.
LEMMA RecordToWrite ==
  TypeOK /\ SampleInv /\ RecordInv /\ AnalyzerWrite =>
    /\ published' = <<oldStatBuffer, newStatBuffer>>
    /\ usageInfoCbuf' = Push(usageInfoCbuf, UsageInfoCapacity, published')
    /\ oldStatBuffer \in Nat /\ newStatBuffer \in Nat
    /\ oldStatBuffer < newStatBuffer
    /\ published[2] <= oldStatBuffer
    /\ published # Unset => published[2] = oldStatBuffer
<1> SUFFICES ASSUME TypeOK, SampleInv, RecordInv, AnalyzerWrite
             PROVE  /\ published' = <<oldStatBuffer, newStatBuffer>>
                    /\ usageInfoCbuf' = Push(usageInfoCbuf, UsageInfoCapacity, published')
                    /\ oldStatBuffer \in Nat /\ newStatBuffer \in Nat
                    /\ oldStatBuffer < newStatBuffer
                    /\ published[2] <= oldStatBuffer
                    /\ published # Unset => published[2] = oldStatBuffer
  OBVIOUS
<1>1. /\ analyzerPc = "write" /\ published' = usageInfoBuffer
      /\ usageInfoCbuf' = Push(usageInfoCbuf, UsageInfoCapacity, usageInfoBuffer)
  BY DEF AnalyzerWrite
<1>2. /\ analyzerPc \in HasRecord /\ analyzerPc \notin HasPublished
      /\ analyzerPc \in NewStatInUse
  BY <1>1 DEF HasRecord, HasPublished, NewStatInUse
<1>3. oldStatBuffer \in Nat /\ newStatBuffer \in Nat
  BY DEF TypeOK
<1>4. oldStatBuffer < newStatBuffer
  BY <1>2 DEF SampleInv, TakenInOrder
<1>5. /\ usageInfoBuffer = <<oldStatBuffer, newStatBuffer>>
      /\ published # Unset => published[2] = oldStatBuffer
  BY <1>2 DEF RecordInv, PublishedLast
<1>6. published[2] <= oldStatBuffer
  BY <1>3, <1>5 DEF Unset
<1>7. QED
  BY <1>1, <1>3, <1>4, <1>5, <1>6

\* A write of the analyzer appends the newest record and may drop the oldest.
LEMMA AnalyzerWriteRecord ==
  TypeOK /\ SampleInv /\ RecordInv /\ AnalyzerWrite => RecordInv'
<1> SUFFICES ASSUME TypeOK, SampleInv, RecordInv, AnalyzerWrite PROVE RecordInv'
  OBVIOUS
<1> DEFINE record == <<oldStatBuffer, newStatBuffer>>
<1>1. /\ usageInfoCbuf \in Seq(Nat \X Nat) /\ Len(usageInfoCbuf) <= UsageInfoCapacity
      /\ UsageInfoCapacity \in Nat \ {0} /\ published \in Nat \X Nat
      /\ printerBuffer \in Nat \X Nat /\ Len(usageInfoCbuf) \in Nat
  BY PipelineAssumption DEF TypeOK
<1>2. /\ published' = record /\ oldStatBuffer \in Nat /\ newStatBuffer \in Nat
      /\ usageInfoCbuf' = Push(usageInfoCbuf, UsageInfoCapacity, record)
      /\ oldStatBuffer < newStatBuffer /\ published[2] <= oldStatBuffer
  BY RecordToWrite
<1>3. /\ analyzerPc' = "unlockOut"
      /\ UNCHANGED <<oldStatBuffer, newStatBuffer, oldStatBufferInitialized,
                     printerBuffer, screen>>
  BY DEF AnalyzerWrite, outFrame, analyzerFrame, printerVars, printerLocals
<1>4. record \in Nat \X Nat /\ record[1] = oldStatBuffer /\ record[2] = newStatBuffer
  BY <1>2
<1> HIDE DEF record
<1>5. PICK d \in {0, 1} :
        /\ Len(usageInfoCbuf) >= d /\ Len(usageInfoCbuf') = Len(usageInfoCbuf) + 1 - d
        /\ usageInfoCbuf'[Len(usageInfoCbuf) + 1 - d] = record
        /\ \A i \in 1 .. Len(usageInfoCbuf) - d : usageInfoCbuf'[i] = usageInfoCbuf[i + d]
  <2>1. usageInfoCbuf \in Seq(Record) /\ record \in Record
    BY <1>1, <1>4 DEF Record
  <2>2. /\ Len(usageInfoCbuf) <= UsageInfoCapacity /\ UsageInfoCapacity \in Nat \ {0}
        /\ usageInfoCbuf' = Push(usageInfoCbuf, UsageInfoCapacity, record)
    BY <1>1, <1>2
  <2>3. QED
    BY <2>1, <2>2, PushItems
<1>6. \A i \in 1 .. Len(usageInfoCbuf) :
        usageInfoCbuf[i][1] \in Nat /\ usageInfoCbuf[i][2] \in Nat
  BY <1>1
<1>7. /\ printerBuffer[2] <= published[2]
      /\ \A i \in 1 .. Len(usageInfoCbuf) :
           /\ usageInfoCbuf[i][1] < usageInfoCbuf[i][2]
           /\ printerBuffer[2] <= usageInfoCbuf[i][1]
           /\ usageInfoCbuf[i][2] <= published[2]
      /\ \A i, j \in 1 .. Len(usageInfoCbuf) : i < j => usageInfoCbuf[i][2] <= usageInfoCbuf[j][1]
  BY DEF RecordInv, RecordsInOrder
<1>8. published[2] \in Nat /\ printerBuffer[2] \in Nat
  BY <1>1
<1>9. \A i \in 1 .. Len(usageInfoCbuf') :
        \/ usageInfoCbuf'[i] = record /\ i = Len(usageInfoCbuf')
        \/ /\ usageInfoCbuf'[i] = usageInfoCbuf[i + d]
           /\ i + d \in 1 .. Len(usageInfoCbuf) /\ i < Len(usageInfoCbuf')
  <2> SUFFICES ASSUME NEW i \in 1 .. Len(usageInfoCbuf')
               PROVE  \/ usageInfoCbuf'[i] = record /\ i = Len(usageInfoCbuf')
                      \/ /\ usageInfoCbuf'[i] = usageInfoCbuf[i + d]
                         /\ i + d \in 1 .. Len(usageInfoCbuf) /\ i < Len(usageInfoCbuf')
    OBVIOUS
  <2>1. /\ Len(usageInfoCbuf) \in Nat /\ d \in {0, 1} /\ Len(usageInfoCbuf) >= d
        /\ Len(usageInfoCbuf') = Len(usageInfoCbuf) + 1 - d
    BY <1>1, <1>5
  <2>2. CASE i = Len(usageInfoCbuf) + 1 - d
    BY <1>5, <2>1, <2>2
  <2>3. CASE i # Len(usageInfoCbuf) + 1 - d
    <3>1. /\ i \in 1 .. Len(usageInfoCbuf) - d /\ i + d \in 1 .. Len(usageInfoCbuf)
          /\ i < Len(usageInfoCbuf')
      BY <2>1, <2>3
    <3>2. usageInfoCbuf'[i] = usageInfoCbuf[i + d]
      BY <1>5, <3>1
    <3>3. QED
      BY <3>1, <3>2
  <2>4. QED
    BY <2>2, <2>3
<1>10. ASSUME NEW i \in 1 .. Len(usageInfoCbuf')
       PROVE  /\ usageInfoCbuf'[i][1] < usageInfoCbuf'[i][2]
              /\ printerBuffer[2] <= usageInfoCbuf'[i][1]
              /\ usageInfoCbuf'[i][2] <= newStatBuffer
  <2>1. CASE usageInfoCbuf'[i] = record
    BY <1>2, <1>4, <1>7, <1>8, <2>1
  <2>2. CASE i + d \in 1 .. Len(usageInfoCbuf) /\ usageInfoCbuf'[i] = usageInfoCbuf[i + d]
    <3>1. /\ usageInfoCbuf'[i][1] \in Nat /\ usageInfoCbuf'[i][2] \in Nat
          /\ usageInfoCbuf'[i][1] < usageInfoCbuf'[i][2]
          /\ printerBuffer[2] <= usageInfoCbuf'[i][1]
          /\ usageInfoCbuf'[i][2] <= published[2]
      BY <1>6, <1>7, <2>2
    <3>2. QED
      BY <1>2, <1>8, <3>1
  <2>3. QED
    BY <1>9, <2>1, <2>2
<1>11. ASSUME NEW i \in 1 .. Len(usageInfoCbuf'), NEW j \in 1 .. Len(usageInfoCbuf'),
              i < j
       PROVE  usageInfoCbuf'[i][2] <= usageInfoCbuf'[j][1]
  <2>1. /\ i + d \in 1 .. Len(usageInfoCbuf)
        /\ usageInfoCbuf'[i] = usageInfoCbuf[i + d]
    <3>1. i # Len(usageInfoCbuf')
      BY <1>1, <1>5, <1>11
    <3>2. QED
      BY <1>9, <3>1
  <2>2. CASE usageInfoCbuf'[j] = record
    <3>1. usageInfoCbuf'[i][2] <= published[2] /\ usageInfoCbuf'[i][2] \in Nat
      BY <1>6, <1>7, <2>1
    <3>2. QED
      BY <1>2, <1>4, <1>8, <2>2, <3>1
  <2>3. CASE j + d \in 1 .. Len(usageInfoCbuf) /\ usageInfoCbuf'[j] = usageInfoCbuf[j + d]
    <3>1. i + d < j + d
      BY <1>11
    <3>2. QED
      BY <1>7, <2>1, <2>3, <3>1
  <2>4. QED
    BY <1>9, <2>2, <2>3
<1>12. printerBuffer[2] <= newStatBuffer
  BY <1>2, <1>7, <1>8
<1>13. published'[2] = newStatBuffer
  BY <1>2, <1>4
<1>14. RecordsInOrder'
  BY <1>3, <1>10, <1>11, <1>12, <1>13 DEF RecordInv, RecordsInOrder, Forward
<1>15. PublishedLast'
  <2>1. analyzerPc' \in HasPublished /\ analyzerPc' \notin HasRecord
    BY <1>3 DEF HasPublished, HasRecord
  <2>2. oldStatBufferInitialized' = 1
    <3>1. analyzerPc = "write"
      BY DEF AnalyzerWrite
    <3>2. QED
      BY <1>3, <3>1 DEF SampleInv, TakenInOrder, HasRecord
  <2>3. QED
    BY <1>2, <1>3, <2>1, <2>2 DEF PublishedLast, record
<1>16. QED
  BY <1>14, <1>15 DEF RecordInv

\* The analyzer's other steps compute a record or turn to the next sample.
LEMMA AnalyzerRecord ==
  TypeOK /\ SampleInv /\ RecordInv /\ AnalyzerThread =>
    RecordInv' /\ screen' = screen /\ (published' = published \/ AnalyzerWrite)
<1> SUFFICES ASSUME TypeOK, SampleInv, RecordInv, AnalyzerThread
             PROVE  /\ RecordInv' /\ screen' = screen
                    /\ published' = published \/ AnalyzerWrite
  OBVIOUS
<1>1. CASE AnalyzerWrite
  <2>1. screen' = screen
    BY <1>1 DEF AnalyzerWrite, outFrame, analyzerFrame, printerVars, printerLocals
  <2>2. QED
    BY <1>1, <2>1, AnalyzerWriteRecord
<1>2. CASE ~AnalyzerWrite
  <2>1. UNCHANGED <<published, usageInfoCbuf, printerBuffer, screen>>
    BY <1>2 DEF AnalyzerThread, AnalyzerStart, AnalyzerTop, AnalyzerLockIn,
         AnalyzerCheckIn, AnalyzerTimeoutIn, AnalyzerWakeIn, AnalyzerDecideIn,
         AnalyzerRead, AnalyzerUnlockIn, AnalyzerNotifyIn, AnalyzerCalculate,
         AnalyzerLockOut, AnalyzerCheckOut, AnalyzerTimeoutOut,
         AnalyzerWakeOut, AnalyzerDecideOut, AnalyzerUnlockOut,
         AnalyzerNotifyOut, AnalyzerSwap, inFrame, outFrame, analyzerFrame,
         usageInfoVars, printerVars, printerLocals, analyzerVars, analyzerLocals
  <2>2. RecordsInOrder'
    BY <2>1 DEF RecordInv, RecordsInOrder, Forward
  <2>3. PublishedLast'
    <3>1. CASE AnalyzerCalculate
      <4>1. /\ analyzerPc = "calculate" /\ analyzerPc \notin HasPublished
            /\ \/ /\ oldStatBufferInitialized = 0 /\ oldStatBufferInitialized' = 1
                  /\ analyzerPc' = "top"
               \/ /\ oldStatBufferInitialized # 0 /\ analyzerPc' = "lockOut"
                  /\ usageInfoBuffer' = <<oldStatBuffer, newStatBuffer>>
                  /\ UNCHANGED <<oldStatBuffer, newStatBuffer,
                                 oldStatBufferInitialized>>
        BY <3>1 DEF AnalyzerCalculate, HasPublished
      <4>2. QED
        BY <2>1, <4>1 DEF RecordInv, PublishedLast, HasRecord, HasPublished
    <3>2. CASE AnalyzerSwap
      <4>1. /\ analyzerPc = "swap" /\ analyzerPc' = "top"
            /\ oldStatBuffer' = newStatBuffer
            /\ oldStatBufferInitialized' = oldStatBufferInitialized
        BY <3>2 DEF AnalyzerSwap, swapStatBuffers
      <4>2. published = <<oldStatBuffer, newStatBuffer>>
        BY <4>1 DEF RecordInv, PublishedLast, HasPublished
      <4>3. QED
        BY <2>1, <4>1, <4>2 DEF RecordInv, PublishedLast, HasRecord, HasPublished
    <3>3. CASE AnalyzerRead
      <4>1. /\ analyzerPc = "read" /\ analyzerPc' \in {"unlockIn", "top"}
            /\ UNCHANGED <<oldStatBuffer, oldStatBufferInitialized, usageInfoBuffer>>
        BY <3>3 DEF AnalyzerRead
      <4>2. QED
        BY <2>1, <4>1 DEF RecordInv, PublishedLast, HasRecord, HasPublished
    <3>4. CASE ~AnalyzerCalculate /\ ~AnalyzerSwap /\ ~AnalyzerRead
      <4>1. /\ UNCHANGED analyzerLocals
            /\ analyzerPc' \in HasRecord => analyzerPc \in HasRecord
            /\ analyzerPc' \in HasPublished <=> analyzerPc \in HasPublished
        BY <1>2, <3>4 DEF AnalyzerThread, AnalyzerStart, AnalyzerTop,
             AnalyzerLockIn, AnalyzerCheckIn, AnalyzerTimeoutIn,
             AnalyzerWakeIn, AnalyzerDecideIn, AnalyzerUnlockIn,
             AnalyzerNotifyIn, AnalyzerLockOut, AnalyzerCheckOut,
             AnalyzerTimeoutOut, AnalyzerWakeOut, AnalyzerDecideOut,
             AnalyzerUnlockOut, AnalyzerNotifyOut, analyzerVars,
             analyzerLocals, HasRecord, HasPublished
      <4>2. QED
        BY <4>1 DEF RecordInv, PublishedLast, analyzerLocals
    <3>5. QED
      BY <3>1, <3>2, <3>3, <3>4
  <2>4. QED
    BY <2>1, <2>2, <2>3 DEF RecordInv
<1>3. QED
  BY <1>1, <1>2

\* A read of the printer takes the oldest record of the buffer.
LEMMA PrinterReadRecord ==
  TypeOK /\ RecordInv /\ PrinterRead /\ usageInfoCbuf # <<>> => RecordsInOrder'
<1> SUFFICES ASSUME TypeOK, RecordInv, PrinterRead, usageInfoCbuf # <<>>
             PROVE  RecordsInOrder'
  OBVIOUS
<1>1. /\ usageInfoCbuf \in Seq(Nat \X Nat) /\ screen \in Nat \X Nat
      /\ printerBuffer \in Nat \X Nat /\ published \in Nat \X Nat
  BY DEF TypeOK
<1>2. /\ usageInfoCbuf' = Tail(usageInfoCbuf) /\ printerBuffer' = Head(usageInfoCbuf)
      /\ UNCHANGED <<screen, published>>
  BY DEF PrinterRead, printerFrame, analyzerVars, analyzerLocals
<1>3. /\ printerBuffer' = usageInfoCbuf[1] /\ Len(usageInfoCbuf) >= 1
      /\ Len(usageInfoCbuf) \in Nat
      /\ Len(usageInfoCbuf') = Len(usageInfoCbuf) - 1
      /\ \A i \in 1 .. Len(usageInfoCbuf) - 1 : usageInfoCbuf'[i] = usageInfoCbuf[i + 1]
  BY <1>1, <1>2, TailItems
<1>4. \A i \in 1 .. Len(usageInfoCbuf') :
        i + 1 \in 1 .. Len(usageInfoCbuf) /\ usageInfoCbuf'[i] = usageInfoCbuf[i + 1]
  BY <1>3
<1>5. /\ 1 \in 1 .. Len(usageInfoCbuf)
      /\ \A i \in 1 .. Len(usageInfoCbuf') : 1 < i + 1
      /\ \A i, j \in 1 .. Len(usageInfoCbuf') : i < j => i + 1 < j + 1
  BY <1>3
<1>6. /\ Forward(screen) /\ Forward(printerBuffer)
      /\ screen = printerBuffer \/ screen[2] <= printerBuffer[1]
      /\ \A i \in 1 .. Len(usageInfoCbuf) :
           /\ usageInfoCbuf[i][1] < usageInfoCbuf[i][2]
           /\ printerBuffer[2] <= usageInfoCbuf[i][1]
           /\ usageInfoCbuf[i][2] <= published[2]
      /\ \A i, j \in 1 .. Len(usageInfoCbuf) :
           i < j => usageInfoCbuf[i][2] <= usageInfoCbuf[j][1]
  BY DEF RecordInv, RecordsInOrder
<1>7. /\ usageInfoCbuf[1] \in Nat \X Nat
      /\ usageInfoCbuf[1][1] < usageInfoCbuf[1][2]
      /\ printerBuffer[2] <= usageInfoCbuf[1][1]
      /\ usageInfoCbuf[1][2] <= published[2]
  BY <1>1, <1>5, <1>6
<1>8. Forward(printerBuffer)' /\ (printerBuffer[2] <= published[2])'
  BY <1>2, <1>3, <1>7 DEF Forward
<1>9. screen[2] <= usageInfoCbuf[1][1]
  <2>1. /\ screen[2] \in Nat /\ printerBuffer[1] \in Nat /\ printerBuffer[2] \in Nat
        /\ usageInfoCbuf[1][1] \in Nat
    BY <1>1, <1>7
  <2>2. printerBuffer[1] <= printerBuffer[2]
    BY <1>6, <2>1 DEF Forward, Unset
  <2>3. screen[2] <= printerBuffer[2]
    BY <1>6, <2>1, <2>2
  <2>4. QED
    BY <1>7, <2>1, <2>3
<1>10. ASSUME NEW i \in 1 .. Len(usageInfoCbuf')
       PROVE  /\ usageInfoCbuf'[i][1] < usageInfoCbuf'[i][2]
              /\ usageInfoCbuf[1][2] <= usageInfoCbuf'[i][1]
              /\ usageInfoCbuf'[i][2] <= published[2]
  BY <1>4, <1>5, <1>6
<1>11. ASSUME NEW i \in 1 .. Len(usageInfoCbuf'), NEW j \in 1 .. Len(usageInfoCbuf'),
              i < j
       PROVE  usageInfoCbuf'[i][2] <= usageInfoCbuf'[j][1]
  BY <1>4, <1>5, <1>6, <1>11
<1>12. QED
  BY <1>2, <1>3, <1>6, <1>8, <1>9, <1>10, <1>11 DEF RecordsInOrder, Forward

\* The printer never steps back, and publishes nothing.
LEMMA PrinterRecord ==
  TypeOK /\ RecordInv /\ PrinterThread =>
    /\ RecordInv' /\ published' = published
    /\ screen' = screen \/ screen' = printerBuffer
<1> SUFFICES ASSUME TypeOK, RecordInv, PrinterThread
             PROVE  /\ RecordInv' /\ published' = published
                    /\ screen' = screen \/ screen' = printerBuffer
  OBVIOUS
<1>1. UNCHANGED <<analyzerPc, oldStatBuffer, newStatBuffer,
                  oldStatBufferInitialized, usageInfoBuffer, published>>
  BY DEF PrinterThread, PrinterStart, PrinterTop, PrinterLock, PrinterCheck,
     PrinterTimeout, PrinterWake, PrinterDecide, PrinterRead, PrinterUnlock,
     PrinterPrint, printerFrame, analyzerVars, analyzerLocals
<1>2. PublishedLast'
  BY <1>1 DEF RecordInv, PublishedLast
<1>3. CASE PrinterRead /\ usageInfoCbuf # <<>>
  <2>1. screen' = screen
    BY <1>3 DEF PrinterRead
  <2>2. QED
    BY <1>1, <1>2, <1>3, <2>1, PrinterReadRecord DEF RecordInv
<1>4. CASE ~(PrinterRead /\ usageInfoCbuf # <<>>)
  <2>1. /\ UNCHANGED <<printerBuffer, usageInfoCbuf>>
        /\ screen' = screen \/ screen' = printerBuffer
    BY <1>4 DEF PrinterThread, PrinterStart, PrinterTop, PrinterLock,
         PrinterCheck, PrinterTimeout, PrinterWake, PrinterDecide, PrinterRead,
         PrinterUnlock, PrinterPrint, usageInfoVars, printerVars, printerLocals
  <2>2. RecordsInOrder'
    BY <1>1, <2>1 DEF RecordInv, RecordsInOrder, Forward
  <2>3. QED
    BY <1>1, <1>2, <2>1, <2>2 DEF RecordInv
<1>5. QED
  BY <1>3, <1>4

\* Every step keeps the records in order, publishes only what joins, and shows
\* only what is not older.
LEMMA RecordStep ==
  TypeOK /\ SampleInv /\ RecordInv /\ [Next]_vars =>
    /\ RecordInv'
    /\ published' = published \/ AnalyzerWrite
    /\ screen' = screen \/ screen' = printerBuffer
  BY ReaderRecord, AnalyzerRecord, PrinterRecord DEF Next, Terminated

\* RecordInv is an invariant.
LEMMA RecordInvariant == Spec => []RecordInv
  BY TypeCorrect, SampleInvariant, InitRecord, RecordStep, PTL DEF Spec

\* A usage record starts where the one published before it ended, for all
\* capacities, timeouts, drops and overwrites.
THEOREM UsageJoins == Spec => UsageContiguous
<1>1. TypeOK /\ SampleInv /\ RecordInv /\ [Next]_vars =>
        [published' # published =>
            /\ published # Unset => published'[1] = published[2]
            /\ published'[1] < published'[2]]_vars
  <2> SUFFICES ASSUME TypeOK, SampleInv, RecordInv, [Next]_vars,
                      published' # published
               PROVE  /\ published # Unset => published'[1] = published[2]
                      /\ published'[1] < published'[2]
    OBVIOUS
  <2>1. AnalyzerWrite
    BY RecordStep
  <2>2. QED
    BY <2>1, RecordToWrite
<1>2. QED
  BY <1>1, TypeCorrect, SampleInvariant, RecordInvariant, PTL
     DEF Spec, UsageContiguous

\* The screen never goes back in time.
THEOREM ScreenAdvances == Spec => ScreenMovesForward
<1>1. TypeOK /\ SampleInv /\ RecordInv /\ [Next]_vars =>
        [screen' # screen => /\ screen[2] <= screen'[1]
                             /\ screen'[1] < screen'[2]]_vars
  <2> SUFFICES ASSUME TypeOK, SampleInv, RecordInv, [Next]_vars, screen' # screen
               PROVE  screen[2] <= screen'[1] /\ screen'[1] < screen'[2]
    OBVIOUS
  <2>1. screen' = printerBuffer
    BY RecordStep
  <2>2. screen[2] <= printerBuffer[1]
    BY <2>1 DEF RecordInv, RecordsInOrder
  <2>3. printerBuffer # Unset
    <3>1. screen \in Nat \X Nat
      BY DEF TypeOK
    <3>2. screen = Unset \/ screen[1] < screen[2]
      BY DEF RecordInv, RecordsInOrder, Forward
    <3>3. QED
      BY <2>1, <2>2, <3>1, <3>2 DEF Unset
  <2>4. QED
    BY <2>1, <2>2, <2>3 DEF RecordInv, RecordsInOrder, Forward
<1>2. QED
  BY <1>1, TypeCorrect, SampleInvariant, RecordInvariant, PTL
     DEF Spec, ScreenMovesForward

-----------------------------------------------------------------------------
(* The threads together are one feed of usage records.                     *)

\* A sample that is used is one that was loaded.
Numbered ==
  /\ readerPc \in HasSample => loaded # 0
  /\ \A i \in 1 .. Len(procStatCbuf) : procStatCbuf[i] # 0
  /\ analyzerPc \in NewStatInUse => newStatBuffer # 0
  /\ oldStatBufferInitialized = 1 => oldStatBuffer # 0

\* The printer prints a record it has taken before it takes another.
TakenIsPrinted == printerBuffer # screen => printerPc \in {"unlock", "print"}

\* The inductive strengthening of ImplementsFeed.
FeedInv == Numbered /\ TakenIsPrinted

\* Nothing has been loaded and nothing was taken.
LEMMA InitFeed == Init => FeedInv
  BY DEF Init, FeedInv, Numbered, TakenIsPrinted, NewStatInUse, HasSample

\* The reader writes the number of a load, and these start with 1.
LEMMA ReaderFeed ==
  ASSUME TypeOK, SampleInv, FeedInv, ReaderThread
  PROVE  FeedInv'
<1>1. UNCHANGED <<analyzerPc, newStatBuffer, oldStatBuffer, oldStatBufferInitialized,
                  printerPc, printerBuffer, screen>>
  BY DEF ReaderThread, ReaderStart, ReaderTop, ReaderLoad, ReaderLock,
     ReaderCheck, ReaderTimeout, ReaderWake, ReaderDecide, ReaderWrite,
     ReaderUnlock, ReaderNotify, ReaderFree, readerFrame, analyzerVars,
     analyzerLocals, printerVars, printerLocals
<1>2. \A i \in 1 .. Len(procStatCbuf') : procStatCbuf'[i] # 0
  <2>1. CASE ReaderWrite
    <3>1. /\ procStatCbuf \in Seq(Nat) /\ Len(procStatCbuf) <= ProcStatCapacity
          /\ ProcStatCapacity \in Nat \ {0} /\ procStat \in Nat
      BY PipelineAssumption DEF TypeOK
    <3>2. /\ procStatCbuf' = Push(procStatCbuf, ProcStatCapacity, procStat)
          /\ readerPc \in HasSample
      BY <2>1 DEF ReaderWrite, HasSample
    <3>3. procStat # 0
      <4>1. procStat = loaded
        BY <3>2 DEF SampleInv, WrittenInOrder
      <4>2. loaded # 0
        BY <3>2 DEF FeedInv, Numbered
      <4>3. QED
        BY <4>1, <4>2
    <3>4. PICK d \in {0, 1} :
            /\ Len(procStatCbuf) >= d /\ Len(procStatCbuf') = Len(procStatCbuf) + 1 - d
            /\ procStatCbuf'[Len(procStatCbuf) + 1 - d] = procStat
            /\ \A i \in 1 .. Len(procStatCbuf) - d : procStatCbuf'[i] = procStatCbuf[i + d]
      BY <3>1, <3>2, PushItems
    <3>5. \A i \in 1 .. Len(procStatCbuf) : procStatCbuf[i] # 0
      BY DEF FeedInv, Numbered
    <3>6. ASSUME NEW i \in 1 .. Len(procStatCbuf') PROVE procStatCbuf'[i] # 0
      <4>1. CASE i = Len(procStatCbuf) + 1 - d
        BY <3>3, <3>4, <4>1
      <4>2. CASE i # Len(procStatCbuf) + 1 - d
        <5>1. i \in 1 .. Len(procStatCbuf) - d /\ i + d \in 1 .. Len(procStatCbuf)
          BY <3>1, <3>4, <4>2
        <5>2. QED
          BY <3>4, <3>5, <5>1
      <4>3. QED
        BY <4>1, <4>2
    <3>7. QED
      BY <3>6
  <2>2. CASE ~ReaderWrite
    <3>1. UNCHANGED procStatCbuf
      BY <2>2 DEF ReaderThread, ReaderStart, ReaderTop, ReaderLoad, ReaderLock,
         ReaderCheck, ReaderTimeout, ReaderWake, ReaderDecide, ReaderUnlock,
         ReaderNotify, ReaderFree, procStatVars
    <3>2. QED
      BY <3>1 DEF FeedInv, Numbered
  <2>3. QED
    BY <2>1, <2>2
<1>3. readerPc' \in HasSample => loaded' # 0
  <2>1. CASE ReaderLoad
    BY <2>1 DEF ReaderLoad, TypeOK, HasSample
  <2>2. CASE ~ReaderLoad
    <3>1. UNCHANGED loaded /\ (readerPc' \in HasSample => readerPc \in HasSample)
      BY <2>2 DEF ReaderThread, ReaderStart, ReaderTop, ReaderLock,
         ReaderCheck, ReaderTimeout, ReaderWake, ReaderDecide, ReaderWrite,
         ReaderUnlock, ReaderNotify, ReaderFree, readerLocals, readerVars, HasSample
    <3>2. QED
      BY <3>1 DEF FeedInv, Numbered
  <2>3. QED
    BY <2>1, <2>2
<1>4. QED
  BY <1>1, <1>2, <1>3 DEF FeedInv, Numbered, TakenIsPrinted

\* The analyzer uses what it read.
LEMMA AnalyzerFeed ==
  ASSUME TypeOK, FeedInv, AnalyzerThread
  PROVE  FeedInv'
<1>1. UNCHANGED <<readerPc, loaded, printerPc, printerBuffer, screen>>
  BY DEF AnalyzerThread, AnalyzerStart, AnalyzerTop, AnalyzerLockIn,
     AnalyzerCheckIn, AnalyzerTimeoutIn, AnalyzerWakeIn, AnalyzerDecideIn,
     AnalyzerRead, AnalyzerUnlockIn, AnalyzerNotifyIn, AnalyzerCalculate,
     AnalyzerLockOut, AnalyzerCheckOut, AnalyzerTimeoutOut, AnalyzerWakeOut,
     AnalyzerDecideOut, AnalyzerWrite, AnalyzerUnlockOut, AnalyzerNotifyOut,
     AnalyzerSwap, inFrame, outFrame, analyzerFrame, readerVars, readerLocals,
     printerVars, printerLocals
<1>2. CASE AnalyzerRead
  <2>1. /\ analyzerPc' \in {"unlockIn", "top"}
        /\ UNCHANGED <<oldStatBuffer, oldStatBufferInitialized>>
    BY <1>2 DEF AnalyzerRead
  <2>2. CASE procStatCbuf # <<>>
    <3>1. procStatCbuf \in Seq(Nat)
      BY DEF TypeOK
    <3>2. /\ procStatCbuf' = Tail(procStatCbuf) /\ newStatBuffer' = Head(procStatCbuf)
      BY <1>2, <2>2 DEF AnalyzerRead
    <3>3. /\ newStatBuffer' = procStatCbuf[1] /\ Len(procStatCbuf) \in Nat
          /\ Len(procStatCbuf) >= 1 /\ Len(procStatCbuf') = Len(procStatCbuf) - 1
          /\ \A i \in 1 .. Len(procStatCbuf) - 1 : procStatCbuf'[i] = procStatCbuf[i + 1]
      BY <2>2, <3>1, <3>2, TailItems
    <3>4. \A i \in 1 .. Len(procStatCbuf) : procStatCbuf[i] # 0
      BY DEF FeedInv, Numbered
    <3>5. newStatBuffer' # 0
      BY <3>3, <3>4
    <3>6. \A i \in 1 .. Len(procStatCbuf') : procStatCbuf'[i] # 0
      BY <3>3, <3>4
    <3>7. QED
      BY <1>1, <2>1, <3>5, <3>6 DEF FeedInv, Numbered, TakenIsPrinted
  <2>3. CASE procStatCbuf = <<>>
    <3>1. analyzerPc' = "top" /\ UNCHANGED procStatCbuf
      BY <1>2, <2>3 DEF AnalyzerRead
    <3>2. QED
      BY <1>1, <2>1, <3>1 DEF FeedInv, Numbered, TakenIsPrinted, NewStatInUse
  <2>4. QED
    BY <2>2, <2>3
<1>3. CASE AnalyzerCalculate \/ AnalyzerSwap
  <2>1. /\ analyzerPc \in NewStatInUse /\ UNCHANGED procStatCbuf
        /\ \/ analyzerPc' = "top" /\ oldStatBuffer' = newStatBuffer
           \/ /\ analyzerPc' = "lockOut"
              /\ UNCHANGED <<oldStatBuffer, newStatBuffer, oldStatBufferInitialized>>
    BY <1>3 DEF AnalyzerCalculate, AnalyzerSwap, swapStatBuffers, procStatVars,
       NewStatInUse
  <2>2. QED
    BY <1>1, <2>1 DEF FeedInv, Numbered, TakenIsPrinted, NewStatInUse
<1>4. CASE ~AnalyzerRead /\ ~AnalyzerCalculate /\ ~AnalyzerSwap
  <2>1. /\ UNCHANGED <<procStatCbuf, oldStatBuffer, newStatBuffer,
                       oldStatBufferInitialized>>
        /\ analyzerPc' \in NewStatInUse => analyzerPc \in NewStatInUse
    BY <1>4 DEF AnalyzerThread, AnalyzerStart, AnalyzerTop, AnalyzerLockIn,
       AnalyzerCheckIn, AnalyzerTimeoutIn, AnalyzerWakeIn, AnalyzerDecideIn,
       AnalyzerUnlockIn, AnalyzerNotifyIn, AnalyzerLockOut, AnalyzerCheckOut,
       AnalyzerTimeoutOut, AnalyzerWakeOut, AnalyzerDecideOut, AnalyzerWrite,
       AnalyzerUnlockOut, AnalyzerNotifyOut, outFrame, procStatVars,
       analyzerVars, analyzerLocals, NewStatInUse
  <2>2. QED
    BY <1>1, <2>1 DEF FeedInv, Numbered, TakenIsPrinted
<1>5. QED
  BY <1>2, <1>3, <1>4

\* The printer reads only when it has printed what it read before.
LEMMA PrinterFeed ==
  ASSUME FeedInv, PrinterThread
  PROVE  FeedInv'
<1>1. UNCHANGED <<readerPc, loaded, procStatCbuf, analyzerPc, newStatBuffer,
                  oldStatBuffer, oldStatBufferInitialized>>
  BY DEF PrinterThread, PrinterStart, PrinterTop, PrinterLock, PrinterCheck,
     PrinterTimeout, PrinterWake, PrinterDecide, PrinterRead, PrinterUnlock,
     PrinterPrint, printerFrame, procStatVars, readerVars, readerLocals,
     analyzerVars, analyzerLocals
<1>2. TakenIsPrinted'
  BY DEF FeedInv, TakenIsPrinted, PrinterThread, PrinterStart, PrinterTop,
     PrinterLock, PrinterCheck, PrinterTimeout, PrinterWake, PrinterDecide,
     PrinterRead, PrinterUnlock, PrinterPrint, printerVars, printerLocals
<1>3. QED
  BY <1>1, <1>2 DEF FeedInv, Numbered

\* FeedInv is an invariant.
LEMMA FeedInvariant == Spec => []FeedInv
<1>1. TypeOK /\ SampleInv /\ FeedInv /\ [Next]_vars => FeedInv'
  <2> SUFFICES ASSUME TypeOK, SampleInv, FeedInv, [Next]_vars PROVE FeedInv'
    OBVIOUS
  <2>1. CASE Thread_activateKillSwitch \/ UNCHANGED vars
    BY <2>1 DEF Thread_activateKillSwitch, vars, FeedInv, Numbered,
       TakenIsPrinted, procStatVars, readerVars, readerLocals, analyzerVars,
       analyzerLocals, printerVars, printerLocals
  <2>2. QED
    BY <2>1, ReaderFeed, AnalyzerFeed, PrinterFeed DEF Next, Terminated
<1>2. QED
  BY <1>1, TypeCorrect, SampleInvariant, InitFeed, PTL DEF Spec

-----------------------------------------------------------------------------
(* Sequences behind one another.                                           *)

\* One more record at the end.
LEMMA ConcatAppend ==
  ASSUME NEW s \in Seq(Record), NEW q \in Seq(Record), NEW x \in Record
  PROVE  s \o Append(q, x) = Append(s \o q, x)
<1>1. /\ q \o <<x>> = Append(q, x) /\ (s \o q) \o <<x>> = Append(s \o q, x)
      /\ <<x>> \in Seq(Record) /\ s \o q \in Seq(Record)
  BY AppendIsConcat
<1>2. QED
  BY <1>1, ConcatAssociative

\* The first record of the second sequence goes.
LEMMA ConcatRemove ==
  ASSUME NEW s \in Seq(Record), NEW q \in Seq(Record), q # <<>>
  PROVE  /\ Len(s) + 1 \in 1 .. Len(s \o q)
         /\ Len(s \o q) - (Len(s) + 1) + 1 = Len(q)
         /\ Feed!RemoveAt(s \o q, Len(s) + 1) = s \o Tail(q)
<1>1. PICK c \in Seq(Record) : c = s \o q
  BY ConcatProperties, Zenon
<1>2. /\ Len(c) = Len(s) + Len(q) /\ Len(s) \in Nat /\ Len(q) \in Nat /\ Len(q) > 0
      /\ \A i \in 1 .. Len(s) + Len(q) : c[i] = IF i <= Len(s) THEN s[i] ELSE q[i - Len(s)]
  <2>1. Len(q) \in Nat /\ Len(q) > 0 /\ Len(s) \in Nat
    BY EmptySeq
  <2>2. QED
    BY <1>1, <2>1, ConcatProperties
<1>3. SubSeq(c, 1, Len(s)) = s
  <2>1. /\ SubSeq(c, 1, Len(s)) \in Seq(Record) /\ Len(SubSeq(c, 1, Len(s))) = Len(s)
        /\ \A i \in 1 .. Len(s) : SubSeq(c, 1, Len(s))[i] = c[i]
    BY <1>2
  <2>2. \A i \in 1 .. Len(s) : c[i] = s[i]
    BY <1>2
  <2>3. QED
    BY <2>1, <2>2, SeqEqual
<1>4. SubSeq(c, Len(s) + 2, Len(c)) = Tail(q)
  <2> DEFINE rest == SubSeq(c, Len(s) + 2, Len(c))
  <2>1. /\ rest \in Seq(Record) /\ Len(rest) = Len(q) - 1
        /\ \A i \in 1 .. Len(q) - 1 : rest[i] = c[Len(s) + 1 + i]
    <3>1. /\ Len(s) + 2 \in Int /\ Len(c) \in Int
          /\ \A i \in Len(s) + 2 .. Len(c) : c[i] \in Record
      BY <1>2
    <3>2. /\ rest \in Seq(Record)
          /\ Len(rest) = IF Len(s) + 2 <= Len(c) THEN Len(c) - (Len(s) + 2) + 1 ELSE 0
          /\ \A i \in 1 .. Len(c) - (Len(s) + 2) + 1 : rest[i] = c[(Len(s) + 2) + i - 1]
      BY <3>1, SubSeqProperties
    <3>3. Len(c) - (Len(s) + 2) + 1 = Len(q) - 1
      BY <1>2
    <3>4. Len(rest) = Len(q) - 1
      <4>1. \A a, b \in Nat : b > 0 => (a + 2 <= a + b <=> b # 1)
        OBVIOUS
      <4>2. QED
        BY <1>2, <3>2, <3>3, <4>1
    <3>5. ASSUME NEW i \in 1 .. Len(q) - 1 PROVE rest[i] = c[Len(s) + 1 + i]
      <4>1. i \in 1 .. Len(c) - (Len(s) + 2) + 1 /\ (Len(s) + 2) + i - 1 = Len(s) + 1 + i
        BY <1>2, <3>3
      <4>2. QED
        BY <3>2, <4>1
    <3>6. QED
      BY <3>2, <3>4, <3>5
  <2>2. ASSUME NEW i \in 1 .. Len(q) - 1 PROVE c[Len(s) + 1 + i] = q[i + 1]
    <3>1. /\ Len(s) + 1 + i \in 1 .. Len(s) + Len(q) /\ ~(Len(s) + 1 + i <= Len(s))
          /\ (Len(s) + 1 + i) - Len(s) = i + 1
      BY <1>2
    <3>2. QED
      BY <1>2, <3>1
  <2>3. /\ Tail(q) \in Seq(Record) /\ Len(Tail(q)) = Len(q) - 1
        /\ \A i \in 1 .. Len(q) - 1 : Tail(q)[i] = q[i + 1]
    BY <1>2, HeadTailProperties
  <2> HIDE DEF rest
  <2>4. rest = Tail(q)
    BY <2>1, <2>2, <2>3, SeqEqual
  <2>5. QED
    BY <2>4 DEF rest
<1>5. (Len(s) + 1) - 1 = Len(s) /\ (Len(s) + 1) + 1 = Len(s) + 2
  BY <1>2
<1>6. Len(s) + 1 \in 1 .. Len(c) /\ Len(c) - (Len(s) + 1) + 1 = Len(q)
  BY <1>2
<1>7. QED
  BY <1>1, <1>3, <1>4, <1>5, <1>6 DEF Feed!RemoveAt

\* A single record in front.
LEMMA ConcatFirst ==
  ASSUME NEW r \in Record, NEW q \in Seq(Record)
  PROVE  /\ <<r>> \o q # <<>> /\ Head(<<r>> \o q) = r /\ Tail(<<r>> \o q) = q
<1>1. PICK c \in Seq(Record) : c = <<r>> \o q
  <2>1. <<r>> \in Seq(Record)
    OBVIOUS
  <2>2. <<r>> \o q \in Seq(Record)
    BY <2>1, ConcatProperties
  <2>3. QED
    BY <2>2, Zenon
<1>2. /\ Len(c) = 1 + Len(q) /\ Len(q) \in Nat /\ c[1] = r
      /\ \A i \in 1 .. Len(q) : c[i + 1] = q[i]
  <2>1. /\ <<r>> \in Seq(Record) /\ Len(<<r>>) = 1 /\ <<r>>[1] = r /\ Len(q) \in Nat
    OBVIOUS
  <2>2. /\ Len(c) = 1 + Len(q)
        /\ \A i \in 1 .. 1 + Len(q) : c[i] = IF i <= 1 THEN <<r>>[i] ELSE q[i - 1]
    BY <1>1, <2>1, ConcatProperties
  <2>3. ASSUME NEW i \in 1 .. Len(q) PROVE c[i + 1] = q[i]
    <3>1. i + 1 \in 1 .. 1 + Len(q) /\ ~(i + 1 <= 1) /\ (i + 1) - 1 = i
      BY <2>1
    <3>2. QED
      BY <2>2, <3>1
  <2>4. QED
    BY <2>1, <2>2, <2>3
<1>3. c # <<>> /\ Head(c) = r
  BY <1>2
<1>4. Tail(c) = q
  <2>1. /\ Tail(c) \in Seq(Record) /\ Len(Tail(c)) = Len(q)
        /\ \A i \in 1 .. Len(q) : Tail(c)[i] = q[i]
    BY <1>2, <1>3, HeadTailProperties
  <2>2. QED
    BY <2>1, SeqEqual
<1>5. QED
  BY <1>1, <1>3, <1>4

-----------------------------------------------------------------------------
(* Every step is a step of the feed, or none.                              *)

\* Nothing happens to the records but that a sample may be loaded.
Rests == UNCHANGED <<Basis, Taken, usageInfoCbuf, screen>>

\* The queue is typed.
LEMMA FeedTypes ==
  TypeOK => /\ Taken \in Seq(Record) /\ usageInfoCbuf \in Seq(Record)
            /\ printerBuffer \in Record /\ screen \in Record
            /\ loaded \in Nat /\ oldStatBuffer \in Nat /\ newStatBuffer \in Nat
<1> SUFFICES ASSUME TypeOK
             PROVE  /\ Taken \in Seq(Record) /\ usageInfoCbuf \in Seq(Record)
                    /\ printerBuffer \in Record /\ screen \in Record
                    /\ loaded \in Nat /\ oldStatBuffer \in Nat /\ newStatBuffer \in Nat
  OBVIOUS
<1>1. /\ usageInfoCbuf \in Seq(Record) /\ printerBuffer \in Record /\ screen \in Record
      /\ loaded \in Nat /\ oldStatBuffer \in Nat /\ newStatBuffer \in Nat
  BY PipelineAssumption DEF TypeOK, Record
<1>2. <<>> \in Seq(Record) /\ <<printerBuffer>> \in Seq(Record)
  BY <1>1
<1>3. Taken \in Seq(Record)
  BY <1>2 DEF Taken
<1>4. QED
  BY <1>1, <1>3

\* A step at rest is a load or none.
LEMMA RestFeeds ==
  ASSUME Rests, loaded' \in {loaded, loaded + 1}
  PROVE  [Feed!Next]_Feed!vars
<1>1. UNCHANGED <<Basis, Taken \o usageInfoCbuf, screen>>
  BY DEF Rests
<1>2. QED
  BY <1>1 DEF Feed!Next, Feed!Load, Feed!vars

\* The reader at most loads a sample.
LEMMA ReaderFeeds ==
  ASSUME ReaderThread \/ Thread_activateKillSwitch \/ UNCHANGED vars
  PROVE  [Feed!Next]_Feed!vars
<1>1. /\ UNCHANGED <<analyzerPc, newStatBuffer, oldStatBuffer, oldStatBufferInitialized,
                     printerBuffer, screen, usageInfoCbuf>>
      /\ loaded' \in {loaded, loaded + 1}
  BY DEF ReaderThread, ReaderStart, ReaderTop, ReaderLoad, ReaderLock,
     ReaderCheck, ReaderTimeout, ReaderWake, ReaderDecide, ReaderWrite,
     ReaderUnlock, ReaderNotify, ReaderFree, readerFrame, readerVars, readerLocals,
     analyzerVars, analyzerLocals, printerVars, printerLocals, usageInfoVars,
     Thread_activateKillSwitch, vars
<1>2. Rests
  BY <1>1 DEF Rests, Basis, Taken
<1>3. QED
  BY <1>1, <1>2, RestFeeds

\* A write of the analyzer publishes the record from the last basis.
LEMMA WriteFeeds ==
  ASSUME TypeOK, SampleInv, RecordInv, FeedInv, AnalyzerWrite
  PROVE  Feed!Publish \/ Feed!PublishOver
<1> DEFINE record == <<oldStatBuffer, newStatBuffer>>
           pending == Taken \o usageInfoCbuf
<1>1. /\ published' = record
      /\ usageInfoCbuf' = Push(usageInfoCbuf, UsageInfoCapacity, record)
      /\ oldStatBuffer \in Nat /\ newStatBuffer \in Nat
      /\ oldStatBuffer < newStatBuffer
  BY RecordToWrite
<1>2. /\ analyzerPc = "write" /\ analyzerPc' = "unlockOut"
      /\ UNCHANGED <<oldStatBuffer, newStatBuffer, oldStatBufferInitialized,
                     printerBuffer, screen, loaded>>
  BY DEF AnalyzerWrite, outFrame, analyzerFrame, readerVars, readerLocals,
     printerVars, printerLocals
<1>3. oldStatBufferInitialized = 1 /\ analyzerPc \in NewStatInUse
  BY <1>2 DEF SampleInv, TakenInOrder, HasRecord, NewStatInUse
<1>4. Basis = oldStatBuffer /\ Basis # 0
  BY <1>2, <1>3 DEF Basis, FeedInv, Numbered
<1>5. Basis' = newStatBuffer
  BY <1>2, <1>3 DEF Basis
<1>6. newStatBuffer <= loaded /\ loaded \in Nat
  BY <1>3, FeedTypes DEF SampleInv, TakenInOrder, Behind
<1>7. Basis' \in Basis + 1 .. loaded
  BY <1>1, <1>4, <1>5, <1>6
<1>8. <<Basis, Basis'>> = record /\ record \in Record
  BY <1>1, <1>4, <1>5 DEF Record
<1>9. Taken' = Taken
  BY <1>2 DEF Taken
<1>10. pending' = Taken \o usageInfoCbuf'
  BY <1>9
<1>11. Taken \in Seq(Record) /\ usageInfoCbuf \in Seq(Record)
  BY FeedTypes
<1> HIDE DEF record
<1>12. CASE Len(usageInfoCbuf) < UsageInfoCapacity
  <2>1. usageInfoCbuf' = Append(usageInfoCbuf, record)
    BY <1>1, <1>12 DEF Push
  <2>2. pending' = Append(pending, record)
    BY <1>8, <1>10, <1>11, <2>1, ConcatAppend
  <2>3. Feed!Publish
    BY <1>2, <1>4, <1>7, <1>8, <2>2 DEF Feed!Publish, Feed!Join
  <2>4. QED
    BY <2>3
<1>13. CASE ~(Len(usageInfoCbuf) < UsageInfoCapacity)
  <2>1. UsageInfoCapacity \in Nat \ {0} /\ Len(usageInfoCbuf) = UsageInfoCapacity
    BY <1>13, PipelineAssumption DEF TypeOK
  <2>2. usageInfoCbuf # <<>>
    BY <1>11, <2>1, EmptySeq
  <2>3. usageInfoCbuf' = Append(Tail(usageInfoCbuf), record)
    BY <1>1, <1>13 DEF Push
  <2>4. Tail(usageInfoCbuf) \in Seq(Record)
    BY <1>11, <2>2, HeadTailProperties
  <2>5. pending' = Append(Taken \o Tail(usageInfoCbuf), record)
    BY <1>8, <1>10, <1>11, <2>3, <2>4, ConcatAppend
  <2> DEFINE i == Len(Taken) + 1
  <2>6. /\ i \in 1 .. Len(pending) /\ Len(pending) - i + 1 = Len(usageInfoCbuf)
        /\ Feed!RemoveAt(pending, i) = Taken \o Tail(usageInfoCbuf)
    BY <1>11, <2>2, ConcatRemove
  <2>7. pending' = Append(Feed!RemoveAt(pending, i), record)
    BY <2>5, <2>6
  <2>8. Len(pending) - i + 1 >= UsageInfoCapacity
    BY <2>1, <2>6
  <2>9. Feed!Join(Feed!RemoveAt(pending, i))
    BY <1>2, <1>4, <1>7, <1>8, <2>7 DEF Feed!Join
  <2> HIDE DEF i
  <2>10. Feed!PublishOver
    BY <2>6, <2>8, <2>9 DEF Feed!PublishOver
  <2>11. QED
    BY <2>10
<1>14. QED
  BY <1>12, <1>13

\* The first sample is the first basis.
LEMMA CalculateFeeds ==
  ASSUME TypeOK, SampleInv, FeedInv, AnalyzerCalculate
  PROVE  Feed!Begin \/ (Rests /\ UNCHANGED loaded)
<1>1. /\ analyzerPc = "calculate" /\ analyzerPc' \in {"top", "lockOut"}
      /\ UNCHANGED <<printerBuffer, screen, loaded, usageInfoCbuf>>
  BY DEF AnalyzerCalculate, analyzerFrame, usageInfoVars, readerVars,
     readerLocals, printerVars, printerLocals
<1>2. UNCHANGED <<Taken, usageInfoCbuf, screen, loaded>>
  BY <1>1 DEF Taken
<1>3. CASE oldStatBufferInitialized = 0
  <2>1. oldStatBufferInitialized' = 1 /\ oldStatBuffer' = newStatBuffer
    BY <1>3 DEF AnalyzerCalculate, swapStatBuffers
  <2>2. analyzerPc \in NewStatInUse
    BY <1>1 DEF NewStatInUse
  <2>3. /\ newStatBuffer # 0 /\ newStatBuffer <= loaded
        /\ newStatBuffer \in Nat /\ loaded \in Nat
    BY <2>2, FeedTypes DEF FeedInv, Numbered, SampleInv, TakenInOrder, Behind
  <2>4. Basis = 0 /\ Basis' = newStatBuffer
    BY <1>1, <1>3, <2>1 DEF Basis
  <2>5. Basis' \in 1 .. loaded
    BY <2>3, <2>4
  <2>6. UNCHANGED (Taken \o usageInfoCbuf)
    BY <1>2
  <2>7. QED
    BY <1>2, <2>4, <2>5, <2>6 DEF Feed!Begin
<1>4. CASE oldStatBufferInitialized # 0
  <2>1. UNCHANGED <<oldStatBuffer, newStatBuffer, oldStatBufferInitialized>>
    BY <1>4 DEF AnalyzerCalculate
  <2>2. QED
    BY <1>1, <1>2, <2>1 DEF Rests, Basis
<1>5. QED
  BY <1>3, <1>4

\* The analyzer takes the first basis, publishes, or does nothing to the records.
LEMMA AnalyzerFeeds ==
  ASSUME TypeOK, SampleInv, RecordInv, FeedInv, AnalyzerThread
  PROVE  [Feed!Next]_Feed!vars
<1>1. CASE AnalyzerWrite
  BY <1>1, WriteFeeds DEF Feed!Next
<1>2. CASE AnalyzerCalculate
  BY <1>2, CalculateFeeds, RestFeeds DEF Feed!Next
<1>3. CASE ~AnalyzerWrite /\ ~AnalyzerCalculate
  <2>1. UNCHANGED <<loaded, printerBuffer, screen, usageInfoCbuf,
                    oldStatBufferInitialized>>
    BY <1>3 DEF AnalyzerThread, AnalyzerStart, AnalyzerTop, AnalyzerLockIn,
       AnalyzerCheckIn, AnalyzerTimeoutIn, AnalyzerWakeIn, AnalyzerDecideIn,
       AnalyzerRead, AnalyzerUnlockIn, AnalyzerNotifyIn, AnalyzerLockOut,
       AnalyzerCheckOut, AnalyzerTimeoutOut, AnalyzerWakeOut,
       AnalyzerDecideOut, AnalyzerUnlockOut, AnalyzerNotifyOut, AnalyzerSwap,
       inFrame, outFrame, analyzerFrame, usageInfoVars, readerVars,
       readerLocals, printerVars, printerLocals, analyzerVars, analyzerLocals
  <2>2. Basis' = Basis
    <3>1. CASE AnalyzerSwap
      BY <2>1, <3>1 DEF AnalyzerSwap, swapStatBuffers, Basis
    <3>2. CASE AnalyzerRead
      BY <2>1, <3>2 DEF AnalyzerRead, Basis
    <3>3. CASE ~AnalyzerSwap /\ ~AnalyzerRead
      <4>1. /\ UNCHANGED <<oldStatBuffer, newStatBuffer>>
            /\ analyzerPc' \in HasPublished <=> analyzerPc \in HasPublished
        BY <1>3, <3>3 DEF AnalyzerThread, AnalyzerStart, AnalyzerTop,
           AnalyzerLockIn, AnalyzerCheckIn, AnalyzerTimeoutIn, AnalyzerWakeIn,
           AnalyzerDecideIn, AnalyzerUnlockIn, AnalyzerNotifyIn,
           AnalyzerLockOut, AnalyzerCheckOut, AnalyzerTimeoutOut,
           AnalyzerWakeOut, AnalyzerDecideOut, AnalyzerUnlockOut,
           AnalyzerNotifyOut, analyzerVars, analyzerLocals, HasPublished
      <4>2. QED
        BY <2>1, <4>1 DEF Basis, HasPublished
    <3>4. QED
      BY <3>1, <3>2, <3>3
  <2>3. Rests
    BY <2>1, <2>2 DEF Rests, Taken
  <2>4. QED
    BY <2>1, <2>3, RestFeeds
<1>4. QED
  BY <1>1, <1>2, <1>3

\* A read of the printer moves the oldest record of the buffer to where it is
\* about to be printed.
LEMMA ReadFeeds ==
  ASSUME TypeOK, RecordInv, FeedInv, PrinterRead, usageInfoCbuf # <<>>
  PROVE  UNCHANGED (Taken \o usageInfoCbuf)
<1>1. /\ printerPc = "read" /\ screen' = screen
      /\ printerBuffer' = Head(usageInfoCbuf) /\ usageInfoCbuf' = Tail(usageInfoCbuf)
  BY DEF PrinterRead
<1>2. printerBuffer = screen
  BY <1>1 DEF FeedInv, TakenIsPrinted
<1>3. /\ usageInfoCbuf \in Seq(Record) /\ Head(usageInfoCbuf) = usageInfoCbuf[1]
      /\ 1 \in 1 .. Len(usageInfoCbuf) /\ usageInfoCbuf[1] \in Record
      /\ printerBuffer \in Record
  BY FeedTypes, TailItems
<1>4. usageInfoCbuf[1] # screen
  <2>1. /\ printerBuffer[2] <= usageInfoCbuf[1][1]
        /\ usageInfoCbuf[1][1] < usageInfoCbuf[1][2]
    BY <1>3 DEF RecordInv, RecordsInOrder
  <2>2. QED
    BY <1>2, <1>3, <2>1 DEF Record
<1>5. Taken = <<>> /\ Taken' = <<Head(usageInfoCbuf)>>
  BY <1>1, <1>2, <1>3, <1>4 DEF Taken
<1>6. usageInfoCbuf = <<Head(usageInfoCbuf)>> \o Tail(usageInfoCbuf)
  <2>1. Len(usageInfoCbuf) \in 1 .. Len(usageInfoCbuf)
    BY <1>3
  <2>2. SubSeq(usageInfoCbuf, 1, Len(usageInfoCbuf)) = usageInfoCbuf
    BY <1>3, SubSeqFull
  <2>3. Tail(usageInfoCbuf) = SubSeq(usageInfoCbuf, 1 + 1, Len(usageInfoCbuf))
    BY <1>3, <2>1, <2>2, HeadTailOfSubSeq
  <2>4. QED
    BY <1>3, <2>1, <2>2, <2>3, SubSeqRecursiveFirst
<1>7. <<>> \o usageInfoCbuf = usageInfoCbuf
  BY <1>3, ConcatEmptySeq
<1>8. QED
  BY <1>1, <1>5, <1>6, <1>7

\* The printer shows the oldest record, or does nothing to them.
LEMMA PrinterFeeds ==
  ASSUME TypeOK, RecordInv, FeedInv, PrinterThread
  PROVE  [Feed!Next]_Feed!vars
<1>1. UNCHANGED <<loaded, analyzerPc, oldStatBuffer, newStatBuffer,
                  oldStatBufferInitialized>>
  BY DEF PrinterThread, PrinterStart, PrinterTop, PrinterLock, PrinterCheck,
     PrinterTimeout, PrinterWake, PrinterDecide, PrinterRead, PrinterUnlock,
     PrinterPrint, printerFrame, readerVars, readerLocals, analyzerVars,
     analyzerLocals
<1>2. Basis' = Basis
  BY <1>1 DEF Basis
<1>3. CASE PrinterRead /\ usageInfoCbuf # <<>>
  <2>1. screen' = screen
    BY <1>3 DEF PrinterRead
  <2>2. QED
    BY <1>1, <1>2, <1>3, <2>1, ReadFeeds DEF Feed!vars
<1>4. CASE PrinterPrint /\ printerBuffer # screen
  <2>1. screen' = printerBuffer /\ UNCHANGED <<usageInfoCbuf, printerBuffer>>
    BY <1>4 DEF PrinterPrint, usageInfoVars
  <2>2. Taken = <<printerBuffer>> /\ Taken' = <<>>
    BY <1>4, <2>1 DEF Taken
  <2>3. usageInfoCbuf \in Seq(Record) /\ printerBuffer \in Record
    BY FeedTypes
  <2>4. /\ Taken \o usageInfoCbuf # <<>> /\ Head(Taken \o usageInfoCbuf) = printerBuffer
        /\ Tail(Taken \o usageInfoCbuf) = usageInfoCbuf
    BY <2>2, <2>3, ConcatFirst
  <2>5. (Taken \o usageInfoCbuf)' = usageInfoCbuf
    <3>1. <<>> \o usageInfoCbuf = usageInfoCbuf
      BY <2>3, ConcatEmptySeq
    <3>2. QED
      BY <2>1, <2>2, <3>1
  <2>6. Feed!Show
    BY <1>1, <1>2, <2>1, <2>4, <2>5 DEF Feed!Show
  <2>7. QED
    BY <2>6 DEF Feed!Next
<1>5. CASE /\ ~(PrinterRead /\ usageInfoCbuf # <<>>)
           /\ ~(PrinterPrint /\ printerBuffer # screen)
  <2>1. UNCHANGED <<printerBuffer, usageInfoCbuf, screen>>
    BY <1>5 DEF PrinterThread, PrinterStart, PrinterTop, PrinterLock,
       PrinterCheck, PrinterTimeout, PrinterWake, PrinterDecide, PrinterRead,
       PrinterUnlock, PrinterPrint, usageInfoVars, printerVars, printerLocals
  <2>2. Rests
    BY <1>2, <2>1 DEF Rests, Taken
  <2>3. QED
    BY <1>1, <2>2, RestFeeds
<1>6. QED
  BY <1>3, <1>4, <1>5

\* The three threads together are one feed: records that join come to the screen
\* in their order, none is taken twice from the buffer, and one that is never
\* shown has given way to a buffer full of newer ones, for all capacities,
\* timeouts and overwrites.
THEOREM FeedRefinement == Spec => ImplementsFeed
<1>1. Init => Feed!Init
  <2>1. <<>> \o <<>> = <<>>
    OBVIOUS
  <2>2. QED
    BY <2>1 DEF Init, Feed!Init, Basis, Taken, Unset
<1>2. TypeOK /\ SampleInv /\ RecordInv /\ FeedInv /\ [Next]_vars =>
        [Feed!Next]_Feed!vars
  BY ReaderFeeds, AnalyzerFeeds, PrinterFeeds DEF Next, Terminated
<1>3. QED
  BY <1>1, <1>2, TypeCorrect, SampleInvariant, RecordInvariant, FeedInvariant, PTL
     DEF Spec, ImplementsFeed, Feed!Spec

=============================================================================
