------------------------------ MODULE Analyzer ------------------------------
(***************************************************************************)
(* AnalyzerThread of src/threads/analyzer.c: takes samples from            *)
(* procStatCbuf, computes the usage between consecutive ones and writes it *)
(* to usageInfoCbuf.                                                       *)
(***************************************************************************)
EXTENDS PipelineState

analyzerFrame == <<killSwitch, readerVars, printerVars>>

\* ThreadInfo_set or one of the three mallocs may fail; the thread then ends.
AnalyzerStart == /\ analyzerPc = "start"
                 /\ analyzerPc' \in {"top", "exited"}
                 /\ UNCHANGED <<analyzerFrame, procStatVars, usageInfoVars,
                                analyzerLocals>>

AnalyzerTop == /\ analyzerPc = "top"
               /\ analyzerPc' = IF killSwitch = "on" THEN "exited" ELSE "lockIn"
               /\ UNCHANGED <<analyzerFrame, procStatVars, usageInfoVars,
                              analyzerLocals>>

-----------------------------------------------------------------------------
(* Taking a sample.                                                        *)

inFrame == <<analyzerFrame, usageInfoVars, procStatNotFullCv>>

\* Mutex_tryLockMs(inMtx): times out only while another thread holds it.
AnalyzerLockIn ==
  /\ analyzerPc = "lockIn"
  /\ \/ procStatMtx = "free" /\ procStatMtx' = "analyzer" /\ analyzerPc' = "checkIn"
     \/ procStatMtx # "free" /\ analyzerPc' = "top" /\ UNCHANGED procStatMtx
  /\ UNCHANGED <<inFrame, analyzerLocals, procStatNotEmptyCv, procStatCbuf>>

\* The condition of the waiting loop, and the start of the wait.
AnalyzerCheckIn ==
  /\ analyzerPc = "checkIn"
  /\ IF procStatCbuf = <<>> /\ killSwitch = "off"
       THEN /\ procStatMtx' = "free"
            /\ procStatNotEmptyCv' = "awaited"
            /\ analyzerPc' = "waitIn"
       ELSE /\ analyzerPc' = "decideIn"
            /\ UNCHANGED <<procStatMtx, procStatNotEmptyCv>>
  /\ UNCHANGED <<inFrame, analyzerLocals, procStatCbuf>>

\* The wait ends without a notification: its time is over, or for no reason.
AnalyzerTimeoutIn ==
  /\ analyzerPc = "waitIn" /\ procStatNotEmptyCv = "awaited"
  /\ procStatNotEmptyCv' = "quiet"
  /\ UNCHANGED <<inFrame, analyzerVars, procStatMtx, procStatCbuf>>

\* cnd_timedwait takes the mutex again and returns.
AnalyzerWakeIn ==
  /\ analyzerPc = "waitIn" /\ procStatNotEmptyCv = "quiet"
  /\ procStatMtx = "free"
  /\ procStatMtx' = "analyzer"
  /\ analyzerPc' = "decideIn"
  /\ UNCHANGED <<inFrame, analyzerLocals, procStatNotEmptyCv, procStatCbuf>>

\* Sensitivity variant: the thread leaves with the mutex locked.
AnalyzerDecideIn_keepsLock ==
  /\ analyzerPc = "decideIn"
  /\ analyzerPc' = IF killSwitch = "on" THEN "exited" ELSE "read"
  /\ UNCHANGED <<inFrame, analyzerLocals, procStatMtx, procStatNotEmptyCv,
                 procStatCbuf>>

AnalyzerDecideIn ==
  /\ analyzerPc = "decideIn"
  /\ IF killSwitch = "on" THEN procStatMtx' = "free" /\ analyzerPc' = "exited"
                          ELSE analyzerPc' = "read" /\ UNCHANGED procStatMtx
  /\ UNCHANGED <<inFrame, analyzerLocals, procStatNotEmptyCv, procStatCbuf>>

\* Sensitivity variant: the sample stays in the buffer.
AnalyzerRead_peeks ==
  /\ analyzerPc = "read"
  /\ IF procStatCbuf # <<>>
       THEN /\ newStatBuffer' = Head(procStatCbuf)
            /\ analyzerPc' = "unlockIn"
            /\ UNCHANGED <<procStatMtx, procStatCbuf>>
       ELSE /\ procStatMtx' = "free"
            /\ analyzerPc' = "top"
            /\ UNCHANGED <<newStatBuffer, procStatCbuf>>
  /\ UNCHANGED <<inFrame, oldStatBuffer, oldStatBufferInitialized,
                 usageInfoBuffer, published, procStatNotEmptyCv>>

\* CircularBuffer_read; an empty buffer ends the iteration, mutex released.
AnalyzerRead ==
  /\ analyzerPc = "read"
  /\ IF procStatCbuf # <<>>
       THEN /\ newStatBuffer' = Head(procStatCbuf)
            /\ procStatCbuf' = Tail(procStatCbuf)
            /\ analyzerPc' = "unlockIn"
            /\ UNCHANGED procStatMtx
       ELSE /\ procStatMtx' = "free"
            /\ analyzerPc' = "top"
            /\ UNCHANGED <<newStatBuffer, procStatCbuf>>
  /\ UNCHANGED <<inFrame, oldStatBuffer, oldStatBufferInitialized,
                 usageInfoBuffer, published, procStatNotEmptyCv>>

AnalyzerUnlockIn ==
  /\ analyzerPc = "unlockIn"
  /\ procStatMtx' = "free"
  /\ analyzerPc' = "notifyIn"
  /\ UNCHANGED <<inFrame, analyzerLocals, procStatNotEmptyCv, procStatCbuf>>

AnalyzerNotifyIn ==
  /\ analyzerPc = "notifyIn"
  /\ procStatNotFullCv' = "quiet"
  /\ analyzerPc' = "calculate"
  /\ UNCHANGED <<analyzerFrame, usageInfoVars, analyzerLocals, procStatMtx,
                 procStatNotEmptyCv, procStatCbuf>>

-----------------------------------------------------------------------------
\* The pointers to the old and the new sample are exchanged.
swapStatBuffers == /\ oldStatBuffer' = newStatBuffer
                   /\ newStatBuffer' = oldStatBuffer

\* The first sample is only kept; a later one gives a usage record
\* (CpuUsageInfo_calculate).
AnalyzerCalculate ==
  /\ analyzerPc = "calculate"
  /\ IF oldStatBufferInitialized = 0
       THEN /\ swapStatBuffers
            /\ oldStatBufferInitialized' = 1
            /\ analyzerPc' = "top"
            /\ UNCHANGED usageInfoBuffer
       ELSE /\ usageInfoBuffer' = <<oldStatBuffer, newStatBuffer>>
            /\ analyzerPc' = "lockOut"
            /\ UNCHANGED <<oldStatBuffer, newStatBuffer, oldStatBufferInitialized>>
  /\ UNCHANGED <<analyzerFrame, procStatVars, usageInfoVars, published>>

-----------------------------------------------------------------------------
(* Publishing a usage record.                                              *)

outFrame == <<analyzerFrame, procStatVars, usageInfoNotEmptyCv>>

\* Sensitivity variant: the sample is taken over although nothing was written.
AnalyzerLockOut_swaps ==
  /\ analyzerPc = "lockOut"
  /\ \/ /\ usageInfoMtx = "free" /\ usageInfoMtx' = "analyzer"
        /\ analyzerPc' = "checkOut"
     \/ usageInfoMtx # "free" /\ analyzerPc' = "swap" /\ UNCHANGED usageInfoMtx
  /\ UNCHANGED <<outFrame, analyzerLocals, usageInfoNotFullCv, usageInfoCbuf>>

\* Mutex_tryLockMs(outMtx): on a timeout the usage is dropped and the old
\* sample stays.
AnalyzerLockOut ==
  /\ analyzerPc = "lockOut"
  /\ \/ /\ usageInfoMtx = "free" /\ usageInfoMtx' = "analyzer"
        /\ analyzerPc' = "checkOut"
     \/ usageInfoMtx # "free" /\ analyzerPc' = "top" /\ UNCHANGED usageInfoMtx
  /\ UNCHANGED <<outFrame, analyzerLocals, usageInfoNotFullCv, usageInfoCbuf>>

AnalyzerCheckOut ==
  /\ analyzerPc = "checkOut"
  /\ IF ~Room(usageInfoCbuf, UsageInfoCapacity) /\ killSwitch = "off"
       THEN /\ usageInfoMtx' = "free"
            /\ usageInfoNotFullCv' = "awaited"
            /\ analyzerPc' = "waitOut"
       ELSE /\ analyzerPc' = "decideOut"
            /\ UNCHANGED <<usageInfoMtx, usageInfoNotFullCv>>
  /\ UNCHANGED <<outFrame, analyzerLocals, usageInfoCbuf>>

AnalyzerTimeoutOut ==
  /\ analyzerPc = "waitOut" /\ usageInfoNotFullCv = "awaited"
  /\ usageInfoNotFullCv' = "quiet"
  /\ UNCHANGED <<outFrame, analyzerVars, usageInfoMtx, usageInfoCbuf>>

AnalyzerWakeOut ==
  /\ analyzerPc = "waitOut" /\ usageInfoNotFullCv = "quiet"
  /\ usageInfoMtx = "free"
  /\ usageInfoMtx' = "analyzer"
  /\ analyzerPc' = "decideOut"
  /\ UNCHANGED <<outFrame, analyzerLocals, usageInfoNotFullCv, usageInfoCbuf>>

AnalyzerDecideOut ==
  /\ analyzerPc = "decideOut"
  /\ IF killSwitch = "on" THEN usageInfoMtx' = "free" /\ analyzerPc' = "exited"
                          ELSE analyzerPc' = "write" /\ UNCHANGED usageInfoMtx
  /\ UNCHANGED <<outFrame, analyzerLocals, usageInfoNotFullCv, usageInfoCbuf>>

AnalyzerWrite ==
  /\ analyzerPc = "write"
  /\ usageInfoCbuf' = Push(usageInfoCbuf, UsageInfoCapacity, usageInfoBuffer)
  /\ published' = usageInfoBuffer
  /\ analyzerPc' = "unlockOut"
  /\ UNCHANGED <<outFrame, oldStatBuffer, newStatBuffer,
                 oldStatBufferInitialized, usageInfoBuffer, usageInfoMtx,
                 usageInfoNotFullCv>>

AnalyzerUnlockOut ==
  /\ analyzerPc = "unlockOut"
  /\ usageInfoMtx' = "free"
  /\ analyzerPc' = "notifyOut"
  /\ UNCHANGED <<outFrame, analyzerLocals, usageInfoNotFullCv, usageInfoCbuf>>

AnalyzerNotifyOut ==
  /\ analyzerPc = "notifyOut"
  /\ usageInfoNotEmptyCv' = "quiet"
  /\ analyzerPc' = "swap"
  /\ UNCHANGED <<analyzerFrame, procStatVars, analyzerLocals, usageInfoMtx,
                 usageInfoNotFullCv, usageInfoCbuf>>

\* Sensitivity variant: the samples are not exchanged after a write.
AnalyzerSwap_forgotten ==
  /\ analyzerPc = "swap"
  /\ analyzerPc' = "top"
  /\ UNCHANGED <<analyzerFrame, procStatVars, usageInfoVars, analyzerLocals>>

AnalyzerSwap ==
  /\ analyzerPc = "swap"
  /\ swapStatBuffers
  /\ analyzerPc' = "top"
  /\ UNCHANGED <<analyzerFrame, procStatVars, usageInfoVars,
                 oldStatBufferInitialized, usageInfoBuffer, published>>

AnalyzerThread ==
  \/ AnalyzerStart \/ AnalyzerTop
  \/ AnalyzerLockIn \/ AnalyzerCheckIn \/ AnalyzerTimeoutIn \/ AnalyzerWakeIn
  \/ AnalyzerDecideIn \/ AnalyzerRead \/ AnalyzerUnlockIn \/ AnalyzerNotifyIn
  \/ AnalyzerCalculate
  \/ AnalyzerLockOut \/ AnalyzerCheckOut \/ AnalyzerTimeoutOut \/ AnalyzerWakeOut
  \/ AnalyzerDecideOut \/ AnalyzerWrite \/ AnalyzerUnlockOut \/ AnalyzerNotifyOut
  \/ AnalyzerSwap
=============================================================================
