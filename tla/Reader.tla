------------------------------- MODULE Reader -------------------------------
(***************************************************************************)
(* ReaderThread of src/threads/reader.c: loads /proc/stat and writes the   *)
(* sample to procStatCbuf.  Log and Watchdog_reportActive never block it   *)
(* for long and change nothing here; they have modules of their own.       *)
(***************************************************************************)
EXTENDS PipelineState

readerFrame == <<killSwitch, usageInfoVars, analyzerVars, printerVars>>

\* ThreadInfo_set may fail; the thread then ends.
ReaderStart == /\ readerPc = "start"
               /\ readerPc' \in {"top", "exited"}
               /\ UNCHANGED <<readerFrame, procStatVars, readerLocals>>

\* Sensitivity variant: a loop without end.
ReaderTop_forever == /\ readerPc = "top"
                     /\ readerPc' = "load"
                     /\ UNCHANGED <<readerFrame, procStatVars, readerLocals>>

\* The condition of the outer loop.
ReaderTop == /\ readerPc = "top"
             /\ readerPc' = IF killSwitch = "on" THEN "exited" ELSE "load"
             /\ UNCHANGED <<readerFrame, procStatVars, readerLocals>>

\* ProcStat_loadFromFile returns a new object, or NULL: the next iteration
\* then tries again.
ReaderLoad ==
  /\ readerPc = "load"
  /\ \/ /\ loaded < MaxSamples
        /\ loaded' = loaded + 1
        /\ procStat' = loaded + 1
        /\ allocated' = allocated + 1
        /\ readerPc' = "lock"
     \/ /\ procStat' = 0
        /\ readerPc' = "top"
        /\ UNCHANGED <<loaded, allocated>>
  /\ UNCHANGED <<readerFrame, procStatVars>>

\* Mutex_tryLockMs(outMtx): times out only while another thread holds it.
ReaderLock ==
  /\ readerPc = "lock"
  /\ \/ procStatMtx = "free" /\ procStatMtx' = "reader" /\ readerPc' = "check"
     \/ procStatMtx # "free" /\ readerPc' = "top" /\ UNCHANGED procStatMtx
  /\ UNCHANGED <<readerFrame, readerLocals, procStatNotEmptyCv,
                 procStatNotFullCv, procStatCbuf>>

\* The condition of the waiting loop, and the start of the wait: cnd_timedwait
\* blocks and releases the mutex in one step.
ReaderCheck ==
  /\ readerPc = "check"
  /\ IF ~Room(procStatCbuf, ProcStatCapacity) /\ killSwitch = "off"
       THEN /\ procStatMtx' = "free"
            /\ procStatNotFullCv' = "awaited"
            /\ readerPc' = "wait"
       ELSE readerPc' = "decide" /\ UNCHANGED <<procStatMtx, procStatNotFullCv>>
  /\ UNCHANGED <<readerFrame, readerLocals, procStatNotEmptyCv, procStatCbuf>>

\* The wait ends without a notification: its time is over, or for no reason.
ReaderTimeout ==
  /\ readerPc = "wait" /\ procStatNotFullCv = "awaited"
  /\ procStatNotFullCv' = "quiet"
  /\ UNCHANGED <<readerFrame, readerVars, procStatMtx, procStatNotEmptyCv,
                 procStatCbuf>>

\* cnd_timedwait takes the mutex again and returns; success and timeout both
\* leave the loop, and the buffer is not looked at again.
ReaderWake ==
  /\ readerPc = "wait" /\ procStatNotFullCv = "quiet"
  /\ procStatMtx = "free"
  /\ procStatMtx' = "reader"
  /\ readerPc' = "decide"
  /\ UNCHANGED <<readerFrame, readerLocals, procStatNotEmptyCv,
                 procStatNotFullCv, procStatCbuf>>

\* The kill switch ends the thread, mutex released, sample not freed.
ReaderDecide ==
  /\ readerPc = "decide"
  /\ IF killSwitch = "on" THEN procStatMtx' = "free" /\ readerPc' = "exited"
                          ELSE readerPc' = "write" /\ UNCHANGED procStatMtx
  /\ UNCHANGED <<readerFrame, readerLocals, procStatNotEmptyCv,
                 procStatNotFullCv, procStatCbuf>>

\* Sensitivity variant: the write does not respect the capacity.
ReaderWrite_grows ==
  /\ readerPc = "write"
  /\ procStatCbuf' = Append(procStatCbuf, procStat)
  /\ readerPc' = "unlock"
  /\ UNCHANGED <<readerFrame, readerLocals, procStatMtx, procStatNotEmptyCv,
                 procStatNotFullCv>>

\* CircularBuffer_write.
ReaderWrite ==
  /\ readerPc = "write"
  /\ procStatCbuf' = Push(procStatCbuf, ProcStatCapacity, procStat)
  /\ readerPc' = "unlock"
  /\ UNCHANGED <<readerFrame, readerLocals, procStatMtx, procStatNotEmptyCv,
                 procStatNotFullCv>>

\* Sensitivity variant: the notification is forgotten.
ReaderUnlock_noNotify ==
  /\ readerPc = "unlock"
  /\ procStatMtx' = "free"
  /\ readerPc' = "free"
  /\ UNCHANGED <<readerFrame, readerLocals, procStatNotEmptyCv,
                 procStatNotFullCv, procStatCbuf>>

ReaderUnlock ==
  /\ readerPc = "unlock"
  /\ procStatMtx' = "free"
  /\ readerPc' = "notify"
  /\ UNCHANGED <<readerFrame, readerLocals, procStatNotEmptyCv,
                 procStatNotFullCv, procStatCbuf>>

ReaderNotify ==
  /\ readerPc = "notify"
  /\ procStatNotEmptyCv' = "quiet"
  /\ readerPc' = "free"
  /\ UNCHANGED <<readerFrame, readerLocals, procStatMtx, procStatNotFullCv,
                 procStatCbuf>>

\* ProcStat_destroy, and the sleep before the next iteration.
ReaderFree ==
  /\ readerPc = "free"
  /\ allocated' = allocated - 1
  /\ procStat' = 0
  /\ readerPc' = "top"
  /\ UNCHANGED <<readerFrame, procStatVars, loaded>>

ReaderThread == \/ ReaderStart \/ ReaderTop \/ ReaderLoad \/ ReaderLock
                \/ ReaderCheck \/ ReaderTimeout \/ ReaderWake \/ ReaderDecide
                \/ ReaderWrite \/ ReaderUnlock \/ ReaderNotify \/ ReaderFree
=============================================================================
