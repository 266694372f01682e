------------------------------ MODULE Printer -------------------------------
(***************************************************************************)
(* PrinterThread of src/threads/printer.c: takes usage records from        *)
(* usageInfoCbuf and shows them.                                           *)
(***************************************************************************)
EXTENDS PipelineState

printerFrame == <<killSwitch, procStatVars, readerVars, analyzerVars>>

\* ThreadInfo_set or malloc may fail; the thread then ends.
PrinterStart == /\ printerPc = "start"
                /\ printerPc' \in {"top", "exited"}
                /\ UNCHANGED <<printerFrame, usageInfoVars, printerLocals>>

PrinterTop == /\ printerPc = "top"
              /\ printerPc' = IF killSwitch = "on" THEN "exited" ELSE "lock"
              /\ UNCHANGED <<printerFrame, usageInfoVars, printerLocals>>

\* Mutex_tryLockMs(inMtx): times out only while another thread holds it.
PrinterLock ==
  /\ printerPc = "lock"
  /\ \/ usageInfoMtx = "free" /\ usageInfoMtx' = "printer" /\ printerPc' = "check"
     \/ usageInfoMtx # "free" /\ printerPc' = "top" /\ UNCHANGED usageInfoMtx
  /\ UNCHANGED <<printerFrame, printerLocals, usageInfoNotEmptyCv,
                 usageInfoNotFullCv, usageInfoCbuf>>

\* The condition of the waiting loop, and the start of the wait.
PrinterCheck ==
  /\ printerPc = "check"
  /\ IF usageInfoCbuf = <<>> /\ killSwitch = "off"
       THEN /\ usageInfoMtx' = "free"
            /\ usageInfoNotEmptyCv' = "awaited"
            /\ printerPc' = "wait"
       ELSE /\ printerPc' = "decide"
            /\ UNCHANGED <<usageInfoMtx, usageInfoNotEmptyCv>>
  /\ UNCHANGED <<printerFrame, printerLocals, usageInfoNotFullCv, usageInfoCbuf>>

\* The wait ends without a notification: its time is over, or for no reason.
PrinterTimeout ==
  /\ printerPc = "wait" /\ usageInfoNotEmptyCv = "awaited"
  /\ usageInfoNotEmptyCv' = "quiet"
  /\ UNCHANGED <<printerFrame, printerVars, usageInfoMtx, usageInfoNotFullCv,
                 usageInfoCbuf>>

\* cnd_timedwait takes the mutex again and returns; success and timeout both
\* leave the loop, and the buffer is not looked at again.
PrinterWake ==
  /\ printerPc = "wait" /\ usageInfoNotEmptyCv = "quiet"
  /\ usageInfoMtx = "free"
  /\ usageInfoMtx' = "printer"
  /\ printerPc' = "decide"
  /\ UNCHANGED <<printerFrame, printerLocals, usageInfoNotEmptyCv,
                 usageInfoNotFullCv, usageInfoCbuf>>

PrinterDecide ==
  /\ printerPc = "decide"
  /\ IF killSwitch = "on" THEN usageInfoMtx' = "free" /\ printerPc' = "exited"
                          ELSE printerPc' = "read" /\ UNCHANGED usageInfoMtx
  /\ UNCHANGED <<printerFrame, printerLocals, usageInfoNotEmptyCv,
                 usageInfoNotFullCv, usageInfoCbuf>>

\* Sensitivity variant: the record stays in the buffer.
PrinterRead_peeks ==
  /\ printerPc = "read"
  /\ printerBuffer' = IF usageInfoCbuf # <<>> THEN Head(usageInfoCbuf) ELSE printerBuffer
  /\ printerPc' = "unlock"
  /\ UNCHANGED <<printerFrame, screen, usageInfoVars>>

\* CircularBuffer_read; when the buffer is empty the thread goes on with what
\* its own buffer held before.
PrinterRead ==
  /\ printerPc = "read"
  /\ IF usageInfoCbuf # <<>>
       THEN /\ printerBuffer' = Head(usageInfoCbuf)
            /\ usageInfoCbuf' = Tail(usageInfoCbuf)
       ELSE UNCHANGED <<printerBuffer, usageInfoCbuf>>
  /\ printerPc' = "unlock"
  /\ UNCHANGED <<printerFrame, screen, usageInfoMtx, usageInfoNotEmptyCv,
                 usageInfoNotFullCv>>

\* Nothing is signalled: inNotFullCv is not used in printer.c.
PrinterUnlock ==
  /\ printerPc = "unlock"
  /\ usageInfoMtx' = "free"
  /\ printerPc' = "print"
  /\ UNCHANGED <<printerFrame, printerLocals, usageInfoNotEmptyCv,
                 usageInfoNotFullCv, usageInfoCbuf>>

\* system("clear") and printFormattedCpuUsage.
PrinterPrint ==
  /\ printerPc = "print"
  /\ screen' = printerBuffer
  /\ printerPc' = "top"
  /\ UNCHANGED <<printerFrame, usageInfoVars, printerBuffer>>

PrinterThread == \/ PrinterStart \/ PrinterTop \/ PrinterLock \/ PrinterCheck
                 \/ PrinterTimeout \/ PrinterWake \/ PrinterDecide \/ PrinterRead
                 \/ PrinterUnlock \/ PrinterPrint
=============================================================================
