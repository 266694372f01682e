------------------------------- MODULE Logger -------------------------------
(***************************************************************************)
(* src/threads/logger.c: the other threads put messages into g_inBuf by    *)
(* Log, LoggerThread exchanges the two buffers and writes the messages to  *)
(* the log file.  A message is the number of the write that put it into    *)
(* g_inBuf.                                                                *)
(*                                                                         *)
(* The test of Mutex_tryLockMs at line 214 is inverted: after a successful *)
(* lock the loop just goes round, and the next attempt runs into a timeout *)
(* because the thread already holds the mutex.  A timeout enters the block *)
(* that exchanges the buffers, whoever holds the mutex.  glibc lets a      *)
(* thread release a mutex that another one holds; this model does too.     *)
(*                                                                         *)
(* Without LogIsPrompt the logger may be in that block while a client      *)
(* holds the mutex.  Its test of the buffer and the start of its wait are  *)
(* steps of their own for that reason.  An access to a buffer is one step  *)
(* all the same, although two that overlap have no defined result: what is *)
(* said here of the buffers and the file needs LogIsPrompt.                *)
(***************************************************************************)
EXTENDS Integers, Sequences, QueueOps

LOCAL INSTANCE SequencesExt

CONSTANTS Client,           \* the threads that call Log
          BufferItemCount,  \* LOGGER_MESSAGE_BUFFER_ITEM_COUNT
          MaxMessages,      \* bound: the messages that clients put into the buffer
          LogIsPrompt       \* Log never holds the mutex for as long as
                            \* LOGGER_MUTEX_WAIT_TIME_MS

ASSUME LoggerAssumption == /\ BufferItemCount \in Nat \ {0}
                           /\ MaxMessages \in Nat
                           /\ LogIsPrompt \in BOOLEAN
                           /\ Client \cap {"free", "logger"} = {}

VARIABLES
  killSwitch,
  inMtx,          \* g_inMtx: "free" or its holder
  inNotEmptyCv,   \* g_inNotEmptyCv: "awaited" by the logger or "quiet"
  inBuf,          \* what g_inBuf points to
  secondaryBuf,   \* what g_secondaryBuf points to
  file,           \* the messages in the log file
  clientPc,
  sent,           \* how many messages were put into g_inBuf
  loggerPc,
  sentAtExit      \* history: sent when the logger left its loop

clientVars == <<clientPc, sent>>
loggerVars == <<loggerPc, sentAtExit>>
bufferVars == <<inBuf, secondaryBuf, file>>
vars == <<killSwitch, inMtx, inNotEmptyCv, bufferVars, clientVars, loggerVars>>

\* Logger_init succeeded and the threads were created.
Init == /\ killSwitch = "off"
        /\ inMtx = "free" /\ inNotEmptyCv = "quiet"
        /\ inBuf = <<>> /\ secondaryBuf = <<>> /\ file = <<>>
        /\ clientPc = [c \in Client |-> "idle"] /\ sent = 0
        /\ loggerPc = "start" /\ sentAtExit = 0

Thread_activateKillSwitch ==
  /\ killSwitch = "off"
  /\ killSwitch' = "on"
  /\ UNCHANGED <<inMtx, inNotEmptyCv, bufferVars, clientVars, loggerVars>>

\* An attempt to lock the mutex times out, seen from a thread that waits.
LockTimesOut == inMtx = "logger" \/ (inMtx # "free" /\ ~LogIsPrompt)

-----------------------------------------------------------------------------
(* Log, called by client c with a message of an enabled level.             *)

MoveClient(c, from, to) == /\ clientPc[c] = from
                           /\ clientPc' = [clientPc EXCEPT ![c] = to]

\* Sensitivity variant: the message is written even after a timeout.
LogLock_ignoresTimeout(c) ==
  /\ sent < MaxMessages
  /\ IF inMtx = "free" THEN inMtx' = c ELSE LockTimesOut /\ UNCHANGED inMtx
  /\ MoveClient(c, "idle", "write")
  /\ UNCHANGED <<killSwitch, inNotEmptyCv, bufferVars, sent, loggerVars>>

LogLock(c) ==
  /\ sent < MaxMessages
  /\ \/ /\ inMtx = "free" /\ inMtx' = c
        /\ MoveClient(c, "idle", "write")
     \/ /\ LockTimesOut /\ UNCHANGED inMtx
        /\ MoveClient(c, "idle", "idle")
  /\ UNCHANGED <<killSwitch, inNotEmptyCv, bufferVars, sent, loggerVars>>

\* Sensitivity variant: a full buffer grows.
LogWrite_grows(c) ==
  /\ MoveClient(c, "write", "unlock")
  /\ inBuf' = Append(inBuf, sent + 1)
  /\ sent' = sent + 1
  /\ UNCHANGED <<killSwitch, inMtx, inNotEmptyCv, secondaryBuf, file, loggerVars>>

LogWrite(c) ==
  /\ MoveClient(c, "write", "unlock")
  /\ inBuf' = Push(inBuf, BufferItemCount, sent + 1)
  /\ sent' = sent + 1
  /\ UNCHANGED <<killSwitch, inMtx, inNotEmptyCv, secondaryBuf, file, loggerVars>>

\* Sensitivity variant: the logger is not notified.
LogUnlock_noNotify(c) ==
  /\ MoveClient(c, "unlock", "idle")
  /\ inMtx' = "free"
  /\ UNCHANGED <<killSwitch, inNotEmptyCv, bufferVars, sent, loggerVars>>

LogUnlock(c) ==
  /\ MoveClient(c, "unlock", "notify")
  /\ inMtx' = "free"
  /\ UNCHANGED <<killSwitch, inNotEmptyCv, bufferVars, sent, loggerVars>>

LogNotify(c) ==
  /\ MoveClient(c, "notify", "idle")
  /\ inNotEmptyCv' = "quiet"
  /\ UNCHANGED <<killSwitch, inMtx, bufferVars, sent, loggerVars>>

LogFinish(c) == LogWrite(c) \/ LogUnlock(c) \/ LogNotify(c)

-----------------------------------------------------------------------------
(* The loop of LoggerThread.                                               *)

MoveLogger(from, to) == loggerPc = from /\ loggerPc' = to

loggerFrame == <<killSwitch, clientVars>>

\* ThreadInfo_set or fopen may fail; the thread then ends.
LoggerStart == /\ MoveLogger("start", "top") \/ MoveLogger("start", "exited")
               /\ UNCHANGED <<loggerFrame, inMtx, inNotEmptyCv, bufferVars, sentAtExit>>

LoggerTop ==
  /\ IF killSwitch = "on" THEN MoveLogger("top", "final") /\ sentAtExit' = sent
                          ELSE MoveLogger("top", "lock") /\ UNCHANGED sentAtExit
  /\ UNCHANGED <<loggerFrame, inMtx, inNotEmptyCv, bufferVars>>

\* Success goes back to the top with the mutex held, failure goes on.
LoggerLock ==
  /\ \/ inMtx = "free" /\ inMtx' = "logger" /\ MoveLogger("lock", "top")
     \/ LockTimesOut /\ UNCHANGED inMtx /\ MoveLogger("lock", "check")
  /\ UNCHANGED <<loggerFrame, inNotEmptyCv, bufferVars, sentAtExit>>

\* The condition of the waiting loop.
LoggerCheck ==
  /\ IF inBuf = <<>> /\ killSwitch = "off" THEN MoveLogger("check", "block")
                                            ELSE MoveLogger("check", "decide")
  /\ UNCHANGED <<loggerFrame, inMtx, inNotEmptyCv, bufferVars, sentAtExit>>

\* cnd_timedwait releases the mutex, whoever holds it, and blocks.
LoggerWait ==
  /\ MoveLogger("block", "wait")
  /\ inMtx' = "free"
  /\ inNotEmptyCv' = "awaited"
  /\ UNCHANGED <<loggerFrame, bufferVars, sentAtExit>>

LoggerTimeout ==
  /\ loggerPc = "wait" /\ inNotEmptyCv = "awaited"
  /\ inNotEmptyCv' = "quiet"
  /\ UNCHANGED <<loggerFrame, inMtx, bufferVars, loggerVars>>

\* The wait takes the mutex and returns.  The message that the thread then
\* logs itself is lost: it waits for the mutex it holds, and gives up.
LoggerWake ==
  /\ inNotEmptyCv = "quiet" /\ inMtx = "free"
  /\ inMtx' = "logger"
  /\ MoveLogger("wait", "decide")
  /\ UNCHANGED <<loggerFrame, inNotEmptyCv, bufferVars, sentAtExit>>

\* The kill switch leaves the loop with the mutex released.
LoggerDecide ==
  /\ IF killSwitch = "on"
       THEN MoveLogger("decide", "final") /\ inMtx' = "free" /\ sentAtExit' = sent
       ELSE MoveLogger("decide", "swap") /\ UNCHANGED <<inMtx, sentAtExit>>
  /\ UNCHANGED <<loggerFrame, inNotEmptyCv, bufferVars>>

swapBuffers == inBuf' = secondaryBuf /\ secondaryBuf' = inBuf

LoggerSwap ==
  /\ MoveLogger("swap", "unlock")
  /\ swapBuffers
  /\ UNCHANGED <<loggerFrame, inMtx, inNotEmptyCv, file, sentAtExit>>

\* Sensitivity variant: the exchanged buffer is not written to the file.
LoggerUnlock_noDrain ==
  /\ MoveLogger("unlock", "top")
  /\ inMtx' = "free"
  /\ UNCHANGED <<loggerFrame, inNotEmptyCv, bufferVars, sentAtExit>>

LoggerUnlock ==
  /\ MoveLogger("unlock", "drain")
  /\ inMtx' = "free"
  /\ UNCHANGED <<loggerFrame, inNotEmptyCv, bufferVars, sentAtExit>>

\* Sensitivity variant: both buffers are emptied.
drainSecondary_both == /\ file' = file \o secondaryBuf
                       /\ secondaryBuf' = <<>> /\ inBuf' = <<>>

\* logAllFromCbuf(fp, g_secondaryBuf), which only this thread uses.
drainSecondary == /\ file' = file \o secondaryBuf
                  /\ secondaryBuf' = <<>>
                  /\ UNCHANGED inBuf

\* Sensitivity variant: the buffer is copied but not emptied.
LoggerDrain_keeps ==
  /\ MoveLogger("drain", "top")
  /\ file' = file \o secondaryBuf
  /\ UNCHANGED <<loggerFrame, inMtx, inNotEmptyCv, inBuf, secondaryBuf, sentAtExit>>

LoggerDrain ==
  /\ MoveLogger("drain", "top")
  /\ drainSecondary
  /\ UNCHANGED <<loggerFrame, inMtx, inNotEmptyCv, sentAtExit>>

-----------------------------------------------------------------------------
(* The end of LoggerThread.                                                *)

\* Sensitivity variant: the last attempt is repeated until it succeeds.
LoggerFinal_retries ==
  /\ \/ /\ inMtx = "free" /\ inMtx' = "logger"
        /\ MoveLogger("final", "drainIn")
        /\ swapBuffers
     \/ /\ inMtx # "free"
        /\ MoveLogger("final", "final")
        /\ UNCHANGED <<inMtx, inBuf, secondaryBuf>>
  /\ UNCHANGED <<loggerFrame, inNotEmptyCv, file, sentAtExit>>

\* Mutex_tryLockMs with no time to wait: a held mutex ends the thread, even
\* when it is the thread itself that holds it.
LoggerFinal ==
  /\ \/ /\ inMtx = "free" /\ inMtx' = "logger"
        /\ MoveLogger("final", "drainIn")
        /\ swapBuffers
     \/ /\ inMtx # "free"
        /\ MoveLogger("final", "complain")
        /\ UNCHANGED <<inMtx, inBuf, secondaryBuf>>
  /\ UNCHANGED <<loggerFrame, inNotEmptyCv, file, sentAtExit>>

\* logAllFromCbuf(fp, g_inBuf), with the mutex held.
LoggerDrainIn ==
  /\ MoveLogger("drainIn", "finalUnlock")
  /\ file' = file \o inBuf
  /\ inBuf' = <<>>
  /\ UNCHANGED <<loggerFrame, inMtx, inNotEmptyCv, secondaryBuf, sentAtExit>>

LoggerFinalUnlock ==
  /\ MoveLogger("finalUnlock", "drainOut")
  /\ inMtx' = "free"
  /\ UNCHANGED <<loggerFrame, inNotEmptyCv, bufferVars, sentAtExit>>

LoggerDrainOut ==
  /\ MoveLogger("drainOut", "farewell")
  /\ drainSecondary
  /\ UNCHANGED <<loggerFrame, inMtx, inNotEmptyCv, sentAtExit>>

\* The thread calls Log itself: no one is left to write such a message to
\* the file.  The call waits for a client, and is in vain while the thread
\* holds the mutex itself.
LoggerLogs(from, to) ==
  /\ \/ /\ inMtx = "free"
        /\ inBuf' = Push(inBuf, BufferItemCount, sent + 1)
        /\ sent' = sent + 1
     \/ LockTimesOut /\ UNCHANGED <<inBuf, sent>>
  /\ MoveLogger(from, to)
  /\ UNCHANGED <<killSwitch, inMtx, inNotEmptyCv, secondaryBuf, file, clientPc, sentAtExit>>

LoggerComplain == LoggerLogs("complain", "farewell")

LoggerFarewell == LoggerLogs("farewell", "exited")

LoggerThread == \/ LoggerStart \/ LoggerTop \/ LoggerLock \/ LoggerCheck
                \/ LoggerWait \/ LoggerTimeout \/ LoggerWake \/ LoggerDecide \/ LoggerSwap
                \/ LoggerUnlock \/ LoggerDrain \/ LoggerFinal \/ LoggerDrainIn
                \/ LoggerFinalUnlock \/ LoggerDrainOut
                \/ LoggerComplain \/ LoggerFarewell

Terminated == /\ loggerPc = "exited"
              /\ \A c \in Client : clientPc[c] = "idle"
              /\ UNCHANGED vars

Next == \/ Thread_activateKillSwitch
        \/ \E c \in Client : LogLock(c) \/ LogFinish(c)
        \/ LoggerThread
        \/ Terminated

Spec == Init /\ [][Next]_vars

\* Every thread that can run does, a started Log is finished, and the clients
\* do not keep the logger from the mutex for ever: it is free most of the
\* time.
FairSpec == /\ Spec
            /\ \A c \in Client : WF_vars(LogFinish(c))
            /\ WF_vars(LoggerThread)
            /\ SF_vars(LoggerLock)
            /\ SF_vars(LoggerWake)
            /\ SF_vars(LoggerComplain)
            /\ SF_vars(LoggerFarewell)

-----------------------------------------------------------------------------
LoggerHolds == {"check", "block", "decide", "swap", "unlock", "drainIn", "finalUnlock"}

LoggerPcs == LoggerHolds \cup {"start", "top", "lock", "wait", "drain", "final",
                               "drainOut", "complain", "farewell", "exited"}

TypeOK == /\ killSwitch \in {"off", "on"}
          /\ inMtx \in Client \cup {"free", "logger"}
          /\ inNotEmptyCv \in {"quiet", "awaited"}
          /\ inBuf \in Seq(Nat) /\ Len(inBuf) <= BufferItemCount
          /\ secondaryBuf \in Seq(Nat) /\ Len(secondaryBuf) <= BufferItemCount
          /\ file \in Seq(Nat)
          /\ clientPc \in [Client -> {"idle", "write", "unlock", "notify"}]
          /\ sent \in Nat /\ sentAtExit \in Nat
          /\ loggerPc \in LoggerPcs

\* As long as Log is prompt, the inverted test does no harm to the buffers:
\* the logger exchanges and reads them only with the mutex held, and no client
\* writes at that time.
BuffersGuarded ==
  /\ loggerPc \in LoggerHolds => inMtx = "logger"
  /\ \A c \in Client : clientPc[c] \in {"write", "unlock"} => inMtx = c

\* The file holds messages in the order in which they were logged, none
\* twice: exchanging and draining the buffers never reorders or repeats one.
FileInOrder ==
  \A i \in 1 .. Len(file) - 1 : file[i] < file[i + 1]

\* The two buffers together are one log: exchanging them loses and repeats no
\* message, and whatever is not written has given way to a whole buffer of newer
\* messages.
Messages == INSTANCE MessageLog WITH Capacity <- BufferItemCount, logged <- sent,
                                     pending <- secondaryBuf \o inBuf, written <- file
ImplementsLog == Messages!Spec

\* As long as Log is prompt, the logger does not sleep beside a message without
\* a notification coming: no client writes between its test and its wait.
NoMissedWakeup ==
  inNotEmptyCv = "awaited" /\ inBuf # <<>> =>
    \E c \in Client : clientPc[c] \in {"unlock", "notify"}

\* Every message gets into the file, or out of both buffers because as many
\* newer ones were logged as a buffer holds, unless the program is told to stop
\* first or the logger could not start.
MessagesAreTaken ==
  \A n \in 1 .. MaxMessages :
    n <= sent ~> \/ Contains(file, n)
                 \/ ~Contains(secondaryBuf \o inBuf, n) /\ sent >= n + BufferItemCount
                 \/ killSwitch = "on" \/ loggerPc = "exited"

\* The kill switch ends the logger, also from its wait.
KillEndsLogger == killSwitch = "on" ~> loggerPc = "exited"

-----------------------------------------------------------------------------
(* What comments say and the code does not do.                             *)

\* "Log any remaining messages before exiting - from both buffers." (logger.c)
RemainingAreLogged ==
  loggerPc = "exited" =>
    \A i \in 1 .. Len(inBuf) : inBuf[i] > sentAtExit
=============================================================================
