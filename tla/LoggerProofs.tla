---------------------------- MODULE LoggerProofs ----------------------------
(***************************************************************************)
(* Proofs about Logger, for any set of clients, every buffer size and any  *)
(* number of messages: the types and, as long as Log is prompt, the mutual *)
(* exclusion on the buffers, the wakeup of the logger, the order of the    *)
(* file, and that logger.c implements the abstract log.                    *)
(***************************************************************************)
EXTENDS Logger, SequenceTheorems, TLAPS

\* The inductive strengthening of NoMissedWakeup: the condition variable is
\* awaited only by a logger that is in its wait, and what the logger saw of the
\* buffer is still true when it begins to wait.
WakeInv == /\ inNotEmptyCv = "awaited" => loggerPc = "wait"
           /\ loggerPc = "block" => inBuf = <<>>
           /\ NoMissedWakeup

\* The numbers in s increase.
Increasing(s) == \A i, j \in 1 .. Len(s) : i < j => s[i] < s[j]

\* All numbers in s are smaller than all numbers in t.
Before(s, t) == \A i \in 1 .. Len(s), j \in 1 .. Len(t) : s[i] < t[j]

\* All numbers in s are at most n.
UpTo(s, n) == \A i \in 1 .. Len(s) : s[i] <= n

\* The three places a message passes through are in order.
OrderedData == /\ Increasing(file) /\ Increasing(secondaryBuf) /\ Increasing(inBuf)
               /\ Before(file, secondaryBuf)
               /\ Before(file, inBuf)
               /\ Before(secondaryBuf, inBuf)
               /\ UpTo(file, sent) /\ UpTo(secondaryBuf, sent) /\ UpTo(inBuf, sent)

\* Between its exchange and its draining the logger has messages in the
\* secondary buffer, at all other times it is empty; and the buffer that the
\* last exchange puts in front is still empty when it is drained.
EmptyBuffers ==
  /\ loggerPc \notin {"unlock", "drain", "drainIn", "finalUnlock", "drainOut"}
       => secondaryBuf = <<>>
  /\ loggerPc = "drainIn" => inBuf = <<>>

\* The inductive strengthening of FileInOrder.
OrderInv == OrderedData /\ EmptyBuffers

-----------------------------------------------------------------------------
(* Sequences.                                                              *)

\* A write keeps the type and the capacity.
LEMMA PushType ==
  ASSUME NEW S, NEW q \in Seq(S), NEW cap \in Nat \ {0}, Len(q) <= cap,
         NEW x \in S
  PROVE  Push(q, cap, x) \in Seq(S) /\ Len(Push(q, cap, x)) <= cap
  BY DEF Push

\* An item after a write is an item from before, in the same order, or the
\* new one, at the end.
LEMMA PushItems ==
  ASSUME NEW q \in Seq(Nat), NEW cap \in Nat \ {0}, Len(q) <= cap, NEW x \in Nat
  PROVE  \E d \in {0, 1} :
           /\ Len(Push(q, cap, x)) = Len(q) + 1 - d
           /\ Push(q, cap, x)[Len(q) + 1 - d] = x
           /\ \A i \in 1 .. Len(q) - d :
                i + d \in 1 .. Len(q) /\ Push(q, cap, x)[i] = q[i + d]
<1>1. CASE Len(q) < cap
  <2>1. Push(q, cap, x) = Append(q, x)
    BY <1>1 DEF Push
  <2>2. /\ Len(Append(q, x)) = Len(q) + 1
        /\ Append(q, x)[Len(q) + 1] = x
        /\ \A i \in 1 .. Len(q) : Append(q, x)[i] = q[i]
    OBVIOUS
  <2>3. /\ Len(Push(q, cap, x)) = Len(q) + 1 - 0
        /\ Push(q, cap, x)[Len(q) + 1 - 0] = x
        /\ \A i \in 1 .. Len(q) - 0 :
             i + 0 \in 1 .. Len(q) /\ Push(q, cap, x)[i] = q[i + 0]
    BY <2>1, <2>2
  <2>4. QED
    BY <2>3
<1>2. CASE Len(q) = cap
  <2>1. Push(q, cap, x) = Append(Tail(q), x)
    BY <1>2 DEF Push
  <2>2. q # <<>>
    BY <1>2
  <2>3. /\ Tail(q) \in Seq(Nat) /\ Len(Tail(q)) = Len(q) - 1
        /\ \A i \in 1 .. Len(Tail(q)) : Tail(q)[i] = q[i + 1]
    BY <2>2
  <2>4. /\ Len(Append(Tail(q), x)) = Len(q) - 1 + 1
        /\ Append(Tail(q), x)[Len(q) - 1 + 1] = x
        /\ \A i \in 1 .. Len(q) - 1 : Append(Tail(q), x)[i] = Tail(q)[i]
    BY <2>3
  <2>5. /\ Len(Push(q, cap, x)) = Len(q) + 1 - 1
        /\ Push(q, cap, x)[Len(q) + 1 - 1] = x
        /\ \A i \in 1 .. Len(q) - 1 :
             i + 1 \in 1 .. Len(q) /\ Push(q, cap, x)[i] = q[i + 1]
    BY <2>1, <2>3, <2>4
  <2>6. QED
    BY <2>5
<1>3. QED
  BY <1>1, <1>2

\* Adding a number greater than all others keeps the order.
LEMMA PushOrder ==
  ASSUME NEW q \in Seq(Nat), NEW cap \in Nat \ {0}, Len(q) <= cap,
         NEW n \in Nat, Increasing(q), UpTo(q, n),
         NEW s \in Seq(Nat), UpTo(s, n), Before(s, q)
  PROVE  /\ Increasing(Push(q, cap, n + 1))
         /\ UpTo(Push(q, cap, n + 1), n + 1)
         /\ Before(s, Push(q, cap, n + 1))
<1>0. n + 1 \in Nat
  OBVIOUS
<1>p. PICK p \in Seq(Nat) : p = Push(q, cap, n + 1)
  BY <1>0, PushType
<1>1. PICK d \in {0, 1} :
        /\ Len(p) = Len(q) + 1 - d
        /\ p[Len(q) + 1 - d] = n + 1
        /\ \A i \in 1 .. Len(q) - d : i + d \in 1 .. Len(q) /\ p[i] = q[i + d]
  <2>1. \E d \in {0, 1} :
          /\ Len(Push(q, cap, n + 1)) = Len(q) + 1 - d
          /\ Push(q, cap, n + 1)[Len(q) + 1 - d] = n + 1
          /\ \A i \in 1 .. Len(q) - d :
               i + d \in 1 .. Len(q) /\ Push(q, cap, n + 1)[i] = q[i + d]
    BY <1>0, PushItems
  <2>2. QED
    BY <2>1, <1>p
<1>2. \A i \in 1 .. Len(p) : i = Len(p) \/ i \in 1 .. Len(q) - d
  <2>1. Len(p) = Len(q) + 1 - d /\ Len(q) \in Nat /\ d \in Nat
    BY <1>1
  <2>2. QED
    BY <2>1
<1>3. UpTo(p, n + 1)
  <2> SUFFICES ASSUME NEW i \in 1 .. Len(p) PROVE p[i] <= n + 1
    BY DEF UpTo
  <2>1. CASE i = Len(p)
    BY <1>1, <2>1
  <2>2. CASE i \in 1 .. Len(q) - d
    <3>1. i + d \in 1 .. Len(q) /\ p[i] = q[i + d]
      BY <1>1, <2>2
    <3>2. q[i + d] <= n /\ q[i + d] \in Nat
      BY <3>1 DEF UpTo
    <3>3. QED
      BY <3>1, <3>2
  <2>3. QED
    BY <1>2, <2>1, <2>2
<1>4. Increasing(p)
  <2> SUFFICES ASSUME NEW i \in 1 .. Len(p), NEW j \in 1 .. Len(p), i < j
               PROVE  p[i] < p[j]
    BY DEF Increasing
  <2>1. i \in 1 .. Len(q) - d
    BY <1>1, <1>2
  <2>2. i + d \in 1 .. Len(q) /\ p[i] = q[i + d]
    BY <1>1, <2>1
  <2>3. CASE j = Len(p)
    BY <1>1, <2>2, <2>3 DEF UpTo
  <2>4. CASE j \in 1 .. Len(q) - d
    BY <1>1, <2>2, <2>4 DEF Increasing
  <2>5. QED
    BY <1>2, <2>3, <2>4
<1>5. Before(s, p)
  <2> SUFFICES ASSUME NEW i \in 1 .. Len(s), NEW j \in 1 .. Len(p)
               PROVE  s[i] < p[j]
    BY DEF Before
  <2>1. CASE j = Len(p)
    BY <1>1, <2>1 DEF UpTo
  <2>2. CASE j \in 1 .. Len(q) - d
    BY <1>1, <2>2 DEF Before
  <2>3. QED
    BY <1>2, <2>1, <2>2
<1>6. QED
  BY <1>p, <1>3, <1>4, <1>5

\* Appending a sequence of greater numbers keeps the order.
LEMMA ConcatOrder ==
  ASSUME NEW s \in Seq(Nat), NEW t \in Seq(Nat), NEW u \in Seq(Nat), NEW n \in Nat,
         Increasing(s), Increasing(t), Before(s, t),
         Before(s, u), Before(t, u), UpTo(s, n), UpTo(t, n)
  PROVE  /\ s \o t \in Seq(Nat)
         /\ Increasing(s \o t)
         /\ Before(s \o t, u)
         /\ UpTo(s \o t, n)
<1>0. s \o t \in Seq(Nat)
  OBVIOUS
<1>1. PICK c \in Seq(Nat) : c = s \o t
  BY <1>0, Zenon
<1>2. /\ Len(c) = Len(s) + Len(t)
      /\ \A i \in 1 .. Len(s) : c[i] = s[i]
      /\ \A i \in 1 .. Len(t) : c[Len(s) + i] = t[i]
  BY <1>1
<1>3. \A i \in 1 .. Len(c) :
        \/ i \in 1 .. Len(s) /\ c[i] = s[i]
        \/ i - Len(s) \in 1 .. Len(t) /\ c[i] = t[i - Len(s)]
  <2> SUFFICES ASSUME NEW i \in 1 .. Len(c), i \notin 1 .. Len(s)
               PROVE  i - Len(s) \in 1 .. Len(t) /\ c[i] = t[i - Len(s)]
    BY <1>2
  <2>1. i - Len(s) \in 1 .. Len(t) /\ Len(s) + (i - Len(s)) = i
    BY <1>2
  <2>2. QED
    BY <1>2, <2>1
<1>4. Increasing(c)
  <2> SUFFICES ASSUME NEW i \in 1 .. Len(c), NEW j \in 1 .. Len(c), i < j
               PROVE  c[i] < c[j]
    BY DEF Increasing
  <2>1. CASE j \in 1 .. Len(s)
    <3>1. i \in 1 .. Len(s)
      BY <2>1
    <3>2. QED
      BY <1>2, <2>1, <3>1 DEF Increasing
  <2>2. CASE j - Len(s) \in 1 .. Len(t) /\ c[j] = t[j - Len(s)]
    <3>1. CASE i \in 1 .. Len(s) /\ c[i] = s[i]
      BY <2>2, <3>1 DEF Before
    <3>2. CASE i - Len(s) \in 1 .. Len(t) /\ c[i] = t[i - Len(s)]
      <4>1. i - Len(s) < j - Len(s)
        OBVIOUS
      <4>2. QED
        BY <2>2, <3>2, <4>1 DEF Increasing
    <3>3. QED
      BY <1>3, <3>1, <3>2
  <2>3. QED
    BY <1>3, <2>1, <2>2
<1>5. Before(c, u)
  <2> SUFFICES ASSUME NEW i \in 1 .. Len(c), NEW j \in 1 .. Len(u)
               PROVE  c[i] < u[j]
    BY DEF Before
  <2>1. CASE i \in 1 .. Len(s) /\ c[i] = s[i]
    BY <2>1 DEF Before
  <2>2. CASE i - Len(s) \in 1 .. Len(t) /\ c[i] = t[i - Len(s)]
    BY <2>2 DEF Before
  <2>3. QED
    BY <1>3, <2>1, <2>2
<1>6. UpTo(c, n)
  <2> SUFFICES ASSUME NEW i \in 1 .. Len(c) PROVE c[i] <= n
    BY DEF UpTo
  <2>1. CASE i \in 1 .. Len(s) /\ c[i] = s[i]
    BY <2>1 DEF UpTo
  <2>2. CASE i - Len(s) \in 1 .. Len(t) /\ c[i] = t[i - Len(s)]
    BY <2>2 DEF UpTo
  <2>3. QED
    BY <1>3, <2>1, <2>2
<1>7. QED
  BY <1>1, <1>4, <1>5, <1>6

-----------------------------------------------------------------------------
(* Types.                                                                  *)

\* The steps of Log keep the types.
LEMMA ClientType ==
  ASSUME TypeOK, NEW c \in Client, LogLock(c) \/ LogFinish(c)
  PROVE  TypeOK'
<1> USE LoggerAssumption DEF TypeOK, bufferVars, loggerVars, clientVars, MoveClient
<1>1. CASE LogLock(c)
  BY <1>1 DEF LogLock
<1>2. CASE LogWrite(c)
  <2>1. sent + 1 \in Nat
    OBVIOUS
  <2>2. /\ Push(inBuf, BufferItemCount, sent + 1) \in Seq(Nat)
        /\ Len(Push(inBuf, BufferItemCount, sent + 1)) <= BufferItemCount
    BY <2>1, PushType
  <2>3. QED
    BY <1>2, <2>1, <2>2 DEF LogWrite
<1>3. CASE LogUnlock(c)
  BY <1>3 DEF LogUnlock
<1>4. CASE LogNotify(c)
  BY <1>4 DEF LogNotify
<1>5. QED
  BY <1>1, <1>2, <1>3, <1>4 DEF LogFinish

\* The steps of the logger keep the types.
LEMMA LoggerType ==
  ASSUME TypeOK, LoggerThread
  PROVE  TypeOK'
<1> USE LoggerAssumption DEF TypeOK, bufferVars, loggerVars, clientVars,
     loggerFrame, MoveLogger, LoggerPcs, LoggerHolds
<1>1. CASE LoggerStart
  BY <1>1 DEF LoggerStart
<1>2. CASE LoggerTop
  BY <1>2 DEF LoggerTop
<1>3. CASE LoggerLock
  BY <1>3 DEF LoggerLock
<1>4. CASE LoggerCheck
  BY <1>4 DEF LoggerCheck
<1>5. CASE LoggerTimeout
  BY <1>5 DEF LoggerTimeout
<1>6. CASE LoggerWake
  BY <1>6 DEF LoggerWake
<1>7. CASE LoggerDecide
  BY <1>7 DEF LoggerDecide
<1>8. CASE LoggerSwap
  BY <1>8 DEF LoggerSwap, swapBuffers
<1>9. CASE LoggerUnlock
  BY <1>9 DEF LoggerUnlock
<1>10. CASE LoggerDrain
  BY <1>10 DEF LoggerDrain, drainSecondary
<1>11. CASE LoggerFinal
  BY <1>11 DEF LoggerFinal, swapBuffers
<1>12. CASE LoggerDrainIn
  BY <1>12 DEF LoggerDrainIn
<1>13. CASE LoggerFinalUnlock
  BY <1>13 DEF LoggerFinalUnlock
<1>14. CASE LoggerDrainOut
  BY <1>14 DEF LoggerDrainOut, drainSecondary
<1>15. CASE LoggerComplain \/ LoggerFarewell
  <2>1. sent + 1 \in Nat
    OBVIOUS
  <2>2. /\ Push(inBuf, BufferItemCount, sent + 1) \in Seq(Nat)
        /\ Len(Push(inBuf, BufferItemCount, sent + 1)) <= BufferItemCount
    BY <2>1, PushType
  <2>3. /\ sent' \in Nat /\ inBuf' \in Seq(Nat) /\ Len(inBuf') <= BufferItemCount
        /\ loggerPc' \in {"farewell", "exited"}
        /\ UNCHANGED <<killSwitch, inMtx, inNotEmptyCv, secondaryBuf, file,
                       clientPc, sentAtExit>>
    BY <1>15, <2>1, <2>2 DEF LoggerComplain, LoggerFarewell, LoggerLogs
  <2>4. QED
    BY <2>3
<1>16. CASE LoggerWait
  BY <1>16 DEF LoggerWait
<1>17. QED
  BY <1>1, <1>2, <1>3, <1>4, <1>5, <1>6, <1>7, <1>8, <1>9, <1>10, <1>11,
     <1>12, <1>13, <1>14, <1>15, <1>16 DEF LoggerThread

\* Every variable of the logger keeps its type, and neither buffer of
\* logger.c exceeds its capacity.
THEOREM TypeCorrect == Spec => []TypeOK
<1>1. Init => TypeOK
  BY LoggerAssumption DEF Init, TypeOK, LoggerPcs
<1>2. TypeOK /\ [Next]_vars => TypeOK'
  <2> SUFFICES ASSUME TypeOK, [Next]_vars PROVE TypeOK'
    OBVIOUS
  <2>1. CASE Thread_activateKillSwitch
    BY <2>1 DEF Thread_activateKillSwitch, TypeOK, bufferVars, clientVars, loggerVars
  <2>2. CASE \E c \in Client : LogLock(c) \/ LogFinish(c)
    BY <2>2, ClientType
  <2>3. CASE LoggerThread
    BY <2>3, LoggerType
  <2>4. CASE UNCHANGED vars
    BY <2>4 DEF vars, TypeOK, bufferVars, clientVars, loggerVars
  <2>5. QED
    BY <2>1, <2>2, <2>3, <2>4 DEF Next, Terminated
<1>3. QED
  BY <1>1, <1>2, PTL DEF Spec

-----------------------------------------------------------------------------
(* Mutual exclusion.                                                       *)

\* The steps of Log respect the mutex.
LEMMA ClientGuards ==
  ASSUME TypeOK, BuffersGuarded, NEW c \in Client, LogLock(c) \/ LogFinish(c)
  PROVE  BuffersGuarded'
<1> USE LoggerAssumption DEF BuffersGuarded, loggerVars, MoveClient
<1>0. clientPc \in [Client -> {"idle", "write", "unlock", "notify"}]
  BY DEF TypeOK
<1>1. CASE LogLock(c)
  BY <1>0, <1>1 DEF LogLock
<1>2. CASE LogWrite(c)
  BY <1>0, <1>2 DEF LogWrite
<1>3. CASE LogUnlock(c)
  BY <1>0, <1>3 DEF LogUnlock
<1>4. CASE LogNotify(c)
  BY <1>0, <1>4 DEF LogNotify
<1>5. QED
  BY <1>1, <1>2, <1>3, <1>4 DEF LogFinish

\* With a prompt Log a lock attempt of the logger times out only against the
\* logger itself, so that the branch after the timeout holds the mutex.
LEMMA LoggerGuards ==
  ASSUME LogIsPrompt, TypeOK, BuffersGuarded, LoggerThread
  PROVE  BuffersGuarded'
<1> USE LoggerAssumption DEF BuffersGuarded, LoggerHolds, loggerVars, clientVars,
     loggerFrame, MoveLogger
<1>1. CASE LoggerStart
  BY <1>1 DEF LoggerStart
<1>2. CASE LoggerTop
  BY <1>2 DEF LoggerTop
<1>3. CASE LoggerLock
  BY <1>3 DEF LoggerLock, LockTimesOut
<1>4. CASE LoggerCheck
  BY <1>4 DEF LoggerCheck
<1>5. CASE LoggerTimeout
  BY <1>5 DEF LoggerTimeout
<1>6. CASE LoggerWake
  BY <1>6 DEF LoggerWake
<1>7. CASE LoggerDecide
  BY <1>7 DEF LoggerDecide
<1>8. CASE LoggerSwap
  BY <1>8 DEF LoggerSwap
<1>9. CASE LoggerUnlock
  BY <1>9 DEF LoggerUnlock
<1>10. CASE LoggerDrain
  BY <1>10 DEF LoggerDrain
<1>11. CASE LoggerFinal
  BY <1>11 DEF LoggerFinal
<1>12. CASE LoggerDrainIn
  BY <1>12 DEF LoggerDrainIn
<1>13. CASE LoggerFinalUnlock
  BY <1>13 DEF LoggerFinalUnlock
<1>14. CASE LoggerDrainOut
  BY <1>14 DEF LoggerDrainOut
<1>15. CASE LoggerComplain \/ LoggerFarewell
  BY <1>15 DEF LoggerComplain, LoggerFarewell, LoggerLogs
<1>16. CASE LoggerWait
  BY <1>16 DEF LoggerWait
<1>17. QED
  BY <1>1, <1>2, <1>3, <1>4, <1>5, <1>6, <1>7, <1>8, <1>9, <1>10, <1>11,
     <1>12, <1>13, <1>14, <1>15, <1>16 DEF LoggerThread

\* As long as Log is prompt, the inverted test of logger.c does no harm to the
\* buffers: they are exchanged, read and written only with the mutex held.
THEOREM BuffersAreGuarded == LogIsPrompt => (Spec => []BuffersGuarded)
<1> SUFFICES ASSUME LogIsPrompt PROVE Spec => []BuffersGuarded
  OBVIOUS
<1>1. Init => BuffersGuarded
  BY DEF Init, BuffersGuarded, LoggerHolds
<1>2. TypeOK /\ BuffersGuarded /\ [Next]_vars => BuffersGuarded'
  <2> SUFFICES ASSUME TypeOK, BuffersGuarded, [Next]_vars PROVE BuffersGuarded'
    OBVIOUS
  <2>1. CASE Thread_activateKillSwitch
    BY <2>1 DEF Thread_activateKillSwitch, BuffersGuarded, clientVars, loggerVars
  <2>2. CASE \E c \in Client : LogLock(c) \/ LogFinish(c)
    BY <2>2, ClientGuards
  <2>3. CASE LoggerThread
    BY <2>3, LoggerGuards
  <2>4. CASE UNCHANGED vars
    BY <2>4 DEF vars, BuffersGuarded, clientVars, loggerVars
  <2>5. QED
    BY <2>1, <2>2, <2>3, <2>4 DEF Next, Terminated
<1>3. QED
  BY <1>1, <1>2, TypeCorrect, PTL DEF Spec

-----------------------------------------------------------------------------
(* Wakeup.                                                                 *)

\* The steps of Log keep the wakeup: who fills the buffer is about to notify,
\* and nobody fills it between the logger's test and its wait.
LEMMA ClientWakes ==
  ASSUME TypeOK, BuffersGuarded, WakeInv, NEW c \in Client, LogLock(c) \/ LogFinish(c)
  PROVE  WakeInv'
<1> USE DEF WakeInv, NoMissedWakeup, bufferVars, loggerVars, MoveClient
<1>0. clientPc \in [Client -> {"idle", "write", "unlock", "notify"}]
  BY DEF TypeOK
<1>1. CASE LogLock(c)
  BY <1>0, <1>1 DEF LogLock
<1>2. CASE LogWrite(c)
  <2>1. inMtx = c /\ c # "logger"
    BY <1>2, LoggerAssumption DEF BuffersGuarded, LogWrite
  <2>2. loggerPc # "block"
    BY <2>1 DEF BuffersGuarded, LoggerHolds
  <2>3. QED
    BY <1>0, <1>2, <2>2 DEF LogWrite
<1>3. CASE LogUnlock(c)
  BY <1>0, <1>3 DEF LogUnlock
<1>4. CASE LogNotify(c)
  BY <1>0, <1>4 DEF LogNotify
<1>5. QED
  BY <1>1, <1>2, <1>3, <1>4 DEF LogFinish

\* The logger does not begin to wait beside a message, and leaves its wait
\* with the condition variable quiet.
LEMMA LoggerWakes ==
  ASSUME TypeOK, WakeInv, LoggerThread
  PROVE  WakeInv'
<1> USE DEF WakeInv, NoMissedWakeup, bufferVars, loggerVars, clientVars,
     loggerFrame, MoveLogger
<1>0. inNotEmptyCv \in {"quiet", "awaited"}
  BY DEF TypeOK
<1>1. CASE LoggerCheck
  BY <1>1 DEF LoggerCheck
<1>2. CASE LoggerWait
  BY <1>2 DEF LoggerWait
<1>3. CASE LoggerTimeout
  BY <1>3 DEF LoggerTimeout
<1>4. CASE LoggerWake
  BY <1>4 DEF LoggerWake
<1>5. CASE inNotEmptyCv' = inNotEmptyCv /\ loggerPc # "wait" /\ loggerPc' # "block"
  BY <1>5
<1>6. QED
  BY <1>1, <1>2, <1>3, <1>4, <1>5
     DEF LoggerThread, LoggerStart, LoggerTop, LoggerLock, LoggerDecide,
         LoggerSwap, LoggerUnlock, LoggerDrain, LoggerFinal, LoggerDrainIn,
         LoggerFinalUnlock, LoggerDrainOut, LoggerComplain, LoggerFarewell,
         LoggerLogs

\* As long as Log is prompt it notifies the logger in time: no message is left
\* in g_inBuf beside a logger that sleeps.  Otherwise a client could write and
\* notify between the logger's test and its wait.
THEOREM NoWakeupMissed == LogIsPrompt => (Spec => []NoMissedWakeup)
<1> SUFFICES ASSUME LogIsPrompt PROVE Spec => []NoMissedWakeup
  OBVIOUS
<1>1. Init => WakeInv
  BY DEF Init, WakeInv, NoMissedWakeup
<1>2. TypeOK /\ BuffersGuarded /\ WakeInv /\ [Next]_vars => WakeInv'
  <2> SUFFICES ASSUME TypeOK, BuffersGuarded, WakeInv, [Next]_vars PROVE WakeInv'
    OBVIOUS
  <2>1. CASE Thread_activateKillSwitch
    BY <2>1 DEF Thread_activateKillSwitch, WakeInv, NoMissedWakeup, bufferVars,
                clientVars, loggerVars
  <2>2. CASE \E c \in Client : LogLock(c) \/ LogFinish(c)
    BY <2>2, ClientWakes
  <2>3. CASE LoggerThread
    BY <2>3, LoggerWakes
  <2>4. CASE UNCHANGED vars
    BY <2>4 DEF vars, WakeInv, NoMissedWakeup, bufferVars, clientVars, loggerVars
  <2>5. QED
    BY <2>1, <2>2, <2>3, <2>4 DEF Next, Terminated
<1>3. WakeInv => NoMissedWakeup
  BY DEF WakeInv
<1>4. QED
  BY <1>1, <1>2, <1>3, TypeCorrect, BuffersAreGuarded, PTL DEF Spec

-----------------------------------------------------------------------------
(* Order.                                                                  *)

\* The order does not depend on where in the program the logger is.
LEMMA OrderStutter ==
  ASSUME OrderedData, UNCHANGED <<bufferVars, sent>>
  PROVE  OrderedData'
  BY DEF OrderedData, bufferVars, Increasing, Before, UpTo

\* A new message goes to the end.
LEMMA OrderPush ==
  ASSUME TypeOK, OrderedData,
         inBuf' = Push(inBuf, BufferItemCount, sent + 1), sent' = sent + 1,
         UNCHANGED <<secondaryBuf, file>>
  PROVE  OrderedData'
<1>1. /\ inBuf \in Seq(Nat) /\ secondaryBuf \in Seq(Nat) /\ file \in Seq(Nat)
      /\ Len(inBuf) <= BufferItemCount /\ sent \in Nat
      /\ BufferItemCount \in Nat \ {0}
  BY LoggerAssumption DEF TypeOK
<1>2. /\ Increasing(inBuf') /\ UpTo(inBuf', sent')
      /\ Before(file, inBuf') /\ Before(secondaryBuf, inBuf')
  BY <1>1, PushOrder DEF OrderedData
<1>3. UpTo(file, sent + 1) /\ UpTo(secondaryBuf, sent + 1)
  BY <1>1 DEF OrderedData, UpTo
<1>4. QED
  BY <1>2, <1>3 DEF OrderedData, Increasing, Before, UpTo

\* Exchanging the buffers keeps the order when the secondary one is empty.
LEMMA OrderSwap ==
  ASSUME OrderedData, secondaryBuf = <<>>, swapBuffers, UNCHANGED <<file, sent>>
  PROVE  OrderedData'
<1>1. 1 .. Len(<<>>) = {}
  OBVIOUS
<1>2. QED
  BY <1>1 DEF OrderedData, swapBuffers, Increasing, Before, UpTo

\* Draining the secondary buffer keeps the order.
LEMMA OrderDrain ==
  ASSUME TypeOK, OrderedData, drainSecondary, UNCHANGED sent
  PROVE  OrderedData'
<1>1. /\ inBuf \in Seq(Nat) /\ secondaryBuf \in Seq(Nat) /\ file \in Seq(Nat)
      /\ sent \in Nat
  BY DEF TypeOK
<1>2. /\ Increasing(file') /\ Before(file', inBuf) /\ UpTo(file', sent)
  BY <1>1, ConcatOrder DEF OrderedData, drainSecondary
<1>3. 1 .. Len(<<>>) = {}
  OBVIOUS
<1>4. secondaryBuf' = <<>> /\ inBuf' = inBuf /\ sent' = sent
  BY DEF drainSecondary
<1>5. /\ Increasing(secondaryBuf') /\ UpTo(secondaryBuf', sent')
      /\ Before(file', secondaryBuf') /\ Before(secondaryBuf', inBuf')
  BY <1>3, <1>4 DEF Increasing, Before, UpTo
<1>6. Increasing(inBuf) /\ UpTo(inBuf, sent)
  BY DEF OrderedData
<1>7. QED
  BY <1>2, <1>4, <1>5, <1>6 DEF OrderedData, Increasing, Before, UpTo

\* The steps of Log keep the order; the mutex keeps them away from the logger's
\* last look at g_inBuf.
LEMMA ClientOrders ==
  ASSUME TypeOK, BuffersGuarded, OrderInv, NEW c \in Client,
         LogLock(c) \/ LogFinish(c)
  PROVE  OrderInv'
<1> USE DEF OrderInv
<1>1. CASE UNCHANGED <<bufferVars, sent>>
  <2>1. OrderedData'
    BY <1>1, OrderStutter
  <2>2. loggerPc' = loggerPc
    BY DEF LogFinish, LogLock, LogWrite, LogUnlock, LogNotify, loggerVars
  <2>3. QED
    BY <1>1, <2>1, <2>2 DEF EmptyBuffers, bufferVars
<1>2. CASE LogWrite(c)
  <2>1. OrderedData'
    BY <1>2, OrderPush DEF LogWrite
  <2>2. inMtx = c /\ c # "logger"
    BY <1>2, LoggerAssumption DEF BuffersGuarded, LogWrite, MoveClient
  <2>3. loggerPc # "drainIn"
    BY <2>2 DEF BuffersGuarded, LoggerHolds
  <2>4. QED
    BY <1>2, <2>1, <2>3 DEF LogWrite, EmptyBuffers, loggerVars
<1>3. QED
  BY <1>1, <1>2 DEF LogFinish, LogLock, LogUnlock, LogNotify, bufferVars

\* The steps of the logger keep the order.
LEMMA LoggerOrders ==
  ASSUME TypeOK, OrderInv, LoggerThread
  PROVE  OrderInv'
<1> USE DEF OrderInv, MoveLogger
<1>1. CASE LoggerSwap \/ (LoggerFinal /\ swapBuffers)
  <2>1. secondaryBuf = <<>>
    BY <1>1 DEF LoggerSwap, LoggerFinal, EmptyBuffers
  <2>2. UNCHANGED <<file, sent>> /\ swapBuffers
    BY <1>1 DEF LoggerSwap, LoggerFinal, loggerFrame, clientVars
  <2>3. OrderedData'
    BY <2>1, <2>2, OrderSwap
  <2>4. inBuf' = <<>> /\ loggerPc' \in {"unlock", "drainIn", "complain"}
    BY <1>1, <2>1 DEF LoggerSwap, LoggerFinal, swapBuffers
  <2>5. loggerPc' = "complain" => secondaryBuf' = secondaryBuf
    BY <1>1 DEF LoggerSwap, LoggerFinal
  <2>6. QED
    BY <2>1, <2>3, <2>4, <2>5 DEF EmptyBuffers
<1>2. CASE LoggerDrain \/ LoggerDrainOut
  <2>1. drainSecondary /\ UNCHANGED sent
    BY <1>2 DEF LoggerDrain, LoggerDrainOut, loggerFrame, clientVars
  <2>2. OrderedData'
    BY <2>1, OrderDrain
  <2>3. secondaryBuf' = <<>> /\ loggerPc' \in {"top", "farewell"}
    BY <1>2 DEF LoggerDrain, LoggerDrainOut, drainSecondary
  <2>4. QED
    BY <2>2, <2>3 DEF EmptyBuffers
<1>3. CASE LoggerDrainIn
  <2>1. inBuf = <<>> /\ file \in Seq(Nat)
    BY <1>3 DEF LoggerDrainIn, EmptyBuffers, TypeOK
  <2>2. file \o <<>> = file
    BY <2>1
  <2>3. UNCHANGED <<bufferVars, sent>>
    BY <1>3, <2>1, <2>2 DEF LoggerDrainIn, loggerFrame, clientVars, bufferVars
  <2>4. OrderedData'
    BY <2>3, OrderStutter
  <2>5. QED
    BY <1>3, <2>4 DEF LoggerDrainIn, EmptyBuffers
<1>4. CASE LoggerComplain \/ LoggerFarewell
  <2>1. UNCHANGED <<secondaryBuf, file>> /\ loggerPc \in {"complain", "farewell"}
        /\ loggerPc' \in {"farewell", "exited"}
    BY <1>4 DEF LoggerComplain, LoggerFarewell, LoggerLogs
  <2>2. CASE inBuf' = Push(inBuf, BufferItemCount, sent + 1) /\ sent' = sent + 1
    BY <2>1, <2>2, OrderPush DEF EmptyBuffers
  <2>3. CASE UNCHANGED <<inBuf, sent>>
    BY <2>1, <2>3, OrderStutter DEF EmptyBuffers, bufferVars
  <2>4. QED
    BY <1>4, <2>2, <2>3 DEF LoggerComplain, LoggerFarewell, LoggerLogs
<1>5. CASE UNCHANGED <<bufferVars, sent>> /\ ~LoggerDrainIn /\ ~LoggerDrain
           /\ ~LoggerDrainOut /\ ~LoggerSwap /\ ~(LoggerFinal /\ swapBuffers)
  <2>1. OrderedData'
    BY <1>5, OrderStutter
  <2>2. EmptyBuffers'
    BY <1>5
       DEF EmptyBuffers, bufferVars, loggerVars, LoggerThread, LoggerStart,
           LoggerTop, LoggerLock, LoggerCheck, LoggerWait, LoggerTimeout, LoggerWake,
           LoggerDecide, LoggerUnlock, LoggerFinal, LoggerFinalUnlock,
           LoggerComplain, LoggerFarewell, LoggerLogs
  <2>3. QED
    BY <2>1, <2>2
<1>6. QED
  BY <1>1, <1>2, <1>3, <1>4, <1>5
     DEF bufferVars, loggerVars, clientVars, loggerFrame, LoggerThread,
         LoggerStart, LoggerTop, LoggerLock, LoggerCheck, LoggerWait, LoggerTimeout,
         LoggerWake, LoggerDecide, LoggerUnlock, LoggerFinal, LoggerFinalUnlock

\* OrderInv is an invariant as long as Log is prompt.
LEMMA OrderInvariant == LogIsPrompt => (Spec => []OrderInv)
<1> SUFFICES ASSUME LogIsPrompt PROVE Spec => []OrderInv
  OBVIOUS
<1>1. Init => OrderInv
  <2>1. 1 .. Len(<<>>) = {}
    OBVIOUS
  <2>2. QED
    BY <2>1 DEF Init, OrderInv, OrderedData, EmptyBuffers, Increasing, Before, UpTo
<1>2. TypeOK /\ BuffersGuarded /\ OrderInv /\ [Next]_vars => OrderInv'
  <2> SUFFICES ASSUME TypeOK, BuffersGuarded, OrderInv, [Next]_vars PROVE OrderInv'
    OBVIOUS
  <2>1. CASE Thread_activateKillSwitch \/ UNCHANGED vars
    <3>1. UNCHANGED <<bufferVars, sent, loggerPc>>
      BY <2>1 DEF Thread_activateKillSwitch, vars, clientVars, loggerVars
    <3>2. OrderedData'
      BY <3>1, OrderStutter DEF OrderInv
    <3>3. QED
      BY <3>1, <3>2 DEF OrderInv, EmptyBuffers, bufferVars
  <2>2. CASE \E c \in Client : LogLock(c) \/ LogFinish(c)
    BY <2>2, ClientOrders
  <2>3. CASE LoggerThread
    BY <2>3, LoggerOrders
  <2>4. QED
    BY <2>1, <2>2, <2>3 DEF Next, Terminated
<1>3. QED
  BY <1>1, <1>2, TypeCorrect, BuffersAreGuarded, PTL DEF Spec

\* As long as Log is prompt, messages reach the log file in the order in which
\* they were logged and none twice, for buffers of any size.
THEOREM FileIsInOrder == LogIsPrompt => (Spec => []FileInOrder)
<1> SUFFICES ASSUME LogIsPrompt PROVE Spec => []FileInOrder
  OBVIOUS
<1>1. TypeOK /\ OrderInv => FileInOrder
  <2> SUFFICES ASSUME TypeOK, OrderInv, NEW i \in 1 .. Len(file) - 1
               PROVE  file[i] < file[i + 1]
    BY DEF FileInOrder
  <2>1. Len(file) \in Nat
    BY DEF TypeOK
  <2>2. i \in 1 .. Len(file) /\ i + 1 \in 1 .. Len(file) /\ i < i + 1
    BY <2>1
  <2>3. Increasing(file)
    BY DEF OrderInv, OrderedData
  <2>4. QED
    BY <2>2, <2>3 DEF Increasing
<1>2. QED
  BY <1>1, TypeCorrect, OrderInvariant, PTL

-----------------------------------------------------------------------------
(* The two buffers are one log.                                            *)

\* Where a sequence behind another one begins.
LEMMA ConcatParts ==
  ASSUME NEW s \in Seq(Nat), NEW q \in Seq(Nat)
  PROVE  /\ s \o q \in Seq(Nat) /\ Len(s \o q) = Len(s) + Len(q)
         /\ SubSeq(s \o q, 1, Len(s)) = s
         /\ SubSeq(s \o q, Len(s) + 1, Len(s \o q)) = q
<1>1. /\ s \o q \in Seq(Nat) /\ Len(s \o q) = Len(s) + Len(q)
      /\ \A i \in 1 .. Len(s) + Len(q) :
           (s \o q)[i] = IF i <= Len(s) THEN s[i] ELSE q[i - Len(s)]
  BY ConcatProperties
<1>2. PICK c \in Seq(Nat) : c = s \o q
  BY <1>1, Zenon
<1>3. /\ Len(c) = Len(s) + Len(q) /\ Len(s) \in Nat /\ Len(q) \in Nat
      /\ \A i \in 1 .. Len(s) : c[i] = s[i]
      /\ \A i \in 1 .. Len(q) : c[Len(s) + i] = q[i]
  <2>1. Len(c) = Len(s) + Len(q) /\ Len(s) \in Nat /\ Len(q) \in Nat
    BY <1>1, <1>2
  <2>2. \A i \in 1 .. Len(s) : c[i] = s[i]
    BY <1>1, <1>2
  <2>3. ASSUME NEW i \in 1 .. Len(q) PROVE c[Len(s) + i] = q[i]
    <3>1. Len(s) + i \in 1 .. Len(s) + Len(q) /\ ~(Len(s) + i <= Len(s)) /\ (Len(s) + i) - Len(s) = i
      BY <2>1
    <3>2. QED
      BY <1>1, <1>2, <3>1
  <2>4. QED
    BY <2>1, <2>2, <2>3
<1>4. SubSeq(c, 1, Len(s)) = s
  <2>1. /\ SubSeq(c, 1, Len(s)) \in Seq(Nat) /\ Len(SubSeq(c, 1, Len(s))) = Len(s)
        /\ \A i \in 1 .. Len(s) : SubSeq(c, 1, Len(s))[i] = c[i]
    BY <1>3
  <2>2. QED
    BY <1>3, <2>1, SeqEqual
<1>5. SubSeq(c, Len(s) + 1, Len(c)) = q
  <2> DEFINE rest == SubSeq(c, Len(s) + 1, Len(c))
  <2>1. /\ rest \in Seq(Nat) /\ Len(rest) = Len(q)
        /\ \A i \in 1 .. Len(q) : rest[i] = c[Len(s) + i]
    BY <1>3
  <2> HIDE DEF rest
  <2>2. rest = q
    BY <1>3, <2>1, SeqEqual
  <2>3. QED
    BY <2>2 DEF rest
<1>6. QED
  BY <1>1, <1>2, <1>4, <1>5

\* A new message behind both sequences.
LEMMA ConcatAppend ==
  ASSUME NEW s \in Seq(Nat), NEW q \in Seq(Nat), NEW x \in Nat
  PROVE  s \o Append(q, x) = Append(s \o q, x)
<1>1. /\ q \o <<x>> = Append(q, x) /\ (s \o q) \o <<x>> = Append(s \o q, x)
      /\ <<x>> \in Seq(Nat) /\ s \o q \in Seq(Nat)
  BY AppendIsConcat
<1>2. QED
  BY <1>1, ConcatAssociative

\* The first message of the second sequence goes.
LEMMA ConcatRemove ==
  ASSUME NEW s \in Seq(Nat), NEW q \in Seq(Nat), q # <<>>
  PROVE  Messages!RemoveAt(s \o q, Len(s) + 1) = s \o Tail(q)
<1>1. PICK c \in Seq(Nat) : c = s \o q
  BY ConcatParts, Zenon
<1>2. /\ Len(c) = Len(s) + Len(q) /\ Len(s) \in Nat /\ Len(q) \in Nat /\ Len(q) > 0
      /\ SubSeq(c, 1, Len(s)) = s
      /\ SubSeq(c, Len(s) + 1, Len(c)) = q
  <2>1. Len(q) > 0
    BY EmptySeq
  <2>2. QED
    BY <1>1, <2>1, ConcatParts
<1>3. Tail(SubSeq(c, Len(s) + 1, Len(c))) = SubSeq(c, (Len(s) + 1) + 1, Len(c))
  <2>1. Len(s) + 1 \in 1 .. Len(c) /\ Len(c) \in Len(s) + 1 .. Len(c)
    BY <1>2
  <2>2. QED
    BY <2>1, HeadTailOfSubSeq
<1>4. (Len(s) + 1) - 1 = Len(s)
  BY <1>2
<1>5. QED
  BY <1>1, <1>2, <1>3, <1>4 DEF Messages!RemoveAt

\* Nothing happens to the messages.
Rests == UNCHANGED <<sent, secondaryBuf \o inBuf, file>>

\* A message is put into g_inBuf, over the oldest one there if it is full.
LEMMA PushLogs ==
  ASSUME TypeOK, inBuf' = Push(inBuf, BufferItemCount, sent + 1), sent' = sent + 1,
         UNCHANGED <<secondaryBuf, file>>
  PROVE  Messages!Log \/ Messages!LogOver
<1>1. /\ secondaryBuf \in Seq(Nat) /\ inBuf \in Seq(Nat) /\ sent + 1 \in Nat
      /\ BufferItemCount \in Nat \ {0} /\ Len(inBuf) <= BufferItemCount
  BY LoggerAssumption DEF TypeOK
<1> DEFINE pending == secondaryBuf \o inBuf
<1>2. pending' = secondaryBuf \o inBuf'
  OBVIOUS
<1>3. CASE Len(inBuf) < BufferItemCount
  <2>1. inBuf' = Append(inBuf, sent + 1)
    BY <1>3 DEF Push
  <2>2. pending' = Append(pending, sent + 1)
    BY <1>1, <1>2, <2>1, ConcatAppend
  <2>3. QED
    BY <2>2 DEF Messages!Log
<1>4. CASE Len(inBuf) = BufferItemCount
  <2>1. inBuf # <<>> /\ Tail(inBuf) \in Seq(Nat) /\ inBuf' = Append(Tail(inBuf), sent + 1)
    <3>1. inBuf # <<>>
      BY <1>1, <1>4, EmptySeq
    <3>2. QED
      BY <1>1, <1>4, <3>1, HeadTailProperties DEF Push
  <2>2. pending' = Append(secondaryBuf \o Tail(inBuf), sent + 1)
    <3>1. \A q \in Seq(Nat) : secondaryBuf \o Append(q, sent + 1) = Append(secondaryBuf \o q, sent + 1)
      BY <1>1, ConcatAppend
    <3>2. secondaryBuf \o Append(Tail(inBuf), sent + 1) = Append(secondaryBuf \o Tail(inBuf), sent + 1)
      BY <2>1, <3>1, Zenon
    <3>3. pending' = secondaryBuf \o Append(Tail(inBuf), sent + 1)
      BY <1>2, <2>1, Zenon
    <3>4. QED
      BY <3>2, <3>3, Zenon
  <2>3. pending' = Append(Messages!RemoveAt(pending, Len(secondaryBuf) + 1), sent + 1)
    BY <1>1, <2>1, <2>2, ConcatRemove
  <2>4. Len(pending) = Len(secondaryBuf) + BufferItemCount /\ Len(secondaryBuf) \in Nat
    <3>1. Len(secondaryBuf \o inBuf) = Len(secondaryBuf) + Len(inBuf)
      BY <1>1, ConcatParts, Zenon
    <3>2. Len(secondaryBuf) \in Nat
      BY <1>1
    <3>3. QED
      BY <1>4, <3>1, <3>2
  <2> HIDE DEF pending
  <2>5. /\ Len(secondaryBuf) + 1 \in 1 .. Len(pending)
        /\ Len(pending) - (Len(secondaryBuf) + 1) + 1 >= BufferItemCount
    BY <1>1, <2>4
  <2>6. QED
    BY <2>3, <2>5 DEF Messages!LogOver, pending
<1>5. QED
  BY <1>1, <1>3, <1>4

\* The exchange with an empty secondary buffer.
LEMMA SwapRests ==
  ASSUME TypeOK, secondaryBuf = <<>>, swapBuffers, UNCHANGED <<file, sent>>
  PROVE  Rests
<1>1. inBuf \in Seq(Nat)
  BY DEF TypeOK
<1>2. <<>> \o inBuf = inBuf /\ inBuf \o <<>> = inBuf
  BY <1>1, ConcatEmptySeq
<1>3. secondaryBuf' = inBuf /\ inBuf' = <<>>
  BY DEF swapBuffers
<1>4. QED
  BY <1>2, <1>3 DEF Rests

\* The secondary buffer is written.
LEMMA DrainWrites ==
  ASSUME TypeOK, drainSecondary, UNCHANGED sent
  PROVE  Messages!Write \/ Rests
<1>1. secondaryBuf \in Seq(Nat) /\ inBuf \in Seq(Nat) /\ file \in Seq(Nat)
  BY DEF TypeOK
<1>2. /\ <<>> \o inBuf = inBuf /\ file \o <<>> = file
  BY <1>1, ConcatEmptySeq
<1>3. file' = file \o secondaryBuf /\ secondaryBuf' = <<>> /\ inBuf' = inBuf
  BY DEF drainSecondary
<1> DEFINE pending == secondaryBuf \o inBuf
<1>4. pending' = inBuf
  BY <1>2, <1>3
<1>5. CASE secondaryBuf = <<>>
  BY <1>2, <1>3, <1>5 DEF Rests
<1>6. CASE secondaryBuf # <<>>
  <2>1. /\ Len(pending) = Len(secondaryBuf) + Len(inBuf)
        /\ SubSeq(pending, 1, Len(secondaryBuf)) = secondaryBuf
        /\ SubSeq(pending, Len(secondaryBuf) + 1, Len(pending)) = inBuf
    BY <1>1, ConcatParts
  <2> HIDE DEF pending
  <2>2. Len(secondaryBuf) \in 1 .. Len(pending)
    <3>1. Len(secondaryBuf) \in Nat /\ Len(inBuf) \in Nat /\ Len(secondaryBuf) # 0
      BY <1>1, <1>6, EmptySeq
    <3>2. QED
      BY <2>1, <3>1
  <2>3. /\ file' = file \o SubSeq(pending, 1, Len(secondaryBuf))
        /\ pending' = SubSeq(pending, Len(secondaryBuf) + 1, Len(pending))
    BY <1>3, <1>4, <2>1
  <2>4. QED
    BY <2>2, <2>3 DEF Messages!Write, pending
<1>7. QED
  BY <1>5, <1>6

\* Every step of the clients and of the logger is a step of the log, or none.
LEMMA LogStep ==
  ASSUME TypeOK, OrderInv, [Next]_vars
  PROVE  [Messages!Next]_Messages!vars
<1>1. CASE UNCHANGED <<bufferVars, sent>>
  BY <1>1 DEF bufferVars, Messages!vars
<1>2. CASE /\ inBuf' = Push(inBuf, BufferItemCount, sent + 1) /\ sent' = sent + 1
           /\ UNCHANGED <<secondaryBuf, file>>
  BY <1>2, PushLogs DEF Messages!Next
<1>3. CASE LoggerSwap \/ (LoggerFinal /\ swapBuffers)
  <2>1. secondaryBuf = <<>>
    BY <1>3 DEF LoggerSwap, LoggerFinal, OrderInv, EmptyBuffers, MoveLogger
  <2>2. UNCHANGED <<file, sent>> /\ swapBuffers
    BY <1>3 DEF LoggerSwap, LoggerFinal, loggerFrame, clientVars
  <2>3. Rests
    BY <2>1, <2>2, SwapRests
  <2>4. QED
    BY <2>3 DEF Rests, Messages!vars
<1>4. CASE LoggerDrain \/ LoggerDrainOut
  <2>1. drainSecondary /\ UNCHANGED sent
    BY <1>4 DEF LoggerDrain, LoggerDrainOut, loggerFrame, clientVars
  <2>2. Messages!Write \/ Rests
    BY <2>1, DrainWrites
  <2>3. QED
    BY <2>2 DEF Rests, Messages!vars, Messages!Next
<1>5. CASE LoggerDrainIn
  <2>1. inBuf = <<>> /\ file \in Seq(Nat)
    BY <1>5 DEF LoggerDrainIn, MoveLogger, OrderInv, EmptyBuffers, TypeOK
  <2>2. file \o <<>> = file
    BY <2>1
  <2>3. UNCHANGED <<bufferVars, sent>>
    BY <1>5, <2>1, <2>2 DEF LoggerDrainIn, loggerFrame, clientVars, bufferVars
  <2>4. QED
    BY <1>1, <2>3
<1>6. CASE Thread_activateKillSwitch \/ Terminated \/ UNCHANGED vars
  BY <1>1, <1>6 DEF Thread_activateKillSwitch, Terminated, vars, clientVars
<1>7. ASSUME NEW c \in Client, LogLock(c) \/ LogFinish(c)
      PROVE  [Messages!Next]_Messages!vars
  BY <1>1, <1>2, <1>7 DEF LogLock, LogFinish, LogWrite, LogUnlock, LogNotify, bufferVars
<1>8. ASSUME LoggerThread PROVE [Messages!Next]_Messages!vars
  <2>1. CASE LoggerComplain \/ LoggerFarewell
    BY <1>1, <1>2, <2>1 DEF LoggerComplain, LoggerFarewell, LoggerLogs, bufferVars
  <2>2. CASE LoggerFinal /\ ~swapBuffers
    BY <1>1, <2>2 DEF LoggerFinal, loggerFrame, clientVars, bufferVars
  <2>3. CASE \/ LoggerStart \/ LoggerTop \/ LoggerLock \/ LoggerCheck \/ LoggerWait
             \/ LoggerTimeout
             \/ LoggerWake \/ LoggerDecide \/ LoggerUnlock \/ LoggerFinalUnlock
    BY <1>1, <2>3
       DEF LoggerStart, LoggerTop, LoggerLock, LoggerCheck, LoggerWait,
           LoggerTimeout, LoggerWake, LoggerDecide, LoggerUnlock, LoggerFinalUnlock,
           loggerFrame, clientVars
  <2>4. QED
    BY <1>3, <1>4, <1>5, <1>8, <2>1, <2>2, <2>3 DEF LoggerThread
<1>9. QED
  BY <1>6, <1>7, <1>8 DEF Next

\* As long as Log is prompt, the two buffers of logger.c are one log: a message
\* that is not written to the file has given way to a whole buffer of newer ones,
\* for buffers of any size and any number of threads.
THEOREM LogRefinement == LogIsPrompt => (Spec => ImplementsLog)
<1> SUFFICES ASSUME LogIsPrompt PROVE Spec => ImplementsLog
  OBVIOUS
<1>1. Init => Messages!Init
  <2>1. <<>> \o <<>> = <<>>
    OBVIOUS
  <2>2. QED
    BY <2>1 DEF Init, Messages!Init
<1>2. QED
  BY <1>1, LogStep, TypeCorrect, OrderInvariant, PTL DEF Spec, ImplementsLog, Messages!Spec
=============================================================================
