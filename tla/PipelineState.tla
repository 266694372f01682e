--------------------------- MODULE PipelineState ---------------------------
(***************************************************************************)
(* The state that app/app.c shares between its three worker threads, and   *)
(* the locals of each.  Reader.tla, Analyzer.tla and Printer.tla are the   *)
(* threads, Pipeline.tla composes them.                                    *)
(*                                                                         *)
(* A /proc/stat sample is the number of the load that produced it (1, 2,   *)
(* ...); a usage record is the pair of samples it was computed from; 0     *)
(* stands for memory that was allocated and never written.  Both circular  *)
(* buffers are the overwriting queues that circbuf.c implements (theorem   *)
(* QueueRefinement of CircularBufferProofs.tla).                           *)
(*                                                                         *)
(* A mutex is "free" or the name of its holder.  A condition variable has  *)
(* one possible waiter: it is "awaited" while that thread is blocked on it *)
(* and "quiet" otherwise.  mtx_unlock and cnd_timedwait cannot fail here:  *)
(* all handles are valid, so the branches on their errors are never taken. *)
(***************************************************************************)
EXTENDS Integers, Sequences, QueueOps

CONSTANTS ProcStatCapacity,   \* PROCSTAT_CBUF_CAPACITY, 10 in app.c
          UsageInfoCapacity,  \* USAGEINFO_CBUF_CAPACITY, 1 in app.c
          MaxSamples          \* bound: the successful loads of /proc/stat

ASSUME PipelineAssumption == /\ ProcStatCapacity \in Nat \ {0}
                             /\ UsageInfoCapacity \in Nat \ {0}
                             /\ MaxSamples \in Nat

VARIABLES
  killSwitch,                             \* g_killSwitch: "off" or "on"
  procStatMtx, procStatNotEmptyCv, procStatNotFullCv, procStatCbuf,
  usageInfoMtx, usageInfoNotEmptyCv, usageInfoNotFullCv, usageInfoCbuf,
  readerPc,
  loaded,                                 \* how many samples were loaded
  procStat,                               \* the reader's sample, 0 for NULL
  allocated,                              \* ProcStat_t objects not yet freed
  analyzerPc,
  oldStatBuffer, newStatBuffer,
  oldStatBufferInitialized,               \* 0 or 1
  usageInfoBuffer,                        \* the analyzer's result
  published,                              \* history: the usage written last
  printerPc,
  printerBuffer,                          \* the printer's usageInfoBuffer
  screen                                  \* the usage printed last

procStatVars == <<procStatMtx, procStatNotEmptyCv, procStatNotFullCv, procStatCbuf>>
usageInfoVars == <<usageInfoMtx, usageInfoNotEmptyCv, usageInfoNotFullCv, usageInfoCbuf>>
readerLocals == <<loaded, procStat, allocated>>
analyzerLocals == <<oldStatBuffer, newStatBuffer, oldStatBufferInitialized,
                    usageInfoBuffer, published>>
printerLocals == <<printerBuffer, screen>>
readerVars == <<readerPc, readerLocals>>
analyzerVars == <<analyzerPc, analyzerLocals>>
printerVars == <<printerPc, printerLocals>>
vars == <<killSwitch, procStatVars, usageInfoVars, readerVars, analyzerVars,
          printerVars>>

\* An allocated usage record that was never written.
Unset == <<0, 0>>

\* main of app.c has created everything and started the threads.
Init == /\ killSwitch = "off"
        /\ procStatMtx = "free" /\ usageInfoMtx = "free"
        /\ procStatNotEmptyCv = "quiet" /\ procStatNotFullCv = "quiet"
        /\ usageInfoNotEmptyCv = "quiet" /\ usageInfoNotFullCv = "quiet"
        /\ procStatCbuf = <<>> /\ usageInfoCbuf = <<>>
        /\ readerPc = "start" /\ analyzerPc = "start" /\ printerPc = "start"
        /\ loaded = 0 /\ procStat = 0 /\ allocated = 0
        /\ oldStatBuffer = 0 /\ newStatBuffer = 0
        /\ oldStatBufferInitialized = 0
        /\ usageInfoBuffer = Unset /\ published = Unset
        /\ printerBuffer = Unset /\ screen = Unset

\* Thread_activateKillSwitch, called by the handlers of SIGINT and SIGTERM;
\* the watchdog reaches it by raising SIGTERM.
Thread_activateKillSwitch ==
  /\ killSwitch = "off"
  /\ killSwitch' = "on"
  /\ UNCHANGED <<procStatVars, usageInfoVars, readerVars, analyzerVars,
                 printerVars>>
=============================================================================
