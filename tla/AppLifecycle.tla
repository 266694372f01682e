---------------------------- MODULE AppLifecycle ----------------------------
(***************************************************************************)
(* main of app/app.c: it creates the objects that the threads share,       *)
(* starts and joins the five threads, and destroys the objects again.  No  *)
(* result of a creation is looked at.  That thrd_create fails is left out: *)
(* main would then join a thread whose handle it never initialised, which  *)
(* has no defined result.                                                  *)
(*                                                                         *)
(* A thread is here what it may touch and how it may end; Pipeline.tla,    *)
(* Logger.tla and Watchdog.tla say what it does.                           *)
(***************************************************************************)
EXTENDS Integers, Sequences

CONSTANT Fallible   \* the objects whose creation may fail

LogObjects == {"inMtx", "inNotEmptyCv", "inBuf", "secondaryBuf"}
StampObjects == {"timestampsMtx", "timestampsUpdatedCv"}
ProcStatObjects == {"procStatMtx", "procStatNotEmptyCv", "procStatNotFullCv",
                    "procStatCbuf"}
UsageInfoObjects == {"usageInfoMtx", "usageInfoNotEmptyCv", "usageInfoNotFullCv",
                     "usageInfoCbuf"}
ProcessObjects == {"sigintHandler", "sigtermHandler", "cpuCount"}

Object == ProcessObjects \cup {"tss"} \cup LogObjects \cup StampObjects
            \cup ProcStatObjects \cup UsageInfoObjects

\* The functions of circbuf.c accept NULL for these.
Buffer == {"inBuf", "secondaryBuf", "procStatCbuf", "usageInfoCbuf"}

\* The creation of a mutex, a condition variable or thread-specific storage
\* does not fail ("nigh impossible", watchdog.c:180); a buffer may find no
\* memory.
ASSUME LifecycleAssumption == Fallible \subseteq Buffer

Watched == {"reader", "analyzer", "printer", "logger"}
Thread == Watched \cup {"watchdog"}

\* What a thread touches from its start to its end: every one of them has
\* thread-specific storage, calls Log, and reports or looks at the stamps.
Uses == [t \in Thread |->
  {"tss"} \cup LogObjects \cup StampObjects \cup
  CASE t = "reader" -> {"cpuCount"} \cup ProcStatObjects
    [] t = "analyzer" -> {"cpuCount"} \cup ProcStatObjects \cup UsageInfoObjects
    [] t = "printer" -> {"cpuCount"} \cup UsageInfoObjects
    [] t = "logger" -> {}
    [] t = "watchdog" -> {"sigtermHandler"}]

-----------------------------------------------------------------------------
(* The functions main calls, each as a sequence of operations.             *)

create(o) == [does |-> "create", what |-> o]
destroy(o) == [does |-> "destroy", what |-> o]
start(t) == [does |-> "start", what |-> t]
join(t) == [does |-> "join", what |-> t]

RegisterHandlers == <<create("sigintHandler"), create("sigtermHandler")>>
CpuCount_init == <<create("cpuCount")>>
ThreadInfo_init == <<create("tss")>>
Logger_init == <<create("inMtx"), create("inNotEmptyCv"), create("inBuf"),
                 create("secondaryBuf")>>
Watchdog_init == <<create("timestampsMtx"), create("timestampsUpdatedCv")>>

CreateShared == <<create("procStatMtx"), create("usageInfoMtx"),
                  create("procStatNotEmptyCv"), create("procStatNotFullCv"),
                  create("usageInfoNotEmptyCv"), create("usageInfoNotFullCv"),
                  create("procStatCbuf"), create("usageInfoCbuf")>>

StartThreads == <<start("watchdog"), start("logger"), start("reader"),
                  start("analyzer"), start("printer")>>

\* Sensitivity variant: the logger and the watchdog are not waited for.
JoinThreads_workers == <<join("printer"), join("analyzer"), join("reader")>>

JoinThreads == <<join("printer"), join("analyzer"), join("reader"),
                 join("logger"), join("watchdog")>>

\* One condition variable is destroyed twice, procStatNotEmptyCv never.
DestroyShared == <<destroy("usageInfoNotFullCv"), destroy("usageInfoNotEmptyCv"),
                   destroy("procStatNotFullCv"), destroy("usageInfoNotEmptyCv"),
                   destroy("usageInfoMtx"), destroy("procStatMtx"),
                   destroy("usageInfoCbuf"), destroy("procStatCbuf")>>

ThreadInfo_finalize == <<destroy("tss")>>
Watchdog_finalize == <<destroy("timestampsMtx")>>

\* Sensitivity variant: only one of the two buffers is destroyed.
Logger_finalize_inBuf == <<destroy("inBuf"), destroy("inNotEmptyCv"), destroy("inMtx")>>

Logger_finalize == <<destroy("secondaryBuf"), destroy("inBuf"),
                     destroy("inNotEmptyCv"), destroy("inMtx")>>

main == RegisterHandlers \o CpuCount_init \o ThreadInfo_init \o Logger_init
          \o Watchdog_init \o CreateShared \o StartThreads \o JoinThreads
          \o DestroyShared \o ThreadInfo_finalize \o Watchdog_finalize
          \o Logger_finalize

-----------------------------------------------------------------------------
VARIABLES
  mainPc,      \* the operation of main that comes next
  object,      \* object[o]: "none", "live" or "gone"
  thread,      \* thread[t]: "none", "starting", "running" or "ended"
  killSwitch

vars == <<mainPc, object, thread, killSwitch>>

Init == /\ mainPc = 1
        /\ object = [o \in Object |-> "none"]
        /\ thread = [t \in Thread |-> "none"]
        /\ killSwitch = "off"

Done == mainPc > Len(main)

Now(does) == ~Done /\ main[mainPc].does = does
what == main[mainPc].what

Create == /\ Now("create")
          /\ object' = [object EXCEPT ![what] = "live"]
          /\ mainPc' = mainPc + 1
          /\ UNCHANGED <<thread, killSwitch>>

\* Logger_init returns at once when the first of its buffers fails.
CreateFails == /\ Now("create") /\ what \in Fallible
               /\ mainPc' = mainPc + (IF what = "inBuf" THEN 2 ELSE 1)
               /\ UNCHANGED <<object, thread, killSwitch>>

\* thrd_create, which succeeds here.
Start == /\ Now("start")
         /\ thread' = [thread EXCEPT ![what] = "starting"]
         /\ mainPc' = mainPc + 1
         /\ UNCHANGED <<object, killSwitch>>

Join == /\ Now("join") /\ thread[what] = "ended"
        /\ mainPc' = mainPc + 1
        /\ UNCHANGED <<object, thread, killSwitch>>

\* CircularBuffer_destroy(NULL) does nothing.
Destroy == /\ Now("destroy")
           /\ object' = [object EXCEPT ![what] = IF @ = "none" THEN @ ELSE "gone"]
           /\ mainPc' = mainPc + 1
           /\ UNCHANGED <<thread, killSwitch>>

Main == Create \/ CreateFails \/ Start \/ Join \/ Destroy

-----------------------------------------------------------------------------
Becomes(t, from, to) == /\ thread[t] = from
                        /\ thread' = [thread EXCEPT ![t] = to]
                        /\ UNCHANGED <<mainPc, object, killSwitch>>

\* ThreadInfo_set, malloc, fopen or the watchdog's lock may fail at the start;
\* LoggerThread needs its first buffer.
ThreadStarts(t) == \/ Becomes(t, "starting", "ended")
                   \/ /\ t = "logger" => object["inBuf"] # "none"
                      /\ Becomes(t, "starting", "running")

ThreadEnds(t) == killSwitch = "on" /\ Becomes(t, "running", "ended")

SetKillSwitch == /\ killSwitch = "off" /\ killSwitch' = "on"
                 /\ UNCHANGED <<mainPc, object, thread>>

\* Sensitivity variant: the alarm is only written to the log.
WatchdogAlarm_logged == FALSE /\ SetKillSwitch

\* The watchdog raises SIGTERM for a thread that does not report, because it
\* has ended or is not there yet.
WatchdogAlarm == /\ thread["watchdog"] = "running"
                 /\ \E t \in Watched : thread[t] # "running"
                 /\ SetKillSwitch

\* SIGINT or SIGTERM from outside, once the handlers are there.
Signal == /\ object["sigintHandler"] = "live" /\ object["sigtermHandler"] = "live"
          /\ SetKillSwitch

\* main has returned.
Terminated == Done /\ UNCHANGED vars

Next == \/ Main
        \/ \E t \in Thread : ThreadStarts(t) \/ ThreadEnds(t)
        \/ WatchdogAlarm \/ Signal
        \/ Terminated

Spec == Init /\ [][Next]_vars

\* Every thread that can run does; the watchdog looks again and again.
FairSpec == /\ Spec
            /\ WF_vars(Main)
            /\ \A t \in Thread : WF_vars(ThreadStarts(t)) /\ WF_vars(ThreadEnds(t))
            /\ WF_vars(WatchdogAlarm)

-----------------------------------------------------------------------------
\* Whatever a thread may touch lives while the thread does, also when the
\* kill switch ends threads that main has not even waited for yet.  A buffer
\* may be missing, but must not be freed.
UsedWhileAlive ==
  \A t \in Thread : thread[t] \in {"starting", "running"} =>
    \A o \in Uses[t] : object[o] = "live" \/ (o \in Buffer /\ object[o] = "none")

\* Whichever creations failed, all that main leaves behind are two condition
\* variables and what belongs to the process.
ReleasedAtEnd ==
  Done => \A o \in Object : object[o] = "live" =>
            o \in ProcessObjects \cup {"procStatNotEmptyCv", "timestampsUpdatedCv"}

\* Provided that every thread was created, the program ends once it is told to,
\* and also when a thread gives up at its start: the watchdog notices, unless it
\* has given up itself.
EndsInTheEnd ==
  /\ killSwitch = "on" ~> Done
  /\ \A t \in Watched :
       thread[t] = "ended" ~> Done \/ (thread["watchdog"] = "ended" /\ killSwitch = "off")
=============================================================================
