------------------------- MODULE AppLifecycleProofs -------------------------
(***************************************************************************)
(* Theorems about main of app/app.c, whichever buffers it has no memory    *)
(* for and whichever threads fail at their start.                          *)
(***************************************************************************)
EXTENDS AppLifecycle, SequenceTheorems, TLAPS

(* Where the operations of main are.                                       *)

Creations == 1 .. 18
Starts == 19 .. 23
Joins == 24 .. 28
Destructions == 29 .. 42

Operation == [does : {"create", "destroy"}, what : Object]
               \cup [does : {"start", "join"}, what : Thread]

\* Two sequences of operations, one after the other.
LEMMA Joined ==
  ASSUME NEW s \in Seq(Operation), NEW q \in Seq(Operation)
  PROVE  /\ s \o q \in Seq(Operation)
         /\ Len(s \o q) = Len(s) + Len(q)
         /\ \A i \in 1 .. Len(s) : (s \o q)[i] = s[i]
         /\ \A i \in 1 .. Len(q) : (s \o q)[Len(s) + i] = q[i]
<1>1. /\ s \o q \in Seq(Operation) /\ Len(s \o q) = Len(s) + Len(q)
      /\ \A i \in 1 .. Len(s) + Len(q) :
           (s \o q)[i] = IF i <= Len(s) THEN s[i] ELSE q[i - Len(s)]
  BY ConcatProperties
<1>2. Len(s) \in Nat /\ Len(q) \in Nat
  OBVIOUS
<1>3. ASSUME NEW i \in 1 .. Len(s) PROVE (s \o q)[i] = s[i]
  BY <1>1, <1>2
<1>4. ASSUME NEW i \in 1 .. Len(q) PROVE (s \o q)[Len(s) + i] = q[i]
  <2>1. Len(s) + i \in 1 .. Len(s) + Len(q) /\ ~(Len(s) + i <= Len(s)) /\ (Len(s) + i) - Len(s) = i
    BY <1>2
  <2>2. QED
    BY <1>1, <2>1
<1>5. QED
  BY <1>1, <1>3, <1>4

\* An operation is a record of what is done and to what.
LEMMA Operations ==
  /\ \A o \in Object : create(o) \in Operation /\ destroy(o) \in Operation
  /\ \A t \in Thread : start(t) \in Operation /\ join(t) \in Operation
  BY DEF Operation, create, destroy, start, join

\* The functions that main calls are sequences of operations.
LEMMA Parts ==
  /\ RegisterHandlers \in Seq(Operation) /\ Len(RegisterHandlers) = 2
  /\ CpuCount_init \in Seq(Operation) /\ Len(CpuCount_init) = 1
  /\ ThreadInfo_init \in Seq(Operation) /\ Len(ThreadInfo_init) = 1
  /\ Logger_init \in Seq(Operation) /\ Len(Logger_init) = 4
  /\ Watchdog_init \in Seq(Operation) /\ Len(Watchdog_init) = 2
  /\ CreateShared \in Seq(Operation) /\ Len(CreateShared) = 8
  /\ StartThreads \in Seq(Operation) /\ Len(StartThreads) = 5
  /\ JoinThreads \in Seq(Operation) /\ Len(JoinThreads) = 5
  /\ DestroyShared \in Seq(Operation) /\ Len(DestroyShared) = 8
  /\ ThreadInfo_finalize \in Seq(Operation) /\ Len(ThreadInfo_finalize) = 1
  /\ Watchdog_finalize \in Seq(Operation) /\ Len(Watchdog_finalize) = 1
  /\ Logger_finalize \in Seq(Operation) /\ Len(Logger_finalize) = 4
<1>1. RegisterHandlers \in Seq(Operation) /\ Len(RegisterHandlers) = 2
  BY Operations DEF RegisterHandlers, Object, ProcessObjects
<1>2. CpuCount_init \in Seq(Operation) /\ Len(CpuCount_init) = 1
  BY Operations DEF CpuCount_init, Object, ProcessObjects
<1>3. ThreadInfo_init \in Seq(Operation) /\ Len(ThreadInfo_init) = 1
  BY Operations DEF ThreadInfo_init, Object
<1>4. Logger_init \in Seq(Operation) /\ Len(Logger_init) = 4
  BY Operations DEF Logger_init, Object, LogObjects
<1>5. Watchdog_init \in Seq(Operation) /\ Len(Watchdog_init) = 2
  BY Operations DEF Watchdog_init, Object, StampObjects
<1>6. CreateShared \in Seq(Operation) /\ Len(CreateShared) = 8
  BY Operations DEF CreateShared, Object, ProcStatObjects, UsageInfoObjects
<1>7. StartThreads \in Seq(Operation) /\ Len(StartThreads) = 5
  BY Operations DEF StartThreads, Thread, Watched
<1>8. JoinThreads \in Seq(Operation) /\ Len(JoinThreads) = 5
  BY Operations DEF JoinThreads, Thread, Watched
<1>9. DestroyShared \in Seq(Operation) /\ Len(DestroyShared) = 8
  BY Operations DEF DestroyShared, Object, ProcStatObjects, UsageInfoObjects
<1>10. ThreadInfo_finalize \in Seq(Operation) /\ Len(ThreadInfo_finalize) = 1
  BY Operations DEF ThreadInfo_finalize, Object
<1>11. Watchdog_finalize \in Seq(Operation) /\ Len(Watchdog_finalize) = 1
  BY Operations DEF Watchdog_finalize, Object, StampObjects
<1>12. Logger_finalize \in Seq(Operation) /\ Len(Logger_finalize) = 4
  BY Operations DEF Logger_finalize, Object, LogObjects
<1>13. QED
  BY <1>1, <1>2, <1>3, <1>4, <1>5, <1>6, <1>7, <1>8, <1>9, <1>10, <1>11, <1>12

-----------------------------------------------------------------------------
(* The twelve parts of main, and where each begins.                        *)

main2 == RegisterHandlers \o CpuCount_init
main3 == main2 \o ThreadInfo_init
main4 == main3 \o Logger_init
main5 == main4 \o Watchdog_init
main6 == main5 \o CreateShared
main7 == main6 \o StartThreads
main8 == main7 \o JoinThreads
main9 == main8 \o DestroyShared
main10 == main9 \o ThreadInfo_finalize
main11 == main10 \o Watchdog_finalize

\* Which part of main an operation belongs to, by its position.
LEMMA Layout ==
  /\ main \in Seq(Operation) /\ Len(main) = 42
  /\ \A i \in 1 .. 2 : main[i] = RegisterHandlers[i]
  /\ \A i \in 1 .. 1 : main[2 + i] = CpuCount_init[i]
  /\ \A i \in 1 .. 1 : main[3 + i] = ThreadInfo_init[i]
  /\ \A i \in 1 .. 4 : main[4 + i] = Logger_init[i]
  /\ \A i \in 1 .. 2 : main[8 + i] = Watchdog_init[i]
  /\ \A i \in 1 .. 8 : main[10 + i] = CreateShared[i]
  /\ \A i \in 1 .. 5 : main[18 + i] = StartThreads[i]
  /\ \A i \in 1 .. 5 : main[23 + i] = JoinThreads[i]
  /\ \A i \in 1 .. 8 : main[28 + i] = DestroyShared[i]
  /\ \A i \in 1 .. 1 : main[36 + i] = ThreadInfo_finalize[i]
  /\ \A i \in 1 .. 1 : main[37 + i] = Watchdog_finalize[i]
  /\ \A i \in 1 .. 4 : main[38 + i] = Logger_finalize[i]
<1>2. /\ main2 \in Seq(Operation) /\ Len(main2) = 3
      /\ \A i \in 1 .. 2 : main2[i] = RegisterHandlers[i]
      /\ \A i \in 1 .. 1 : main2[2 + i] = CpuCount_init[i]
  <2>1. /\ RegisterHandlers \in Seq(Operation) /\ Len(RegisterHandlers) = 2
        /\ CpuCount_init \in Seq(Operation) /\ Len(CpuCount_init) = 1
    BY Parts
  <2>2. main2 = RegisterHandlers \o CpuCount_init
    BY Zenon DEF main2
  <2>3. /\ main2 \in Seq(Operation) /\ Len(main2) = Len(RegisterHandlers) + Len(CpuCount_init)
        /\ \A i \in 1 .. Len(RegisterHandlers) : main2[i] = RegisterHandlers[i]
        /\ \A i \in 1 .. Len(CpuCount_init) : main2[Len(RegisterHandlers) + i] = CpuCount_init[i]
    BY <2>1, <2>2, Joined, ZenonT(30)
  <2>4. QED
    BY <2>1, <2>3
<1>3. /\ main3 \in Seq(Operation) /\ Len(main3) = 4
      /\ \A i \in 1 .. 3 : main3[i] = main2[i]
      /\ \A i \in 1 .. 1 : main3[3 + i] = ThreadInfo_init[i]
  <2>1. /\ main2 \in Seq(Operation) /\ Len(main2) = 3
        /\ ThreadInfo_init \in Seq(Operation) /\ Len(ThreadInfo_init) = 1
    BY <1>2, Parts
  <2>2. main3 = main2 \o ThreadInfo_init
    BY Zenon DEF main3
  <2>3. /\ main3 \in Seq(Operation) /\ Len(main3) = Len(main2) + Len(ThreadInfo_init)
        /\ \A i \in 1 .. Len(main2) : main3[i] = main2[i]
        /\ \A i \in 1 .. Len(ThreadInfo_init) : main3[Len(main2) + i] = ThreadInfo_init[i]
    BY <2>1, <2>2, Joined, ZenonT(30)
  <2>4. QED
    BY <2>1, <2>3
<1>4. /\ main4 \in Seq(Operation) /\ Len(main4) = 8
      /\ \A i \in 1 .. 4 : main4[i] = main3[i]
      /\ \A i \in 1 .. 4 : main4[4 + i] = Logger_init[i]
  <2>1. /\ main3 \in Seq(Operation) /\ Len(main3) = 4
        /\ Logger_init \in Seq(Operation) /\ Len(Logger_init) = 4
    BY <1>3, Parts
  <2>2. main4 = main3 \o Logger_init
    BY Zenon DEF main4
  <2>3. /\ main4 \in Seq(Operation) /\ Len(main4) = Len(main3) + Len(Logger_init)
        /\ \A i \in 1 .. Len(main3) : main4[i] = main3[i]
        /\ \A i \in 1 .. Len(Logger_init) : main4[Len(main3) + i] = Logger_init[i]
    BY <2>1, <2>2, Joined, ZenonT(30)
  <2>4. QED
    BY <2>1, <2>3
<1>5. /\ main5 \in Seq(Operation) /\ Len(main5) = 10
      /\ \A i \in 1 .. 8 : main5[i] = main4[i]
      /\ \A i \in 1 .. 2 : main5[8 + i] = Watchdog_init[i]
  <2>1. /\ main4 \in Seq(Operation) /\ Len(main4) = 8
        /\ Watchdog_init \in Seq(Operation) /\ Len(Watchdog_init) = 2
    BY <1>4, Parts
  <2>2. main5 = main4 \o Watchdog_init
    BY Zenon DEF main5
  <2>3. /\ main5 \in Seq(Operation) /\ Len(main5) = Len(main4) + Len(Watchdog_init)
        /\ \A i \in 1 .. Len(main4) : main5[i] = main4[i]
        /\ \A i \in 1 .. Len(Watchdog_init) : main5[Len(main4) + i] = Watchdog_init[i]
    BY <2>1, <2>2, Joined, ZenonT(30)
  <2>4. QED
    BY <2>1, <2>3
<1>6. /\ main6 \in Seq(Operation) /\ Len(main6) = 18
      /\ \A i \in 1 .. 10 : main6[i] = main5[i]
      /\ \A i \in 1 .. 8 : main6[10 + i] = CreateShared[i]
  <2>1. /\ main5 \in Seq(Operation) /\ Len(main5) = 10
        /\ CreateShared \in Seq(Operation) /\ Len(CreateShared) = 8
    BY <1>5, Parts
  <2>2. main6 = main5 \o CreateShared
    BY Zenon DEF main6
  <2>3. /\ main6 \in Seq(Operation) /\ Len(main6) = Len(main5) + Len(CreateShared)
        /\ \A i \in 1 .. Len(main5) : main6[i] = main5[i]
        /\ \A i \in 1 .. Len(CreateShared) : main6[Len(main5) + i] = CreateShared[i]
    BY <2>1, <2>2, Joined, ZenonT(30)
  <2>4. QED
    BY <2>1, <2>3
<1>7. /\ main7 \in Seq(Operation) /\ Len(main7) = 23
      /\ \A i \in 1 .. 18 : main7[i] = main6[i]
      /\ \A i \in 1 .. 5 : main7[18 + i] = StartThreads[i]
  <2>1. /\ main6 \in Seq(Operation) /\ Len(main6) = 18
        /\ StartThreads \in Seq(Operation) /\ Len(StartThreads) = 5
    BY <1>6, Parts
  <2>2. main7 = main6 \o StartThreads
    BY Zenon DEF main7
  <2>3. /\ main7 \in Seq(Operation) /\ Len(main7) = Len(main6) + Len(StartThreads)
        /\ \A i \in 1 .. Len(main6) : main7[i] = main6[i]
        /\ \A i \in 1 .. Len(StartThreads) : main7[Len(main6) + i] = StartThreads[i]
    BY <2>1, <2>2, Joined, ZenonT(30)
  <2>4. QED
    BY <2>1, <2>3
<1>8. /\ main8 \in Seq(Operation) /\ Len(main8) = 28
      /\ \A i \in 1 .. 23 : main8[i] = main7[i]
      /\ \A i \in 1 .. 5 : main8[23 + i] = JoinThreads[i]
  <2>1. /\ main7 \in Seq(Operation) /\ Len(main7) = 23
        /\ JoinThreads \in Seq(Operation) /\ Len(JoinThreads) = 5
    BY <1>7, Parts
  <2>2. main8 = main7 \o JoinThreads
    BY Zenon DEF main8
  <2>3. /\ main8 \in Seq(Operation) /\ Len(main8) = Len(main7) + Len(JoinThreads)
        /\ \A i \in 1 .. Len(main7) : main8[i] = main7[i]
        /\ \A i \in 1 .. Len(JoinThreads) : main8[Len(main7) + i] = JoinThreads[i]
    BY <2>1, <2>2, Joined, ZenonT(30)
  <2>4. QED
    BY <2>1, <2>3
<1>9. /\ main9 \in Seq(Operation) /\ Len(main9) = 36
      /\ \A i \in 1 .. 28 : main9[i] = main8[i]
      /\ \A i \in 1 .. 8 : main9[28 + i] = DestroyShared[i]
  <2>1. /\ main8 \in Seq(Operation) /\ Len(main8) = 28
        /\ DestroyShared \in Seq(Operation) /\ Len(DestroyShared) = 8
    BY <1>8, Parts
  <2>2. main9 = main8 \o DestroyShared
    BY Zenon DEF main9
  <2>3. /\ main9 \in Seq(Operation) /\ Len(main9) = Len(main8) + Len(DestroyShared)
        /\ \A i \in 1 .. Len(main8) : main9[i] = main8[i]
        /\ \A i \in 1 .. Len(DestroyShared) : main9[Len(main8) + i] = DestroyShared[i]
    BY <2>1, <2>2, Joined, ZenonT(30)
  <2>4. QED
    BY <2>1, <2>3
<1>10. /\ main10 \in Seq(Operation) /\ Len(main10) = 37
       /\ \A i \in 1 .. 36 : main10[i] = main9[i]
       /\ \A i \in 1 .. 1 : main10[36 + i] = ThreadInfo_finalize[i]
  <2>1. /\ main9 \in Seq(Operation) /\ Len(main9) = 36
        /\ ThreadInfo_finalize \in Seq(Operation) /\ Len(ThreadInfo_finalize) = 1
    BY <1>9, Parts
  <2>2. main10 = main9 \o ThreadInfo_finalize
    BY Zenon DEF main10
  <2>3. /\ main10 \in Seq(Operation) /\ Len(main10) = Len(main9) + Len(ThreadInfo_finalize)
        /\ \A i \in 1 .. Len(main9) : main10[i] = main9[i]
        /\ \A i \in 1 .. Len(ThreadInfo_finalize) : main10[Len(main9) + i] = ThreadInfo_finalize[i]
    BY <2>1, <2>2, Joined, ZenonT(30)
  <2>4. QED
    BY <2>1, <2>3
<1>11. /\ main11 \in Seq(Operation) /\ Len(main11) = 38
       /\ \A i \in 1 .. 37 : main11[i] = main10[i]
       /\ \A i \in 1 .. 1 : main11[37 + i] = Watchdog_finalize[i]
  <2>1. /\ main10 \in Seq(Operation) /\ Len(main10) = 37
        /\ Watchdog_finalize \in Seq(Operation) /\ Len(Watchdog_finalize) = 1
    BY <1>10, Parts
  <2>2. main11 = main10 \o Watchdog_finalize
    BY Zenon DEF main11
  <2>3. /\ main11 \in Seq(Operation) /\ Len(main11) = Len(main10) + Len(Watchdog_finalize)
        /\ \A i \in 1 .. Len(main10) : main11[i] = main10[i]
        /\ \A i \in 1 .. Len(Watchdog_finalize) : main11[Len(main10) + i] = Watchdog_finalize[i]
    BY <2>1, <2>2, Joined, ZenonT(30)
  <2>4. QED
    BY <2>1, <2>3
<1>12. /\ main \in Seq(Operation) /\ Len(main) = 42
       /\ \A i \in 1 .. 38 : main[i] = main11[i]
       /\ \A i \in 1 .. 4 : main[38 + i] = Logger_finalize[i]
  <2>1. /\ main11 \in Seq(Operation) /\ Len(main11) = 38
        /\ Logger_finalize \in Seq(Operation) /\ Len(Logger_finalize) = 4
    BY <1>11, Parts
  <2>2. main = main11 \o Logger_finalize
    BY Zenon DEF main, main2, main3, main4, main5, main6, main7, main8, main9, main10, main11
  <2>3. /\ main \in Seq(Operation) /\ Len(main) = Len(main11) + Len(Logger_finalize)
        /\ \A i \in 1 .. Len(main11) : main[i] = main11[i]
        /\ \A i \in 1 .. Len(Logger_finalize) : main[Len(main11) + i] = Logger_finalize[i]
    BY <2>1, <2>2, Joined, ZenonT(30)
  <2>4. QED
    BY <2>1, <2>3
<1>13. \A i \in 1 .. 38 : main[i] = main11[i]
  BY <1>12
<1>14. ASSUME NEW i \in 1 .. 37 PROVE main[i] = main10[i]
  <2>1. i \in 1 .. 38
    OBVIOUS
  <2>2. QED
    BY <1>11, <1>13, <2>1, Zenon
<1>15. ASSUME NEW i \in 1 .. 36 PROVE main[i] = main9[i]
  <2>1. i \in 1 .. 37
    OBVIOUS
  <2>2. QED
    BY <1>10, <1>14, <2>1, Zenon
<1>16. ASSUME NEW i \in 1 .. 28 PROVE main[i] = main8[i]
  <2>1. i \in 1 .. 36
    OBVIOUS
  <2>2. QED
    BY <1>9, <1>15, <2>1, Zenon
<1>17. ASSUME NEW i \in 1 .. 23 PROVE main[i] = main7[i]
  <2>1. i \in 1 .. 28
    OBVIOUS
  <2>2. QED
    BY <1>8, <1>16, <2>1, Zenon
<1>18. ASSUME NEW i \in 1 .. 18 PROVE main[i] = main6[i]
  <2>1. i \in 1 .. 23
    OBVIOUS
  <2>2. QED
    BY <1>7, <1>17, <2>1, Zenon
<1>19. ASSUME NEW i \in 1 .. 10 PROVE main[i] = main5[i]
  <2>1. i \in 1 .. 18
    OBVIOUS
  <2>2. QED
    BY <1>6, <1>18, <2>1, Zenon
<1>20. ASSUME NEW i \in 1 .. 8 PROVE main[i] = main4[i]
  <2>1. i \in 1 .. 10
    OBVIOUS
  <2>2. QED
    BY <1>5, <1>19, <2>1, Zenon
<1>21. ASSUME NEW i \in 1 .. 4 PROVE main[i] = main3[i]
  <2>1. i \in 1 .. 8
    OBVIOUS
  <2>2. QED
    BY <1>4, <1>20, <2>1, Zenon
<1>22. ASSUME NEW i \in 1 .. 3 PROVE main[i] = main2[i]
  <2>1. i \in 1 .. 4
    OBVIOUS
  <2>2. QED
    BY <1>3, <1>21, <2>1, Zenon
<1>23. ASSUME NEW i \in 1 .. 2 PROVE main[i] = RegisterHandlers[i]
  <2>1. i \in 1 .. 3
    OBVIOUS
  <2>2. QED
    BY <1>2, <1>22, <2>1, Zenon
<1>24. ASSUME NEW i \in 1 .. 1 PROVE main[2 + i] = CpuCount_init[i]
  <2>1. 2 + i \in 1 .. 3
    OBVIOUS
  <2>2. main[2 + i] = main2[2 + i]
    BY <1>22, <2>1, Zenon
  <2>3. main2[2 + i] = CpuCount_init[i]
    BY <1>2
  <2>4. QED
    BY <2>2, <2>3, Zenon
<1>25. ASSUME NEW i \in 1 .. 1 PROVE main[3 + i] = ThreadInfo_init[i]
  <2>1. 3 + i \in 1 .. 4
    OBVIOUS
  <2>2. main[3 + i] = main3[3 + i]
    BY <1>21, <2>1, Zenon
  <2>3. main3[3 + i] = ThreadInfo_init[i]
    BY <1>3
  <2>4. QED
    BY <2>2, <2>3, Zenon
<1>26. ASSUME NEW i \in 1 .. 4 PROVE main[4 + i] = Logger_init[i]
  <2>1. 4 + i \in 1 .. 8
    OBVIOUS
  <2>2. main[4 + i] = main4[4 + i]
    BY <1>20, <2>1, Zenon
  <2>3. main4[4 + i] = Logger_init[i]
    BY <1>4
  <2>4. QED
    BY <2>2, <2>3, Zenon
<1>27. ASSUME NEW i \in 1 .. 2 PROVE main[8 + i] = Watchdog_init[i]
  <2>1. 8 + i \in 1 .. 10
    OBVIOUS
  <2>2. main[8 + i] = main5[8 + i]
    BY <1>19, <2>1, Zenon
  <2>3. main5[8 + i] = Watchdog_init[i]
    BY <1>5
  <2>4. QED
    BY <2>2, <2>3, Zenon
<1>28. ASSUME NEW i \in 1 .. 8 PROVE main[10 + i] = CreateShared[i]
  <2>1. 10 + i \in 1 .. 18
    OBVIOUS
  <2>2. main[10 + i] = main6[10 + i]
    BY <1>18, <2>1, Zenon
  <2>3. main6[10 + i] = CreateShared[i]
    BY <1>6
  <2>4. QED
    BY <2>2, <2>3, Zenon
<1>29. ASSUME NEW i \in 1 .. 5 PROVE main[18 + i] = StartThreads[i]
  <2>1. 18 + i \in 1 .. 23
    OBVIOUS
  <2>2. main[18 + i] = main7[18 + i]
    BY <1>17, <2>1, Zenon
  <2>3. main7[18 + i] = StartThreads[i]
    BY <1>7
  <2>4. QED
    BY <2>2, <2>3, Zenon
<1>30. ASSUME NEW i \in 1 .. 5 PROVE main[23 + i] = JoinThreads[i]
  <2>1. 23 + i \in 1 .. 28
    OBVIOUS
  <2>2. main[23 + i] = main8[23 + i]
    BY <1>16, <2>1, Zenon
  <2>3. main8[23 + i] = JoinThreads[i]
    BY <1>8
  <2>4. QED
    BY <2>2, <2>3, Zenon
<1>31. ASSUME NEW i \in 1 .. 8 PROVE main[28 + i] = DestroyShared[i]
  <2>1. 28 + i \in 1 .. 36
    OBVIOUS
  <2>2. main[28 + i] = main9[28 + i]
    BY <1>15, <2>1, Zenon
  <2>3. main9[28 + i] = DestroyShared[i]
    BY <1>9
  <2>4. QED
    BY <2>2, <2>3, Zenon
<1>32. ASSUME NEW i \in 1 .. 1 PROVE main[36 + i] = ThreadInfo_finalize[i]
  <2>1. 36 + i \in 1 .. 37
    OBVIOUS
  <2>2. main[36 + i] = main10[36 + i]
    BY <1>14, <2>1, Zenon
  <2>3. main10[36 + i] = ThreadInfo_finalize[i]
    BY <1>10
  <2>4. QED
    BY <2>2, <2>3, Zenon
<1>33. ASSUME NEW i \in 1 .. 1 PROVE main[37 + i] = Watchdog_finalize[i]
  <2>1. 37 + i \in 1 .. 38
    OBVIOUS
  <2>2. main[37 + i] = main11[37 + i]
    BY <1>13, <2>1, Zenon
  <2>3. main11[37 + i] = Watchdog_finalize[i]
    BY <1>11
  <2>4. QED
    BY <2>2, <2>3, Zenon
<1>34. QED
  BY <1>12, <1>23, <1>24, <1>25, <1>26, <1>27, <1>28, <1>29, <1>30, <1>31, <1>32, <1>33

\* The operations of main, one by one.
LEMMA Program ==
  /\ main[1] = create("sigintHandler")
  /\ main[2] = create("sigtermHandler")
  /\ main[3] = create("cpuCount")
  /\ main[4] = create("tss")
  /\ main[5] = create("inMtx")
  /\ main[6] = create("inNotEmptyCv")
  /\ main[7] = create("inBuf")
  /\ main[8] = create("secondaryBuf")
  /\ main[9] = create("timestampsMtx")
  /\ main[10] = create("timestampsUpdatedCv")
  /\ main[11] = create("procStatMtx")
  /\ main[12] = create("usageInfoMtx")
  /\ main[13] = create("procStatNotEmptyCv")
  /\ main[14] = create("procStatNotFullCv")
  /\ main[15] = create("usageInfoNotEmptyCv")
  /\ main[16] = create("usageInfoNotFullCv")
  /\ main[17] = create("procStatCbuf")
  /\ main[18] = create("usageInfoCbuf")
  /\ main[19] = start("watchdog")
  /\ main[20] = start("logger")
  /\ main[21] = start("reader")
  /\ main[22] = start("analyzer")
  /\ main[23] = start("printer")
  /\ main[24] = join("printer")
  /\ main[25] = join("analyzer")
  /\ main[26] = join("reader")
  /\ main[27] = join("logger")
  /\ main[28] = join("watchdog")
  /\ main[29] = destroy("usageInfoNotFullCv")
  /\ main[30] = destroy("usageInfoNotEmptyCv")
  /\ main[31] = destroy("procStatNotFullCv")
  /\ main[32] = destroy("usageInfoNotEmptyCv")
  /\ main[33] = destroy("usageInfoMtx")
  /\ main[34] = destroy("procStatMtx")
  /\ main[35] = destroy("usageInfoCbuf")
  /\ main[36] = destroy("procStatCbuf")
  /\ main[37] = destroy("tss")
  /\ main[38] = destroy("timestampsMtx")
  /\ main[39] = destroy("secondaryBuf")
  /\ main[40] = destroy("inBuf")
  /\ main[41] = destroy("inNotEmptyCv")
  /\ main[42] = destroy("inMtx")
<1>1. /\ main[1] = create("sigintHandler")
      /\ main[2] = create("sigtermHandler")
  <2>1. \A i \in 1 .. 2 : main[i] = RegisterHandlers[i]
    BY Layout
  <2>2. QED
    BY <2>1 DEF RegisterHandlers
<1>2. /\ main[3] = create("cpuCount")
  <2>1. \A i \in 1 .. 1 : main[2 + i] = CpuCount_init[i]
    BY Layout
  <2>2. QED
    BY <2>1 DEF CpuCount_init
<1>3. /\ main[4] = create("tss")
  <2>1. \A i \in 1 .. 1 : main[3 + i] = ThreadInfo_init[i]
    BY Layout
  <2>2. QED
    BY <2>1 DEF ThreadInfo_init
<1>4. /\ main[5] = create("inMtx")
      /\ main[6] = create("inNotEmptyCv")
      /\ main[7] = create("inBuf")
      /\ main[8] = create("secondaryBuf")
  <2>1. \A i \in 1 .. 4 : main[4 + i] = Logger_init[i]
    BY Layout
  <2>2. QED
    BY <2>1 DEF Logger_init
<1>5. /\ main[9] = create("timestampsMtx")
      /\ main[10] = create("timestampsUpdatedCv")
  <2>1. \A i \in 1 .. 2 : main[8 + i] = Watchdog_init[i]
    BY Layout
  <2>2. QED
    BY <2>1 DEF Watchdog_init
<1>6. /\ main[11] = create("procStatMtx")
      /\ main[12] = create("usageInfoMtx")
      /\ main[13] = create("procStatNotEmptyCv")
      /\ main[14] = create("procStatNotFullCv")
      /\ main[15] = create("usageInfoNotEmptyCv")
      /\ main[16] = create("usageInfoNotFullCv")
      /\ main[17] = create("procStatCbuf")
      /\ main[18] = create("usageInfoCbuf")
  <2>1. \A i \in 1 .. 8 : main[10 + i] = CreateShared[i]
    BY Layout
  <2>2. QED
    BY <2>1 DEF CreateShared
<1>7. /\ main[19] = start("watchdog")
      /\ main[20] = start("logger")
      /\ main[21] = start("reader")
      /\ main[22] = start("analyzer")
      /\ main[23] = start("printer")
  <2>1. \A i \in 1 .. 5 : main[18 + i] = StartThreads[i]
    BY Layout
  <2>2. QED
    BY <2>1 DEF StartThreads
<1>8. /\ main[24] = join("printer")
      /\ main[25] = join("analyzer")
      /\ main[26] = join("reader")
      /\ main[27] = join("logger")
      /\ main[28] = join("watchdog")
  <2>1. \A i \in 1 .. 5 : main[23 + i] = JoinThreads[i]
    BY Layout
  <2>2. QED
    BY <2>1 DEF JoinThreads
<1>9. /\ main[29] = destroy("usageInfoNotFullCv")
      /\ main[30] = destroy("usageInfoNotEmptyCv")
      /\ main[31] = destroy("procStatNotFullCv")
      /\ main[32] = destroy("usageInfoNotEmptyCv")
      /\ main[33] = destroy("usageInfoMtx")
      /\ main[34] = destroy("procStatMtx")
      /\ main[35] = destroy("usageInfoCbuf")
      /\ main[36] = destroy("procStatCbuf")
  <2>1. \A i \in 1 .. 8 : main[28 + i] = DestroyShared[i]
    BY Layout
  <2>2. QED
    BY <2>1 DEF DestroyShared
<1>10. /\ main[37] = destroy("tss")
  <2>1. \A i \in 1 .. 1 : main[36 + i] = ThreadInfo_finalize[i]
    BY Layout
  <2>2. QED
    BY <2>1 DEF ThreadInfo_finalize
<1>11. /\ main[38] = destroy("timestampsMtx")
  <2>1. \A i \in 1 .. 1 : main[37 + i] = Watchdog_finalize[i]
    BY Layout
  <2>2. QED
    BY <2>1 DEF Watchdog_finalize
<1>12. /\ main[39] = destroy("secondaryBuf")
       /\ main[40] = destroy("inBuf")
       /\ main[41] = destroy("inNotEmptyCv")
       /\ main[42] = destroy("inMtx")
  <2>1. \A i \in 1 .. 4 : main[38 + i] = Logger_finalize[i]
    BY Layout
  <2>2. QED
    BY <2>1 DEF Logger_finalize
<1>13. QED
  BY <1>1, <1>2, <1>3, <1>4, <1>5, <1>6, <1>7, <1>8, <1>9, <1>10, <1>11, <1>12
-----------------------------------------------------------------------------
(* The invariant.                                                          *)

TypeInv == /\ mainPc \in 1 .. 43
           /\ object \in [Object -> {"none", "live", "gone"}]
           /\ thread \in [Thread -> {"none", "starting", "running", "ended"}]
           /\ killSwitch \in {"off", "on"}

\* No thread is there before all objects are.
StartedLate == mainPc \in Creations => \A t \in Thread : thread[t] = "none"

\* Whatever main has created is there, but for a buffer.
CreatedBefore ==
  \A i \in Creations : i < mainPc =>
    main[i].what \in Buffer \/ object[main[i].what] # "none"

\* The threads that main has waited for have ended.
JoinedEnded == \A i \in Joins : i < mainPc => thread[main[i].what] = "ended"

\* Nothing is destroyed before all threads are joined.
DestroyedLate == mainPc \notin Destructions \cup {43} =>
                   \A o \in Object : object[o] # "gone"

\* What main has destroyed stays so.
DestroyedBefore ==
  \A i \in Destructions : i < mainPc => object[main[i].what] # "live"

LifeInv == /\ TypeInv /\ StartedLate /\ CreatedBefore /\ JoinedEnded
           /\ DestroyedLate /\ DestroyedBefore

\* What the four phases of main do.
LEMMA Phases ==
  /\ \A i \in Creations : main[i].does = "create" /\ main[i].what \in Object
  /\ \A i \in Starts : main[i].does = "start" /\ main[i].what \in Thread
  /\ \A i \in Joins : main[i].does = "join" /\ main[i].what \in Thread
  /\ \A i \in Destructions : main[i].does = "destroy" /\ main[i].what \in Object
<1>1. \A i \in Creations : main[i].does = "create" /\ main[i].what \in Object
  BY Program DEF Creations, create, Object, ProcessObjects, LogObjects, StampObjects,
     ProcStatObjects, UsageInfoObjects
<1>2. \A i \in Starts : main[i].does = "start" /\ main[i].what \in Thread
  BY Program DEF Starts, start, Thread, Watched
<1>3. \A i \in Joins : main[i].does = "join" /\ main[i].what \in Thread
  BY Program DEF Joins, join, Thread, Watched
<1>4. \A i \in Destructions : main[i].does = "destroy" /\ main[i].what \in Object
  BY Program DEF Destructions, destroy, Object, LogObjects, StampObjects,
     ProcStatObjects, UsageInfoObjects
<1>5. QED
  BY <1>1, <1>2, <1>3, <1>4

\* Nothing is forgotten, but for what ReleasedAtEnd names.
LEMMA Complete ==
  /\ \A o \in Object : \E i \in Creations : main[i].what = o
  /\ \A t \in Thread : \E i \in Joins : main[i].what = t
  /\ \A o \in Object \ (ProcessObjects \cup {"procStatNotEmptyCv", "timestampsUpdatedCv"}) :
       \E i \in Destructions : main[i].what = o
  /\ \A i \in Creations : main[i].what = "inBuf" =>
       i + 1 \in Creations /\ main[i + 1].what \in Buffer
<1>1. ASSUME NEW o \in Object PROVE \E i \in Creations : main[i].what = o
  <2>1. o \in ProcessObjects \cup {"tss"} => \E i \in Creations : main[i].what = o
    BY Program DEF Creations, create, ProcessObjects
  <2>2. o \in LogObjects \cup StampObjects => \E i \in Creations : main[i].what = o
    BY Program DEF Creations, create, LogObjects, StampObjects
  <2>3. o \in ProcStatObjects => \E i \in Creations : main[i].what = o
    BY Program DEF Creations, create, ProcStatObjects
  <2>4. o \in UsageInfoObjects => \E i \in Creations : main[i].what = o
    BY Program DEF Creations, create, UsageInfoObjects
  <2>5. QED
    BY <2>1, <2>2, <2>3, <2>4 DEF Object
<1>2. ASSUME NEW t \in Thread PROVE \E i \in Joins : main[i].what = t
  BY Program DEF Joins, join, Thread, Watched
<1>3. ASSUME NEW o \in Object, o \notin ProcessObjects \cup {"procStatNotEmptyCv", "timestampsUpdatedCv"}
      PROVE  \E i \in Destructions : main[i].what = o
  <2>1. o \in {"tss", "timestampsMtx"} \cup LogObjects => \E i \in Destructions : main[i].what = o
    BY Program DEF Destructions, destroy, LogObjects
  <2>2. o \in ProcStatObjects => \E i \in Destructions : main[i].what = o
    BY <1>3, Program DEF Destructions, destroy, ProcStatObjects
  <2>3. o \in UsageInfoObjects => \E i \in Destructions : main[i].what = o
    BY Program DEF Destructions, destroy, UsageInfoObjects
  <2>4. QED
    BY <1>3, <2>1, <2>2, <2>3 DEF Object, StampObjects
<1>4. ASSUME NEW i \in Creations, main[i].what = "inBuf"
      PROVE  i + 1 \in Creations /\ main[i + 1].what \in Buffer
  BY <1>4, Program DEF Creations, create, Buffer
<1>5. QED
  BY <1>1, <1>2, <1>3, <1>4
-----------------------------------------------------------------------------
(* The steps.                                                              *)

\* Which phase an operation belongs to, and what it is about.
LEMMA Operates ==
  ASSUME TypeInv
  PROVE  /\ Done => mainPc = 43
         /\ Now("create") => mainPc \in Creations /\ what \in Object
         /\ Now("start") => mainPc \in Starts /\ what \in Thread
         /\ Now("join") => mainPc \in Joins /\ what \in Thread
         /\ Now("destroy") => mainPc \in Destructions /\ what \in Object
<1>0. Len(main) = 42
  BY Layout
<1>1. ~Done => mainPc \in Creations \cup Starts \cup Joins \cup Destructions
  BY <1>0 DEF TypeInv, Done, Creations, Starts, Joins, Destructions
<1>2. Done => mainPc = 43
  BY <1>0 DEF TypeInv, Done
<1>3. QED
  BY <1>1, <1>2, Phases DEF Now, what

\* Nothing has been created or started.
LEMMA InitLife == Init => LifeInv
<1> SUFFICES ASSUME Init PROVE LifeInv
  OBVIOUS
<1> USE DEF Init, Creations, Starts, Joins, Destructions
<1>1. TypeInv
  BY DEF TypeInv
<1>2. StartedLate /\ DestroyedLate
  BY DEF StartedLate, DestroyedLate
<1>3. CreatedBefore /\ JoinedEnded /\ DestroyedBefore
  BY DEF CreatedBefore, JoinedEnded, DestroyedBefore
<1>4. QED
  BY <1>1, <1>2, <1>3 DEF LifeInv

\* A creation comes before every start.
LEMMA CreateStep == LifeInv /\ Create => LifeInv'
<1> SUFFICES ASSUME LifeInv, Create PROVE LifeInv'
  OBVIOUS
<1>1. mainPc \in Creations /\ what \in Object
  BY Operates DEF LifeInv, Create
<1>2. /\ object' = [object EXCEPT ![what] = "live"]
      /\ mainPc' = mainPc + 1 /\ UNCHANGED <<thread, killSwitch>>
  BY DEF Create
<1>3. TypeInv'
  BY <1>1, <1>2 DEF LifeInv, TypeInv, Creations
<1>4. StartedLate' /\ JoinedEnded' /\ DestroyedBefore'
  BY <1>1, <1>2 DEF LifeInv, StartedLate, JoinedEnded, DestroyedBefore, Creations, Joins,
     Destructions
<1>5. DestroyedLate'
  BY <1>1, <1>2 DEF LifeInv, TypeInv, DestroyedLate, Creations, Destructions
<1>6. CreatedBefore'
  <2> SUFFICES ASSUME NEW i \in Creations, i < mainPc', main[i].what \notin Buffer
               PROVE  object'[main[i].what] # "none"
    BY DEF CreatedBefore
  <2>1. main[i].what \in Object
    BY Phases
  <2>2. i < mainPc \/ i = mainPc
    BY <1>1, <1>2 DEF Creations
  <2>3. QED
    BY <1>1, <1>2, <2>1, <2>2 DEF LifeInv, TypeInv, CreatedBefore, what
<1>7. QED
  BY <1>3, <1>4, <1>5, <1>6 DEF LifeInv

\* A creation that fails leaves a buffer missing, and main goes on.
LEMMA CreateFailsStep == LifeInv /\ CreateFails => LifeInv'
<1> SUFFICES ASSUME LifeInv, CreateFails PROVE LifeInv'
  OBVIOUS
<1>1. mainPc \in Creations /\ what \in Buffer
  BY Operates, LifecycleAssumption DEF LifeInv, CreateFails
<1>2. /\ mainPc' = mainPc + (IF what = "inBuf" THEN 2 ELSE 1)
      /\ UNCHANGED <<object, thread, killSwitch>>
  BY DEF CreateFails
<1>3. what = "inBuf" => mainPc + 1 \in Creations /\ main[mainPc + 1].what \in Buffer
  BY <1>1, Complete DEF what
<1>4. TypeInv'
  BY <1>1, <1>2 DEF LifeInv, TypeInv, Creations
<1>5. StartedLate' /\ JoinedEnded' /\ DestroyedBefore'
  BY <1>1, <1>2, <1>3 DEF LifeInv, StartedLate, JoinedEnded, DestroyedBefore, Creations,
     Joins, Destructions
<1>6. DestroyedLate'
  BY <1>1, <1>2, <1>3 DEF LifeInv, DestroyedLate, Creations, Destructions
<1>7. CreatedBefore'
  <2> SUFFICES ASSUME NEW i \in Creations, i < mainPc', main[i].what \notin Buffer
               PROVE  object'[main[i].what] # "none"
    BY DEF CreatedBefore
  <2>1. i < mainPc
    BY <1>1, <1>2, <1>3 DEF Creations, what
  <2>2. QED
    BY <1>2, <2>1 DEF LifeInv, CreatedBefore
<1>8. QED
  BY <1>4, <1>5, <1>6, <1>7 DEF LifeInv

\* Only threads are started, after all creations.
LEMMA StartStep == LifeInv /\ Start => LifeInv'
<1> SUFFICES ASSUME LifeInv, Start PROVE LifeInv'
  OBVIOUS
<1>1. mainPc \in Starts /\ what \in Thread
  BY Operates DEF LifeInv, Start
<1>2. /\ thread' = [thread EXCEPT ![what] = "starting"]
      /\ mainPc' = mainPc + 1 /\ UNCHANGED <<object, killSwitch>>
  BY DEF Start
<1>3. TypeInv'
  BY <1>1, <1>2 DEF LifeInv, TypeInv, Starts
<1>4. StartedLate' /\ JoinedEnded' /\ DestroyedBefore' /\ DestroyedLate'
  BY <1>1, <1>2 DEF LifeInv, StartedLate, JoinedEnded, DestroyedBefore, DestroyedLate,
     Creations, Starts, Joins, Destructions
<1>5. CreatedBefore'
  BY <1>1, <1>2 DEF LifeInv, CreatedBefore, Creations, Starts
<1>6. QED
  BY <1>3, <1>4, <1>5 DEF LifeInv

\* main goes on only when the thread it waits for has ended.
LEMMA JoinStep == LifeInv /\ Join => LifeInv'
<1> SUFFICES ASSUME LifeInv, Join PROVE LifeInv'
  OBVIOUS
<1>1. mainPc \in Joins /\ what \in Thread
  BY Operates DEF LifeInv, Join
<1>2. /\ thread[what] = "ended"
      /\ mainPc' = mainPc + 1 /\ UNCHANGED <<object, thread, killSwitch>>
  BY DEF Join
<1>3. TypeInv'
  BY <1>1, <1>2 DEF LifeInv, TypeInv, Joins
<1>4. StartedLate' /\ CreatedBefore' /\ DestroyedLate' /\ DestroyedBefore'
  BY <1>1, <1>2 DEF LifeInv, StartedLate, CreatedBefore, DestroyedBefore, DestroyedLate,
     Creations, Joins, Destructions
<1>5. JoinedEnded'
  <2> SUFFICES ASSUME NEW i \in Joins, i < mainPc' PROVE thread'[main[i].what] = "ended"
    BY DEF JoinedEnded
  <2>1. i < mainPc \/ i = mainPc
    BY <1>1, <1>2 DEF Joins
  <2>2. QED
    BY <1>2, <2>1 DEF LifeInv, JoinedEnded, what
<1>6. QED
  BY <1>3, <1>4, <1>5 DEF LifeInv

\* A destruction comes after every join.
LEMMA DestroyStep == LifeInv /\ Destroy => LifeInv'
<1> SUFFICES ASSUME LifeInv, Destroy PROVE LifeInv'
  OBVIOUS
<1>1. mainPc \in Destructions /\ what \in Object
  BY Operates DEF LifeInv, Destroy
<1>2. /\ object' = [object EXCEPT ![what] = IF @ = "none" THEN @ ELSE "gone"]
      /\ mainPc' = mainPc + 1 /\ UNCHANGED <<thread, killSwitch>>
  BY DEF Destroy
<1>3. \A o \in Object : /\ object'[o] = "none" => object[o] = "none"
                        /\ object'[o] = "live" => object[o] = "live" /\ o # what
  BY <1>1, <1>2 DEF LifeInv, TypeInv
<1>4. TypeInv'
  BY <1>1, <1>2 DEF LifeInv, TypeInv, Destructions
<1>5. StartedLate' /\ JoinedEnded' /\ DestroyedLate'
  BY <1>1, <1>2 DEF LifeInv, StartedLate, JoinedEnded, DestroyedLate,
     Creations, Joins, Destructions
<1>6. CreatedBefore'
  BY <1>1, <1>2, <1>3, Phases DEF LifeInv, CreatedBefore, Creations, Destructions
<1>7. DestroyedBefore'
  <2> SUFFICES ASSUME NEW i \in Destructions, i < mainPc' PROVE object'[main[i].what] # "live"
    BY DEF DestroyedBefore
  <2>1. i < mainPc \/ i = mainPc
    BY <1>1, <1>2 DEF Destructions
  <2>2. main[i].what \in Object
    BY Phases
  <2>3. QED
    BY <1>3, <2>1, <2>2 DEF LifeInv, DestroyedBefore, what
<1>8. QED
  BY <1>4, <1>5, <1>6, <1>7 DEF LifeInv

\* A thread starts to run or ends.
LEMMA ThreadStep ==
  ASSUME LifeInv, NEW t \in Thread, ThreadStarts(t) \/ ThreadEnds(t)
  PROVE  LifeInv'
<1>1. PICK from \in {"starting", "running"}, to \in {"running", "ended"} :
        Becomes(t, from, to)
  BY DEF ThreadStarts, ThreadEnds
<1>2. /\ thread[t] \in {"starting", "running"}
      /\ thread' = [thread EXCEPT ![t] = to] /\ UNCHANGED <<mainPc, object, killSwitch>>
  BY <1>1 DEF Becomes
<1>3. TypeInv' /\ StartedLate'
  BY <1>2 DEF LifeInv, TypeInv, StartedLate
<1>4. CreatedBefore' /\ DestroyedLate' /\ DestroyedBefore'
  BY <1>2 DEF LifeInv, CreatedBefore, DestroyedLate, DestroyedBefore
<1>5. JoinedEnded'
  BY <1>2, Phases DEF LifeInv, TypeInv, JoinedEnded
<1>6. QED
  BY <1>3, <1>4, <1>5 DEF LifeInv

\* Every step of the program keeps LifeInv.
LEMMA LifeStep == LifeInv /\ [Next]_vars => LifeInv'
<1> SUFFICES ASSUME LifeInv, [Next]_vars PROVE LifeInv'
  OBVIOUS
<1>1. CASE Main
  BY <1>1, CreateStep, CreateFailsStep, StartStep, JoinStep, DestroyStep DEF Main
<1>2. CASE \E t \in Thread : ThreadStarts(t) \/ ThreadEnds(t)
  BY <1>2, ThreadStep
<1>3. CASE UNCHANGED <<mainPc, object, thread>> /\ killSwitch' \in {"on", killSwitch}
  BY <1>3 DEF LifeInv, TypeInv, StartedLate, CreatedBefore, JoinedEnded, DestroyedLate,
     DestroyedBefore
<1>4. QED
  BY <1>1, <1>2, <1>3 DEF Next, WatchdogAlarm, Signal, SetKillSwitch, Terminated, vars

\* LifeInv is an invariant.
LEMMA LifeInvariance == Spec => []LifeInv
  BY InitLife, LifeStep, PTL DEF Spec

-----------------------------------------------------------------------------
\* What a thread may touch are objects of main.
LEMMA UsesObjects == \A t \in Thread : Uses[t] \subseteq Object
<1> SUFFICES ASSUME NEW t \in Thread PROVE Uses[t] \subseteq Object
  OBVIOUS
<1>1. {"tss"} \cup LogObjects \cup StampObjects \subseteq Object
  BY DEF Object
<1>2. /\ t = "reader" => Uses[t] = {"tss"} \cup LogObjects \cup StampObjects
                                     \cup ({"cpuCount"} \cup ProcStatObjects)
      /\ t = "analyzer" => Uses[t] = {"tss"} \cup LogObjects \cup StampObjects
                             \cup ({"cpuCount"} \cup ProcStatObjects \cup UsageInfoObjects)
      /\ t = "printer" => Uses[t] = {"tss"} \cup LogObjects \cup StampObjects
                                      \cup ({"cpuCount"} \cup UsageInfoObjects)
      /\ t = "logger" => Uses[t] = {"tss"} \cup LogObjects \cup StampObjects \cup {}
      /\ t = "watchdog" => Uses[t] = {"tss"} \cup LogObjects \cup StampObjects
                                       \cup {"sigtermHandler"}
  BY DEF Uses
<1>3. {"cpuCount", "sigtermHandler"} \cup ProcStatObjects \cup UsageInfoObjects \subseteq Object
  BY DEF Object, ProcessObjects
<1>4. QED
  BY <1>1, <1>2, <1>3 DEF Thread, Watched

\* No thread of app.c ever uses an object that is not created yet or is
\* destroyed already, whichever buffers are missing and whichever threads fail.
THEOREM ThreadsUseLiveObjects == Spec => []UsedWhileAlive
<1>1. LifeInv => UsedWhileAlive
  <2> SUFFICES ASSUME LifeInv, NEW t \in Thread, thread[t] \in {"starting", "running"},
                      NEW o \in Uses[t]
               PROVE  object[o] = "live" \/ (o \in Buffer /\ object[o] = "none")
    BY DEF UsedWhileAlive
  <2>1. mainPc \notin Creations
    BY DEF LifeInv, StartedLate
  <2>2. mainPc \notin Destructions \cup {43}
    <3>1. PICK i \in Joins : main[i].what = t
      BY Complete
    <3>2. ~(i < mainPc)
      BY <3>1 DEF LifeInv, JoinedEnded
    <3>3. QED
      BY <3>2 DEF Joins, Destructions
  <2>3. o \in Object
    BY UsesObjects
  <2>4. object[o] \in {"none", "live", "gone"}
    BY <2>3 DEF LifeInv, TypeInv
  <2>5. o \in Buffer \/ object[o] # "none"
    <3>1. PICK i \in Creations : main[i].what = o
      BY <2>3, Complete
    <3>2. i < mainPc
      BY <2>1 DEF LifeInv, TypeInv, Creations
    <3>3. QED
      BY <3>1, <3>2 DEF LifeInv, CreatedBefore
  <2>6. object[o] # "gone"
    BY <2>2, <2>3 DEF LifeInv, DestroyedLate
  <2>7. QED
    BY <2>4, <2>5, <2>6
<1>2. QED
  BY <1>1, LifeInvariance, PTL

\* When main of app.c returns, only the two condition variables it forgets and
\* what belongs to the process are left.
THEOREM OnlyTwoRemain == Spec => []ReleasedAtEnd
<1>1. LifeInv => ReleasedAtEnd
  <2> SUFFICES ASSUME LifeInv, Done, NEW o \in Object, object[o] = "live"
               PROVE  o \in ProcessObjects \cup {"procStatNotEmptyCv", "timestampsUpdatedCv"}
    BY DEF ReleasedAtEnd
  <2>1. mainPc = 43
    BY Operates DEF LifeInv
  <2>2. SUFFICES ASSUME o \notin ProcessObjects \cup {"procStatNotEmptyCv", "timestampsUpdatedCv"}
                 PROVE  FALSE
    OBVIOUS
  <2>3. PICK i \in Destructions : main[i].what = o
    BY <2>2, Complete
  <2>4. i < mainPc
    BY <2>1 DEF Destructions
  <2>5. QED
    BY <2>3, <2>4 DEF LifeInv, DestroyedBefore
<1>2. QED
  BY <1>1, LifeInvariance, PTL
=============================================================================
