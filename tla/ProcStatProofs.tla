--------------------------- MODULE ProcStatProofs ---------------------------
(***************************************************************************)
(* Proofs about the samples of /proc/stat, for any finite set of           *)
(* processors, any number of other lines, and any length of the lines and  *)
(* of the buffer.                                                          *)
(***************************************************************************)
EXTENDS ProcStat, TLAPS, FiniteSetTheorems, SequenceTheorems

\* The sizes are numbers.
LEMMA Numbers ==
  /\ LineLength \in Nat /\ LineLength > 1 /\ BufferLength \in Nat /\ BufferLength > 0
  /\ OtherLines \in Nat /\ MaxLines \in Nat
  BY ProcStatAssumption

\* How many complete lines the buffer holds.
Complete == BufferLength \div LineLength

\* Lines that fit into the buffer are no more than that, nor than the queue has.
LEMMA FitsIsComplete ==
  ASSUME NEW n \in Nat, n * LineLength < BufferLength
  PROVE  n <= Complete /\ n <= MaxLines
  BY Numbers, ProcStatAssumption DEF Complete

\* The number of complete lines is a number.
LEMMA CompleteIsNat == Complete \in Nat
  BY Numbers DEF Complete

-----------------------------------------------------------------------------
(* The file and what is read of it.                                        *)

\* The lines of the file: the total, the processors in order, the rest.
LEMMA FileLines ==
  ASSUME Cardinality(online) \in Nat
  PROVE  /\ \E S : procStatFile \in Seq(S)
         /\ Len(procStatFile) = 1 + Cardinality(online) + OtherLines
         /\ procStatFile[1] = line(Total)
         /\ \A i \in 1 .. Cardinality(online) : procStatFile[i + 1] = line(numbered(online)[i])
<1> DEFINE n == Cardinality(online)
           P == [i \in 1 .. n |-> line(numbered(online)[i])]
           R == [i \in 1 .. OtherLines |-> line(Other)]
           S == {line(Total), line(Other)} \cup {P[i] : i \in 1 .. n}
           T == <<line(Total)>>
<1>1. P \in Seq(S) /\ Len(P) = n
  <2>1. P \in [1 .. n -> S]
    OBVIOUS
  <2>2. QED
    BY <2>1
<1>2. R \in Seq(S) /\ Len(R) = OtherLines
  <2>1. R \in [1 .. OtherLines -> S]
    OBVIOUS
  <2>2. QED
    BY <2>1, Numbers
<1>3. T \in Seq(S) /\ Len(T) = 1 /\ T[1] = line(Total)
  OBVIOUS
<1>4. \A i \in 1 .. n : P[i] = line(numbered(online)[i])
  OBVIOUS
<1>5. procStatFile = (T \o P) \o R
  BY DEF procStatFile
<1> HIDE DEF S, T, P, R
<1>6. n \in Nat
  OBVIOUS
<1> HIDE DEF n
<1>7. /\ T \o P \in Seq(S) /\ Len(T \o P) = 1 + n
      /\ \A i \in 1 .. 1 + n : (T \o P)[i] = IF i <= 1 THEN T[i] ELSE P[i - 1]
  <2>1. /\ T \o P \in Seq(S)
        /\ Len(T \o P) = Len(T) + Len(P)
        /\ \A i \in 1 .. Len(T) + Len(P) :
             (T \o P)[i] = IF i <= Len(T) THEN T[i] ELSE P[i - Len(T)]
    BY <1>1, <1>3, ConcatProperties
  <2>2. Len(T) = 1 /\ Len(P) = n
    BY <1>1, <1>3
  <2>3. QED
    BY <2>1, <2>2
<1>8. /\ (T \o P) \o R \in Seq(S) /\ Len((T \o P) \o R) = (1 + n) + OtherLines
      /\ \A i \in 1 .. 1 + n : ((T \o P) \o R)[i] = (T \o P)[i]
  <2>1. /\ (T \o P) \o R \in Seq(S)
        /\ Len((T \o P) \o R) = Len(T \o P) + Len(R)
        /\ \A i \in 1 .. Len(T \o P) + Len(R) :
             ((T \o P) \o R)[i] = IF i <= Len(T \o P) THEN (T \o P)[i] ELSE R[i - Len(T \o P)]
    BY <1>2, <1>7, ConcatProperties
  <2>2. Len(T \o P) = 1 + n /\ Len(R) = OtherLines
    BY <1>2, <1>7
  <2>3. QED
    BY <1>6, <2>1, <2>2, Numbers
<1>9. /\ 1 \in 1 .. 1 + n
      /\ \A i \in 1 .. n : i + 1 \in 1 .. 1 + n /\ ~(i + 1 <= 1) /\ (i + 1) - 1 = i
  BY <1>6
<1>10. /\ procStatFile[1] = line(Total)
       /\ \A i \in 1 .. n : procStatFile[i + 1] = line(numbered(online)[i])
  BY <1>3, <1>4, <1>5, <1>7, <1>8, <1>9
<1>11. n = Cardinality(online)
  BY DEF n
<1>12. QED
  BY <1>5, <1>8, <1>10, <1>11

\* A file that fits is read as it is.
LEMMA ReadFits ==
  ASSUME NEW S, NEW file \in Seq(S), Len(file) * LineLength < BufferLength
  PROVE  ReadFileContent(file, BufferLength) = file
  BY FitsIsComplete DEF ReadFileContent, Complete

\* Whatever is cut, the lines that end in the buffer are not.
LEMMA ReadStart ==
  ASSUME NEW S, NEW file \in Seq(S)
  PROVE  LET queue == ReadFileContent(file, BufferLength)
         IN  /\ \E T : queue \in Seq(T)
             /\ \A i \in 1 .. Len(file) :
                  i * LineLength < BufferLength => queue[i] = file[i]
<1> DEFINE rest == (BufferLength - 1) % LineLength
           last == [file[Complete + 1] EXCEPT !.whole = FALSE]
           cut == IF rest \in {0, LineLength - 1} THEN <<>> ELSE <<last>>
           T == S \cup {last}
<1>1. ReadFileContent(file, BufferLength)
        = IF Len(file) <= Complete THEN file ELSE SubSeq(file, 1, Complete) \o cut
  BY DEF ReadFileContent, Complete
<1>2. cut \in Seq(T) /\ file \in Seq(T)
  <2>1. last \in T /\ S \subseteq T
    OBVIOUS
  <2> HIDE DEF last, T
  <2>2. <<>> \in Seq(T) /\ <<last>> \in Seq(T)
    BY <2>1
  <2>3. file \in Seq(T)
    BY <2>1
  <2>4. QED
    BY <2>2, <2>3
<1> HIDE DEF cut, T
<1>3. CASE Len(file) <= Complete
  BY <1>1, <1>2, <1>3
<1>4. CASE Len(file) > Complete
  <2>1. /\ SubSeq(file, 1, Complete) \in Seq(T) /\ Len(SubSeq(file, 1, Complete)) = Complete
        /\ \A i \in 1 .. Complete : SubSeq(file, 1, Complete)[i] = file[i]
    BY <1>2, <1>4, CompleteIsNat
  <2>2. SubSeq(file, 1, Complete) \o cut \in Seq(T)
    BY <1>2, <2>1
  <2>3. ASSUME NEW i \in 1 .. Len(file), i * LineLength < BufferLength
        PROVE  (SubSeq(file, 1, Complete) \o cut)[i] = file[i]
    <3>1. i \in Nat /\ i <= Complete
      BY <2>3, FitsIsComplete
    <3>2. i \in 1 .. Complete
      BY <3>1, CompleteIsNat
    <3>3. (SubSeq(file, 1, Complete) \o cut)[i] = SubSeq(file, 1, Complete)[i]
      BY <1>2, <2>1, <3>2, CompleteIsNat
    <3>4. QED
      BY <2>1, <3>2, <3>3
  <2>4. QED
    BY <1>1, <1>4, <2>2, <2>3, CompleteIsNat
<1>5. QED
  BY <1>3, <1>4, CompleteIsNat

\* A sample whose entries are there, the total first.
Parsed(stat) == /\ Len(stat) = cpuCount + 1
                /\ LineLength < BufferLength => stat[1] = line(Total)

\* What the parser makes of a queue that starts with the total.
LEMMA ParseEffect ==
  ASSUME cpuCount \in Nat, NEW T, NEW queue \in Seq(T)
  PROVE  IF Len(queue) > MaxLines \/ Len(queue) < cpuCount + 1
           THEN parse(queue) = Undefined
           ELSE /\ Len(parse(queue)) = cpuCount + 1
                /\ \A i \in 1 .. cpuCount + 1 : parse(queue)[i] = queue[i]
<1>1. CASE Len(queue) > MaxLines \/ Len(queue) < cpuCount + 1
  BY <1>1 DEF parse
<1>2. CASE ~(Len(queue) > MaxLines \/ Len(queue) < cpuCount + 1)
  <2>1. parse(queue) = SubSeq(queue, 1, cpuCount + 1)
    BY <1>2 DEF parse
  <2>2. cpuCount + 1 \in 1 .. Len(queue)
    BY <1>2, Numbers
  <2>3. QED
    BY <1>2, <2>1, <2>2
<1>3. QED
  BY <1>1, <1>2

\* A load that has a defined result.
LEMMA LoadParses ==
  ASSUME cpuCount \in Nat, Cardinality(online) \in Nat
  PROVE  ProcStat_loadFromFile = Undefined \/ Parsed(ProcStat_loadFromFile)
<1> DEFINE queue == ReadFileContent(procStatFile, BufferLength)
<1>1. PICK S : procStatFile \in Seq(S)
  BY FileLines
<1>2. 1 \in 1 .. Len(procStatFile) /\ procStatFile[1] = line(Total)
  BY FileLines, Numbers
<1>3. /\ \E T : queue \in Seq(T)
      /\ 1 * LineLength < BufferLength => queue[1] = line(Total)
  BY <1>1, <1>2, ReadStart
<1>4. ProcStat_loadFromFile = parse(queue)
  BY DEF ProcStat_loadFromFile
<1> HIDE DEF queue
<1>5. QED
  BY <1>3, <1>4, ParseEffect, Numbers DEF Parsed

\* A defined load shows the lines that end in the buffer as they are.
LEMMA LoadShows ==
  ASSUME cpuCount \in Nat, Cardinality(online) \in Nat, cpuCount <= Cardinality(online),
         ProcStat_loadFromFile # Undefined,
         NEW i \in 1 .. cpuCount + 1, i * LineLength < BufferLength
  PROVE  ProcStat_loadFromFile[i] = procStatFile[i]
<1> DEFINE queue == ReadFileContent(procStatFile, BufferLength)
<1>1. PICK S : procStatFile \in Seq(S)
  BY FileLines
<1>2. i \in 1 .. Len(procStatFile)
  BY FileLines, Numbers
<1>3. (\E T : queue \in Seq(T)) /\ queue[i] = procStatFile[i]
  BY <1>1, <1>2, ReadStart
<1>4. ProcStat_loadFromFile = parse(queue)
  BY DEF ProcStat_loadFromFile
<1> HIDE DEF queue
<1>5. QED
  BY <1>3, <1>4, ParseEffect

\* A load of a file that fits: the lines of the processors as they are shown.
LEMMA LoadFits ==
  ASSUME cpuCount \in Nat, Cardinality(online) \in Nat, FileFits,
         cpuCount <= Cardinality(online) + OtherLines
  PROVE  /\ Len(ProcStat_loadFromFile) = cpuCount + 1
         /\ \A i \in 1 .. cpuCount + 1 : ProcStat_loadFromFile[i] = procStatFile[i]
<1>1. PICK S : procStatFile \in Seq(S)
  BY FileLines
<1>2. Len(procStatFile) \in Nat /\ Len(procStatFile) >= cpuCount + 1
  BY FileLines, Numbers
<1>3. ProcStat_loadFromFile = parse(procStatFile)
  BY <1>1, ReadFits DEF FileFits, ProcStat_loadFromFile
<1>4. Len(procStatFile) <= MaxLines
  BY <1>2, FitsIsComplete DEF FileFits
<1>5. QED
  BY <1>1, <1>2, <1>3, <1>4, ParseEffect, Numbers

-----------------------------------------------------------------------------
(* The samples in the hands of the analyzer.                               *)

OnlineOK == /\ online \subseteq Processor /\ 0 \in online
            /\ cpuCount \in Nat \ {0}

\* A sample shows the processors that were online when it was loaded; the older
\* one is never undefined.
NewStatOK == /\ newStat \in {Missing, Undefined} \/ Parsed(newStat)
             /\ ~moved /\ newStat # Missing => newStat = ProcStat_loadFromFile

OldStatOK == /\ oldStat = Missing \/ Parsed(oldStat)
             /\ ~moved /\ ~movedOld /\ oldStat # Missing => oldStat = ProcStat_loadFromFile

StatInv == OnlineOK /\ NewStatOK /\ OldStatOK

\* There is at least one processor online, and finitely many are.
LEMMA OnlineCount ==
  ASSUME OnlineOK
  PROVE  Cardinality(online) \in Nat \ {0}
<1>1. IsFiniteSet(online)
  BY FS_Subset, ProcStatAssumption DEF OnlineOK
<1>2. QED
  BY <1>1, FS_CardinalityType, FS_EmptySet DEF OnlineOK

\* A load depends on who is online and on the count, on nothing else.
LEMMA LoadUnchanged ==
  ASSUME UNCHANGED <<online, cpuCount>>
  PROVE  /\ ProcStat_loadFromFile' = ProcStat_loadFromFile
         /\ \A stat : Parsed(stat)' <=> Parsed(stat)
  BY DEF ProcStat_loadFromFile, procStatFile, parse, Parsed

\* StatInv is an invariant.
LEMMA Invariance == Spec => []StatInv
<1>1. Init => StatInv
  <2> SUFFICES ASSUME Init PROVE StatInv
    OBVIOUS
  <2>1. online \subseteq Processor /\ 0 \in online /\ cpuCount = Cardinality(online)
    BY DEF Init
  <2>2. IsFiniteSet(online)
    BY <2>1, FS_Subset, ProcStatAssumption
  <2>3. cpuCount \in Nat \ {0}
    BY <2>1, <2>2, FS_CardinalityType, FS_EmptySet
  <2>4. QED
    BY <2>1, <2>3 DEF Init, StatInv, OnlineOK, NewStatOK, OldStatOK
<1>2. StatInv /\ [Next]_vars => StatInv'
  <2> SUFFICES ASSUME StatInv, [Next]_vars PROVE StatInv'
    OBVIOUS
  <2>1. CASE Hotplug
    <3>1. OnlineOK'
      BY <2>1 DEF Hotplug, StatInv, OnlineOK
    <3>2. moved' = TRUE /\ UNCHANGED <<cpuCount, oldStat, newStat>>
      BY <2>1 DEF Hotplug
    <3>3. QED
      BY <3>1, <3>2 DEF StatInv, NewStatOK, OldStatOK, Parsed
  <2>2. CASE Sample
    <3>1. /\ UNCHANGED <<online, cpuCount>> /\ newStat # Undefined
          /\ oldStat' = newStat /\ newStat' = ProcStat_loadFromFile
          /\ movedOld' = moved /\ moved' = FALSE
      BY <2>2 DEF Sample
    <3>2. OnlineOK'
      BY <3>1 DEF StatInv, OnlineOK
    <3>3. ProcStat_loadFromFile = Undefined \/ Parsed(ProcStat_loadFromFile)
      BY LoadParses, OnlineCount DEF StatInv, OnlineOK
    <3>4. ProcStat_loadFromFile' = ProcStat_loadFromFile
      BY <3>1, LoadUnchanged
    <3>5. NewStatOK'
      BY <3>1, <3>3, <3>4 DEF NewStatOK, Parsed
    <3>6. OldStatOK'
      BY <3>1, <3>4 DEF StatInv, NewStatOK, OldStatOK, Parsed
    <3>7. QED
      BY <3>2, <3>5, <3>6 DEF StatInv
  <2>3. CASE UNCHANGED vars
    <3>1. ProcStat_loadFromFile' = ProcStat_loadFromFile
      BY <2>3, LoadUnchanged DEF vars
    <3>2. QED
      BY <2>3, <3>1 DEF vars, StatInv, OnlineOK, NewStatOK, OldStatOK, Parsed
  <2>4. QED
    BY <2>1, <2>2, <2>3 DEF Next, LoadFails
<1>3. QED
  BY <1>1, <1>2, PTL DEF Spec

\* A sample is undefined only for a file that does not fit, or after more
\* processors went than there are other lines.
THEOREM DefinedUnlessCut == Spec => []UndefinedOnlyIfCut
<1>1. ASSUME StatInv PROVE UndefinedOnlyIfCut
  <2> SUFFICES ASSUME newStat = Undefined, ~moved, FileFits,
                      ~(cpuCount > Cardinality(online) + OtherLines)
               PROVE  FALSE
    BY DEF UndefinedOnlyIfCut
  <2>1. cpuCount \in Nat \ {0} /\ Cardinality(online) \in Nat
    BY <1>1, OnlineCount DEF StatInv, OnlineOK
  <2>2. newStat = ProcStat_loadFromFile
    BY <1>1 DEF StatInv, NewStatOK, Missing, Undefined
  <2>3. Len(newStat) = cpuCount + 1
    BY <2>1, <2>2, LoadFits, Numbers
  <2>4. Len(newStat) = 1
    BY DEF Undefined
  <2>5. cpuCount + 1 # 1
    BY <2>1
  <2>6. QED
    BY <2>3, <2>4, <2>5
<1>2. QED
  BY <1>1, Invariance, PTL

\* The usage of the total compares two totals; while no processor comes or
\* goes, every other usage compares two counts of one processor, complete ones
\* if its line ends in the buffer.
THEOREM ComparesLikeWithLike == Spec => []UsageIsOfOneProcessor
<1>1. ASSUME StatInv PROVE UsageIsOfOneProcessor
  <2> DEFINE usage == CpuUsageInfo_calculate
             unmoved == ~moved /\ ~movedOld /\ Cardinality(online) = cpuCount
  <2> SUFFICES ASSUME usage # <<>>
               PROVE  /\ LineLength < BufferLength => usage[1] = <<line(Total), line(Total)>>
                      /\ unmoved =>
                           /\ Len(usage) = Cardinality(online) + 1
                           /\ \A ii \in 2 .. Len(usage) :
                                ii * LineLength < BufferLength =>
                                  usage[ii] = <<line(numbered(online)[ii - 1]),
                                                line(numbered(online)[ii - 1])>>
    BY DEF UsageIsOfOneProcessor
  <2>1. /\ oldStat # Missing /\ newStat # Missing /\ newStat # Undefined
        /\ usage = [ii \in 1 .. Len(oldStat) |-> <<oldStat[ii], newStat[ii]>>]
    BY DEF CpuUsageInfo_calculate
  <2>2. Parsed(oldStat) /\ Parsed(newStat) /\ cpuCount \in Nat
    BY <1>1, <2>1 DEF StatInv, OnlineOK, NewStatOK, OldStatOK
  <2>3. usage = [ii \in 1 .. cpuCount + 1 |-> <<oldStat[ii], newStat[ii]>>]
    BY <2>1, <2>2 DEF Parsed
  <2> HIDE DEF usage
  <2>4. Len(usage) = cpuCount + 1
    BY <2>2, <2>3
  <2>5. LineLength < BufferLength => usage[1] = <<line(Total), line(Total)>>
    BY <2>2, <2>3 DEF Parsed
  <2>6. ASSUME unmoved, NEW ii \in 2 .. Len(usage), ii * LineLength < BufferLength
        PROVE  usage[ii] = <<line(numbered(online)[ii - 1]), line(numbered(online)[ii - 1])>>
    <3>1. oldStat = ProcStat_loadFromFile /\ newStat = ProcStat_loadFromFile
      BY <1>1, <2>1, <2>6 DEF StatInv, NewStatOK, OldStatOK
    <3>2. ii \in 1 .. cpuCount + 1 /\ ii - 1 \in 1 .. Cardinality(online)
      BY <2>2, <2>4, <2>6
    <3>3. procStatFile[(ii - 1) + 1] = line(numbered(online)[ii - 1])
      BY <2>2, <2>6, <3>2, FileLines
    <3>4. ProcStat_loadFromFile[ii] = procStatFile[ii]
      BY <2>1, <2>2, <2>6, <3>1, <3>2, LoadShows
    <3>5. (ii - 1) + 1 = ii
      BY <3>2
    <3>6. QED
      BY <2>3, <3>1, <3>2, <3>3, <3>4, <3>5
  <2>7. QED
    BY <2>4, <2>5, <2>6
<1>2. QED
  BY <1>1, Invariance, PTL
=============================================================================
