------------------------------ MODULE ProcStat ------------------------------
(***************************************************************************)
(* src/utils/procstat.c over ReadFileContent of src/utils/helpers.c: which *)
(* lines of /proc/stat end up in which entry of cpuStats, and which        *)
(* entries of two samples CpuUsageInfo_calculate compares.                 *)
(*                                                                         *)
(* A line is whose counters it shows; a line that the buffer cuts is not   *)
(* whole.  Passing NULL to sscanf and writing behind linesQueue have no    *)
(* defined result.                                                         *)
(***************************************************************************)
EXTENDS Integers, FiniteSets, SequencesExt

CONSTANTS Processor,     \* the processors that may be online: 0 .. n
          OtherLines,    \* how many lines follow those of the processors
          LineLength,    \* bound: the bytes of every line, '\n' included
          BufferLength,  \* MAX_EXPECTED_PROCSTAT_LENGTH
          MaxLines       \* MAX_FILE_LINE_COUNT

\* A /proc/stat that fits into the buffer fits into the queue of lines: 16384
\* bytes hold no more than 2048 lines of 8 bytes.
ASSUME ProcStatAssumption ==
  /\ 0 \in Processor /\ Processor \subseteq Nat /\ IsFiniteSet(Processor)
  /\ OtherLines \in Nat /\ LineLength \in Nat \ {0, 1} /\ BufferLength \in Nat \ {0}
  /\ MaxLines \in Nat
  /\ BufferLength <= MaxLines * LineLength

VARIABLES
  online,     \* the processors that are online
  cpuCount,   \* g_cpuCount
  oldStat,    \* the sample before: cpuStats, or Missing
  newStat,    \* the last sample: cpuStats, Missing or Undefined
  moved,      \* history: whether processors came or went since newStat, and
  movedOld    \* between oldStat and newStat

vars == <<online, cpuCount, oldStat, newStat, moved, movedOld>>

\* Whose counters a line shows, if not those of a processor.
Total == -1
Other == -2
Nobody == -3

line(of) == [of |-> of, whole |-> TRUE]

Missing == <<>>
Undefined == <<line(Nobody)>>

\* Processors in the order of their numbers.
numbered(processors) == SetToSortSeq(processors, <)

\* The kernel shows the total, the processors that are online, and the rest.
procStatFile ==
  <<line(Total)>>
  \o [i \in 1 .. Cardinality(online) |-> line(numbered(online)[i])]
  \o [i \in 1 .. OtherLines |-> line(Other)]

-----------------------------------------------------------------------------
(* What is read and parsed.                                                *)

\* Sensitivity variant: the last line of a file that fits is lost.
ReadFileContent_dropsLast(file, bufSz) ==
  SubSeq(file, 1, Len(file) - 1)

\* fread gets at most bufSz - 1 bytes.  The '\n' of the last line need not be
\* among them; a line that is cut earlier is not whole.
ReadFileContent(file, bufSz) ==
  LET complete == bufSz \div LineLength
      rest == (bufSz - 1) % LineLength
      cut == IF rest \in {0, LineLength - 1} THEN <<>>
             ELSE <<[file[complete + 1] EXCEPT !.whole = FALSE]>>
  IN  IF Len(file) <= complete THEN file ELSE SubSeq(file, 1, complete) \o cut

\* Sensitivity variant: the line of the total is forgotten.
parse_noTotal(linesQueue) ==
  IF Len(linesQueue) > MaxLines \/ Len(linesQueue) < cpuCount
    THEN Undefined
    ELSE SubSeq(linesQueue, 1, cpuCount)

\* The first CpuCount_get() + 1 entries of the queue are scanned, which is
\* filled without a check of its length and may have fewer.
parse(linesQueue) ==
  IF Len(linesQueue) > MaxLines \/ Len(linesQueue) < cpuCount + 1
    THEN Undefined
    ELSE SubSeq(linesQueue, 1, cpuCount + 1)

ProcStat_loadFromFile == parse(ReadFileContent(procStatFile, BufferLength))

\* The pairs of counters of which CpuUsageInfo_calculate computes the usage.
CpuUsageInfo_calculate ==
  IF oldStat = Missing \/ newStat \in {Missing, Undefined} THEN <<>>
  ELSE [ii \in 1 .. Len(oldStat) |-> <<oldStat[ii], newStat[ii]>>]

-----------------------------------------------------------------------------
\* CpuCount_init counts the processors that are online at the start.
Init == /\ online \in {s \in SUBSET Processor : 0 \in s}
        /\ cpuCount = Cardinality(online)
        /\ oldStat = Missing /\ newStat = Missing
        /\ moved = FALSE /\ movedOld = FALSE

\* A processor is switched on or off; the first one stays.
Hotplug == /\ \E p \in Processor \ {0} :
                online' = IF p \in online THEN online \ {p} ELSE online \cup {p}
           /\ moved' = TRUE
           /\ UNCHANGED <<cpuCount, oldStat, newStat, movedOld>>

\* The file cannot be opened, read or closed: the reader tries again.
LoadFails == UNCHANGED vars

\* The reader loads a sample, the analyzer compares it with the one before.
Sample == /\ newStat # Undefined
          /\ oldStat' = newStat
          /\ newStat' = ProcStat_loadFromFile
          /\ movedOld' = moved /\ moved' = FALSE
          /\ UNCHANGED <<online, cpuCount>>

Next == Hotplug \/ LoadFails \/ Sample

Spec == Init /\ [][Next]_vars

-----------------------------------------------------------------------------
\* As long as the file of this moment fits into the buffer.
FileFits == Len(procStatFile) * LineLength < BufferLength

\* The usage of the total is always computed from two totals.  While
\* processors neither come nor go, every other usage is computed from two
\* counts of one processor: those that were online at the start, in the order
\* in which the printer numbers them.  A file that is cut spoils no count whose
\* line is in the buffer.
UsageIsOfOneProcessor ==
  LET usage == CpuUsageInfo_calculate
      unmoved == ~moved /\ ~movedOld /\ Cardinality(online) = cpuCount
  IN  usage # <<>> =>
        /\ LineLength < BufferLength => usage[1] = <<line(Total), line(Total)>>
        /\ unmoved =>
             /\ Len(usage) = Cardinality(online) + 1
             /\ \A ii \in 2 .. Len(usage) :
                  LET counted == line(numbered(online)[ii - 1])
                  IN  ii * LineLength < BufferLength =>
                        usage[ii] = <<counted, counted>>

\* Lines are missing only if the file does not fit into the buffer, or if
\* more processors went than there are other lines: the queue of lines itself
\* never overflows.
UndefinedOnlyIfCut ==
  newStat = Undefined /\ ~moved =>
    ~FileFits \/ cpuCount > Cardinality(online) + OtherLines
=============================================================================
