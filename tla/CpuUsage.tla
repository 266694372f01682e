------------------------------ MODULE CpuUsage ------------------------------
(***************************************************************************)
(* src/utils/cpuusage.c: the usage of one processor, from two samples of   *)
(* its counters of /proc/stat.  The kernel counts ticks; the first sample  *)
(* is taken at the start, the second one at any later time.  The counters  *)
(* are unsigned and wrap around at W.  The quotient of doubles is a        *)
(* rational number here, without rounding.                                 *)
(***************************************************************************)
EXTENDS Integers

CONSTANTS W,         \* CpuStatValue_t is an unsigned integer below W
          MaxTicks,  \* bound: the ticks between the two samples
          Starts     \* the values a counter may have in the first sample

ASSUME CpuUsageAssumption == /\ W \in Nat /\ MaxTicks \in 0 .. W - 1
                             /\ Starts \subseteq 0 .. W - 1

IdleStates == {"idle", "iowait"}

NonIdleStates == {"user", "nice", "system", "irq", "softirq", "steal"}

GuestStates == {"guest", "guestNice"}

\* CpuStatIndex_t
CpuStatIndex == IdleStates \cup NonIdleStates \cup GuestStates

VARIABLES oldStat,   \* the first sample
          newStat,   \* the counters now: what the second sample would be
          busy, rest \* history: ticks of work and of idleness in between

vars == <<oldStat, newStat, busy, rest>>

Init == /\ oldStat \in [CpuStatIndex -> Starts]
        /\ \A s \in GuestStates : oldStat[s] = 0
        /\ newStat = oldStat
        /\ busy = 0 /\ rest = 0

Count(states) == newStat' = [s \in CpuStatIndex |->
                   IF s \in states THEN (newStat[s] + 1) % W ELSE newStat[s]]

CanTick == busy + rest < MaxTicks

IdleTick == /\ CanTick
            /\ \E s \in IdleStates : Count({s})
            /\ rest' = rest + 1
            /\ UNCHANGED <<oldStat, busy>>

\* Linux counts the time of a guest in "user" or "nice", too.
BusyTick == /\ CanTick
            /\ \/ \E s \in NonIdleStates : Count({s})
               \/ Count({"user", "guest"})
               \/ Count({"nice", "guestNice"})
            /\ busy' = busy + 1
            /\ UNCHANGED <<oldStat, rest>>

\* The kernel may be asked at any time; after MaxTicks nothing is left to see.
LastSample == ~CanTick /\ UNCHANGED vars

Next == IdleTick \/ BusyTick \/ LastSample

Spec == Init /\ [][Next]_vars

-----------------------------------------------------------------------------
(* calculateCpuUsagePercentage; its result is num / den.                   *)

Idle(stat) == (stat["idle"] + stat["iowait"]) % W

\* Sensitivity variant: the time of guests counts twice.
NonIdle_guestTwice(stat) ==
  (stat["user"] + stat["nice"] + stat["system"] + stat["irq"]
     + stat["softirq"] + stat["steal"] + stat["guest"] + stat["guestNice"]) % W

NonIdle(stat) == (stat["user"] + stat["nice"] + stat["system"]
                    + stat["irq"] + stat["softirq"] + stat["steal"]) % W

Total(stat) == (Idle(stat) + NonIdle(stat)) % W

calculateCpuUsagePercentage(old, new) ==
  LET totald == (Total(new) - Total(old)) % W
      idled == (Idle(new) - Idle(old)) % W
  IN  IF totald # 0 THEN [num |-> 100 * (totald - idled), den |-> totald]
                    ELSE [num |-> -100, den |-> 1]

usage == calculateCpuUsagePercentage(oldStat, newStat)

-----------------------------------------------------------------------------
TypeOK == /\ oldStat \in [CpuStatIndex -> 0 .. W - 1]
          /\ newStat \in [CpuStatIndex -> 0 .. W - 1]
          /\ busy \in Nat /\ rest \in Nat /\ busy + rest <= MaxTicks
          /\ usage \in [num : Int, den : Nat \ {0}]

\* The usage is the share of the ticks that were work, whatever counters wrap
\* around in between and however much of it was done for guests.  Without a
\* tick it is the error value, which no other pair of samples gives.
UsageIsBusyShare ==
  /\ busy + rest > 0 => usage.num * (busy + rest) = 100 * busy * usage.den
  /\ busy + rest = 0 <=> usage.num < 0
=============================================================================
