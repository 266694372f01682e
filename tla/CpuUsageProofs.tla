--------------------------- MODULE CpuUsageProofs ---------------------------
(***************************************************************************)
(* Proofs about CpuUsage for counters of every width: the sums and the     *)
(* differences of calculateCpuUsagePercentage wrap around, and the usage   *)
(* is right all the same.                                                  *)
(***************************************************************************)
EXTENDS CpuUsage, TLAPS

\* a and b are the same to an unsigned integer below W.
Congruent(a, b) == \E k \in Int : a = b + k * W

\* b is a grown by n, but for what wraps around.
Grown(a, b, n) == \E k \in Int : b = a + n + k * W

\* There is at least one value.
LEMMA Width == W \in Nat /\ W > 0 /\ MaxTicks \in Nat /\ MaxTicks < W
  BY CpuUsageAssumption

-----------------------------------------------------------------------------
(* Arithmetic modulo W.                                                    *)

\* What % leaves out is a multiple of W.
LEMMA ModCongruent ==
  ASSUME NEW a \in Int
  PROVE  a % W \in 0 .. W - 1 /\ Congruent(a % W, a)
<1>1. a = W * (a \div W) + (a % W) /\ a \div W \in Int /\ a % W \in 0 .. W - 1
  BY Width
<1>2. a % W = a + (-(a \div W)) * W
  BY <1>1, Width
<1>3. QED
  BY <1>1, <1>2 DEF Congruent

\* Congruence passes through sums.
LEMMA CongruentSum ==
  ASSUME NEW a \in Int, NEW b \in Int, NEW c \in Int, NEW d \in Int,
         Congruent(a, b), Congruent(c, d)
  PROVE  Congruent(a + c, b + d) /\ Congruent(a - c, b - d)
<1>1. PICK k \in Int : a = b + k * W
  BY DEF Congruent
<1>2. PICK l \in Int : c = d + l * W
  BY DEF Congruent
<1>3. a + c = (b + d) + (k + l) * W /\ a - c = (b - d) + (k - l) * W
  BY <1>1, <1>2, Width
<1>4. k + l \in Int /\ k - l \in Int
  OBVIOUS
<1>5. QED
  BY <1>3, <1>4 DEF Congruent

\* Congruence is transitive.
LEMMA CongruentTrans ==
  ASSUME NEW a \in Int, NEW b \in Int, NEW c \in Int, Congruent(a, b), Congruent(b, c)
  PROVE  Congruent(a, c)
<1>1. PICK k \in Int : a = b + k * W
  BY DEF Congruent
<1>2. PICK l \in Int : b = c + l * W
  BY DEF Congruent
<1>3. a = c + (k + l) * W /\ k + l \in Int
  BY <1>1, <1>2, Width
<1>4. QED
  BY <1>3 DEF Congruent

\* Two values below W that are congruent are the same.
LEMMA CongruentSmall ==
  ASSUME NEW a \in 0 .. W - 1, NEW b \in 0 .. W - 1, Congruent(a, b)
  PROVE  a = b
<1>1. PICK k \in Int : a = b + k * W
  BY DEF Congruent
<1>2. CASE k >= 1
  <2>1. k * W >= W
    BY <1>2, Width
  <2>2. QED
    BY <1>1, <2>1, Width
<1>3. CASE k <= -1
  <2>1. k * W <= -W
    BY <1>3, Width
  <2>2. QED
    BY <1>1, <2>1, Width
<1>4. CASE k = 0
  BY <1>1, <1>4, Width
<1>5. QED
  BY <1>2, <1>3, <1>4

\* A difference that wraps around is the number of ticks it stands for.
LEMMA ModOf ==
  ASSUME NEW a \in Int, NEW n \in 0 .. W - 1, Congruent(a, n)
  PROVE  a % W = n
<1>1. a % W \in 0 .. W - 1 /\ Congruent(a % W, a)
  BY ModCongruent
<1>2. Congruent(a % W, n)
  BY <1>1, CongruentTrans, Width
<1>3. QED
  BY <1>1, <1>2, CongruentSmall

-----------------------------------------------------------------------------
(* Ticks.                                                                  *)

Stat == [CpuStatIndex -> 0 .. W - 1]

IdleSum(stat) == stat["idle"] + stat["iowait"]

NonIdleSum(stat) == stat["user"] + stat["nice"] + stat["system"] + stat["irq"]
                      + stat["softirq"] + stat["steal"]

\* The sums have grown by the ticks, but for what wraps around.
UsageInv ==
  /\ oldStat \in Stat /\ newStat \in Stat
  /\ busy \in Nat /\ rest \in Nat /\ busy + rest <= MaxTicks
  /\ Grown(IdleSum(oldStat), IdleSum(newStat), rest)
  /\ Grown(NonIdleSum(oldStat), NonIdleSum(newStat), busy)

\* The sums are integers.
LEMMA SumType ==
  ASSUME NEW stat \in Stat
  PROVE  IdleSum(stat) \in Int /\ NonIdleSum(stat) \in Int
<1>1. \A s \in CpuStatIndex : stat[s] \in Int
  BY Width DEF Stat
<1>2. QED
  BY <1>1 DEF IdleSum, NonIdleSum, CpuStatIndex, IdleStates, NonIdleStates

\* A tick counts one up in the states it is for.
LEMMA CountEffect ==
  ASSUME newStat \in Stat, NEW states, Count(states)
  PROVE  /\ newStat' \in Stat
         /\ \A s \in CpuStatIndex :
              /\ newStat[s] \in Int /\ newStat'[s] \in Int
              /\ s \in states => Grown(newStat[s], newStat'[s], 1)
              /\ s \notin states => newStat'[s] = newStat[s]
<1>1. newStat' = [s \in CpuStatIndex |->
                    IF s \in states THEN (newStat[s] + 1) % W ELSE newStat[s]]
  BY DEF Count
<1>2. ASSUME NEW s \in CpuStatIndex
      PROVE  /\ newStat[s] \in Int /\ newStat'[s] \in 0 .. W - 1
             /\ s \in states => Grown(newStat[s], newStat'[s], 1)
             /\ s \notin states => newStat'[s] = newStat[s]
  <2>1. newStat[s] \in 0 .. W - 1 /\ newStat[s] + 1 \in Int
    BY Width DEF Stat
  <2>2. CASE s \in states
    <3>1. newStat'[s] = (newStat[s] + 1) % W
      BY <1>1, <2>2
    <3>2. newStat'[s] \in 0 .. W - 1 /\ Congruent(newStat'[s], newStat[s] + 1)
      BY <2>1, <3>1, ModCongruent
    <3>3. Grown(newStat[s], newStat'[s], 1)
      BY <3>2 DEF Congruent, Grown
    <3>4. QED
      BY <2>1, <2>2, <3>2, <3>3
  <2>3. CASE s \notin states
    BY <1>1, <2>1, <2>3
  <2>4. QED
    BY <2>2, <2>3
<1>3. newStat' \in Stat
  BY <1>1, <1>2 DEF Stat
<1>4. QED
  BY <1>2, <1>3, Width

\* A tick of idleness counts in one sum, once.
LEMMA IdleCounts ==
  ASSUME newStat \in Stat, NEW state \in IdleStates, Count({state})
  PROVE  /\ Grown(IdleSum(newStat), IdleSum(newStat'), 1)
         /\ NonIdleSum(newStat') = NonIdleSum(newStat)
<1>1. /\ \A s \in CpuStatIndex :
           /\ newStat[s] \in Int /\ newStat'[s] \in Int
           /\ s # state => newStat'[s] = newStat[s]
      /\ Grown(newStat[state], newStat'[state], 1)
  BY CountEffect DEF CpuStatIndex
<1>2. IdleSum(newStat') = IdleSum(newStat) + (newStat'[state] - newStat[state])
  BY <1>1 DEF IdleSum, CpuStatIndex, IdleStates
<1>3. NonIdleSum(newStat') = NonIdleSum(newStat)
  BY <1>1 DEF NonIdleSum, CpuStatIndex, IdleStates, NonIdleStates
<1>4. PICK k \in Int : newStat'[state] = newStat[state] + 1 + k * W
  BY <1>1 DEF Grown
<1>5. newStat[state] \in Int /\ IdleSum(newStat) \in Int /\ k * W \in Int
  BY <1>1, SumType, Width DEF CpuStatIndex
<1>6. IdleSum(newStat') = IdleSum(newStat) + 1 + k * W
  BY <1>2, <1>4, <1>5
<1>7. QED
  BY <1>3, <1>6 DEF Grown

\* So does a tick of work, the time of guests not counted twice.
LEMMA BusyCounts ==
  ASSUME newStat \in Stat, NEW states, NEW state \in NonIdleStates,
         state \in states, states \subseteq {state} \cup GuestStates, Count(states)
  PROVE  /\ Grown(NonIdleSum(newStat), NonIdleSum(newStat'), 1)
         /\ IdleSum(newStat') = IdleSum(newStat)
<1>1. /\ \A s \in IdleStates \cup NonIdleStates :
           /\ newStat[s] \in Int /\ newStat'[s] \in Int
           /\ s # state => newStat'[s] = newStat[s]
      /\ Grown(newStat[state], newStat'[state], 1)
  <2>1. \A s \in IdleStates \cup NonIdleStates :
          s \in CpuStatIndex /\ (s # state => s \notin states)
    BY DEF CpuStatIndex, IdleStates, NonIdleStates, GuestStates
  <2>2. QED
    BY <2>1, CountEffect
<1>2. NonIdleSum(newStat') = NonIdleSum(newStat) + (newStat'[state] - newStat[state])
  BY <1>1 DEF NonIdleSum, IdleStates, NonIdleStates
<1>3. IdleSum(newStat') = IdleSum(newStat)
  BY <1>1 DEF IdleSum, IdleStates, NonIdleStates
<1>4. PICK k \in Int : newStat'[state] = newStat[state] + 1 + k * W
  BY <1>1 DEF Grown
<1>5. newStat[state] \in Int /\ NonIdleSum(newStat) \in Int /\ k * W \in Int
  BY <1>1, SumType, Width
<1>6. NonIdleSum(newStat') = NonIdleSum(newStat) + 1 + k * W
  BY <1>2, <1>4, <1>5
<1>7. QED
  BY <1>3, <1>6 DEF Grown

\* A sum that has counted one tick more.
LEMMA OneMore ==
  ASSUME NEW first \in Int, NEW now \in Int, NEW next \in Int, NEW n \in Int,
         Grown(first, now, n), Grown(now, next, 1)
  PROVE  Grown(first, next, n + 1)
<1>1. PICK k \in Int : now = first + n + k * W
  BY DEF Grown
<1>2. PICK l \in Int : next = now + 1 + l * W
  BY DEF Grown
<1>3. next = first + (n + 1) + (k + l) * W /\ k + l \in Int
  BY <1>1, <1>2, Width
<1>4. QED
  BY <1>3 DEF Grown

\* The same, for the difference.
LEMMA GrownCongruent ==
  ASSUME NEW a \in Int, NEW b \in Int, NEW n \in Int, Grown(a, b, n)
  PROVE  Congruent(b - a, n)
<1>1. PICK k \in Int : b = a + n + k * W
  BY DEF Grown
<1>2. b - a = n + k * W
  BY <1>1, Width
<1>3. QED
  BY <1>2 DEF Congruent

\* UsageInv is an invariant.
LEMMA UsageInvariant == Spec => []UsageInv
<1>1. Init => UsageInv
  <2> SUFFICES ASSUME Init PROVE UsageInv
    OBVIOUS
  <2>1. oldStat \in Stat /\ newStat = oldStat /\ busy = 0 /\ rest = 0
    BY CpuUsageAssumption DEF Init, Stat
  <2>2. /\ IdleSum(newStat) = IdleSum(oldStat) + 0 + 0 * W
        /\ NonIdleSum(newStat) = NonIdleSum(oldStat) + 0 + 0 * W
    BY <2>1, SumType, Width
  <2>3. /\ Grown(IdleSum(oldStat), IdleSum(newStat), 0)
        /\ Grown(NonIdleSum(oldStat), NonIdleSum(newStat), 0)
    BY <2>2 DEF Grown
  <2>4. QED
    BY <2>1, <2>3, Width DEF UsageInv
<1>2. UsageInv /\ [Next]_vars => UsageInv'
  <2> SUFFICES ASSUME UsageInv, [Next]_vars PROVE UsageInv'
    OBVIOUS
  <2> USE DEF UsageInv
  <2>1. /\ IdleSum(newStat) \in Int /\ NonIdleSum(newStat) \in Int
        /\ IdleSum(oldStat) \in Int /\ NonIdleSum(oldStat) \in Int
    BY SumType
  <2>2. CASE IdleTick
    <3>1. PICK s \in IdleStates : Count({s})
      BY <2>2 DEF IdleTick
    <3>2. /\ newStat' \in Stat
          /\ Grown(IdleSum(newStat), IdleSum(newStat'), 1)
          /\ NonIdleSum(newStat') = NonIdleSum(newStat)
      BY <3>1, CountEffect, IdleCounts
    <3>3. /\ oldStat' = oldStat /\ busy' = busy /\ rest' = rest + 1
          /\ busy + rest < MaxTicks
      BY <2>2 DEF IdleTick, CanTick
    <3>4. IdleSum(newStat') \in Int
      BY <3>2, SumType
    <3>5. Grown(IdleSum(oldStat), IdleSum(newStat'), rest + 1)
      BY <2>1, <3>2, <3>4, OneMore
    <3>6. QED
      BY <3>2, <3>3, <3>5, Width
  <2>3. CASE BusyTick
    <3>1. /\ oldStat' = oldStat /\ rest' = rest /\ busy' = busy + 1
          /\ busy + rest < MaxTicks
      BY <2>3 DEF BusyTick, CanTick
    <3>2. ASSUME NEW states, NEW s \in NonIdleStates, s \in states,
                 states \subseteq {s} \cup GuestStates, Count(states)
          PROVE  UsageInv'
      <4>1. /\ newStat' \in Stat
            /\ Grown(NonIdleSum(newStat), NonIdleSum(newStat'), 1)
            /\ IdleSum(newStat') = IdleSum(newStat)
        BY <3>2, CountEffect, BusyCounts
      <4>2. NonIdleSum(newStat') \in Int
        BY <4>1, SumType
      <4>3. Grown(NonIdleSum(oldStat), NonIdleSum(newStat'), busy + 1)
        BY <2>1, <4>1, <4>2, OneMore
      <4>4. QED
        BY <3>1, <4>1, <4>3, Width
    <3>3. CASE \E s \in NonIdleStates : Count({s})
      <4>1. PICK s \in NonIdleStates : Count({s})
        BY <3>3
      <4>2. QED
        BY <3>2, <4>1
    <3>4. CASE Count({"user", "guest"})
      <4>1. /\ "user" \in NonIdleStates /\ "user" \in {"user", "guest"}
            /\ {"user", "guest"} \subseteq {"user"} \cup GuestStates
        BY DEF NonIdleStates, GuestStates
      <4>2. QED
        BY <3>2, <3>4, <4>1
    <3>5. CASE Count({"nice", "guestNice"})
      <4>1. /\ "nice" \in NonIdleStates /\ "nice" \in {"nice", "guestNice"}
            /\ {"nice", "guestNice"} \subseteq {"nice"} \cup GuestStates
        BY DEF NonIdleStates, GuestStates
      <4>2. QED
        BY <3>2, <3>5, <4>1
    <3>6. QED
      BY <2>3, <3>3, <3>4, <3>5 DEF BusyTick
  <2>4. CASE UNCHANGED vars
    BY <2>4 DEF vars
  <2>5. QED
    BY <2>2, <2>3, <2>4 DEF Next, LastSample
<1>3. QED
  BY <1>1, <1>2, PTL DEF Spec

-----------------------------------------------------------------------------
(* The usage.                                                              *)

\* The differences of the wrapped sums are the ticks in between.
LEMMA Differences ==
  ASSUME UsageInv
  PROVE  /\ (Idle(newStat) - Idle(oldStat)) % W = rest
         /\ (Total(newStat) - Total(oldStat)) % W = busy + rest
<1>1. /\ rest \in 0 .. W - 1 /\ busy + rest \in 0 .. W - 1 /\ busy \in Int /\ rest \in Int
      /\ oldStat \in Stat /\ newStat \in Stat
  BY Width DEF UsageInv
<1>2. ASSUME NEW stat \in Stat
      PROVE  /\ Idle(stat) \in Int /\ NonIdle(stat) \in Int /\ Total(stat) \in Int
             /\ IdleSum(stat) \in Int /\ NonIdleSum(stat) \in Int
             /\ Congruent(Idle(stat), IdleSum(stat))
             /\ Congruent(Total(stat), IdleSum(stat) + NonIdleSum(stat))
  <2>1. IdleSum(stat) \in Int /\ NonIdleSum(stat) \in Int
    BY SumType
  <2>2. Idle(stat) = IdleSum(stat) % W /\ NonIdle(stat) = NonIdleSum(stat) % W
    BY DEF Idle, IdleSum, NonIdle, NonIdleSum
  <2>3. /\ Idle(stat) \in Int /\ Congruent(Idle(stat), IdleSum(stat))
        /\ NonIdle(stat) \in Int /\ Congruent(NonIdle(stat), NonIdleSum(stat))
    BY <2>1, <2>2, ModCongruent, Width
  <2>4. Idle(stat) + NonIdle(stat) \in Int /\ IdleSum(stat) + NonIdleSum(stat) \in Int
    BY <2>1, <2>3
  <2>5. Congruent(Idle(stat) + NonIdle(stat), IdleSum(stat) + NonIdleSum(stat))
    BY <2>1, <2>3, CongruentSum
  <2>6. Total(stat) \in Int /\ Congruent(Total(stat), Idle(stat) + NonIdle(stat))
    BY <2>4, ModCongruent, Width DEF Total
  <2>7. Congruent(Total(stat), IdleSum(stat) + NonIdleSum(stat))
    BY <2>4, <2>5, <2>6, CongruentTrans
  <2>8. QED
    BY <2>1, <2>3, <2>6, <2>7
<1>3. (Idle(newStat) - Idle(oldStat)) % W = rest
  <2>1. Congruent(Idle(newStat) - Idle(oldStat), IdleSum(newStat) - IdleSum(oldStat))
    BY <1>1, <1>2, CongruentSum
  <2>2. Congruent(Idle(newStat) - Idle(oldStat), rest)
    <3>1. /\ Idle(newStat) - Idle(oldStat) \in Int
          /\ IdleSum(newStat) - IdleSum(oldStat) \in Int
      BY <1>1, <1>2
    <3>2. QED
      BY <1>1, <1>2, <2>1, <3>1, CongruentTrans, GrownCongruent DEF UsageInv
  <2>3. Idle(newStat) - Idle(oldStat) \in Int
    BY <1>1, <1>2
  <2>4. QED
    BY <1>1, <2>2, <2>3, ModOf
<1>4. (Total(newStat) - Total(oldStat)) % W = busy + rest
  <2> DEFINE both == (IdleSum(newStat) + NonIdleSum(newStat))
                       - (IdleSum(oldStat) + NonIdleSum(oldStat))
  <2>1. both \in Int /\ Total(newStat) - Total(oldStat) \in Int
    BY <1>1, <1>2
  <2>2. Congruent(Total(newStat) - Total(oldStat), both)
    <3>1. /\ IdleSum(newStat) + NonIdleSum(newStat) \in Int
          /\ IdleSum(oldStat) + NonIdleSum(oldStat) \in Int
      BY <1>1, <1>2
    <3>2. QED
      BY <1>1, <1>2, <3>1, CongruentSum
  <2>3. Congruent(both, rest + busy)
    <3>1. /\ IdleSum(newStat) - IdleSum(oldStat) \in Int
          /\ NonIdleSum(newStat) - NonIdleSum(oldStat) \in Int
      BY <1>1, <1>2
    <3>2. Congruent((IdleSum(newStat) - IdleSum(oldStat))
                      + (NonIdleSum(newStat) - NonIdleSum(oldStat)), rest + busy)
      BY <1>1, <1>2, <3>1, CongruentSum, GrownCongruent DEF UsageInv
    <3>3. both = (IdleSum(newStat) - IdleSum(oldStat))
                   + (NonIdleSum(newStat) - NonIdleSum(oldStat))
      BY <1>1, <1>2
    <3>4. QED
      BY <3>2, <3>3
  <2> HIDE DEF both
  <2>4. rest + busy = busy + rest /\ busy + rest \in Int
    BY <1>1
  <2>5. Congruent(Total(newStat) - Total(oldStat), busy + rest)
    BY <2>1, <2>2, <2>3, <2>4, CongruentTrans
  <2>6. QED
    BY <1>1, <2>1, <2>5, ModOf
<1>5. QED
  BY <1>3, <1>4

\* The result in terms of the ticks.
LEMMA UsageOfTicks ==
  ASSUME UsageInv
  PROVE  /\ busy + rest # 0 => usage = [num |-> 100 * busy, den |-> busy + rest]
         /\ busy + rest = 0 => usage = [num |-> -100, den |-> 1]
<1> DEFINE totald == (Total(newStat) - Total(oldStat)) % W
           idled == (Idle(newStat) - Idle(oldStat)) % W
<1>1. totald = busy + rest /\ idled = rest /\ busy \in Nat /\ rest \in Nat
  BY Differences DEF UsageInv
<1>2. /\ totald # 0 => usage = [num |-> 100 * (totald - idled), den |-> totald]
      /\ totald = 0 => usage = [num |-> -100, den |-> 1]
  BY DEF usage, calculateCpuUsagePercentage
<1> HIDE DEF totald, idled
<1>3. totald - idled = busy
  BY <1>1
<1>4. QED
  BY <1>1, <1>2, <1>3

\* Every counter stays below W.
LEMMA TypeCorrect == Spec => []TypeOK
<1>1. UsageInv => TypeOK
  <2> SUFFICES ASSUME UsageInv PROVE TypeOK
    OBVIOUS
  <2>1. busy \in Nat /\ rest \in Nat /\ busy + rest <= MaxTicks
    BY DEF UsageInv
  <2>2. usage \in [num : Int, den : Nat \ {0}]
    BY <2>1, UsageOfTicks
  <2>3. QED
    BY <2>1, <2>2 DEF UsageInv, TypeOK, Stat
<1>2. QED
  BY <1>1, UsageInvariant, PTL

\* The usage is the share of the ticks that were work, for counters of any
\* width, wherever they start and whichever of them wraps around.
THEOREM UsageIsRight == Spec => []UsageIsBusyShare
<1>1. UsageInv => UsageIsBusyShare
  <2> SUFFICES ASSUME UsageInv PROVE UsageIsBusyShare
    OBVIOUS
  <2>1. busy \in Nat /\ rest \in Nat
    BY DEF UsageInv
  <2>2. CASE busy + rest = 0
    <3>1. usage.num = -100
      BY <2>2, UsageOfTicks
    <3>2. QED
      BY <2>1, <2>2, <3>1 DEF UsageIsBusyShare
  <2>3. CASE busy + rest # 0
    <3>1. usage.num = 100 * busy /\ usage.den = busy + rest
      BY <2>3, UsageOfTicks
    <3>2. usage.num >= 0
      BY <2>1, <3>1
    <3>3. QED
      BY <2>1, <2>3, <3>1, <3>2 DEF UsageIsBusyShare
  <2>4. QED
    BY <2>2, <2>3
<1>2. QED
  BY <1>1, UsageInvariant, PTL
=============================================================================
