------------------------------ MODULE Timespec ------------------------------
(***************************************************************************)
(* The arithmetic on struct timespec in src/threads/watchdog.c and in      *)
(* TimePointMs of src/utils/helpers.c.  A time is a pair                   *)
(* <<tv_sec, tv_nsec>>.                                                    *)
(***************************************************************************)
EXTENDS Integers, Sequences

CONSTANTS NsecInSec,   \* 1000000000
          MsInSec,     \* 1000
          NsecInMs,    \* 1000000
          UnsignedMod  \* 2^32, the modulus of unsigned

\* A sum of two numbers of nanoseconds fits into an unsigned.
ASSUME TimespecAssumption == /\ NsecInSec \in Nat \ {0}
                             /\ MsInSec \in Nat \ {0} /\ NsecInMs \in Nat \ {0}
                             /\ NsecInSec = MsInSec * NsecInMs
                             /\ UnsignedMod \in Nat
                             /\ 2 * NsecInSec < UnsignedMod

sec(t) == t[1]
nsec(t) == t[2]

\* Sensitivity variant: the nanoseconds of b are added twice.
timespecAdd_sameNsec(a, b) ==
  <<(sec(a) + sec(b)) % UnsignedMod, (nsec(b) + nsec(b)) % UnsignedMod>>

timespecAdd(a, b) ==
  LET secs == (sec(a) + sec(b)) % UnsignedMod
      nsecs == (nsec(a) + nsec(b)) % UnsignedMod
  IN  IF nsecs > NsecInSec THEN <<(secs + 1) % UnsignedMod, nsecs - NsecInSec>>
                           ELSE <<secs, nsecs>>

\* Sensitivity variant: the seconds alone decide.
timespecCompare_seconds(a, b) == IF sec(a) > sec(b) THEN 1 ELSE -1

\* The last line asks for "retval < 1" before it would return 0.
timespecCompare(a, b) ==
  LET retval == IF sec(a) # sec(b) THEN sec(a) - sec(b) ELSE nsec(a) - nsec(b)
  IN  IF retval > 0 THEN 1 ELSE IF retval < 1 THEN -1 ELSE 0

\* oldest[ii] is iiOldest after ii elements; indices start with 1 here.
findLowestTimespecIndex(array) ==
  LET oldest[ii \in 0 .. Len(array)] ==
        IF ii = 0 THEN 1
        ELSE IF timespecCompare(array[ii], array[oldest[ii - 1]]) < 0
               THEN ii
               ELSE oldest[ii - 1]
  IN  oldest[Len(array)]

\* Sensitivity variant: the borrowed second is not subtracted.
timespecDifference_noBorrow(a, b) ==
  IF nsec(a) <= nsec(b)
    THEN <<sec(a) - sec(b), NsecInSec - (nsec(b) - nsec(a))>>
    ELSE <<sec(a) - sec(b), nsec(a) - nsec(b)>>

timespecDifference(a, b) ==
  IF nsec(a) <= nsec(b)
    THEN <<sec(a) - sec(b) - 1, NsecInSec - (nsec(b) - nsec(a))>>
    ELSE <<sec(a) - sec(b), nsec(a) - nsec(b)>>

\* The condition of the alarm in WatchdogThread.
Overdue(now, stamp, allowed) ==
  timespecCompare(timespecDifference(now, stamp), allowed) > 0

\* The waits of the program are at most 2000 ms, so no unsigned overflows.
msToTimespec(ms) == <<ms \div MsInSec, (ms % MsInSec) * NsecInMs>>

\* The point in time that is ms after now; the end of every wait.
TimePointMs(now, ms) ==
  LET nanoseconds == nsec(now) + (ms % MsInSec) * NsecInMs
      seconds == sec(now) + ms \div MsInSec
  IN  IF nanoseconds < NsecInSec THEN <<seconds, nanoseconds>>
                                 ELSE <<seconds + 1, nanoseconds - NsecInSec>>

-----------------------------------------------------------------------------
(* What the functions are meant to compute.                                *)

\* The times that timespec_get returns, as far as the seconds fit.
Time == (0 .. UnsignedMod - 1) \X (0 .. NsecInSec - 1)

Normalised(t) == nsec(t) \in 0 .. NsecInSec - 1

Nanoseconds(t) == sec(t) * NsecInSec + nsec(t)
=============================================================================
