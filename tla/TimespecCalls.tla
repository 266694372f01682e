---------------------------- MODULE TimespecCalls ----------------------------
(***************************************************************************)
(* The arguments WatchdogThread may give to the functions of Timespec.tla: *)
(* the current time, the stamps of two threads, and the allowed time.      *)
(***************************************************************************)
EXTENDS Timespec

CONSTANTS Times,  \* the times considered
          Waits   \* the waits considered, in milliseconds

ASSUME TimesAssumption == Times \subseteq Time /\ Waits \subseteq Nat

VARIABLES now, stamp, other, allowed

timeVars == <<now, stamp, other, allowed>>

TimeInit == now \in Times /\ stamp \in Times /\ other \in Times /\ allowed \in Times

\* getCurrentTime, for the watchdog or in a report of either thread.
TimeNext == \/ now' \in Times /\ UNCHANGED <<stamp, other, allowed>>
            \/ stamp' \in Times /\ UNCHANGED <<now, other, allowed>>
            \/ other' \in Times /\ UNCHANGED <<now, stamp, allowed>>

TimeSpec == TimeInit /\ [][TimeNext]_timeVars

-----------------------------------------------------------------------------
\* The alarm is raised exactly when more than the allowed time has passed
\* since the stamp, although timespecDifference borrows a second when the
\* nanoseconds are equal and then returns a time that is not normalised.
AlarmIsExact ==
  Nanoseconds(stamp) <= Nanoseconds(now) =>
     (Overdue(now, stamp, allowed) <=>
        Nanoseconds(now) - Nanoseconds(stamp) > Nanoseconds(allowed))

\* Adding whole seconds, which is what the 2000 ms of watchdog.c are, gives
\* the exact time point as long as the seconds fit.  The end of any other wait
\* is exact to the nanosecond, too, and both are normalised.
TimeoutPointIsExact ==
  /\ nsec(allowed) = 0 /\ sec(stamp) + sec(allowed) < UnsignedMod =>
       /\ Nanoseconds(timespecAdd(stamp, allowed))
            = Nanoseconds(stamp) + Nanoseconds(allowed)
       /\ Normalised(timespecAdd(stamp, allowed))
  /\ \A ms \in Waits :
       /\ Nanoseconds(TimePointMs(now, ms)) = Nanoseconds(now) + ms * NsecInMs
       /\ Normalised(TimePointMs(now, ms))
       /\ Nanoseconds(msToTimespec(ms)) = ms * NsecInMs

\* No stamp is older than the one findLowestTimespecIndex returns.
LowestIsOldest ==
  LET array == <<stamp, other, now>>
      lowest == array[findLowestTimespecIndex(array)]
  IN  \A i \in 1 .. 3 : Nanoseconds(lowest) <= Nanoseconds(array[i])
=============================================================================
