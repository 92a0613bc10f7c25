------------------------------- MODULE Timeval -------------------------------
(***************************************************************************)
(* struct timeval and the arithmetic both timer libraries do on it         *)
(* (misc_timer.c, misc_timer2.c).  The real clock is a natural number of   *)
(* microseconds; gettimeofday splits it into seconds and microseconds.     *)
(* None of the additions below carries microseconds into seconds, so the   *)
(* result may have usec >= USECS_IN_SEC: this is what the code does.       *)
(***************************************************************************)
EXTENDS Integers

CONSTANT MSECS_IN_SEC        \* 1000 in misc_timer.h and misc_timer2.h

ASSUME MsecsAssumption == MSECS_IN_SEC \in Nat \ {0}

\* A millisecond has as many microseconds as a second has milliseconds.
USECS_IN_SEC == MSECS_IN_SEC * MSECS_IN_SEC

Timeval == [sec : Nat, usec : Nat]

\* The instant a timeval stands for, normalised or not, in microseconds.
Usecs(tv) == tv.sec * USECS_IN_SEC + tv.usec

gettimeofday(t) == [sec |-> t \div USECS_IN_SEC, usec |-> t % USECS_IN_SEC]

(* Definitions whose name ends in _wrong are what the definition that      *)
(* follows would be with a plausible slip; each breaks some property.      *)
AddMsec_wrong(tv, ms) == [sec  |-> tv.sec,
                          usec |-> tv.usec + (ms % MSECS_IN_SEC) * MSECS_IN_SEC]

\* timer_add_msec, tvAdd and addMillionSec: milliseconds added field by field.
AddMsec(tv, ms) == [sec  |-> tv.sec + ms \div MSECS_IN_SEC,
                    usec |-> tv.usec + (ms % MSECS_IN_SEC) * MSECS_IN_SEC]

IS_EARLIER_THAN_wrong(a, b) == a.sec < b.sec

IS_NOT_LATER_wrong(a, b) == \/ a.sec < b.sec
                            \/ a.sec = b.sec /\ a.usec <= b.usec

IS_EARLIER_THAN(a, b) == \/ a.sec < b.sec
                         \/ a.sec = b.sec /\ a.usec < b.usec

\* The first disjunct of the macro of misc_timer2.c says <=, not <.
IS_LE_TIMEVAL(a, b) == \/ a.sec <= b.sec
                       \/ a.sec = b.sec /\ a.usec <= b.usec
=============================================================================
