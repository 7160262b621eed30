------------------------------ MODULE OtaWindow ------------------------------
(***************************************************************************)
(* The download window of an update (esp_rmaker_ota_handle_time in         *)
(* ota/esp_rmaker_ota.c): a job may name the minutes of the day between    *)
(* which it is to be downloaded, across midnight too.                      *)
(***************************************************************************)
EXTENDS Integers

CONSTANT Day             (* MINUTES_IN_DAY                                   *)

ASSUME DayAssumption == Day \in Nat \ {0}

NoTime == -1             (* a start or an end the metadata does not name     *)

Minute == 0 .. Day - 1

\* A window across midnight is moved, with the clock, so that it starts at 0.
AcrossMidnight(from, to) == from > to

Moved(now, from) == IF now + (Day - from) >= Day
                    THEN now + (Day - from) - Day
                    ELSE now + (Day - from)

Now(now, from, to)   == IF AcrossMidnight(from, to) THEN Moved(now, from) ELSE now
First(from, to)      == IF AcrossMidnight(from, to) THEN 0 ELSE from
Last(from, to)       == IF AcrossMidnight(from, to) THEN to + (Day - from) ELSE to

(* MUTANT of InWindow: a window across midnight is not moved.                *)
InWindowUnmoved(now, from, to) == from <= now /\ now <= to

InWindow(now, from, to) ==
    First(from, to) <= Now(now, from, to) /\ Now(now, from, to) <= Last(from, to)

\* delay_min
DelayToWindow(now, from, to) ==
    LET gap == First(from, to) - Now(now, from, to)
    IN  IF gap < 0 THEN gap + Day ELSE gap

-----------------------------------------------------------------------------
(* What the window means.                                                  *)

Open(now, from, to) == IF from <= to THEN from <= now /\ now <= to
                                     ELSE from <= now \/ now <= to

Later(now, delay) == IF now + delay >= Day THEN now + delay - Day ELSE now + delay

(* The window is read off the clock correctly, across midnight too, and a    *)
(* download that comes outside of it is put off to the next minute at which  *)
(* it opens: not for a whole day, and past no minute at which it was open.   *)
WindowIsKept ==
    \A now, from, to \in Minute :
        /\ InWindow(now, from, to) <=> Open(now, from, to)
        /\ ~Open(now, from, to) =>
               LET delay == DelayToWindow(now, from, to)
               IN  /\ delay \in 1 .. Day - 1
                   /\ Later(now, delay) = from
                   /\ \A k \in 0 .. delay - 1 : ~Open(Later(now, k), from, to)
=============================================================================
