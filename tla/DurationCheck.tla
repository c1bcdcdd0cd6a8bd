--------------------------- MODULE DurationCheck ---------------------------
(***************************************************************************)
(* formattedTime over durations around every unit boundary.               *)
(***************************************************************************)
EXTENDS Duration

CONSTANT Durations   \* durations to check, in tenths of a second

VARIABLE n

Init == n \in Durations
Next == UNCHANGED n
Spec == Init /\ [][Next]_n

\* A positive duration is printed as days, hours below 24, minutes below
\* 60 and seconds below 60 that add up to exactly the duration given.
FormattedTimeExact ==
    n > 0 =>
        LET f == FormattedTime(n) IN
        /\ f.hours < 24 /\ f.minutes < 60 /\ f.seconds < Minute
        /\ f.days * Day + f.hours * Hour + f.minutes * Minute + f.seconds = n
====
