------------------------------ MODULE Duration ------------------------------
(***************************************************************************)
(* The app's formattedTime(seconds) of src/workflow/static/script.js.  A   *)
(* duration is counted in tenths of a second, so that the fractional       *)
(* seconds JavaScript keeps in remainingSeconds are represented; the       *)
(* durations are non-negative, where JavaScript's % and TLA+'s % agree.    *)
(***************************************************************************)
EXTENDS Naturals

Tenths == 10
Day == 86400 * Tenths
Hour == 3600 * Tenths
Minute == 60 * Tenths

\* Mutant: the hours taken from the whole duration, not from the part
\* below a day.
FormattedTimeNoDayMod(n) ==
    IF n = 0 THEN "N/A"
    ELSE [days |-> n \div Day, hours |-> n \div Hour,
          minutes |-> ((n % Day) % Hour) \div Minute, seconds |-> ((n % Day) % Hour) % Minute]

\* `${days}d ${hours}h ${minutes}m ${remainingSeconds}s`, with 'N/A' when
\* parseFloat(seconds) is falsy, i.e. for 0.  seconds is in tenths.
FormattedTime(n) ==
    IF n = 0 THEN "N/A"
    ELSE [days |-> n \div Day, hours |-> (n % Day) \div Hour,
          minutes |-> ((n % Day) % Hour) \div Minute, seconds |-> ((n % Day) % Hour) % Minute]
====
