---------------------------- MODULE DisplayRules ----------------------------
(***************************************************************************)
(* How the pages put numbers into words: formatRelativeTime and            *)
(* formatUptimeLong of web/js/dashboard/views/overview-formatters.js, and  *)
(* classifyLink of network-visualisation.js.  The state is what is to be   *)
(* shown: the age of an entry, how long a device is up, and the newest     *)
(* ping and bandwidth of a link; a page shows them anew as they change.    *)
(*                                                                         *)
(* Numbers are whole seconds, milliseconds and Mbps.  A text is modelled   *)
(* by its numbers and units.                                               *)
(***************************************************************************)
EXTENDS PageValues

CONSTANTS
    Ages,        \* bound: the ages that are shown
    Pings,       \* bound: round trip times, None for an unknown one
    Bandwidths   \* bound: bandwidths, None for an unknown one

DisplayNumbers ==
    /\ Ages \subseteq Nat
    /\ Pings \subseteq Int \cup {None} /\ Bandwidths \subseteq Int \cup {None}

VARIABLES
    age,           \* seconds since an entry was written, or a device was started
    linkPing,
    linkBandwidth

displayVars == <<age, linkPing, linkBandwidth>>

TypeOK ==
    /\ age \in Nat
    /\ linkPing \in Int \cup {None} /\ linkBandwidth \in Int \cup {None}

Init == age = 0 /\ linkPing = None /\ linkBandwidth = None

-----------------------------------------------------------------------------
(* formatRelativeTime *)

Minute == 60
Hour == 60 * Minute
Day == 24 * Hour
Month == 30 * Day
Year == 365 * Day

UnitSeconds(unit) == <<Minute, Hour, Day, 7 * Day, Month, Year>>[unit]

\* Math.round(x / n)
Rounded(x, n) == (2 * x + n) \div (2 * n)

Minutes(s) == Rounded(s, 60)
Hours(s) == Rounded(Minutes(s), 60)
Days(s) == Rounded(Hours(s), 24)

\* The unit (0 is "just now", then minutes, hours, days, weeks, months, years)
\* and its count.  Each unit is rounded from the one before it, months and
\* years from the days.
\* Mutant: the years are rounded down.
RelativeTimeFloorsYears(s) ==
    IF s < 30 THEN [unit |-> 0, count |-> 0]
    ELSE IF Minutes(s) < 60 THEN [unit |-> 1, count |-> Minutes(s)]
    ELSE IF Hours(s) < 24 THEN [unit |-> 2, count |-> Hours(s)]
    ELSE IF Days(s) < 7 THEN [unit |-> 3, count |-> Days(s)]
    ELSE IF Rounded(Days(s), 7) < 6 THEN [unit |-> 4, count |-> Rounded(Days(s), 7)]
    ELSE IF Rounded(Days(s), 30) < 12 THEN [unit |-> 5, count |-> Rounded(Days(s), 30)]
    ELSE [unit |-> 6, count |-> Days(s) \div 365]

RelativeTime(s) ==
    IF s < 30 THEN [unit |-> 0, count |-> 0]
    ELSE IF Minutes(s) < 60 THEN [unit |-> 1, count |-> Minutes(s)]
    ELSE IF Hours(s) < 24 THEN [unit |-> 2, count |-> Hours(s)]
    ELSE IF Days(s) < 7 THEN [unit |-> 3, count |-> Days(s)]
    ELSE IF Rounded(Days(s), 7) < 6 THEN [unit |-> 4, count |-> Rounded(Days(s), 7)]
    ELSE IF Rounded(Days(s), 30) < 12 THEN [unit |-> 5, count |-> Rounded(Days(s), 30)]
    ELSE [unit |-> 6, count |-> Rounded(Days(s), 365)]

-----------------------------------------------------------------------------
(* formatUptimeLong *)

\* Each part is taken from what the larger ones leave.
\* Mutant: the days are taken from what the years leave.
UptimePartsOverlap(s) ==
    LET ofYear == s % Year
        ofDay == ofYear % Day
    IN  [years |-> s \div Year, months |-> ofYear \div Month, days |-> ofYear \div Day,
         hours |-> ofDay \div Hour, minutes |-> (ofDay % Hour) \div Minute]

UptimeParts(s) ==
    LET ofYear == s % Year
        ofMonth == ofYear % Month
        ofDay == ofMonth % Day
    IN  [years |-> s \div Year, months |-> ofYear \div Month, days |-> ofMonth \div Day,
         hours |-> ofDay \div Hour, minutes |-> (ofDay % Hour) \div Minute]

-----------------------------------------------------------------------------
(* classifyLink *)

\* The rank of a link's class: 1 fast, 2 healthy, 3 steady, 4 constrained,
\* 5 critical, 0 unknown.  A ping alone has limits of its own, and is never fast.
PingRank(ping) ==
    IF ping <= 80 THEN 2 ELSE IF ping <= 160 THEN 3 ELSE IF ping <= 250 THEN 4 ELSE 5

BandwidthRank(bandwidth) ==
    IF bandwidth >= 500 THEN 1 ELSE IF bandwidth >= 120 THEN 2
    ELSE IF bandwidth >= 40 THEN 3 ELSE IF bandwidth >= 20 THEN 4 ELSE 5

LinkClass(ping, bandwidth) ==
    IF ping = None /\ bandwidth = None THEN 0
    ELSE IF bandwidth = None THEN PingRank(ping)
    ELSE IF ping = None THEN BandwidthRank(bandwidth)
    ELSE IF ping <= 40 /\ bandwidth >= 500 THEN 1
    ELSE IF ping <= 120 /\ bandwidth >= 120 THEN 2
    ELSE IF ping <= 180 /\ bandwidth >= 40 THEN 3
    ELSE IF ping <= 250 /\ bandwidth >= 20 THEN 4
    ELSE 5

-----------------------------------------------------------------------------

Older(to) ==
    /\ to > age
    /\ age' = to
    /\ linkPing' = None /\ linkBandwidth' = None

\* Telemetry is read anew: either metric may be missing.  Bound: the links are
\* looked at before the ages.
Measured(ping, bandwidth) ==
    /\ age = 0
    /\ linkPing' = ping /\ linkBandwidth' = bandwidth
    /\ UNCHANGED age

Next ==
    \/ \E to \in Ages : Older(to)
    \/ \E ping \in Pings, bandwidth \in Bandwidths : Measured(ping, bandwidth)

Spec == Init /\ [][Next]_displayVars

-----------------------------------------------------------------------------
(* Properties *)

\* A relative time is right to the nearest unit: the roundings, one of the
\* other, add no more than a twentieth of the unit, and none ends in "0 yrs ago".
RelativeTimeIsClose ==
    LET shown == RelativeTime(age)
        said == shown.count * UnitSeconds(shown.unit)
        error == IF said > age THEN said - age ELSE age - said
    IN  age >= 30 => shown.count >= 1 /\ 20 * error <= 11 * UnitSeconds(shown.unit)

\* The parts of an uptime add up to it, to the minute: no second of it is
\* counted in two units, or in none.
UptimeAddsUp ==
    LET p == UptimeParts(age)
        sum == p.years * Year + p.months * Month + p.days * Day + p.hours * Hour + p.minutes * Minute
    IN  sum <= age /\ age < sum + Minute

\* While the same metrics of a link are known, its class gets better only with a
\* quicker ping or with more bandwidth: the limits of the classes are nested.
ClassNeedsAReading ==
    [][/\ linkPing # None <=> linkPing' # None
       /\ linkBandwidth # None <=> linkBandwidth' # None
       /\ LinkClass(linkPing', linkBandwidth') < LinkClass(linkPing, linkBandwidth)
       => \/ linkPing # None /\ linkPing' < linkPing
          \/ linkBandwidth # None /\ linkBandwidth' > linkBandwidth]_displayVars
=============================================================================
