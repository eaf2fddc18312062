----------------------------- MODULE Conversions -----------------------------
(***************************************************************************)
(* The conversions of Calendar, LogStream and Endian over their inputs: a  *)
(* calendar that is turned day by day, lists of numbers and of instants.   *)
(***************************************************************************)
EXTENDS LogStream, Endian

CONSTANTS
    FirstDay, LastDay,  \* bound: the days turned, counted from 1970-01-01
    FirstYear,          \* the year FirstDay is the first of January of
    FirstWeekDay,       \* and its day of the week
    Numbers,            \* the numbers printed
    Zones,              \* the zones converted to
    Instants            \* the instants converted

ASSUME ConversionAssumption ==
    FirstDay \in Int /\ LastDay \in Int /\ Numbers \subseteq Int /\ Instants \subseteq Int

VARIABLE
    shown       \* what was converted last

vars == <<shown>>

Init == shown = [kind |-> "nothing"]

(* the calendar as everybody knows it, to compare with *)
IsLeapYear(y) == y % 4 = 0 /\ (y % 100 # 0 \/ y % 400 = 0)

DaysOfMonth(y, m) ==
    CASE m = 2 -> IF IsLeapYear(y) THEN 29 ELSE 28
      [] m \in {4, 6, 9, 11} -> 30
      [] OTHER -> 31

Tomorrow(d) ==
    CASE d.day < DaysOfMonth(d.year, d.month) -> [d EXCEPT !.day = @ + 1]
      [] d.day = DaysOfMonth(d.year, d.month) /\ d.month < 12
           -> [d EXCEPT !.day = 1, !.month = @ + 1]
      [] OTHER -> [year |-> d.year + 1, month |-> 1, day |-> 1]

OpenCalendar ==
    /\ shown.kind = "nothing"
    /\ shown' = [kind |-> "day", value |-> FirstDay, wday |-> FirstWeekDay, yday |-> 0,
                 date |-> [year |-> FirstYear, month |-> 1, day |-> 1]]

TurnDay ==
    /\ shown.kind = "day" /\ shown.value < LastDay
    /\ shown' = [shown EXCEPT !.value = @ + 1, !.date = Tomorrow(@), !.wday = (@ + 1) % 7,
                              !.yday = IF Tomorrow(shown.date).year # shown.date.year
                                         THEN 0 ELSE @ + 1]

PrintNumber ==
    /\ shown.kind = "nothing"
    /\ \E n \in Numbers : shown' = [kind |-> "number", value |-> n]

ConvertInstant ==
    /\ shown.kind = "nothing"
    /\ \E z \in Zones, t \in Instants : shown' = [kind |-> "instant", zone |-> z, value |-> t]

Next == OpenCalendar \/ TurnDay \/ PrintNumber \/ ConvertInstant

Spec == Init /\ [][Next]_vars

-----------------------------------------------------------------------------
(* the seconds of a day that are tried, where they fit into 32 bits *)
SecondsOf(day) ==
    IF day \in -24000 .. 24000 THEN {day * 86400 + s : s \in {0, 1, 3599, 43200, 86399}} ELSE {}

(* Date gives every day its date, its day of the week and of the year, and  *)
(* takes them back, across leap years and centuries; ToUtcTime does so for  *)
(* its first, middle and last seconds, before 1970 too, and FromUtcTime is  *)
(* its inverse.                                                             *)
DayExact ==
    LET jdn == shown.value + kjulian_day_of_19700101 IN
    /\ GetYearMonthDay(jdn) = shown.date
    /\ GetJulianDayNumber(shown.date.year, shown.date.month, shown.date.day) = jdn
    /\ WeekDay(jdn) = shown.wday
    /\ \A t \in SecondsOf(shown.value) :
         /\ ToUtcTime(t) = [date |-> shown.date, time |-> FillHMS(t - shown.value * 86400),
                            wday |-> shown.wday, yday |-> shown.yday]
         /\ FromUtcTime(ToUtcTime(t)) = t

(* the kind of local time in force at t, and how near the next transition is *)
InForce(zone, t) ==
    LET before == {i \in DOMAIN zone.transitions : zone.transitions[i].gmttime <= t}
    IN  IF before = {} THEN Head(zone.localtimes)
        ELSE zone.localtimes[zone.transitions[Cardinality(before)].index]

Outside(zone, t) ==
    \/ \A i \in DOMAIN zone.transitions : t < zone.transitions[i].gmttime - 3600
    \/ \A i \in DOMAIN zone.transitions : t > zone.transitions[i].gmttime + 3600

(* Before the first transition of a zone and after its last, ToLocalTime    *)
(* gives the local time in force and FromLocalTime takes it back.           *)
InstantExact ==
    Outside(shown.zone, shown.value) =>
        LET local == ToLocalTime(shown.zone, shown.value)
            kind == InForce(shown.zone, shown.value)
        IN  /\ local.utc = ToUtcTime(shown.value + kind.gmt_offset)
            /\ local.is_dst = kind.is_dst
            /\ FromLocalTime(shown.zone, local) = shown.value

(* Every day is converted as it should be, and every instant before the     *)
(* first transition of its zone or after the last.                          *)
CalendarExact ==
    /\ shown.kind = "day" => DayExact
    /\ shown.kind = "instant" => InstantExact

(* the number digits stand for, built downwards as the smallest integer has *)
(* no positive counterpart                                                  *)
Negated(digits, base) == FoldLeft(LAMBDA v, d : v * base - d, 0, digits)

(* n is m units, rounded *)
Near(n, m, unit) == 2 * (n - m * unit) \in -unit .. unit

(* Printed numbers read back as the number: all digits, a sign exactly for  *)
(* the negative ones, the smallest integer included, no leading zero, the   *)
(* digits of a pointer after its NUL.  FormatSI and FormatIEC print three   *)
(* digits (whole 1000 to 1023 in IEC) and are off by at most half a unit of *)
(* the last of them.                                                        *)
NumberExact ==
    LET n == shown.value
        text == FormatInteger(n)
        digits == SelectSeq(text, LAMBDA c : c # Minus)
        hex == SubSeq(FormatPointer(n), 4, Len(FormatPointer(n)))
        si == FormatSI(n)
        iec == FormatIEC(n)
    IN  /\ digits # <<>> /\ Negated(digits, 10) = (IF n < 0 THEN n ELSE -n)
        /\ (Head(text) = Minus) = (n < 0)
        /\ Head(digits) = 0 => Len(digits) = 1
        /\ n >= 0 => Negated(hex, 16) = -n /\ (Head(hex) = 0 => n = 0)
        /\ n \in 0 .. 999999999 =>
             /\ si.mantissa \in (IF n < 1000 THEN 0 ELSE 100) .. 999
             /\ Near(n, si.mantissa, 10 ^ (3 * si.power - si.decimals))
             /\ iec.mantissa \in (IF n < 1024 THEN 0 ELSE 100) .. 1023
             /\ iec.decimals > 0 => iec.mantissa <= 999
             /\ n < 10000000 => Near(n * 10 ^ iec.decimals, iec.mantissa, 1024 ^ iec.power)

(* An integer appended or prepended to a Buffer in network order is read    *)
(* back, sign and all, in every width that can hold it, and the bytes after *)
(* it stay.                                                                 *)
BytesExact ==
    LET n == shown.value
        tail == <<0, 255>>
        Fits(width) == width >= 4 \/ n \in -(2 ^ (8 * width - 1)) .. 2 ^ (8 * width - 1) - 1
    IN  \A width \in {1, 2, 4, 8} : Fits(width) =>
          /\ ReadInt(PrependInt(tail, n, width), width) = [result |-> n, content |-> tail]
          /\ PeekInt(AppendInt(<<>>, n, width), width) = n

(* Every number is printed, and sent, as it should be. *)
TextExact == shown.kind = "number" => NumberExact /\ BytesExact
=============================================================================
