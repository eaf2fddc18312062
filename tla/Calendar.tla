------------------------------ MODULE Calendar ------------------------------
(***************************************************************************)
(* dwater/base/date.cc and time_zone.cc: dates as Julian day numbers, and  *)
(* the conversions between seconds since 1970, UTC and local time.  The    *)
(* division of C++ rounds towards zero, \div down.                         *)
(***************************************************************************)
EXTENDS Integers, Sequences, FiniteSets, SequencesExt

CMod(a, b) == IF a < 0 /\ a % b # 0 THEN (a % b) - b ELSE a % b
CDiv(a, b) == IF a < 0 /\ a % b # 0 THEN a \div b + 1 ELSE a \div b

-----------------------------------------------------------------------------
(* Date *)

GetJulianDayNumber(year, month, day) ==
    LET a == (14 - month) \div 12
        y == year + 4800 - a
        m == month + 12 * a - 3
    IN  day + (153 * m + 2) \div 5 + y * 365 + y \div 4 - y \div 100 + y \div 400 - 32045

(* mutant: years of 365 days *)
GetYearMonthDayNoLeap(jdn) ==
    LET a == jdn + 32044
        b == (4 * a + 3) \div 146097
        c == a - (b * 146097) \div 4
        d == (4 * c + 3) \div 1460
        e == c - (1461 * d) \div 4
        m == (5 * e + 2) \div 153
    IN  [year |-> b * 100 + d - 4800 + m \div 10,
         month |-> m + 3 - 12 * (m \div 10),
         day |-> e - (153 * m + 2) \div 5 + 1]

GetYearMonthDay(jdn) ==
    LET a == jdn + 32044
        b == (4 * a + 3) \div 146097
        c == a - (b * 146097) \div 4
        d == (4 * c + 3) \div 1461
        e == c - (1461 * d) \div 4
        m == (5 * e + 2) \div 153
    IN  [year |-> b * 100 + d - 4800 + m \div 10,
         month |-> m + 3 - 12 * (m \div 10),
         day |-> e - (153 * m + 2) \div 5 + 1]

WeekDay(jdn) == (jdn + 1) % 7

kjulian_day_of_19700101 == GetJulianDayNumber(1970, 1, 1)

-----------------------------------------------------------------------------
(* TimeZone: UTC *)

kseconds_per_day == 24 * 60 * 60

FillHMS(seconds) ==
    [hour |-> (seconds \div 60) \div 60, min |-> (seconds \div 60) % 60, sec |-> seconds % 60]

ToUtcTime(seconds_since_epoch) ==
    LET rest == CMod(seconds_since_epoch, kseconds_per_day)
        quot == CDiv(seconds_since_epoch, kseconds_per_day)
        seconds == IF rest < 0 THEN rest + kseconds_per_day ELSE rest
        days == IF rest < 0 THEN quot - 1 ELSE quot
        jdn == days + kjulian_day_of_19700101
        ymd == GetYearMonthDay(jdn)
    IN  [date |-> ymd, time |-> FillHMS(seconds), wday |-> WeekDay(jdn),
         yday |-> jdn - GetJulianDayNumber(ymd.year, 1, 1)]

FromUtcTime(utc) ==
    LET d == utc.date IN
    (GetJulianDayNumber(d.year, d.month, d.day) - kjulian_day_of_19700101) * kseconds_per_day
      + utc.time.hour * 3600 + utc.time.min * 60 + utc.time.sec

-----------------------------------------------------------------------------
(* TimeZone: zones.  A zone file lists the instants of its transitions, the *)
(* kind of local time each begins, and the kinds.                           *)

(* Data of a file; a file that is missing or cut short leaves it incomplete *)
ReadTimeZoneFile(trans, index, localtimes) ==
    [transitions |-> [i \in 1 .. Len(trans) |->
                        [gmttime |-> trans[i],
                         localtime |-> trans[i] + localtimes[index[i]].gmt_offset,
                         index |-> index[i]]],
     localtimes |-> localtimes]

FixedZone(east_of_utc) ==
    [transitions |-> <<>>, localtimes |-> <<[gmt_offset |-> east_of_utc, is_dst |-> FALSE]>>]

Key(transition, gmt) == IF gmt THEN transition.gmttime ELSE transition.localtime

(* Comp::Equal compares with <, as operator() does *)
Equal(t, transition, gmt) == t < Key(transition, gmt)

(* the first transition that is not before t; one too many if there is none *)
LowerBound(ts, t, gmt) == 1 + Cardinality({i \in DOMAIN ts : Key(ts[i], gmt) < t})

(* FindLocaltime: for `t` GMT, or local, in seconds.  Exactly at the first  *)
(* transition it asserts.                                                   *)
FindLocaltime(data, t, gmt) ==
    LET ts == data.transitions
        i == LowerBound(ts, t, gmt)
    IN  CASE ts = <<>> \/ t < Key(Head(ts), gmt) -> Head(data.localtimes)
          [] ts # <<>> /\ t >= Key(Head(ts), gmt) /\ i > Len(ts)
               -> data.localtimes[Last(ts).index]
          [] OTHER -> data.localtimes[ts[IF Equal(t, ts[i], gmt) THEN i ELSE i - 1].index]

ToLocalTime(data, seconds) ==
    LET local == FindLocaltime(data, seconds, TRUE)
    IN  [utc |-> ToUtcTime(seconds + local.gmt_offset), is_dst |-> local.is_dst]

FromLocalTime(data, localtime) ==
    LET seconds == FromUtcTime(localtime.utc)
        local == FindLocaltime(data, seconds, FALSE)
        try == ToLocalTime(data, seconds - local.gmt_offset)
        again == /\ localtime.is_dst /\ ~try.is_dst
                 /\ try.utc.time.hour = localtime.utc.time.hour
                 /\ try.utc.time.min = localtime.utc.time.min
    IN  (IF again THEN seconds - 60 * 60 ELSE seconds) - local.gmt_offset
=============================================================================
