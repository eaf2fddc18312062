---------------------------- MODULE MCConversions ----------------------------
(* The instance of Conversions that TLC checks: the days of 1896 to 2104,   *)
(* numbers around every power and threshold, a fixed zone and one with the  *)
(* transitions of New York in 2006 and 2007.                                *)
EXTENDS Conversions

MCFirstDay == -27028

Around(s) == UNION {n - 2 .. n + 2 : n \in s}

MCNumbers ==
    Around({0, 1000, 1024, 9995, 99950, 999500, 9995000, 99950000, 999500000,
            10235, 102349, 1048064, 10480517, 104805171, 1073217536, 2147483644}
           \cup {10 ^ k : k \in 1 .. 9} \cup {2 ^ k : k \in 3 .. 30})
      \cup {2147483647, -1, -9, -10, -11, -99, -100, -2147483647, -2147483647 - 1}

Eastern ==
    ReadTimeZoneFile(<<1143961200, 1162101600, 1173596400, 1194156000>>, <<2, 1, 2, 1>>,
        <<[gmt_offset |-> -18000, is_dst |-> FALSE], [gmt_offset |-> -14400, is_dst |-> TRUE]>>)

MCZones == {FixedZone(28800), FixedZone(0), FixedZone(-12600), Eastern}

MCInstants ==
    {-86401, -1, 0, 1, 1143961200 - 7200, 1143961200 - 3601, 1143961200, 1150000000,
     1162101600, 1170000000, 1194156000, 1194156000 + 3601, 1194156000 + 86400, 1300000000}
=============================================================================
