------------------------------ MODULE LogStream ------------------------------
(***************************************************************************)
(* dwater/base/log_stream.cc: how numbers are turned into text.  A text is *)
(* the sequence of its digits, with Minus, Nul and x where they occur.     *)
(***************************************************************************)
EXTENDS Calendar

Minus == -1
Nul == -2
LetterX == -3

(* detail::digits, and zero, which points into its middle *)
Digits == <<9, 8, 7, 6, 5, 4, 3, 2, 1, 0, 1, 2, 3, 4, 5, 6, 7, 8, 9>>
Zero(lsd) == Digits[10 + lsd]

(* the digits of i as the loop of Convert finds them, the last one first *)
LowDigits(i, base) ==
    LET RECURSIVE Loop(_)
        Loop(j) == <<CMod(j, base)>> \o (IF CDiv(j, base) # 0 THEN Loop(CDiv(j, base)) ELSE <<>>)
    IN  Loop(i)

(* mutant: `while` instead of `do ... while` *)
ConvertWhile(value) ==
    IF value = 0 THEN <<>>
    ELSE Reverse([i \in DOMAIN LowDigits(value, 10) |-> Zero(LowDigits(value, 10)[i])]
                   \o (IF value < 0 THEN <<Minus>> ELSE <<>>))

Convert(value) ==
    LET low == LowDigits(value, 10) IN
    Reverse([i \in DOMAIN low |-> Zero(low[i])] \o (IF value < 0 THEN <<Minus>> ELSE <<>>))

(* the terminating NUL is part of what is reversed and of the length *)
ConvertHex(value) == Reverse(LowDigits(value, 16) \o <<Nul>>)

(* LogStream's operator<< of the integers: all or nothing, depending on     *)
(* FixedBuffer::Avail, which answers with the size of the buffer            *)
Avail == 4000
k_max_numeric_size == 32
FormatInteger(v) == IF Avail >= k_max_numeric_size THEN Convert(v) ELSE <<>>

(* ... and of a pointer *)
FormatPointer(p) ==
    IF Avail >= k_max_numeric_size THEN <<0, LetterX>> \o ConvertHex(p) ELSE <<>>

-----------------------------------------------------------------------------
(* FormatSI and FormatIEC print three digits or four, e.g. 9.99k, 10.0k,    *)
(* 1023Ki: `mantissa` without the point, its `decimals`, and the power of   *)
(* 1000 or 1024.  Ties are rounded up; printf rounds the binary fraction.   *)

(* n * 1000 / unit, where 1000 / unit = m / d *)
Thousandths(n, m, d) == (n \div d) * m + ((n % d) * m) \div d

(* the digits after the point for t thousandths: "%.2f", "%.1f" or "%.0f" *)
Decimals(t) == IF t < 9995 THEN 2 ELSE IF t < 99950 THEN 1 ELSE 0

(* the first of the six units in which n is less than `limit` thousandths;  *)
(* T[p] is n in thousandths of the p-th unit                                *)
Scaled(n, base, limit, T) ==
    IF n < base THEN [mantissa |-> n, decimals |-> 0, power |-> 0]
    ELSE LET p == CHOOSE p \in 1 .. 6 : /\ p = 6 \/ T[p] < limit
                                        /\ \A q \in 1 .. p - 1 : T[q] >= limit
             c == Decimals(T[p])
             half == 5 * 10 ^ (2 - c)
         IN  [mantissa |-> (T[p] + half) \div (2 * half), decimals |-> c, power |-> p]

FormatSI(s) ==
    Scaled(s, 1000, 999500, [p \in 1 .. 6 |-> Thousandths(s, 1, 1000 ^ (p - 1))])

FormatIEC(s) ==
    Scaled(s, 1024, 1023500, [p \in 1 .. 6 |-> Thousandths(s, 125, 128 * 1024 ^ (p - 1))])
=============================================================================
