------------------------------- MODULE Ds1307 -------------------------------
(***************************************************************************)
(* The real time clock: the driver of src/ds1307.cpp and the chip, seven   *)
(* registers in BCD that count on by themselves.                           *)
(*                                                                         *)
(* A std::time_t is an integer of seconds.  The program has no time zone   *)
(* (the zone is added to what NTP says), so localtime() is the calendar of *)
(* UTC; it serves as the reference the arithmetic of time() is measured    *)
(* against.                                                                *)
(*                                                                         *)
(* The driver ignores the result of its writes and, but for time(), of its *)
(* reads.  A write that fails has reached the chip up to some register; a  *)
(* read that fails leaves the 0 the variable was initialised with.         *)
(***************************************************************************)
EXTENDS Integers

CONSTANTS LastYear,  \* up to which the chip is used: it counts two digits of the year
          Times,     \* what the clock is set to
          Ticks,     \* bound: how many seconds pass in all
          Failures   \* bound: how many bus transactions fail in all

FirstYear == 2000
SecondsPerDay == 86400
INVALID_TIME == -1

VARIABLES regs,      \* the registers of the chip: seconds to year
          moment,    \* observer: the time the chip has been set to and has counted
                     \* on from; INVALID_TIME when a failure has spoilt it
          ticks, failures
vars == <<regs, moment, ticks, failures>>
----------------------------------------------------------------------------
(***************************************************************************)
(* The calendar, as localtime() knows it                                   *)
(***************************************************************************)
\* Whole days from 1970 to the first day of a year: 492 leap years precede 1970.
DaysBeforeYear(y) == 365 * (y - 1970) + (y - 1) \div 4 - 492

DaysInMonth(y, m) ==
    CASE m = 2 -> IF y % 4 = 0 THEN 29 ELSE 28
      [] m \in {4, 6, 9, 11} -> 30
      [] OTHER -> 31

DaysBeforeMonth(y, m) ==
    LET days(k) == IF k < m THEN DaysInMonth(y, k) ELSE 0
    IN  days(1) + days(2) + days(3) + days(4) + days(5) + days(6)
          + days(7) + days(8) + days(9) + days(10) + days(11)

timegm(y, m, d) == DaysBeforeYear(y) + DaysBeforeMonth(y, m) + d - 1

\* The moments the chip can show; nothing is counted beyond them.
Moment == DaysBeforeYear(FirstYear) * SecondsPerDay .. DaysBeforeYear(LastYear + 1) * SecondsPerDay - 1

\* clock_manager hands over what NTP has answered, or the time of a message that was
\* cleared, 2036-02-07 06:28:16.  Before 2000 and from 2100 on the byte set_time()
\* writes for the year is not BCD, or not the year time() reads.
ASSUME ClockAssumption ==
    /\ LastYear \in FirstYear .. FirstYear + 99
    /\ Ticks \in Nat /\ Failures \in Nat
    /\ \A t \in Times : t \in Moment /\ t + Ticks \in Moment

localtime(t) ==
    LET day == t \div SecondsPerDay
        y == CHOOSE y \in FirstYear .. LastYear :
                DaysBeforeYear(y) <= day /\ day < DaysBeforeYear(y + 1)
        m == CHOOSE m \in 1 .. 12 :
                /\ timegm(y, m, 1) <= day
                /\ m < 12 => day < timegm(y, m + 1, 1)
    IN  [sec |-> t % 60, min |-> (t \div 60) % 60, hour |-> (t \div 3600) % 24,
         wday |-> (day + 4) % 7, mday |-> day - timegm(y, m, 1) + 1, mon |-> m, year |-> y]
----------------------------------------------------------------------------
(***************************************************************************)
(* Bytes                                                                   *)
(***************************************************************************)
Byte == 0 .. 255
IsBcd(b) == b \div 16 <= 9 /\ b % 16 <= 9
bcd_to_dec(b) == (b \div 16) * 10 + (b % 16)

dec_to_bcd(v) == (v \div 10) * 16 + (v % 10)

Bit(b, weight) == (b \div weight) % 2 = 1
Stopped(seconds) == Bit(seconds, 128)
Is12h(hours) == Bit(hours, 64)

\* The hour a byte of the hour register stands for, in either format.
get_hours24(hours) ==
    IF ~Is12h(hours) THEN bcd_to_dec(hours)
    ELSE LET h == bcd_to_dec(hours % 32)
         IN  CASE Bit(hours, 32) -> IF h = 12 THEN h ELSE h + 12
               [] OTHER -> IF h = 12 THEN 0 ELSE h

\* The byte set_format() writes for the hour it has read as hours.
HoursRegister(hours, H24) ==
    LET h24 == get_hours24(hours)
        h12 == IF h24 \in {0, 12} THEN 12 ELSE IF h24 < 12 THEN h24 ELSE h24 - 12
    IN  IF H24 THEN dec_to_bcd(h24)
        ELSE dec_to_bcd(h12) + 64 + (IF h24 >= 12 THEN 32 ELSE 0)

\* Mutant: tm_mon is written as localtime() counts it, from 0.
Registers_MonthFromZero(t) ==
    LET tm == localtime(t)
    IN  [r \in 0 .. 6 |->
          dec_to_bcd(<<tm.sec, tm.min, tm.hour, tm.wday, tm.mday, tm.mon - 1,
                       tm.year - 2000>>[r + 1])]

\* The bytes set_time() writes.
Registers(t) ==
    LET tm == localtime(t)
    IN  [r \in 0 .. 6 |->
          dec_to_bcd(<<tm.sec, tm.min, tm.hour, tm.wday, tm.mday, tm.mon,
                       tm.year - 2000>>[r + 1])]
----------------------------------------------------------------------------
(***************************************************************************)
(* The driver                                                              *)
(***************************************************************************)
days_since == <<0, 31, 59, 90, 120, 151, 181, 212, 243, 273, 304, 334>>

\* ds1307::time, if the bus works.  The leap years before year are counted as a
\* quarter of the years since 1970.
time ==
    LET year == bcd_to_dec(regs[6]) + 2000
        month == bcd_to_dec(regs[5])
        days == (year - 1970) * 365 + (year - 1970) \div 4
                  + days_since[month] + bcd_to_dec(regs[4]) - 1
                  + (IF year % 4 = 0 /\ month >= 3 THEN 1 ELSE 0)
    IN  IF Stopped(regs[0]) THEN INVALID_TIME
        ELSE days * SecondsPerDay + bcd_to_dec(regs[0]) + bcd_to_dec(regs[1]) * 60
               + get_hours24(regs[2]) * 3600

Fail == failures > 0 /\ failures' = failures - 1

\* All registers are written in one transaction, from the first one on.
set_time(t) ==
    /\ \/ regs' = Registers(t) /\ moment' = t /\ UNCHANGED failures
       \/ /\ Fail
          /\ \E n \in 1 .. 6 :
               regs' = [r \in 0 .. 6 |-> IF r < n THEN Registers(t)[r] ELSE regs[r]]
          /\ moment' = INVALID_TIME
    /\ UNCHANGED ticks

\* A register is read, changed and written back: good is what is written then,
\* spoilt what is written when the read has failed and given 0.
Rewrite(r, good, spoilt) ==
    /\ \/ /\ regs' = [regs EXCEPT ![r] = good]
          /\ UNCHANGED <<moment, failures>>
       \/ /\ Fail
          /\ regs' = [regs EXCEPT ![r] = spoilt]
          /\ moment' = INVALID_TIME
    /\ UNCHANGED ticks

\* The oscillator bit is the top bit of the seconds.
SecondsRegister(seconds, enable) == (seconds % 128) + (IF enable THEN 0 ELSE 128)

\* Mutant: the whole register is overwritten with the bit.
set_oscillator_BitOnly(enable) ==
    Rewrite(0, SecondsRegister(0, enable), SecondsRegister(0, enable))

set_oscillator(enable) ==
    Rewrite(0, SecondsRegister(regs[0], enable), SecondsRegister(0, enable))

set_format(H24) == Rewrite(2, HoursRegister(regs[2], H24), HoursRegister(0, H24))

\* The chip counts the days of the week from 1 to 7, from what was written on.
weekday(midnight) == IF midnight THEN (regs[3] % 7) + 1 ELSE regs[3]

\* The chip counts on, in the format it is set to, while the oscillator runs.
Tick ==
    /\ ~Stopped(regs[0]) /\ moment # INVALID_TIME
    /\ ticks > 0 /\ ticks' = ticks - 1
    /\ moment' = moment + 1
    /\ regs' = [Registers(moment + 1) EXCEPT
                   ![2] = HoursRegister(@, ~Is12h(regs[2])),
                   ![3] = weekday((moment + 1) % SecondsPerDay = 0)]
    /\ UNCHANGED failures

\* When the second of the registers is over, whatever they hold, so are these.
Following(v, first, last) == IF v >= last THEN first ELSE v + 1
nextMinute == bcd_to_dec(regs[0]) >= 59
nextHour == nextMinute /\ bcd_to_dec(regs[1]) >= 59
nextDay == nextHour /\ get_hours24(regs[2]) = 23

Counted(nextMonth) ==
    [r \in 0 .. 6 |->
       CASE r = 0 -> dec_to_bcd(Following(bcd_to_dec(regs[0]), 0, 59))
         [] r = 1 /\ nextMinute -> dec_to_bcd(Following(bcd_to_dec(regs[1]), 0, 59))
         [] r = 2 /\ nextHour ->
              HoursRegister(dec_to_bcd(Following(get_hours24(regs[2]), 0, 23)), ~Is12h(regs[2]))
         [] r = 3 -> weekday(nextDay)
         [] r = 4 /\ nextDay -> dec_to_bcd(IF nextMonth THEN 1 ELSE bcd_to_dec(regs[4]) + 1)
         [] r = 5 /\ nextMonth -> dec_to_bcd(Following(bcd_to_dec(regs[5]), 1, 12))
         [] r = 6 /\ nextMonth /\ bcd_to_dec(regs[5]) >= 12 ->
              dec_to_bcd(Following(bcd_to_dec(regs[6]), 0, 99))
         [] OTHER -> regs[r]]

\* Registers that a failure has left count on as well, each from what it holds.  What
\* follows a day that its month does not have is open: the next day, or a new month.
TickSpoilt ==
    LET mday == bcd_to_dec(regs[4])
        last == DaysInMonth(2000 + bcd_to_dec(regs[6]), bcd_to_dec(regs[5]))
    IN  /\ ~Stopped(regs[0]) /\ moment = INVALID_TIME
        /\ ticks > 0 /\ ticks' = ticks - 1
        /\ \E nextMonth \in BOOLEAN :
             /\ nextMonth => nextDay /\ mday >= last
             /\ nextDay /\ (mday >= 31 \/ mday = last) => nextMonth
             /\ regs' = Counted(nextMonth)
        /\ UNCHANGED <<moment, failures>>

\* A chip that keeps some time, in either format, running or not.
Init ==
    /\ moment \in Times
    /\ \E H24, running \in BOOLEAN :
         regs = [Registers(moment) EXCEPT
                   ![0] = @ + (IF running THEN 0 ELSE 128),
                   ![2] = HoursRegister(@, H24)]
    /\ ticks = Ticks /\ failures = Failures

Next == \/ \E t \in Times : set_time(t)
        \/ \E enable \in BOOLEAN : set_oscillator(enable)
        \/ \E H24 \in BOOLEAN : set_format(H24)
        \/ Tick \/ TickSpoilt

Spec == Init /\ [][Next]_vars
----------------------------------------------------------------------------
(***************************************************************************)
(* Properties                                                              *)
(***************************************************************************)

\* Decoding never leaves its ground, not even after transactions that were cut
\* short: no digit trips the assertions of bcd_to_dec(), and the month is one
\* days_since[] has an entry for.
DecodesSafely ==
    /\ regs \in [0 .. 6 -> Byte]
    /\ \A r \in {1, 4, 5, 6} : IsBcd(regs[r])
    /\ ~Stopped(regs[0]) => IsBcd(regs[0])
    /\ IsBcd(IF Is12h(regs[2]) THEN regs[2] % 32 ELSE regs[2])
    /\ bcd_to_dec(regs[5]) \in 1 .. 12

\* What time() returns is the number of seconds since 1970 the clock was set to and
\* has counted on from, through rollovers, stops and changes of format; one day
\* less in a year that follows a leap year.  The time of day, which is what the
\* scheduler goes by, is right in every year.
ShowsTime ==
    time # INVALID_TIME /\ moment # INVALID_TIME
      => time = moment - (IF localtime(moment).year % 4 = 1 THEN SecondsPerDay ELSE 0)
============================================================================
