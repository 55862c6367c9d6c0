---------------------------- MODULE Ds1307Proofs ----------------------------
(***************************************************************************)
(* What holds of the real time clock for every time from 2000 to the last  *)
(* year it is used in, 2099 at most, every number of seconds that pass and *)
(* every number of bus transactions that fail: decoding stays on its       *)
(* ground, and the time that is returned is the one that was set and       *)
(* counted on.                                                             *)
(***************************************************************************)
EXTENDS Ds1307, TLAPS

Clock == [sec : 0 .. 59, min : 0 .. 59, hour : 0 .. 23, wday : 0 .. 6, mday : 1 .. 31,
          mon : 1 .. 12, year : FirstYear .. LastYear]

\* A byte of the hour register, in one format or the other.
IsHour(b) == \E h \in 0 .. 23, H24 \in BOOLEAN : b = HoursRegister(dec_to_bcd(h), H24)

\* Every register r holds what its field can be, whatever it was written for.
InRange(r) ==
    /\ r \in [0 .. 6 -> Byte]
    /\ \A i \in {1, 4, 5, 6} : IsBcd(r[i])
    /\ IsBcd(r[0] % 128)
    /\ IsHour(r[2])
    /\ bcd_to_dec(r[5]) \in 1 .. 12

\* The registers r show the time t: the oscillator bit, the format of the hour and the
\* day of the week are not about the time.
Shows(r, t) ==
    /\ \A i \in {1, 4, 5, 6} : r[i] = Registers(t)[i]
    /\ r[0] % 128 = Registers(t)[0]
    /\ get_hours24(r[2]) = localtime(t).hour

\* Unless a failure has spoilt it, the chip shows the moment.
IInv ==
    /\ InRange(regs)
    /\ ticks \in 0 .. Ticks /\ failures \in Nat
    /\ moment # INVALID_TIME =>
         moment \in Moment /\ moment + ticks \in Moment /\ Shows(regs, moment)
----------------------------------------------------------------------------
(***************************************************************************)
(* The calendar                                                            *)
(***************************************************************************)
\* The days before a month, as the driver has them.
Before(y, m) == days_since[m] + (IF m >= 3 THEN IF y % 4 = 0 THEN 1 ELSE 0 ELSE 0)

LEMMA MonthTable ==
  ASSUME NEW y \in Int, NEW m \in 1 .. 12
  PROVE  DaysBeforeMonth(y, m) = Before(y, m) /\ Before(y, m) \in 0 .. 335
  <1> DEFINE leap == IF y % 4 = 0 THEN 1 ELSE 0
  <1>1. /\ DaysInMonth(y, 1) = 31 /\ DaysInMonth(y, 2) = 28 + leap /\ DaysInMonth(y, 3) = 31
        /\ DaysInMonth(y, 4) = 30 /\ DaysInMonth(y, 5) = 31 /\ DaysInMonth(y, 6) = 30
        /\ DaysInMonth(y, 7) = 31 /\ DaysInMonth(y, 8) = 31 /\ DaysInMonth(y, 9) = 30
        /\ DaysInMonth(y, 10) = 31 /\ DaysInMonth(y, 11) = 30
    BY DEF DaysInMonth
  <1>2. leap \in {0, 1} /\ Before(y, m) = days_since[m] + (IF m >= 3 THEN leap ELSE 0)
    BY DEF Before
  <1> HIDE DEF leap
  <1>3. DaysBeforeMonth(y, m) = CASE m = 1 -> 0
             [] m = 2 -> 31 [] m = 3 -> 59 + leap [] m = 4 -> 90 + leap
             [] m = 5 -> 120 + leap [] m = 6 -> 151 + leap [] m = 7 -> 181 + leap
             [] m = 8 -> 212 + leap [] m = 9 -> 243 + leap [] m = 10 -> 273 + leap
             [] m = 11 -> 304 + leap [] m = 12 -> 334 + leap
    BY <1>1, <1>2 DEF DaysBeforeMonth
  <1>4. QED
    BY <1>2, <1>3 DEF days_since

LEMMA YearLength ==
  ASSUME NEW y \in FirstYear .. FirstYear + 99
  PROVE  /\ DaysBeforeYear(y) \in Int
         /\ DaysBeforeYear(y + 1) = DaysBeforeYear(y) + 365 + (IF y % 4 = 0 THEN 1 ELSE 0)
  BY DEF DaysBeforeYear, FirstYear

\* The number of the first day of a month.
LEMMA FirstOfMonth ==
  ASSUME NEW y \in FirstYear .. FirstYear + 99, NEW m \in 1 .. 12
  PROVE  timegm(y, m, 1) = DaysBeforeYear(y) + Before(y, m)
  <1>1. y \in Int
    BY DEF FirstYear
  <1>2. DaysBeforeMonth(y, m) = Before(y, m) /\ Before(y, m) \in 0 .. 335
    BY <1>1, MonthTable, Zenon
  <1>3. DaysBeforeYear(y) \in Int
    BY YearLength
  <1> HIDE DEF Before
  <1>4. timegm(y, m, 1) = DaysBeforeYear(y) + Before(y, m) + 1 - 1
    BY <1>2, Zenon DEF timegm
  <1>5. QED
    BY <1>2, <1>3, <1>4

\* The year a day is in.
LEMMA YearExists ==
  ASSUME NEW day \in DaysBeforeYear(FirstYear) .. DaysBeforeYear(LastYear + 1) - 1
  PROVE  \E y \in FirstYear .. LastYear :
            DaysBeforeYear(y) <= day /\ day < DaysBeforeYear(y + 1)
  <1>1. \E y \in 2000 .. 2099 : DaysBeforeYear(y) <= day /\ day < DaysBeforeYear(y + 1)
    BY ClockAssumption DEF DaysBeforeYear, FirstYear
  <1>2. PICK y \in 2000 .. 2099 : DaysBeforeYear(y) <= day /\ day < DaysBeforeYear(y + 1)
    BY <1>1
  <1>3. y <= LastYear
    BY <1>2, ClockAssumption DEF DaysBeforeYear, FirstYear
  <1>4. QED
    BY <1>2, <1>3, ClockAssumption DEF FirstYear

\* The month of the year a day is in.
LEMMA MonthExists ==
  ASSUME NEW y \in FirstYear .. FirstYear + 99, NEW day \in Int,
         DaysBeforeYear(y) <= day, day < DaysBeforeYear(y + 1)
  PROVE  \E m \in 1 .. 12 : timegm(y, m, 1) <= day /\ (m < 12 => day < timegm(y, m + 1, 1))
  <1> DEFINE leap == IF y % 4 = 0 THEN 1 ELSE 0
             n == day - DaysBeforeYear(y)
  <1>1. y \in Int /\ DaysBeforeYear(y) \in Int /\ leap \in {0, 1} /\ n \in 0 .. 364 + leap
    <2>1. y \in Int /\ leap \in {0, 1}
      BY DEF FirstYear
    <2>2. DaysBeforeYear(y) \in Int /\ DaysBeforeYear(y + 1) = DaysBeforeYear(y) + 365 + leap
      BY YearLength
    <2>3. QED
      BY <2>1, <2>2
  <1>2. \A m \in 1 .. 12 : Before(y, m) = days_since[m] + (IF m >= 3 THEN leap ELSE 0)
    BY DEF Before
  <1>3. \A m \in 1 .. 12 : timegm(y, m, 1) = DaysBeforeYear(y) + Before(y, m)
    BY FirstOfMonth, Zenon
  <1>4. \E m \in 1 .. 12 : Before(y, m) <= n /\ (m < 12 => n < Before(y, m + 1))
    <2> HIDE DEF leap, n
    <2>1. \E m \in 1 .. 12 :
             /\ days_since[m] + (IF m >= 3 THEN leap ELSE 0) <= n
             /\ m < 12 => n < days_since[m + 1] + (IF m + 1 >= 3 THEN leap ELSE 0)
      BY <1>1 DEF days_since
    <2>2. QED
      BY <1>2, <2>1
  <1>5. PICK m \in 1 .. 12 : Before(y, m) <= n /\ (m < 12 => n < Before(y, m + 1))
    BY <1>4
  <1>6. Before(y, m) \in Int /\ (m < 12 => Before(y, m + 1) \in Int)
    BY <1>1, <1>2 DEF days_since
  <1>7. QED
    BY <1>1, <1>3, <1>5, <1>6

\* localtime() gives every field its range, and the fields make up the time.
LEMMA LocalTime ==
  ASSUME NEW t \in Moment
  PROVE  /\ localtime(t) \in Clock
         /\ LET tm == localtime(t)
            IN  t = (DaysBeforeYear(tm.year) + Before(tm.year, tm.mon) + tm.mday - 1) * SecondsPerDay
                      + tm.hour * 3600 + tm.min * 60 + tm.sec
  <1> DEFINE day == t \div SecondsPerDay
             y == CHOOSE k \in FirstYear .. LastYear :
                     DaysBeforeYear(k) <= day /\ day < DaysBeforeYear(k + 1)
             m == CHOOSE k \in 1 .. 12 :
                     /\ timegm(y, k, 1) <= day
                     /\ k < 12 => day < timegm(y, k + 1, 1)
             tm == localtime(t)
  <1>1. t \in Nat /\ day \in DaysBeforeYear(FirstYear) .. DaysBeforeYear(LastYear + 1) - 1
    BY ClockAssumption DEF Moment, SecondsPerDay, DaysBeforeYear, FirstYear
  <1>2. tm = [sec |-> t % 60, min |-> (t \div 60) % 60, hour |-> (t \div 3600) % 24,
              wday |-> (day + 4) % 7, mday |-> day - timegm(y, m, 1) + 1, mon |-> m, year |-> y]
    BY DEF localtime
  <1>3. y \in FirstYear .. LastYear /\ DaysBeforeYear(y) <= day /\ day < DaysBeforeYear(y + 1)
    BY <1>1, YearExists
  <1> HIDE DEF y
  <1>4. y \in FirstYear .. FirstYear + 99 /\ y \in Int
    BY <1>3, ClockAssumption DEF FirstYear
  <1>5. day \in Int
    BY <1>1 DEF SecondsPerDay
  <1>6. m \in 1 .. 12 /\ timegm(y, m, 1) <= day /\ (m < 12 => day < timegm(y, m + 1, 1))
    BY <1>3, <1>4, <1>5, MonthExists
  <1> HIDE DEF m, tm
  <1>7. \A k \in 1 .. 12 : DaysBeforeMonth(y, k) = Before(y, k) /\ Before(y, k) \in 0 .. 335
    BY <1>4, MonthTable, Zenon
  <1>8. /\ DaysBeforeYear(y) \in Int
        /\ DaysBeforeYear(y + 1) = DaysBeforeYear(y) + 365 + (IF y % 4 = 0 THEN 1 ELSE 0)
    BY <1>4, YearLength
  <1>9. \A k \in 1 .. 12 : timegm(y, k, 1) = DaysBeforeYear(y) + Before(y, k)
    BY <1>4, FirstOfMonth, Zenon
  <1>10. day - timegm(y, m, 1) + 1 \in 1 .. 31
    <2>1. /\ timegm(y, m, 1) = DaysBeforeYear(y) + Before(y, m)
          /\ m < 12 => timegm(y, m + 1, 1) = DaysBeforeYear(y) + Before(y, m + 1)
      BY <1>6, <1>9
    <2>2. m < 12 => Before(y, m + 1) - Before(y, m) <= 31
      BY <1>4, <1>6 DEF Before, days_since
    <2>3. m = 12 => Before(y, m) = 334 + (IF y % 4 = 0 THEN 1 ELSE 0)
      BY <1>4 DEF Before, days_since
    <2>4. Before(y, m) \in Int /\ (m < 12 => Before(y, m + 1) \in Int)
      BY <1>4, <1>6 DEF Before, days_since
    <2>5. QED
      BY <1>3, <1>4, <1>5, <1>6, <1>8, <2>1, <2>2, <2>3, <2>4
  <1>11. /\ t % 60 \in 0 .. 59 /\ (t \div 60) % 60 \in 0 .. 59 /\ (t \div 3600) % 24 \in 0 .. 23
         /\ (day + 4) % 7 \in 0 .. 6
         /\ t = day * SecondsPerDay + ((t \div 3600) % 24) * 3600 + ((t \div 60) % 60) * 60 + (t % 60)
    <2>1. t % 60 \in 0 .. 59 /\ (t \div 60) % 60 \in 0 .. 59 /\ (t \div 3600) % 24 \in 0 .. 23
      BY <1>1
    <2>2. (day + 4) % 7 \in 0 .. 6
      <3> HIDE DEF day
      <3>1. QED
        BY <1>5
    <2>3. t = day * 86400 + ((t \div 3600) % 24) * 3600 + ((t \div 60) % 60) * 60 + (t % 60)
      BY <1>1 DEF SecondsPerDay
    <2>4. QED
      BY <2>1, <2>2, <2>3 DEF SecondsPerDay
  <1>12. tm \in Clock
    BY <1>2, <1>3, <1>6, <1>10, <1>11 DEF Clock
  <1>13. DaysBeforeYear(tm.year) + Before(tm.year, tm.mon) + tm.mday - 1 = day
    <2> HIDE DEF day
    <2>1. tm.year = y /\ tm.mon = m /\ tm.mday = day - timegm(y, m, 1) + 1
      BY <1>2
    <2>2. timegm(y, m, 1) = DaysBeforeYear(y) + Before(y, m) /\ Before(y, m) \in 0 .. 335
      BY <1>6, <1>7, <1>9, Zenon
    <2>3. DaysBeforeYear(y) + Before(y, m) + (day - (DaysBeforeYear(y) + Before(y, m)) + 1) - 1 = day
      BY <1>5, <1>8, <2>2
    <2>4. QED
      BY <2>1, <2>2, <2>3, Zenon
  <1>14. QED
    BY <1>2, <1>11, <1>12, <1>13 DEF tm
----------------------------------------------------------------------------
(***************************************************************************)
(* Bytes                                                                   *)
(***************************************************************************)
\* Two decimal digits, there and back.
LEMMA Bcd ==
  ASSUME NEW v \in 0 .. 99
  PROVE  /\ dec_to_bcd(v) \in 0 .. 153
         /\ IsBcd(dec_to_bcd(v)) /\ bcd_to_dec(dec_to_bcd(v)) = v
         /\ v < 80 => dec_to_bcd(v) < 128 /\ (~Stopped(dec_to_bcd(v)))
         /\ v < 40 => dec_to_bcd(v) < 64 /\ (~Is12h(dec_to_bcd(v)))
  BY DEF dec_to_bcd, bcd_to_dec, IsBcd, Stopped, Is12h, Bit

\* The hour, in either format.
LEMMA Hour ==
  ASSUME NEW h \in 0 .. 23, NEW H24 \in BOOLEAN
  PROVE  LET b == HoursRegister(dec_to_bcd(h), H24)
         IN  /\ b \in 0 .. 127 /\ get_hours24(b) = h
             /\ IsBcd(IF Is12h(b) THEN b % 32 ELSE b) /\ (Is12h(b) <=> ~H24)
  <1>1. get_hours24(dec_to_bcd(h)) = h
    <2>1. h \in 0 .. 99 /\ h < 40
      OBVIOUS
    <2>2. bcd_to_dec(dec_to_bcd(h)) = h /\ ~Is12h(dec_to_bcd(h))
      BY <2>1, Bcd
    <2>3. QED
      BY <2>2, Zenon DEF get_hours24
  <1>2. CASE H24
    <2>1. HoursRegister(dec_to_bcd(h), H24) = dec_to_bcd(h)
      BY <1>1, <1>2 DEF HoursRegister
    <2>2. h \in 0 .. 99 /\ h < 40 /\ h < 80
      OBVIOUS
    <2>3. /\ dec_to_bcd(h) \in 0 .. 153 /\ IsBcd(dec_to_bcd(h))
          /\ dec_to_bcd(h) < 128 /\ (~Is12h(dec_to_bcd(h)))
      BY <2>2, Bcd
    <2>4. dec_to_bcd(h) \in 0 .. 127
      BY <2>3
    <2>5. IsBcd(IF Is12h(dec_to_bcd(h)) THEN dec_to_bcd(h) % 32 ELSE dec_to_bcd(h))
      BY <2>3
    <2>6. QED
      BY <1>1, <1>2, <2>1, <2>3, <2>4, <2>5, Zenon
  <1>3. CASE ~H24
    <2> DEFINE h12 == IF h \in {0, 12} THEN 12 ELSE IF h < 12 THEN h ELSE h - 12
               pm == IF h >= 12 THEN 32 ELSE 0
               b == dec_to_bcd(h12) + 64 + pm
    <2>1. HoursRegister(dec_to_bcd(h), H24) = b
      BY <1>1, <1>3 DEF HoursRegister
    <2>2. h12 \in 1 .. 12 /\ dec_to_bcd(h12) \in 1 .. 18 /\ IsBcd(dec_to_bcd(h12))
          /\ bcd_to_dec(dec_to_bcd(h12)) = h12
      BY DEF dec_to_bcd, bcd_to_dec, IsBcd
    <2>3. pm \in {0, 32}
      OBVIOUS
    <2>4. /\ b \in 0 .. 127 /\ b % 32 = dec_to_bcd(h12) /\ Is12h(b)
          /\ Bit(b, 32) <=> h >= 12
      <3> HIDE DEF h12
      <3>1. QED
        BY <2>2 DEF Is12h, Bit
    <2>5. get_hours24(b) = IF h >= 12 THEN IF h12 = 12 THEN 12 ELSE h12 + 12
                                      ELSE IF h12 = 12 THEN 0 ELSE h12
      <3> HIDE DEF h12, b
      <3>1. QED
        BY <2>2, <2>4 DEF get_hours24
    <2>6. get_hours24(b) = h
      BY <2>5
    <2> HIDE DEF b
    <2>7. QED
      BY <1>3, <2>1, <2>2, <2>4, <2>6
  <1>4. QED
    BY <1>2, <1>3

\* What set_time() writes: each register holds its field.
LEMMA RegistersRight ==
  ASSUME NEW t \in Moment
  PROVE  LET tm == localtime(t)
             written == Registers(t)
         IN  /\ tm \in Clock
             /\ written \in [0 .. 6 -> 0 .. 153]
             /\ written[0] = dec_to_bcd(tm.sec) /\ written[1] = dec_to_bcd(tm.min)
             /\ written[2] = dec_to_bcd(tm.hour) /\ written[3] = dec_to_bcd(tm.wday)
             /\ written[4] = dec_to_bcd(tm.mday) /\ written[5] = dec_to_bcd(tm.mon)
             /\ written[6] = dec_to_bcd(tm.year - 2000)
  <1> DEFINE tm == localtime(t)
             written == Registers(t)
             field == <<tm.sec, tm.min, tm.hour, tm.wday, tm.mday, tm.mon, tm.year - 2000>>
  <1>1. tm \in Clock
    BY LocalTime
  <1>2. written = [r \in 0 .. 6 |-> dec_to_bcd(field[r + 1])]
    BY DEF Registers
  <1> HIDE DEF tm, written
  <1>3. /\ field[1] = tm.sec /\ field[2] = tm.min /\ field[3] = tm.hour /\ field[4] = tm.wday
        /\ field[5] = tm.mday /\ field[6] = tm.mon /\ field[7] = tm.year - 2000
    OBVIOUS
  <1> HIDE DEF field
  <1>4. /\ tm.sec \in 0 .. 99 /\ tm.min \in 0 .. 99 /\ tm.hour \in 0 .. 99 /\ tm.wday \in 0 .. 99
        /\ tm.mday \in 0 .. 99 /\ tm.mon \in 0 .. 99 /\ tm.year - 2000 \in 0 .. 99
    BY <1>1, ClockAssumption DEF Clock, FirstYear
  <1>5. \A k \in 1 .. 7 : field[k] \in 0 .. 99
    BY <1>3, <1>4
  <1>6. \A r \in 0 .. 6 : dec_to_bcd(field[r + 1]) \in 0 .. 153
    <2>1. TAKE r \in 0 .. 6
    <2>2. field[r + 1] \in 0 .. 99
      BY <1>5
    <2>3. QED
      BY <2>2, Bcd
  <1>7. /\ written[0] = dec_to_bcd(tm.sec) /\ written[1] = dec_to_bcd(tm.min)
        /\ written[2] = dec_to_bcd(tm.hour) /\ written[3] = dec_to_bcd(tm.wday)
        /\ written[4] = dec_to_bcd(tm.mday) /\ written[5] = dec_to_bcd(tm.mon)
        /\ written[6] = dec_to_bcd(tm.year - 2000)
    BY <1>2, <1>3
  <1>8. written \in [0 .. 6 -> 0 .. 153]
    BY <1>2, <1>6
  <1>9. QED
    BY <1>1, <1>7, <1>8 DEF tm, written

\* What set_time() writes can be decoded and shows the time.
LEMMA WrittenInRange ==
  ASSUME NEW t \in Moment
  PROVE  LET written == Registers(t)
         IN  /\ written \in [0 .. 6 -> Byte]
             /\ \A r \in {1, 4, 5, 6} : IsBcd(written[r])
             /\ written[0] \in 0 .. 127 /\ IsBcd(written[0])
             /\ written[2] = dec_to_bcd(localtime(t).hour) /\ localtime(t).hour \in 0 .. 23
             /\ IsHour(written[2]) /\ get_hours24(written[2]) = localtime(t).hour
             /\ bcd_to_dec(written[5]) \in 1 .. 12
  <1> DEFINE tm == localtime(t)
             written == Registers(t)
  <1>1. /\ tm \in Clock
        /\ written \in [0 .. 6 -> 0 .. 153]
        /\ written[0] = dec_to_bcd(tm.sec) /\ written[1] = dec_to_bcd(tm.min)
        /\ written[2] = dec_to_bcd(tm.hour) /\ written[4] = dec_to_bcd(tm.mday)
        /\ written[5] = dec_to_bcd(tm.mon) /\ written[6] = dec_to_bcd(tm.year - 2000)
    BY RegistersRight
  <1> HIDE DEF tm, written
  <1>2. /\ tm.sec \in 0 .. 59 /\ tm.min \in 0 .. 59 /\ tm.hour \in 0 .. 23
        /\ tm.mday \in 1 .. 31 /\ tm.mon \in 1 .. 12 /\ tm.year - 2000 \in 0 .. 99
    BY <1>1, ClockAssumption DEF Clock, FirstYear
  <1>3. /\ tm.sec \in 0 .. 99 /\ tm.min \in 0 .. 99 /\ tm.hour \in 0 .. 99
        /\ tm.mday \in 0 .. 99 /\ tm.mon \in 0 .. 99 /\ tm.sec < 80 /\ tm.hour < 40
    BY <1>2
  <1>4. written[0] \in 0 .. 127 /\ IsBcd(written[0])
    <2>1. dec_to_bcd(tm.sec) \in 0 .. 153 /\ dec_to_bcd(tm.sec) < 128 /\ IsBcd(dec_to_bcd(tm.sec))
      BY <1>3, Bcd
    <2>2. QED
      BY <1>1, <2>1
  <1>5. \A r \in {1, 4, 5, 6} : IsBcd(written[r])
    <2>1. \A v \in 0 .. 99 : IsBcd(dec_to_bcd(v))
      BY Bcd
    <2>2. QED
      BY <1>1, <1>2, <1>3, <2>1
  <1>6. bcd_to_dec(written[5]) \in 1 .. 12
    <2>1. bcd_to_dec(dec_to_bcd(tm.mon)) = tm.mon
      BY <1>3, Bcd, Zenon
    <2>2. QED
      BY <1>1, <1>2, <2>1
  <1>7. get_hours24(written[2]) = tm.hour
    <2>1. bcd_to_dec(dec_to_bcd(tm.hour)) = tm.hour /\ (~Is12h(dec_to_bcd(tm.hour)))
      BY <1>3, Bcd, Zenon
    <2>2. QED
      BY <1>1, <2>1 DEF get_hours24
  <1>8. IsHour(written[2])
    <2>1. HoursRegister(dec_to_bcd(tm.hour), TRUE) = dec_to_bcd(tm.hour)
      BY <1>1, <1>7 DEF HoursRegister
    <2>2. \E H24 \in BOOLEAN : written[2] = HoursRegister(dec_to_bcd(tm.hour), H24)
      <3>1. written[2] = HoursRegister(dec_to_bcd(tm.hour), TRUE)
        <4>1. written[2] = dec_to_bcd(tm.hour)
          BY <1>1
        <4>2. QED
          BY <2>1, <4>1, Zenon
      <3>2. WITNESS TRUE \in BOOLEAN
      <3>3. QED
        BY <3>1
    <2>3. QED
      BY <1>2, <2>2 DEF IsHour
  <1>9. written \in [0 .. 6 -> Byte]
    BY <1>1 DEF Byte
  <1>10. QED
    BY <1>1, <1>2, <1>4, <1>5, <1>6, <1>7, <1>8, <1>9 DEF tm, written
----------------------------------------------------------------------------
(***************************************************************************)
(* The invariant                                                           *)
(***************************************************************************)
\* A chip whose registers have been written for t, but for the oscillator bit, the
\* format and the day of the week, is as the invariant says.
LEMMA Shown ==
  ASSUME NEW t \in Moment, NEW stop \in {0, 128}, NEW H24 \in BOOLEAN, NEW w \in Byte, NEW r,
         r = [Registers(t) EXCEPT ![0] = @ + stop, ![2] = HoursRegister(@, H24), ![3] = w]
  PROVE  InRange(r) /\ Shows(r, t)
  <1> DEFINE written == Registers(t)
             h == localtime(t).hour
  <1>1. /\ written \in [0 .. 6 -> Byte]
        /\ \A i \in {1, 4, 5, 6} : IsBcd(written[i])
        /\ written[0] \in 0 .. 127 /\ IsBcd(written[0])
        /\ written[2] = dec_to_bcd(h) /\ h \in 0 .. 23
        /\ bcd_to_dec(written[5]) \in 1 .. 12
    BY WrittenInRange
  <1>2. r = [written EXCEPT ![0] = @ + stop, ![2] = HoursRegister(@, H24), ![3] = w]
    OBVIOUS
  <1> HIDE DEF written, h
  <1>3. /\ DOMAIN r = 0 .. 6
        /\ r[0] = written[0] + stop
        /\ r[2] = HoursRegister(dec_to_bcd(h), H24)
        /\ r[3] = w
        /\ \A i \in {1, 4, 5, 6} : r[i] = written[i]
    BY <1>1, <1>2
  <1>4. IsHour(r[2])
    BY <1>1, <1>3 DEF IsHour
  <1>5. r[2] \in 0 .. 127 /\ get_hours24(r[2]) = h
    BY <1>1, <1>3, Hour
  <1>6. r[0] % 128 = written[0] /\ r[0] \in Byte
    BY <1>1, <1>3 DEF Byte
  <1>7. r \in [0 .. 6 -> Byte]
    <2>1. \A i \in 0 .. 6 : r[i] \in Byte
      <3>1. r[2] \in Byte
        BY <1>5 DEF Byte
      <3>2. \A i \in {1, 4, 5, 6} : r[i] \in Byte
        BY <1>1, <1>3
      <3>3. \A i \in 0 .. 6 : i \in {0, 2, 3} \/ i \in {1, 4, 5, 6}
        OBVIOUS
      <3>4. QED
        BY <1>3, <1>6, <3>1, <3>2, <3>3
    <2>2. r = [i \in 0 .. 6 |-> r[i]]
      BY <1>1, <1>2
    <2>3. QED
      BY <2>1, <2>2
  <1>8. InRange(r)
    BY <1>1, <1>3, <1>4, <1>6, <1>7 DEF InRange
  <1>9. Shows(r, t)
    BY <1>3, <1>5, <1>6 DEF Shows, written, h
  <1>10. QED
    BY <1>8, <1>9

LEMMA InitIInv == Init => IInv
  <1> SUFFICES ASSUME Init
               PROVE  IInv
    OBVIOUS
  <1>1. moment \in Moment /\ moment + ticks \in Moment /\ ticks \in 0 .. Ticks /\ failures \in Nat
    BY ClockAssumption DEF Init
  <1>2. PICK H24 \in BOOLEAN, running \in BOOLEAN :
           regs = [Registers(moment) EXCEPT ![0] = @ + (IF running THEN 0 ELSE 128),
                                            ![2] = HoursRegister(@, H24)]
    BY DEF Init
  <1> DEFINE stop == IF running THEN 0 ELSE 128
  <1>3. stop \in {0, 128}
    OBVIOUS
  <1>4. InRange(regs) /\ Shows(regs, moment)
    <2> DEFINE written == Registers(moment)
    <2>1. written \in [0 .. 6 -> Byte] /\ written[3] \in Byte
      BY <1>1, WrittenInRange
    <2>2. regs = [written EXCEPT ![0] = @ + stop, ![2] = HoursRegister(@, H24)]
      BY <1>2
    <2> HIDE DEF stop, written
    <2> DEFINE w == written[3]
               hours == HoursRegister(written[2], H24)
               sec == written[0] + stop
    <2>3. regs = [written EXCEPT ![0] = sec, ![2] = hours, ![3] = w]
      <3>1. regs = [written EXCEPT ![0] = sec, ![2] = hours]
        BY <2>1, <2>2
      <3> HIDE DEF sec, hours
      <3>2. regs[3] = w /\ regs = [i \in 0 .. 6 |-> regs[i]]
        <4>1. DOMAIN written = 0 .. 6
          BY <2>1
        <4>2. regs = [i \in 0 .. 6 |-> [written EXCEPT ![0] = sec, ![2] = hours][i]]
          BY <3>1, <4>1
        <4>3. DOMAIN regs = 0 .. 6
          BY <4>2
        <4>4. regs[3] = w
          BY <3>1, <4>1
        <4>5. QED
          BY <3>1, <4>2, <4>4
      <3>3. regs = [regs EXCEPT ![3] = w]
        BY <3>2
      <3>4. QED
        BY <3>1, <3>3
    <2>4. regs = [Registers(moment) EXCEPT ![0] = @ + stop, ![2] = HoursRegister(@, H24), ![3] = w]
      BY <2>1, <2>3 DEF written
    <2>5. w \in Byte
      BY <2>1
    <2> HIDE DEF w
    <2>6. QED
      BY <1>1, <1>2, <1>3, <2>4, <2>5, Shown
  <1>5. QED
    BY <1>1, <1>4 DEF IInv

\* Writing what was read back in either format keeps the hour.
LEMMA SameHour ==
  ASSUME NEW b, IsHour(b), NEW H24 \in BOOLEAN
  PROVE  /\ get_hours24(b) \in 0 .. 23
         /\ HoursRegister(b, H24) = HoursRegister(dec_to_bcd(get_hours24(b)), H24)
  <1>1. PICK h \in 0 .. 23, F \in BOOLEAN : b = HoursRegister(dec_to_bcd(h), F)
    BY DEF IsHour
  <1>2. get_hours24(b) = h
    BY <1>1, Hour
  <1>3. get_hours24(dec_to_bcd(h)) = h
    <2>1. h \in 0 .. 99 /\ h < 40
      OBVIOUS
    <2>2. bcd_to_dec(dec_to_bcd(h)) = h /\ (~Is12h(dec_to_bcd(h)))
      BY <2>1, Bcd, Zenon
    <2>3. QED
      BY <2>2 DEF get_hours24
  <1>4. QED
    BY <1>2, <1>3 DEF HoursRegister

\* set_time(), cut short or not.
LEMMA SetTimeStep ==
  ASSUME IInv, NEW t \in Times, set_time(t)
  PROVE  IInv'
  <1> DEFINE written == Registers(t)
  <1>1. /\ t \in Moment /\ t + ticks \in Moment
        /\ ticks' = ticks /\ ticks \in 0 .. Ticks /\ failures' \in Nat
    BY ClockAssumption DEF IInv, set_time, Fail, Moment, DaysBeforeYear, FirstYear, SecondsPerDay
  <1>2. /\ written \in [0 .. 6 -> Byte]
        /\ \A r \in {1, 4, 5, 6} : IsBcd(written[r])
        /\ written[0] \in 0 .. 127 /\ IsBcd(written[0])
        /\ IsHour(written[2]) /\ get_hours24(written[2]) = localtime(t).hour
        /\ bcd_to_dec(written[5]) \in 1 .. 12
    BY <1>1, WrittenInRange
  <1> HIDE DEF written
  <1>3. written[0] % 128 = written[0]
    BY <1>2
  <1>4. CASE regs' = written /\ moment' = t
    <2>1. InRange(regs')
      BY <1>2, <1>3, <1>4 DEF InRange
    <2>2. Shows(regs', moment')
      BY <1>2, <1>3, <1>4 DEF Shows, written
    <2>3. QED
      BY <1>1, <1>4, <2>1, <2>2 DEF IInv
  <1>5. ASSUME NEW n \in 1 .. 6, moment' = INVALID_TIME,
               regs' = [r \in 0 .. 6 |-> IF r < n THEN written[r] ELSE regs[r]]
        PROVE  IInv'
    <2>1. InRange(regs)
      BY DEF IInv
    <2>2. \A r \in 0 .. 6 : regs'[r] = written[r] \/ regs'[r] = regs[r]
      BY <1>5
    <2>3. regs' \in [0 .. 6 -> Byte]
      BY <1>2, <1>5, <2>1 DEF InRange
    <2>4. \A r \in {1, 4, 5, 6} : IsBcd(regs'[r])
      BY <1>2, <2>1, <2>2 DEF InRange
    <2>5. IsBcd((regs'[0]) % 128)
      BY <1>2, <1>3, <2>1, <2>2 DEF InRange
    <2>6. IsHour(regs'[2]) /\ bcd_to_dec(regs'[5]) \in 1 .. 12
      BY <1>2, <2>1, <2>2 DEF InRange
    <2>7. InRange(regs')
      BY <2>3, <2>4, <2>5, <2>6 DEF InRange
    <2>8. QED
      BY <1>1, <1>5, <2>7 DEF IInv
  <1>6. QED
    BY <1>4, <1>5 DEF set_time, written

\* set_oscillator(): the seconds below the oscillator bit are kept, or become 0.
LEMMA SetOscillatorStep ==
  ASSUME IInv, NEW enable \in BOOLEAN, set_oscillator(enable)
  PROVE  IInv'
  <1> DEFINE stop == IF enable THEN 0 ELSE 128
  <1>1. stop \in {0, 128} /\ ticks' = ticks /\ failures' \in Nat
    BY DEF IInv, set_oscillator, Rewrite, Fail
  <1>2. InRange(regs) /\ ticks \in 0 .. Ticks
    BY DEF IInv
  <1>3. \A b \in Int : SecondsRegister(b, enable) = (b % 128) + stop
    BY DEF SecondsRegister
  <1> HIDE DEF stop
  <1>4. \A b \in Byte : /\ SecondsRegister(b, enable) \in Byte
                        /\ SecondsRegister(b, enable) % 128 = b % 128
    <2>1. TAKE b \in Byte
    <2>2. SecondsRegister(b, enable) = (b % 128) + stop /\ b % 128 \in 0 .. 127
      BY <1>3 DEF Byte
    <2>3. QED
      BY <1>1, <2>2 DEF Byte
  <1>5. regs[0] \in Byte /\ 0 \in Byte
    BY <1>2 DEF InRange, Byte
  <1>6. IsBcd(0 % 128)
    BY DEF IsBcd
  <1>7. ASSUME NEW b \in {regs[0], 0}, regs' = [regs EXCEPT ![0] = SecondsRegister(b, enable)]
        PROVE  /\ InRange(regs') /\ regs'[0] % 128 = b % 128
               /\ \A r \in 1 .. 6 : regs'[r] = regs[r]
    <2>1. /\ regs' \in [0 .. 6 -> Byte] /\ (regs'[0]) % 128 = b % 128
          /\ \A r \in 1 .. 6 : regs'[r] = regs[r]
      BY <1>2, <1>4, <1>5, <1>7 DEF InRange
    <2>2. IsBcd((regs'[0]) % 128)
      BY <1>2, <1>6, <2>1 DEF InRange
    <2>3. QED
      BY <1>2, <2>1, <2>2 DEF InRange
  <1>8. CASE regs' = [regs EXCEPT ![0] = SecondsRegister(regs[0], enable)] /\ moment' = moment
    <2>1. /\ InRange(regs') /\ regs'[0] % 128 = regs[0] % 128
          /\ \A r \in 1 .. 6 : regs'[r] = regs[r]
      BY <1>7, <1>8
    <2>2. Shows(regs, moment) => Shows(regs', moment')
      BY <1>8, <2>1 DEF Shows
    <2>3. QED
      BY <1>1, <1>8, <2>1, <2>2 DEF IInv
  <1>9. CASE regs' = [regs EXCEPT ![0] = SecondsRegister(0, enable)] /\ moment' = INVALID_TIME
    BY <1>1, <1>2, <1>7, <1>9 DEF IInv
  <1>10. QED
    BY <1>8, <1>9 DEF set_oscillator, Rewrite

\* set_format(): the hour is kept, or becomes 0.
LEMMA SetFormatStep ==
  ASSUME IInv, NEW H24 \in BOOLEAN, set_format(H24)
  PROVE  IInv'
  <1>1. ticks' = ticks /\ failures' \in Nat
    BY DEF IInv, set_format, Rewrite, Fail
  <1>2. InRange(regs) /\ ticks \in 0 .. Ticks
    BY DEF IInv
  <1>3. ASSUME NEW b, IsHour(b), regs' = [regs EXCEPT ![2] = HoursRegister(b, H24)]
        PROVE  /\ InRange(regs') /\ get_hours24(regs'[2]) = get_hours24(b)
               /\ \A r \in {0, 1, 3, 4, 5, 6} : regs'[r] = regs[r]
    <2> DEFINE h == get_hours24(b)
               w == HoursRegister(dec_to_bcd(h), H24)
    <2>1. h \in 0 .. 23 /\ HoursRegister(b, H24) = w
      BY <1>3, SameHour
    <2> HIDE DEF h
    <2>2. w \in 0 .. 127 /\ get_hours24(w) = h
      BY <2>1, Hour
    <2>3. IsHour(w)
      BY <2>1 DEF IsHour
    <2> HIDE DEF w
    <2>4. /\ regs' \in [0 .. 6 -> Byte] /\ regs'[2] = w
          /\ \A r \in {0, 1, 3, 4, 5, 6} : regs'[r] = regs[r]
      BY <1>2, <1>3, <2>1, <2>2 DEF InRange, Byte
    <2>5. InRange(regs')
      BY <1>2, <2>3, <2>4 DEF InRange
    <2>6. QED
      BY <2>2, <2>4, <2>5 DEF h
  <1>4. CASE regs' = [regs EXCEPT ![2] = HoursRegister(regs[2], H24)] /\ moment' = moment
    <2>1. /\ InRange(regs') /\ get_hours24(regs'[2]) = get_hours24(regs[2])
          /\ \A r \in {0, 1, 3, 4, 5, 6} : regs'[r] = regs[r]
      BY <1>2, <1>3, <1>4 DEF InRange
    <2>2. Shows(regs, moment) => Shows(regs', moment')
      BY <1>4, <2>1 DEF Shows
    <2>3. QED
      BY <1>1, <1>4, <2>1, <2>2 DEF IInv
  <1>5. CASE regs' = [regs EXCEPT ![2] = HoursRegister(0, H24)] /\ moment' = INVALID_TIME
    <2>1. IsHour(0)
      <3>1. 0 = HoursRegister(dec_to_bcd(0), TRUE)
        BY DEF HoursRegister, get_hours24, dec_to_bcd, bcd_to_dec, Is12h, Bit
      <3>2. \E F \in BOOLEAN : 0 = HoursRegister(dec_to_bcd(0), F)
        <4>1. WITNESS TRUE \in BOOLEAN
        <4>2. QED
          BY <3>1
      <3>3. QED
        BY <3>2 DEF IsHour
    <2>2. QED
      BY <1>1, <1>2, <1>3, <1>5, <2>1 DEF IInv
  <1>6. QED
    BY <1>4, <1>5 DEF set_format, Rewrite

\* The day of the week stays a byte.
LEMMA WeekdayType ==
  ASSUME InRange(regs), NEW midnight \in BOOLEAN
  PROVE  weekday(midnight) \in Byte
  <1>1. regs[3] \in 0 .. 255
    BY DEF InRange, Byte
  <1>2. QED
    BY <1>1 DEF weekday, Byte

\* The chip counts on.
LEMMA TickStep ==
  ASSUME IInv, Tick
  PROVE  IInv'
  <1>1. /\ moment + 1 \in Moment /\ moment' = moment + 1 /\ moment' + ticks' \in Moment
        /\ ticks' \in 0 .. Ticks /\ failures' \in Nat
    BY ClockAssumption DEF IInv, Tick, Moment, DaysBeforeYear, FirstYear, SecondsPerDay
  <1> DEFINE H24 == ~Is12h(regs[2])
             written == Registers(moment + 1)
             w == weekday((moment + 1) % SecondsPerDay = 0)
  <1>2. written \in [0 .. 6 -> 0 .. 153]
    BY <1>1, RegistersRight
  <1>3. w \in Byte
    BY WeekdayType DEF IInv
  <1>4. regs' = [written EXCEPT ![0] = @ + 0, ![2] = HoursRegister(@, H24), ![3] = w]
    <2>1. regs' = [written EXCEPT ![2] = HoursRegister(@, H24), ![3] = w]
      BY DEF Tick
    <2> HIDE DEF written, H24, w
    <2>2. written[0] + 0 = written[0]
      BY <1>2
    <2>3. QED
      BY <1>2, <2>1, <2>2
  <1> HIDE DEF w
  <1>5. InRange(regs') /\ Shows(regs', moment')
    BY <1>1, <1>3, <1>4, Shown
  <1>6. QED
    BY <1>1, <1>5 DEF IInv

\* Two digits are a number.
LEMMA Counting ==
  \A b \in Byte : bcd_to_dec(b) \in Nat
  BY DEF Byte, bcd_to_dec

\* Registers a failure has left count on in their ranges.
LEMMA TickSpoiltStep ==
  ASSUME IInv, TickSpoilt
  PROVE  IInv'
  <1> DEFINE sec == bcd_to_dec(regs[0])
             min == bcd_to_dec(regs[1])
             hour == get_hours24(regs[2])
             mday == bcd_to_dec(regs[4])
             mon == bcd_to_dec(regs[5])
             year == bcd_to_dec(regs[6])
             H24 == ~Is12h(regs[2])
  <1>1. /\ InRange(regs) /\ moment' = INVALID_TIME
        /\ ticks' \in 0 .. Ticks /\ failures' \in Nat
    <2>1. /\ moment = INVALID_TIME /\ ticks > 0 /\ ticks' = ticks - 1
          /\ moment' = moment /\ failures' = failures
      BY DEF TickSpoilt
    <2>2. InRange(regs) /\ ticks \in 0 .. Ticks /\ failures \in Nat
      BY DEF IInv
    <2>3. QED
      BY <2>1, <2>2, ClockAssumption
  <1>2. PICK nextMonth \in BOOLEAN :
           /\ nextDay /\ mday >= 31 => nextMonth
           /\ regs' = Counted(nextMonth)
    <2> DEFINE last == DaysInMonth(2000 + bcd_to_dec(regs[6]), bcd_to_dec(regs[5]))
    <2>1. PICK nextMonth \in BOOLEAN :
             /\ nextDay /\ (mday >= 31 \/ mday = last) => nextMonth
             /\ regs' = Counted(nextMonth)
      BY DEF TickSpoilt
    <2> HIDE DEF mday, last
    <2>2. nextDay /\ mday >= 31 => nextMonth
      BY <2>1
    <2>3. QED
      BY <2>1, <2>2
  <1>3. \A i \in 0 .. 6 : regs[i] \in Byte
    BY <1>1 DEF InRange
  <1>4. sec \in Nat /\ min \in Nat /\ mday \in Nat /\ mon \in Nat /\ year \in Nat
    BY <1>3, Counting
  <1>5. hour \in 0 .. 23 /\ H24 \in BOOLEAN /\ mon \in 1 .. 12
    BY <1>1, SameHour DEF InRange
  <1>6. weekday(nextDay) \in Byte
    <2>1. nextDay \in BOOLEAN
      BY DEF nextDay
    <2>2. QED
      BY <1>1, <2>1, WeekdayType
  <1> DEFINE date == IF nextMonth THEN 1 ELSE mday + 1
  <1>7. /\ regs'[0] = dec_to_bcd(Following(sec, 0, 59))
        /\ regs'[1] \in {dec_to_bcd(Following(min, 0, 59)), regs[1]}
        /\ regs'[2] \in {HoursRegister(dec_to_bcd(Following(hour, 0, 23)), H24), regs[2]}
        /\ regs'[3] = weekday(nextDay)
        /\ \/ regs'[4] = dec_to_bcd(date) /\ nextDay
           \/ regs'[4] = regs[4]
        /\ regs'[5] \in {dec_to_bcd(Following(mon, 1, 12)), regs[5]}
        /\ regs'[6] \in {dec_to_bcd(Following(year, 0, 99)), regs[6]}
        /\ regs' = [r \in 0 .. 6 |-> regs'[r]]
    <2> HIDE DEF sec, min, hour, mday, year, H24
    <2>1. regs' = [r \in 0 .. 6 |->
            CASE r = 0 -> dec_to_bcd(Following(sec, 0, 59))
              [] r = 1 /\ nextMinute -> dec_to_bcd(Following(min, 0, 59))
              [] r = 2 /\ nextHour -> HoursRegister(dec_to_bcd(Following(hour, 0, 23)), H24)
              [] r = 3 -> weekday(nextDay)
              [] r = 4 /\ nextDay -> dec_to_bcd(date)
              [] r = 5 /\ nextMonth -> dec_to_bcd(Following(mon, 1, 12))
              [] r = 6 /\ nextMonth /\ mon >= 12 -> dec_to_bcd(Following(year, 0, 99))
              [] OTHER -> regs[r]]
      BY <1>2 DEF Counted, sec, min, hour, mday, mon, year, H24, date
    <2> HIDE DEF date, mon
    <2>2. QED
      BY <2>1
  <1>8. nextDay => date \in 0 .. 99
    <2> HIDE DEF mday
    <2>1. QED
      BY <1>2, <1>4
  <1> HIDE DEF sec, min, hour, mday, mon, year, date, H24
  <1>9. \A v \in 0 .. 99 : /\ dec_to_bcd(v) \in Byte /\ IsBcd(dec_to_bcd(v))
                           /\ bcd_to_dec(dec_to_bcd(v)) = v
                           /\ v < 80 => dec_to_bcd(v) % 128 = dec_to_bcd(v)
    <2> TAKE v \in 0 .. 99
    <2>1. /\ dec_to_bcd(v) \in 0 .. 153 /\ IsBcd(dec_to_bcd(v))
          /\ bcd_to_dec(dec_to_bcd(v)) = v /\ (v < 80 => dec_to_bcd(v) < 128)
      BY Bcd
    <2>2. QED
      BY <2>1 DEF Byte
  <1>10. /\ Following(sec, 0, 59) \in 0 .. 59 /\ Following(min, 0, 59) \in 0 .. 59
         /\ Following(hour, 0, 23) \in 0 .. 23 /\ Following(mon, 1, 12) \in 1 .. 12
         /\ Following(year, 0, 99) \in 0 .. 99
    BY <1>4, <1>5 DEF Following
  <1>11. /\ regs'[0] \in Byte /\ IsBcd(regs'[0] % 128)
    <2>1. Following(sec, 0, 59) \in 0 .. 99 /\ Following(sec, 0, 59) < 80
      BY <1>10
    <2>2. QED
      BY <1>7, <1>9, <2>1
  <1>12. \A i \in {1, 4, 5, 6} : regs'[i] \in Byte /\ IsBcd(regs'[i])
    <2>1. \A i \in {1, 4, 5, 6} : IsBcd(regs[i]) /\ regs[i] \in Byte
      BY <1>1, <1>3 DEF InRange
    <2>2. /\ Following(min, 0, 59) \in 0 .. 99 /\ Following(mon, 1, 12) \in 0 .. 99
      BY <1>10
    <2>3. \A i \in {1, 4, 5, 6} : regs'[i] = regs[i] \/ (\E v \in 0 .. 99 : regs'[i] = dec_to_bcd(v))
      BY <1>7, <1>8, <1>10, <2>2
    <2>4. QED
      BY <1>9, <2>1, <2>3
  <1>13. regs'[2] \in Byte /\ IsHour(regs'[2])
    <2>1. CASE regs'[2] = regs[2]
      BY <1>1, <1>3, <2>1 DEF InRange
    <2>2. CASE regs'[2] = HoursRegister(dec_to_bcd(Following(hour, 0, 23)), H24)
      <3>1. regs'[2] \in 0 .. 127
        BY <1>5, <1>10, <2>2, Hour
      <3>2. IsHour(regs'[2])
        BY <1>5, <1>10, <2>2 DEF IsHour
      <3>3. QED
        BY <3>1, <3>2 DEF Byte
    <2>3. QED
      BY <1>7, <2>1, <2>2
  <1>14. bcd_to_dec(regs'[5]) \in 1 .. 12
    <2>1. Following(mon, 1, 12) \in 0 .. 99
      BY <1>10
    <2>2. bcd_to_dec(dec_to_bcd(Following(mon, 1, 12))) = Following(mon, 1, 12)
      BY <1>9, <2>1
    <2>3. QED
      BY <1>1, <1>7, <1>10, <2>2 DEF InRange
  <1>15. regs' \in [0 .. 6 -> Byte]
    <2>1. \A i \in 0 .. 6 : regs'[i] \in Byte
      <3>1. \A i \in 0 .. 6 : i \in {0, 2, 3} \/ i \in {1, 4, 5, 6}
        OBVIOUS
      <3>2. QED
        BY <1>6, <1>7, <1>11, <1>12, <1>13, <3>1
    <2>2. QED
      BY <1>7, <2>1
  <1>16. InRange(regs')
    BY <1>11, <1>12, <1>13, <1>14, <1>15 DEF InRange
  <1>17. QED
    BY <1>1, <1>16 DEF IInv
----------------------------------------------------------------------------
\* It holds at all times.
LEMMA Invariant == Spec => []IInv
  <1>1. IInv /\ [Next]_vars => IInv'
    <2> SUFFICES ASSUME IInv, [Next]_vars
                 PROVE  IInv'
      OBVIOUS
    <2>1. CASE UNCHANGED vars
      BY <2>1 DEF vars, IInv
    <2>2. QED
      BY <2>1, SetTimeStep, SetOscillatorStep, SetFormatStep, TickStep, TickSpoiltStep DEF Next
  <1>2. QED
    BY <1>1, InitIInv, PTL DEF Spec

\* Whatever the chip is set to and however many transactions are cut short or fail:
\* decoding trips no assertion, and the month has an entry in days_since
\* (src/ds1307.cpp:11-22, 142-160).
THEOREM DecodingSafe == Spec => []DecodesSafely
  <1>1. IInv => DecodesSafely
    <2> SUFFICES ASSUME InRange(regs)
                 PROVE  DecodesSafely
      BY DEF IInv
    <2>1. ~Stopped(regs[0]) => IsBcd(regs[0])
      <3>1. regs[0] \in 0 .. 255 /\ IsBcd(regs[0] % 128)
        BY DEF InRange, Byte
      <3>2. ~Stopped(regs[0]) => regs[0] % 128 = regs[0]
        BY <3>1 DEF Stopped, Bit
      <3>3. QED
        BY <3>1, <3>2
    <2>2. IsBcd(IF Is12h(regs[2]) THEN regs[2] % 32 ELSE regs[2])
      <3>1. PICK h \in 0 .. 23, H24 \in BOOLEAN : regs[2] = HoursRegister(dec_to_bcd(h), H24)
        BY DEF InRange, IsHour
      <3>2. QED
        BY <3>1, Hour
    <2>3. QED
      BY <2>1, <2>2 DEF InRange, DecodesSafely
  <1>2. QED
    BY <1>1, Invariant, PTL

\* For every time from 2000 to the end of LastYear, which is 2099 at most (the moments of
\* ClockAssumption): time() returns the time the clock was set to and has counted on from, in a year after a leap year one day less (src/ds1307.cpp:141-165).
THEOREM TimeShown == Spec => []ShowsTime
  <1>1. IInv => ShowsTime
    <2> SUFFICES ASSUME IInv, time # INVALID_TIME, moment # INVALID_TIME
                 PROVE  time = moment - (IF localtime(moment).year % 4 = 1 THEN SecondsPerDay ELSE 0)
      BY DEF ShowsTime
    <2> DEFINE tm == localtime(moment)
               written == Registers(moment)
    <2>1. moment \in Moment /\ InRange(regs) /\ Shows(regs, moment)
      BY DEF IInv
    <2>2. /\ tm \in Clock
          /\ written[0] = dec_to_bcd(tm.sec) /\ written[1] = dec_to_bcd(tm.min)
          /\ written[4] = dec_to_bcd(tm.mday) /\ written[5] = dec_to_bcd(tm.mon)
          /\ written[6] = dec_to_bcd(tm.year - 2000)
      BY <2>1, RegistersRight
    <2>3. moment = (DaysBeforeYear(tm.year) + Before(tm.year, tm.mon) + tm.mday - 1) * SecondsPerDay
                     + tm.hour * 3600 + tm.min * 60 + tm.sec
      BY <2>1, LocalTime
    <2>4. /\ regs[1] = written[1] /\ regs[4] = written[4] /\ regs[5] = written[5]
          /\ regs[6] = written[6] /\ regs[0] % 128 = written[0]
          /\ get_hours24(regs[2]) = tm.hour
      BY <2>1 DEF Shows
    <2>5. (~Stopped(regs[0])) /\ regs[0] % 128 = regs[0]
      <3>1. ~Stopped(regs[0])
        BY DEF time
      <3>2. QED
        BY <2>1, <3>1 DEF InRange, Byte, Stopped, Bit
    <2> HIDE DEF tm, written
    <2>6. /\ tm.sec \in 0 .. 59 /\ tm.min \in 0 .. 59 /\ tm.hour \in 0 .. 23
          /\ tm.mday \in 1 .. 31 /\ tm.mon \in 1 .. 12 /\ tm.year \in 2000 .. 2099
      BY <2>2, ClockAssumption DEF Clock, FirstYear
    <2>7. \A v \in 0 .. 99 : bcd_to_dec(dec_to_bcd(v)) = v
      BY Bcd
    <2>8. /\ bcd_to_dec(regs[0]) = tm.sec /\ bcd_to_dec(regs[1]) = tm.min
          /\ bcd_to_dec(regs[4]) = tm.mday /\ bcd_to_dec(regs[5]) = tm.mon
          /\ bcd_to_dec(regs[6]) + 2000 = tm.year
      BY <2>2, <2>4, <2>5, <2>6, <2>7
    <2>9. time = ((tm.year - 1970) * 365 + (tm.year - 1970) \div 4 + days_since[tm.mon] + tm.mday - 1
                   + (IF tm.year % 4 = 0 /\ tm.mon >= 3 THEN 1 ELSE 0)) * SecondsPerDay
                 + tm.sec + tm.min * 60 + tm.hour * 3600
      BY <2>4, <2>5, <2>8 DEF time
    <2> DEFINE day == DaysBeforeYear(tm.year) + Before(tm.year, tm.mon) + tm.mday - 1
               less == IF tm.year % 4 = 1 THEN 1 ELSE 0
    <2>10. less \in {0, 1}
      OBVIOUS
    <2>11. (tm.year - 1970) * 365 + (tm.year - 1970) \div 4 = DaysBeforeYear(tm.year) - less
      BY <2>6 DEF DaysBeforeYear
    <2>12. Before(tm.year, tm.mon)
             = days_since[tm.mon] + (IF tm.year % 4 = 0 /\ tm.mon >= 3 THEN 1 ELSE 0)
      BY DEF Before
    <2>13. /\ DaysBeforeYear(tm.year) \in Int /\ Before(tm.year, tm.mon) \in Int
           /\ days_since[tm.mon] \in Int
      BY <2>6 DEF DaysBeforeYear, Before, days_since
    <2>14. time = (day - less) * SecondsPerDay + tm.sec + tm.min * 60 + tm.hour * 3600
      <3> HIDE DEF less
      <3>1. QED
        BY <2>6, <2>9, <2>10, <2>11, <2>12, <2>13
    <2>15. moment = day * SecondsPerDay + tm.hour * 3600 + tm.min * 60 + tm.sec
      BY <2>3
    <2>16. day \in Int
      BY <2>6, <2>13
    <2> HIDE DEF day, less
    <2>17. time = moment - less * SecondsPerDay
      <3> DEFINE sec == tm.sec
                 min == tm.min
                 hour == tm.hour
      <3>1. sec \in Int /\ min \in Int /\ hour \in Int
        BY <2>6
      <3>2. /\ time = (day - less) * 86400 + sec + min * 60 + hour * 3600
            /\ moment = day * 86400 + hour * 3600 + min * 60 + sec
        BY <2>14, <2>15 DEF SecondsPerDay
      <3> HIDE DEF sec, min, hour
      <3>3. QED
        BY <2>10, <2>16, <3>1, <3>2 DEF SecondsPerDay
    <2>18. QED
      BY <2>17 DEF SecondsPerDay, tm, less
  <1>2. QED
    BY <1>1, Invariant, PTL
============================================================================
