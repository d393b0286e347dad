--------------------------- MODULE ServiceProofs ---------------------------
(***************************************************************************)
(* What the guest asks for and is given in several steps.  The clock of    *)
(* the cartridge: its calendar goes through every day there is, and what   *)
(* it answers is what it found at one instant, for every transaction,      *)
(* every date and every number of steps.  The services of the BIOS: what   *)
(* they unpack and copy is what was packed, for every stream.              *)
(***************************************************************************)
EXTENDS Bus, Numbers, SequenceTheorems

(***************************************************************************)
(* The calendar of the clock.                                              *)
(***************************************************************************)
(* Years are counted from March, so that a leap day is the last of its     *)
(* year: the days before a year, and the length of it.                     *)
Before(y) == 365 * y + (y \div 4) - (y \div 100)
YearLength(y) == IF R!Leap(y + 1) THEN 366 ELSE 365
\* The year in its era of 400 years, as the code finds it.
Era == {e \in Nat : e <= 146096}
YearOfEra(e) == (e - (e \div 1460) + (e \div 36524) - (e \div 146096)) \div 365

LEMMA YearFound ==
  ASSUME NEW y \in 0..399, NEW n \in 0..(YearLength(y) - 1)
  PROVE  Before(y) + n \in Era /\ YearOfEra(Before(y) + n) = y
<1>1. PICK c \in 0..3, q \in 0..24, r \in 0..3 : y = 100 * c + 4 * q + r
  <2>1. y = 100 * (y \div 100) + 4 * ((y % 100) \div 4) + ((y % 100) % 4)
    OBVIOUS
  <2>2. y \div 100 \in 0..3 /\ (y % 100) \div 4 \in 0..24 /\ (y % 100) % 4 \in 0..3
    OBVIOUS
  <2> QED
    BY <2>1, <2>2
<1>2. y \div 4 = 25 * c + q /\ y \div 100 = c
  BY <1>1
<1>3. R!Leap(y + 1) <=> r = 3 /\ (q # 24 \/ c = 3)
  BY <1>1 DEF R!Leap
<1>4. Before(y) = 36524 * c + 1461 * q + 365 * r
  BY <1>1, <1>2 DEF Before
<1>5. n \in 0..365 /\ (n = 365 => r = 3 /\ (q # 24 \/ c = 3))
  BY <1>3 DEF YearLength
<1> DEFINE e == 36524 * c + 1461 * q + 365 * r + n
<1>6. e \in Era
  <2>1. 36524 * c <= 109572 /\ 1461 * q <= 35064 /\ 365 * r + n <= 1460
    BY <1>5, SMT
  <2> QED
    BY <1>5, <2>1, SMT DEF Era
<1>7. e \div 36524 = IF e = 146096 THEN 4 ELSE c
  BY <1>5, SMT
<1>8. e \div 146096 = IF e = 146096 THEN 1 ELSE 0
  <2> HIDE DEF e
  <2> QED
    BY <1>6, SMT DEF Era
<1>9. e \div 1460 = 25 * c + q + (IF 24 * c + q + 365 * r + n < 1460 THEN 0 ELSE 1)
  BY <1>5
<1>10. YearOfEra(e) = y
  BY <1>1, <1>5, <1>7, <1>8, <1>9 DEF YearOfEra
<1>11. Before(y) + n = e
  BY <1>4
<1> HIDE DEF e
<1> QED
  BY <1>6, <1>10, <1>11, SMTT(30)

(* Every day of an era is a day of one year.                               *)
LEMMA YearThere ==
  ASSUME NEW e \in Era
  PROVE  \E y \in 0..399 : \E n \in 0..(YearLength(y) - 1) : e = Before(y) + n
<1> DEFINE T == {k \in Era : \E y \in 0..399 : \E n \in 0..(YearLength(y) - 1) : k = Before(y) + n}
<1>1. 0 \in T
  <2>1. Before(0) = 0 /\ 0 \in 0..(YearLength(0) - 1)
    BY DEF Before, YearLength, R!Leap
  <2> QED
    BY <2>1 DEF Era
<1>2. ASSUME NEW k \in 0..(e - 1), k \in T
      PROVE  k + 1 \in T
  <2>0. PICK y \in 0..399 : \E n \in 0..(YearLength(y) - 1) : k = Before(y) + n
    BY <1>2
  <2>1. PICK n \in 0..(YearLength(y) - 1) : k = Before(y) + n
    BY <2>0
  <2>2. YearLength(y) \in 365..366 /\ Before(y) \in Int
    BY DEF YearLength, Before
  <2>3. CASE n + 1 < YearLength(y)
    <3>1. n + 1 \in 0..(YearLength(y) - 1) /\ k + 1 = Before(y) + (n + 1) /\ k + 1 \in Era
      BY <1>2, <2>1, <2>2, <2>3 DEF Era
    <3> QED
      BY <3>1, ZenonT(60)
  <2>4. CASE n + 1 = YearLength(y)
    <3>1. CASE y < 399
      <4>1. Before(y + 1) = Before(y) + YearLength(y)
        BY <3>1 DEF Before, YearLength, R!Leap
      <4>2. y + 1 \in 0..399 /\ 0 \in 0..(YearLength(y + 1) - 1) /\ k + 1 = Before(y + 1) + 0 /\ k + 1 \in Era
        <5>0. k + 1 \in Era
          BY <1>2 DEF Era
        <5>1. YearLength(y + 1) \in 365..366
          BY DEF YearLength
        <5>2. y + 1 \in 0..399
          BY <3>1
        <5>3. 0 \in 0..(YearLength(y + 1) - 1)
          BY <5>1
        <5>4. k + 1 = Before(y + 1) + 0
          BY <2>1, <2>2, <2>4, <4>1
        <5> QED
          BY <5>0, <5>2, <5>3, <5>4
      <4> QED
        BY <4>2, ZenonT(60)
    <3>2. CASE y = 399
      <4>1. k = 146096
        BY <2>1, <2>4, <3>2 DEF Before, YearLength, R!Leap
      <4> QED
        BY <4>1, <1>2 DEF Era
    <3> QED
      BY <3>1, <3>2, SMTT(40)
  <2> QED
    BY <2>1, <2>2, <2>3, <2>4, SMTT(40)
<1>3. e \in T
  <2> HIDE DEF T
  <2> QED
    BY <1>1, <1>2, InductionTo DEF Era
<1> QED
  BY <1>3

(* The date of the n-th day of such a year.                                *)
DateIn(y, n) ==
  LET mp == (5 * n + 2) \div 153
      m == IF mp < 10 THEN mp + 3 ELSE mp - 9
  IN  <<y + (IF m <= 2 THEN 1 ELSE 0), m, n - ((153 * mp + 2) \div 5) + 1>>

\* The days before a month, counted from March.
From(k) == (153 * k + 2) \div 5

(* Which month a day is in.                                                *)
LEMMA MonthFound ==
  ASSUME NEW n \in 0..365
  PROVE  \E mp \in 0..11 : /\ (5 * n + 2) \div 153 = mp
                           /\ From(mp) <= n
                           /\ mp < 11 => n < From(mp + 1)
<1> DEFINE mp == (5 * n + 2) \div 153
<1>1. mp \in 0..11
  BY SMT
<1>2. From(mp) <= n
  BY SMT DEF From
<1>3. mp < 11 => n < From(mp + 1)
  BY SMT DEF From
<1> HIDE DEF mp
<1> QED
  BY <1>1, <1>2, <1>3 DEF mp

(* ... is the only one it can be in.                                       *)
LEMMA OneMonth ==
  ASSUME NEW n \in 0..365, NEW mp \in 0..11, From(mp) <= n, mp < 11 => n < From(mp + 1)
  PROVE  (5 * n + 2) \div 153 = mp
BY SMT DEF From

LEMMA MonthLengths ==
  ASSUME NEW mp \in 0..11
  PROVE  /\ From(mp) \in 0..337 /\ From(11) = 337 /\ From(0) = 0
         /\ mp < 11 => From(mp + 1) - From(mp) = IF mp \in {1, 3, 6, 8} THEN 30 ELSE 31
BY SMT DEF From

(* A day is in a month, and the next day in the same or the next month.    *)
MonthOf(n) == (5 * n + 2) \div 153
LEMMA MonthGoesOn ==
  ASSUME NEW n \in 0..365
  PROVE  LET k == MonthOf(n)
             l == IF k = 11 THEN 366 ELSE From(k + 1)
         IN  /\ k \in 0..11 /\ From(k) \in Nat /\ l \in Nat
             /\ From(k) <= n /\ n < l
             /\ l - From(k) = IF k = 11 THEN 29 ELSE IF k \in {1, 3, 6, 8} THEN 30 ELSE 31
             /\ n + 1 < l => MonthOf(n + 1) = k
             /\ n + 1 = l /\ k < 11 => MonthOf(n + 1) = k + 1
<1> DEFINE k == MonthOf(n)
           l == IF k = 11 THEN 366 ELSE From(k + 1)
<1>1. k \in 0..11 /\ From(k) <= n /\ (k < 11 => n < From(k + 1))
  BY MonthFound DEF MonthOf
<1>2. From(k) \in 0..337 /\ From(11) = 337 /\ (k < 11 => From(k + 1) \in 0..337)
  <2>1. k < 11 => k + 1 \in 0..11
    BY <1>1
  <2> HIDE DEF k
  <2> QED
    BY <1>1, <2>1, MonthLengths
<1>3. l - From(k) = IF k = 11 THEN 29 ELSE IF k \in {1, 3, 6, 8} THEN 30 ELSE 31
  <2>1. CASE k = 11
    <3> HIDE DEF k
    <3> QED
      BY <1>2, <2>1
  <2>2. CASE k < 11
    <3> HIDE DEF k
    <3> QED
      BY <1>1, <2>2, MonthLengths
  <2> QED
    BY <1>1, <2>1, <2>2
<1>4. l \in Nat /\ n < l
  <2> HIDE DEF k
  <2> QED
    BY <1>1, <1>2
<1>5. ASSUME n + 1 < l PROVE MonthOf(n + 1) = k
  <2> HIDE DEF k
  <2>1. n + 1 \in 0..365
    BY <1>1, <1>2, <1>5
  <2>2. From(k) <= n + 1 /\ (k < 11 => n + 1 < From(k + 1))
    BY <1>1, <1>2, <1>5
  <2> QED
    BY <1>1, <2>1, <2>2, OneMonth, ZenonT(30) DEF MonthOf
<1>6. ASSUME n + 1 = l, k < 11 PROVE MonthOf(n + 1) = k + 1
  <2> HIDE DEF k
  <2>1. n + 1 \in 0..365 /\ k + 1 \in 0..11 /\ From(k + 1) = n + 1
    BY <1>1, <1>2, <1>6
  <2>2. k + 1 < 11 => From(k + 1) < From(k + 1 + 1)
    BY <2>1, SMT DEF From
  <2>3. From(k + 1) <= n + 1 /\ (k + 1 < 11 => n + 1 < From(k + 1 + 1))
    BY <2>1, <2>2
  <2> DEFINE kk == k + 1
             m == n + 1
  <2>4. kk \in 0..11 /\ m \in 0..365 /\ From(kk) <= m /\ (kk < 11 => m < From(kk + 1))
    BY <2>1, <2>3
  <2> HIDE DEF kk, m
  <2>5. (5 * m + 2) \div 153 = kk
    BY <2>4, OneMonth, Zenon
  <2> QED
    BY <2>5 DEF MonthOf, kk, m
<1> HIDE DEF k, l
<1>7. /\ k \in 0..11 /\ From(k) \in Nat /\ l \in Nat
      /\ From(k) <= n /\ n < l
      /\ l - From(k) = IF k = 11 THEN 29 ELSE IF k \in {1, 3, 6, 8} THEN 30 ELSE 31
      /\ n + 1 < l => MonthOf(n + 1) = k
      /\ n + 1 = l /\ k < 11 => MonthOf(n + 1) = k + 1
  <2>1. From(k) \in Nat
    BY <1>2
  <2> QED
    BY <1>1, <1>3, <1>4, <1>5, <1>6, <2>1
<1> QED
  BY <1>7 DEF k, l

\* A month k of a year from March, by its number and the year it is in.
Calendar(k) == IF k < 10 THEN k + 3 ELSE k - 9
InYear(y, k) == IF k < 10 THEN y ELSE y + 1
DayIn(n) == n - From(MonthOf(n)) + 1

LEMMA DateIs ==
  ASSUME NEW y \in Int, NEW n \in 0..365
  PROVE  DateIn(y, n) = <<InYear(y, MonthOf(n)), Calendar(MonthOf(n)), DayIn(n)>>
<1> DEFINE k == MonthOf(n)
           m == Calendar(k)
<1>1. k \in 0..11
  BY MonthGoesOn, ZenonT(30)
<1>2. DateIn(y, n) = <<y + (IF m <= 2 THEN 1 ELSE 0), m, n - From(k) + 1>>
  BY DEF DateIn, MonthOf, From, Calendar
<1> HIDE DEF k
<1>3. y + (IF m <= 2 THEN 1 ELSE 0) = InYear(y, k)
  <2>1. m <= 2 <=> ~(k < 10)
    BY <1>1 DEF Calendar
  <2> HIDE DEF m
  <2>2. CASE k < 10
    BY <2>1, <2>2 DEF InYear
  <2>3. CASE ~(k < 10)
    BY <2>1, <2>3 DEF InYear
  <2> QED
    BY <2>2, <2>3
<1> QED
  BY <1>2, <1>3 DEF k, DayIn

LEMMA DaysThere ==
  ASSUME NEW y \in Int, NEW k \in 0..11
  PROVE  R!DaysOf(InYear(y, k), Calendar(k)) =
           IF k = 11 THEN YearLength(y) - 337 ELSE IF k \in {1, 3, 6, 8} THEN 30 ELSE 31
<1>1. CASE k = 11
  <2>1. InYear(y, k) = y + 1 /\ Calendar(k) = 2
    BY <1>1 DEF InYear, Calendar
  <2>2. R!DaysOf(y + 1, 2) = IF R!Leap(y + 1) THEN 29 ELSE 28
    BY DEF R!DaysOf
  <2>3. YearLength(y) - 337 = IF R!Leap(y + 1) THEN 29 ELSE 28
    BY DEF YearLength
  <2> QED
    BY <1>1, <2>1, <2>2, <2>3
<1>2. CASE k # 11
  <2>1. Calendar(k) # 2 /\ (Calendar(k) \in {4, 6, 9, 11} <=> k \in {1, 3, 6, 8})
    BY <1>2 DEF Calendar
  <2>2. \A z, m : m # 2 => R!DaysOf(z, m) = IF m \in {4, 6, 9, 11} THEN 30 ELSE 31
    BY DEF R!DaysOf
  <2> QED
    BY <1>2, <2>1, <2>2
<1> QED
  BY <1>1, <1>2

LEMMA NextOf ==
  ASSUME NEW y \in Int, NEW m \in 1..12, NEW d \in Int, R!DaysOf(y, m) \in Int, d <= R!DaysOf(y, m)
  PROVE  R!NextDay(<<y, m, d>>) = IF d < R!DaysOf(y, m) THEN <<y, m, d + 1>>
                                  ELSE IF m < 12 THEN <<y, m + 1, 1>> ELSE <<y + 1, 1, 1>>
<1> DEFINE l == R!DaysOf(y, m)
           x == <<y, m, d>>
<1>1. x[1] = y /\ x[2] = m /\ x[3] = d
  OBVIOUS
<1>2. R!NextDay(x) = CASE d < l -> <<y, m, d + 1>>
                       [] d = l /\ m < 12 -> <<y, m + 1, 1>>
                       [] OTHER -> <<y + 1, 1, 1>>
  BY <1>1 DEF R!NextDay
<1> HIDE DEF l, x
<1>3. l \in Int /\ d <= l
  BY DEF l
<1>4. CASE d < l
  BY <1>2, <1>3, <1>4 DEF l, x
<1>5. CASE d = l /\ m < 12
  BY <1>2, <1>3, <1>5 DEF l, x
<1>6. CASE d = l /\ ~(m < 12)
  BY <1>2, <1>3, <1>6 DEF l, x
<1> QED
  BY <1>3, <1>4, <1>5, <1>6

(* The day after a day of such a year.                                     *)
LEMMA NextDate ==
  ASSUME NEW y \in Int, NEW n \in 0..(YearLength(y) - 1)
  PROVE  R!NextDay(DateIn(y, n)) =
           IF n + 1 < YearLength(y) THEN DateIn(y, n + 1) ELSE DateIn(y + 1, 0)
<1>1. YearLength(y) \in 365..366 /\ n \in 0..365 /\ n + 1 \in 0..366
  BY DEF YearLength
<1> DEFINE k == MonthOf(n)
           l == IF k = 11 THEN 366 ELSE From(k + 1)
           f == From(k)
           m == Calendar(k)
           year == InYear(y, k)
           day == n - f + 1
           days == R!DaysOf(year, m)
<1>2. /\ k \in 0..11 /\ f \in Nat /\ l \in Nat /\ f <= n /\ n < l
      /\ l - f = IF k = 11 THEN 29 ELSE IF k \in {1, 3, 6, 8} THEN 30 ELSE 31
      /\ n + 1 < l => MonthOf(n + 1) = k
      /\ n + 1 = l /\ k < 11 => MonthOf(n + 1) = k + 1
  <2> HIDE DEF k
  <2> QED
    BY <1>1, MonthGoesOn, ZenonT(60) DEF k
<1>3. DateIn(y, n) = <<year, m, day>>
  BY <1>1, DateIs, ZenonT(60) DEF DayIn
<1>4. days = IF k = 11 THEN YearLength(y) - 337 ELSE l - f
  <2>1. days = IF k = 11 THEN YearLength(y) - 337 ELSE IF k \in {1, 3, 6, 8} THEN 30 ELSE 31
    BY <1>2, DaysThere
  <2> HIDE DEF k, l, f, days
  <2> QED
    BY <1>2, <2>1
<1>5. m \in 1..12 /\ year \in Int /\ (m < 12 <=> k # 9)
  <2> HIDE DEF k
  <2> QED
    BY <1>2 DEF Calendar, InYear
<1>6. k = 11 => f = 337 /\ l = 366
  <2> HIDE DEF k
  <2> QED
    BY MonthLengths
<1>7. days \in Int /\ day \in Int /\ day <= days
  <2> HIDE DEF k, l, f, days
  <2> QED
    BY <1>1, <1>2, <1>4, <1>6
<1>8. R!NextDay(DateIn(y, n)) =
        IF day < days THEN <<year, m, day + 1>>
        ELSE IF m < 12 THEN <<year, m + 1, 1>> ELSE <<year + 1, 1, 1>>
  <2> HIDE DEF day, m, year
  <2> QED
    BY <1>3, <1>5, <1>7, NextOf, ZenonT(60)
<1>9. CASE n + 1 < YearLength(y)
  <2>1. n + 1 \in 0..365
    BY <1>1, <1>9
  <2>2. DateIn(y, n + 1) = <<InYear(y, MonthOf(n + 1)), Calendar(MonthOf(n + 1)), DayIn(n + 1)>>
    <3>1. PICK c \in 0..365 : c = n + 1
      BY <2>1
    <3>2. DateIn(y, c) = <<InYear(y, MonthOf(c)), Calendar(MonthOf(c)), DayIn(c)>>
      BY DateIs, Zenon
    <3> QED
      BY <3>1, <3>2
  <2>3. CASE n + 1 < l
    <3>1. day < days /\ day + 1 = (n + 1) - f + 1
      <4> HIDE DEF k, l, f, days
      <4> QED
        BY <1>1, <1>2, <1>4, <1>6, <1>9, <2>3
    <3>2. DateIn(y, n + 1) = <<year, m, (n + 1) - f + 1>>
      BY <1>2, <2>2, <2>3 DEF DayIn
    <3> HIDE DEF year, m, day, f, days
    <3> QED
      BY <1>8, <1>9, <3>1, <3>2
  <2>4. CASE n + 1 = l
    <3>1. k < 11
      <4> HIDE DEF k, l, f, days
      <4> QED
        BY <1>1, <1>2, <1>6, <1>9, <2>4
    <3>2. l = From(k + 1)
      <4> HIDE DEF k
      <4> QED
        BY <3>1, <1>2
    <3>3. ~(day < days) /\ (n + 1) - From(k + 1) + 1 = 1
      <4>1. ~(day < days)
        <5> HIDE DEF k, l, f, days
        <5> QED
          BY <1>1, <1>2, <1>4, <2>4, <3>1
      <4> HIDE DEF day, days, k, l
      <4> QED
        BY <1>1, <1>2, <2>4, <3>2, <4>1
    <3>4. DateIn(y, n + 1) = <<InYear(y, k + 1), Calendar(k + 1), 1>>
      <4>1. MonthOf(n + 1) = k + 1
        BY <1>2, <2>4, <3>1
      <4>2. DayIn(n + 1) = 1
        <5>1. DayIn(n + 1) = (n + 1) - From(MonthOf(n + 1)) + 1
          BY DEF DayIn
        <5>2. From(MonthOf(n + 1)) = From(k + 1)
          BY <4>1
        <5> HIDE DEF k
        <5> QED
          BY <3>3, <5>1, <5>2
      <4> HIDE DEF k
      <4> QED
        BY <2>2, <4>1, <4>2
    <3>5. InYear(y, k + 1) = (IF m < 12 THEN year ELSE year + 1) /\ Calendar(k + 1) = IF m < 12 THEN m + 1 ELSE 1
      <4> HIDE DEF k
      <4> QED
        BY <1>2, <3>1 DEF InYear, Calendar
    <3> HIDE DEF day, days, m, year, k
    <3> QED
      BY <1>8, <1>9, <3>3, <3>4, <3>5
  <2> HIDE DEF k, l, f
  <2> QED
    BY <1>1, <1>2, <2>3, <2>4
<1>10. CASE n + 1 = YearLength(y)
  <2>1. k = 11
    <3>1. SUFFICES ASSUME k < 11 PROVE FALSE
      <4> HIDE DEF k
      <4> QED
        BY <1>2
    <3>2. l = From(k + 1) /\ k + 1 \in 0..11
      <4> HIDE DEF k
      <4> QED
        BY <1>2, <3>1
    <3>3. l <= 337
      <4> HIDE DEF k, l
      <4> QED
        BY <3>2, MonthLengths, SMTT(30)
    <3> HIDE DEF k, l, f
    <3> QED
      BY <1>1, <1>2, <1>10, <3>3
  <2>2. ~(day < days)
    <3> HIDE DEF k, l, f, days
    <3> QED
      BY <1>1, <1>2, <1>4, <1>6, <1>10, <2>1
  <2>3. m = 2 /\ year = y + 1
    <3> HIDE DEF k
    <3> QED
      BY <2>1 DEF Calendar, InYear
  <2>4. DateIn(y + 1, 0) = <<y + 1, 3, 1>>
    BY DEF DateIn
  <2>5. ~(n + 1 < YearLength(y))
    BY <1>1, <1>10
  <2> HIDE DEF day, days, m, year
  <2> QED
    BY <1>8, <2>2, <2>3, <2>4, <2>5
<1> QED
  BY <1>1, <1>9, <1>10

(* The date of a day, by the year of its era and the day of that year.     *)
ERA == 146097
EPOCH == 719468
IsDate(d, g, y, n) ==
  /\ n \in 0..(YearLength(y) - 1)
  /\ d + EPOCH = ERA * g + (Before(y) + n)
  /\ R!DaysToYmd(d) = DateIn(400 * g + y, n)

LEMMA DateOf ==
  ASSUME NEW d \in Nat
  PROVE  \E g \in Nat, y \in 0..399, n \in Nat : IsDate(d, g, y, n)
<1> DEFINE days == d + EPOCH
           g == days \div ERA
           e == days % ERA
<1>1. g \in Nat /\ e \in Era /\ days = ERA * g + e
  BY SMT DEF Era, ERA, EPOCH
<1>2. PICK y \in 0..399 : \E n \in 0..(YearLength(y) - 1) : e = Before(y) + n
  <2>1. e \in Era
    BY <1>1
  <2> HIDE DEF e, days, g
  <2> QED
    BY <2>1, YearThere, ZenonT(60)
<1>3. PICK n \in 0..(YearLength(y) - 1) : e = Before(y) + n
  BY <1>2
<1>4. YearOfEra(e) = y
  <2> HIDE DEF e
  <2> QED
    BY <1>3, YearFound
<1>5. R!DaysToYmd(d) =
        LET yoe == YearOfEra(e)
            doy == e - (365 * yoe + (yoe \div 4) - (yoe \div 100))
            mp == (5 * doy + 2) \div 153
            m == IF mp < 10 THEN mp + 3 ELSE mp - 9
        IN  <<yoe + 400 * g + (IF m <= 2 THEN 1 ELSE 0), m, doy - ((153 * mp + 2) \div 5) + 1>>
  BY SMT DEF R!DaysToYmd, YearOfEra, ERA, EPOCH
<1> HIDE DEF e, g
<1>6. e - (365 * y + (y \div 4) - (y \div 100)) = n
  <2>1. Before(y) = 365 * y + (y \div 4) - (y \div 100) /\ Before(y) \in Int /\ n \in Int
    BY DEF Before, YearLength
  <2> HIDE DEF Before
  <2> QED
    BY <1>3, <2>1
<1>7. R!DaysToYmd(d) =
        LET mp == (5 * n + 2) \div 153
            m == IF mp < 10 THEN mp + 3 ELSE mp - 9
        IN  <<y + 400 * g + (IF m <= 2 THEN 1 ELSE 0), m, n - ((153 * mp + 2) \div 5) + 1>>
  BY <1>4, <1>5, <1>6
<1>8. y + 400 * g = 400 * g + y
  BY <1>1
<1>9. R!DaysToYmd(d) = DateIn(400 * g + y, n)
  BY <1>7, <1>8 DEF DateIn
<1>10. d + EPOCH = ERA * g + (Before(y) + n)
  BY <1>1, <1>3
<1> QED
  <2>1. IsDate(d, g, y, n)
    BY <1>3, <1>9, <1>10 DEF IsDate
  <2>2. n \in Nat
    BY <1>3 DEF YearLength
  <2> QED
    BY <1>1, <1>2, <2>1, <2>2, ZenonT(60)

(* Eras are alike, and the first of them begins where they follow.         *)
LEMMA DateFollows ==
  ASSUME NEW d \in Nat
  PROVE  R!DaysToYmd(d + 1) = R!NextDay(R!DaysToYmd(d))
<1>1. PICK g \in Nat, y \in 0..399, n \in Nat : IsDate(d, g, y, n)
  BY DateOf, ZenonT(60)
<1>2. PICK h \in Nat, z \in 0..399, l \in Nat : IsDate(d + 1, h, z, l)
  <2>1. d + 1 \in Nat
    OBVIOUS
  <2> QED
    BY <2>1, DateOf, Zenon
<1>3. /\ n \in 0..(YearLength(y) - 1)
      /\ d + EPOCH = ERA * g + (Before(y) + n)
      /\ R!DaysToYmd(d) = DateIn(400 * g + y, n)
  BY <1>1 DEF IsDate
<1>6. /\ l \in 0..(YearLength(z) - 1)
      /\ d + 1 + EPOCH = ERA * h + (Before(z) + l)
      /\ R!DaysToYmd(d + 1) = DateIn(400 * h + z, l)
  BY <1>2 DEF IsDate
<1>7. YearLength(400 * g + y) = YearLength(y)
  BY DEF YearLength, R!Leap
<1>8. YearLength(y) \in 365..366 /\ YearLength(z) \in 365..366
  BY DEF YearLength
<1>9. R!NextDay(R!DaysToYmd(d)) =
        IF n + 1 < YearLength(y) THEN DateIn(400 * g + y, n + 1) ELSE DateIn(400 * g + y + 1, 0)
  BY <1>3, <1>7, NextDate
<1> DEFINE e == Before(y) + n
           f == Before(z) + l
<1>10. e \in Era /\ f \in Era /\ YearOfEra(e) = y /\ YearOfEra(f) = z
  BY <1>3, <1>6, YearFound, ZenonT(60)
<1>11. ERA * h + f = ERA * g + e + 1
  <2>1. d + 1 + EPOCH = ERA * h + f /\ d + EPOCH = ERA * g + e /\ EPOCH \in Nat
    BY <1>3, <1>6, SMT DEF EPOCH
  <2>2. e \in Int /\ f \in Int /\ ERA * h \in Int /\ ERA * g \in Int
    BY <1>10 DEF Era, ERA
  <2> DEFINE u == ERA * h
             v == ERA * g
  <2> HIDE DEF e, f, u, v
  <2>3. u + f = v + e + 1
    BY <2>1, <2>2 DEF u, v
  <2> QED
    BY <2>3 DEF u, v
<1>12. CASE n + 1 < YearLength(y)
  <2>1. Before(y) + (n + 1) \in Era /\ YearOfEra(Before(y) + (n + 1)) = y
    <3>1. n + 1 \in 0..(YearLength(y) - 1)
      BY <1>8, <1>12
    <3> QED
      BY <3>1, YearFound, ZenonT(60)
  <2>2. Before(y) + (n + 1) = e + 1
    <3>1. Before(y) \in Int /\ n \in Int
      BY <1>8 DEF Before
    <3> HIDE DEF Before
    <3> QED
      BY <3>1
  <2>3. h = g /\ f = e + 1
    <3> HIDE DEF e, f
    <3> QED
      BY <1>10, <1>11, <2>1, <2>2, SMT DEF Era, ERA
  <2>4. z = y
    BY <1>10, <2>1, <2>2, <2>3
  <2>5. l = n + 1
    <3>1. Before(y) \in Int /\ n \in Int /\ l \in Int
      BY <1>8 DEF Before
    <3> HIDE DEF Before
    <3> QED
      BY <2>3, <2>4, <3>1
  <2> QED
    BY <1>6, <1>9, <1>12, <2>3, <2>4, <2>5
<1>13. CASE n + 1 = YearLength(y)
  <2>1. ~(n + 1 < YearLength(y))
    BY <1>8, <1>13
  <2>2. CASE y < 399
    <3>1. Before(y + 1) = Before(y) + YearLength(y)
      BY <2>2, SMTT(40) DEF Before, YearLength, R!Leap
    <3>2. y + 1 \in 0..399 /\ 0 \in 0..(YearLength(y + 1) - 1)
      BY <2>2 DEF YearLength
    <3>3. Before(y + 1) + 0 \in Era /\ YearOfEra(Before(y + 1) + 0) = y + 1
      BY <3>2, YearFound, Zenon
    <3>4. Before(y + 1) + 0 = e + 1 /\ Before(y + 1) \in Int
      <4>1. Before(y) \in Int /\ n \in Int /\ Before(y + 1) \in Int
        BY <1>8 DEF Before
      <4> HIDE DEF Before
      <4> QED
        BY <1>8, <1>13, <3>1, <4>1
    <3>5. h = g /\ f = e + 1
      <4> HIDE DEF e, f
      <4> QED
        BY <1>10, <1>11, <3>3, <3>4, SMT DEF Era, ERA
    <3>6. z = y + 1
      BY <1>10, <3>3, <3>4, <3>5
    <3>7. l = 0
      <4>1. Before(y + 1) \in Int /\ l \in Int
        BY <1>8 DEF Before
      <4> HIDE DEF Before
      <4> QED
        BY <3>4, <3>5, <3>6, <4>1
    <3>8. 400 * g + y + 1 = 400 * h + z
      BY <3>5, <3>6
    <3> QED
      BY <1>6, <1>9, <2>1, <3>7, <3>8
  <2>3. CASE y = 399
    <3>1. e = 146096
      BY <1>13, <2>3 DEF Before, YearLength, R!Leap
    <3>2. h = g + 1 /\ f = 0
      <4> HIDE DEF e, f
      <4> QED
        BY <1>10, <1>11, <3>1, SMT DEF Era, ERA
    <3>3. z = 0
      BY <1>10, <3>2 DEF YearOfEra
    <3>4. l = 0
      <4>1. Before(0) = 0 /\ l \in Int
        BY <1>8 DEF Before
      <4> HIDE DEF Before
      <4> QED
        BY <3>2, <3>3, <4>1
    <3>5. 400 * g + y + 1 = 400 * h + z
      BY <2>3, <3>2, <3>3
    <3> QED
      BY <1>6, <1>9, <2>1, <3>4, <3>5
  <2> QED
    BY <2>2, <2>3
<1> QED
  BY <1>3, <1>8, <1>12, <1>13

(* The dates of the clock are those of the calendar for ever: the first is *)
(* the 1st of January 1970, and each is the day after the one before       *)
(* (rtc.rs, days_to_ymd).                                                  *)
THEOREM CalendarGoesOn ==
  /\ R!DaysToYmd(0) = <<1970, 1, 1>>
  /\ \A d \in Nat : R!DaysToYmd(d + 1) = R!NextDay(R!DaysToYmd(d))
<1>1. R!DaysToYmd(0) = <<1970, 1, 1>>
  BY SMT DEF R!DaysToYmd
<1> QED
  BY <1>1, DateFollows

(* ... and so what the run checks of them holds at every instant.          *)
THEOREM CalendarKept == BusSpec => []CalendarRight
<1>1. DaysInOrder
  <2>1. \A d \in 0..R!LAST_DAY : d \in Nat
    BY SMTT(30) DEF R!LAST_DAY
  <2> QED
    BY <2>1, CalendarGoesOn DEF DaysInOrder, R!DaysInOrder
<1>2. CalendarRight
  BY <1>1 DEF CalendarRight
<1> QED
  BY <1>2, PTL

(***************************************************************************)
(* The transactions of the clock, bit by bit.                              *)
(***************************************************************************)
ChipStates == {"Idle", "ReceivingCommand", "ReceivingData", "SendingData"}
ClockChips ==
  [state : ChipStates, last_sck : BOOLEAN, cs : BOOLEAN, in_bits : Int, in_count : Int,
   out_bits : Int, out_count : Int, sio_out : {0, 1}, command : Int, buf : Seq(Int),
   idx : Nat, len : Nat, status : Int]
Pins == [data : 0..15, direction : 0..15, control : 0..1]

LEMMA Powers ==
  /\ 2^0 = 1 /\ 2^1 = 2 /\ 2^2 = 4 /\ 2^3 = 8 /\ 2^4 = 16
  /\ 2^5 = 32 /\ 2^6 = 64 /\ 2^7 = 128 /\ 2^8 = 256
OBVIOUS

LEMMA BitType ==
  ASSUME NEW n \in Int, NEW i \in 0..7
  PROVE  R!Bit(n, i) \in {0, 1}
<1>1. i \in {0, 1, 2, 3, 4, 5, 6, 7}
  OBVIOUS
<1>2. 2^i \in Nat \ {0}
  <2>1. i = 0 => 2^i = 1
    BY Powers
  <2>2. i = 1 => 2^i = 2
    BY Powers
  <2>3. i = 2 => 2^i = 4
    BY Powers
  <2>4. i = 3 => 2^i = 8
    BY Powers
  <2>5. i = 4 => 2^i = 16
    BY Powers
  <2>6. i = 5 => 2^i = 32
    BY Powers
  <2>7. i = 6 => 2^i = 64
    BY Powers
  <2>8. i = 7 => 2^i = 128
    BY Powers
  <2> QED
    BY <1>1, <2>1, <2>2, <2>3, <2>4, <2>5, <2>6, <2>7, <2>8
<1> DEFINE q == n \div 2^i
<1>3. q \in Int
  BY <1>2
<1> HIDE DEF q
<1>4. q % 2 \in {0, 1}
  BY <1>3
<1> QED
  BY <1>4 DEF R!Bit, q

LEMMA WireType ==
  ASSUME NEW bytes \in Seq(Int)
  PROVE  /\ R!Wire(bytes) \in Seq({0, 1}) /\ Len(R!Wire(bytes)) = 8 * Len(bytes)
         /\ \A n \in 0..(8 * Len(bytes) - 1) : R!Wire(bytes)[n + 1] = R!Bit(bytes[(n \div 8) + 1], n % 8)
<1> DEFINE l == Len(bytes)
           m == 8 * l
           w == R!Wire(bytes)
<1>1. l \in Nat /\ m \in Nat
  BY LenProperties
<1>2. w = [i \in 1..m |-> R!Bit(bytes[((i - 1) \div 8) + 1], (i - 1) % 8)]
  BY DEF R!Wire
<1> HIDE DEF w
<1>3. ASSUME NEW i \in 1..m PROVE w[i] \in {0, 1}
  <2>1. (i - 1) \div 8 \in 0..(l - 1) /\ (i - 1) % 8 \in 0..7
    BY <1>1
  <2>2. ((i - 1) \div 8) + 1 \in 1..l
    BY <1>1, <2>1
  <2>3. bytes[((i - 1) \div 8) + 1] \in Int
    BY <2>2, ElementOfSeq
  <2> QED
    BY <1>2, <2>1, <2>3, BitType
<1>4. ASSUME NEW n \in 0..(m - 1) PROVE w[n + 1] = R!Bit(bytes[(n \div 8) + 1], n % 8)
  <2>1. n + 1 \in 1..m /\ (n + 1) - 1 = n
    BY <1>1
  <2> QED
    BY <1>2, <2>1
<1> HIDE DEF m
<1>5. w \in Seq({0, 1}) /\ Len(w) = m
  BY <1>1, <1>2, <1>3, IsASeq
<1> QED
  BY <1>4, <1>5 DEF w, m

(* What a bit does to the bits that have come: from the top of a command,  *)
(* from the bottom of a byte.                                              *)
LEMMA CommandBit ==
  ASSUME NEW n \in 0..255, NEW k \in 0..7
  PROVE  (2 * (n \div 2^(8 - k)) + R!Bit(n, 7 - k)) % 256 = n \div 2^(7 - k)
<1>1. k \in {0, 1, 2, 3, 4, 5, 6, 7}
  OBVIOUS
<1>2. CASE k = 0
  <2>1. 2^(8 - k) = 256 /\ 2^(7 - k) = 128
    BY <1>2, Powers
  <2>2. (2 * (n \div 256) + ((n \div 128) % 2)) % 256 = n \div 128
    BY SMT
  <2> QED
    BY <2>1, <2>2 DEF R!Bit
<1>3. CASE k = 1
  <2>1. 2^(8 - k) = 128 /\ 2^(7 - k) = 64
    BY <1>3, Powers
  <2>2. (2 * (n \div 128) + ((n \div 64) % 2)) % 256 = n \div 64
    BY SMT
  <2> QED
    BY <2>1, <2>2 DEF R!Bit
<1>4. CASE k = 2
  <2>1. 2^(8 - k) = 64 /\ 2^(7 - k) = 32
    BY <1>4, Powers
  <2>2. (2 * (n \div 64) + ((n \div 32) % 2)) % 256 = n \div 32
    BY SMT
  <2> QED
    BY <2>1, <2>2 DEF R!Bit
<1>5. CASE k = 3
  <2>1. 2^(8 - k) = 32 /\ 2^(7 - k) = 16
    BY <1>5, Powers
  <2>2. (2 * (n \div 32) + ((n \div 16) % 2)) % 256 = n \div 16
    BY SMT
  <2> QED
    BY <2>1, <2>2 DEF R!Bit
<1>6. CASE k = 4
  <2>1. 2^(8 - k) = 16 /\ 2^(7 - k) = 8
    BY <1>6, Powers
  <2>2. (2 * (n \div 16) + ((n \div 8) % 2)) % 256 = n \div 8
    BY SMT
  <2> QED
    BY <2>1, <2>2 DEF R!Bit
<1>7. CASE k = 5
  <2>1. 2^(8 - k) = 8 /\ 2^(7 - k) = 4
    BY <1>7, Powers
  <2>2. (2 * (n \div 8) + ((n \div 4) % 2)) % 256 = n \div 4
    BY SMT
  <2> QED
    BY <2>1, <2>2 DEF R!Bit
<1>8. CASE k = 6
  <2>1. 2^(8 - k) = 4 /\ 2^(7 - k) = 2
    BY <1>8, Powers
  <2>2. (2 * (n \div 4) + ((n \div 2) % 2)) % 256 = n \div 2
    BY SMT
  <2> QED
    BY <2>1, <2>2 DEF R!Bit
<1>9. CASE k = 7
  <2>1. 2^(8 - k) = 2 /\ 2^(7 - k) = 1
    BY <1>9, Powers
  <2>2. (2 * (n \div 2) + ((n \div 1) % 2)) % 256 = n \div 1
    BY SMT
  <2> QED
    BY <2>1, <2>2 DEF R!Bit
<1> QED
  BY <1>1, <1>2, <1>3, <1>4, <1>5, <1>6, <1>7, <1>8, <1>9

LEMMA DataBit ==
  ASSUME NEW n \in Int, NEW j \in 0..7
  PROVE  /\ (n % 2^j) + R!Bit(n, j) * 2^j = n % 2^(j + 1)
         /\ (n \div 2^j) % 2 = R!Bit(n, j) /\ (n \div 2^j) \div 2 = n \div 2^(j + 1)
<1>1. j \in {0, 1, 2, 3, 4, 5, 6, 7}
  OBVIOUS
<1>2. CASE j = 0
  <2>1. 2^j = 1 /\ 2^(j + 1) = 2
    BY <1>2, Powers
  <2>2. /\ (n % 1) + ((n \div 1) % 2) * 1 = n % 2
        /\ (n \div 1) \div 2 = n \div 2
    BY SMT
  <2> QED
    BY <2>1, <2>2 DEF R!Bit
<1>3. CASE j = 1
  <2>1. 2^j = 2 /\ 2^(j + 1) = 4
    BY <1>3, Powers
  <2>2. /\ (n % 2) + ((n \div 2) % 2) * 2 = n % 4
        /\ (n \div 2) \div 2 = n \div 4
    BY SMT
  <2> QED
    BY <2>1, <2>2 DEF R!Bit
<1>4. CASE j = 2
  <2>1. 2^j = 4 /\ 2^(j + 1) = 8
    BY <1>4, Powers
  <2>2. /\ (n % 4) + ((n \div 4) % 2) * 4 = n % 8
        /\ (n \div 4) \div 2 = n \div 8
    BY SMT
  <2> QED
    BY <2>1, <2>2 DEF R!Bit
<1>5. CASE j = 3
  <2>1. 2^j = 8 /\ 2^(j + 1) = 16
    BY <1>5, Powers
  <2>2. /\ (n % 8) + ((n \div 8) % 2) * 8 = n % 16
        /\ (n \div 8) \div 2 = n \div 16
    BY SMT
  <2> QED
    BY <2>1, <2>2 DEF R!Bit
<1>6. CASE j = 4
  <2>1. 2^j = 16 /\ 2^(j + 1) = 32
    BY <1>6, Powers
  <2>2. /\ (n % 16) + ((n \div 16) % 2) * 16 = n % 32
        /\ (n \div 16) \div 2 = n \div 32
    BY SMT
  <2> QED
    BY <2>1, <2>2 DEF R!Bit
<1>7. CASE j = 5
  <2>1. 2^j = 32 /\ 2^(j + 1) = 64
    BY <1>7, Powers
  <2>2. /\ (n % 32) + ((n \div 32) % 2) * 32 = n % 64
        /\ (n \div 32) \div 2 = n \div 64
    BY SMT
  <2> QED
    BY <2>1, <2>2 DEF R!Bit
<1>8. CASE j = 6
  <2>1. 2^j = 64 /\ 2^(j + 1) = 128
    BY <1>8, Powers
  <2>2. /\ (n % 64) + ((n \div 64) % 2) * 64 = n % 128
        /\ (n \div 64) \div 2 = n \div 128
    BY SMT
  <2> QED
    BY <2>1, <2>2 DEF R!Bit
<1>9. CASE j = 7
  <2>1. 2^j = 128 /\ 2^(j + 1) = 256
    BY <1>9, Powers
  <2>2. /\ (n % 128) + ((n \div 128) % 2) * 128 = n % 256
        /\ (n \div 128) \div 2 = n \div 256
    BY SMT
  <2> QED
    BY <2>1, <2>2 DEF R!Bit
<1> QED
  BY <1>1, <1>2, <1>3, <1>4, <1>5, <1>6, <1>7, <1>8, <1>9

(* The levels of the pins that the library stores.                         *)
LEMMA Levels ==
  /\ R!Bit(1, 0) = 1 /\ R!Bit(1, 1) = 0 /\ R!Bit(1, 2) = 0
  /\ \A b \in {0, 1} : /\ R!Bit(4 + 2 * b, 0) = 0 /\ R!Bit(4 + 2 * b, 1) = b /\ R!Bit(4 + 2 * b, 2) = 1
                       /\ R!Bit(5 + 2 * b, 0) = 1 /\ R!Bit(5 + 2 * b, 1) = b /\ R!Bit(5 + 2 * b, 2) = 1
  /\ R!Bit(4, 0) = 0 /\ R!Bit(4, 1) = 0 /\ R!Bit(4, 2) = 1
  /\ R!Bit(5, 0) = 1 /\ R!Bit(5, 1) = 0 /\ R!Bit(5, 2) = 1
<1>1. \A n \in Int : R!Bit(n, 0) = n % 2 /\ R!Bit(n, 1) = (n \div 2) % 2 /\ R!Bit(n, 2) = (n \div 4) % 2
  <2>1. \A n \in Int : n \div 1 = n
    OBVIOUS
  <2> QED
    BY <2>1, Powers DEF R!Bit
<1>2. ASSUME NEW b \in {0, 1}
      PROVE  /\ R!Bit(4 + 2 * b, 0) = 0 /\ R!Bit(4 + 2 * b, 1) = b /\ R!Bit(4 + 2 * b, 2) = 1
             /\ R!Bit(5 + 2 * b, 0) = 1 /\ R!Bit(5 + 2 * b, 1) = b /\ R!Bit(5 + 2 * b, 2) = 1
  <2>1. CASE b = 0
    BY <1>1, <2>1
  <2>2. CASE b = 1
    BY <1>1, <2>2
  <2> QED
    BY <2>1, <2>2
<1>3. R!Bit(1, 0) = 1 /\ R!Bit(1, 1) = 0 /\ R!Bit(1, 2) = 0
  BY <1>1
<1>4. /\ R!Bit(4, 0) = 0 /\ R!Bit(4, 1) = 0 /\ R!Bit(4, 2) = 1
      /\ R!Bit(5, 0) = 1 /\ R!Bit(5, 1) = 0 /\ R!Bit(5, 2) = 1
  BY <1>1
<1> QED
  BY <1>2, <1>3, <1>4

(* Select goes down: whatever was under way is over.                       *)
LEMMA Deselects ==
  ASSUME NEW c \in ClockChips, NEW t
  PROVE  LET d == R!pin_update(c, 1, t)
         IN  d \in ClockChips /\ ~d.cs /\ d.last_sck /\ d.status = c.status
<1> DEFINE d == [R!SelectEdge(c, R!Bit(1, 2) = 1) EXCEPT !.last_sck = R!Bit(1, 0) = 1]
<1>1. (R!Bit(1, 2) = 1) = FALSE /\ (R!Bit(1, 0) = 1) = TRUE
  BY Levels
<1>2. d \in ClockChips /\ ~d.cs /\ d.last_sck /\ d.status = c.status
  <2>1. CASE c.cs
    <3>1. R!SelectEdge(c, FALSE) = [c EXCEPT !.cs = FALSE, !.state = "Idle"]
      BY <2>1 DEF R!SelectEdge
    <3> QED
      BY <1>1, <3>1, ZenonT(60) DEF ClockChips, ChipStates
  <2>2. CASE ~c.cs
    <3>1. R!SelectEdge(c, FALSE) = c
      BY <2>2 DEF R!SelectEdge
    <3> QED
      BY <1>1, <2>2, <3>1 DEF ClockChips
  <2> QED
    BY <2>1, <2>2
<1>3. R!pin_update(c, 1, t) = d
  BY <1>2 DEF R!pin_update
<1> QED
  BY <1>2, <1>3

(* Select goes up: a command begins.                                       *)
LEMMA Selects ==
  ASSUME NEW c \in ClockChips, NEW t, ~c.cs, c.last_sck
  PROVE  R!pin_update(c, 5, t) =
           [c EXCEPT !.cs = TRUE, !.state = "ReceivingCommand", !.in_bits = 0, !.in_count = 0,
                     !.out_count = 0, !.idx = 0]
<1> DEFINE new == [c EXCEPT !.cs = TRUE, !.state = "ReceivingCommand", !.in_bits = 0, !.in_count = 0,
                     !.out_count = 0, !.idx = 0]
           d == [R!SelectEdge(c, R!Bit(5, 2) = 1) EXCEPT !.last_sck = R!Bit(5, 0) = 1]
<1>1. (R!Bit(5, 2) = 1) = TRUE /\ (R!Bit(5, 0) = 1) = TRUE
  BY Levels
<1>2. R!SelectEdge(c, TRUE) = new
  BY DEF R!SelectEdge
<1>3. d = new /\ d.cs /\ d.state = "ReceivingCommand"
  <2>1. new \in ClockChips /\ new.last_sck = TRUE
    <3>1. "ReceivingCommand" \in ChipStates /\ 0 \in Nat /\ 0 \in Int /\ TRUE \in BOOLEAN
      BY DEF ChipStates
    <3> QED
      BY <3>1 DEF ClockChips
  <2>2. [new EXCEPT !.last_sck = TRUE] = new
    <3> HIDE DEF new
    <3> QED
      BY <2>1 DEF ClockChips
  <2> QED
    BY <1>1, <1>2, <2>2, ZenonT(60) DEF ClockChips
<1>4. R!pin_update(c, 5, t) = d
  BY <1>1, <1>3 DEF R!pin_update
<1> QED
  BY <1>3, <1>4

(* The clock goes down while the library sends.                            *)
LEMMA GoesDown ==
  ASSUME NEW c \in ClockChips, NEW t, NEW b \in {0, 1}, c.cs, c.state # "SendingData"
  PROVE  R!pin_update(c, 4 + 2 * b, t) = [c EXCEPT !.last_sck = FALSE]
<1> DEFINE v == 4 + 2 * b
           d == [R!SelectEdge(c, R!Bit(v, 2) = 1) EXCEPT !.last_sck = R!Bit(v, 0) = 1]
<1>1. (R!Bit(v, 2) = 1) = TRUE /\ (R!Bit(v, 0) = 1) = FALSE
  BY Levels
<1>2. R!SelectEdge(c, TRUE) = c
  BY DEF R!SelectEdge
<1>3. d = [c EXCEPT !.last_sck = FALSE] /\ d.cs /\ d.state # "SendingData"
  BY <1>1, <1>2 DEF ClockChips
<1> HIDE DEF v
<1>4. R!pin_update(c, v, t) = d
  BY <1>1, <1>3 DEF R!pin_update
<1> QED
  BY <1>3, <1>4 DEF v

(* ... and up: the chip takes a bit.                                       *)
LEMMA GoesUp ==
  ASSUME NEW c \in ClockChips, NEW t, NEW b \in {0, 1}, c.cs, ~c.last_sck
  PROVE  LET d == [c EXCEPT !.last_sck = TRUE]
         IN  /\ d \in ClockChips
             /\ c.state = "ReceivingCommand" =>
                  R!pin_update(c, 5 + 2 * b, t) = R!ReceiveCommandBit(d, b, t)
             /\ c.state = "ReceivingData" => R!pin_update(c, 5 + 2 * b, t) = R!ReceiveBit(d, b)
             /\ c.state \in {"Idle", "SendingData"} => R!pin_update(c, 5 + 2 * b, t) = d
<1> DEFINE v == 5 + 2 * b
           d == [R!SelectEdge(c, R!Bit(v, 2) = 1) EXCEPT !.last_sck = R!Bit(v, 0) = 1]
           e == [c EXCEPT !.last_sck = TRUE]
<1>1. (R!Bit(v, 2) = 1) = TRUE /\ (R!Bit(v, 0) = 1) = TRUE /\ R!Bit(v, 1) = b
  BY Levels
<1>2. R!SelectEdge(c, TRUE) = c
  BY DEF R!SelectEdge
<1>3. d = e /\ d.cs /\ d.state = c.state
  BY <1>1, <1>2 DEF ClockChips
<1>4. e \in ClockChips
  BY DEF ClockChips
<1> HIDE DEF v
<1>5. R!pin_update(c, v, t) =
        CASE ~d.cs -> d
          [] d.cs /\ d.state = "ReceivingCommand" /\ TRUE -> R!ReceiveCommandBit(d, b, t)
          [] d.cs /\ d.state = "ReceivingData" /\ TRUE -> R!ReceiveBit(d, b)
          [] d.cs /\ d.state = "SendingData" /\ FALSE -> R!SendBit(d)
          [] OTHER -> d
  BY <1>1 DEF R!pin_update
<1> HIDE DEF d, e
<1>6. c.state = "ReceivingCommand" => R!pin_update(c, v, t) = R!ReceiveCommandBit(d, b, t)
  BY <1>3, <1>5
<1>7. c.state = "ReceivingData" => R!pin_update(c, v, t) = R!ReceiveBit(d, b)
  BY <1>3, <1>5
<1>8. c.state \in {"Idle", "SendingData"} => R!pin_update(c, v, t) = d
  BY <1>3, <1>5
<1> QED
  BY <1>3, <1>4, <1>6, <1>7, <1>8 DEF v, e

(* The clock goes down while the chip sends.                               *)
LEMMA Tells ==
  ASSUME NEW c \in ClockChips, NEW t, c.cs, c.last_sck, c.state = "SendingData"
  PROVE  /\ [c EXCEPT !.last_sck = FALSE] \in ClockChips
         /\ R!pin_update(c, 4, t) = R!SendBit([c EXCEPT !.last_sck = FALSE])
<1> DEFINE d == [R!SelectEdge(c, R!Bit(4, 2) = 1) EXCEPT !.last_sck = R!Bit(4, 0) = 1]
           e == [c EXCEPT !.last_sck = FALSE]
<1>1. (R!Bit(4, 2) = 1) = TRUE /\ (R!Bit(4, 0) = 1) = FALSE
  BY Levels
<1>2. R!SelectEdge(c, TRUE) = c
  BY DEF R!SelectEdge
<1>3. d = e /\ d.cs /\ d.state = "SendingData"
  BY <1>1, <1>2 DEF ClockChips
<1>4. e \in ClockChips
  BY DEF ClockChips
<1>5. R!pin_update(c, 4, t) =
        CASE ~d.cs -> d
          [] d.cs /\ d.state = "ReceivingCommand" /\ FALSE -> R!ReceiveCommandBit(d, R!Bit(4, 1), t)
          [] d.cs /\ d.state = "ReceivingData" /\ FALSE -> R!ReceiveBit(d, R!Bit(4, 1))
          [] d.cs /\ d.state = "SendingData" /\ TRUE -> R!SendBit(d)
          [] OTHER -> d
  BY <1>1 DEF R!pin_update
<1> HIDE DEF d, e
<1>6. R!pin_update(c, 4, t) = R!SendBit(d)
  BY <1>3, <1>5
<1> QED
  BY <1>3, <1>4, <1>6 DEF e

(* How far the chip is: a command, a byte of data, an answer, each cut     *)
(* after some of its bits.                                                 *)
Listening(c, op, k, sck) ==
  /\ c.cs /\ c.last_sck = sck /\ c.state = "ReceivingCommand"
  /\ c.in_count = k /\ c.in_bits = op \div 2^(8 - k)
  /\ c.idx = 0 /\ c.out_count = 0

Taking(c, op, y, n, sck) ==
  /\ c.cs /\ c.last_sck = sck /\ c.state = "ReceivingData"
  /\ c.command = op /\ c.len = Len(y) /\ c.idx = n \div 8
  /\ c.in_count = n % 8 /\ c.in_bits = y[(n \div 8) + 1] % 2^(n % 8)
  /\ n \div 8 > 0 => Len(c.buf) = n \div 8

Sent(c, bytes, n, sck) ==
  /\ c.cs /\ c.last_sck = sck /\ c.buf = bytes /\ c.len = Len(bytes)
  /\ n % 8 = 0 => /\ c.idx = n \div 8 /\ c.out_count = 0
                  /\ c.state = IF n \div 8 = Len(bytes) THEN "Idle" ELSE "SendingData"
  /\ n % 8 > 0 => /\ c.idx = (n \div 8) + 1 /\ c.out_count = 8 - (n % 8)
                  /\ c.out_bits = bytes[(n \div 8) + 1] \div 2^(n % 8)
                  /\ c.state = "SendingData"
  /\ n > 0 => c.sio_out = R!Wire(bytes)[n]

(* A command is sent bit by bit.                                           *)
LEMMA Waits ==
  ASSUME NEW c \in ClockChips, NEW t, NEW b \in {0, 1}, NEW op \in 0..255, NEW k \in 0..7,
         Listening(c, op, k, TRUE)
  PROVE  LET d == R!pin_update(c, 4 + 2 * b, t)
         IN  d \in ClockChips /\ Listening(d, op, k, FALSE) /\ d.status = c.status
<1>1. c.cs /\ c.state # "SendingData"
  BY DEF Listening
<1> DEFINE d == [c EXCEPT !.last_sck = FALSE]
<1>2. R!pin_update(c, 4 + 2 * b, t) = d
  BY <1>1, GoesDown
<1>3. d \in ClockChips
  BY DEF ClockChips
<1>4. /\ d.last_sck = FALSE /\ d.cs = c.cs /\ d.state = c.state /\ d.in_count = c.in_count
      /\ d.in_bits = c.in_bits /\ d.idx = c.idx /\ d.out_count = c.out_count /\ d.status = c.status
  BY DEF ClockChips
<1> HIDE DEF d
<1> QED
  BY <1>2, <1>3, <1>4 DEF Listening

Heard(c, op, k, t, d) ==
  /\ k < 7 => d \in ClockChips /\ Listening(d, op, k + 1, TRUE) /\ d.status = c.status
  /\ k = 7 => d = [R!execute_command([c EXCEPT !.last_sck = TRUE, !.command = op], t)
                    EXCEPT !.in_bits = 0, !.in_count = 0]

LEMMA Hears ==
  ASSUME NEW c \in ClockChips, NEW t, NEW op \in 0..255, NEW k \in 0..7,
         Listening(c, op, k, FALSE)
  PROVE  Heard(c, op, k, t, R!pin_update(c, 5 + 2 * R!Bit(op, 7 - k), t))
<1> DEFINE b == R!Bit(op, 7 - k)
           u == [c EXCEPT !.last_sck = TRUE]
           byte == (2 * u.in_bits + b) % 256
<1>1. b \in {0, 1}
  <2>1. 7 - k \in 0..7
    OBVIOUS
  <2> QED
    BY <2>1, BitType
<1> HIDE DEF b
<1>2. u \in ClockChips /\ R!pin_update(c, 5 + 2 * b, t) = R!ReceiveCommandBit(u, b, t)
  BY <1>1, GoesUp DEF Listening
<1>3. u.in_bits = op \div 2^(8 - k) /\ u.in_count = k
  BY DEF Listening, ClockChips
<1>4. byte = op \div 2^(7 - k)
  BY <1>3, CommandBit, ZenonT(60) DEF b
<1>5. R!ReceiveCommandBit(u, b, t) =
        IF u.in_count = 7
        THEN [R!execute_command([u EXCEPT !.command = byte], t) EXCEPT !.in_bits = 0, !.in_count = 0]
        ELSE [u EXCEPT !.in_bits = byte, !.in_count = @ + 1]
  BY DEF R!ReceiveCommandBit
<1>6. byte \in Int
  <2>1. u.in_bits \in Int
    BY <1>2, SMTT(30) DEF ClockChips
  <2>2. b \in Int
    BY <1>1, SMTT(30)
  <2> HIDE DEF u, b
  <2> QED
    BY <2>1, <2>2
<1>7. u.cs /\ u.last_sck = TRUE /\ u.state = "ReceivingCommand" /\ u.idx = 0 /\ u.out_count = 0 /\ u.status = c.status
  BY DEF Listening, ClockChips
<1>8. CASE k < 7
  <2> DEFINE d == [u EXCEPT !.in_bits = byte, !.in_count = @ + 1]
  <2> HIDE DEF u, byte
  <2>1. R!pin_update(c, 5 + 2 * b, t) = d
    BY <1>2, <1>3, <1>5, <1>8
  <2>0. u.in_count + 1 \in Int
    BY <1>3
  <2>2. d \in ClockChips /\ d.status = c.status
    BY <1>2, <1>6, <1>7, <2>0 DEF ClockChips
  <2>3. /\ d.cs /\ d.last_sck = TRUE /\ d.state = "ReceivingCommand" /\ d.idx = 0 /\ d.out_count = 0
        /\ d.in_count = k + 1 /\ d.in_bits = byte
    BY <1>2, <1>3, <1>7 DEF ClockChips
  <2>4. 8 - (k + 1) = 7 - k
    OBVIOUS
  <2>5. Listening(d, op, k + 1, TRUE)
    BY <1>4, <2>3, <2>4 DEF Listening
  <2> HIDE DEF d
  <2>6. R!pin_update(c, 5 + 2 * R!Bit(op, 7 - k), t) = d
    BY <2>1 DEF b
  <2>7. k # 7
    BY <1>8
  <2> QED
    BY <2>2, <2>5, <2>6, <2>7 DEF Heard
<1>9. CASE k = 7
  <2>1. byte = op
    <3>1. 2^(7 - k) = 1 /\ op \div 1 = op
      BY <1>9, Powers
    <3> HIDE DEF byte
    <3> QED
      BY <1>4, <3>1
  <2>2. [u EXCEPT !.command = op] = [c EXCEPT !.last_sck = TRUE, !.command = op]
    BY DEF ClockChips
  <2> HIDE DEF u, byte
  <2>3. /\ R!pin_update(c, 5 + 2 * b, t) = R!ReceiveCommandBit(u, b, t)
        /\ R!ReceiveCommandBit(u, b, t) =
             [R!execute_command([u EXCEPT !.command = op], t) EXCEPT !.in_bits = 0, !.in_count = 0]
    BY <1>2, <1>3, <1>5, <1>9, <2>1
  <2>4. ~(k < 7)
    BY <1>9
  <2> QED
    BY <2>2, <2>3, <2>4 DEF b, Heard
<1> QED
  BY <1>8, <1>9

(* What the clock has to tell.                                             *)
LEMMA Dates ==
  ASSUME NEW t \in Int
  PROVE  /\ R!TimeBytes(t) \in Seq(Int) /\ Len(R!TimeBytes(t)) = 3
         /\ R!DateTimeBytes(t) \in Seq(Int) /\ Len(R!DateTimeBytes(t)) = 7
<1>1. ASSUME NEW n \in Int PROVE R!Bcd(n) \in Int
  BY DEF R!Bcd
<1>2. t \div 3600 \in Int /\ t \div 60 \in Int /\ t \div 86400 \in Int /\ t \in Int
  BY SMT
<1>3. (t \div 3600) % 24 \in Int /\ (t \div 60) % 60 \in Int /\ t % 60 \in Int /\ ((t \div 86400) + 4) % 7 \in Int
  BY SMT
<1>4. R!TimeBytes(t) = <<R!Bcd((t \div 3600) % 24), R!Bcd((t \div 60) % 60), R!Bcd(t % 60)>>
  BY DEF R!TimeBytes
<1>5. R!TimeBytes(t) \in Seq(Int) /\ Len(R!TimeBytes(t)) = 3
  BY <1>1, <1>3, <1>4, SMT
<1>6. ASSUME NEW d \in Int
      PROVE  /\ R!DaysToYmd(d)[1] \in Int /\ R!DaysToYmd(d)[2] \in Int
             /\ R!DaysToYmd(d)[3] \in Int
  BY SMT DEF R!DaysToYmd
<1> DEFINE day == t \div 86400
           ymd == R!DaysToYmd(day)
           date == <<R!Bcd(ymd[1] % 100), R!Bcd(ymd[2]), R!Bcd(ymd[3]), R!Bcd((day + 4) % 7)>>
<1>7. R!DateTimeBytes(t) = date \o R!TimeBytes(t)
  BY SMT DEF R!DateTimeBytes
<1>8. ymd[1] \in Int /\ ymd[2] \in Int /\ ymd[3] \in Int
  BY <1>2, <1>6, SMT
<1>9. date \in Seq(Int) /\ Len(date) = 4
  <2> HIDE DEF ymd
  <2>1. ymd[1] % 100 \in Int
    BY <1>8
  <2> HIDE DEF day
  <2>2. R!Bcd(ymd[1] % 100) \in Int /\ R!Bcd(ymd[2]) \in Int /\ R!Bcd(ymd[3]) \in Int
    BY <1>1, <1>8, <2>1
  <2>3. R!Bcd((day + 4) % 7) \in Int
    BY <1>1, <1>3, SMT DEF day
  <2> QED
    BY <2>2, <2>3
<1> HIDE DEF date
<1> DEFINE time == R!TimeBytes(t)
           all == R!DateTimeBytes(t)
<1> HIDE DEF time, all
<1>10. time \in Seq(Int) /\ Len(time) = 3 /\ all = date \o time
  BY <1>5, <1>7 DEF time, all
<1>11. date \o time \in Seq(Int) /\ Len(date \o time) = Len(date) + Len(time)
  BY <1>9, <1>10, ConcatProperties
<1>12. all \in Seq(Int) /\ Len(all) = 7
  BY <1>9, <1>10, <1>11
<1> QED
  BY <1>5, <1>12 DEF all

(* What a transaction leaves in the status register, and what it tells.    *)
After(x, all) ==
  CASE x.op = R!WRITE_STATUS -> {x.value} [] x.op = R!RESET -> {R!POWER_ON_STATUS} [] OTHER -> all
Truths(x, start, now, all) ==
  CASE x.op = R!READ_DATETIME -> {R!DateTimeBytes(t) : t \in start..now}
    [] x.op = R!READ_TIME -> {R!TimeBytes(t) : t \in start..now}
    [] OTHER -> {<<s>> : s \in all}

(* After n bits of the answer, m of which the library has.                 *)
Telling(x, c, n, sck, bits, m, start, now, all) ==
  \E bytes \in Truths(x, start, now, all) :
    /\ Sent(c, bytes, n, sck) /\ bits \in Seq({0, 1}) /\ Len(bits) = m
    /\ \A i \in 1..m : bits[i] = R!Wire(bytes)[i]

Sends(x) == 8 * Len(R!Payload(x))

(* Where the chip is when the library is at a place of its script.         *)
Opened(p, c, g, bits) ==
  /\ p \in 0..3 /\ bits = <<>> /\ (p > 0 => g.control = 1)
  /\ p = 3 => ~c.cs /\ c.last_sck
Commanded(p, x, c, g, bits) ==
  /\ g.control = 1 /\ bits = <<>>
  /\ \E k \in 0..7 :
       \/ p = 4 + 2 * k /\ Listening(c, x.op, k, TRUE)
       \/ p = 5 + 2 * k /\ Listening(c, x.op, k, FALSE)
Provided(p, x, c, g, bits) ==
  /\ g.control = 1 /\ bits = <<>>
  /\ \E n \in 0..(Sends(x) - 1) :
       \/ p = 20 + 2 * n /\ Taking(c, x.op, R!Payload(x), n, TRUE)
       \/ p = 21 + 2 * n /\ Taking(c, x.op, R!Payload(x), n, FALSE)
Executed(p, x, c, g, bits, start, now, all) ==
  /\ p = 20 + Sends(x) * 2 /\ g.control = 1 /\ bits = <<>> /\ c.status \in After(x, all)
  /\ R!AnswerBits(x.op) > 0 => Telling(x, c, 0, TRUE, bits, 0, start, now, all)
Told(p, x, c, g, bits, start, now, all) ==
  /\ g.control = 1 /\ g.direction = 5 /\ c.status \in After(x, all)
  /\ IF R!AnswerBits(x.op) = 0 THEN p = 21 + 2 * Sends(x) /\ bits = <<>>
     ELSE \E n \in 0..R!AnswerBits(x.op) :
            \/ p = (21 + 2 * Sends(x)) + 3 * n /\ Telling(x, c, n, TRUE, bits, n, start, now, all)
            \/ /\ n < R!AnswerBits(x.op) /\ p = (22 + 2 * Sends(x)) + 3 * n
               /\ Telling(x, c, n + 1, FALSE, bits, n, start, now, all)
            \/ /\ n < R!AnswerBits(x.op) /\ p = (23 + 2 * Sends(x)) + 3 * n
               /\ Telling(x, c, n + 1, TRUE, bits, n, start, now, all)
Ended(p, x, c, bits, start, now, all) ==
  /\ p = (22 + 2 * Sends(x)) + 3 * R!AnswerBits(x.op) /\ c.status \in After(x, all)
  /\ R!AnswerBits(x.op) > 0 => \E bytes \in Truths(x, start, now, all) : bits = R!Wire(bytes)

Stage(p, x, c, g, bits, start, now, all) ==
  \/ Opened(p, c, g, bits) \/ Commanded(p, x, c, g, bits) \/ Provided(p, x, c, g, bits)
  \/ Executed(p, x, c, g, bits, start, now, all) \/ Told(p, x, c, g, bits, start, now, all)
  \/ Ended(p, x, c, bits, start, now, all)

ClockState(c, g, lib, bits, start, now, all) ==
  /\ c \in ClockChips /\ g \in Pins /\ now \in Int /\ all \subseteq Int
  /\ \/ lib = R!NoTransaction /\ bits = <<>> /\ c.status \in all
     \/ /\ lib \in [place : Nat, run : Transactions] /\ start \in Int /\ start <= now
        /\ c.status \in all \cup After(lib.run, all)
        /\ Stage(lib.place, lib.run, c, g, bits, start, now, all)

ClockInv == ClockState(rtc, gpio, rtcLibrary, got, since, clock, allowed)

(* A command that takes data, and one that has an answer.                  *)
LEMMA BeginsToTake ==
  ASSUME NEW c \in ClockChips, c.cs, c.last_sck, NEW y \in Seq(Nat), Len(y) > 0
  PROVE  LET d == [R!Expect(c, Len(y)) EXCEPT !.in_bits = 0, !.in_count = 0]
         IN  d \in ClockChips /\ Taking(d, c.command, y, 0, TRUE) /\ d.status = c.status
<1> DEFINE l == Len(y)
           e == R!Expect(c, l)
           d == [e EXCEPT !.in_bits = 0, !.in_count = 0]
<1>1. l \in Nat /\ l > 0 /\ y[1] \in Nat
  <2>1. l \in Nat /\ l > 0
    BY LenProperties
  <2>2. 1 \in 1..Len(y)
    BY <2>1
  <2> QED
    BY <2>1, <2>2, ElementOfSeq
<1>2. "ReceivingData" \in ChipStates /\ 0 \in Nat /\ 0 \in Int
  BY DEF ChipStates
<1> HIDE DEF l
<1>3. /\ e \in ClockChips /\ e.cs /\ e.last_sck = TRUE /\ e.state = "ReceivingData" /\ e.len = l
      /\ e.idx = 0 /\ e.command = c.command /\ e.status = c.status
  BY <1>1, <1>2 DEF R!Expect, ClockChips
<1> HIDE DEF e
<1>4. /\ d \in ClockChips /\ d.cs /\ d.last_sck = TRUE /\ d.state = "ReceivingData" /\ d.len = l
      /\ d.idx = 0 /\ d.command = c.command /\ d.status = c.status /\ d.in_bits = 0 /\ d.in_count = 0
  <2>1. d \in ClockChips /\ d.in_bits = 0 /\ d.in_count = 0
    BY <1>2, <1>3, ZenonT(60) DEF ClockChips
  <2>2. /\ d.cs = e.cs /\ d.last_sck = e.last_sck /\ d.state = e.state /\ d.len = e.len
        /\ d.idx = e.idx /\ d.command = e.command /\ d.status = e.status
    BY <1>3 DEF ClockChips
  <2> HIDE DEF d
  <2> QED
    BY <1>3, <2>1, <2>2
<1> HIDE DEF d
<1>5. 0 \div 8 = 0 /\ 0 % 8 = 0 /\ y[0 + 1] % 2^0 = 0
  <2>1. \A n \in Nat : n % 1 = 0
    OBVIOUS
  <2> QED
    BY <1>1, <2>1, Powers
<1>6. Taking(d, c.command, y, 0, TRUE)
  BY <1>4, <1>5 DEF Taking, l
<1> QED
  BY <1>4, <1>6 DEF d, e, l

LEMMA BeginsToTell ==
  ASSUME NEW c \in ClockChips, c.cs, c.last_sck, NEW bytes \in Seq(Int), Len(bytes) > 0
  PROVE  LET d == [R!Answer(c, bytes) EXCEPT !.in_bits = 0, !.in_count = 0]
         IN  d \in ClockChips /\ Sent(d, bytes, 0, TRUE) /\ d.status = c.status
<1> DEFINE l == Len(bytes)
           e == R!Answer(c, bytes)
           d == [e EXCEPT !.in_bits = 0, !.in_count = 0]
<1>1. l \in Nat /\ l > 0
  BY LenProperties
<1>2. "SendingData" \in ChipStates /\ 0 \in Nat /\ 0 \in Int
  BY DEF ChipStates
<1>3. e = [c EXCEPT !.buf = bytes, !.len = l, !.idx = 0, !.out_count = 0, !.state = "SendingData"]
  BY DEF R!Answer
<1> HIDE DEF l, e
<1>4. /\ e \in ClockChips /\ e.cs /\ e.last_sck = TRUE /\ e.state = "SendingData" /\ e.len = l
      /\ e.idx = 0 /\ e.out_count = 0 /\ e.buf = bytes /\ e.status = c.status
  BY <1>1, <1>2, <1>3 DEF ClockChips
<1>5. /\ d \in ClockChips /\ d.cs /\ d.last_sck = TRUE /\ d.state = "SendingData" /\ d.len = l
      /\ d.idx = 0 /\ d.out_count = 0 /\ d.buf = bytes /\ d.status = c.status
  BY <1>2, <1>4 DEF ClockChips
<1> HIDE DEF d
<1>6. 0 \div 8 = 0 /\ 0 % 8 = 0 /\ l # 0
  BY <1>1
<1>7. Sent(d, bytes, 0, TRUE)
  BY <1>5, <1>6 DEF Sent, l
<1> QED
  BY <1>5, <1>7 DEF d, e

(* The payload and the answer of a transaction have their lengths.         *)
LEMMA Lengths ==
  ASSUME NEW x \in R!Transaction
  PROVE  /\ x.op \in {R!RESET, R!READ_STATUS, R!READ_DATETIME, R!READ_TIME, R!WRITE_TIME, R!WRITE_STATUS}
         /\ x.op \in 0..255
         /\ R!Payload(x) \in Seq(Nat) /\ \A i \in 1..Len(R!Payload(x)) : R!Payload(x)[i] < 256
         /\ Len(R!Payload(x)) \in Nat /\ Sends(x) \in Nat
         /\ R!AnswerBits(x.op) \in Nat
         /\ x.op = R!RESET => Len(R!Payload(x)) = 0 /\ R!AnswerBits(x.op) = 0
         /\ x.op = R!READ_STATUS => Len(R!Payload(x)) = 0 /\ R!AnswerBits(x.op) = 8
         /\ x.op = R!READ_DATETIME => Len(R!Payload(x)) = 0 /\ R!AnswerBits(x.op) = 56
         /\ x.op = R!READ_TIME => Len(R!Payload(x)) = 0 /\ R!AnswerBits(x.op) = 24
         /\ x.op = R!WRITE_TIME => Len(R!Payload(x)) = 3 /\ R!AnswerBits(x.op) = 0
         /\ x.op = R!WRITE_STATUS =>
              /\ Len(R!Payload(x)) = 1 /\ R!Payload(x)[1] = x.value /\ x.value \in Nat /\ x.value < 256
              /\ R!AnswerBits(x.op) = 0
<1> DEFINE q == x.op
           y == R!Payload(x)
<1> USE DEF R!RESET, R!READ_STATUS, R!READ_DATETIME, R!READ_TIME, R!WRITE_TIME, R!WRITE_STATUS
<1>1. q \in {96, 99, 101, 103, 102, 98} /\ (q = 98 => x.value \in Nat /\ x.value < 256)
  BY DEF R!Transaction
<1>2. /\ q = 98 => y = <<x.value>>
      /\ q = 102 => y = <<0, 0, 0>>
      /\ q \in {96, 99, 101, 103} => y = << >>
  BY DEF R!Payload
<1>3. /\ q = 99 => R!AnswerBits(q) = 8
      /\ q = 101 => R!AnswerBits(q) = 56
      /\ q = 103 => R!AnswerBits(q) = 24
      /\ q \in {96, 102, 98} => R!AnswerBits(q) = 0
  BY DEF R!AnswerBits
<1> HIDE DEF q, y
<1>4. /\ q = 98 => y \in Seq(Nat) /\ Len(y) = 1 /\ y[1] = x.value
      /\ q = 102 => y \in Seq(Nat) /\ Len(y) = 3 /\ y[1] = 0 /\ y[2] = 0 /\ y[3] = 0
      /\ q \in {96, 99, 101, 103} => y \in Seq(Nat) /\ Len(y) = 0
  <2>1. ASSUME NEW a \in Nat, y = <<a>>
        PROVE  y \in Seq(Nat) /\ Len(y) = 1 /\ y[1] = a
    BY <2>1
  <2>2. ASSUME y = <<0, 0, 0>>
        PROVE  y \in Seq(Nat) /\ Len(y) = 3 /\ y[1] = 0 /\ y[2] = 0 /\ y[3] = 0
    BY <2>2
  <2>3. ASSUME y = << >> PROVE y \in Seq(Nat) /\ Len(y) = 0
    BY <2>3
  <2>4. ASSUME q = 98 PROVE y \in Seq(Nat) /\ Len(y) = 1 /\ y[1] = x.value
    <3>1. x.value \in Nat /\ y = <<x.value>>
      BY <1>1, <1>2, <2>4
    <3> QED
      BY <2>1, <3>1
  <2>5. ASSUME q = 102
        PROVE  y \in Seq(Nat) /\ Len(y) = 3 /\ y[1] = 0 /\ y[2] = 0 /\ y[3] = 0
    <3>1. y = <<0, 0, 0>>
      BY <1>2, <2>5
    <3> QED
      BY <2>2, <3>1
  <2>6. ASSUME q \in {96, 99, 101, 103} PROVE y \in Seq(Nat) /\ Len(y) = 0
    <3>1. y = << >>
      BY <1>2, <2>6
    <3> QED
      BY <2>3, <3>1
  <2> QED
    BY <2>4, <2>5, <2>6
<1>5. y \in Seq(Nat) /\ Len(y) \in Nat /\ \A i \in 1..Len(y) : y[i] < 256
  BY <1>1, <1>4
<1>6. Sends(x) \in Nat
  BY <1>5 DEF Sends, y
<1>7. R!AnswerBits(q) \in Nat /\ q \in 0..255
  BY <1>1, <1>3
<1> QED
  BY <1>1, <1>3, <1>4, <1>5, <1>6, <1>7 DEF q, y

(* A command that is whole: reset, a write or a read.                      *)
LEMMA Executes ==
  ASSUME NEW c \in ClockChips, c.cs, c.last_sck, NEW x \in R!Transaction, c.command = x.op,
         NEW t \in Int, NEW all, c.status \in all \cup After(x, all)
  PROVE  LET d == [R!execute_command(c, t) EXCEPT !.in_bits = 0, !.in_count = 0]
         IN  /\ d \in ClockChips /\ d.status \in all \cup After(x, all)
             /\ Sends(x) > 0 => Taking(d, x.op, R!Payload(x), 0, TRUE)
             /\ Sends(x) = 0 => d.status \in After(x, all)
             /\ R!AnswerBits(x.op) > 0 =>
                  /\ Sends(x) = 0
                  /\ \E bytes \in Truths(x, t, t, all) : Sent(d, bytes, 0, TRUE)
<1> DEFINE q == x.op
           y == R!Payload(x)
           e == R!execute_command(c, t)
           d == [e EXCEPT !.in_bits = 0, !.in_count = 0]
<1> USE DEF R!RESET, R!READ_STATUS, R!READ_DATETIME, R!READ_TIME, R!WRITE_TIME, R!WRITE_STATUS,
            R!WRITE_DATETIME
<1>1. q \in {96, 99, 101, 103, 102, 98} /\ y \in Seq(Nat)
  BY Lengths
<1>2. CASE q = 96
  <2>1. e = [c EXCEPT !.status = R!POWER_ON_STATUS, !.state = "Idle"]
    BY <1>2 DEF R!execute_command
  <2>2. R!POWER_ON_STATUS \in Int /\ "Idle" \in ChipStates /\ 0 \in Int
    BY DEF R!POWER_ON_STATUS, ChipStates
  <2> HIDE DEF e
  <2>3. e \in ClockChips /\ e.status = R!POWER_ON_STATUS
    BY <2>1, <2>2 DEF ClockChips
  <2>4. d \in ClockChips /\ d.status = R!POWER_ON_STATUS
    BY <2>2, <2>3 DEF ClockChips
  <2> HIDE DEF d
  <2>5. After(x, all) = {R!POWER_ON_STATUS}
    BY <1>2 DEF After
  <2>6. Sends(x) = 0 /\ R!AnswerBits(x.op) = 0
    BY <1>2, Lengths DEF Sends
  <2> QED
    BY <2>4, <2>5, <2>6 DEF d, e
<1>3. CASE q \in {98, 102}
  <2>1. Len(y) > 0 /\ e = R!Expect(c, Len(y)) /\ R!AnswerBits(q) = 0 /\ Sends(x) > 0
    <3>1. CASE q = 98
      <4>1. Len(y) = 1 /\ R!AnswerBits(q) = 0 /\ Sends(x) = 8
        <5>1. Len(y) = 1 /\ R!AnswerBits(q) = 0
          BY <3>1, Lengths
        <5> QED
          BY <5>1 DEF Sends
      <4>2. e = R!Expect(c, 1)
        BY <3>1 DEF R!execute_command
      <4> QED
        BY <4>1, <4>2
    <3>2. CASE q = 102
      <4>1. Len(y) = 3 /\ R!AnswerBits(q) = 0 /\ Sends(x) = 24
        <5>1. Len(y) = 3 /\ R!AnswerBits(q) = 0
          BY <3>2, Lengths
        <5> QED
          BY <5>1 DEF Sends
      <4>2. e = R!Expect(c, 3)
        BY <3>2 DEF R!execute_command
      <4> QED
        BY <4>1, <4>2
    <3> QED
      BY <1>3, <3>1, <3>2
  <2> HIDE DEF e, y, q
  <2>4. LET f == [R!Expect(c, Len(y)) EXCEPT !.in_bits = 0, !.in_count = 0]
        IN  f \in ClockChips /\ Taking(f, c.command, y, 0, TRUE) /\ f.status = c.status
    BY <1>1, <2>1, BeginsToTake, ZenonT(60)
  <2>2. d \in ClockChips /\ Taking(d, q, y, 0, TRUE) /\ d.status = c.status
    BY <2>1, <2>4 DEF q
  <2> HIDE DEF d
  <2>3. ~(Sends(x) = 0) /\ ~(R!AnswerBits(q) > 0)
    BY <2>1
  <2> QED
    BY <2>2, <2>3 DEF d, e, y, q
<1>4. ASSUME q \in {99, 101, 103}, NEW bytes \in Truths(x, t, t, all),
             bytes \in Seq(Int), Len(bytes) > 0, e = R!Answer(c, bytes), After(x, all) = all
      PROVE  /\ d \in ClockChips /\ d.status \in After(x, all) /\ Sends(x) = 0
             /\ Sent(d, bytes, 0, TRUE)
  <2>3. LET f == [R!Answer(c, bytes) EXCEPT !.in_bits = 0, !.in_count = 0]
        IN  f \in ClockChips /\ Sent(f, bytes, 0, TRUE) /\ f.status = c.status
    BY <1>4, BeginsToTell, ZenonT(60)
  <2> HIDE DEF e
  <2>1. d \in ClockChips /\ Sent(d, bytes, 0, TRUE) /\ d.status = c.status
    BY <1>4, <2>3
  <2>2. Sends(x) = 0
    BY <1>4, Lengths DEF Sends
  <2> QED
    BY <1>4, <2>1, <2>2
<1>5. t \in t..t
  OBVIOUS
<1>6. ASSUME q \in {99, 101, 103} PROVE After(x, all) = all
  BY <1>6 DEF After
<1>7. ASSUME q \in {99, 101, 103}
      PROVE  \E bytes \in Truths(x, t, t, all) :
               bytes \in Seq(Int) /\ Len(bytes) > 0 /\ e = R!Answer(c, bytes)
  <2>1. CASE q = 101
    <3>1. Truths(x, t, t, all) = {R!DateTimeBytes(r) : r \in t..t}
      BY <2>1 DEF Truths
    <3>2. e = R!Answer(c, R!DateTimeBytes(t))
      BY <2>1 DEF R!execute_command
    <3>3. R!DateTimeBytes(t) \in Seq(Int) /\ Len(R!DateTimeBytes(t)) > 0
      <4>1. R!DateTimeBytes(t) \in Seq(Int) /\ Len(R!DateTimeBytes(t)) = 7
        BY Dates
      <4> QED
        BY <4>1
    <3> QED
      BY <1>5, <3>1, <3>2, <3>3
  <2>2. CASE q = 103
    <3>1. Truths(x, t, t, all) = {R!TimeBytes(r) : r \in t..t}
      BY <2>2 DEF Truths
    <3>2. e = R!Answer(c, R!TimeBytes(t))
      BY <2>2 DEF R!execute_command
    <3>3. R!TimeBytes(t) \in Seq(Int) /\ Len(R!TimeBytes(t)) > 0
      <4>1. R!TimeBytes(t) \in Seq(Int) /\ Len(R!TimeBytes(t)) = 3
        BY Dates
      <4> QED
        BY <4>1
    <3> QED
      BY <1>5, <3>1, <3>2, <3>3
  <2>3. CASE q = 99
    <3>1. Truths(x, t, t, all) = {<<s>> : s \in all}
      BY <2>3 DEF Truths
    <3>2. e = R!Answer(c, <<c.status>>)
      BY <2>3 DEF R!execute_command
    <3>3. c.status \in Int /\ c.status \in all
      BY <1>6, <2>3 DEF ClockChips
    <3>4. <<c.status>> \in Seq(Int) /\ Len(<<c.status>>) > 0
      BY <3>3
    <3> QED
      BY <3>1, <3>2, <3>3, <3>4
  <2> QED
    BY <1>7, <2>1, <2>2, <2>3
<1>8. CASE q \in {99, 101, 103}
  <2>1. PICK bytes \in Truths(x, t, t, all) :
          bytes \in Seq(Int) /\ Len(bytes) > 0 /\ e = R!Answer(c, bytes)
    BY <1>7, <1>8
  <2> HIDE DEF e, d
  <2>2. /\ d \in ClockChips /\ d.status \in After(x, all) /\ Sends(x) = 0
        /\ Sent(d, bytes, 0, TRUE)
    BY <1>4, <1>6, <1>8, <2>1
  <2>3. ~(Sends(x) > 0)
    BY <2>2
  <2> QED
    BY <2>2, <2>3 DEF d, e
<1> QED
  BY <1>1, <1>2, <1>3, <1>8, Zenon

(* Data come bit by bit.                                                   *)
LEMMA WaitsForData ==
  ASSUME NEW c \in ClockChips, NEW t, NEW b \in {0, 1}, NEW op, NEW y, NEW n,
         Taking(c, op, y, n, TRUE)
  PROVE  LET d == R!pin_update(c, 4 + 2 * b, t)
         IN  d \in ClockChips /\ Taking(d, op, y, n, FALSE) /\ d.status = c.status
<1>1. c.cs /\ c.state # "SendingData"
  BY DEF Taking
<1> DEFINE d == [c EXCEPT !.last_sck = FALSE]
<1>2. R!pin_update(c, 4 + 2 * b, t) = d
  BY <1>1, GoesDown
<1>3. d \in ClockChips
  BY DEF ClockChips
<1>4. /\ d.last_sck = FALSE /\ d.cs = c.cs /\ d.state = c.state /\ d.in_count = c.in_count
      /\ d.in_bits = c.in_bits /\ d.idx = c.idx /\ d.len = c.len /\ d.buf = c.buf
      /\ d.command = c.command /\ d.status = c.status
  BY DEF ClockChips
<1> HIDE DEF d
<1> QED
  BY <1>2, <1>3, <1>4 DEF Taking

LEMMA TakesData ==
  ASSUME NEW c \in ClockChips, NEW t, NEW y \in Seq(Int), NEW op,
         \A i \in 1..Len(y) : y[i] \in Nat /\ y[i] < 256,
         op = R!WRITE_STATUS => Len(y) = 1,
         NEW n \in 0..(8 * Len(y) - 1), Taking(c, op, y, n, FALSE)
  PROVE  LET d == R!pin_update(c, 5 + 2 * R!Wire(y)[n + 1], t)
         IN  /\ d \in ClockChips
             /\ n + 1 < 8 * Len(y) => Taking(d, op, y, n + 1, TRUE) /\ d.status = c.status
             /\ n + 1 = 8 * Len(y) => d.status = IF op = R!WRITE_STATUS THEN y[1] ELSE c.status
<1> DEFINE l == Len(y)
           q == n \div 8
           j == n % 8
           v == y[q + 1]
           b == R!Wire(y)[n + 1]
           u == [c EXCEPT !.last_sck = TRUE]
           byte == u.in_bits + b * 2^u.in_count
           d == R!pin_update(c, 5 + 2 * b, t)
<1>1. l \in Nat /\ n \in Nat /\ 8 \in Nat \ {0}
  BY LenProperties
<1>2. n \in 0..(8 * l - 1)
  OBVIOUS
<1> HIDE DEF l
<1>3. q \in Nat /\ j \in 0..7 /\ n = 8 * q + j
  BY <1>1, SMT
<1>4. /\ j < 7 => (n + 1) \div 8 = q /\ (n + 1) % 8 = j + 1
      /\ j = 7 => (n + 1) \div 8 = q + 1 /\ (n + 1) % 8 = 0
  BY <1>1, SMT
<1>5. b = R!Bit(v, j)
  BY <1>2, WireType DEF l
<1> HIDE DEF q, j, b
<1>6. q + 1 \in 1..l
  BY <1>1, <1>2, <1>3
<1>7. v \in Nat /\ v < 256
  BY <1>6 DEF l
<1> HIDE DEF v
<1>8. b \in {0, 1}
  BY <1>3, <1>5, <1>7, BitType
<1>9. /\ c.cs /\ ~c.last_sck /\ c.state = "ReceivingData" /\ c.command = op /\ c.len = l
      /\ c.idx = q /\ c.in_count = j /\ c.in_bits = v % 2^j /\ (q > 0 => Len(c.buf) = q)
  BY DEF Taking, l, q, j, v
<1>10. u \in ClockChips /\ d = R!ReceiveBit(u, b)
  <2>1. c \in ClockChips /\ c.cs /\ ~c.last_sck /\ c.state = "ReceivingData"
    BY <1>9
  <2>2. d = R!pin_update(c, 5 + 2 * b, t)
    BY DEF b
  <2> HIDE DEF d
  <2> QED
    BY ONLY <1>8, <2>1, <2>2, GoesUp DEF u
<1>11. /\ u.cs /\ u.last_sck = TRUE /\ u.state = "ReceivingData" /\ u.command = op /\ u.len = l
       /\ u.idx = q /\ u.in_count = j /\ u.in_bits = v % 2^j /\ u.buf = c.buf
       /\ u.status = c.status /\ u.buf \in Seq(Int)
  BY <1>9 DEF ClockChips
<1> HIDE DEF u, d
<1>12. byte = v % 2^(j + 1)
  <2>1. byte = (v % 2^j) + R!Bit(v, j) * 2^j
    BY <1>5, <1>11
  <2>2. v \in Int /\ j \in 0..7
    BY <1>3, <1>7
  <2> HIDE DEF byte
  <2> QED
    BY <2>1, <2>2, DataBit
<1>13. byte \in Int
  <2>1. u.in_bits \in Int /\ 2^u.in_count \in Int
    <3>1. u.in_count \in Nat /\ 2 \in Nat
      BY <1>3, <1>11
    <3>2. 2^u.in_count \in Int
      BY <3>1, <1>3, <1>11, Powers
    <3> QED
      BY <1>10, <3>2 DEF ClockChips
  <2> QED
    BY <1>8, <2>1, SMTT(40)
<1> HIDE DEF byte
<1>14. CASE j < 7
  <2> DEFINE f == [u EXCEPT !.in_bits = byte, !.in_count = j + 1]
  <2>1. d = f
    BY <1>10, <1>11, <1>14 DEF R!ReceiveBit, byte
  <2>2. f \in ClockChips
    <3>1. j + 1 \in Int
      BY <1>3
    <3> QED
      BY <1>10, <1>13, <3>1, ZenonT(60) DEF ClockChips
  <2>3. f.in_bits = byte /\ f.in_count = j + 1
    BY <1>10 DEF ClockChips
  <2>4. /\ f.cs = u.cs /\ f.last_sck = u.last_sck /\ f.state = u.state /\ f.command = u.command
        /\ f.len = u.len /\ f.idx = u.idx /\ f.buf = u.buf /\ f.status = u.status
    BY <1>10 DEF ClockChips
  <2> HIDE DEF f
  <2>5. Taking(f, op, y, n + 1, TRUE)
    BY <1>4, <1>9, <1>11, <1>12, <1>14, <2>3, <2>4, ZenonT(60) DEF Taking, l, v
  <2>6. n + 1 # 8 * l
    BY <1>1, <1>3, <1>6, <1>14
  <2> QED
    BY <1>11, <2>1, <2>2, <2>4, <2>5, <2>6 DEF d, b, l
<1>15. CASE j = 7
  <2>1. byte = v
    <3>1. 2^(j + 1) = 256
      BY <1>15, Powers
    <3>2. v % 256 = v
      BY <1>7
    <3> QED
      BY <1>12, <3>1, <3>2
  <2> DEFINE start == SubSeq(u.buf, 1, q)
             w == Append(start, byte)
             f == [u EXCEPT !.buf = w, !.idx = q + 1, !.in_bits = 0, !.in_count = 0]
  <2>2. start \in Seq(Int) /\ Len(start) = q
    <3>1. \A i \in 1..q : u.buf[i] \in Int
      <4>1. CASE q = 0
        BY <4>1
      <4>2. CASE q > 0
        <5>1. \A i \in 1..Len(u.buf) : u.buf[i] \in Int
          BY <1>11, ElementOfSeq
        <5> QED
          BY <1>9, <1>11, <4>2, <5>1
      <4> QED
        BY <1>3, <4>1, <4>2
    <3>2. /\ start \in Seq(Int) /\ Len(start) = IF 1 <= q THEN q - 1 + 1 ELSE 0
      BY <1>3, <3>1, SubSeqProperties
    <3> HIDE DEF start
    <3> QED
      BY <1>3, <3>2
  <2> HIDE DEF start
  <2>3. w \in Seq(Int) /\ Len(w) = q + 1 /\ w[q + 1] = byte
    BY <1>13, <2>2, AppendProperties, SMTT(40)
  <2> HIDE DEF w
  <2>4. f \in ClockChips
    <3>1. q + 1 \in Nat /\ 0 \in Int
      BY <1>3
    <3> QED
      BY <1>10, <2>3, <3>1, ZenonT(60) DEF ClockChips
  <2>5. f.buf = w /\ f.idx = q + 1 /\ f.in_bits = 0 /\ f.in_count = 0
    BY <1>10 DEF ClockChips
  <2>6. /\ f.cs = u.cs /\ f.last_sck = u.last_sck /\ f.state = u.state /\ f.command = u.command
        /\ f.len = u.len /\ f.status = u.status
    BY <1>10 DEF ClockChips
  <2>7. d = IF f.idx >= f.len THEN R!finish_write(f) ELSE f
    <3>1. f = [u EXCEPT !.buf = Append(SubSeq(@, 1, u.idx), u.in_bits + b * 2^u.in_count), !.idx = @ + 1,
                        !.in_bits = 0, !.in_count = 0]
      BY <1>11 DEF w, start, byte
    <3>2. ~(u.in_count < 7)
      BY <1>11, <1>15
    <3> HIDE DEF f
    <3> QED
      BY <1>10, <3>1, <3>2 DEF R!ReceiveBit
  <2> HIDE DEF f
  <2>8. CASE q + 1 < l
    <3>1. d = f
      BY <1>1, <1>3, <1>11, <2>5, <2>6, <2>7, <2>8
    <3>2. y[(q + 1) + 1] % 2^0 = 0
      <4>1. q + 1 + 1 \in 1..Len(y)
        BY <1>1, <1>3, <2>8 DEF l
      <4>2. y[q + 1 + 1] \in Nat
        BY <4>1
      <4>3. \A k \in Nat : k % 1 = 0
        OBVIOUS
      <4> QED
        BY <4>2, <4>3, Powers
    <3>3. Taking(f, op, y, n + 1, TRUE)
      BY <1>4, <1>11, <1>15, <2>3, <2>5, <2>6, <3>2, Zenon DEF Taking, l
    <3>4. n + 1 # 8 * l
      BY <1>1, <1>3, <1>15, <2>8
    <3> QED
      BY <1>11, <2>4, <2>6, <3>1, <3>3, <3>4 DEF d, b, l
  <2>9. CASE q + 1 = l
    <3>1. d = R!finish_write(f)
      BY <1>1, <1>11, <2>5, <2>6, <2>7, <2>9
    <3> DEFINE s == IF op = R!WRITE_STATUS THEN y[1] ELSE c.status
    <3>2. (IF f.command = R!WRITE_STATUS THEN f.buf[1] ELSE f.status) = s
      <4>1. CASE op = R!WRITE_STATUS
        <5>1. l = 1
          BY <4>1 DEF l
        <5>2. q = 0
          BY <1>3, <2>9, <5>1
        <5>3. f.buf[1] = y[1]
          BY <2>1, <2>3, <2>5, <5>2 DEF v
        <5> QED
          BY <1>11, <2>6, <4>1, <5>3
      <4>2. CASE op # R!WRITE_STATUS
        BY <1>11, <2>6, <4>2
      <4> QED
        BY <4>1, <4>2
    <3>3. s \in Int
      <4>1. 1 \in 1..Len(y)
        BY <1>1, <1>3, <2>9 DEF l
      <4> QED
        BY <4>1 DEF ClockChips
    <3> HIDE DEF s
    <3>4. d = [f EXCEPT !.status = s, !.state = "Idle"]
      BY <3>1, <3>2 DEF R!finish_write
    <3>5. d \in ClockChips /\ d.status = s
      <4>1. "Idle" \in ChipStates
        BY DEF ChipStates
      <4> QED
        BY <2>4, <3>3, <3>4, <4>1, ZenonT(30) DEF ClockChips
    <3>6. ~(n + 1 < 8 * l)
      BY <1>1, <1>3, <1>15, <2>9
    <3> QED
      BY <3>5, <3>6 DEF d, b, l, s
  <2>10. q + 1 < l \/ q + 1 = l
    BY <1>1, <1>3, <1>6
  <2> QED
    BY <2>8, <2>9, <2>10
<1>16. j < 7 \/ j = 7
  BY <1>3
<1> QED
  BY <1>14, <1>15, <1>16

(* An answer goes bit by bit.                                              *)
LEMMA TellsBit ==
  ASSUME NEW c \in ClockChips, NEW t, NEW bytes \in Seq(Int), NEW n \in 0..(8 * Len(bytes) - 1),
         Sent(c, bytes, n, TRUE)
  PROVE  LET d == R!pin_update(c, 4, t)
         IN  d \in ClockChips /\ Sent(d, bytes, n + 1, FALSE) /\ d.status = c.status
<1> DEFINE l == Len(bytes)
           q == n \div 8
           j == n % 8
           v == bytes[q + 1]
           b == R!Wire(bytes)[n + 1]
           u == [c EXCEPT !.last_sck = FALSE]
           d == R!pin_update(c, 4, t)
<1>1. l \in Nat /\ n \in Nat /\ n \in 0..(8 * l - 1)
  BY LenProperties
<1> HIDE DEF l
<1>2. q \in Nat /\ j \in 0..7 /\ n = 8 * q + j
  BY <1>1, SMT
<1>3. /\ j < 7 => (n + 1) \div 8 = q /\ (n + 1) % 8 = j + 1
      /\ j = 7 => (n + 1) \div 8 = q + 1 /\ (n + 1) % 8 = 0
  BY <1>1, SMT
<1>4. b = R!Bit(v, j)
  BY <1>1, WireType DEF l
<1> HIDE DEF b
<1>5. /\ c.cs /\ c.last_sck /\ c.buf = bytes /\ c.len = l
      /\ j = 0 => c.idx = q /\ c.out_count = 0 /\ c.state = IF q = l THEN "Idle" ELSE "SendingData"
      /\ j > 0 => /\ c.idx = q + 1 /\ c.out_count = 8 - j /\ c.out_bits = v \div 2^j
                  /\ c.state = "SendingData"
  BY DEF Sent, l, q, j, v
<1> HIDE DEF q, j
<1>6. q + 1 \in 1..l
  BY <1>1, <1>2
<1>7. v \in Int
  BY <1>6, ElementOfSeq DEF l
<1> HIDE DEF v
<1>8. b \in {0, 1}
  BY <1>2, <1>4, <1>7, BitType
<1>9. c.state = "SendingData"
  <2>1. q # l
    BY <1>1, <1>2, <1>6
  <2>2. j = 0 \/ j > 0
    BY <1>2
  <2> QED
    BY <1>5, <2>1, <2>2
<1>10. u \in ClockChips /\ d = R!SendBit(u)
  BY <1>5, <1>9, Tells
<1>11. /\ u.last_sck = FALSE /\ u.cs = c.cs /\ u.buf = c.buf /\ u.len = c.len /\ u.idx = c.idx
       /\ u.out_count = c.out_count /\ u.out_bits = c.out_bits /\ u.state = c.state
       /\ u.status = c.status
  BY DEF ClockChips
<1> HIDE DEF u, d
<1> DEFINE w == IF u.out_count > 0 THEN u
                ELSE [u EXCEPT !.out_bits = u.buf[u.idx + 1], !.idx = @ + 1, !.out_count = 8]
           z == IF w.out_count = 1 /\ w.idx >= w.len THEN "Idle" ELSE w.state
           f == [w EXCEPT !.sio_out = w.out_bits % 2, !.out_bits = w.out_bits \div 2,
                          !.out_count = w.out_count - 1, !.state = z]
<1>12. /\ w \in ClockChips /\ w.idx = q + 1 /\ w.out_count = 8 - j /\ w.out_bits = v \div 2^j
       /\ w.cs = c.cs /\ w.last_sck = FALSE /\ w.buf = bytes /\ w.len = l
       /\ w.state = "SendingData" /\ w.status = c.status
  <2>1. CASE j = 0
    <3>1. w = [u EXCEPT !.out_bits = v, !.idx = q + 1, !.out_count = 8]
      <4>1. ~(u.out_count > 0) /\ u.buf[u.idx + 1] = v /\ u.idx = q
        BY <1>5, <1>11, <2>1 DEF v
      <4> QED
        BY <4>1
    <3>2. v \div 2^j = v
      <4>1. 2^j = 1 /\ \A k \in Int : k \div 1 = k
        BY <2>1, Powers
      <4> QED
        BY <1>7, <4>1
    <3>3. q + 1 \in Nat /\ 8 \in Int /\ 8 - j = 8
      BY <1>2, <2>1
    <3> HIDE DEF w
    <3>4. w \in ClockChips /\ w.idx = q + 1 /\ w.out_count = 8 /\ w.out_bits = v
      BY <1>7, <1>10, <3>1, <3>3 DEF ClockChips
    <3>5. /\ w.cs = u.cs /\ w.last_sck = u.last_sck /\ w.buf = u.buf /\ w.len = u.len
          /\ w.state = u.state /\ w.status = u.status
      BY <1>10, <3>1 DEF ClockChips
    <3> QED
      BY <1>5, <1>9, <1>11, <3>2, <3>3, <3>4, <3>5
  <2>2. CASE j > 0
    <3>1. w = u
      BY <1>2, <1>5, <1>11, <2>2, SMTT(30)
    <3> HIDE DEF w
    <3> QED
      BY <1>5, <1>9, <1>10, <1>11, <2>2, <3>1
  <2>3. j = 0 \/ j > 0
    BY <1>2
  <2> QED
    BY <2>1, <2>2, <2>3
<1>13. d = f
  <2>1. ~(u.out_count = 0 /\ u.idx >= u.len)
    BY <1>1, <1>2, <1>5, <1>6, <1>11
  <2>2. R!SendBit(u) = [w EXCEPT !.sio_out = w.out_bits % 2, !.out_bits = @ \div 2,
                                 !.out_count = @ - 1, !.state = IF w.out_count = 1 /\ w.idx >= w.len THEN "Idle" ELSE @]
    BY <2>1 DEF R!SendBit
  <2> HIDE DEF w
  <2>3. R!SendBit(u) = f
    BY <1>12, <2>2 DEF ClockChips
  <2> QED
    BY <1>10, <2>3
<1> HIDE DEF w
<1>14. /\ (v \div 2^j) % 2 = b /\ (v \div 2^j) \div 2 = v \div 2^(j + 1)
  BY <1>2, <1>4, <1>7, DataBit
<1>15. z = IF j = 7 /\ q + 1 = l THEN "Idle" ELSE "SendingData"
  BY <1>1, <1>2, <1>6, <1>12
<1> HIDE DEF z
<1>16. (8 - j) - 1 \in Int /\ v \div 2^(j + 1) \in Int /\ z \in ChipStates
  <2>1. v \div 2^j \in Int
    BY <1>12 DEF ClockChips
  <2>2. (v \div 2^j) \div 2 \in Int
    BY <2>1
  <2> QED
    BY <1>2, <1>14, <1>15, <2>2 DEF ChipStates
<1>17. f = [w EXCEPT !.sio_out = b, !.out_bits = v \div 2^(j + 1), !.out_count = (8 - j) - 1, !.state = z]
  BY <1>12, <1>14
<1> HIDE DEF f
<1>18. /\ f \in ClockChips /\ f.sio_out = b /\ f.out_bits = v \div 2^(j + 1)
       /\ f.out_count = (8 - j) - 1 /\ f.state = z
  BY <1>8, <1>12, <1>16, <1>17 DEF ClockChips
<1>19. /\ f.cs = c.cs /\ f.last_sck = FALSE /\ f.buf = bytes /\ f.len = l /\ f.idx = q + 1
       /\ f.status = c.status
  BY <1>12, <1>17 DEF ClockChips
<1>20. n + 1 > 0 /\ (j < 7 \/ j = 7)
  BY <1>1, <1>2
<1>21. CASE j < 7
  <2>1. (8 - j) - 1 = 8 - (j + 1) /\ j + 1 > 0
    BY <1>2
  <2>2. z = "SendingData" /\ j + 1 # 0
    BY <1>2, <1>15, <1>21
  <2>3. Sent(f, bytes, n + 1, FALSE)
    BY <1>3, <1>5, <1>18, <1>19, <1>21, <2>1, <2>2 DEF Sent, b, v
  <2> QED
    BY <1>13, <1>18, <1>19, <2>3 DEF d
<1>22. CASE j = 7
  <2>1. (8 - j) - 1 = 0
    BY <1>22
  <2>2. z = IF q + 1 = l THEN "Idle" ELSE "SendingData"
    BY <1>15, <1>22
  <2>3. Sent(f, bytes, n + 1, FALSE)
    BY <1>3, <1>5, <1>18, <1>19, <1>22, <2>1, <2>2 DEF Sent, b, l
  <2> QED
    BY <1>13, <1>18, <1>19, <2>3 DEF d
<1> QED
  BY <1>20, <1>21, <1>22

LEMMA RestsBit ==
  ASSUME NEW c \in ClockChips, NEW t, NEW bytes, NEW n \in Nat, Sent(c, bytes, n, FALSE)
  PROVE  LET d == R!pin_update(c, 5, t)
         IN  d \in ClockChips /\ Sent(d, bytes, n, TRUE) /\ d.status = c.status
<1> DEFINE d == [c EXCEPT !.last_sck = TRUE]
<1>1. n % 8 = 0 \/ n % 8 > 0
  OBVIOUS
<1>2. c.state \in {"Idle", "SendingData"} /\ c.cs /\ ~c.last_sck
  BY <1>1 DEF Sent
<1>3. R!pin_update(c, 5 + 2 * 0, t) = d /\ d \in ClockChips
  BY <1>2, GoesUp
<1>4. 5 + 2 * 0 = 5
  OBVIOUS
<1>5. /\ d.last_sck = TRUE /\ d.cs = c.cs /\ d.buf = c.buf /\ d.len = c.len /\ d.idx = c.idx
      /\ d.out_count = c.out_count /\ d.out_bits = c.out_bits /\ d.state = c.state
      /\ d.status = c.status /\ d.sio_out = c.sio_out
  BY DEF ClockChips
<1> HIDE DEF d
<1>6. Sent(d, bytes, n, TRUE)
  BY <1>2, <1>5 DEF Sent
<1> QED
  BY <1>3, <1>4, <1>5, <1>6

(* The script of a transaction, move by move.                              *)
Moves == (Int \X Int) \cup {<< >>}

IsJoined(s, a, b, m, n) ==
  /\ s \in Seq(Moves) /\ Len(s) = m + n
  /\ \A i \in 1..m : s[i] = a[i]
  /\ \A i \in 1..n : s[m + i] = b[i]

LEMMA Joined ==
  ASSUME NEW a \in Seq(Moves), NEW b \in Seq(Moves), NEW m \in Nat, NEW n \in Nat,
         Len(a) = m, Len(b) = n
  PROVE  IsJoined(a \o b, a, b, m, n)
<1> DEFINE s == a \o b
<1>1. /\ s \in Seq(Moves) /\ Len(s) = m + n
      /\ \A i \in 1..(m + n) : s[i] = IF i <= m THEN a[i] ELSE b[i - m]
  BY ConcatProperties, ZenonT(60)
<1> HIDE DEF s
<1>2. \A i \in 1..m : s[i] = a[i]
  BY <1>1
<1>3. ASSUME NEW i \in 1..n PROVE s[m + i] = b[i]
  <2>1. m + i \in 1..(m + n) /\ ~(m + i <= m) /\ (m + i) - m = i
    OBVIOUS
  <2> QED
    BY <1>1, <2>1
<1> QED
  BY <1>1, <1>2, <1>3 DEF s, IsJoined

LEMMA PushShape ==
  ASSUME NEW bits \in Seq({0, 1}), NEW l \in Nat, Len(bits) = l
  PROVE  /\ R!PushBits(bits) \in Seq(Moves) /\ Len(R!PushBits(bits)) = 2 * l
         /\ \A k \in 0..(l - 1) :
              /\ R!PushBits(bits)[2 * k + 1] = <<R!DATA, 4 + 2 * bits[k + 1]>>
              /\ R!PushBits(bits)[2 * k + 2] = <<R!DATA, 5 + 2 * bits[k + 1]>>
<1> DEFINE s == R!PushBits(bits)
           Move(i) == <<R!DATA, 4 + 2 * bits[(i + 1) \div 2] + ((i + 1) % 2)>>
           m == 2 * l
<1>1. s = [i \in 1..m |-> Move(i)]
  BY DEF R!PushBits
<1>2. ASSUME NEW i \in 1..m PROVE Move(i) \in Moves
  <2>1. (i + 1) \div 2 \in 1..l /\ (i + 1) % 2 \in Int
    OBVIOUS
  <2>2. bits[(i + 1) \div 2] \in {0, 1}
    BY <2>1
  <2>3. 4 + 2 * bits[(i + 1) \div 2] + ((i + 1) % 2) \in Int
    BY <2>1, <2>2
  <2> QED
    BY <2>3 DEF Moves, R!DATA
<1>3. m \in Nat
  OBVIOUS
<1>4. ASSUME NEW k \in 0..(l - 1)
      PROVE  s[2 * k + 1] = <<R!DATA, 4 + 2 * bits[k + 1]>> /\ s[2 * k + 2] = <<R!DATA, 5 + 2 * bits[k + 1]>>
  <2>1. 2 * k + 1 \in 1..m /\ 2 * k + 2 \in 1..m /\ bits[k + 1] \in {0, 1}
    OBVIOUS
  <2>2. /\ ((2 * k + 1) + 1) \div 2 = k + 1 /\ ((2 * k + 1) + 1) % 2 = 0
        /\ ((2 * k + 2) + 1) \div 2 = k + 1 /\ ((2 * k + 2) + 1) % 2 = 1
    OBVIOUS
  <2>3. 4 + 2 * bits[k + 1] + 0 = 4 + 2 * bits[k + 1] /\ 4 + 2 * bits[k + 1] + 1 = 5 + 2 * bits[k + 1]
    BY <2>1
  <2>4. Move(2 * k + 1) = <<R!DATA, 4 + 2 * bits[k + 1]>> /\ Move(2 * k + 2) = <<R!DATA, 5 + 2 * bits[k + 1]>>
    BY <2>2, <2>3
  <2> HIDE DEF Move, s, m
  <2> QED
    BY <1>1, <2>1, <2>4
<1> HIDE DEF Move, m, s
<1>5. s \in Seq(Moves) /\ Len(s) = m
  BY <1>1, <1>2, <1>3, IsASeq
<1> QED
  BY <1>4, <1>5 DEF s, m

LEMMA PullShape ==
  ASSUME NEW l \in Nat
  PROVE  /\ R!PullBits(l) \in Seq(Moves) /\ Len(R!PullBits(l)) = 3 * l
         /\ \A k \in 0..(l - 1) :
              /\ R!PullBits(l)[3 * k + 1] = <<R!DATA, 4>>
              /\ R!PullBits(l)[3 * k + 2] = <<R!DATA, 5>>
              /\ R!PullBits(l)[3 * k + 3] = << >>
<1> DEFINE s == R!PullBits(l)
           Move(i) == CASE i % 3 = 1 -> <<R!DATA, 4>> [] i % 3 = 2 -> <<R!DATA, 5>> [] OTHER -> << >>
           m == 3 * l
<1>1. s = [i \in 1..m |-> Move(i)]
  BY DEF R!PullBits
<1>2. ASSUME NEW i \in 1..m PROVE Move(i) \in Moves
  BY DEF Moves, R!DATA
<1>3. m \in Nat
  OBVIOUS
<1>4. ASSUME NEW k \in 0..(l - 1)
      PROVE  s[3 * k + 1] = <<R!DATA, 4>> /\ s[3 * k + 2] = <<R!DATA, 5>> /\ s[3 * k + 3] = << >>
  <2>1. 3 * k + 1 \in 1..m /\ 3 * k + 2 \in 1..m /\ 3 * k + 3 \in 1..m
    OBVIOUS
  <2>2. (3 * k + 1) % 3 = 1 /\ (3 * k + 2) % 3 = 2 /\ (3 * k + 3) % 3 = 0
    OBVIOUS
  <2>3. Move(3 * k + 1) = <<R!DATA, 4>> /\ Move(3 * k + 2) = <<R!DATA, 5>> /\ Move(3 * k + 3) = << >>
    BY <2>2
  <2> HIDE DEF Move, s, m
  <2> QED
    BY <1>1, <2>1, <2>3
<1> HIDE DEF Move, m, s
<1>5. s \in Seq(Moves) /\ Len(s) = m
  BY <1>1, <1>2, <1>3, IsASeq
<1> QED
  BY <1>4, <1>5 DEF s, m

LEMMA ScriptShape ==
  ASSUME NEW x \in Transactions
  PROVE  LET s == R!Script[x]
             m == Sends(x)
             a == R!AnswerBits(x.op)
         IN  /\ Len(s) = (22 + 2 * m) + 3 * a
             /\ s[1] = <<R!CONTROL, 1>> /\ s[2] = <<R!DIRECTION, 7>>
             /\ s[3] = <<R!DATA, 1>> /\ s[4] = <<R!DATA, 5>>
             /\ \A k \in 0..7 : /\ s[(4 + 2 * k) + 1] = <<R!DATA, 4 + 2 * R!Bit(x.op, 7 - k)>>
                               /\ s[(5 + 2 * k) + 1] = <<R!DATA, 5 + 2 * R!Bit(x.op, 7 - k)>>
             /\ \A n \in 0..(m - 1) :
                  /\ s[(20 + 2 * n) + 1] = <<R!DATA, 4 + 2 * R!Wire(R!Payload(x))[n + 1]>>
                  /\ s[(21 + 2 * n) + 1] = <<R!DATA, 5 + 2 * R!Wire(R!Payload(x))[n + 1]>>
             /\ s[(20 + 2 * m) + 1] = <<R!DIRECTION, 5>>
             /\ \A n \in 0..(a - 1) : /\ s[((21 + 2 * m) + 3 * n) + 1] = <<R!DATA, 4>>
                                     /\ s[((22 + 2 * m) + 3 * n) + 1] = <<R!DATA, 5>>
                                     /\ s[((23 + 2 * m) + 3 * n) + 1] = << >>
             /\ s[((21 + 2 * m) + 3 * a) + 1] = <<R!DATA, 1>>
<1> DEFINE s == R!Script[x]
           m == Sends(x)
           a == R!AnswerBits(x.op)
           y == R!Payload(x)
           e1 == << <<R!CONTROL, 1>>, <<R!DIRECTION, 7>>, <<R!DATA, 1>>, <<R!DATA, 5>> >>
           e2 == R!PushBits(R!MsbFirst(x.op))
           e3 == R!PushBits(R!Wire(y))
           e4 == << <<R!DIRECTION, 5>> >>
           e5 == R!PullBits(a)
           e6 == << <<R!DATA, 1>> >>
           s2 == e1 \o e2
           s3 == s2 \o e3
           s4 == s3 \o e4
           s5 == s4 \o e5
<1>0. x.op \in 0..255
  BY RtcAssumption, Lengths
<1>1. x \in R!Transaction /\ m \in Nat /\ a \in Nat /\ y \in Seq(Nat) /\ m = 8 * Len(y)
  BY RtcAssumption, Lengths DEF Sends
<1>2. s = s5 \o e6
  BY DEF R!Script
<1>3. e1 \in Seq(Moves) /\ Len(e1) = 4
  <2>1. /\ <<R!CONTROL, 1>> \in Moves /\ <<R!DIRECTION, 7>> \in Moves
        /\ <<R!DATA, 1>> \in Moves /\ <<R!DATA, 5>> \in Moves
    BY DEF Moves, R!CONTROL, R!DIRECTION, R!DATA
  <2> QED
    BY <2>1
<1>4. /\ e2 \in Seq(Moves) /\ Len(e2) = 16
      /\ \A k \in 0..7 : /\ e2[2 * k + 1] = <<R!DATA, 4 + 2 * R!Bit(x.op, 7 - k)>>
                        /\ e2[2 * k + 2] = <<R!DATA, 5 + 2 * R!Bit(x.op, 7 - k)>>
  <2> DEFINE bits == R!MsbFirst(x.op)
             B(i) == R!Bit(x.op, 8 - i)
  <2>1. bits = [i \in 1..8 |-> B(i)]
    BY DEF R!MsbFirst
  <2>2. ASSUME NEW i \in 1..8 PROVE B(i) \in {0, 1}
    <3>1. 8 - i \in 0..7
      OBVIOUS
    <3>2. x.op \in Int
      BY <1>0
    <3> QED
      BY <3>1, <3>2, BitType
  <2> HIDE DEF B, bits
  <2> DEFINE l == 8
  <2>6. l \in Nat
    OBVIOUS
  <2> HIDE DEF l
  <2>9. bits = [i \in 1..l |-> B(i)]
    BY <2>1 DEF l
  <2>10. \A i \in 1..l : B(i) \in {0, 1}
    BY <2>2 DEF l
  <2>3. bits \in Seq({0, 1}) /\ Len(bits) = l
    BY ONLY <2>6, <2>9, <2>10, IsASeq
  <2> USE DEF l
  <2>4. /\ R!PushBits(bits) \in Seq(Moves) /\ Len(R!PushBits(bits)) = 2 * 8
        /\ \A k \in 0..(8 - 1) :
              /\ R!PushBits(bits)[2 * k + 1] = <<R!DATA, 4 + 2 * bits[k + 1]>>
              /\ R!PushBits(bits)[2 * k + 2] = <<R!DATA, 5 + 2 * bits[k + 1]>>
    BY <2>3, PushShape
  <2>5. \A k \in 0..7 : bits[k + 1] = R!Bit(x.op, 7 - k)
    <3>1. \A k \in 0..7 : k + 1 \in 1..8 /\ 8 - (k + 1) = 7 - k
      OBVIOUS
    <3> QED
      BY <2>1, <3>1 DEF B
  <2>7. \A k \in 0..7 : k \in 0..(8 - 1)
    OBVIOUS
  <2>8. Len(R!PushBits(bits)) = 16
    BY <2>4
  <2> QED
    BY <2>4, <2>5, <2>7, <2>8, Zenon DEF bits
<1>5. /\ e3 \in Seq(Moves) /\ Len(e3) = 2 * m
      /\ \A n \in 0..(m - 1) : /\ e3[2 * n + 1] = <<R!DATA, 4 + 2 * R!Wire(y)[n + 1]>>
                              /\ e3[2 * n + 2] = <<R!DATA, 5 + 2 * R!Wire(y)[n + 1]>>
  <2>1. y \in Seq(Int)
    BY <1>1
  <2> HIDE DEF y
  <2>2. R!Wire(y) \in Seq({0, 1}) /\ Len(R!Wire(y)) = m
    BY <1>1, <2>1, WireType
  <2> QED
    BY <1>1, <2>2, PushShape
<1>6. e4 \in Seq(Moves) /\ Len(e4) = 1 /\ e6 \in Seq(Moves) /\ Len(e6) = 1
  <2>1. <<R!DIRECTION, 5>> \in Moves /\ <<R!DATA, 1>> \in Moves
    BY DEF Moves, R!DIRECTION, R!DATA
  <2> QED
    BY <2>1
<1>7. /\ e5 \in Seq(Moves) /\ Len(e5) = 3 * a
      /\ \A n \in 0..(a - 1) : /\ e5[3 * n + 1] = <<R!DATA, 4>> /\ e5[3 * n + 2] = <<R!DATA, 5>>
                              /\ e5[3 * n + 3] = << >>
  BY <1>1, PullShape
<1>8. /\ e1[1] = <<R!CONTROL, 1>> /\ e1[2] = <<R!DIRECTION, 7>>
      /\ e1[3] = <<R!DATA, 1>> /\ e1[4] = <<R!DATA, 5>>
      /\ e4[1] = <<R!DIRECTION, 5>> /\ e6[1] = <<R!DATA, 1>>
  OBVIOUS
<1> HIDE DEF e1, e2, e3, e4, e5, e6, s, y, m, a
<1>9. /\ s2 \in Seq(Moves) /\ Len(s2) = 4 + 16
      /\ \A i \in 1..4 : s2[i] = e1[i]
      /\ \A i \in 1..16 : s2[4 + i] = e2[i]
  <2>1. e2 \in Seq(Moves) /\ Len(e2) = 16 /\ 4 \in Nat /\ 16 \in Nat
    BY <1>4
  <2>2. IsJoined(s2, e1, e2, 4, 16)
    BY ONLY <1>3, <2>1, Joined
  <2> QED
    BY <2>2 DEF IsJoined
<1> HIDE DEF s2
<1>10. /\ s3 \in Seq(Moves) /\ Len(s3) = 20 + 2 * m
       /\ \A i \in 1..20 : s3[i] = s2[i]
       /\ \A i \in 1..(2 * m) : s3[20 + i] = e3[i]
  <2>1. s2 \in Seq(Moves) /\ Len(s2) = 20 /\ 2 * m \in Nat /\ 20 \in Nat
    BY <1>1, <1>9
  <2>2. e3 \in Seq(Moves) /\ Len(e3) = 2 * m
    BY <1>5
  <2>3. IsJoined(s3, s2, e3, 20, 2 * m)
    BY ONLY <2>1, <2>2, Joined
  <2> QED
    BY <2>3 DEF IsJoined
<1> HIDE DEF s3
<1>11. /\ s4 \in Seq(Moves) /\ Len(s4) = 21 + 2 * m
       /\ \A i \in 1..(20 + 2 * m) : s4[i] = s3[i]
       /\ s4[21 + 2 * m] = <<R!DIRECTION, 5>>
  <2>1. 20 + 2 * m \in Nat /\ 1 \in Nat
    BY <1>1
  <2>4. s3 \in Seq(Moves) /\ Len(s3) = 20 + 2 * m
    BY <1>10
  <2>5. e4 \in Seq(Moves) /\ Len(e4) = 1
    BY <1>6
  <2>6. IsJoined(s4, s3, e4, 20 + 2 * m, 1)
    BY ONLY <2>1, <2>4, <2>5, Joined
  <2>2. /\ s4 \in Seq(Moves) /\ Len(s4) = (20 + 2 * m) + 1
        /\ \A i \in 1..(20 + 2 * m) : s4[i] = s3[i]
        /\ s4[(20 + 2 * m) + 1] = e4[1]
    <3>1. 1 \in 1..1
      OBVIOUS
    <3> QED
      BY <2>6, <3>1 DEF IsJoined
  <2> HIDE DEF s4
  <2>3. (20 + 2 * m) + 1 = 21 + 2 * m
    BY <1>1
  <2> QED
    BY <1>8, <2>2, <2>3
<1> HIDE DEF s4
<1>12. /\ s5 \in Seq(Moves) /\ Len(s5) = (21 + 2 * m) + 3 * a
       /\ \A i \in 1..(21 + 2 * m) : s5[i] = s4[i]
       /\ \A i \in 1..(3 * a) : s5[(21 + 2 * m) + i] = e5[i]
  <2>1. 21 + 2 * m \in Nat /\ 3 * a \in Nat
    BY <1>1
  <2>2. s4 \in Seq(Moves) /\ Len(s4) = 21 + 2 * m
    BY <1>11
  <2>3. e5 \in Seq(Moves) /\ Len(e5) = 3 * a
    BY <1>7
  <2>4. IsJoined(s5, s4, e5, 21 + 2 * m, 3 * a)
    BY ONLY <2>1, <2>2, <2>3, Joined
  <2> QED
    BY <2>4 DEF IsJoined
<1> HIDE DEF s5
<1>13. /\ Len(s) = (22 + 2 * m) + 3 * a
       /\ \A i \in 1..((21 + 2 * m) + 3 * a) : s[i] = s5[i]
       /\ s[((21 + 2 * m) + 3 * a) + 1] = <<R!DATA, 1>>
  <2> DEFINE w == (21 + 2 * m) + 3 * a
  <2>1. w \in Nat /\ w + 1 = (22 + 2 * m) + 3 * a /\ 1 \in Nat
    BY <1>1
  <2>3. s5 \in Seq(Moves) /\ Len(s5) = w
    BY <1>12
  <2>4. e6 \in Seq(Moves) /\ Len(e6) = 1
    BY <1>6
  <2> HIDE DEF w
  <2>2. /\ Len(s) = w + 1
        /\ \A i \in 1..w : s[i] = s5[i]
        /\ s[w + 1] = e6[1]
    <3>1. IsJoined(s, s5, e6, w, 1)
      BY ONLY <1>2, <2>1, <2>3, <2>4, Joined
    <3> QED
      BY <2>1, <3>1 DEF IsJoined
  <2> QED
    BY <1>8, <2>1, <2>2 DEF w
<1>14. \A i \in 1..(21 + 2 * m) : s[i] = s4[i]
  <2>1. \A i \in 1..(21 + 2 * m) : i \in 1..((21 + 2 * m) + 3 * a)
    BY <1>1
  <2> QED
    BY <1>12, <1>13, <2>1
<1>15. \A i \in 1..(20 + 2 * m) : s[i] = s3[i]
  <2>1. \A i \in 1..(20 + 2 * m) : i \in 1..(21 + 2 * m)
    BY <1>1
  <2> QED
    BY <1>11, <1>14, <2>1
<1>16. \A i \in 1..20 : s[i] = s2[i]
  <2>1. \A i \in 1..20 : i \in 1..(20 + 2 * m)
    BY <1>1
  <2> QED
    BY <1>10, <1>15, <2>1
<1>17. /\ s[1] = <<R!CONTROL, 1>> /\ s[2] = <<R!DIRECTION, 7>>
       /\ s[3] = <<R!DATA, 1>> /\ s[4] = <<R!DATA, 5>>
  <2>1. \A i \in 1..4 : i \in 1..20
    OBVIOUS
  <2>2. \A i \in 1..4 : s[i] = e1[i]
    BY <1>9, <1>16, <2>1
  <2> QED
    BY <1>8, <2>2
<1>18. ASSUME NEW k \in 0..7
       PROVE  /\ s[(4 + 2 * k) + 1] = <<R!DATA, 4 + 2 * R!Bit(x.op, 7 - k)>>
              /\ s[(5 + 2 * k) + 1] = <<R!DATA, 5 + 2 * R!Bit(x.op, 7 - k)>>
  <2>1. /\ 2 * k + 1 \in 1..16 /\ 4 + (2 * k + 1) \in 1..20 /\ (4 + 2 * k) + 1 = 4 + (2 * k + 1)
        /\ 2 * k + 2 \in 1..16 /\ 4 + (2 * k + 2) \in 1..20 /\ (5 + 2 * k) + 1 = 4 + (2 * k + 2)
    OBVIOUS
  <2>2. s[4 + (2 * k + 1)] = e2[2 * k + 1] /\ s[4 + (2 * k + 2)] = e2[2 * k + 2]
    <3>1. \A j \in 1..16 : s2[4 + j] = e2[j]
      BY <1>9
    <3> QED
      BY <1>16, <2>1, <3>1
  <2> QED
    BY <1>4, <2>1, <2>2
<1>19. ASSUME NEW n \in 0..(m - 1)
       PROVE  /\ s[(20 + 2 * n) + 1] = <<R!DATA, 4 + 2 * R!Wire(y)[n + 1]>>
              /\ s[(21 + 2 * n) + 1] = <<R!DATA, 5 + 2 * R!Wire(y)[n + 1]>>
  <2>1. /\ 2 * n + 1 \in 1..(2 * m) /\ 20 + (2 * n + 1) \in 1..(20 + 2 * m)
        /\ 2 * n + 2 \in 1..(2 * m) /\ 20 + (2 * n + 2) \in 1..(20 + 2 * m)
        /\ (20 + 2 * n) + 1 = 20 + (2 * n + 1) /\ (21 + 2 * n) + 1 = 20 + (2 * n + 2)
    BY <1>1
  <2>2. s[20 + (2 * n + 1)] = e3[2 * n + 1] /\ s[20 + (2 * n + 2)] = e3[2 * n + 2]
    BY <1>10, <1>15, <2>1
  <2> QED
    BY <1>5, <2>1, <2>2
<1>20. s[(20 + 2 * m) + 1] = <<R!DIRECTION, 5>>
  <2>1. 21 + 2 * m \in 1..(21 + 2 * m) /\ (20 + 2 * m) + 1 = 21 + 2 * m
    BY <1>1
  <2> QED
    BY <1>11, <1>14, <2>1
<1>21. ASSUME NEW n \in 0..(a - 1)
       PROVE  /\ s[((21 + 2 * m) + 3 * n) + 1] = <<R!DATA, 4>>
              /\ s[((22 + 2 * m) + 3 * n) + 1] = <<R!DATA, 5>>
              /\ s[((23 + 2 * m) + 3 * n) + 1] = << >>
  <2>1. \A i \in 1..(3 * a) : (21 + 2 * m) + i \in 1..((21 + 2 * m) + 3 * a)
    BY <1>1
  <2>2. \A i \in 1..(3 * a) : s[(21 + 2 * m) + i] = e5[i]
    BY <1>12, <1>13, <2>1
  <2>3. /\ 3 * n + 1 \in 1..(3 * a) /\ 3 * n + 2 \in 1..(3 * a) /\ 3 * n + 3 \in 1..(3 * a)
        /\ ((21 + 2 * m) + 3 * n) + 1 = (21 + 2 * m) + (3 * n + 1)
        /\ ((22 + 2 * m) + 3 * n) + 1 = (21 + 2 * m) + (3 * n + 2)
        /\ ((23 + 2 * m) + 3 * n) + 1 = (21 + 2 * m) + (3 * n + 3)
    BY <1>1
  <2> QED
    BY <1>7, <2>2, <2>3
<1> QED
  BY <1>13, <1>17, <1>18, <1>19, <1>20, <1>21, Zenon DEF s, m, a, y

(* What was true while a transaction ran stays so.                         *)
LEMMA TruthsGrow ==
  ASSUME NEW x, NEW all, NEW start \in Int, NEW now \in Int, NEW start2 \in Int, NEW now2 \in Int,
         start2 <= start, now <= now2
  PROVE  Truths(x, start, now, all) \subseteq Truths(x, start2, now2, all)
<1>1. \A t \in start..now : t \in start2..now2
  OBVIOUS
<1>2. CASE x.op = R!READ_DATETIME
  BY <1>1, <1>2 DEF Truths
<1>3. CASE x.op # R!READ_DATETIME /\ x.op = R!READ_TIME
  BY <1>1, <1>3 DEF Truths
<1>4. CASE x.op # R!READ_DATETIME /\ x.op # R!READ_TIME
  BY <1>4 DEF Truths
<1> QED
  BY <1>2, <1>3, <1>4

LEMMA TruthsType ==
  ASSUME NEW x \in R!Transaction, NEW start \in Int, NEW now \in Int, NEW all, all \subseteq Int,
         R!AnswerBits(x.op) > 0, NEW bytes \in Truths(x, start, now, all)
  PROVE  bytes \in Seq(Int) /\ 8 * Len(bytes) = R!AnswerBits(x.op)
<1>1. x.op \in {R!READ_STATUS, R!READ_DATETIME, R!READ_TIME}
  BY Lengths
<1>2. R!READ_STATUS # R!READ_DATETIME /\ R!READ_STATUS # R!READ_TIME /\ R!READ_DATETIME # R!READ_TIME
  BY DEF R!READ_STATUS, R!READ_DATETIME, R!READ_TIME
<1>3. CASE x.op = R!READ_DATETIME
  <2>1. PICK t \in start..now : bytes = R!DateTimeBytes(t)
    BY <1>2, <1>3 DEF Truths
  <2>2. bytes \in Seq(Int) /\ Len(bytes) = 7
    BY <2>1, Dates
  <2>3. R!AnswerBits(x.op) = 56
    BY <1>3, Lengths
  <2> QED
    BY <2>2, <2>3
<1>4. CASE x.op = R!READ_TIME
  <2>1. PICK t \in start..now : bytes = R!TimeBytes(t)
    BY <1>2, <1>4 DEF Truths
  <2>2. bytes \in Seq(Int) /\ Len(bytes) = 3
    BY <2>1, Dates
  <2>3. R!AnswerBits(x.op) = 24
    BY <1>4, Lengths
  <2> QED
    BY <2>2, <2>3
<1>5. CASE x.op = R!READ_STATUS
  <2>1. PICK v \in all : bytes = <<v>>
    BY <1>2, <1>5 DEF Truths
  <2>2. bytes \in Seq(Int) /\ Len(bytes) = 1
    BY <2>1
  <2>3. R!AnswerBits(x.op) = 8
    BY <1>5, Lengths
  <2> QED
    BY <2>2, <2>3
<1> QED
  BY <1>1, <1>3, <1>4, <1>5

(* What a store does to the chip and to its pins.                          *)
Does(off, v, c, g, now, c2, g2) ==
  /\ c2 = IF off = R!DATA THEN R!pin_update(c, v, now) ELSE c
  /\ g2 = CASE off = R!DATA -> [g EXCEPT !.data = v]
            [] off = R!DIRECTION -> [g EXCEPT !.direction = v]
            [] OTHER -> [g EXCEPT !.control = v % 2]
Moved(p, x, c, g, now, c2, g2) ==
  \A off, v : v \in 0..15 /\ R!Script[x][p + 1] = <<off, v>> => Does(off, v, c, g, now, c2, g2)
Going(x, c, g, start, now, all) ==
  /\ x \in Transactions /\ c \in ClockChips /\ g \in Pins
  /\ start \in Int /\ now \in Int /\ start <= now /\ all \subseteq Int
  /\ c.status \in all \cup After(x, all)

LEMMA DataStored ==
  ASSUME NEW c, NEW g \in Pins, NEW now, NEW c2, NEW g2, NEW v \in 0..15,
         Does(R!DATA, v, c, g, now, c2, g2)
  PROVE  /\ c2 = R!pin_update(c, v, now) /\ g2 \in Pins
         /\ g2.control = g.control /\ g2.direction = g.direction
<1>1. g2 = [g EXCEPT !.data = v] /\ c2 = R!pin_update(c, v, now)
  BY DEF Does, R!DATA, R!DIRECTION
<1> QED
  BY <1>1 DEF Pins

(* The opening of a transaction.                                           *)
LEMMA OpenedStep ==
  ASSUME NEW p \in Nat, NEW x, NEW c, NEW g, NEW bits, NEW start, NEW now, NEW all, NEW c2, NEW g2,
         Going(x, c, g, start, now, all), Moved(p, x, c, g, now, c2, g2), Opened(p, c, g, bits)
  PROVE  Going(x, c2, g2, start, now, all) /\ Stage(p + 1, x, c2, g2, bits, start, now, all)
<1>1. /\ x \in Transactions /\ c \in ClockChips /\ g \in Pins /\ bits = << >>
      /\ c.status \in all \cup After(x, all)
  BY DEF Going, Opened
<1>2. ASSUME NEW off, NEW v \in 0..15, R!Script[x][p + 1] = <<off, v>>
      PROVE  Does(off, v, c, g, now, c2, g2)
  BY <1>2 DEF Moved
<1>3. /\ R!Script[x][1] = <<R!CONTROL, 1>> /\ R!Script[x][2] = <<R!DIRECTION, 7>>
      /\ R!Script[x][3] = <<R!DATA, 1>> /\ R!Script[x][4] = <<R!DATA, 5>>
  BY <1>1, ScriptShape
<1>4. R!DATA # R!DIRECTION /\ R!DATA # R!CONTROL /\ R!CONTROL # R!DIRECTION
  BY DEF R!DATA, R!DIRECTION, R!CONTROL
<1>5. CASE p = 0
  <2>1. Does(R!CONTROL, 1, c, g, now, c2, g2)
    BY <1>2, <1>3, <1>5
  <2>2. c2 = c /\ g2 = [g EXCEPT !.control = 1]
    BY <1>4, <2>1 DEF Does
  <2>3. g2 \in Pins /\ g2.control = 1
    BY <1>1, <2>2, SMTT(40) DEF Pins
  <2>4. Opened(p + 1, c2, g2, bits)
    BY <1>1, <1>5, <2>3 DEF Opened
  <2> QED
    BY <2>2, <2>3, <2>4 DEF Stage, Going
<1>6. CASE p = 1
  <2>1. Does(R!DIRECTION, 7, c, g, now, c2, g2)
    BY <1>2, <1>3, <1>6
  <2>2. c2 = c /\ g2 = [g EXCEPT !.direction = 7]
    BY <1>4, <2>1 DEF Does
  <2>3. g2 \in Pins /\ g2.control = 1
    BY <1>1, <1>6, <2>2 DEF Pins, Opened
  <2>4. Opened(p + 1, c2, g2, bits)
    BY <1>1, <1>6, <2>3 DEF Opened
  <2> QED
    BY <2>2, <2>3, <2>4 DEF Stage, Going
<1>7. CASE p = 2
  <2>1. Does(R!DATA, 1, c, g, now, c2, g2)
    BY <1>2, <1>3, <1>7
  <2>2. c2 = R!pin_update(c, 1, now) /\ g2 \in Pins /\ g2.control = 1
    BY <1>1, <1>7, <2>1, DataStored DEF Opened
  <2>3. c2 \in ClockChips /\ ~c2.cs /\ c2.last_sck /\ c2.status = c.status
    BY <1>1, <2>2, Deselects
  <2>4. Opened(p + 1, c2, g2, bits)
    BY <1>1, <1>7, <2>2, <2>3 DEF Opened
  <2> QED
    BY <1>1, <2>2, <2>3, <2>4 DEF Stage, Going
<1>8. CASE p = 3
  <2>1. Does(R!DATA, 5, c, g, now, c2, g2)
    BY <1>2, <1>3, <1>8
  <2>2. c2 = R!pin_update(c, 5, now) /\ g2 \in Pins /\ g2.control = 1 /\ ~c.cs /\ c.last_sck
    BY <1>1, <1>8, <2>1, DataStored DEF Opened
  <2>3. c2 = [c EXCEPT !.cs = TRUE, !.state = "ReceivingCommand", !.in_bits = 0, !.in_count = 0,
                     !.out_count = 0, !.idx = 0]
    BY <1>1, <2>2, Selects
  <2>4. c2 \in ClockChips
    <3>1. "ReceivingCommand" \in ChipStates /\ 0 \in Nat /\ 0 \in Int /\ TRUE \in BOOLEAN
      BY DEF ChipStates
    <3> QED
      BY <1>1, <2>3, <3>1 DEF ClockChips
  <2>5. /\ c2.cs /\ c2.last_sck = TRUE /\ c2.state = "ReceivingCommand" /\ c2.in_count = 0
        /\ c2.in_bits = 0 /\ c2.idx = 0 /\ c2.out_count = 0 /\ c2.status = c.status
    BY <1>1, <2>2, <2>3 DEF ClockChips
  <2>6. x.op \div 2^(8 - 0) = 0
    <3>1. x.op \in 0..255
      BY <1>1, RtcAssumption, Lengths
    <3>2. \A n \in 0..255 : n \div 256 = 0
      BY SMT
    <3> QED
      BY <3>1, <3>2, Powers
  <2>7. Listening(c2, x.op, 0, TRUE)
    BY <2>5, <2>6 DEF Listening
  <2>8. Commanded(p + 1, x, c2, g2, bits)
    <3>1. p + 1 = 4 + 2 * 0 /\ 0 \in 0..7
      BY <1>8
    <3> QED
      BY <1>1, <2>2, <2>7, <3>1 DEF Commanded
  <2> QED
    BY <1>1, <2>2, <2>4, <2>5, <2>8 DEF Stage, Going
<1> QED
  BY <1>5, <1>6, <1>7, <1>8 DEF Opened

(* The command, bit by bit.                                                *)
LEMMA CommandedStep ==
  ASSUME NEW p \in Nat, NEW x, NEW c, NEW g, NEW bits, NEW start, NEW now, NEW all, NEW c2, NEW g2,
         Going(x, c, g, start, now, all), Moved(p, x, c, g, now, c2, g2), Commanded(p, x, c, g, bits)
  PROVE  Going(x, c2, g2, start, now, all) /\ Stage(p + 1, x, c2, g2, bits, start, now, all)
<1>1. /\ x \in Transactions /\ c \in ClockChips /\ g \in Pins /\ bits = << >> /\ g.control = 1
      /\ c.status \in all \cup After(x, all) /\ start \in Int /\ now \in Int /\ start <= now
  BY DEF Going, Commanded
<1>2. ASSUME NEW off, NEW v \in 0..15, R!Script[x][p + 1] = <<off, v>>
      PROVE  Does(off, v, c, g, now, c2, g2)
  BY <1>2 DEF Moved
<1>3. PICK k \in 0..7 :
        \/ p = 4 + 2 * k /\ Listening(c, x.op, k, TRUE)
        \/ p = 5 + 2 * k /\ Listening(c, x.op, k, FALSE)
  BY DEF Commanded
<1> DEFINE b == R!Bit(x.op, 7 - k)
<1>4. /\ R!Script[x][(4 + 2 * k) + 1] = <<R!DATA, 4 + 2 * b>>
      /\ R!Script[x][(5 + 2 * k) + 1] = <<R!DATA, 5 + 2 * b>>
  BY <1>1, ScriptShape
<1>5. x \in R!Transaction /\ x.op \in 0..255
  BY <1>1, RtcAssumption, Lengths
<1>6. b \in {0, 1}
  <2>1. 7 - k \in 0..7
    OBVIOUS
  <2>2. x.op \in Int
    BY <1>5
  <2> QED
    BY <2>1, <2>2, BitType
<1> HIDE DEF b
<1>7. 4 + 2 * b \in 0..15 /\ 5 + 2 * b \in 0..15
  BY <1>6
<1>8. CASE p = 4 + 2 * k /\ Listening(c, x.op, k, TRUE)
  <2>1. Does(R!DATA, 4 + 2 * b, c, g, now, c2, g2)
    BY <1>2, <1>4, <1>7, <1>8
  <2>2. c2 = R!pin_update(c, 4 + 2 * b, now) /\ g2 \in Pins /\ g2.control = 1
    BY <1>1, <1>7, <2>1, DataStored, SMTT(40)
  <2>3. c2 \in ClockChips /\ Listening(c2, x.op, k, FALSE) /\ c2.status = c.status
    BY <1>1, <1>5, <1>6, <1>8, <2>2, Waits, ZenonT(60)
  <2>4. Commanded(p + 1, x, c2, g2, bits)
    <3>1. p + 1 = 5 + 2 * k
      BY <1>8
    <3> QED
      BY <1>1, <2>2, <2>3, <3>1 DEF Commanded
  <2> QED
    BY <1>1, <2>2, <2>3, <2>4 DEF Stage, Going
<1>9. CASE p = 5 + 2 * k /\ Listening(c, x.op, k, FALSE)
  <2> DEFINE e == [c EXCEPT !.last_sck = TRUE, !.command = x.op]
             f == [R!execute_command(e, now) EXCEPT !.in_bits = 0, !.in_count = 0]
  <2>1. Does(R!DATA, 5 + 2 * b, c, g, now, c2, g2)
    BY <1>2, <1>4, <1>7, <1>9
  <2>2. c2 = R!pin_update(c, 5 + 2 * b, now) /\ g2 \in Pins /\ g2.control = 1
    BY <1>1, <1>7, <2>1, DataStored, SMTT(30)
  <2>3. /\ k < 7 => c2 \in ClockChips /\ Listening(c2, x.op, k + 1, TRUE) /\ c2.status = c.status
        /\ k = 7 => c2 = f
    <3>1. Heard(c, x.op, k, now, R!pin_update(c, 5 + 2 * R!Bit(x.op, 7 - k), now))
      BY <1>1, <1>5, <1>9, Hears, ZenonT(30)
    <3>2. Heard(c, x.op, k, now, c2)
      BY <2>2, <3>1 DEF b
    <3> QED
      BY <3>2 DEF Heard
  <2>4. CASE k < 7
    <3>1. Commanded(p + 1, x, c2, g2, bits)
      <4>1. p + 1 = 4 + 2 * (k + 1) /\ k + 1 \in 0..7
        BY <1>9, <2>4
      <4> QED
        BY <1>1, <2>2, <2>3, <2>4, <4>1 DEF Commanded
    <3> QED
      BY <1>1, <2>2, <2>3, <2>4, <3>1 DEF Stage, Going
  <2>5. CASE k = 7
    <3>1. e \in ClockChips /\ e.cs /\ e.last_sck /\ e.command = x.op /\ e.status = c.status
      <4>1. x.op \in Int /\ c.cs
        BY <1>5, <1>9 DEF Listening
      <4> QED
        BY <1>1, <4>1 DEF ClockChips
    <3> HIDE DEF e
    <3>2. /\ f \in ClockChips /\ f.status \in all \cup After(x, all)
          /\ Sends(x) > 0 => Taking(f, x.op, R!Payload(x), 0, TRUE)
          /\ Sends(x) = 0 => f.status \in After(x, all)
          /\ R!AnswerBits(x.op) > 0 =>
               /\ Sends(x) = 0
               /\ \E bytes \in Truths(x, now, now, all) : Sent(f, bytes, 0, TRUE)
      BY <1>1, <1>5, <3>1, Executes
    <3>3. c2 = f
      BY <2>3, <2>5
    <3> HIDE DEF f
    <3>4. Sends(x) \in Nat
      BY <1>5, Lengths
    <3>5. p + 1 = 20
      BY <1>9, <2>5
    <3>6. CASE Sends(x) > 0
      <4>1. 20 + 2 * 0 = 20 /\ 0 \in 0..(Sends(x) - 1)
        BY <3>4, <3>6
      <4>2. Provided(p + 1, x, c2, g2, bits)
        BY <1>1, <2>2, <3>2, <3>3, <3>5, <3>6, <4>1 DEF Provided
      <4> QED
        BY <1>1, <2>2, <3>2, <3>3, <4>2 DEF Stage, Going
    <3>7. CASE Sends(x) = 0
      <4>1. 20 + Sends(x) * 2 = 20
        BY <3>7
      <4>2. R!AnswerBits(x.op) > 0 => Telling(x, c2, 0, TRUE, bits, 0, start, now, all)
        <5>1. ASSUME R!AnswerBits(x.op) > 0 PROVE Telling(x, c2, 0, TRUE, bits, 0, start, now, all)
          <6>1. PICK bytes \in Truths(x, now, now, all) : Sent(c2, bytes, 0, TRUE)
            BY <3>2, <3>3, <5>1
          <6>2. bytes \in Truths(x, start, now, all)
            BY <1>1, <6>1, TruthsGrow
          <6>3. << >> \in Seq({0, 1}) /\ Len(<< >>) = 0
            OBVIOUS
          <6>4. \A i \in 1..0 : FALSE
            OBVIOUS
          <6> QED
            BY <1>1, <6>1, <6>2, <6>3, <6>4 DEF Telling
        <5> QED
          BY <5>1
      <4>3. Executed(p + 1, x, c2, g2, bits, start, now, all)
        BY <1>1, <2>2, <3>2, <3>3, <3>5, <3>7, <4>1, <4>2 DEF Executed
      <4> QED
        BY <1>1, <2>2, <3>2, <3>3, <4>3 DEF Stage, Going
    <3> QED
      BY <3>4, <3>6, <3>7
  <2>6. k < 7 \/ k = 7
    OBVIOUS
  <2> QED
    BY <2>4, <2>5, <2>6
<1> QED
  BY <1>3, <1>8, <1>9

(* The data, bit by bit.                                                   *)
LEMMA ProvidedStep ==
  ASSUME NEW p \in Nat, NEW x, NEW c, NEW g, NEW bits, NEW start, NEW now, NEW all, NEW c2, NEW g2,
         Going(x, c, g, start, now, all), Moved(p, x, c, g, now, c2, g2), Provided(p, x, c, g, bits)
  PROVE  Going(x, c2, g2, start, now, all) /\ Stage(p + 1, x, c2, g2, bits, start, now, all)
<1> DEFINE y == R!Payload(x)
           m == Sends(x)
<1>1. /\ x \in Transactions /\ c \in ClockChips /\ g \in Pins /\ bits = << >> /\ g.control = 1
      /\ c.status \in all \cup After(x, all)
  BY DEF Going, Provided
<1>2. ASSUME NEW off, NEW v \in 0..15, R!Script[x][p + 1] = <<off, v>>
      PROVE  Does(off, v, c, g, now, c2, g2)
  BY <1>2 DEF Moved
<1>3. PICK n \in 0..(m - 1) :
        \/ p = 20 + 2 * n /\ Taking(c, x.op, y, n, TRUE)
        \/ p = 21 + 2 * n /\ Taking(c, x.op, y, n, FALSE)
  BY DEF Provided
<1>4. x \in R!Transaction
  BY <1>1, RtcAssumption
<1>5. /\ y \in Seq(Nat) /\ m \in Nat /\ m = 8 * Len(y) /\ Len(y) \in Nat
      /\ \A i \in 1..Len(y) : y[i] \in Nat /\ y[i] < 256
  BY <1>4, Lengths DEF Sends
<1>6. /\ x.op \in {R!WRITE_STATUS, R!WRITE_TIME} /\ R!AnswerBits(x.op) = 0
      /\ x.op = R!WRITE_STATUS => Len(y) = 1 /\ y[1] = x.value
  <2>1. Len(y) # 0
    BY <1>3, <1>5
  <2> QED
    BY <1>4, <2>1, Lengths
<1>7. y \in Seq(Int)
  BY <1>5
<1> DEFINE b == R!Wire(y)[n + 1]
<1>8. /\ R!Script[x][(20 + 2 * n) + 1] = <<R!DATA, 4 + 2 * b>>
      /\ R!Script[x][(21 + 2 * n) + 1] = <<R!DATA, 5 + 2 * b>>
  BY <1>1, ScriptShape
<1> HIDE DEF m, y
<1>9. b \in {0, 1} /\ n \in 0..(8 * Len(y) - 1)
  <2>1. n + 1 \in 1..(8 * Len(y)) /\ n \in 0..(8 * Len(y) - 1)
    BY <1>5
  <2>2. R!Wire(y) \in Seq({0, 1}) /\ Len(R!Wire(y)) = 8 * Len(y)
    BY <1>7, WireType
  <2> QED
    BY <2>1, <2>2, ElementOfSeq
<1> HIDE DEF b
<1>10. 4 + 2 * b \in 0..15 /\ 5 + 2 * b \in 0..15
  BY <1>9
<1>11. CASE p = 20 + 2 * n /\ Taking(c, x.op, y, n, TRUE)
  <2>1. Does(R!DATA, 4 + 2 * b, c, g, now, c2, g2)
    BY <1>2, <1>8, <1>10, <1>11
  <2>2. c2 = R!pin_update(c, 4 + 2 * b, now) /\ g2 \in Pins /\ g2.control = 1
    BY <1>1, <1>10, <2>1, DataStored, SMTT(40)
  <2>3. c2 \in ClockChips /\ Taking(c2, x.op, y, n, FALSE) /\ c2.status = c.status
    BY <1>1, <1>9, <1>11, <2>2, WaitsForData
  <2>4. Provided(p + 1, x, c2, g2, bits)
    <3>1. p + 1 = 21 + 2 * n
      BY <1>11
    <3> QED
      BY <1>1, <1>3, <2>2, <2>3, <3>1 DEF Provided, m, y
  <2> QED
    BY <1>1, <2>2, <2>3, <2>4 DEF Stage, Going
<1>12. CASE p = 21 + 2 * n /\ Taking(c, x.op, y, n, FALSE)
  <2>1. Does(R!DATA, 5 + 2 * b, c, g, now, c2, g2)
    BY <1>2, <1>8, <1>10, <1>12
  <2>2. c2 = R!pin_update(c, 5 + 2 * b, now) /\ g2 \in Pins /\ g2.control = 1
    BY <1>1, <1>10, <2>1, DataStored
  <2>3. /\ c2 \in ClockChips
        /\ n + 1 < 8 * Len(y) => Taking(c2, x.op, y, n + 1, TRUE) /\ c2.status = c.status
        /\ n + 1 = 8 * Len(y) => c2.status = IF x.op = R!WRITE_STATUS THEN y[1] ELSE c.status
    <3>1. x.op = R!WRITE_STATUS => Len(y) = 1
      BY <1>6
    <3> QED
      BY <1>1, <1>5, <1>7, <1>9, <1>12, <2>2, <3>1, TakesData, ZenonT(30) DEF b
  <2>4. CASE n + 1 < 8 * Len(y)
    <3>1. Provided(p + 1, x, c2, g2, bits)
      <4>1. p + 1 = 20 + 2 * (n + 1) /\ n + 1 \in 0..(m - 1)
        BY <1>5, <1>12, <2>4
      <4> QED
        BY <1>1, <2>2, <2>3, <2>4, <4>1 DEF Provided, m, y
    <3> QED
      BY <1>1, <2>2, <2>3, <2>4, <3>1 DEF Stage, Going
  <2>5. CASE n + 1 = 8 * Len(y)
    <3>1. c2.status \in After(x, all)
      <4>1. R!WRITE_STATUS # R!RESET /\ R!WRITE_TIME # R!RESET /\ R!WRITE_TIME # R!WRITE_STATUS
        BY DEF R!WRITE_STATUS, R!RESET, R!WRITE_TIME
      <4>2. CASE x.op = R!WRITE_STATUS
        BY <1>6, <2>3, <2>5, <4>1, <4>2 DEF After
      <4>3. CASE x.op = R!WRITE_TIME
        BY <1>1, <2>3, <2>5, <4>1, <4>3 DEF After
      <4> QED
        BY <1>6, <4>2, <4>3
    <3>2. p + 1 = 20 + m * 2
      BY <1>5, <1>12, <2>5
    <3>3. Executed(p + 1, x, c2, g2, bits, start, now, all)
      <4>1. ~(R!AnswerBits(x.op) > 0)
        BY <1>6
      <4> QED
        BY <1>1, <2>2, <3>1, <3>2, <4>1 DEF Executed, m
    <3> QED
      BY <1>1, <2>2, <2>3, <3>1, <3>3 DEF Stage, Going
  <2>6. n + 1 < 8 * Len(y) \/ n + 1 = 8 * Len(y)
    BY <1>5, <1>9
  <2> QED
    BY <2>4, <2>5, <2>6
<1> QED
  BY <1>3, <1>11, <1>12 DEF y

(* The line is turned round, and an answer goes bit by bit.                *)
LEMMA ExecutedStep ==
  ASSUME NEW p \in Nat, NEW x, NEW c, NEW g, NEW bits, NEW start, NEW now, NEW all, NEW c2, NEW g2,
         Going(x, c, g, start, now, all), Moved(p, x, c, g, now, c2, g2),
         Executed(p, x, c, g, bits, start, now, all)
  PROVE  Going(x, c2, g2, start, now, all) /\ Stage(p + 1, x, c2, g2, bits, start, now, all)
<1> DEFINE m == Sends(x)
           a == R!AnswerBits(x.op)
<1>1. /\ x \in Transactions /\ c \in ClockChips /\ g \in Pins /\ bits = << >> /\ g.control = 1
      /\ c.status \in After(x, all) /\ p = 20 + m * 2
      /\ (a > 0 => Telling(x, c, 0, TRUE, bits, 0, start, now, all))
  BY DEF Going, Executed
<1>2. x \in R!Transaction /\ m \in Nat /\ a \in Nat
  BY <1>1, RtcAssumption, Lengths
<1>3. R!Script[x][(20 + 2 * m) + 1] = <<R!DIRECTION, 5>>
  BY <1>1, ScriptShape
<1> HIDE DEF m, a
<1>4. p + 1 = (20 + 2 * m) + 1 /\ p + 1 = 21 + 2 * m /\ p + 1 = (21 + 2 * m) + 3 * 0 /\ 5 \in 0..15
  BY <1>1, <1>2
<1>5. Does(R!DIRECTION, 5, c, g, now, c2, g2)
  BY <1>3, <1>4 DEF Moved
<1>6. c2 = c /\ g2 = [g EXCEPT !.direction = 5]
  BY <1>5 DEF Does, R!DATA, R!DIRECTION
<1>7. g2 \in Pins /\ g2.direction = 5 /\ g2.control = 1
  BY <1>1, <1>6, SMTT(30) DEF Pins
<1>8. Told(p + 1, x, c2, g2, bits, start, now, all)
  <2>1. CASE a = 0
    BY <1>1, <1>4, <1>6, <1>7, <2>1 DEF Told, a, m
  <2>2. CASE a > 0
    <3>1. 0 \in 0..a /\ ~(a = 0)
      BY <1>2, <2>2
    <3>2. Telling(x, c2, 0, TRUE, bits, 0, start, now, all)
      BY <1>1, <1>6, <2>2
    <3> QED
      BY <1>1, <1>4, <1>6, <1>7, <3>1, <3>2 DEF Told, a, m
  <2> QED
    BY <1>2, <2>1, <2>2
<1> QED
  BY <1>6, <1>7, <1>8 DEF Stage, Going

LEMMA ToldStep ==
  ASSUME NEW p \in Nat, NEW x, NEW c, NEW g, NEW bits, NEW start, NEW now, NEW all, NEW c2, NEW g2,
         Going(x, c, g, start, now, all), Moved(p, x, c, g, now, c2, g2),
         Told(p, x, c, g, bits, start, now, all), R!Script[x][p + 1] # << >>
  PROVE  Going(x, c2, g2, start, now, all) /\ Stage(p + 1, x, c2, g2, bits, start, now, all)
<1> DEFINE m == Sends(x)
           a == R!AnswerBits(x.op)
<1>1. /\ x \in Transactions /\ c \in ClockChips /\ g \in Pins /\ g.control = 1 /\ g.direction = 5
      /\ c.status \in After(x, all) /\ start \in Int /\ now \in Int /\ all \subseteq Int
  BY DEF Going, Told
<1>2. x \in R!Transaction /\ m \in Nat /\ a \in Nat
  BY <1>1, RtcAssumption, Lengths
<1>3. ASSUME NEW v \in 0..15, R!Script[x][p + 1] = <<R!DATA, v>>
      PROVE  c2 = R!pin_update(c, v, now) /\ g2 \in Pins /\ g2.control = 1 /\ g2.direction = 5
  <2>1. Does(R!DATA, v, c, g, now, c2, g2)
    BY <1>3 DEF Moved
  <2> QED
    BY <1>1, <2>1, DataStored
<1>4. R!Script[x][((21 + 2 * m) + 3 * a) + 1] = <<R!DATA, 1>>
  BY <1>1, ScriptShape
<1>5. \A n \in 0..(a - 1) : /\ R!Script[x][((21 + 2 * m) + 3 * n) + 1] = <<R!DATA, 4>>
                          /\ R!Script[x][((22 + 2 * m) + 3 * n) + 1] = <<R!DATA, 5>>
                          /\ R!Script[x][((23 + 2 * m) + 3 * n) + 1] = << >>
  BY <1>1, ScriptShape
<1>6. ASSUME p = (21 + 2 * m) + 3 * a,
             a > 0 => \E bytes \in Truths(x, start, now, all) : bits = R!Wire(bytes)
      PROVE  Going(x, c2, g2, start, now, all) /\ Stage(p + 1, x, c2, g2, bits, start, now, all)
  <2>1. R!Script[x][p + 1] = <<R!DATA, 1>> /\ 1 \in 0..15
    BY <1>4, <1>6
  <2>2. c2 = R!pin_update(c, 1, now) /\ g2 \in Pins
    BY <1>3, <2>1
  <2>3. c2 \in ClockChips /\ c2.status = c.status
    BY <1>1, <2>2, Deselects
  <2>4. p + 1 = (22 + 2 * m) + 3 * a
    BY <1>2, <1>6
  <2>5. Ended(p + 1, x, c2, bits, start, now, all)
    BY <1>1, <1>6, <2>3, <2>4 DEF Ended
  <2> QED
    BY <1>1, <2>2, <2>3, <2>5 DEF Stage, Going
<1>7. CASE a = 0
  <2>1. p = 21 + 2 * m
    BY <1>7 DEF Told
  <2>2. p = (21 + 2 * m) + 3 * a /\ ~(a > 0)
    BY <1>2, <1>7, <2>1
  <2> QED
    BY <1>6, <2>2
<1>8. CASE a # 0
  <2>1. PICK n \in 0..a :
          \/ p = (21 + 2 * m) + 3 * n /\ Telling(x, c, n, TRUE, bits, n, start, now, all)
          \/ /\ n < a /\ p = (22 + 2 * m) + 3 * n
             /\ Telling(x, c, n + 1, FALSE, bits, n, start, now, all)
          \/ /\ n < a /\ p = (23 + 2 * m) + 3 * n
             /\ Telling(x, c, n + 1, TRUE, bits, n, start, now, all)
    BY <1>8 DEF Told
  <2> HIDE DEF m, a
  <2>2. a > 0 /\ n \in Nat
    BY <1>2, <1>8
  <2>3. \A bytes \in Truths(x, start, now, all) : bytes \in Seq(Int) /\ 8 * Len(bytes) = a
    BY <1>1, <1>2, <2>2, TruthsType DEF a
  <2>4. CASE n < a /\ p = (23 + 2 * m) + 3 * n
    <3>1. n \in 0..(a - 1)
      BY <1>2, <2>4
    <3>2. R!Script[x][p + 1] = << >>
      BY <1>5, <2>4, <3>1
    <3> QED
      BY <3>2
  <2>5. CASE n = a /\ p = (21 + 2 * m) + 3 * n /\ Telling(x, c, n, TRUE, bits, n, start, now, all)
    <3>1. PICK bytes \in Truths(x, start, now, all) :
            /\ bits \in Seq({0, 1}) /\ Len(bits) = n
            /\ \A i \in 1..n : bits[i] = R!Wire(bytes)[i]
      BY <2>5 DEF Telling
    <3>2. R!Wire(bytes) \in Seq({0, 1}) /\ Len(R!Wire(bytes)) = n
      BY <2>3, <2>5, <3>1, WireType
    <3> DEFINE w == R!Wire(bytes)
    <3> HIDE DEF w
    <3>3. w \in Seq({0, 1}) /\ Len(w) = n /\ \A i \in 1..n : bits[i] = w[i]
      BY <3>1, <3>2 DEF w
    <3>4. bits = w
      BY <2>2, <3>1, <3>3, SeqEqual
    <3>5. a > 0 => \E by \in Truths(x, start, now, all) : bits = R!Wire(by)
      BY <3>1, <3>4 DEF w
    <3>6. p = (21 + 2 * m) + 3 * a
      BY <2>5
    <3> QED
      BY <1>6, <3>5, <3>6 DEF m, a
  <2>6. CASE n < a /\ p = (21 + 2 * m) + 3 * n /\ Telling(x, c, n, TRUE, bits, n, start, now, all)
    <3>1. PICK bytes \in Truths(x, start, now, all) :
            /\ Sent(c, bytes, n, TRUE) /\ bits \in Seq({0, 1}) /\ Len(bits) = n
            /\ \A i \in 1..n : bits[i] = R!Wire(bytes)[i]
      BY <2>6 DEF Telling
    <3>2. n \in 0..(a - 1) /\ bytes \in Seq(Int) /\ 8 * Len(bytes) = a
      BY <1>2, <2>3, <2>6, <3>1
    <3>3. R!Script[x][p + 1] = <<R!DATA, 4>> /\ 4 \in 0..15
      BY <1>5, <2>6, <3>2, SMTT(30)
    <3>4. c2 = R!pin_update(c, 4, now) /\ g2 \in Pins /\ g2.control = 1 /\ g2.direction = 5
      BY <1>3, <3>3
    <3>5. c2 \in ClockChips /\ Sent(c2, bytes, n + 1, FALSE) /\ c2.status = c.status
      <4>1. n \in 0..(8 * Len(bytes) - 1)
        BY <3>2
      <4> QED
        BY <1>1, <3>1, <3>2, <3>4, <4>1, TellsBit
    <3>6. p + 1 = (22 + 2 * m) + 3 * n
      BY <1>2, <2>6
    <3>7. Telling(x, c2, n + 1, FALSE, bits, n, start, now, all)
      BY <3>1, <3>5 DEF Telling
    <3>8. Told(p + 1, x, c2, g2, bits, start, now, all)
      BY <1>1, <1>8, <2>1, <2>6, <3>4, <3>5, <3>6, <3>7 DEF Told, m, a
    <3> QED
      BY <1>1, <3>4, <3>5, <3>8 DEF Stage, Going
  <2>7. CASE n < a /\ p = (22 + 2 * m) + 3 * n /\ Telling(x, c, n + 1, FALSE, bits, n, start, now, all)
    <3>1. PICK bytes \in Truths(x, start, now, all) :
            /\ Sent(c, bytes, n + 1, FALSE) /\ bits \in Seq({0, 1}) /\ Len(bits) = n
            /\ \A i \in 1..n : bits[i] = R!Wire(bytes)[i]
      BY <2>7 DEF Telling
    <3>2. n \in 0..(a - 1) /\ n + 1 \in Nat
      BY <1>2, <2>7
    <3>3. R!Script[x][p + 1] = <<R!DATA, 5>> /\ 5 \in 0..15
      BY <1>5, <2>7, <3>2
    <3>4. c2 = R!pin_update(c, 5, now) /\ g2 \in Pins /\ g2.control = 1 /\ g2.direction = 5
      BY <1>3, <3>3
    <3>5. c2 \in ClockChips /\ Sent(c2, bytes, n + 1, TRUE) /\ c2.status = c.status
      BY <1>1, <3>1, <3>2, <3>4, RestsBit
    <3>6. p + 1 = (23 + 2 * m) + 3 * n
      BY <1>2, <2>7
    <3>7. Telling(x, c2, n + 1, TRUE, bits, n, start, now, all)
      BY <3>1, <3>5 DEF Telling
    <3>8. Told(p + 1, x, c2, g2, bits, start, now, all)
      BY <1>1, <1>8, <2>1, <2>7, <3>4, <3>5, <3>6, <3>7 DEF Told, m, a
    <3> QED
      BY <1>1, <3>4, <3>5, <3>8 DEF Stage, Going
  <2>8. n = a \/ n < a
    BY <1>2
  <2> QED
    BY <2>1, <2>4, <2>5, <2>6, <2>7, <2>8
<1> QED
  BY <1>7, <1>8

(* Where the library samples, the chip has just sent the next bit.         *)
LEMMA SamplePlace ==
  ASSUME NEW p \in Nat, NEW x, NEW c, NEW g, NEW bits, NEW start, NEW now, NEW all,
         Going(x, c, g, start, now, all), Stage(p, x, c, g, bits, start, now, all),
         p # Len(R!Script[x]), R!Script[x][p + 1] = << >>
  PROVE  /\ g.control = 1 /\ g.direction = 5 /\ c.status \in After(x, all) /\ R!AnswerBits(x.op) # 0
         /\ \E n \in 0..(R!AnswerBits(x.op) - 1) :
              p = (23 + 2 * Sends(x)) + 3 * n /\ Telling(x, c, n + 1, TRUE, bits, n, start, now, all)
<1> DEFINE m == Sends(x)
           a == R!AnswerBits(x.op)
           s == R!Script[x]
<1>1. x \in Transactions /\ x \in R!Transaction /\ m \in Nat /\ a \in Nat
  BY RtcAssumption, Lengths DEF Going
<1>2. /\ Len(s) = (22 + 2 * m) + 3 * a
      /\ s[1] = <<R!CONTROL, 1>> /\ s[2] = <<R!DIRECTION, 7>>
      /\ s[3] = <<R!DATA, 1>> /\ s[4] = <<R!DATA, 5>>
      /\ s[(20 + 2 * m) + 1] = <<R!DIRECTION, 5>>
      /\ s[((21 + 2 * m) + 3 * a) + 1] = <<R!DATA, 1>>
  BY <1>1, ScriptShape
<1>3. /\ \A k \in 0..7 : /\ s[(4 + 2 * k) + 1] = <<R!DATA, 4 + 2 * R!Bit(x.op, 7 - k)>>
                         /\ s[(5 + 2 * k) + 1] = <<R!DATA, 5 + 2 * R!Bit(x.op, 7 - k)>>
      /\ \A n \in 0..(m - 1) :
           /\ s[(20 + 2 * n) + 1] = <<R!DATA, 4 + 2 * R!Wire(R!Payload(x))[n + 1]>>
           /\ s[(21 + 2 * n) + 1] = <<R!DATA, 5 + 2 * R!Wire(R!Payload(x))[n + 1]>>
      /\ \A n \in 0..(a - 1) : s[((21 + 2 * m) + 3 * n) + 1] = <<R!DATA, 4>>
      /\ \A n \in 0..(a - 1) : s[((22 + 2 * m) + 3 * n) + 1] = <<R!DATA, 5>>
  BY <1>1, ScriptShape
<1> HIDE DEF m, a, s
<1>4. \A q, r : <<q, r>> # << >>
  OBVIOUS
<1>5. s[p + 1] = << >>
  BY DEF s
<1>6. ~Opened(p, c, g, bits)
  <2>1. ASSUME p \in 0..3 PROVE FALSE
    BY <1>2, <1>4, <1>5, <2>1, SMTT(40)
  <2> QED
    BY <2>1 DEF Opened
<1>7. ~Commanded(p, x, c, g, bits)
  <2>1. ASSUME NEW k \in 0..7, p = 4 + 2 * k \/ p = 5 + 2 * k PROVE FALSE
    BY <1>3, <1>4, <1>5, <2>1, ZenonT(60)
  <2> QED
    BY <2>1 DEF Commanded
<1>8. ~Provided(p, x, c, g, bits)
  <2>1. ASSUME NEW n \in 0..(m - 1), p = 20 + 2 * n \/ p = 21 + 2 * n PROVE FALSE
    BY <1>3, <1>4, <1>5, <2>1, ZenonT(60)
  <2> QED
    BY <2>1 DEF Provided, m
<1>9. ~Executed(p, x, c, g, bits, start, now, all)
  <2>1. ASSUME p = 20 + m * 2 PROVE FALSE
    <3>1. p = 20 + 2 * m
      BY <1>1, <2>1
    <3> QED
      BY <1>2, <1>4, <1>5, <3>1
  <2> QED
    BY <2>1 DEF Executed, m
<1>10. ~Ended(p, x, c, bits, start, now, all)
  BY <1>2 DEF Ended, m, a, s
<1>11. Told(p, x, c, g, bits, start, now, all)
  BY <1>6, <1>7, <1>8, <1>9, <1>10 DEF Stage
<1>12. g.control = 1 /\ g.direction = 5 /\ c.status \in After(x, all)
  BY <1>11 DEF Told
<1>13. ASSUME p = (21 + 2 * m) + 3 * a PROVE FALSE
  BY <1>2, <1>4, <1>5, <1>13
<1>14. a # 0
  <2>1. ASSUME a = 0 PROVE FALSE
    <3>1. p = 21 + 2 * m
      BY <1>11, <2>1 DEF Told, a, m
    <3>2. p = (21 + 2 * m) + 3 * a
      BY <1>1, <2>1, <3>1
    <3> QED
      BY <1>13, <3>2
  <2> QED
    BY <2>1
<1>15. PICK n \in 0..a :
         \/ p = (21 + 2 * m) + 3 * n
         \/ n < a /\ p = (22 + 2 * m) + 3 * n
         \/ /\ n < a /\ p = (23 + 2 * m) + 3 * n
            /\ Telling(x, c, n + 1, TRUE, bits, n, start, now, all)
  BY <1>11, <1>14 DEF Told, a, m
<1>16. n < a \/ n = a
  BY <1>1
<1>17. n = a => p # (21 + 2 * m) + 3 * n
  BY <1>13
<1>18. n < a => n \in 0..(a - 1)
  BY <1>1
<1>19. n < a => p # (21 + 2 * m) + 3 * n /\ p # (22 + 2 * m) + 3 * n
  BY <1>3, <1>4, <1>5, <1>18, ZenonT(60)
<1> QED
  BY <1>12, <1>14, <1>15, <1>16, <1>17, <1>18, <1>19 DEF a, m

(* The last place of a script is behind its last move.                     *)
LEMMA LastPlace ==
  ASSUME NEW p \in Nat, NEW x \in Transactions, NEW c, NEW g, NEW bits, NEW start, NEW now, NEW all,
         Stage(p, x, c, g, bits, start, now, all), p = Len(R!Script[x])
  PROVE  Ended(p, x, c, bits, start, now, all)
<1> DEFINE m == Sends(x)
           a == R!AnswerBits(x.op)
<1>1. m \in Nat /\ a \in Nat
  BY RtcAssumption, Lengths
<1>2. p = (22 + 2 * m) + 3 * a
  BY ScriptShape
<1> HIDE DEF m, a
<1>3. ~Opened(p, c, g, bits)
  <2>1. ~(p \in 0..3)
    BY <1>1, <1>2
  <2> QED
    BY <2>1 DEF Opened
<1>4. ~Commanded(p, x, c, g, bits)
  <2>1. \A k \in 0..7 : p # 4 + 2 * k /\ p # 5 + 2 * k
    BY <1>1, <1>2
  <2> QED
    BY <2>1 DEF Commanded
<1>5. ~Provided(p, x, c, g, bits)
  <2>1. \A n \in 0..(m - 1) : p # 20 + 2 * n /\ p # 21 + 2 * n
    BY <1>1, <1>2
  <2> QED
    BY <2>1 DEF Provided, m
<1>6. ~Executed(p, x, c, g, bits, start, now, all)
  <2>1. p # 20 + m * 2
    BY <1>1, <1>2
  <2> QED
    BY <2>1 DEF Executed, m
<1>7. ~Told(p, x, c, g, bits, start, now, all)
  <2>1. p # 21 + 2 * m
    BY <1>1, <1>2
  <2>2. ASSUME NEW n \in 0..a,
               \/ p = (21 + 2 * m) + 3 * n
               \/ n < a /\ p = (22 + 2 * m) + 3 * n
               \/ n < a /\ p = (23 + 2 * m) + 3 * n
        PROVE  FALSE
    BY <1>1, <1>2, <2>2
  <2>3. CASE a = 0
    BY <2>1, <2>3 DEF Told, m, a
  <2>4. CASE a # 0
    <3>1. Told(p, x, c, g, bits, start, now, all) =>
            \E n \in 0..a :
              \/ p = (21 + 2 * m) + 3 * n
              \/ n < a /\ p = (22 + 2 * m) + 3 * n
              \/ n < a /\ p = (23 + 2 * m) + 3 * n
      BY <2>4 DEF Told, m, a
    <3> QED
      BY <2>2, <3>1
  <2> QED
    BY <2>3, <2>4
<1> QED
  BY <1>3, <1>4, <1>5, <1>6, <1>7 DEF Stage

LEMMA AfterType ==
  ASSUME NEW x \in Transactions, NEW all, all \subseteq Int
  PROVE  After(x, all) \subseteq Int
<1>1. R!POWER_ON_STATUS \in Int /\ R!WRITE_STATUS # R!RESET
  BY DEF R!POWER_ON_STATUS, R!WRITE_STATUS, R!RESET
<1>2. x.op = R!WRITE_STATUS => x.value \in Int
  BY RtcAssumption, Lengths
<1>3. CASE x.op = R!WRITE_STATUS
  BY <1>1, <1>2, <1>3 DEF After
<1>4. CASE x.op = R!RESET
  BY <1>1, <1>4 DEF After
<1>5. CASE x.op # R!WRITE_STATUS /\ x.op # R!RESET
  BY <1>5 DEF After
<1> QED
  BY <1>3, <1>4, <1>5

(* The clock goes on under a transaction.                                  *)
LEMMA StageGrows ==
  ASSUME NEW p, NEW x, NEW c, NEW g, NEW bits, NEW start \in Int, NEW now \in Int, NEW all,
         Stage(p, x, c, g, bits, start, now, all)
  PROVE  Stage(p, x, c, g, bits, start, now + 1, all)
<1>1. Truths(x, start, now, all) \subseteq Truths(x, start, now + 1, all)
  <2>1. now + 1 \in Int /\ start <= start /\ now <= now + 1
    OBVIOUS
  <2> QED
    BY <2>1, TruthsGrow
<1>2. ASSUME NEW n, NEW sck, NEW m, Telling(x, c, n, sck, bits, m, start, now, all)
      PROVE  Telling(x, c, n, sck, bits, m, start, now + 1, all)
  BY <1>1, <1>2 DEF Telling
<1>3. CASE Opened(p, c, g, bits) \/ Commanded(p, x, c, g, bits) \/ Provided(p, x, c, g, bits)
  BY <1>3 DEF Stage
<1>4. CASE Executed(p, x, c, g, bits, start, now, all)
  <2>1. Executed(p, x, c, g, bits, start, now + 1, all)
    BY <1>2, <1>4 DEF Executed
  <2> QED
    BY <2>1 DEF Stage
<1>5. CASE Told(p, x, c, g, bits, start, now, all)
  <2>1. Told(p, x, c, g, bits, start, now + 1, all)
    <3>1. CASE R!AnswerBits(x.op) = 0
      BY <1>5, <3>1 DEF Told
    <3>2. CASE R!AnswerBits(x.op) # 0
      BY <1>2, <1>5, <3>2 DEF Told
    <3> QED
      BY <3>1, <3>2
  <2> QED
    BY <2>1 DEF Stage
<1>6. CASE Ended(p, x, c, bits, start, now, all)
  <2>1. Ended(p, x, c, bits, start, now + 1, all)
    BY <1>1, <1>6 DEF Ended
  <2> QED
    BY <2>1 DEF Stage
<1> QED
  BY <1>3, <1>4, <1>5, <1>6 DEF Stage

(* A store of the library, by halfword or by byte, stores its value; a     *)
(* sample takes what the chip sends.                                       *)
LEMMA RegisterFits ==
  ASSUME gpio \in Pins, rtc \in ClockChips, NEW off
  PROVE  R!read_reg(off) \in 0..15
<1>1. gpio.data \in 0..15 /\ gpio.direction \in 0..15 /\ gpio.control \in 0..1 /\ rtc.sio_out \in {0, 1}
  BY DEF Pins, ClockChips
<1> DEFINE b0 == R!Bit(gpio.data, 0)
           b1 == R!Bit(gpio.data, 1)
           b2 == R!Bit(gpio.data, 2)
<1>2. b0 \in {0, 1} /\ b1 \in {0, 1} /\ b2 \in {0, 1}
  <2>1. gpio.data \in Int /\ 0 \in 0..7 /\ 1 \in 0..7 /\ 2 \in 0..7
    BY <1>1
  <2> QED
    BY <2>1, BitType
<1> DEFINE s == IF R!Bit(gpio.direction, 1) = 1 THEN b1 ELSE rtc.sio_out
<1>3. s \in {0, 1}
  BY <1>1, <1>2
<1>4. b0 + 4 * b2 + 2 * s \in 0..15
  BY <1>2, <1>3
<1>5. CASE gpio.control = 0
  BY <1>5 DEF R!read_reg
<1>6. CASE gpio.control # 0 /\ off = R!DATA
  <2>1. R!read_reg(off) = b0 + 4 * b2 + 2 * s
    BY <1>6 DEF R!read_reg, R!DATA, R!DIRECTION
  <2> QED
    BY <1>4, <2>1
<1>7. CASE gpio.control # 0 /\ off # R!DATA /\ off = R!DIRECTION
  BY <1>1, <1>7 DEF R!read_reg
<1>8. CASE gpio.control # 0 /\ off # R!DATA /\ off # R!DIRECTION
  <2>1. R!read_reg(off) = gpio.control
    BY <1>8 DEF R!read_reg
  <2> QED
    BY <1>1, <2>1
<1> QED
  BY <1>5, <1>6, <1>7, <1>8

LEMMA SampleTakes ==
  ASSUME gpio \in Pins, rtc \in ClockChips, gpio.control = 1, gpio.direction = 5
  PROVE  R!Bit(R!read_reg(R!DATA), 1) = rtc.sio_out
<1>1. gpio.data \in 0..15 /\ rtc.sio_out \in {0, 1}
  BY DEF Pins, ClockChips
<1> DEFINE b0 == R!Bit(gpio.data, 0)
           b2 == R!Bit(gpio.data, 2)
           s == rtc.sio_out
<1>2. b0 \in {0, 1} /\ b2 \in {0, 1}
  <2>1. gpio.data \in Int /\ 0 \in 0..7 /\ 2 \in 0..7
    BY <1>1
  <2> QED
    BY <2>1, BitType
<1>3. R!read_reg(R!DATA) = b0 + 4 * b2 + 2 * s
  <2>1. ~(R!Bit(gpio.direction, 1) = 1)
    BY Levels
  <2> QED
    BY <2>1 DEF R!read_reg, R!DATA, R!DIRECTION
<1> HIDE DEF b0, b2, s
<1>4. ((b0 + 4 * b2 + 2 * s) \div 2) % 2 = s
  BY <1>1, <1>2 DEF s
<1>5. R!Bit(b0 + 4 * b2 + 2 * s, 1) = s
  BY <1>4, Powers DEF R!Bit
<1> QED
  BY <1>3, <1>5 DEF s

LEMMA StoreMoves ==
  ASSUME gpio \in Pins, rtc \in ClockChips, rtcLibrary \in [place : Nat, run : Transactions], R!Store
  PROVE  /\ Moved(rtcLibrary.place, rtcLibrary.run, rtc, gpio, clock, rtc', gpio')
         /\ rtcLibrary' = [rtcLibrary EXCEPT !.place = rtcLibrary.place + 1]
         /\ R!Script[rtcLibrary.run][rtcLibrary.place + 1] # << >>
         /\ rtcLibrary.place # Len(R!Script[rtcLibrary.run])
         /\ UNCHANGED <<clock, got, since, allowed>>
<1>1. ASSUME NEW off, NEW v \in 0..15, R!Due = <<off, v>>
      PROVE  Does(off, v, rtc, gpio, clock, rtc', gpio')
  <2>1. R!Due[1] = off /\ R!Due[2] = v
    BY <1>1
  <2>2. R!Merged(off, v) = v
    <3>1. R!read_reg(off) \in 0..15
      BY RegisterFits
    <3> DEFINE r == R!read_reg(off)
    <3> HIDE DEF r
    <3>2. r \in 0..15
      BY <3>1 DEF r
    <3>3. 256 * (r \div 256) + v = v
      BY <3>2
    <3> QED
      BY <3>3 DEF R!Merged, r
  <2>3. R!write_reg(off, v)
    BY <2>1, <2>2 DEF R!Store
  <2>4. v % 16 = v
    OBVIOUS
  <2> QED
    BY <2>3, <2>4 DEF R!write_reg, Does
<1>2. Moved(rtcLibrary.place, rtcLibrary.run, rtc, gpio, clock, rtc', gpio')
  BY <1>1 DEF Moved, R!Due
<1>3. rtcLibrary' = [rtcLibrary EXCEPT !.place = rtcLibrary.place + 1]
  BY DEF R!Store, R!Advance
<1> QED
  BY <1>2, <1>3 DEF R!Store, R!Due, R!AtEnd

(* The clock of a new machine.                                             *)
LEMMA NewClock ==
  /\ R!NewChip \in ClockChips /\ R!NewChip.status = R!POWER_ON_STATUS
  /\ R!NewGpio \in Pins /\ {R!POWER_ON_STATUS} \subseteq Int
<1>1. "Idle" \in ChipStates /\ << >> \in Seq(Int) /\ R!POWER_ON_STATUS \in Int
  BY DEF ChipStates, R!POWER_ON_STATUS
<1>2. R!NewChip \in ClockChips /\ R!NewChip.status = R!POWER_ON_STATUS
  BY <1>1 DEF R!NewChip, ClockChips
<1>3. R!NewGpio \in Pins
  BY DEF R!NewGpio, Pins
<1> QED
  BY <1>1, <1>2, <1>3

LEMMA ClockStarts == BusInit => ClockInv
<1> SUFFICES ASSUME BusInit PROVE ClockInv
  OBVIOUS
<1>1. R!Init
  BY DEF BusInit, CartInit
<1>2. /\ gpio = R!NewGpio /\ rtc = R!NewChip /\ clock \in Int /\ got = << >>
      /\ rtcLibrary = R!NoTransaction /\ allowed = {R!POWER_ON_STATUS}
  BY <1>1, RtcAssumption DEF R!Init
<1> QED
  BY <1>2, NewClock DEF ClockInv, ClockState

(* A transaction under way has a place and a text.                         *)
LEMMA UnderWay ==
  ASSUME NEW lib \in [place : Nat, run : Transactions]
  PROVE  lib # R!NoTransaction
<1>1. "run" \in DOMAIN lib /\ "run" \notin DOMAIN R!NoTransaction
  BY DEF R!NoTransaction
<1> QED
  BY <1>1

LEMMA InTransaction ==
  ASSUME ClockInv, R!Running
  PROVE  /\ rtcLibrary \in [place : Nat, run : Transactions]
         /\ rtcLibrary.place \in Nat /\ rtcLibrary.run \in Transactions
         /\ Going(rtcLibrary.run, rtc, gpio, since, clock, allowed)
         /\ Stage(rtcLibrary.place, rtcLibrary.run, rtc, gpio, got, since, clock, allowed)
<1>1. /\ rtcLibrary \in [place : Nat, run : Transactions] /\ since \in Int /\ since <= clock
      /\ rtc.status \in allowed \cup After(rtcLibrary.run, allowed)
      /\ Stage(rtcLibrary.place, rtcLibrary.run, rtc, gpio, got, since, clock, allowed)
      /\ rtc \in ClockChips /\ gpio \in Pins /\ clock \in Int /\ allowed \subseteq Int
  BY DEF ClockInv, ClockState, R!Running
<1>2. rtcLibrary.place \in Nat /\ rtcLibrary.run \in Transactions
  BY <1>1
<1> QED
  BY <1>1, <1>2 DEF Going

LEMMA GoingOn ==
  ASSUME NEW p \in Nat, NEW x, NEW c, NEW g, NEW bits, NEW start, NEW now, NEW all,
         Going(x, c, g, start, now, all), Stage(p, x, c, g, bits, start, now, all)
  PROVE  ClockState(c, g, [place |-> p, run |-> x], bits, start, now, all)
<1> DEFINE lib == [place |-> p, run |-> x]
<1>1. lib.place = p /\ lib.run = x
  OBVIOUS
<1>2. lib \in [place : Nat, run : Transactions]
  BY DEF Going
<1> HIDE DEF lib
<1> QED
  BY <1>1, <1>2 DEF ClockState, Going, lib

(* The steps of the library and of the clock.                              *)
LEMMA StoreStep == ClockInv /\ R!Store => ClockInv'
<1> SUFFICES ASSUME ClockInv, R!Store PROVE ClockInv'
  OBVIOUS
<1> DEFINE p == rtcLibrary.place
           x == rtcLibrary.run
<1>1. /\ rtcLibrary \in [place : Nat, run : Transactions] /\ p \in Nat
      /\ Going(x, rtc, gpio, since, clock, allowed)
      /\ Stage(p, x, rtc, gpio, got, since, clock, allowed)
  BY InTransaction DEF R!Store
<1>2. gpio \in Pins /\ rtc \in ClockChips /\ x \in Transactions
  BY <1>1 DEF Going
<1>3. /\ Moved(p, x, rtc, gpio, clock, rtc', gpio')
      /\ rtcLibrary' = [rtcLibrary EXCEPT !.place = p + 1]
      /\ R!Script[x][p + 1] # << >> /\ p # Len(R!Script[x])
      /\ clock' = clock /\ got' = got /\ since' = since /\ allowed' = allowed
  BY <1>1, <1>2, StoreMoves
<1>4. rtcLibrary' = [place |-> p + 1, run |-> x]
  BY <1>1, <1>3
<1> HIDE DEF p, x
<1>5. ~Ended(p, x, rtc, got, since, clock, allowed)
  BY <1>2, <1>3, ScriptShape DEF Ended
<1>6. Going(x, rtc', gpio', since, clock, allowed) /\ Stage(p + 1, x, rtc', gpio', got, since, clock, allowed)
  <2>1. CASE Opened(p, rtc, gpio, got)
    BY <1>1, <1>3, <2>1, OpenedStep
  <2>2. CASE Commanded(p, x, rtc, gpio, got)
    BY <1>1, <1>3, <2>2, CommandedStep
  <2>3. CASE Provided(p, x, rtc, gpio, got)
    BY <1>1, <1>3, <2>3, ProvidedStep
  <2>4. CASE Executed(p, x, rtc, gpio, got, since, clock, allowed)
    BY <1>1, <1>3, <2>4, ExecutedStep
  <2>5. CASE Told(p, x, rtc, gpio, got, since, clock, allowed)
    BY <1>1, <1>3, <2>5, ToldStep
  <2> QED
    BY <1>1, <1>5, <2>1, <2>2, <2>3, <2>4, <2>5 DEF Stage
<1>7. p + 1 \in Nat
  BY <1>1
<1>8. ClockState(rtc', gpio', [place |-> p + 1, run |-> x], got, since, clock, allowed)
  BY <1>6, <1>7, GoingOn
<1> QED
  BY <1>3, <1>4, <1>8 DEF ClockInv

LEMMA SampleStep == ClockInv /\ R!Sample => ClockInv'
<1> SUFFICES ASSUME ClockInv, R!Sample PROVE ClockInv'
  OBVIOUS
<1> DEFINE p == rtcLibrary.place
           x == rtcLibrary.run
           m == Sends(x)
           a == R!AnswerBits(x.op)
<1>1. /\ rtcLibrary \in [place : Nat, run : Transactions] /\ p \in Nat
      /\ Going(x, rtc, gpio, since, clock, allowed)
      /\ Stage(p, x, rtc, gpio, got, since, clock, allowed)
  BY InTransaction DEF R!Sample
<1>2. gpio \in Pins /\ rtc \in ClockChips /\ x \in Transactions
  BY <1>1 DEF Going
<1>3. /\ got' = Append(got, R!Bit(R!read_reg(R!DATA), 1))
      /\ rtcLibrary' = [rtcLibrary EXCEPT !.place = p + 1]
      /\ R!Script[x][p + 1] = << >> /\ p # Len(R!Script[x])
      /\ clock' = clock /\ since' = since /\ allowed' = allowed /\ gpio' = gpio /\ rtc' = rtc
  BY DEF R!Sample, R!Advance, R!AtEnd, R!Due
<1>4. rtcLibrary' = [place |-> p + 1, run |-> x]
  BY <1>1, <1>3
<1>5. m \in Nat /\ a \in Nat
  BY <1>2, RtcAssumption, Lengths
<1> HIDE DEF p, x
<1>6. /\ gpio.control = 1 /\ gpio.direction = 5 /\ rtc.status \in After(x, allowed) /\ a # 0
      /\ \E n \in 0..(a - 1) :
           p = (23 + 2 * m) + 3 * n /\ Telling(x, rtc, n + 1, TRUE, got, n, since, clock, allowed)
  BY <1>1, <1>3, SamplePlace
<1>7. PICK n \in 0..(a - 1) :
        p = (23 + 2 * m) + 3 * n /\ Telling(x, rtc, n + 1, TRUE, got, n, since, clock, allowed)
  BY <1>6
<1>8. PICK bytes \in Truths(x, since, clock, allowed) :
        /\ Sent(rtc, bytes, n + 1, TRUE) /\ got \in Seq({0, 1}) /\ Len(got) = n
        /\ \A i \in 1..n : got[i] = R!Wire(bytes)[i]
  BY <1>7 DEF Telling
<1>9. R!Bit(R!read_reg(R!DATA), 1) = rtc.sio_out /\ rtc.sio_out \in {0, 1}
  BY <1>2, <1>6, SampleTakes DEF ClockChips
<1> HIDE DEF m, a
<1>10. rtc.sio_out = R!Wire(bytes)[n + 1] /\ n \in Nat
  <2>1. n + 1 > 0 /\ n \in Nat
    BY <1>5
  <2> QED
    BY <1>8, <2>1 DEF Sent
<1>11. /\ got' \in Seq({0, 1}) /\ Len(got') = n + 1
       /\ \A i \in 1..(n + 1) : got'[i] = R!Wire(bytes)[i]
  <2> DEFINE v == rtc.sio_out
  <2>1. got' = Append(got, v) /\ v \in {0, 1}
    BY <1>3, <1>9
  <2> HIDE DEF v
  <2>2. /\ Append(got, v) \in Seq({0, 1}) /\ Len(Append(got, v)) = n + 1
        /\ \A i \in 1..n : Append(got, v)[i] = got[i]
        /\ Append(got, v)[n + 1] = v
    BY <1>8, <2>1, AppendProperties
  <2>3. \A i \in 1..(n + 1) : i \in 1..n \/ i = n + 1
    BY <1>10
  <2> QED
    BY <1>8, <1>10, <2>1, <2>2, <2>3 DEF v
<1>12. Telling(x, rtc, n + 1, TRUE, got', n + 1, since, clock, allowed)
  BY <1>8, <1>11 DEF Telling
<1>13. p + 1 = (21 + 2 * m) + 3 * (n + 1) /\ n + 1 \in 0..a /\ p + 1 \in Nat
  BY <1>1, <1>5, <1>7
<1>14. Told(p + 1, x, rtc, gpio, got', since, clock, allowed)
  BY <1>6, <1>12, <1>13 DEF Told, a, m
<1>15. ClockState(rtc, gpio, [place |-> p + 1, run |-> x], got', since, clock, allowed)
  BY <1>1, <1>13, <1>14, GoingOn DEF Stage
<1> QED
  BY <1>3, <1>4, <1>15 DEF ClockInv

LEMMA FreeSteps ==
  ASSUME ClockInv, \/ \E x \in Transactions : R!Begin(x)
                   \/ R!End \/ R!Restart \/ R!PowerCycle \/ R!Tick
  PROVE  ClockInv'
<1>1. /\ rtc \in ClockChips /\ gpio \in Pins /\ clock \in Int /\ allowed \subseteq Int
      /\ ~R!Running => got = << >> /\ rtc.status \in allowed
  <2>1. rtcLibrary \in [place : Nat, run : Transactions] => R!Running
    BY UnderWay DEF R!Running
  <2> QED
    BY <2>1 DEF ClockInv, ClockState
<1>2. ASSUME NEW x \in Transactions, R!Begin(x) PROVE ClockInv'
  <2>1. /\ ~R!Running /\ rtcLibrary' = [place |-> 0, run |-> x] /\ since' = clock
        /\ gpio' = gpio /\ rtc' = rtc /\ clock' = clock /\ got' = got /\ allowed' = allowed
    BY <1>2 DEF R!Begin
  <2>2. Going(x, rtc, gpio, clock, clock, allowed)
    BY <1>1, <2>1 DEF Going
  <2>3. Opened(0, rtc, gpio, got)
    BY <1>1, <2>1 DEF Opened
  <2>4. ClockState(rtc, gpio, [place |-> 0, run |-> x], got, clock, clock, allowed)
    BY <2>2, <2>3, GoingOn DEF Stage
  <2> QED
    BY <2>1, <2>4 DEF ClockInv
<1>3. ASSUME rtcLibrary' = R!NoTransaction, got' = << >>, rtc' \in ClockChips, gpio' \in Pins,
             clock' = clock, allowed' \subseteq Int, rtc'.status \in allowed'
      PROVE  ClockInv'
  BY <1>1, <1>3 DEF ClockInv, ClockState
<1>4. CASE R!End
  <2> DEFINE p == rtcLibrary.place
             x == rtcLibrary.run
  <2>1. /\ R!Running /\ p = Len(R!Script[x]) /\ rtcLibrary' = R!NoTransaction /\ got' = << >>
        /\ allowed' = After(x, allowed) /\ gpio' = gpio /\ rtc' = rtc /\ clock' = clock
    BY <1>4 DEF R!End, R!AtEnd, R!Forget, R!StatusAfter, After
  <2>2. p \in Nat /\ x \in Transactions /\ Stage(p, x, rtc, gpio, got, since, clock, allowed)
    BY <2>1, InTransaction
  <2>3. rtc.status \in After(x, allowed)
    BY <2>1, <2>2, LastPlace DEF Ended
  <2>4. After(x, allowed) \subseteq Int
    BY <1>1, <2>2, AfterType
  <2> QED
    BY <1>1, <1>3, <2>1, <2>3, <2>4
<1>5. CASE R!Restart
  <2> DEFINE x == rtcLibrary.run
  <2>1. /\ R!Running /\ rtcLibrary' = R!NoTransaction /\ got' = << >>
        /\ allowed' = allowed \cup After(x, allowed) /\ gpio' = gpio /\ rtc' = rtc /\ clock' = clock
    BY <1>5 DEF R!Restart, R!Forget, R!StatusAfter, After
  <2>2. x \in Transactions /\ rtc.status \in allowed \cup After(x, allowed)
    BY <2>1, InTransaction DEF Going
  <2>3. After(x, allowed) \subseteq Int
    BY <1>1, <2>2, AfterType
  <2> QED
    BY <1>1, <1>3, <2>1, <2>2, <2>3
<1>6. CASE R!PowerCycle
  <2>1. /\ rtcLibrary' = R!NoTransaction /\ got' = << >> /\ allowed' = {R!POWER_ON_STATUS}
        /\ gpio' = R!NewGpio /\ rtc' = R!NewChip /\ clock' = clock
    BY <1>6 DEF R!PowerCycle, R!Forget
  <2> QED
    BY <1>3, <2>1, NewClock
<1>7. CASE R!Tick
  <2>1. /\ clock' = clock + 1 /\ gpio' = gpio /\ rtc' = rtc /\ rtcLibrary' = rtcLibrary
        /\ got' = got /\ since' = since /\ allowed' = allowed
    BY <1>7 DEF R!Tick
  <2>2. CASE R!Running
    <3> DEFINE p == rtcLibrary.place
               x == rtcLibrary.run
    <3>1. /\ rtcLibrary \in [place : Nat, run : Transactions] /\ p \in Nat
          /\ Going(x, rtc, gpio, since, clock, allowed)
          /\ Stage(p, x, rtc, gpio, got, since, clock, allowed)
      BY <2>2, InTransaction
    <3>2. rtcLibrary = [place |-> p, run |-> x]
      BY <3>1
    <3> HIDE DEF p, x
    <3>3. Going(x, rtc, gpio, since, clock + 1, allowed)
      BY <3>1 DEF Going
    <3>4. Stage(p, x, rtc, gpio, got, since, clock + 1, allowed)
      BY <3>1, StageGrows DEF Going
    <3>5. ClockState(rtc, gpio, [place |-> p, run |-> x], got, since, clock + 1, allowed)
      BY <3>1, <3>3, <3>4, GoingOn
    <3> QED
      BY <2>1, <3>2, <3>5 DEF ClockInv
  <2>3. CASE ~R!Running
    <3>1. rtcLibrary = R!NoTransaction /\ clock + 1 \in Int
      BY <1>1, <2>3 DEF R!Running
    <3> QED
      BY <1>1, <2>1, <2>3, <3>1 DEF ClockInv, ClockState
  <2> QED
    BY <2>2, <2>3
<1> QED
  BY <1>2, <1>4, <1>5, <1>6, <1>7

LEMMA ClockStep == ClockInv /\ [BusNext]_busVars => ClockInv'
<1> SUFFICES ASSUME ClockInv, [BusNext]_busVars PROVE ClockInv'
  OBVIOUS
<1>1. CASE R!Next
  BY <1>1, StoreStep, SampleStep, FreeSteps DEF R!Next
<1>2. CASE UNCHANGED rtcVars
  BY <1>2 DEF rtcVars, ClockInv
<1>3. R!Next \/ UNCHANGED rtcVars
  BY DEF BusNext, UseCartridge, UseMemory, UseServices, busVars, CartNext, UseFlash, UseEeprom, UseRtc,
         WriteSram, RtcIdle, cartVars
<1> QED
  BY <1>1, <1>2, <1>3

LEMMA ClockHolds == BusSpec => []ClockInv
BY ClockStarts, ClockStep, PTL DEF BusSpec

(* Whatever was broken off before, and however the clock goes on meanwhile *)
(* a transaction that is carried through gets an answer that was right at  *)
(* one instant while it ran, or leaves the status it is to (rtc.rs).       *)
THEOREM AnswersOneInstant == BusSpec => []ReadsOneInstant
<1>1. ClockInv => ReadsOneInstant
  <2> SUFFICES ASSUME ClockInv, R!AtEnd PROVE R!ReadsOneInstant
    BY DEF ReadsOneInstant, R!ReadsOneInstant
  <2> DEFINE p == rtcLibrary.place
             x == rtcLibrary.run
  <2>1. p \in Nat /\ x \in Transactions /\ p = Len(R!Script[x])
        /\ Stage(p, x, rtc, gpio, got, since, clock, allowed)
    BY InTransaction DEF R!AtEnd
  <2>2. Ended(p, x, rtc, got, since, clock, allowed)
    BY <2>1, LastPlace
  <2>3. x \in R!Transaction
    BY <2>1, RtcAssumption
  <2>4. /\ R!READ_STATUS # R!READ_DATETIME /\ R!READ_STATUS # R!READ_TIME
        /\ R!READ_DATETIME # R!READ_TIME
    BY DEF R!READ_STATUS, R!READ_DATETIME, R!READ_TIME
  <2>5. CASE x.op = R!READ_DATETIME
    <3>1. R!AnswerBits(x.op) > 0
      BY <2>3, <2>5, Lengths
    <3>2. PICK bytes \in Truths(x, since, clock, allowed) : got = R!Wire(bytes)
      BY <2>2, <3>1 DEF Ended
    <3>3. Truths(x, since, clock, allowed) = {R!DateTimeBytes(t) : t \in since..clock}
      BY <2>4, <2>5 DEF Truths
    <3>4. \E t \in since..clock : got = R!Wire(R!DateTimeBytes(t))
      BY <3>2, <3>3
    <3> QED
      BY <2>4, <2>5, <3>4 DEF R!ReadsOneInstant
  <2>6. CASE x.op = R!READ_TIME
    <3>1. R!AnswerBits(x.op) > 0
      BY <2>3, <2>6, Lengths
    <3>2. PICK bytes \in Truths(x, since, clock, allowed) : got = R!Wire(bytes)
      BY <2>2, <3>1 DEF Ended
    <3>3. Truths(x, since, clock, allowed) = {R!TimeBytes(t) : t \in since..clock}
      BY <2>4, <2>6 DEF Truths
    <3>4. \E t \in since..clock : got = R!Wire(R!TimeBytes(t))
      BY <3>2, <3>3
    <3> QED
      BY <2>4, <2>6, <3>4 DEF R!ReadsOneInstant
  <2>7. CASE x.op = R!READ_STATUS
    <3>1. R!AnswerBits(x.op) > 0
      BY <2>3, <2>7, Lengths
    <3>2. PICK bytes \in Truths(x, since, clock, allowed) : got = R!Wire(bytes)
      BY <2>2, <3>1 DEF Ended
    <3>3. Truths(x, since, clock, allowed) = {<<s>> : s \in allowed}
      BY <2>4, <2>7 DEF Truths
    <3>4. \E s \in allowed : got = R!Wire(<<s>>)
      BY <3>2, <3>3
    <3> QED
      BY <2>4, <2>7, <3>4 DEF R!ReadsOneInstant
  <2>8. CASE x.op \notin {R!READ_DATETIME, R!READ_TIME, R!READ_STATUS}
    <3>1. rtc.status \in R!StatusAfter(x)
      BY <2>2 DEF Ended, After, R!StatusAfter
    <3> QED
      BY <2>8, <3>1 DEF R!ReadsOneInstant
  <2> QED
    BY <2>5, <2>6, <2>7, <2>8
<1> QED
  BY <1>1, ClockHolds, PTL
-----------------------------------------------------------------------------
(***************************************************************************)
(* The services that unpack and copy.                                      *)
(***************************************************************************)
LEMMA StepsKeep ==
  ASSUME NEW n \in Nat, NEW D, NEW h, h[0] \in D[0],
         \A k \in 1..n : h[k - 1] \in D[k - 1] => h[k] \in D[k]
  PROVE  h[n] \in D[n]
<1> DEFINE T == {k \in 0..n : h[k] \in D[k]}
<1>1. 0 \in T
  OBVIOUS
<1>2. ASSUME NEW k \in 0..(n - 1), k \in T PROVE k + 1 \in T
  <2>1. k + 1 \in 1..n /\ (k + 1) - 1 = k /\ k + 1 \in 0..n
    OBVIOUS
  <2> QED
    BY <1>2, <2>1
<1>3. n \in T
  <2> HIDE DEF T
  <2> QED
    BY <1>1, <1>2, InductionTo
<1> QED
  BY <1>3

(* Where the tokens of a stream begin. *)
LengthOk(stream) == \A k \in 1..Len(stream) : S!Length(stream[k]) \in Nat

LEMMA BeginsSteps ==
  ASSUME NEW stream \in Seq(Tokens), LengthOk(stream)
  PROVE  LET B == S!Begins(stream)
         IN  /\ B[0] = 0 /\ \A k \in 0..Len(stream) : B[k] \in Nat
             /\ \A k \in 1..Len(stream) : B[k] = B[k - 1] + S!Length(stream[k])
<1> DEFINE n == Len(stream)
           F == [p \in (1..n) \X Nat |-> p[2] + S!Length(stream[p[1]])]
           D == [k \in 0..n |-> Nat]
           Body(g) == [k \in 0..n |-> IF k = 0 THEN 0 ELSE g[k - 1] + S!Length(stream[k])]
           h == CHOOSE g : g = Body(g)
<1>1. n \in Nat
  BY LenProperties
<1>2. \A k \in 1..n : \A x \in D[k - 1] : F[<<k, x>>] = x + S!Length(stream[k])
  BY <1>1 DEF LengthOk
<1>3. \A k \in 1..n : \A x \in D[k - 1] : F[<<k, x>>] \in D[k]
  BY <1>1 DEF LengthOk
<1>4. 0 \in D[0]
  BY <1>1
<1>5. PICK g : Loop(g, n, 0, F, D)
  <2> HIDE DEF F, D, n
  <2> QED
    BY <1>1, <1>3, <1>4, Repeated
<1>6. \A k \in 0..n : g[k] = IF k = 0 THEN 0 ELSE g[k - 1] + S!Length(stream[k])
  <2>1. \A k \in 0..n : k # 0 => k \in 1..n
    BY <1>1
  <2> HIDE DEF F, D, n
  <2> QED
    BY <1>2, <1>5, <2>1 DEF Loop
<1>7. g = Body(g)
  <2> HIDE DEF F, D, n
  <2> QED
    BY <1>5, <1>6 DEF Loop
<1>8. h = Body(h)
  <2> HIDE DEF Body
  <2> QED
    BY <1>7
<1>9. S!Begins(stream) = h
  BY DEF S!Begins
<1> HIDE DEF h
<1>10. \A k \in 0..n : h[k] = IF k = 0 THEN 0 ELSE h[k - 1] + S!Length(stream[k])
  BY <1>8
<1>11. h[0] = 0 /\ \A k \in 1..n : h[k] = h[k - 1] + S!Length(stream[k])
  <2> HIDE DEF n
  <2> QED
    BY <1>1, <1>10
<1>12. ASSUME NEW m \in 0..n PROVE h[m] \in Nat
  <2>1. \A k \in 1..m : h[k - 1] \in D[k - 1] => h[k] \in D[k]
    <3>1. \A k \in 1..m : k \in 1..n /\ k \in 0..n /\ k - 1 \in 0..n
      BY <1>1
    <3> QED
      BY <1>11, <3>1 DEF LengthOk
  <2>2. h[m] \in D[m]
    <3>1. m \in Nat /\ h[0] \in D[0]
      BY <1>1, <1>11
    <3> HIDE DEF D, n
    <3> QED
      BY <2>1, <3>1, StepsKeep
  <2> QED
    BY <1>12, <2>2
<1> QED
  BY <1>9, <1>11, <1>12

(* What is out so far, and what of it the memory will hold: for VRAM, the  *)
(* first byte of a pair waits in the buffer.                               *)
Memories == [S!Cells -> Nat]
Outs == [m : Memories, pos : Nat, remaining : Nat, buffer : Nat, count : Nat]
Shown(o, vram) ==
  IF vram /\ o.count % 2 = 1 THEN [o.m EXCEPT ![o.pos - 1] = o.buffer] ELSE o.m

(* One byte is put, or two. *)
LEMMA PutOne ==
  ASSUME NEW m \in Memories, NEW i \in S!Cells, NEW v \in Nat
  PROVE  S!Put(m, i, <<v>>) = [m EXCEPT ![i] = v] /\ S!Put(m, i, <<v>>) \in Memories
<1>1. Len(<<v>>) = 1 /\ <<v>>[1] = v /\ i + 1 - 1 = i /\ i \in Int
  BY DEF S!Cells
<1>2. S!Put(m, i, <<v>>) = [j \in S!Cells |-> IF j \in i..i THEN <<v>>[j - i + 1] ELSE m[j]]
  BY <1>1 DEF S!Put
<1>3. \A j \in S!Cells : (j \in i..i <=> j = i) /\ (j = i => j - i + 1 = 1)
  BY DEF S!Cells
<1>4. S!Put(m, i, <<v>>) = [j \in S!Cells |-> IF j = i THEN v ELSE m[j]]
  BY <1>1, <1>2, <1>3
<1> QED
  BY <1>4 DEF Memories

LEMMA PutTwo ==
  ASSUME NEW m \in Memories, NEW i \in S!Cells, i + 1 \in S!Cells, NEW u \in Nat, NEW v \in Nat
  PROVE  /\ S!Put(m, i, <<u, v>>) = [[m EXCEPT ![i] = u] EXCEPT ![i + 1] = v]
         /\ S!Put(m, i, <<u, v>>) \in Memories
<1>1. Len(<<u, v>>) = 2 /\ <<u, v>>[1] = u /\ <<u, v>>[2] = v /\ i + 2 - 1 = i + 1 /\ i \in Int
  BY DEF S!Cells
<1>2. S!Put(m, i, <<u, v>>) = [j \in S!Cells |-> IF j \in i..(i + 1) THEN <<u, v>>[j - i + 1] ELSE m[j]]
  BY <1>1 DEF S!Put
<1>3. \A j \in S!Cells : /\ (j \in i..(i + 1) <=> j = i \/ j = i + 1) /\ (j = i => j - i + 1 = 1)
                         /\ (j = i + 1 => j - i + 1 = 2)
  BY DEF S!Cells
<1>4. S!Put(m, i, <<u, v>>) = [j \in S!Cells |-> IF j = i THEN u ELSE IF j = i + 1 THEN v ELSE m[j]]
  BY <1>1, <1>2, <1>3
<1>5. i # i + 1
  BY DEF S!Cells
<1> QED
  BY <1>4, <1>5 DEF Memories

(* A byte that is put out is the next one shown. *)
LEMMA EmitEffect ==
  ASSUME NEW o \in Outs, NEW v \in Nat, NEW vram \in BOOLEAN, o.remaining # 0, o.pos \in S!Cells,
         vram => o.pos % 2 = o.count % 2
  PROVE  LET e == S!Emit(o, v, vram)
         IN  /\ e \in Outs
             /\ e.pos = o.pos + 1 /\ e.remaining = o.remaining - 1 /\ e.count = o.count + 1
             /\ Shown(e, vram) = [Shown(o, vram) EXCEPT ![o.pos] = v]
<1> DEFINE e == S!Emit(o, v, vram)
           m == IF ~vram THEN S!Put(o.m, o.pos, <<v>>)
                ELSE IF o.count % 2 = 0 THEN o.m
                ELSE S!Put(o.m, o.pos - (o.pos % 2), <<o.buffer, v>>)
           b == IF vram /\ o.count % 2 = 0 THEN v ELSE o.buffer
<1>1. /\ o.m \in Memories /\ o.pos \in Nat /\ o.remaining \in Nat /\ o.buffer \in Nat
      /\ o.count \in Nat /\ o.count % 2 \in {0, 1} /\ o.remaining - 1 \in Nat
  BY DEF Outs
<1>2. /\ e.m = m /\ e.buffer = b /\ e.pos = o.pos + 1 /\ e.remaining = o.remaining - 1
      /\ e.count = o.count + 1
      /\ e = [m |-> m, pos |-> o.pos + 1, remaining |-> o.remaining - 1,
               buffer |-> b, count |-> o.count + 1]
  <2>1. e = [o EXCEPT !.m = m, !.buffer = b, !.count = o.count + 1, !.pos = o.pos + 1,
                      !.remaining = o.remaining - 1]
    BY DEF S!Emit
  <2> HIDE DEF e, m, b
  <2> QED
    BY <2>1 DEF Outs
<1>3. b \in Nat
  BY <1>1
<1>4. (o.count + 1) % 2 = 1 - (o.count % 2)
  BY <1>1
<1>5. m \in Memories /\ Shown(e, vram) = [Shown(o, vram) EXCEPT ![o.pos] = v]
  <2>1. CASE ~vram
    <3>1. m = [o.m EXCEPT ![o.pos] = v] /\ m \in Memories
      BY <1>1, <2>1, PutOne
    <3> HIDE DEF e, m
    <3> QED
      BY <1>2, <2>1, <3>1 DEF Shown
  <2>2. CASE vram /\ o.count % 2 = 0
    <3>1. m = o.m /\ b = v /\ (o.count + 1) % 2 = 1
      BY <1>4, <2>2
    <3>2. o.pos \in Nat
      BY <1>1
    <3> HIDE DEF e, m, b
    <3>3. Shown(o, vram) = o.m
      BY <2>2 DEF Shown
    <3>4. e.count % 2 = 1 /\ e.pos - 1 = o.pos /\ e.m = o.m /\ e.buffer = v
      <4>1. e.count = o.count + 1 /\ e.pos = o.pos + 1 /\ e.m = m /\ e.buffer = b
        BY <1>2
      <4>2. e.count % 2 = 1
        BY <3>1, <4>1
      <4>3. e.pos - 1 = o.pos
        BY <3>2, <4>1
      <4> QED
        BY <3>1, <4>1, <4>2, <4>3
    <3>5. Shown(e, vram) = [o.m EXCEPT ![o.pos] = v]
      BY <2>2, <3>4 DEF Shown
    <3> QED
      BY <1>1, <3>1, <3>3, <3>5
  <2>3. CASE vram /\ o.count % 2 = 1
    <3>1. /\ o.pos % 2 = 1 /\ o.pos - (o.pos % 2) = o.pos - 1 /\ (o.pos - 1) + 1 = o.pos
          /\ o.pos - 1 \in S!Cells
      <4>1. o.pos % 2 = 1
        BY <2>3
      <4>2. o.pos # 0
        BY <4>1
      <4>3. o.pos \in 0..(RAM - 1) /\ RAM \in Nat
        BY ServicesAssumption DEF S!Cells
      <4>4. o.pos - 1 \in 0..(RAM - 1)
        BY <1>1, <4>2, <4>3
      <4> QED
        BY <1>1, <4>1, <4>4 DEF S!Cells
    <3>2. m = S!Put(o.m, o.pos - 1, <<o.buffer, v>>) /\ (o.count + 1) % 2 = 0
      BY <1>4, <2>3, <3>1
    <3>3. m = [[o.m EXCEPT ![o.pos - 1] = o.buffer] EXCEPT ![o.pos] = v] /\ m \in Memories
      <4> HIDE DEF m
      <4> QED
        BY <1>1, <3>1, <3>2, PutTwo
    <3> HIDE DEF e, m, b
    <3> QED
      BY <1>1, <1>2, <2>3, <3>2, <3>3 DEF Shown
  <2> QED
    BY <1>1, <2>1, <2>2, <2>3
<1> HIDE DEF m, b
<1>6. e \in Outs
  BY <1>1, <1>2, <1>3, <1>5 DEF Outs
<1> QED
  BY <1>2, <1>5, <1>6

(* Tokens stand for as many bytes as they are long. *)
LEMMA TokenType ==
  ASSUME NEW t \in Tokens
  PROVE  /\ S!Length(t) \in Nat
         /\ "offset" \in DOMAIN t => t.offset \in Nat \ {0}
         /\ "offset" \notin DOMAIN t =>
              \A m, pos : \A i \in 1..S!Length(t) : S!ByteOf(m, pos, t, i) \in Nat
<1>1. CASE t \in [bytes : Seq(Nat)]
  <2>1. DOMAIN t = {"bytes"} /\ t.bytes \in Seq(Nat)
    BY <1>1
  <2>2. S!Length(t) = Len(t.bytes)
    BY <2>1 DEF S!Length
  <2>3. \A i \in 1..Len(t.bytes) : t.bytes[i] \in Nat
    BY <2>1
  <2>4. \A m, pos, i : S!ByteOf(m, pos, t, i) = t.bytes[i]
    BY <2>1 DEF S!ByteOf
  <2> QED
    BY <2>1, <2>2, <2>3, <2>4
<1>2. CASE t \in [byte : Nat, length : Nat]
  <2>1. DOMAIN t = {"byte", "length"} /\ t.byte \in Nat /\ t.length \in Nat
    BY <1>2
  <2> QED
    BY <2>1 DEF S!Length, S!ByteOf
<1>3. CASE t \in [length : Nat, offset : Nat \ {0}]
  <2>1. DOMAIN t = {"length", "offset"} /\ t.offset \in Nat \ {0} /\ t.length \in Nat
    BY <1>3
  <2> QED
    BY <2>1 DEF S!Length, S!ByteOf
<1> QED
  BY <1>1, <1>2, <1>3 DEF Tokens

GoodStream(s) ==
  /\ s \in Seq(Tokens)
  /\ \A k \in 1..Len(s) : "offset" \in DOMAIN s[k] => s[k].offset <= S!Begins(s)[k - 1]

(* In a stream of tokens the bytes of a token begin where those of the     *)
(* token before it end.                                                    *)
LEMMA StreamBegins ==
  ASSUME NEW s, GoodStream(s)
  PROVE  LET B == S!Begins(s)
         IN  /\ Len(s) \in Nat /\ B[0] = 0 /\ \A k \in 0..Len(s) : B[k] \in Nat
             /\ \A k \in 1..Len(s) : /\ B[k] = B[k - 1] + S!Length(s[k])
                                     /\ S!Length(s[k]) \in Nat /\ s[k] \in Tokens
             /\ \A l \in 1..Len(s), k \in 0..Len(s) : l <= k => B[l] <= B[k]
<1> DEFINE B == S!Begins(s)
           n == Len(s)
<1>1. s \in Seq(Tokens) /\ n \in Nat /\ \A k \in 1..n : s[k] \in Tokens
  BY DEF GoodStream
<1>2. \A k \in 1..n : S!Length(s[k]) \in Nat
  BY <1>1, TokenType
<1>3. /\ B[0] = 0 /\ \A k \in 0..n : B[k] \in Nat
      /\ \A k \in 1..n : B[k] = B[k - 1] + S!Length(s[k])
  BY <1>1, <1>2, BeginsSteps DEF LengthOk
<1> HIDE DEF B, n
<1>4. ASSUME NEW l \in 1..n, NEW k \in 0..n, l <= k PROVE B[l] <= B[k]
  <2> DEFINE T == {j \in 0..(k - l) : B[l] <= B[l + j]}
  <2>1. 0 \in T
    BY <1>1, <1>3, <1>4
  <2>2. ASSUME NEW j \in 0..(k - l - 1), j \in T PROVE j + 1 \in T
    <3>1. l + j + 1 \in 1..n /\ l + j + 1 - 1 = l + j /\ l + j \in 0..n /\ l + (j + 1) = l + j + 1
          /\ j + 1 \in 0..(k - l) /\ l \in 0..n
      BY <1>1, <1>4
    <3>2. B[l + j + 1] = B[l + j] + S!Length(s[l + j + 1]) /\ S!Length(s[l + j + 1]) \in Nat
      BY <1>2, <1>3, <3>1
    <3>3. B[l] \in Nat /\ B[l + j] \in Nat /\ B[l] <= B[l + j]
      BY <1>3, <2>2, <3>1
    <3> QED
      BY <3>1, <3>2, <3>3
  <2>3. k - l \in Nat /\ l + (k - l) = k
    BY <1>1, <1>4
  <2>4. k - l \in T
    <3> HIDE DEF T
    <3> QED
      BY <2>1, <2>2, <2>3, InductionTo
  <2> QED
    BY <2>3, <2>4
<1> QED
  BY <1>1, <1>2, <1>3, <1>4 DEF B, n

(* A call, and what is shown once its loops have come to byte i of the     *)
(* token after k.                                                          *)
Job(p, vram) ==
  /\ GoodStream(p.stream) /\ p.pos \in Nat /\ p.size \in Nat /\ p.pos + p.size <= RAM
  /\ p.was \in Memories /\ vram \in BOOLEAN
  /\ vram => p.pos % 2 = 0 /\ S!ForVram(p.stream)
Out(p, n) == IF n <= p.size THEN n ELSE p.size
LiesAt(m, p, l, q) ==
  LET n == S!Begins(p.stream)[l - 1] + q
  IN  n <= p.size => m[p.pos + n - 1] = S!ByteOf(m, p.pos + n - 1, p.stream[l], q)
Reached(p, vram, k, i) ==
  {o \in Outs :
     LET e == Out(p, S!Begins(p.stream)[k] + i)
     IN  /\ o.pos = p.pos + e /\ o.remaining = p.size - e /\ o.count = e
         /\ \A j \in S!Cells : j \notin p.pos..(p.pos + e - 1) => Shown(o, vram)[j] = p.was[j]
         /\ \A l \in 1..Len(p.stream) : \A q \in 1..S!Length(p.stream[l]) :
              l <= k \/ (l = k + 1 /\ q <= i) => LiesAt(Shown(o, vram), p, l, q)}

(* One more byte of a token: it is shown where it lies, and a byte shown   *)
(* before is still there for a reference.                                  *)
LEMMA ByteStep ==
  ASSUME NEW p, NEW vram, Job(p, vram), NEW k \in 0..(Len(p.stream) - 1),
         NEW i \in 1..S!Length(p.stream[k + 1]), NEW o \in Reached(p, vram, k, i - 1)
  PROVE  S!EmitOf(o, p.stream[k + 1], i, vram) \in Reached(p, vram, k, i)
<1> DEFINE B == S!Begins(p.stream)
           L == Len(p.stream)
           t == p.stream[k + 1]
           n == B[k] + i
           v == S!ByteOf(o.m, o.pos, t, i)
           r == S!EmitOf(o, t, i, vram)
<1>1. /\ L \in Nat /\ \A j \in 0..L : B[j] \in Nat
      /\ \A j \in 1..L : B[j] = B[j - 1] + S!Length(p.stream[j]) /\ S!Length(p.stream[j]) \in Nat
                         /\ p.stream[j] \in Tokens
      /\ \A l \in 1..L, j \in 0..L : l <= j => B[l] <= B[j]
  BY StreamBegins DEF Job
<1>2. /\ p.pos \in Nat /\ p.size \in Nat /\ p.pos + p.size <= RAM /\ RAM \in Nat /\ vram \in BOOLEAN
      /\ vram => p.pos % 2 = 0 /\ S!ForVram(p.stream)
  BY ServicesAssumption DEF Job
<1> HIDE DEF L
<1>3. k + 1 \in 1..L /\ k \in 0..L /\ k \in Nat /\ i \in Nat \ {0} /\ (k + 1) - 1 = k /\ t \in Tokens
      /\ B[k] \in Nat /\ S!Length(t) \in Nat /\ i <= S!Length(t)
  BY <1>1, SMTT(40) DEF L
<1> HIDE DEF B, t
<1>4. n \in Nat /\ B[k] + (i - 1) = n - 1 /\ n - 1 \in Nat
  BY <1>3, SMTT(40)
<1> DEFINE e == Out(p, n - 1)
<1>5. /\ o \in Outs /\ o.pos = p.pos + e /\ o.remaining = p.size - e /\ o.count = e
      /\ \A j \in S!Cells : j \notin p.pos..(p.pos + e - 1) => Shown(o, vram)[j] = p.was[j]
      /\ \A l \in 1..L : \A q \in 1..S!Length(p.stream[l]) :
           l <= k \/ (l = k + 1 /\ q <= i - 1) => LiesAt(Shown(o, vram), p, l, q)
  BY <1>4 DEF Reached, B, L
<1>6. r = S!Emit(o, v, vram)
  BY DEF S!EmitOf
<1> HIDE DEF n
<1>7. CASE p.size <= n - 1
  <2>1. e = p.size /\ Out(p, n) = p.size /\ o.remaining = 0
    <3> DEFINE z == p.size
    <3>1. z \in Nat /\ z - z = 0 /\ ~(n <= z) /\ (n - 1 <= z => n - 1 = z)
      BY <1>2, <1>4, <1>7
    <3>2. Out(p, n - 1) = z /\ Out(p, n) = z
      BY <3>1 DEF Out
    <3> QED
      BY <1>5, <3>1, <3>2
  <2>2. r = o
    BY <1>6, <2>1 DEF S!Emit
  <2>3. LiesAt(Shown(o, vram), p, k + 1, i)
    <3>1. ~(B[(k + 1) - 1] + i <= p.size)
      BY <1>2, <1>3, <1>4, <1>7, SMTT(40) DEF n
    <3> QED
      BY <3>1 DEF LiesAt, B
  <2>4. ASSUME NEW l \in 1..L, NEW q \in 1..S!Length(p.stream[l]), l <= k \/ (l = k + 1 /\ q <= i)
        PROVE  LiesAt(Shown(o, vram), p, l, q)
    <3>1. S!Length(p.stream[l]) \in Nat /\ q \in Nat
      BY <1>1
    <3>2. (l <= k \/ (l = k + 1 /\ q <= i - 1)) \/ (l = k + 1 /\ q = i)
      BY <1>3, <2>4, <3>1
    <3> QED
      BY <1>5, <2>3, <3>2
  <2> HIDE DEF e
  <2>5. /\ o \in Outs /\ o.pos = p.pos + Out(p, n) /\ o.remaining = p.size - Out(p, n)
        /\ o.count = Out(p, n)
        /\ \A j \in S!Cells : j \notin p.pos..(p.pos + Out(p, n) - 1) => Shown(o, vram)[j] = p.was[j]
    BY <1>5, <2>1
  <2>6. o \in Reached(p, vram, k, i)
    BY <2>4, <2>5 DEF Reached, B, L, n
  <2> QED
    BY <2>2, <2>6 DEF t
<1>8. CASE ~(p.size <= n - 1)
  <2>1. n <= p.size /\ e = n - 1 /\ Out(p, n) = n /\ o.remaining # 0 /\ o.pos = p.pos + n - 1
        /\ o.pos \in S!Cells /\ o.count = n - 1
    BY <1>2, <1>4, <1>5, <1>8, SMTT(40) DEF Out, S!Cells
  <2> HIDE DEF e
  <2> DEFINE m == Shown(o, vram)
             x == p.pos + n - 1
  <2>2. vram => o.pos % 2 = o.count % 2
    <3> SUFFICES ASSUME vram PROVE o.pos % 2 = o.count % 2
      OBVIOUS
    <3>1. PICK h \in Nat : p.pos = 2 * h
      <4> DEFINE z == p.pos
      <4>1. z \in Nat /\ z % 2 = 0
        BY <1>2
      <4> HIDE DEF z
      <4>2. z = 2 * (z \div 2) /\ z \div 2 \in Nat
        BY <4>1
      <4> QED
        BY <4>2 DEF z
    <3> DEFINE c == n - 1
    <3>2. c \in Nat /\ o.pos = 2 * h + c /\ o.count = c
      BY <1>2, <1>4, <2>1, <3>1
    <3> HIDE DEF c
    <3>3. (2 * h + c) % 2 = c % 2
      BY <3>1, <3>2
    <3> QED
      BY <3>2, <3>3
  <2>3. m \in Memories
    <3>1. o.m \in Memories /\ o.buffer \in Nat
      BY <1>5 DEF Outs
    <3> QED
      BY <3>1 DEF Shown, Memories
  <2>4. x = o.pos /\ x \in S!Cells
    BY <2>1
  <2>5. v \in Nat /\ v = S!ByteOf(m, x, t, i)
    <3>1. CASE "offset" \notin DOMAIN t
      <4>1. v \in Nat
        BY <1>3, <3>1, TokenType
      <4> QED
        BY <3>1, <4>1 DEF S!ByteOf
    <3>2. CASE "offset" \in DOMAIN t
      <4>1. t.offset \in Nat \ {0} /\ t.offset <= B[k]
        <5>1. \A j \in 1..L : "offset" \in DOMAIN p.stream[j] => p.stream[j].offset <= B[j - 1]
          BY DEF Job, GoodStream, B, L
        <5>2. t.offset <= B[(k + 1) - 1]
          BY <1>3, <3>2, <5>1 DEF t
        <5>3. B[(k + 1) - 1] = B[k]
          BY <1>3
        <5> QED
          BY <1>3, <3>2, <5>2, <5>3, TokenType
      <4>2. vram => t.offset > 1
        <5>1. vram => \A j \in 1..L : "offset" \in DOMAIN p.stream[j] => p.stream[j].offset > 1
          BY <1>2 DEF S!ForVram, L
        <5> QED
          BY <1>3, <3>2, <5>1 DEF t
      <4> DEFINE y == x - t.offset
      <4>3. B[k] <= n - 1
        BY <1>3, <1>4 DEF n
      <4>4. y \in S!Cells /\ x \in Nat
        <5> DEFINE f == t.offset
                   z == p.pos
        <5>1. f \in Nat /\ f <= n - 1 /\ z \in Nat /\ n \in Nat /\ x \in 0..(RAM - 1) /\ x = z + n - 1
          BY <1>2, <1>3, <1>4, <2>4, <4>1, <4>3, SMTT(40) DEF S!Cells
        <5> HIDE DEF f, z, x
        <5>2. x - f \in 0..(RAM - 1)
          BY <1>2, <5>1
        <5> QED
          BY <5>1, <5>2 DEF S!Cells, f
      <4>5. vram => y # o.pos - 1
        BY <2>4, <4>1, <4>2, <4>4
      <4> HIDE DEF y, m
      <4>6. m[y] = o.m[y]
        BY <1>5, <4>4, <4>5 DEF m, Shown, Outs, Memories
      <4>7. v = o.m[y] /\ S!ByteOf(m, x, t, i) = m[y]
        BY <2>4, <3>2 DEF S!ByteOf, y
      <4>8. o.m[y] \in Nat
        BY <1>5, <4>4 DEF Outs, Memories
      <4> QED
        BY <4>6, <4>7, <4>8
    <3> QED
      BY <3>1, <3>2
  <2>6. /\ r \in Outs /\ r.pos = o.pos + 1 /\ r.remaining = o.remaining - 1 /\ r.count = o.count + 1
        /\ Shown(r, vram) = [m EXCEPT ![x] = v]
    <3>1. o \in Outs /\ v \in Nat /\ vram \in BOOLEAN /\ o.remaining # 0 /\ o.pos \in S!Cells
          /\ (vram => o.pos % 2 = o.count % 2)
      BY <1>2, <1>5, <2>1, <2>2, <2>5
    <3>2. x = o.pos
      BY <2>4
    <3> HIDE DEF v, r, x, m
    <3>3. /\ r \in Outs /\ r.pos = o.pos + 1 /\ r.remaining = o.remaining - 1 /\ r.count = o.count + 1
          /\ Shown(r, vram) = [Shown(o, vram) EXCEPT ![o.pos] = v]
      BY <1>6, <3>1, EmitEffect
    <3> QED
      BY <3>2, <3>3 DEF m
  <2> DEFINE w == Shown(r, vram)
  <2>7. w[x] = v /\ \A y \in S!Cells : y # x => w[y] = m[y]
    BY <2>3, <2>4, <2>6 DEF Memories
  <2> HIDE DEF v, r, w, m
  <2>8. ASSUME NEW tk \in Tokens, NEW y \in S!Cells, NEW q \in 1..S!Length(tk), y <= x,
               "offset" \in DOMAIN tk => tk.offset \in Nat /\ tk.offset > 0 /\ y - tk.offset \in S!Cells
        PROVE  S!ByteOf(w, y, tk, q) = S!ByteOf(m, y, tk, q)
    <3>1. "offset" \in DOMAIN tk => w[y - tk.offset] = m[y - tk.offset]
      <4>1. y \in Int /\ x \in Int
        BY <2>4 DEF S!Cells
      <4> QED
        BY <2>7, <2>8, <4>1
    <3> QED
      BY <3>1 DEF S!ByteOf
  <2>9. ASSUME NEW l \in 1..L, NEW q \in 1..S!Length(p.stream[l]), l <= k \/ (l = k + 1 /\ q <= i)
        PROVE  LiesAt(w, p, l, q)
    <3> DEFINE c == B[l - 1] + q
               tk == p.stream[l]
    <3>1. /\ q \in Nat \ {0} /\ l - 1 \in 0..L /\ B[l - 1] \in Nat /\ B[l] = B[l - 1] + S!Length(tk)
          /\ q <= S!Length(tk) /\ tk \in Tokens /\ l \in 0..L /\ B[l] \in Nat /\ S!Length(tk) \in Nat
      <4>1. l - 1 \in 0..L /\ l \in 0..L
        BY <1>1
      <4> QED
        BY <1>1, <4>1
    <3>2. c \in Nat /\ c <= n /\ (c = n => l = k + 1 /\ q = i)
      <4>1. CASE l <= k
        <5>1. B[l] <= B[k]
          BY <1>1, <1>3, <4>1
        <5>2. c <= B[l]
          BY <3>1
        <5>3. B[k] <= n - 1
          BY <1>3, <1>4
        <5>4. l # k + 1
          BY <1>3, <4>1
        <5> DEFINE b == B[l]
                   d == B[k]
        <5>5. b \in Nat /\ d \in Nat /\ c \in Nat /\ b <= d /\ c <= b /\ d <= n - 1
          BY <1>3, <3>1, <5>1, <5>2, <5>3, SMTT(40)
        <5> HIDE DEF b, c, d
        <5> QED
          BY <1>4, <5>5, SMTT(40)
      <4>2. CASE l = k + 1 /\ q <= i
        <5>1. B[l - 1] = B[k]
          BY <1>3, <4>2
        <5>2. c = B[k] + q
          BY <5>1
        <5>3. n = B[k] + i
          BY DEF n
        <5> HIDE DEF c
        <5>4. q \in Nat /\ i \in Nat /\ B[k] \in Nat /\ q <= i /\ l = k + 1
          BY <1>3, <3>1, <4>2
        <5> QED
          BY <5>2, <5>3, <5>4
      <4> QED
        BY <2>9, <4>1, <4>2
    <3> DEFINE y == p.pos + c - 1
    <3>3. y \in S!Cells /\ y <= x /\ (y = x <=> c = n) /\ y \in Nat
      <4> DEFINE z == p.pos
      <4>1. z \in Nat /\ x \in 0..(RAM - 1) /\ x = z + n - 1 /\ c \in Nat \ {0}
        <5>1. c \in Nat \ {0}
          <6> DEFINE b == B[l - 1]
          <6>1. b \in Nat /\ q \in Nat \ {0} /\ c = b + q
            BY <3>1
          <6> HIDE DEF b, c
          <6> QED
            BY <6>1
        <5>2. x \in 0..(RAM - 1)
          BY <2>4 DEF S!Cells
        <5> HIDE DEF c
        <5> QED
          BY <1>2, <5>1, <5>2
      <4>2. y = z + c - 1
        OBVIOUS
      <4> HIDE DEF c, y, z, x
      <4>3. y \in 0..(RAM - 1) /\ y <= x /\ (y = x <=> c = n) /\ y \in Nat
        BY <1>2, <1>4, <3>2, <4>1, <4>2
      <4> QED
        BY <4>3 DEF S!Cells
    <3>4. "offset" \in DOMAIN tk => tk.offset \in Nat /\ tk.offset > 0 /\ y - tk.offset \in S!Cells
      <4> SUFFICES ASSUME "offset" \in DOMAIN tk
                   PROVE  tk.offset \in Nat /\ tk.offset > 0 /\ y - tk.offset \in S!Cells
        OBVIOUS
      <4>1. tk.offset \in Nat \ {0}
        BY <3>1, TokenType
      <4>2. tk.offset <= B[l - 1]
        BY DEF Job, GoodStream, B, L
      <4> HIDE DEF tk
      <4>3. tk.offset <= y
        <5> DEFINE z == p.pos
                   b == B[l - 1]
                   f == tk.offset
        <5>1. z \in Nat /\ b \in Nat /\ q \in Nat \ {0} /\ f \in Nat /\ f <= b /\ y = z + (b + q) - 1
          BY <1>2, <3>1, <4>1, <4>2
        <5> HIDE DEF z, b, f, y
        <5>2. f <= y
          BY <5>1
        <5> QED
          BY <5>2 DEF f
      <4>4. y - tk.offset \in S!Cells
        <5> DEFINE f == tk.offset
        <5>1. f \in Nat /\ f <= y /\ y \in 0..(RAM - 1) /\ RAM \in Nat
          BY <1>2, <3>3, <4>1, <4>3 DEF S!Cells
        <5> HIDE DEF f, y
        <5>2. y - f \in 0..(RAM - 1)
          BY <5>1
        <5> QED
          BY <5>2 DEF f, S!Cells
      <4> QED
        BY <4>1, <4>4
    <3>5. S!ByteOf(w, y, tk, q) = S!ByteOf(m, y, tk, q)
      <4> HIDE DEF tk, y
      <4> QED
        BY <2>8, <3>1, <3>3, <3>4
    <3>6. w[y] = S!ByteOf(w, y, tk, q)
      <4>1. CASE c = n
        <5>1. y = x /\ tk = t /\ q = i
          BY <3>2, <3>3, <4>1 DEF t
        <5> QED
          BY <2>5, <2>7, <3>5, <5>1
      <4>2. CASE c # n
        <5>1. l <= k \/ (l = k + 1 /\ q <= i - 1)
          <6>1. q # i \/ l # k + 1
            <7> SUFFICES ASSUME l = k + 1, q = i PROVE FALSE
              OBVIOUS
            <7>1. B[l - 1] = B[k]
              BY <1>3
            <7> QED
              BY <4>2, <7>1 DEF n
          <6> QED
            BY <1>3, <2>9, <3>1, <6>1
        <5>2. LiesAt(m, p, l, q)
          BY <1>5, <5>1 DEF m
        <5>3. c <= p.size
          BY <1>2, <1>4, <2>1, <3>2
        <5>4. m[y] = S!ByteOf(m, y, tk, q)
          BY <5>2, <5>3 DEF LiesAt, B
        <5>5. w[y] = m[y]
          BY <2>7, <3>3, <4>2
        <5> QED
          BY <3>5, <5>4, <5>5
      <4> QED
        BY <4>1, <4>2
    <3> QED
      BY <3>6 DEF LiesAt, B
  <2>10. ASSUME NEW j \in S!Cells, j \notin p.pos..(p.pos + n - 1) PROVE w[j] = p.was[j]
    <3>1. j # x /\ j \notin p.pos..(p.pos + (n - 1) - 1)
      BY <1>2, <1>4, <2>10, SMTT(40) DEF S!Cells
    <3>2. m[j] = p.was[j]
      BY <1>5, <2>1, <3>1 DEF m
    <3> QED
      BY <2>7, <3>1, <3>2
  <2>11. r \in Outs /\ r.pos = p.pos + n /\ r.remaining = p.size - n /\ r.count = n
    BY <1>2, <1>4, <1>5, <2>1, <2>6, SMTT(40)
  <2>12. r \in Reached(p, vram, k, i)
    BY <2>1, <2>9, <2>10, <2>11 DEF Reached, B, L, n, w
  <2> QED
    BY <2>12 DEF r, t
<1> QED
  BY <1>7, <1>8

(* A token is put out byte by byte. *)
LEMMA TokenStep ==
  ASSUME NEW p, NEW vram, Job(p, vram), NEW k \in 0..(Len(p.stream) - 1),
         NEW o \in Reached(p, vram, k, 0)
  PROVE  S!Token(o, p.stream[k + 1], vram) \in Reached(p, vram, k + 1, 0)
<1> DEFINE t == p.stream[k + 1]
           n == S!Length(t)
           F == [x \in (1..n) \X Outs |-> S!EmitOf(x[2], t, x[1], vram)]
           D == [i \in 0..n |-> Reached(p, vram, k, i)]
           Body(g) == [i \in 0..n |-> IF i = 0 THEN o ELSE S!EmitOf(g[i - 1], t, i, vram)]
           h == CHOOSE g : g = Body(g)
<1>1. n \in Nat
  <2>1. GoodStream(p.stream) /\ k + 1 \in 1..Len(p.stream)
    BY StreamBegins DEF Job
  <2> QED
    BY <2>1, StreamBegins
<1>2. \A i \in 1..n : i \in 0..n /\ i - 1 \in 0..n /\ i # 0
  BY <1>1
<1>3. \A i \in 1..n : \A x \in D[i - 1] :
        F[<<i, x>>] = S!EmitOf(x, t, i, vram) /\ S!EmitOf(x, t, i, vram) \in D[i]
  <2> SUFFICES ASSUME NEW i \in 1..n, NEW x \in D[i - 1]
               PROVE  F[<<i, x>>] = S!EmitOf(x, t, i, vram) /\ S!EmitOf(x, t, i, vram) \in D[i]
    OBVIOUS
  <2>1. D[i] = Reached(p, vram, k, i) /\ x \in Reached(p, vram, k, i - 1)
    BY <1>2
  <2>2. x \in Outs
    BY <2>1 DEF Reached
  <2>3. F[<<i, x>>] = S!EmitOf(x, t, i, vram)
    BY <2>2
  <2>4. S!EmitOf(x, t, i, vram) \in Reached(p, vram, k, i)
    BY <2>1, ByteStep
  <2> QED
    BY <2>1, <2>3, <2>4
<1>4. o \in D[0]
  BY <1>1
<1>5. PICK g : Loop(g, n, o, F, D)
  <2>1. \A i \in 1..n : \A x \in D[i - 1] : F[<<i, x>>] \in D[i]
    BY <1>3, ZenonT(60)
  <2> HIDE DEF n, F, D
  <2> QED
    BY <1>1, <1>4, <2>1, Repeated
<1>6. \A i \in 1..n : g[i] = S!EmitOf(g[i - 1], t, i, vram)
  <2> HIDE DEF n, F, D, t
  <2> QED
    BY <1>3, <1>5 DEF Loop
<1>7. g = Body(g)
  <2>1. \A i \in 0..n : g[i] = IF i = 0 THEN o ELSE S!EmitOf(g[i - 1], t, i, vram)
    <3>1. \A i \in 0..n : i # 0 => i \in 1..n
      BY <1>1
    <3> HIDE DEF n, F, D, t
    <3> QED
      BY <1>5, <1>6, <3>1 DEF Loop
  <2>2. g = [i \in 0..n |-> g[i]]
    BY <1>5 DEF Loop
  <2> HIDE DEF n, F, D, t
  <2> QED
    BY <2>1, <2>2
<1>8. h = Body(h)
  <2> HIDE DEF Body
  <2> QED
    BY <1>7
<1>9. S!Token(o, t, vram) = h[n]
  BY DEF S!Token
<1> HIDE DEF h
<1>10. h[0] = o /\ \A i \in 1..n : h[i] = S!EmitOf(h[i - 1], t, i, vram)
  <2>1. \A i \in 0..n : h[i] = IF i = 0 THEN o ELSE S!EmitOf(h[i - 1], t, i, vram)
    BY <1>8
  <2>2. 0 \in 0..n
    BY <1>1
  <2> HIDE DEF n, t
  <2> QED
    BY <1>2, <2>1, <2>2
<1>11. h[n] \in D[n]
  <2> HIDE DEF n, F, D, t
  <2>1. h[0] \in D[0]
    BY <1>4, <1>10
  <2>2. \A j \in 1..n : h[j - 1] \in D[j - 1] => h[j] \in D[j]
    BY <1>3, <1>10
  <2> QED
    BY <1>1, <2>1, <2>2, StepsKeep
<1>12. Reached(p, vram, k, n) \subseteq Reached(p, vram, k + 1, 0)
  <2> SUFFICES ASSUME NEW x \in Reached(p, vram, k, n) PROVE x \in Reached(p, vram, k + 1, 0)
    OBVIOUS
  <2> DEFINE B == S!Begins(p.stream)
             L == Len(p.stream)
  <2>1. /\ L \in Nat /\ B[k + 1] = B[k] + n /\ B[k + 1] \in Nat
        /\ \A l \in 1..L : S!Length(p.stream[l]) \in Nat
    <3>1. /\ L \in Nat /\ \A l \in 0..L : B[l] \in Nat
          /\ \A l \in 1..L : B[l] = B[l - 1] + S!Length(p.stream[l]) /\ S!Length(p.stream[l]) \in Nat
      BY StreamBegins DEF Job
    <3>2. k + 1 \in 1..L /\ k + 1 \in 0..L /\ (k + 1) - 1 = k
      BY <3>1
    <3> QED
      BY <3>1, <3>2
  <2>2. B[k + 1] + 0 = B[k] + n
    BY <2>1
  <2>3. ASSUME NEW l \in 1..L, NEW q \in 1..S!Length(p.stream[l]), l <= k + 1 \/ (l = k + 2 /\ q <= 0)
        PROVE  l <= k \/ (l = k + 1 /\ q <= n)
    <3>1. S!Length(p.stream[l]) \in Nat /\ k \in Nat /\ l \in Nat
      BY <2>1
    <3>2. l <= k \/ l = k + 1
      BY <2>3, <3>1
    <3>3. l = k + 1 => q <= n
      BY <3>1
    <3> QED
      BY <3>2, <3>3
  <2>4. (k + 1) + 1 = k + 2
    OBVIOUS
  <2> HIDE DEF n, t
  <2> QED
    BY <2>2, <2>3, <2>4 DEF Reached
<1> QED
  BY <1>1, <1>9, <1>11, <1>12

(* A stream is put out token by token. *)
LEMMA StreamLoop ==
  ASSUME NEW p, NEW vram, Job(p, vram), p.was = ram
  PROVE  \E o \in Reached(p, vram, Len(p.stream), 0) :
           S!Unpack(p.pos, p.size, p.stream, vram) = o.m
<1> DEFINE n == Len(p.stream)
           s == S!Start(p.pos, p.size)
           F == [x \in (1..n) \X Outs |-> S!Token(x[2], p.stream[x[1]], vram)]
           D == [k \in 0..n |-> Reached(p, vram, k, 0)]
           Body(g) == [k \in 0..n |-> IF k = 0 THEN s ELSE S!Token(g[k - 1], p.stream[k], vram)]
           h == CHOOSE g : g = Body(g)
<1>1. n \in Nat /\ S!Begins(p.stream)[0] = 0 /\ \A l \in 1..n : S!Length(p.stream[l]) \in Nat
  BY StreamBegins DEF Job
<1>2. \A k \in 1..n : k \in 0..n /\ k - 1 \in 0..n /\ k # 0 /\ k - 1 \in 0..(n - 1) /\ (k - 1) + 1 = k
  BY <1>1
<1>3. \A k \in 1..n : \A x \in D[k - 1] :
        F[<<k, x>>] = S!Token(x, p.stream[k], vram) /\ S!Token(x, p.stream[k], vram) \in D[k]
  <2> SUFFICES ASSUME NEW k \in 1..n, NEW x \in D[k - 1]
               PROVE  /\ F[<<k, x>>] = S!Token(x, p.stream[k], vram)
                      /\ S!Token(x, p.stream[k], vram) \in D[k]
    OBVIOUS
  <2>1. D[k] = Reached(p, vram, k, 0) /\ x \in Reached(p, vram, k - 1, 0)
    BY <1>2
  <2>2. x \in Outs
    BY <2>1 DEF Reached
  <2>3. F[<<k, x>>] = S!Token(x, p.stream[k], vram)
    BY <2>2
  <2>4. S!Token(x, p.stream[(k - 1) + 1], vram) \in Reached(p, vram, (k - 1) + 1, 0)
    BY <1>2, <2>1, TokenStep
  <2> QED
    BY <1>2, <2>1, <2>3, <2>4
<1>4. s \in D[0]
  <2>1. /\ s = [m |-> ram, pos |-> p.pos, remaining |-> p.size, buffer |-> 0, count |-> 0]
        /\ s \in Outs
    BY DEF S!Start, Outs, Job
  <2>2. Out(p, S!Begins(p.stream)[0] + 0) = 0 /\ p.pos + 0 = p.pos /\ p.size - 0 = p.size
    BY <1>1 DEF Out, Job
  <2>3. Shown(s, vram) = ram
    BY <2>1 DEF Shown
  <2>4. ASSUME NEW l \in 1..n, NEW q \in 1..S!Length(p.stream[l])
        PROVE  ~(l <= 0 \/ (l = 0 + 1 /\ q <= 0))
    BY <1>1
  <2>5. s \in Reached(p, vram, 0, 0)
    <3> HIDE DEF s
    <3> QED
      BY <2>1, <2>2, <2>3, <2>4 DEF Reached
  <2> QED
    BY <1>1, <2>5
<1>5. PICK g : Loop(g, n, s, F, D)
  <2>1. \A k \in 1..n : \A x \in D[k - 1] : F[<<k, x>>] \in D[k]
    BY <1>3, ZenonT(60)
  <2> HIDE DEF n, F, D, s
  <2> QED
    BY <1>1, <1>4, <2>1, Repeated
<1>6. \A k \in 1..n : g[k] = S!Token(g[k - 1], p.stream[k], vram)
  <2> HIDE DEF n, F, D, s
  <2> QED
    BY <1>3, <1>5 DEF Loop
<1>7. g = Body(g)
  <2>1. \A k \in 0..n : g[k] = IF k = 0 THEN s ELSE S!Token(g[k - 1], p.stream[k], vram)
    <3>1. \A k \in 0..n : k # 0 => k \in 1..n
      BY <1>1
    <3> HIDE DEF n, F, D, s
    <3> QED
      BY <1>5, <1>6, <3>1 DEF Loop
  <2>2. g = [k \in 0..n |-> g[k]]
    BY <1>5 DEF Loop
  <2> HIDE DEF n, F, D, s
  <2> QED
    BY <2>1, <2>2
<1>8. h = Body(h)
  <2> HIDE DEF Body
  <2> QED
    BY <1>7
<1>9. S!Unpack(p.pos, p.size, p.stream, vram) = h[n].m
  BY DEF S!Unpack
<1> HIDE DEF h
<1>10. h[0] = s /\ \A k \in 1..n : h[k] = S!Token(h[k - 1], p.stream[k], vram)
  <2>1. \A k \in 0..n : h[k] = IF k = 0 THEN s ELSE S!Token(h[k - 1], p.stream[k], vram)
    BY <1>8
  <2>2. 0 \in 0..n
    BY <1>1
  <2> HIDE DEF n, s
  <2> QED
    BY <1>2, <2>1, <2>2
<1>11. h[n] \in D[n]
  <2> HIDE DEF n, F, D, s
  <2>1. h[0] \in D[0]
    BY <1>4, <1>10
  <2>2. \A k \in 1..n : h[k - 1] \in D[k - 1] => h[k] \in D[k]
    BY <1>3, <1>10
  <2> QED
    BY <1>1, <2>1, <2>2, StepsKeep
<1> QED
  BY <1>1, <1>9, <1>11

(* What a call that unpacks leaves. *)
LEMMA StreamLies ==
  ASSUME NEW p, NEW vram, Job(p, vram), p.was = ram, p.size <= S!Begins(p.stream)[Len(p.stream)],
         vram => p.size % 2 = 0
  PROVE  /\ S!Lies(S!Unpack(p.pos, p.size, p.stream, vram), p)
         /\ S!Unpack(p.pos, p.size, p.stream, vram) \in Memories
<1> DEFINE L == Len(p.stream)
           B == S!Begins(p.stream)
<1>1. PICK o \in Reached(p, vram, L, 0) : S!Unpack(p.pos, p.size, p.stream, vram) = o.m
  BY StreamLoop
<1>2. L \in Nat /\ B[L] \in Nat
  BY StreamBegins DEF Job
<1>3. p.pos \in Nat /\ p.size \in Nat
  BY DEF Job
<1>4. Out(p, B[L] + 0) = p.size
  BY <1>2, <1>3 DEF Out
<1>5. /\ o \in Outs /\ o.count = p.size
      /\ \A j \in S!Cells : j \notin p.pos..(p.pos + p.size - 1) => Shown(o, vram)[j] = p.was[j]
      /\ \A l \in 1..L : \A q \in 1..S!Length(p.stream[l]) :
           l <= L \/ (l = L + 1 /\ q <= 0) => LiesAt(Shown(o, vram), p, l, q)
  BY <1>4 DEF Reached
<1>6. Shown(o, vram) = o.m
  BY <1>5 DEF Shown
<1>7. \A l \in 1..L : \A q \in 1..S!Length(p.stream[l]) : LiesAt(o.m, p, l, q)
  BY <1>2, <1>5, <1>6
<1>8. S!Lies(o.m, p)
  BY <1>5, <1>6, <1>7 DEF S!Lies, LiesAt
<1> QED
  BY <1>1, <1>5, <1>8 DEF Outs

(* What is put one after the other is put at once. *)
Listed(f, n) == [k \in 1..n |-> f[k]]

(* A list has its length. *)
LEMMA LengthOf ==
  ASSUME NEW n \in Nat, NEW f
  PROVE  Len(Listed(f, n)) = n /\ \A k \in 1..n : Listed(f, n)[k] = f[k]
<1> DEFINE T == {f[k] : k \in 1..n}
           g == [k \in 1..n |-> f[k]]
<1>1. g \in [1..n -> T]
  OBVIOUS
<1>2. g \in Seq(T)
  BY <1>1, SeqDef
<1> QED
  BY <1>1, <1>2, LenProperties DEF Listed

LEMMA PutNone ==
  ASSUME NEW m, m = [j \in S!Cells |-> m[j]], NEW i \in Nat, NEW f
  PROVE  S!Put(m, i, Listed(f, 0)) = m
<1>1. Len(Listed(f, 0)) = 0
  BY LengthOf
<1>2. \A j \in S!Cells : j \notin i..(i + 0 - 1)
  BY DEF S!Cells
<1> QED
  BY <1>1, <1>2 DEF S!Put

LEMMA PutMore ==
  ASSUME NEW m, NEW i \in Nat, NEW n \in Nat, NEW f
  PROVE  S!Put(S!Put(m, i, Listed(f, n)), i + n, <<f[n + 1]>>)
           = S!Put(m, i, Listed(f, n + 1))
<1> DEFINE a == S!Put(m, i, Listed(f, n))
           b == S!Put(a, i + n, <<f[n + 1]>>)
           c == S!Put(m, i, Listed(f, n + 1))
<1>1. Len(Listed(f, n)) = n /\ Len(Listed(f, n + 1)) = n + 1
  BY LengthOf
<1>2. Len(<<f[n + 1]>>) = 1
  OBVIOUS
<1>3. a = [j \in S!Cells |-> IF j \in i..(i + n - 1) THEN Listed(f, n)[j - i + 1] ELSE m[j]]
  BY <1>1 DEF S!Put
<1>4. c = [j \in S!Cells |-> IF j \in i..(i + (n + 1) - 1)
                             THEN Listed(f, n + 1)[j - i + 1] ELSE m[j]]
  BY <1>1 DEF S!Put
<1>5. b = [j \in S!Cells |-> IF j \in (i + n)..(i + n + 1 - 1)
                             THEN <<f[n + 1]>>[j - (i + n) + 1] ELSE a[j]]
  BY <1>2 DEF S!Put
<1> HIDE DEF a, b, c
<1>6. ASSUME NEW j \in S!Cells PROVE b[j] = c[j]
  <2>1. j \in Nat
    BY <1>6 DEF S!Cells
  <2>2. CASE j = i + n
    <3>1. j \in (i + n)..(i + n + 1 - 1) /\ j - (i + n) + 1 = 1 /\ j \in i..(i + (n + 1) - 1)
          /\ j - i + 1 = n + 1 /\ n + 1 \in 1..(n + 1)
      BY <2>1, <2>2
    <3>2. b[j] = <<f[n + 1]>>[1]
      BY <1>5, <3>1
    <3>3. c[j] = Listed(f, n + 1)[n + 1]
      BY <1>4, <3>1
    <3>4. n + 1 \in Nat
      OBVIOUS
    <3>5. Listed(f, n + 1)[n + 1] = f[n + 1]
      BY <3>1, <3>4, LengthOf
    <3>6. <<f[n + 1]>>[1] = f[n + 1]
      OBVIOUS
    <3> QED
      BY <3>2, <3>3, <3>5, <3>6
  <2>3. CASE j \in i..(i + n - 1)
    <3>1. j \notin (i + n)..(i + n + 1 - 1) /\ j \in i..(i + (n + 1) - 1)
          /\ j - i + 1 \in 1..n /\ j - i + 1 \in 1..(n + 1)
      BY <2>1, <2>3
    <3>2. b[j] = a[j]
      BY <1>5, <3>1
    <3>3. a[j] = Listed(f, n)[j - i + 1]
      BY <1>3, <2>3
    <3>4. c[j] = Listed(f, n + 1)[j - i + 1]
      BY <1>4, <3>1
    <3> QED
      BY <3>1, <3>2, <3>3, <3>4, LengthOf
  <2>4. CASE j # i + n /\ j \notin i..(i + n - 1)
    <3>1. j \notin (i + n)..(i + n + 1 - 1) /\ j \notin i..(i + (n + 1) - 1)
      BY <2>1, <2>4
    <3> QED
      BY <1>3, <1>4, <1>5, <2>4, <3>1
  <2> QED
    BY <2>2, <2>3, <2>4
<1> QED
  BY <1>4, <1>5, <1>6 DEF a, b, c

(* A copy that does not run into what it has still to read is one. *)
Source(src, fixed) == [i \in Nat |-> IF fixed THEN ram[src] ELSE ram[src + i - 1]]
SoFar(src, dst, i, fixed) == S!Put(ram, dst, Listed(Source(src, fixed), i))

(* One more unit: what it reads has not been written yet. *)
LEMMA CopyStep ==
  ASSUME ram \in Memories, NEW src \in Nat, NEW dst \in Nat, NEW count \in Nat, NEW fixed,
         src + count <= RAM, dst + count <= RAM,
         fixed \/ dst \notin (src + 1)..(src + count - 1), NEW i \in 1..count
  PROVE  S!Moved(SoFar(src, dst, i - 1, fixed), src, dst, i, fixed) = SoFar(src, dst, i, fixed)
<1> DEFINE f == Source(src, fixed)
           n == i - 1
           m == SoFar(src, dst, n, fixed)
<1>1. /\ n \in Nat /\ i = n + 1 /\ dst + i - 1 = dst + n /\ src + i - 1 = src + n /\ RAM \in Nat
      /\ src + n \in S!Cells /\ dst + n \in S!Cells
  BY ServicesAssumption DEF S!Cells
<1>2. f[i] = IF fixed THEN ram[src] ELSE ram[src + i - 1]
  BY <1>1 DEF Source
<1>3. ~fixed => m[src + n] = ram[src + n]
  <2> SUFFICES ASSUME ~fixed PROVE m[src + n] = ram[src + n]
    OBVIOUS
  <2>1. src + n \notin dst..(dst + n - 1)
    BY <1>1
  <2>2. Len(Listed(f, n)) = n
    BY <1>1, LengthOf
  <2> HIDE DEF f, n
  <2> QED
    BY <1>1, <2>1, <2>2 DEF SoFar, S!Put, f
<1>4. S!Moved(m, src, dst, i, fixed) = S!Put(m, dst + n, <<f[n + 1]>>)
  <2>1. f[n + 1] = IF fixed THEN ram[src] ELSE m[src + i - 1]
    BY <1>1, <1>2, <1>3
  <2> HIDE DEF f, n, m
  <2> QED
    BY <1>1, <2>1 DEF S!Moved
<1>5. S!Put(m, dst + n, <<f[n + 1]>>) = SoFar(src, dst, n + 1, fixed)
  <2> HIDE DEF n, f
  <2>1. S!Put(S!Put(ram, dst, Listed(f, n)), dst + n, <<f[n + 1]>>)
          = S!Put(ram, dst, Listed(f, n + 1))
    BY <1>1, PutMore
  <2> QED
    BY <2>1 DEF SoFar, f
<1> QED
  BY <1>1, <1>4, <1>5

(* The copies of CpuSet and CpuFastSet, for every count. *)
LEMMA CopyRight ==
  ASSUME ram \in Memories, NEW src \in Nat, NEW dst \in Nat, NEW count \in Nat, NEW fixed,
         src + count <= RAM, dst + count <= RAM,
         fixed \/ dst \notin (src + 1)..(src + count - 1)
  PROVE  S!Copy(src, dst, count, fixed) = S!Copied(src, dst, count, fixed).ram
<1> DEFINE State(i) == SoFar(src, dst, i, fixed)
           States == {State(i) : i \in 0..count}
           F == [x \in (1..count) \X States |-> S!Moved(x[2], src, dst, x[1], fixed)]
           D == [i \in 0..count |-> {State(i)}]
           Body(g) == [i \in 0..count |-> IF i = 0 THEN ram ELSE S!Moved(g[i - 1], src, dst, i, fixed)]
           h == CHOOSE g : g = Body(g)
<1>1. \A i \in 1..count : i \in 0..count /\ i - 1 \in 0..count /\ i # 0
  OBVIOUS
<1>2. \A i \in 1..count : S!Moved(State(i - 1), src, dst, i, fixed) = State(i)
  BY CopyStep, ZenonT(60)
<1> HIDE DEF State
<1>3. \A i \in 1..count : \A x \in D[i - 1] :
        F[<<i, x>>] = S!Moved(x, src, dst, i, fixed) /\ S!Moved(x, src, dst, i, fixed) \in D[i]
  <2> SUFFICES ASSUME NEW i \in 1..count, NEW x \in D[i - 1]
               PROVE  F[<<i, x>>] = S!Moved(x, src, dst, i, fixed)
                      /\ S!Moved(x, src, dst, i, fixed) \in D[i]
    OBVIOUS
  <2>1. D[i] = {State(i)} /\ x = State(i - 1) /\ x \in States
    BY <1>1
  <2> HIDE DEF D, States
  <2>2. F[<<i, x>>] = S!Moved(x, src, dst, i, fixed)
    BY <2>1
  <2> QED
    BY <1>2, <2>1, <2>2
<1>4. ram \in D[0]
  <2>1. State(0) = ram
    BY PutNone DEF State, SoFar, Memories
  <2> QED
    BY <2>1
<1>5. PICK g : Loop(g, count, ram, F, D)
  <2>1. \A i \in 1..count : \A x \in D[i - 1] : F[<<i, x>>] \in D[i]
    BY <1>3, ZenonT(60)
  <2> HIDE DEF F, D
  <2> QED
    BY <1>4, <2>1, Repeated
<1>6. \A i \in 1..count : g[i] = S!Moved(g[i - 1], src, dst, i, fixed)
  <2> HIDE DEF F, D
  <2> QED
    BY <1>3, <1>5 DEF Loop
<1>7. g = Body(g)
  <2>1. \A i \in 0..count : g[i] = IF i = 0 THEN ram ELSE S!Moved(g[i - 1], src, dst, i, fixed)
    <3>1. \A i \in 0..count : i # 0 => i \in 1..count
      OBVIOUS
    <3> HIDE DEF F, D
    <3> QED
      BY <1>5, <1>6, <3>1 DEF Loop
  <2>2. g = [i \in 0..count |-> g[i]]
    BY <1>5 DEF Loop
  <2> HIDE DEF F, D
  <2> QED
    BY <2>1, <2>2
<1>8. h = Body(h)
  <2> HIDE DEF Body
  <2> QED
    BY <1>7
<1>9. S!Copy(src, dst, count, fixed) = h[count]
  BY DEF S!Copy
<1> HIDE DEF h
<1>10. h[0] = ram /\ \A i \in 1..count : h[i] = S!Moved(h[i - 1], src, dst, i, fixed)
  <2>1. \A i \in 0..count : h[i] = IF i = 0 THEN ram ELSE S!Moved(h[i - 1], src, dst, i, fixed)
    BY <1>8
  <2>2. 0 \in 0..count
    OBVIOUS
  <2> QED
    BY <1>1, <2>1, <2>2
<1>11. h[count] \in D[count]
  <2> HIDE DEF F, D
  <2>1. h[0] \in D[0]
    BY <1>4, <1>10
  <2>2. \A k \in 1..count : h[k - 1] \in D[k - 1] => h[k] \in D[k]
    BY <1>3, <1>10
  <2> QED
    BY <2>1, <2>2, StepsKeep
<1>12. S!Copied(src, dst, count, fixed).ram = State(count)
  <2> DEFINE e == [i \in 1..count |-> IF fixed THEN ram[src] ELSE ram[src + i - 1]]
  <2>1. e = Listed(Source(src, fixed), count)
    BY DEF Listed, Source
  <2>2. S!Copied(src, dst, count, fixed).ram = S!Put(ram, dst, e)
    BY DEF S!Copied
  <2> HIDE DEF e
  <2> QED
    BY <2>1, <2>2 DEF State, SoFar
<1> QED
  BY <1>9, <1>11, <1>12

(* A word that is gathered unit by unit is the number of its units.        *)
PerWord(u) == S!PerWord(u.width)
Add(n, u, k, i) == S!Counted(n, u.units, u.width, u.offset, u.zero, k, i)
Word1(u, k) == S!Number(u.units, u.width, u.offset, u.zero, k)
IsSum(sum, u, k) ==
  /\ sum[0] = 0 /\ \A i \in 1..PerWord(u) : sum[i] = Add(sum[i - 1], u, k, i)
  /\ Word1(u, k) = sum[PerWord(u)]
Sum(u, k) == CHOOSE sum : IsSum(sum, u, k)

(* Such a sum there is. *)
LEMMA SumThere ==
  ASSUME NEW u, NEW k, PerWord(u) \in Nat
  PROVE  IsSum(Sum(u, k), u, k)
<1> DEFINE n == PerWord(u)
           Body(m, g) == [i \in 0..m |-> IF i = 0 THEN 0 ELSE Add(g[i - 1], u, k, i)]
           T == {m \in 0..n : \E g : g = Body(m, g)}
<1>1. Word1(u, k) = (CHOOSE g : g = Body(n, g))[n]
  BY DEF Word1, S!Number, Add, PerWord
<1>2. 0 \in T
  <2> DEFINE g == [i \in 0..0 |-> 0]
  <2>1. g = Body(0, g)
    OBVIOUS
  <2> HIDE DEF g, Body
  <2> QED
    BY <2>1
<1>3. ASSUME NEW m \in 0..(n - 1), m \in T PROVE m + 1 \in T
  <2>1. PICK g : g = Body(m, g)
    BY <1>3
  <2> DEFINE h == [i \in 0..(m + 1) |-> IF i = m + 1 THEN Add(g[m], u, k, m + 1) ELSE g[i]]
  <2>2. \A i \in 0..m : h[i] = g[i] /\ g[i] = IF i = 0 THEN 0 ELSE Add(g[i - 1], u, k, i)
    <3>1. \A i \in 0..m : h[i] = g[i]
      OBVIOUS
    <3> HIDE DEF h
    <3>2. \A i \in 0..m : g[i] = Body(m, g)[i]
      BY <2>1
    <3> QED
      BY <3>1, <3>2
  <2>3. h[m + 1] = Add(g[m], u, k, m + 1) /\ h = [i \in 0..(m + 1) |-> h[i]]
    OBVIOUS
  <2> HIDE DEF h
  <2>4. ASSUME NEW i \in 0..(m + 1) PROVE h[i] = IF i = 0 THEN 0 ELSE Add(h[i - 1], u, k, i)
    <3>1. CASE i = m + 1
      <4>1. i # 0 /\ i - 1 = m /\ m \in 0..m
        BY <3>1
      <4> QED
        BY <2>2, <2>3, <3>1, <4>1
    <3>2. CASE i # m + 1
      <4>1. i \in 0..m /\ (i # 0 => i - 1 \in 0..m)
        BY <3>2
      <4> QED
        BY <2>2, <4>1
    <3> QED
      BY <3>1, <3>2
  <2>5. h = Body(m + 1, h)
    BY <2>3, <2>4
  <2> HIDE DEF Body
  <2>6. m + 1 \in 0..n
    OBVIOUS
  <2> QED
    BY <2>5, <2>6
<1>4. n \in T
  <2> HIDE DEF T, n
  <2> QED
    BY <1>2, <1>3, InductionTo DEF n
<1> DEFINE p == CHOOSE g : g = Body(n, g)
<1>5. p = Body(n, p)
  <2>1. \E g : g = Body(n, g)
    BY <1>4
  <2> HIDE DEF Body
  <2> QED
    BY <2>1
<1> HIDE DEF p
<1>6. \A i \in 0..n : p[i] = IF i = 0 THEN 0 ELSE Add(p[i - 1], u, k, i)
  BY <1>5
<1>7. p[0] = 0 /\ \A i \in 1..n : p[i] = Add(p[i - 1], u, k, i)
  <2>1. 0 \in 0..n /\ \A i \in 1..n : i \in 0..n /\ i # 0
    OBVIOUS
  <2> HIDE DEF n
  <2> QED
    BY <1>6, <2>1
<1>8. IsSum(p, u, k)
  BY <1>1, <1>7 DEF IsSum, p
<1> QED
  BY <1>8 DEF Sum

(* The words that are full, and what has been gathered of the next one.    *)
Words(u) == [k \in Nat |-> Word1(u, k - 1)]
Gathering(u, pos, j) ==
  LET q == j \div PerWord(u)
      r == j % PerWord(u)
  IN  [m |-> S!Put(ram, pos, Listed(Words(u), q)), pos |-> pos + q, buffer |-> Sum(u, q)[r],
       bits |-> r * u.width]

Filled(pos, f, n) == S!Put(ram, pos, Listed(f, n))

LEMMA FilledMore ==
  ASSUME NEW pos \in Nat, NEW f, NEW n \in Nat
  PROVE  S!Put(Filled(pos, f, n), pos + n, <<f[n + 1]>>) = Filled(pos, f, n + 1)
BY PutMore DEF Filled

(* One more unit: the word is full, or it is not. *)
LEMMA GatherStep ==
  ASSUME NEW u, u.width \in Nat \ {0}, PerWord(u) \in Nat \ {0}, WORD = PerWord(u) * u.width,
         Len(u.units) \in Nat, NEW pos \in Nat, NEW j \in 1..Len(u.units)
  PROVE  S!Gather(Gathering(u, pos, j - 1), u.units[j], u.width, u.offset, u.zero)
           = Gathering(u, pos, j)
<1> DEFINE P == PerWord(u)
           a == j - 1
           q == a \div P
           r == a % P
           w == u.width
           o == Gathering(u, pos, a)
           m == S!Put(ram, pos, Listed(Words(u), q))
           b == Sum(u, q)[r + 1]
<1>0. a \in Nat /\ a + 1 = j /\ P \in Nat \ {0} /\ w \in Nat \ {0}
  OBVIOUS
<1>1. q \in Nat /\ r \in 0..(P - 1) /\ a = P * q + r
  <2> HIDE DEF a, P
  <2> QED
    BY <1>0, Division
<1>2. o = [m |-> m, pos |-> pos + q, buffer |-> Sum(u, q)[r], bits |-> r * w]
  BY DEF Gathering
<1> HIDE DEF a
<1>3. /\ r + 1 < P => j \div P = q /\ j % P = r + 1
      /\ r + 1 = P => j \div P = q + 1 /\ j % P = 0
  <2> HIDE DEF P
  <2> QED
    BY <1>0, OneMore
<1>4. \A k : IsSum(Sum(u, k), u, k)
  BY SumThere
<1> HIDE DEF P, q, r, w, o, m
<1>5. o.buffer + S!Widened(u.units[j], u.offset, u.zero) * 2^o.bits = b
  <2>1. r + 1 \in 1..P /\ (r + 1) - 1 = r
    BY <1>0, <1>1
  <2>2. b = Add(Sum(u, q)[r], u, q, r + 1)
    BY <1>4, <2>1 DEF IsSum, P
  <2>3. q * P + (r + 1) = j
    BY <1>0, <1>1
  <2>4. ~(j > Len(u.units))
    OBVIOUS
  <2>5. Add(Sum(u, q)[r], u, q, r + 1)
          = Sum(u, q)[r] + S!Widened(u.units[j], u.offset, u.zero) * 2^(r * w)
    <3>1. q * S!PerWord(u.width) + (r + 1) = j
      BY <2>3 DEF P, PerWord
    <3> QED
      BY <2>1, <2>4, <3>1 DEF Add, S!Counted, w
  <2>6. o.buffer = Sum(u, q)[r] /\ o.bits = r * w
    BY <1>2
  <2> HIDE DEF b
  <2> QED
    BY <2>2, <2>5, <2>6
<1>6. CASE r + 1 < P
  <2>1. o.bits + w < WORD /\ o.bits + w = (r + 1) * w
    <3>1. o.bits = r * w /\ WORD = P * w
      BY <1>2 DEF P, w
    <3>2. r * w + w = (r + 1) * w /\ (r + 1) * w \in Nat
      BY <1>0, <1>1
    <3>3. P = (r + 1) + (P - (r + 1)) /\ P - (r + 1) \in Nat \ {0}
      BY <1>0, <1>1, <1>6
    <3>4. P * w = (r + 1) * w + (P - (r + 1)) * w /\ (P - (r + 1)) * w \in Nat \ {0}
      BY <1>0, <1>1, <3>3
    <3> QED
      BY <3>1, <3>2, <3>4
  <2>2. S!Gather(o, u.units[j], w, u.offset, u.zero) = [o EXCEPT !.buffer = b, !.bits = o.bits + w]
    BY <1>5, <2>1 DEF S!Gather
  <2>3. Gathering(u, pos, j) = [m |-> m, pos |-> pos + q, buffer |-> b, bits |-> (r + 1) * w]
    BY <1>3, <1>6 DEF Gathering, P, m, w
  <2> HIDE DEF b
  <2>4. S!Gather(o, u.units[j], w, u.offset, u.zero) = Gathering(u, pos, j)
    BY <1>2, <2>1, <2>2, <2>3
  <2> QED
    BY <2>4 DEF o, w, a
<1>7. CASE ~(r + 1 < P)
  <2>1. r + 1 = P
    BY <1>0, <1>1, <1>7
  <2>2. o.bits + w = WORD
    <3>1. o.bits = r * w /\ WORD = P * w
      BY <1>2 DEF P, w
    <3>2. r * w + w = (r + 1) * w
      BY <1>0, <1>1
    <3> QED
      BY <2>1, <3>1, <3>2
  <2>3. S!Gather(o, u.units[j], w, u.offset, u.zero)
          = [m |-> S!Put(o.m, o.pos, <<b>>), pos |-> o.pos + 1, buffer |-> 0, bits |-> 0]
    <3>1. ~(o.bits + w < WORD)
      BY <1>0, <1>1, <2>2, ServicesAssumption
    <3> QED
      BY <1>5, <3>1 DEF S!Gather
  <2>4. b = Words(u)[q + 1]
    <3>1. b = Word1(u, q)
      BY <1>4, <2>1 DEF IsSum, P
    <3>2. (q + 1) - 1 = q /\ q + 1 \in Nat
      BY <1>0, <1>1
    <3> HIDE DEF b
    <3> QED
      BY <3>1, <3>2 DEF Words
  <2>5. S!Put(m, pos + q, <<b>>) = S!Put(ram, pos, Listed(Words(u), q + 1))
    <3>1. m = Filled(pos, Words(u), q)
      BY DEF m, Filled
    <3>2. S!Put(Filled(pos, Words(u), q), pos + q, <<Words(u)[q + 1]>>) = Filled(pos, Words(u), q + 1)
      <4> HIDE DEF b
      <4> QED
        BY <1>1, FilledMore
    <3> HIDE DEF b
    <3> QED
      BY <2>4, <3>1, <3>2 DEF Filled
  <2>6. Sum(u, q + 1)[0] = 0 /\ 0 * w = 0 /\ (pos + q) + 1 = pos + (q + 1)
    BY <1>0, <1>1, <1>4 DEF IsSum
  <2>7. Gathering(u, pos, j) = [m |-> S!Put(ram, pos, Listed(Words(u), q + 1)), pos |-> pos + (q + 1),
                                buffer |-> 0, bits |-> 0]
    BY <1>3, <2>1, <2>6 DEF Gathering, P, w
  <2> HIDE DEF b
  <2>8. S!Gather(o, u.units[j], w, u.offset, u.zero) = Gathering(u, pos, j)
    BY <1>2, <2>3, <2>5, <2>6, <2>7
  <2> QED
    BY <2>8 DEF o, w, a
<1> QED
  BY <1>6, <1>7

(* All units. *)
LEMMA GatheredRight ==
  ASSUME ram \in Memories, NEW u, u.width \in Nat \ {0}, PerWord(u) \in Nat \ {0},
         WORD = PerWord(u) * u.width, Len(u.units) \in Nat, NEW pos \in Nat
  PROVE  S!Gathered(pos, u.units, u.width, u.offset, u.zero) = Gathering(u, pos, Len(u.units))
<1> DEFINE n == Len(u.units)
           w == u.width
           o == u.offset
           z == u.zero
           G(x, j) == S!Gather(x, u.units[j], w, o, z)
           start == [m |-> ram, pos |-> pos, buffer |-> 0, bits |-> 0]
           State(j) == Gathering(u, pos, j)
           States == {State(j) : j \in 0..n}
           F == [x \in (1..n) \X States |-> G(x[2], x[1])]
           D == [j \in 0..n |-> {State(j)}]
           Body(g) == [i \in 0..n |-> IF i = 0 THEN start ELSE G(g[i - 1], i)]
           h == CHOOSE g : g = Body(g)
<1>1. \A j \in 1..n : j \in 0..n /\ j - 1 \in 0..n /\ j # 0
  OBVIOUS
<1>2. \A j \in 1..n : G(State(j - 1), j) = State(j)
  BY GatherStep
<1>3. start = State(0)
  <2> DEFINE P == PerWord(u)
  <2>1. 0 \div P = 0 /\ 0 % P = 0
    <3>1. P \in Nat \ {0}
      OBVIOUS
    <3> HIDE DEF P
    <3> QED
      BY <3>1, Division
  <2>2. S!Put(ram, pos, Listed(Words(u), 0)) = ram
    BY PutNone DEF Memories
  <2>3. Sum(u, 0)[0] = 0
    BY SumThere DEF IsSum
  <2>4. 0 * w = 0 /\ pos + 0 = pos
    OBVIOUS
  <2> HIDE DEF w
  <2>5. State(0) = [m |-> S!Put(ram, pos, Listed(Words(u), 0)), pos |-> pos + 0,
                    buffer |-> Sum(u, 0)[0], bits |-> 0 * w]
    <3>1. 0 \div PerWord(u) = 0 /\ 0 % PerWord(u) = 0
      BY <2>1
    <3> QED
      BY <3>1 DEF Gathering, w
  <2> HIDE DEF State
  <2> QED
    BY <2>2, <2>3, <2>4, <2>5
<1>4. S!Gathered(pos, u.units, w, o, z) = h[n]
  BY DEF S!Gathered
<1> HIDE DEF State, G, start, w, o, z, n
<1>5. n \in Nat
  BY DEF n
<1>6. \A j \in 1..n : \A x \in D[j - 1] : F[<<j, x>>] = G(x, j) /\ G(x, j) \in D[j]
  <2> SUFFICES ASSUME NEW j \in 1..n, NEW x \in D[j - 1]
               PROVE  F[<<j, x>>] = G(x, j) /\ G(x, j) \in D[j]
    OBVIOUS
  <2>1. D[j] = {State(j)} /\ x = State(j - 1) /\ x \in States
    BY <1>1
  <2> HIDE DEF D, States
  <2>2. F[<<j, x>>] = G(x, j)
    BY <2>1
  <2> QED
    BY <1>2, <2>1, <2>2
<1>7. start \in D[0]
  BY <1>3, <1>5
<1>8. PICK g : Loop(g, n, start, F, D)
  <2>1. \A j \in 1..n : \A x \in D[j - 1] : F[<<j, x>>] \in D[j]
    BY <1>6, ZenonT(60)
  <2> HIDE DEF F, D
  <2> QED
    BY <1>5, <1>7, <2>1, Repeated
<1>9. \A i \in 1..n : g[i] = G(g[i - 1], i)
  <2> HIDE DEF F, D
  <2> QED
    BY <1>6, <1>8 DEF Loop
<1>10. g = Body(g)
  <2>1. \A i \in 0..n : g[i] = IF i = 0 THEN start ELSE G(g[i - 1], i)
    <3>1. \A i \in 0..n : i # 0 => i \in 1..n
      BY <1>5
    <3> HIDE DEF F, D
    <3> QED
      BY <1>8, <1>9, <3>1 DEF Loop
  <2>2. g = [i \in 0..n |-> g[i]]
    BY <1>8 DEF Loop
  <2> HIDE DEF F, D
  <2> QED
    BY <2>1, <2>2
<1>11. h = Body(h)
  <2> HIDE DEF Body
  <2> QED
    BY <1>10
<1> HIDE DEF h
<1>12. h[0] = start /\ \A i \in 1..n : h[i] = G(h[i - 1], i)
  <2>1. \A i \in 0..n : h[i] = IF i = 0 THEN start ELSE G(h[i - 1], i)
    BY <1>11
  <2>2. 0 \in 0..n
    BY <1>5
  <2> QED
    BY <1>1, <2>1, <2>2
<1>13. h[n] \in D[n]
  <2> HIDE DEF F, D
  <2>1. h[0] \in D[0]
    BY <1>7, <1>12
  <2>2. \A k \in 1..n : h[k - 1] \in D[k - 1] => h[k] \in D[k]
    BY <1>6, <1>12
  <2> QED
    BY <1>5, <2>1, <2>2, StepsKeep
<1>14. h[n] = State(n)
  BY <1>5, <1>13
<1> QED
  BY <1>4, <1>14 DEF State, n, w, o, z

(* Where no units are left, nothing is added to the last word. *)
LEMMA SumStays ==
  ASSUME NEW u, PerWord(u) \in Nat \ {0}, Len(u.units) \in Nat, NEW k \in Nat,
         NEW r \in 0..PerWord(u), k * PerWord(u) + r = Len(u.units)
  PROVE  Sum(u, k)[r] = Word1(u, k)
<1> DEFINE P == PerWord(u)
           f == Sum(u, k)
           T == {i \in 0..(P - r) : f[r + i] = f[r]}
<1>1. P \in Nat \ {0} /\ r \in 0..P /\ P - r \in Nat
  OBVIOUS
<1>2. IsSum(f, u, k)
  BY SumThere
<1>3. f[P] = Word1(u, k) /\ \A i \in 1..P : f[i] = Add(f[i - 1], u, k, i)
  BY <1>2 DEF IsSum
<1>4. ASSUME NEW i \in 1..P, i > r PROVE Add(f[i - 1], u, k, i) = f[i - 1]
  <2>1. k * S!PerWord(u.width) + i > Len(u.units)
    <3>1. S!PerWord(u.width) = P
      BY DEF PerWord
    <3>2. k * P \in Nat /\ k * P + r = Len(u.units)
      BY <1>1
    <3> HIDE DEF P
    <3> QED
      BY <1>1, <1>4, <3>1, <3>2
  <2> HIDE DEF f
  <2> QED
    BY <2>1 DEF Add, S!Counted
<1> HIDE DEF P, f
<1>5. 0 \in T
  BY <1>1
<1>6. ASSUME NEW i \in 0..(P - r - 1), i \in T PROVE i + 1 \in T
  <2>1. /\ r + i + 1 \in 1..P /\ r + i + 1 > r /\ r + i + 1 - 1 = r + i
        /\ r + (i + 1) = r + i + 1 /\ i + 1 \in 0..(P - r)
    BY <1>1
  <2>2. f[r + i + 1] = f[r + i]
    BY <1>3, <1>4, <2>1
  <2> QED
    BY <1>6, <2>1, <2>2
<1>7. P - r \in T
  <2> HIDE DEF T
  <2> QED
    BY <1>1, <1>5, <1>6, InductionTo
<1>8. r + (P - r) = P
  BY <1>1
<1> QED
  BY <1>3, <1>7, <1>8 DEF f

(* BitUnPack leaves its words, the last one when it is not full, too. *)
LEMMA BitUnpackRight ==
  ASSUME ram \in Memories, NEW u, u.width \in Nat \ {0}, PerWord(u) \in Nat \ {0},
         WORD = PerWord(u) * u.width, Len(u.units) \in Nat, NEW pos \in Nat
  PROVE  S!swi_bit_unpack(pos, u.units, u.width, u.offset, u.zero)
           = Filled(pos, Words(u), (Len(u.units) + PerWord(u) - 1) \div PerWord(u))
<1> DEFINE P == PerWord(u)
           L == Len(u.units)
           q == L \div P
           r == L % P
           w == u.width
           f == Words(u)
           o == Gathering(u, pos, L)
           words == (L + P - 1) \div P
<1>0. P \in Nat \ {0} /\ L \in Nat /\ w \in Nat \ {0}
  OBVIOUS
<1>1. q \in Nat /\ r \in 0..(P - 1) /\ L = P * q + r
  <2> HIDE DEF P, L
  <2> QED
    BY <1>0, Division
<1>2. o = [m |-> Filled(pos, f, q), pos |-> pos + q, buffer |-> Sum(u, q)[r], bits |-> r * w]
  BY DEF Gathering, Filled
<1>3. S!swi_bit_unpack(pos, u.units, w, u.offset, u.zero)
        = IF o.bits > 0 THEN S!Put(o.m, o.pos, <<o.buffer>>) ELSE o.m
  BY GatheredRight DEF S!swi_bit_unpack
<1>4. r = 0 => words = q
  <2> HIDE DEF P, L, q, r
  <2> SUFFICES ASSUME r = 0 PROVE (L + P - 1) \div P = q
    OBVIOUS
  <2>1. P - 1 \in 0..(P - 1) /\ P * q \in Nat
    BY <1>0, <1>1
  <2>2. L + P - 1 = P * q + (P - 1)
    BY <1>0, <1>1, <2>1
  <2> QED
    BY <1>0, <1>1, <2>1, <2>2, Quotient
<1>5. r # 0 => words = q + 1
  <2> HIDE DEF P, L, q, r
  <2> SUFFICES ASSUME r # 0 PROVE (L + P - 1) \div P = q + 1
    OBVIOUS
  <2>1. r - 1 \in 0..(P - 1) /\ P * q \in Nat /\ P * (q + 1) = P * q + P /\ q + 1 \in Nat
    BY <1>0, <1>1
  <2>2. L + P - 1 = P * (q + 1) + (r - 1)
    BY <1>0, <1>1, <2>1
  <2> QED
    BY <1>0, <2>1, <2>2, Quotient, ZenonT(60)
<1>6. r # 0 => Sum(u, q)[r] = f[q + 1]
  <2>1. q * PerWord(u) + r = L /\ r \in 0..PerWord(u)
    <3>1. q * P + r = L /\ r \in 0..P
      <4> HIDE DEF P, L, q, r
      <4> QED
        BY <1>0, <1>1
    <3> QED
      BY <3>1
  <2>2. Sum(u, q)[r] = Word1(u, q)
    <3> HIDE DEF q, r
    <3> QED
      BY <1>1, <2>1, SumStays
  <2>3. (q + 1) - 1 = q /\ q + 1 \in Nat
    <3> HIDE DEF q
    <3> QED
      BY <1>1
  <2> HIDE DEF q, r
  <2> QED
    BY <2>2, <2>3 DEF Words
<1>7. S!Put(Filled(pos, f, q), pos + q, <<f[q + 1]>>) = Filled(pos, f, q + 1)
  <2> HIDE DEF f, q
  <2> QED
    BY <1>1, FilledMore
<1>8. r * w > 0 <=> r # 0
  <2> HIDE DEF P, r, w
  <2> QED
    BY <1>0, <1>1
<1> HIDE DEF P, L, q, r, w, f, o
<1>9. S!swi_bit_unpack(pos, u.units, w, u.offset, u.zero) = Filled(pos, f, words)
  <2>1. CASE r = 0
    BY <1>2, <1>3, <1>4, <1>8, <2>1
  <2>2. CASE r # 0
    BY <1>2, <1>3, <1>5, <1>6, <1>7, <1>8, <2>2
  <2> QED
    BY <2>1, <2>2
<1> QED
  BY <1>9 DEF w, f, L, P

(* The memory is the guest's until it calls, and a promise, if there is    *)
(* one, is kept.                                                           *)
ServicesInv == (~called => ram \in Memories) /\ S!Unpacked

(* A call of a decompressor keeps what it promised. *)
LEMMA UnpacksRight ==
  ASSUME ram \in Memories, NEW pos \in S!Cells, NEW size \in S!Cells, NEW vram \in BOOLEAN,
         NEW s \in LzStreams \cup RlStreams, NEW m, m = S!Unpack(pos, size, s, vram),
         S!Unpacks(pos, size, s, vram, m)
  PROVE  S!Unpacked' /\ called'
<1> DEFINE p == [pos |-> pos, size |-> size, stream |-> s, was |-> ram]
           even == ~(vram /\ (~S!ForVram(s) \/ size % 2 = 1))
<1>1. /\ vram => pos % 2 = 0
      /\ pos + size <= RAM /\ size <= S!Begins(s)[Len(s)]
      /\ called' /\ ram' = m /\ due' = IF even THEN {p} ELSE {}
  BY DEF S!Unpacks, S!Leaves, S!Call
<1>2. pos \in Nat /\ size \in Nat
  BY DEF S!Cells
<1>3. GoodStream(s)
  BY ServicesAssumption DEF GoodStream
<1>4. CASE even
  <2>1. Job(p, vram)
    BY <1>1, <1>2, <1>3, <1>4 DEF Job
  <2>2. vram => size % 2 = 0
    BY <1>2, <1>4
  <2>3. S!Lies(S!Unpack(pos, size, s, vram), p)
    <3>1. p.was = ram /\ p.size = size /\ p.pos = pos /\ p.stream = s
      OBVIOUS
    <3> HIDE DEF p
    <3>2. p.size <= S!Begins(p.stream)[Len(p.stream)] /\ (vram => p.size % 2 = 0)
      BY <1>1, <2>2, <3>1
    <3>3. S!Lies(S!Unpack(p.pos, p.size, p.stream, vram), p)
      BY <2>1, <3>1, <3>2, StreamLies
    <3> QED
      BY <3>1, <3>3
  <2>4. S!Lies(ram', p)
    BY <1>1, <2>3
  <2>5. due' = {p} /\ "ram" \notin DOMAIN p
    BY <1>1, <1>4
  <2> HIDE DEF p
  <2>6. \A x \in due' : S!Lies(ram', x) /\ "ram" \notin DOMAIN x
    BY <2>4, <2>5
  <2> QED
    BY <1>1, <2>6 DEF S!Unpacked, S!Lies, S!ByteOf
<1>5. CASE ~even
  BY <1>1, <1>5 DEF S!Unpacked
<1> QED
  BY <1>4, <1>5

(* A service that leaves the memory it promised keeps its promise. *)
LEMMA PromiseKept ==
  ASSUME NEW m, NEW w, NEW promise, S!Leaves(m, promise), promise \in {{}, {[ram |-> w]}}, m = w
  PROVE  S!Unpacked' /\ called'
<1>1. called' /\ ram' = m /\ due' = promise
  BY DEF S!Leaves, S!Call
<1>2. \A x \in due' : "stream" \notin DOMAIN x /\ x.ram = w
  BY <1>1
<1> QED
  BY <1>1, <1>2 DEF S!Unpacked

(* The services of the BIOS (bios.rs): what a stream stands for lies where *)
(* the caller asked for it, cut at the size, and nothing else has changed, *)
(* in work RAM and in VRAM; bits are widened, copies copy, fills fill: for *)
(* every stream of tokens, every memory, every place and every count.      *)
THEOREM StreamsUnpacked == BusSpec => []Unpacked
<1>1. BusInit => ServicesInv
  <2> SUFFICES ASSUME BusInit PROVE ServicesInv
    OBVIOUS
  <2>1. ram \in Fillings /\ due = {}
    BY DEF BusInit, Init2, S!Init
  <2> QED
    BY <2>1, ServicesAssumption DEF ServicesInv, Memories, S!Cells, S!Unpacked
<1>2. ServicesInv /\ [BusNext]_busVars => ServicesInv'
  <2> SUFFICES ASSUME ServicesInv, [BusNext]_busVars PROVE ServicesInv'
    OBVIOUS
  <2>1. ASSUME UNCHANGED serviceVars PROVE ServicesInv'
    <3>1. ram' = ram /\ due' = due /\ called' = called
      BY <2>1 DEF serviceVars
    <3>2. ~called' => ram' \in [S!Cells -> Nat]
      BY <3>1 DEF ServicesInv, Memories
    <3>3. \A p \in due' : /\ "stream" \in DOMAIN p => S!Lies(ram', p)
                          /\ "ram" \in DOMAIN p => ram' = p.ram
      BY <3>1 DEF ServicesInv, S!Unpacked
    <3>4. S!Unpacked'
      BY <3>3 DEF S!Unpacked, S!Lies, S!ByteOf
    <3> QED
      BY <3>2, <3>4 DEF ServicesInv, Memories, S!Cells
  <2>2. ASSUME S!Unpacked', called' PROVE ServicesInv'
    BY <2>2 DEF ServicesInv
  <2>3. ASSUME NEW pos \in S!Cells, NEW size \in S!Cells, NEW vram \in BOOLEAN,
               \/ \E s \in LzStreams : S!LZ77UnComp(pos, size, s, vram)
               \/ \E s \in RlStreams : S!RLUnComp(pos, size, s, vram)
        PROVE  ServicesInv'
    <3>1. PICK s \in LzStreams \cup RlStreams :
            S!Unpacks(pos, size, s, vram, S!Unpack(pos, size, s, vram))
      BY <2>3 DEF S!LZ77UnComp, S!RLUnComp, S!lz77_decompress, S!rl_decompress
    <3>2. ram \in Memories
      BY <3>1 DEF S!Unpacks, S!Leaves, S!Call, ServicesInv
    <3> QED
      BY <2>2, <3>1, <3>2, UnpacksRight
  <2>4. ASSUME NEW pos \in S!Cells, NEW units \in Units, NEW bits \in Widths,
               NEW offset, NEW zero, S!BitUnPack(pos, units, bits, offset, zero)
        PROVE  ServicesInv'
    <3> DEFINE u == [units |-> units, width |-> bits, offset |-> offset, zero |-> zero]
               P == S!PerWord(bits)
               words == (Len(units) + P - 1) \div P
               e == [k \in 1..words |-> S!Number(units, bits, offset, zero, k - 1)]
               m == S!swi_bit_unpack(pos, units, bits, offset, zero)
               promise == IF \E i \in 1..Len(units) : S!Widened(units[i], offset, zero) >= 2^bits
                          THEN {}
                          ELSE {[ram |-> S!Put(ram, pos, e)]}
    <3>1. S!Leaves(m, promise)
      BY <2>4 DEF S!BitUnPack
    <3>2. ram \in Memories
      BY <3>1 DEF S!Leaves, S!Call, ServicesInv
    <3>3. u.units = units /\ u.width = bits /\ u.offset = offset /\ u.zero = zero /\ PerWord(u) = P
      BY DEF PerWord
    <3>4. /\ pos \in Nat /\ Len(units) \in Nat
          /\ bits \in Nat \ {0} /\ WORD \in Nat \ {0} /\ WORD % bits = 0
      BY ServicesAssumption DEF S!Cells
    <3>5. P \in Nat \ {0} /\ WORD = P * bits
      <4>1. WORD \div bits \in Nat /\ WORD = bits * (WORD \div bits) + 0
        BY <3>4, Division
      <4>2. P = WORD \div bits
        BY DEF S!PerWord
      <4> HIDE DEF P
      <4>3. P \in Nat /\ WORD = bits * P
        BY <3>4, <4>1, <4>2
      <4>4. P # 0
        BY <3>4, <4>3
      <4>5. bits * P = P * bits
        BY <3>4, <4>3
      <4> QED
        BY <4>3, <4>4, <4>5
    <3>6. S!Put(ram, pos, e) = Filled(pos, Words(u), words)
      <4>1. e = Listed(Words(u), words)
        BY <3>3 DEF Listed, Words, Word1
      <4> HIDE DEF e, u, words
      <4> QED
        BY <4>1 DEF Filled
    <3> HIDE DEF u, P
    <3>7. S!swi_bit_unpack(pos, u.units, u.width, u.offset, u.zero)
            = Filled(pos, Words(u), (Len(u.units) + PerWord(u) - 1) \div PerWord(u))
      BY <3>2, <3>3, <3>4, <3>5, BitUnpackRight
    <3>8. m = S!Put(ram, pos, e)
      BY <3>3, <3>6, <3>7
    <3>9. promise \in {{}, {[ram |-> S!Put(ram, pos, e)]}}
      OBVIOUS
    <3> HIDE DEF m, promise, e
    <3> QED
      BY <2>2, <3>1, <3>8, <3>9, PromiseKept
  <2>5. ASSUME NEW src \in S!Cells, NEW dst \in S!Cells, NEW count \in Nat, NEW fixed,
               src + count <= RAM, dst + count <= RAM,
               S!Leaves(S!Copy(src, dst, count, fixed),
                        IF ~fixed /\ dst \in (src + 1)..(src + count - 1) THEN {}
                        ELSE {S!Copied(src, dst, count, fixed)})
        PROVE  ServicesInv'
    <3> DEFINE m == S!Copy(src, dst, count, fixed)
               w == S!Copied(src, dst, count, fixed).ram
               over == ~fixed /\ dst \in (src + 1)..(src + count - 1)
    <3>1. ram \in Memories
      BY <2>5 DEF S!Leaves, S!Call, ServicesInv
    <3>2. S!Copied(src, dst, count, fixed) = [ram |-> w]
      BY DEF S!Copied
    <3>3. src \in Nat /\ dst \in Nat
      BY DEF S!Cells
    <3>4. CASE over
      BY <2>2, <2>5, <3>4 DEF S!Leaves, S!Call, S!Unpacked
    <3>5. CASE ~over
      <4>1. S!Leaves(m, {[ram |-> w]})
        BY <2>5, <3>2, <3>5
      <4>2. m = w
        BY <2>5, <3>1, <3>3, <3>5, CopyRight
      <4> HIDE DEF m, w
      <4> QED
        BY <2>2, <4>1, <4>2, PromiseKept
    <3> QED
      BY <3>4, <3>5
  <2>6. ASSUME NEW src \in S!Cells, NEW dst \in S!Cells, NEW count \in S!Cells, NEW fixed,
               S!CpuSet(src, dst, count, fixed) \/ S!CpuFastSet(src, dst, count, fixed)
        PROVE  ServicesInv'
    <3>1. count \in Nat /\ ROUND \in Nat \ {0}
      BY ServicesAssumption DEF S!Cells
    <3>2. CASE S!CpuSet(src, dst, count, fixed)
      BY <2>5, <3>1, <3>2 DEF S!CpuSet, S!swi_cpu_set
    <3>3. CASE S!CpuFastSet(src, dst, count, fixed)
      <4>1. S!Rounded(count) \in Nat
        <5>1. count + ROUND - 1 \in Nat
          BY <3>1
        <5>2. (count + ROUND - 1) \div ROUND \in Nat
          BY <3>1, <5>1, Division
        <5> QED
          BY <3>1, <5>2 DEF S!Rounded
      <4> QED
        BY <2>5, <3>3, <4>1 DEF S!CpuFastSet, S!swi_cpu_fast_set
    <3> QED
      BY <2>6, <3>2, <3>3
  <2>7. ASSUME NEW n, NEW d, S!Div(n, d) \/ S!DivArm(d, n) PROVE ServicesInv'
    <3>1. called' /\ \A x \in due' : x = [n |-> n, d |-> d]
      BY <2>7 DEF S!Div, S!DivArm, S!Call
    <3>2. \A x \in due' : "stream" \notin DOMAIN x /\ "ram" \notin DOMAIN x
      BY <3>1
    <3> QED
      BY <2>2, <3>1, <3>2 DEF S!Unpacked
  <2>8. ASSUME NEW m \in Fillings, S!Refill(m) PROVE ServicesInv'
    <3>1. ram' \in Memories /\ due' = {}
      BY <2>8, ServicesAssumption DEF S!Refill, Memories, S!Cells
    <3> QED
      BY <3>1 DEF ServicesInv, Memories, S!Unpacked, S!Cells
  <2>9. CASE S!Next
    BY <2>3, <2>4, <2>6, <2>7, <2>8, <2>9 DEF S!Next
  <2> QED
    BY <2>1, <2>9 DEF BusNext, UseCartridge, UseMemory, UseServices, busVars
<1>3. ServicesInv => Unpacked
  BY DEF ServicesInv, Unpacked
<1> QED
  BY <1>1, <1>2, <1>3, PTL DEF BusSpec
=============================================================================
