--------------------------- MODULE RetentionProofs ---------------------------
(***************************************************************************)
(* Why a prune deletes what the retention says, and nothing else, for every *)
(* value, date and sequence of runs.  Civil finds the date of every day;    *)
(* counting back months or years by the calendar goes back a number of days *)
(* within bounds; and comparing timestamps digit by digit compares times.   *)
(* What the code iterates over is followed by IntervalInduction.            *)
(***************************************************************************)
EXTENDS Retention, BoundedSets, SequenceTheorems, TLAPS

(* A year has 365 days, or 366.                                             *)
LEMMA YearLength ==
    ASSUME NEW y \in Int
    PROVE  /\ DayNumber(y, 1, 1) \in Int
           /\ DayNumber(y + 1, 1, 1)
                 = DayNumber(y, 1, 1) + (IF Leap(y) THEN 366 ELSE 365)
  BY DEF DayNumber, DaysBefore, Leap

(* So many years have so many days.                                         *)
LEMMA YearsApart ==
    ASSUME NEW y \in Int, NEW w \in Int, y <= w
    PROVE  /\ DayNumber(w, 1, 1) - DayNumber(y, 1, 1) >= 365 * (w - y)
           /\ DayNumber(w, 1, 1) - DayNumber(y, 1, 1) <= 366 * (w - y)
  BY DEF DayNumber, DaysBefore

(* Where a month starts in its year: DaysBefore's table.                    *)
LEMMA MonthTable ==
    ASSUME NEW y \in Int, NEW m \in 1..12
    PROVE  DaysBefore(y, m) =
             (CASE m = 1 -> 0   [] m = 2  -> 31  [] m = 3  -> 59  [] m = 4  -> 90
                [] m = 5 -> 120 [] m = 6  -> 151 [] m = 7  -> 181 [] m = 8  -> 212
                [] m = 9 -> 243 [] m = 10 -> 273 [] m = 11 -> 304 [] OTHER  -> 334)
               + (IF m > 2 /\ Leap(y) THEN 1 ELSE 0)
  BY DEF DaysBefore

(* A month starts that many days into its year.                             *)
LEMMA MonthStart ==
    ASSUME NEW y \in Int, NEW m \in 1..12
    PROVE  /\ DaysBefore(y, m) \in 0..335
           /\ DayNumber(y, m, 1) = DayNumber(y, 1, 1) + DaysBefore(y, m)
           /\ DayNumber(y, m, 1) \in Int
           /\ m < 12 => DaysBefore(y, m + 1) - DaysBefore(y, m) \in 28..31
           /\ m = 12 => DayNumber(y + 1, 1, 1) - DayNumber(y, m, 1) = 31
  <1>1. DaysBefore(y, m) \in 0..335 /\ DaysBefore(y, 1) = 0
    BY MonthTable DEF DaysBefore
  <1>2. m < 12 => DaysBefore(y, m + 1) - DaysBefore(y, m) \in 28..31
    BY MonthTable
  <1>3. DayNumber(y, m, 1) = DayNumber(y, 1, 1) + DaysBefore(y, m)
    BY <1>1 DEF DayNumber
  <1>4. m = 12 => DaysBefore(y, m) = IF Leap(y) THEN 335 ELSE 334
    BY MonthTable
  <1>5. /\ DayNumber(y, 1, 1) \in Int
        /\ DayNumber(y + 1, 1, 1)
              = DayNumber(y, 1, 1) + (IF Leap(y) THEN 366 ELSE 365)
    BY YearLength
  <1>6. DayNumber(y, m, 1) \in Int
    BY <1>1, <1>3, <1>5
  <1>7. m = 12 => DayNumber(y + 1, 1, 1) - DayNumber(y, m, 1) = 31
    <2>1. CASE Leap(y)
      BY <1>3, <1>4, <1>5, <2>1
    <2>2. CASE ~Leap(y)
      BY <1>3, <1>4, <1>5, <2>2
    <2> QED BY <2>1, <2>2
  <1> QED BY <1>1, <1>2, <1>3, <1>6, <1>7

(* Every day is in a year that Civil looks at.                              *)
Years(n) == (n \div 366)..(n \div 365 + 1) \cup (n \div 365)..(n \div 366 + 1)

LEMMA YearExists ==
    ASSUME NEW n \in Int
    PROVE  \E y \in Years(n) :
              DayNumber(y, 1, 1) <= n /\ n < DayNumber(y + 1, 1, 1)
  <1> DEFINE lo == IF n >= 0 THEN n \div 366 ELSE n \div 365
             hi == IF n >= 0 THEN n \div 365 + 1 ELSE n \div 366 + 1
             S  == {i \in 0..(hi - lo) : DayNumber(lo + i, 1, 1) <= n}
  <1>1. lo \in Int /\ hi \in Int /\ lo <= hi
    OBVIOUS
  <1>2. DayNumber(lo, 1, 1) <= n
    BY DEF DayNumber, DaysBefore
  <1>3. n < DayNumber(hi + 1, 1, 1)
    BY DEF DayNumber, DaysBefore
  <1>4. 0 \in S /\ S \in SUBSET (0..(hi - lo)) /\ hi - lo \in Nat
    BY <1>1, <1>2
  <1>5. PICK m \in S : \A x \in S : x <= m
    <2> HIDE DEF S, lo, hi
    <2> QED BY <1>4, GreatestExists
  <1>6. lo + m \in lo..hi /\ DayNumber(lo + m, 1, 1) <= n
    BY <1>1, <1>5
  <1>7. n < DayNumber(lo + m + 1, 1, 1)
    <2>1. CASE m = hi - lo
      BY <1>1, <1>3, <2>1
    <2>2. CASE m < hi - lo
      <3>1. m + 1 \in 0..(hi - lo) /\ m + 1 \notin S
        BY <1>1, <1>5, <2>2
      <3>2. ~(DayNumber(lo + (m + 1), 1, 1) <= n)
        BY <3>1
      <3>3. DayNumber(lo + (m + 1), 1, 1) \in Int /\ lo + (m + 1) = lo + m + 1
        BY <1>1, <1>5, YearLength
      <3> QED BY <3>2, <3>3
    <2> QED BY <1>1, <1>5, <2>1, <2>2
  <1>8. lo + m \in Years(n)
    BY <1>1, <1>6 DEF Years
  <1> QED BY <1>6, <1>7, <1>8

(* A day before the end of a year is in one of its months.                  *)
LEMMA MonthExists ==
    ASSUME NEW n \in Int, NEW y \in Int,
           DayNumber(y, 1, 1) <= n, n < DayNumber(y + 1, 1, 1)
    PROVE  \E m \in 1..12 : /\ DayNumber(y, m, 1) <= n
                            /\ m < 12 => n < DayNumber(y, m + 1, 1)
  <1> DEFINE S == {i \in 0..12 : i > 0 /\ DayNumber(y, i, 1) <= n}
  <1>1. 1 \in S /\ S \in SUBSET (0..12)
    OBVIOUS
  <1>2. PICK m \in S : \A x \in S : x <= m
    <2> HIDE DEF S
    <2> QED BY <1>1, GreatestExists
  <1>3. m \in 1..12 /\ DayNumber(y, m, 1) <= n
    BY <1>2
  <1>4. ASSUME m < 12 PROVE n < DayNumber(y, m + 1, 1)
    <2>1. m + 1 \in 1..12 /\ m + 1 \notin S
      BY <1>2, <1>3, <1>4
    <2>2. DayNumber(y, m + 1, 1) \in Int
      BY <2>1, MonthStart
    <2> QED BY <2>1, <2>2
  <1> QED BY <1>3, <1>4

(***************************************************************************)
(* The calendar's day of a day number.                                      *)
(***************************************************************************)
IsCivil(c, n) ==
    /\ c.y \in Int /\ c.m \in 1..12 /\ c.d \in 1..31
    /\ n = DayNumber(c.y, c.m, 1) + c.d - 1
    /\ DayNumber(c.y, 1, 1) <= n /\ n < DayNumber(c.y + 1, 1, 1)
    /\ c.m < 12 => n < DayNumber(c.y, c.m + 1, 1)

(* Civil finds the year, the month and the day of every day.                *)
LEMMA CivilCorrect ==
    ASSUME NEW n \in Int
    PROVE  IsCivil(Civil(n), n)
  <1> DEFINE y == CHOOSE y \in Years(n) :
                     DayNumber(y, 1, 1) <= n /\ n < DayNumber(y + 1, 1, 1)
             m == CHOOSE m \in 1..12 : /\ DayNumber(y, m, 1) <= n
                                       /\ m < 12 => n < DayNumber(y, m + 1, 1)
  <1>1. Civil(n) = [y |-> y, m |-> m, d |-> n - DayNumber(y, m, 1) + 1]
    BY DEF Civil, Years
  <1>2. Years(n) \subseteq Int
    BY DEF Years
  <1>3. y \in Years(n) /\ DayNumber(y, 1, 1) <= n /\ n < DayNumber(y + 1, 1, 1)
    <2>1. \E z \in Years(n) : DayNumber(z, 1, 1) <= n /\ n < DayNumber(z + 1, 1, 1)
      BY YearExists
    <2> QED BY <2>1, Zenon
  <1>i. y \in Int
    BY <1>2, <1>3
  <1> HIDE DEF y
  <1>4. /\ m \in 1..12 /\ DayNumber(y, m, 1) <= n
        /\ m < 12 => n < DayNumber(y, m + 1, 1)
    <2>1. \E i \in 1..12 : /\ DayNumber(y, i, 1) <= n
                           /\ i < 12 => n < DayNumber(y, i + 1, 1)
      BY <1>i, <1>3, MonthExists
    <2> QED BY <2>1, Zenon
  <1> HIDE DEF m
  <1>5. n - DayNumber(y, m, 1) + 1 \in 1..31 /\ DayNumber(y, m, 1) \in Int
    <2>1. CASE m = 12
      <3>1. /\ DayNumber(y + 1, 1, 1) - DayNumber(y, 12, 1) = 31
            /\ DayNumber(y, 12, 1) \in Int /\ DayNumber(y + 1, 1, 1) \in Int
        BY <1>i, MonthStart, YearLength
      <3> QED BY <1>3, <1>4, <2>1, <3>1
    <2>2. CASE m < 12
      <3>1. m + 1 \in 1..12
        BY <1>4, <2>2
      <3>2. DaysBefore(y, m + 1) - DaysBefore(y, m) \in 28..31
        BY <1>i, <1>4, <2>2, MonthStart
      <3>3. DaysBefore(y, m) \in 0..335 /\ DaysBefore(y, m + 1) \in 0..335
        BY <1>i, <1>4, <3>1, MonthStart
      <3>4. DayNumber(y, m, 1) = DayNumber(y, 1, 1) + DaysBefore(y, m)
        BY <1>i, <1>4, MonthStart
      <3>5. DayNumber(y, m + 1, 1) = DayNumber(y, 1, 1) + DaysBefore(y, m + 1)
        BY <1>i, <3>1, MonthStart
      <3>6. DayNumber(y, 1, 1) \in Int
        BY <1>i, YearLength
      <3>7. DayNumber(y, m, 1) \in Int /\ DayNumber(y, m + 1, 1) \in Int
        BY <3>3, <3>4, <3>5, <3>6
      <3>8. DayNumber(y, m + 1, 1) - DayNumber(y, m, 1) <= 31
        <4>1. \A a \in Int, p, q \in 0..335 : q - p \in 28..31 => (a + q) - (a + p) <= 31
          OBVIOUS
        <4> QED BY <4>1, <3>2, <3>3, <3>4, <3>5, <3>6
      <3>9. DayNumber(y, m, 1) <= n /\ n < DayNumber(y, m + 1, 1)
        BY <1>4, <2>2
      <3> HIDE DEF m
      <3> QED BY <3>7, <3>8, <3>9
    <2> QED BY <1>4, <2>1, <2>2
  <1> QED BY <1>1, <1>i, <1>3, <1>4, <1>5 DEF IsCivil

(***************************************************************************)
(* Months.  Within a year, and from a month to the end of its year, months  *)
(* have 30 days each, but for two, and 31 at most.                          *)
(***************************************************************************)
LEMMA MonthsOfYear ==
    ASSUME NEW y \in Int, NEW m \in 1..12
    PROVE  /\ DaysBefore(y, m) \in (30 * (m - 1) - 1)..(31 * (m - 1))
           /\ (IF Leap(y) THEN 366 ELSE 365) - DaysBefore(y, m)
                 \in (30 * (13 - m) + 1)..(31 * (13 - m))
           /\ \A k \in 1..m : DaysBefore(y, m) - DaysBefore(y, k)
                                 \in (30 * (m - k) - 2)..(31 * (m - k))
  <1>1. CASE Leap(y)
    BY <1>1, MonthTable
  <1>2. CASE ~Leap(y)
    BY <1>2, MonthTable
  <1> QED BY <1>1, <1>2

(* So many months have so many days.                                        *)
LEMMA MonthsApart ==
    ASSUME NEW y \in Int, NEW w \in Int, NEW k \in 1..12, NEW m \in 1..12,
           NEW n \in Nat, n = 12 * (w - y) + (m - k)
    PROVE  /\ DayNumber(w, m, 1) - DayNumber(y, k, 1) >= 30 * n - 2
           /\ DayNumber(w, m, 1) - DayNumber(y, k, 1) <= 31 * n
  <1> DEFINE Y == DayNumber(y, 1, 1)
             Z == DayNumber(y + 1, 1, 1)
             W == DayNumber(w, 1, 1)
             b == DaysBefore(w, m)
             a == DaysBefore(y, k)
  <1>1. Y \in Int /\ W \in Int /\ Z \in Int /\ a \in 0..335 /\ b \in 0..335
    <2>1. y + 1 \in Int
      OBVIOUS
    <2>2. Y \in Int /\ W \in Int /\ Z \in Int
      BY <2>1, YearLength
    <2>3. a \in 0..335 /\ b \in 0..335
      BY MonthStart
    <2> QED BY <2>2, <2>3
  <1>2. DayNumber(w, m, 1) = W + b /\ DayNumber(y, k, 1) = Y + a
    <2>1. DayNumber(w, m, 1) = W + b
      BY MonthStart
    <2>2. DayNumber(y, k, 1) = Y + a
      BY MonthStart
    <2> QED BY <2>1, <2>2
  <1>3. CASE w = y
    <2>1. k \in 1..m
      BY <1>3
    <2>2. b - a \in (30 * (m - k) - 2)..(31 * (m - k)) /\ W = Y
      BY <1>3, <2>1, MonthsOfYear
    <2>3. n = m - k
      BY <1>3
    <2> HIDE DEF W, Y, a, b
    <2> QED BY <1>1, <1>2, <2>2, <2>3
  <1>4. CASE y < w
    <2>1. W - Z >= 365 * (w - (y + 1)) /\ W - Z <= 366 * (w - (y + 1))
      BY <1>4, YearsApart
    <2>2. Z - Y - a \in (30 * (13 - k) + 1)..(31 * (13 - k))
      <3>1. CASE Leap(y)
        <4>1. Z = Y + 366
          BY <3>1, YearLength
        <4>2. 366 - a \in (30 * (13 - k) + 1)..(31 * (13 - k))
          BY <3>1, MonthsOfYear
        <4> HIDE DEF Z, Y, a
        <4> QED BY <1>1, <4>1, <4>2
      <3>2. CASE ~Leap(y)
        <4>1. Z = Y + 365
          BY <3>2, YearLength
        <4>2. 365 - a \in (30 * (13 - k) + 1)..(31 * (13 - k))
          BY <3>2, MonthsOfYear
        <4> HIDE DEF Z, Y, a
        <4> QED BY <1>1, <4>1, <4>2
      <3> QED BY <3>1, <3>2
    <2>3. b \in (30 * (m - 1) - 1)..(31 * (m - 1))
      BY MonthsOfYear
    <2> HIDE DEF W, Y, Z, a, b
    <2> QED BY <1>1, <1>2, <1>4, <2>1, <2>2, <2>3
  <1>5. y <= w
    OBVIOUS
  <1> QED BY <1>3, <1>4, <1>5

(* So many whole years have so many days, in whatever month they start.     *)
LEMMA WholeYearsApart ==
    ASSUME NEW y \in Int, NEW w \in Int, y <= w, NEW m \in 1..12
    PROVE  /\ DayNumber(w, m, 1) - DayNumber(y, m, 1) >= 365 * (w - y)
           /\ DayNumber(w, m, 1) - DayNumber(y, m, 1) <= 366 * (w - y)
  <1> DEFINE Long(z) == IF Leap(z) THEN 1 ELSE 0
  <1>1. \A z \in Int : /\ DayNumber(z, 1, 1) \in Int
                       /\ DayNumber(z + 1, 1, 1) = DayNumber(z, 1, 1) + 365 + Long(z)
    BY YearLength
  <1>2. \A z \in Int : /\ DayNumber(z, m, 1) = DayNumber(z, 1, 1) + DaysBefore(z, m)
                       /\ DaysBefore(z, m) \in 0..335
    BY MonthStart, Zenon
  <1>3. CASE m <= 2
    <2>1. DaysBefore(w, m) = DaysBefore(y, m)
      BY <1>3 DEF DaysBefore
    <2>2. /\ DayNumber(w, 1, 1) - DayNumber(y, 1, 1) >= 365 * (w - y)
          /\ DayNumber(w, 1, 1) - DayNumber(y, 1, 1) <= 366 * (w - y)
      BY YearsApart
    <2>3. \A p, q, b \in Int : (p + b) - (q + b) = p - q
      OBVIOUS
    <2>4. DayNumber(w, m, 1) - DayNumber(y, m, 1) = DayNumber(w, 1, 1) - DayNumber(y, 1, 1)
      <3>1. /\ DayNumber(w, m, 1) = DayNumber(w, 1, 1) + DaysBefore(w, m)
            /\ DayNumber(y, m, 1) = DayNumber(y, 1, 1) + DaysBefore(w, m)
            /\ DaysBefore(w, m) \in Int
        BY <1>2, <2>1
      <3>2. DayNumber(w, 1, 1) \in Int /\ DayNumber(y, 1, 1) \in Int
        BY <1>1
      <3> QED BY <2>3, <3>1, <3>2
    <2> QED BY <2>2, <2>4
  <1>4. CASE m > 2
    <2>1. PICK c \in 0..335 : /\ DaysBefore(w, m) = c + Long(w)
                              /\ DaysBefore(y, m) = c + Long(y)
      <3> DEFINE c == <<0, 31, 59, 90, 120, 151, 181, 212, 243, 273, 304, 334>>[m]
      <3>1. c \in 0..335
        OBVIOUS
      <3>2. DaysBefore(w, m) = c + Long(w) /\ DaysBefore(y, m) = c + Long(y)
        BY <1>4 DEF DaysBefore
      <3> QED BY <3>1, <3>2
    <2>2. /\ DayNumber(w + 1, 1, 1) - DayNumber(y + 1, 1, 1) >= 365 * (w - y)
          /\ DayNumber(w + 1, 1, 1) - DayNumber(y + 1, 1, 1) <= 366 * (w - y)
      <3>1. (w + 1) - (y + 1) = w - y /\ y + 1 <= w + 1
        OBVIOUS
      <3> QED BY <3>1, YearsApart
    <2>3. \A p, q, e, f, d \in Int :
              (p + (d + e)) - (q + (d + f)) = (p + 365 + e) - (q + 365 + f)
      OBVIOUS
    <2>4. Long(w) \in Int /\ Long(y) \in Int
      OBVIOUS
    <2>5. DayNumber(w, m, 1) - DayNumber(y, m, 1)
            = DayNumber(w + 1, 1, 1) - DayNumber(y + 1, 1, 1)
      <3> HIDE DEF Long
      <3> QED BY <1>1, <1>2, <2>1, <2>3, <2>4
    <2> QED BY <2>2, <2>5
  <1> QED BY <1>3, <1>4

(***************************************************************************)
(* dateAgo.  Going back n months goes back 30n - 2 to 31n days.             *)
(***************************************************************************)
LEMMA MonthsAgoBounds ==
    ASSUME NEW n \in Nat, NEW t \in Int, NEW a \in Nat
    PROVE  /\ MonthsAgo(n, t) \in Int
           /\ t - MonthsAgo(n, t) >= (30 * n - 2) * Day
           /\ t - MonthsAgo(n, t) <= 31 * n * Day
           /\ n = 12 * a => /\ t - MonthsAgo(n, t) >= 365 * a * Day
                            /\ t - MonthsAgo(n, t) <= 366 * a * Day
  <1> DEFINE q == t \div Day
             r == t % Day
             c == Civil(q)
             k == 12 * c.y + c.m - 1 - n
             y == k \div 12
             m == (k % 12) + 1
             C == DayNumber(c.y, c.m, 1)
             B == DayNumber(y, m, 1)
  <1>1. q \in Int /\ r \in Int /\ t = q * Day + r
    BY DEF Day, Hour
  <1>2. c.y \in Int /\ c.m \in 1..12 /\ c.d \in 1..31 /\ q = C + c.d - 1
    <2> HIDE DEF q
    <2> QED BY <1>1, CivilCorrect DEF IsCivil
  <1>3. /\ y \in Int /\ m \in 1..12 /\ n = 12 * (c.y - y) + (c.m - m)
        /\ n = 12 * a => m = c.m /\ c.y - y = a /\ y <= c.y
    <2>1. \A Y \in Int, M \in 1..12 :
              LET K == 12 * Y + M - 1 - n
                  z == K \div 12
                  i == (K % 12) + 1
              IN  /\ z \in Int /\ i \in 1..12 /\ n = 12 * (Y - z) + (M - i)
                  /\ n = 12 * a => i = M /\ Y - z = a /\ z <= Y
      OBVIOUS
    <2> HIDE DEF c
    <2> QED BY <1>2, <2>1
  <1>4. MonthsAgo(n, t) = (B + c.d - 1) * Day + r
    BY DEF MonthsAgo
  <1> HIDE DEF q, r, c, k, y, m
  <1>5. C \in Int /\ B \in Int
    BY <1>2, <1>3, MonthStart
  <1>6. C - B >= 30 * n - 2 /\ C - B <= 31 * n
    BY <1>2, <1>3, MonthsApart
  <1>7. n = 12 * a => C - B >= 365 * a /\ C - B <= 366 * a
    <2> SUFFICES ASSUME n = 12 * a
                 PROVE  C - B >= 365 * a /\ C - B <= 366 * a
      OBVIOUS
    <2>1. m = c.m /\ c.y - y = a /\ y <= c.y
      BY <1>3
    <2>2. C - B >= 365 * (c.y - y) /\ C - B <= 366 * (c.y - y)
      <3>1. c.y \in Int /\ y \in Int /\ y <= c.y /\ c.m \in 1..12
        BY <1>2, <1>3, <2>1
      <3>2. /\ DayNumber(c.y, c.m, 1) - DayNumber(y, c.m, 1) >= 365 * (c.y - y)
            /\ DayNumber(c.y, c.m, 1) - DayNumber(y, c.m, 1) <= 366 * (c.y - y)
        BY <3>1, WholeYearsApart, Zenon
      <3> QED BY <2>1, <3>2, Zenon
    <2> QED BY <2>1, <2>2
  <1> HIDE DEF C, B
  <1>8. MonthsAgo(n, t) \in Int /\ t - MonthsAgo(n, t) = (C - B) * Day
    BY <1>1, <1>2, <1>4, <1>5 DEF Day, Hour
  <1> QED BY <1>5, <1>6, <1>7, <1>8 DEF Day, Hour

(* A retention as parseRetention returns it.                                *)
Durational(d) == d.amount \in Nat /\ d.unit \in Units \cup {NoUnit}

(* The cutoff lies between the shortest and the longest reading.            *)
LEMMA DateAgoBounds ==
    ASSUME NEW d, Durational(d), NEW t \in Int
    PROVE  /\ DateAgo(d, t) \in Int /\ Shortest(d) \in Int /\ Longest(d) \in Int
           /\ t - DateAgo(d, t) >= Shortest(d)
           /\ t - DateAgo(d, t) <= Longest(d)
  <1>1. d.amount \in Nat
    BY DEF Durational
  <1>2. CASE d.unit \in {"h", "d", "w"}
    BY <1>1, <1>2 DEF DateAgo, Shortest, Longest, Day, Hour
  <1>3. CASE d.unit = "m"
    <2>1. /\ DateAgo(d, t) = MonthsAgo(d.amount, t)
          /\ Shortest(d) = (d.amount * 30 - 2) * Day
          /\ Longest(d) = d.amount * 31 * Day
      BY <1>3 DEF DateAgo, Shortest, Longest
    <2>2. /\ MonthsAgo(d.amount, t) \in Int
          /\ t - MonthsAgo(d.amount, t) >= (30 * d.amount - 2) * Day
          /\ t - MonthsAgo(d.amount, t) <= 31 * d.amount * Day
      BY <1>1, MonthsAgoBounds
    <2> QED BY <1>1, <2>1, <2>2 DEF Day, Hour
  <1>4. CASE d.unit \notin {"h", "d", "w", "m"}
    <2>1. /\ DateAgo(d, t) = MonthsAgo(12 * d.amount, t)
          /\ Shortest(d) = d.amount * 365 * Day
          /\ Longest(d) = d.amount * 366 * Day
      BY <1>4 DEF DateAgo, Shortest, Longest
    <2>2. 12 * d.amount \in Nat
      BY <1>1
    <2>3. /\ MonthsAgo(12 * d.amount, t) \in Int
          /\ t - MonthsAgo(12 * d.amount, t) >= 365 * d.amount * Day
          /\ t - MonthsAgo(12 * d.amount, t) <= 366 * d.amount * Day
      <3>1. \A n, a \in Nat : n = 12 * a =>
                /\ MonthsAgo(n, t) \in Int
                /\ t - MonthsAgo(n, t) >= 365 * a * Day
                /\ t - MonthsAgo(n, t) <= 366 * a * Day
        BY MonthsAgoBounds
      <3> QED BY <1>1, <2>2, <3>1
    <2> QED BY <1>1, <2>1, <2>3 DEF Day, Hour
  <1> QED BY <1>2, <1>3, <1>4

(***************************************************************************)
(* parseRetention.  The function Atoi recurs with exists; a number is zero  *)
(* exactly if all its digits are.                                           *)
(***************************************************************************)
Digits(s) == Len(s) \in Nat /\ \A i \in 1..Len(s) : s[i] \in 0..9

Prefixes(f, s) == f = [i \in 0..Len(s) |-> IF i = 0 THEN 0 ELSE 10 * f[i - 1] + s[i]]

(* Some function satisfies Atoi's recursion.                                *)
LEMMA PrefixesExist ==
    ASSUME NEW s, Digits(s)
    PROVE  \E f : Prefixes(f, s)
  <1> DEFINE N == Len(s)
             Up(k) == {f \in [0..k -> Nat] :
                         f[0] = 0 /\ \A i \in 1..k : f[i] = 10 * f[i - 1] + s[i]}
             S == {k \in 0..N : Up(k) # {}}
  <1>1. N \in Nat /\ \A i \in 1..N : s[i] \in Nat
    BY DEF Digits
  <1>2. 0 \in S
    <2>1. [i \in 0..0 |-> 0] \in Up(0)
      OBVIOUS
    <2> QED BY <1>1, <2>1
  <1>3. ASSUME NEW k \in S, k < N PROVE k + 1 \in S
    <2>1. PICK f : f \in Up(k)
      BY <1>3
    <2> DEFINE g == [i \in 0..(k + 1) |-> IF i = k + 1 THEN 10 * f[k] + s[k + 1] ELSE f[i]]
    <2>2. k \in 0..N /\ k + 1 \in 1..N /\ s[k + 1] \in Nat /\ f \in [0..k -> Nat] /\ f[k] \in Nat
      BY <1>1, <1>3, <2>1
    <2>3. g \in [0..(k + 1) -> Nat] /\ g[0] = 0
      BY <2>1, <2>2
    <2>4. ASSUME NEW i \in 1..(k + 1) PROVE g[i] = 10 * g[i - 1] + s[i]
      <3>1. CASE i = k + 1
        BY <2>2, <3>1
      <3>2. CASE i \in 1..k
        BY <2>1, <2>2, <3>2
      <3> QED BY <2>2, <3>1, <3>2
    <2>5. g \in Up(k + 1)
      BY <2>3, <2>4
    <2>6. Up(k + 1) # {}
      BY <2>5
    <2> HIDE DEF Up
    <2> QED BY <2>2, <2>6
  <1>4. N \in S
    <2> HIDE DEF S
    <2>1. S \in SUBSET (0..N)
      BY DEF S
    <2> QED BY <1>1, <1>2, <1>3, <2>1, IntervalInduction
  <1>5. PICK f : f \in Up(N)
    BY <1>4
  <1>6. Prefixes(f, s)
    BY <1>1, <1>5 DEF Prefixes
  <1> QED BY <1>6

(* What Atoi computes: a number, zero for zeros only.                       *)
LEMMA AtoiPositive ==
    ASSUME NEW s, Digits(s)
    PROVE  /\ Atoi(s) \in Nat
           /\ Atoi(s) > 0 <=> \E i \in 1..Len(s) : s[i] \in 1..9
  <1> DEFINE N == Len(s)
             f == CHOOSE f : Prefixes(f, s)
             S == {k \in 0..N : /\ f[k] \in Nat
                                /\ f[k] > 0 <=> \E i \in 1..k : s[i] \in 1..9}
  <1>1. N \in Nat /\ \A i \in 1..N : s[i] \in 0..9
    BY DEF Digits
  <1>2. Prefixes(f, s)
    BY PrefixesExist, Zenon
  <1>3. Atoi(s) = f[N]
    BY DEF Atoi, Prefixes
  <1> HIDE DEF f
  <1>4. f[0] = 0 /\ \A i \in 1..N : f[i] = 10 * f[i - 1] + s[i]
    BY <1>1, <1>2 DEF Prefixes
  <1>5. 0 \in S
    BY <1>1, <1>4
  <1>6. ASSUME NEW k \in S, k < N PROVE k + 1 \in S
    <2>1. /\ k \in 0..N /\ k + 1 \in 1..N /\ f[k] \in Nat
          /\ f[k] > 0 <=> \E i \in 1..k : s[i] \in 1..9
      BY <1>1, <1>6
    <2>2. s[k + 1] \in 0..9 /\ f[k + 1] = 10 * f[k] + s[k + 1]
      BY <1>1, <1>4, <2>1
    <2>3. f[k + 1] \in Nat /\ (f[k + 1] > 0 <=> f[k] > 0 \/ s[k + 1] \in 1..9)
      <3>1. \A v \in Nat : \A x \in 0..9 :
               10 * v + x \in Nat /\ (10 * v + x > 0 <=> v > 0 \/ x \in 1..9)
        OBVIOUS
      <3> QED BY <2>1, <2>2, <3>1, Zenon
    <2>4. (\E i \in 1..(k + 1) : s[i] \in 1..9)
             <=> (\E i \in 1..k : s[i] \in 1..9) \/ s[k + 1] \in 1..9
      BY <2>1
    <2> QED BY <2>1, <2>3, <2>4
  <1>7. N \in S
    <2> HIDE DEF S
    <2>1. S \in SUBSET (0..N)
      BY DEF S
    <2> QED BY <1>1, <1>5, <1>6, <2>1, IntervalInduction
  <1> QED BY <1>3, <1>7

(***************************************************************************)
(* Timestamps.  The calendar's order is that of the days.                   *)
(***************************************************************************)
LEMMA CivilOrder ==
    ASSUME NEW a \in Int, NEW b \in Int, a < b
    PROVE  LET c == Civil(a)
               e == Civil(b)
           IN  \/ c.y < e.y
               \/ c.y = e.y /\ c.m < e.m
               \/ c.y = e.y /\ c.m = e.m /\ c.d < e.d
  <1> DEFINE c == Civil(a)
             e == Civil(b)
  <1>1. IsCivil(c, a) /\ IsCivil(e, b)
    BY CivilCorrect
  <1> HIDE DEF c, e
  <1>2. /\ c.y \in Int /\ e.y \in Int /\ c.m \in 1..12 /\ e.m \in 1..12
        /\ c.d \in Int /\ e.d \in Int
    BY <1>1 DEF IsCivil
  <1>3. ASSUME e.y < c.y PROVE FALSE
    <2>1. e.y + 1 \in Int /\ e.y + 1 <= c.y
      BY <1>2, <1>3
    <2>2. /\ DayNumber(c.y, 1, 1) \in Int /\ DayNumber(e.y + 1, 1, 1) \in Int
          /\ DayNumber(c.y, 1, 1) - DayNumber(e.y + 1, 1, 1) >= 365 * (c.y - (e.y + 1))
      <3>1. \A x, w \in Int : x <= w =>
                DayNumber(w, 1, 1) - DayNumber(x, 1, 1) >= 365 * (w - x)
        BY YearsApart
      <3>2. \A x \in Int : DayNumber(x, 1, 1) \in Int
        BY YearLength
      <3> QED BY <1>2, <2>1, <3>1, <3>2
    <2>3. DayNumber(c.y, 1, 1) <= a /\ b < DayNumber(e.y + 1, 1, 1)
      BY <1>1 DEF IsCivil
    <2> QED BY <1>2, <2>1, <2>2, <2>3
  <1>4. ASSUME c.y = e.y, e.m < c.m PROVE FALSE
    <2>1. e.m + 1 \in 1..c.m /\ e.m + 1 \in 1..12 /\ e.m < 12
      BY <1>2, <1>4
    <2>0. ASSUME NEW y \in Int, NEW m \in 1..12
          PROVE  /\ DayNumber(y, m, 1) = DayNumber(y, 1, 1) + DaysBefore(y, m)
                 /\ DaysBefore(y, m) \in Int
      <3>1. DaysBefore(y, m) \in 0..335
        BY MonthStart
      <3>2. DaysBefore(y, m) \in Int
        BY <3>1
      <3> QED BY <3>2, MonthStart, Zenon
    <2>2. /\ DayNumber(c.y, c.m, 1) = DayNumber(c.y, 1, 1) + DaysBefore(c.y, c.m)
          /\ DaysBefore(c.y, c.m) \in Int
      BY <1>2, <2>0, Zenon
    <2>3. /\ DayNumber(c.y, e.m + 1, 1) = DayNumber(c.y, 1, 1) + DaysBefore(c.y, e.m + 1)
          /\ DaysBefore(c.y, e.m + 1) \in Int
      BY <1>2, <2>0, <2>1, Zenon
    <2>4. DaysBefore(c.y, c.m) >= DaysBefore(c.y, e.m + 1)
      <3>1. DaysBefore(c.y, c.m) - DaysBefore(c.y, e.m + 1)
               \in (30 * (c.m - (e.m + 1)) - 2)..(31 * (c.m - (e.m + 1)))
        BY <1>2, <2>1, MonthsOfYear
      <3>2. c.m = e.m + 1 \/ c.m - (e.m + 1) >= 1
        BY <1>2, <2>1
      <3> QED BY <1>2, <2>2, <2>3, <3>1, <3>2
    <2>5. /\ a = DayNumber(c.y, c.m, 1) + c.d - 1 /\ c.d \in 1..31
          /\ b < DayNumber(c.y, e.m + 1, 1) /\ DayNumber(c.y, 1, 1) \in Int
      BY <1>1, <1>2, <1>4, <2>1, YearLength DEF IsCivil
    <2>6. \A z, u, v, x, n \in Int : u >= v /\ n = z + u + x - 1 /\ x >= 1 => n >= z + v
      OBVIOUS
    <2> QED BY <2>2, <2>3, <2>4, <2>5, <2>6
  <1>5. ASSUME c.y = e.y, c.m = e.m PROVE c.d < e.d
    <2>1. /\ a = DayNumber(c.y, c.m, 1) + c.d - 1
          /\ b = DayNumber(c.y, c.m, 1) + e.d - 1
          /\ DayNumber(c.y, c.m, 1) \in Int
      BY <1>1, <1>2, <1>5, MonthStart DEF IsCivil
    <2> QED BY <1>2, <2>1
  <1>6. \/ c.y < e.y
        \/ c.y = e.y /\ c.m < e.m
        \/ c.y = e.y /\ c.m = e.m /\ c.d < e.d
    BY <1>2, <1>3, <1>4, <1>5
  <1> QED BY <1>6 DEF c, e

(* A timestamp read as one number.                                          *)
Code(t) ==
    LET c == Civil(t \div Day)
    IN  100 * (100 * (100 * (100 * c.y + c.m) + c.d) + ((t % Day) \div Hour)) + (t % Hour)

(* A time is minute i of hour h of day q, the date y-m-d: how these are     *)
(* computed, and what their ranges are.                                     *)
Clocked(t, q, h, i) == q = t \div Day /\ h = (t % Day) \div Hour /\ i = t % Hour

Dated(q, y, m, d) == y = Civil(q).y /\ m = Civil(q).m /\ d = Civil(q).d

Ranged(t, q, y, m, d, h, i) ==
    /\ q \in Int /\ y \in Int /\ m \in 1..12 /\ d \in 1..31 /\ h \in 0..23 /\ i \in 0..59
    /\ t = 1440 * q + 60 * h + i
    /\ Code(t) = 100 * (100 * (100 * (100 * y + m) + d) + h) + i

Moment(t, q, y, m, d, h, i) ==
    Clocked(t, q, h, i) /\ Dated(q, y, m, d) /\ Ranged(t, q, y, m, d, h, i)

(* Every time is a moment of a day.                                         *)
LEMMA Moments ==
    ASSUME NEW t \in Int
    PROVE  \E q, y, m, d, h, i : Moment(t, q, y, m, d, h, i)
  <1> DEFINE q == t \div Day
             h == (t % Day) \div Hour
             i == t % Hour
             c == Civil(q)
  <1>1. q \in Int /\ h \in 0..23 /\ i \in 0..59 /\ t = 1440 * q + 60 * h + i
    BY DEF Day, Hour
  <1>2. IsCivil(c, q)
    BY <1>1, CivilCorrect
  <1>3. c.y \in Int /\ c.m \in 1..12 /\ c.d \in 1..31
    BY <1>2 DEF IsCivil
  <1>4. Code(t) = 100 * (100 * (100 * (100 * c.y + c.m) + c.d) + h) + i
    BY DEF Code
  <1>5. Moment(t, q, c.y, c.m, c.d, h, i)
    <2> HIDE DEF q, h, i, c
    <2>1. Clocked(t, q, h, i)
      BY DEF Clocked, q, h, i
    <2>2. Dated(q, c.y, c.m, c.d)
      BY DEF Dated, c
    <2>3. Ranged(t, q, c.y, c.m, c.d, h, i)
      BY <1>1, <1>3, <1>4 DEF Ranged
    <2> QED BY <2>1, <2>2, <2>3, Zenon DEF Moment
  <1> QED BY <1>5, Zenon

(* Later times have larger numbers.                                         *)
LEMMA CodeGrows ==
    ASSUME NEW t \in Int, NEW u \in Int, t < u
    PROVE  Code(t) < Code(u)
  <1>1. PICK q, y, m, d, h, i : Moment(t, q, y, m, d, h, i)
    BY Moments
  <1>2. PICK r, z, n, e, j, k : Moment(u, r, z, n, e, j, k)
    BY Moments
  <1>3. /\ q \in Int /\ y \in Int /\ m \in 1..12 /\ d \in 1..31 /\ h \in 0..23 /\ i \in 0..59
        /\ t = 1440 * q + 60 * h + i
        /\ Code(t) = 100 * (100 * (100 * (100 * y + m) + d) + h) + i
    BY <1>1 DEF Moment, Ranged
  <1>4. /\ r \in Int /\ z \in Int /\ n \in 1..12 /\ e \in 1..31 /\ j \in 0..23 /\ k \in 0..59
        /\ u = 1440 * r + 60 * j + k
        /\ Code(u) = 100 * (100 * (100 * (100 * z + n) + e) + j) + k
    BY <1>2 DEF Moment, Ranged
  <1>5. /\ y = Civil(q).y /\ m = Civil(q).m /\ d = Civil(q).d
        /\ z = Civil(r).y /\ n = Civil(r).m /\ e = Civil(r).d
    BY <1>1, <1>2, Zenon DEF Moment, Dated
  <1>6. q < r => \/ y < z
                 \/ y = z /\ m < n
                 \/ y = z /\ m = n /\ d < e
    <2>1. q < r => \/ Civil(q).y < Civil(r).y
                   \/ Civil(q).y = Civil(r).y /\ Civil(q).m < Civil(r).m
                   \/ /\ Civil(q).y = Civil(r).y /\ Civil(q).m = Civil(r).m
                      /\ Civil(q).d < Civil(r).d
      BY <1>3, <1>4, CivilOrder
    <2> QED BY <1>5, <2>1
  <1>7. q = r => y = z /\ m = n /\ d = e
    BY <1>5, Zenon
  <1>8. q <= r
    BY <1>3, <1>4
  <1>9. q = r => 60 * h + i < 60 * j + k
    BY <1>3, <1>4
  <1>10. q = r => 100 * h + i < 100 * j + k
    BY <1>3, <1>4, <1>9
  <1>11. CASE q = r
    BY <1>3, <1>4, <1>7, <1>10, <1>11
  <1>12. CASE q < r
    BY <1>3, <1>4, <1>6, <1>12
  <1> QED BY <1>3, <1>4, <1>8, <1>11, <1>12

(* The numbers are ordered as the times are.                                *)
LEMMA CodeOrder ==
    ASSUME NEW a \in Int, NEW b \in Int
    PROVE  Code(a) \in Int /\ (a < b <=> Code(a) < Code(b))
  <1>1. ASSUME NEW t \in Int PROVE Code(t) \in Int
    <2>1. PICK q, y, m, d, h, i : Moment(t, q, y, m, d, h, i)
      BY Moments
    <2>2. /\ y \in Int /\ m \in 1..12 /\ d \in 1..31 /\ h \in 0..23 /\ i \in 0..59
          /\ Code(t) = 100 * (100 * (100 * (100 * y + m) + d) + h) + i
      BY <2>1 DEF Moment, Ranged
    <2> QED BY <2>2
  <1>2. Code(a) \in Int /\ Code(b) \in Int
    BY <1>1
  <1>3. a < b => Code(a) < Code(b)
    BY CodeGrows
  <1>4. b < a => Code(b) < Code(a)
    BY CodeGrows
  <1> QED BY <1>2, <1>3, <1>4

(***************************************************************************)
(* A sequence of twelve digits read as a number from the left: f[i] is what *)
(* its first i digits say.  Only the first may be no digit, in years that   *)
(* do not have four of them.                                                *)
(***************************************************************************)
Reads(f, s) ==
    /\ Len(s) = 12
    /\ s[1] \in Int /\ f[1] = s[1]
    /\ \A i \in 2..12 : s[i] \in 0..9 /\ f[i] \in Int /\ f[i] = 10 * f[i - 1] + s[i]

(* Two more digits leave the digits before them alone.                      *)
LEMMA TwoMore ==
    ASSUME NEW s \in Seq(Int), NEW n \in Int
    PROVE  /\ s \o Two(n) \in Seq(Int)
           /\ Len(s \o Two(n)) = Len(s) + 2
           /\ (s \o Two(n))[Len(s) + 1] = n \div 10
           /\ (s \o Two(n))[Len(s) + 2] = n % 10
           /\ \A i \in 1..Len(s) : (s \o Two(n))[i] = s[i]
  <1>1. n \div 10 \in Int /\ n % 10 \in Int
    OBVIOUS
  <1>2. Two(n) \in Seq(Int) /\ Len(Two(n)) = 2 /\ Two(n)[1] = n \div 10 /\ Two(n)[2] = n % 10
    BY <1>1 DEF Two
  <1>3. ASSUME NEW w \in Seq(Int), Len(w) = 2
        PROVE  /\ s \o w \in Seq(Int)
               /\ Len(s \o w) = Len(s) + 2
               /\ (s \o w)[Len(s) + 1] = w[1]
               /\ (s \o w)[Len(s) + 2] = w[2]
               /\ \A i \in 1..Len(s) : (s \o w)[i] = s[i]
    <2>1. s \o w \in Seq(Int) /\ Len(s \o w) = Len(s) + 2
      <3>1. s \o w \in Seq(Int) /\ Len(s \o w) = Len(s) + Len(w)
        BY ConcatProperties, Zenon
      <3> QED BY <1>3, <3>1, Zenon
    <2>2. \A i \in 1..(Len(s) + Len(w)) :
             (s \o w)[i] = IF i <= Len(s) THEN s[i] ELSE w[i - Len(s)]
      BY ConcatProperties, Zenon
    <2>3. Len(s) \in Nat
      OBVIOUS
    <2> QED BY <1>3, <2>1, <2>2, <2>3
  <1> QED BY <1>2, <1>3, Zenon

(* expr compares two such sequences as it would the numbers they stand for. *)
LEMMA ReadsOrder ==
    ASSUME NEW s, NEW u, NEW f, NEW g, Reads(f, s), Reads(g, u)
    PROVE  Less(s, u) <=> f[12] < g[12]
  <1> DEFINE Same(k)  == \A j \in 1..k : s[j] = u[j]
             Below(k) == \E i \in 1..k : Same(i - 1) /\ s[i] < u[i]
             S == {k \in 0..11 : /\ f[k + 1] = g[k + 1] <=> Same(k + 1)
                                 /\ f[k + 1] < g[k + 1] <=> Below(k + 1)}
  <1>1. /\ s[1] \in Int /\ u[1] \in Int /\ f[1] = s[1] /\ g[1] = u[1]
        /\ Len(s) = 12 /\ Len(u) = 12
    BY DEF Reads
  <1>2. ASSUME NEW i \in 2..12
        PROVE  /\ s[i] \in 0..9 /\ f[i] = 10 * f[i - 1] + s[i]
               /\ u[i] \in 0..9 /\ g[i] = 10 * g[i - 1] + u[i]
    BY DEF Reads
  <1>3. ASSUME NEW i \in 1..12 PROVE f[i] \in Int /\ g[i] \in Int
    <2>1. CASE i = 1
      BY <1>1, <2>1
    <2>2. CASE i \in 2..12
      BY <2>2 DEF Reads
    <2> QED BY <2>1, <2>2
  <1>4. 0 \in S
    BY <1>1
  <1>5. ASSUME NEW k \in S, k < 11 PROVE k + 1 \in S
    <2> DEFINE i == k + 2
    <2>1. i \in 2..12 /\ k + 1 \in 1..11 /\ k \in 0..11 /\ i - 1 = k + 1 /\ k + 1 + 1 = i
      BY <1>5
    <2>2. /\ s[i] \in 0..9 /\ f[i] = 10 * f[k + 1] + s[i]
          /\ u[i] \in 0..9 /\ g[i] = 10 * g[k + 1] + u[i]
      BY <1>2, <2>1
    <2>3. f[k + 1] \in Int /\ g[k + 1] \in Int
      BY <1>3, <2>1
    <2>4. \A v, w \in Int : \A x, y \in 0..9 :
             /\ 10 * v + x = 10 * w + y <=> v = w /\ x = y
             /\ 10 * v + x < 10 * w + y <=> v < w \/ (v = w /\ x < y)
      OBVIOUS
    <2>5. /\ f[i] = g[i] <=> f[k + 1] = g[k + 1] /\ s[i] = u[i]
          /\ f[i] < g[i] <=> f[k + 1] < g[k + 1] \/ (f[k + 1] = g[k + 1] /\ s[i] < u[i])
      BY <2>2, <2>3, <2>4
    <2>6. /\ f[k + 1] = g[k + 1] <=> Same(k + 1)
          /\ f[k + 1] < g[k + 1] <=> Below(k + 1)
      BY <1>5
    <2>7. Same(i) <=> Same(k + 1) /\ s[i] = u[i]
      BY <2>1
    <2>8. Below(i) <=> Below(k + 1) \/ (Same(k + 1) /\ s[i] < u[i])
      <3> HIDE DEF Same
      <3>1. \A j \in 1..i : j \in 1..(k + 1) \/ j = i
        BY <2>1
      <3>2. \A j \in 1..(k + 1) : j \in 1..i
        BY <2>1
      <3>3. i \in 1..i /\ i - 1 = k + 1
        BY <2>1
      <3> HIDE DEF i
      <3> QED BY <3>1, <3>2, <3>3
    <2> HIDE DEF Same, Below
    <2> QED BY <2>1, <2>5, <2>6, <2>7, <2>8
  <1>6. 11 \in S
    <2> HIDE DEF S
    <2>1. S \in SUBSET (0..11)
      BY DEF S
    <2> QED BY <1>4, <1>5, <2>1, IntervalInduction
  <1>7. f[12] < g[12] <=> Below(12)
    BY <1>6
  <1>8. Less(s, u) <=> Below(12)
    BY <1>1 DEF Less
  <1> QED BY <1>7, <1>8

(* A timestamp's digits, read as a number, are its number.                  *)
LEMMA StampReads ==
    ASSUME NEW t \in Int
    PROVE  \E f : Reads(f, Stamp(t)) /\ f[12] = Code(t)
  <1>1. PICK q, y, m, d, h, i : Moment(t, q, y, m, d, h, i)
    BY Moments
  <1> DEFINE s1 == Two(y \div 100)
             s2 == s1 \o Two(y % 100)
             s3 == s2 \o Two(m)
             s4 == s3 \o Two(d)
             s5 == s4 \o Two(h)
             s6 == s5 \o Two(i)
  <1>2. Stamp(t) = s6
    <2>1. /\ Civil(t \div Day).y = y /\ Civil(t \div Day).m = m /\ Civil(t \div Day).d = d
          /\ (t % Day) \div Hour = h /\ t % Hour = i
      BY <1>1, Zenon DEF Moment, Clocked, Dated
    <2>2. Stamp(t) = Two(Civil(t \div Day).y \div 100) \o Two(Civil(t \div Day).y % 100)
                       \o Two(Civil(t \div Day).m) \o Two(Civil(t \div Day).d)
                       \o Two((t % Day) \div Hour) \o Two(t % Hour)
      BY Zenon DEF Stamp
    <2> QED BY <2>1, <2>2, Zenon
  <1>3. /\ y \in Int /\ m \in 1..12 /\ d \in 1..31 /\ h \in 0..23 /\ i \in 0..59
        /\ Code(t) = 100 * (100 * (100 * (100 * y + m) + d) + h) + i
    BY <1>1 DEF Moment, Ranged
  <1>4. y \div 100 \in Int /\ y % 100 \in 0..99
    BY <1>3
  <1>5. /\ s1 \in Seq(Int) /\ Len(s1) = 2
        /\ s1[1] = (y \div 100) \div 10 /\ s1[2] = (y \div 100) % 10
    BY <1>4 DEF Two
  <1> HIDE DEF s1
  <1>6. /\ s2 \in Seq(Int) /\ Len(s2) = 4
        /\ s2[3] = (y % 100) \div 10 /\ s2[4] = (y % 100) % 10
        /\ \A x \in 1..2 : s2[x] = s1[x]
    <2>1. y % 100 \in Int
      BY <1>4
    <2>2. Len(s1) = 2 /\ Len(s1) + 1 = 3 /\ Len(s1) + 2 = 4
      BY <1>5
    <2>3. /\ s2 \in Seq(Int) /\ Len(s2) = Len(s1) + 2
          /\ s2[Len(s1) + 1] = (y % 100) \div 10 /\ s2[Len(s1) + 2] = (y % 100) % 10
          /\ \A x \in 1..Len(s1) : s2[x] = s1[x]
      <3>1. s1 \in Seq(Int)
        BY <1>5
      <3> DEFINE n == y % 100
      <3>2. n \in Int /\ s2 = s1 \o Two(n)
        BY <2>1
      <3> HIDE DEF n, s2
      <3>3. /\ s2 \in Seq(Int) /\ Len(s2) = Len(s1) + 2
            /\ s2[Len(s1) + 1] = n \div 10 /\ s2[Len(s1) + 2] = n % 10
            /\ \A x \in 1..Len(s1) : s2[x] = s1[x]
        BY <3>1, <3>2, TwoMore, Zenon
      <3> QED BY <3>3 DEF n
    <2> QED BY <2>2, <2>3, Zenon
  <1> HIDE DEF s2
  <1>7. /\ s3 \in Seq(Int) /\ Len(s3) = 6
        /\ s3[5] = m \div 10 /\ s3[6] = m % 10
        /\ \A x \in 1..4 : s3[x] = s2[x]
    <2>1. m \in Int
      BY <1>3
    <2>2. Len(s2) = 4 /\ Len(s2) + 1 = 5 /\ Len(s2) + 2 = 6
      BY <1>6
    <2>3. /\ s3 \in Seq(Int) /\ Len(s3) = Len(s2) + 2
          /\ s3[Len(s2) + 1] = m \div 10 /\ s3[Len(s2) + 2] = m % 10
          /\ \A x \in 1..Len(s2) : s3[x] = s2[x]
      <3>1. s2 \in Seq(Int)
        BY <1>6
      <3> QED BY <2>1, <3>1, TwoMore, Zenon
    <2> QED BY <2>2, <2>3, Zenon
  <1> HIDE DEF s3
  <1>8. /\ s4 \in Seq(Int) /\ Len(s4) = 8
        /\ s4[7] = d \div 10 /\ s4[8] = d % 10
        /\ \A x \in 1..6 : s4[x] = s3[x]
    <2>1. d \in Int
      BY <1>3
    <2>2. Len(s3) = 6 /\ Len(s3) + 1 = 7 /\ Len(s3) + 2 = 8
      BY <1>7
    <2>3. /\ s4 \in Seq(Int) /\ Len(s4) = Len(s3) + 2
          /\ s4[Len(s3) + 1] = d \div 10 /\ s4[Len(s3) + 2] = d % 10
          /\ \A x \in 1..Len(s3) : s4[x] = s3[x]
      BY <1>7, <2>1, TwoMore, Zenon
    <2> QED BY <2>2, <2>3, Zenon
  <1> HIDE DEF s4
  <1>9. /\ s5 \in Seq(Int) /\ Len(s5) = 10
        /\ s5[9] = h \div 10 /\ s5[10] = h % 10
        /\ \A x \in 1..8 : s5[x] = s4[x]
    <2>1. h \in Int
      BY <1>3
    <2>2. Len(s4) = 8 /\ Len(s4) + 1 = 9 /\ Len(s4) + 2 = 10
      BY <1>8
    <2>3. /\ s5 \in Seq(Int) /\ Len(s5) = Len(s4) + 2
          /\ s5[Len(s4) + 1] = h \div 10 /\ s5[Len(s4) + 2] = h % 10
          /\ \A x \in 1..Len(s4) : s5[x] = s4[x]
      BY <1>8, <2>1, TwoMore, Zenon
    <2> QED BY <2>2, <2>3, Zenon
  <1> HIDE DEF s5
  <1>10. /\ s6 \in Seq(Int) /\ Len(s6) = 12
         /\ s6[11] = i \div 10 /\ s6[12] = i % 10
         /\ \A x \in 1..10 : s6[x] = s5[x]
    <2>1. i \in Int
      BY <1>3
    <2>2. Len(s5) = 10 /\ Len(s5) + 1 = 11 /\ Len(s5) + 2 = 12
      BY <1>9
    <2>3. /\ s6 \in Seq(Int) /\ Len(s6) = Len(s5) + 2
          /\ s6[Len(s5) + 1] = i \div 10 /\ s6[Len(s5) + 2] = i % 10
          /\ \A x \in 1..Len(s5) : s6[x] = s5[x]
      BY <1>9, <2>1, TwoMore, Zenon
    <2> QED BY <2>2, <2>3, Zenon
  <1> HIDE DEF s6
  <1>11. /\ s6[1] = (y \div 100) \div 10 /\ s6[2] = (y \div 100) % 10
         /\ s6[3] = (y % 100) \div 10 /\ s6[4] = (y % 100) % 10
         /\ s6[5] = m \div 10 /\ s6[6] = m % 10 /\ s6[7] = d \div 10 /\ s6[8] = d % 10
         /\ s6[9] = h \div 10 /\ s6[10] = h % 10 /\ s6[11] = i \div 10 /\ s6[12] = i % 10
    BY <1>5, <1>6, <1>7, <1>8, <1>9, <1>10
  <1> DEFINE a == 100 * y + m
             b == 100 * a + d
             c == 100 * b + h
             f == <<(y \div 100) \div 10, y \div 100, y \div 10, y, 10 * y + (m \div 10), a,
                    10 * a + (d \div 10), b, 10 * b + (h \div 10), c, 10 * c + (i \div 10),
                    100 * c + i>>
  <1>12. a \in Int /\ b \in Int /\ c \in Int /\ Code(t) = 100 * c + i
    BY <1>3
  <1> HIDE DEF a, b, c
  <1>13. /\ f[1] = (y \div 100) \div 10 /\ f[2] = y \div 100 /\ f[3] = y \div 10 /\ f[4] = y
         /\ f[5] = 10 * y + (m \div 10) /\ f[6] = a /\ f[7] = 10 * a + (d \div 10)
         /\ f[8] = b /\ f[9] = 10 * b + (h \div 10) /\ f[10] = c
         /\ f[11] = 10 * c + (i \div 10) /\ f[12] = 100 * c + i
    OBVIOUS
  <1> HIDE DEF f
  <1>14. \A x \in Int : \A v \in 0..99 :
            /\ v \div 10 \in 0..9 /\ v % 10 \in 0..9
            /\ 10 * (10 * x + (v \div 10)) + (v % 10) = 100 * x + v
    OBVIOUS
  <1>15. /\ (y \div 100) \div 10 \in Int /\ (y \div 100) % 10 \in 0..9
         /\ y \div 100 = 10 * ((y \div 100) \div 10) + ((y \div 100) % 10)
         /\ y \div 10 \in Int /\ (y % 100) \div 10 \in 0..9 /\ (y % 100) % 10 \in 0..9
         /\ y \div 10 = 10 * (y \div 100) + ((y % 100) \div 10)
         /\ y = 10 * (y \div 10) + ((y % 100) % 10)
    BY <1>3
  <1>16. ASSUME NEW x \in 2..12
         PROVE  s6[x] \in 0..9 /\ f[x] \in Int /\ f[x] = 10 * f[x - 1] + s6[x]
    <2>1. CASE x = 2
      <3>1. s6[2] \in 0..9 /\ f[2] \in Int
        BY <1>4, <1>11, <1>13, <1>15, Zenon
      <3>2. f[2] = 10 * f[1] + s6[2]
        BY <1>11, <1>13, <1>15, Zenon
      <3>3. x - 1 = 1
        BY <2>1
      <3> QED BY <2>1, <3>1, <3>2, <3>3, Zenon
    <2>2. CASE x = 3
      <3>1. s6[3] \in 0..9 /\ f[3] \in Int
        BY <1>4, <1>11, <1>13, <1>15, Zenon
      <3>2. f[3] = 10 * f[2] + s6[3]
        BY <1>11, <1>13, <1>15, Zenon
      <3>3. x - 1 = 2
        BY <2>2
      <3> QED BY <2>2, <3>1, <3>2, <3>3, Zenon
    <2>3. CASE x = 4
      BY <1>3, <1>11, <1>13, <1>15, <2>3
    <2>4. CASE x = 5
      BY <1>3, <1>11, <1>13, <2>4
    <2>5. CASE x = 6
      <3>1. a = 100 * y + m
        BY DEF a
      <3> QED BY <1>3, <1>11, <1>12, <1>13, <2>5, <3>1
    <2>6. CASE x = 7
      BY <1>3, <1>11, <1>12, <1>13, <2>6
    <2>7. CASE x = 8
      <3>1. b = 100 * a + d
        BY DEF b
      <3> QED BY <1>3, <1>11, <1>12, <1>13, <2>7, <3>1
    <2>8. CASE x = 9
      BY <1>3, <1>11, <1>12, <1>13, <2>8
    <2>9. CASE x = 10
      <3>1. c = 100 * b + h
        BY DEF c
      <3> QED BY <1>3, <1>11, <1>12, <1>13, <2>9, <3>1
    <2>10. CASE x = 11
      BY <1>3, <1>11, <1>12, <1>13, <2>10
    <2>11. CASE x = 12
      BY <1>3, <1>11, <1>12, <1>13, <2>11
    <2> QED BY <2>1, <2>2, <2>3, <2>4, <2>5, <2>6, <2>7, <2>8, <2>9, <2>10, <2>11
  <1>17. Reads(f, s6)
    BY <1>10, <1>11, <1>13, <1>15, <1>16 DEF Reads
  <1> QED BY <1>2, <1>12, <1>13, <1>17, Zenon

(***************************************************************************)
(* expr's comparison of two timestamps, digit by digit, compares the times  *)
(* they stand for (scheduledBackupTimestampDate,                            *)
(* pruneScheduledBackupsScript).                                            *)
(***************************************************************************)
THEOREM StampOrder ==
    ASSUME NEW a \in Int, NEW b \in Int
    PROVE  Less(Stamp(a), Stamp(b)) <=> a < b
  <1>1. PICK f : Reads(f, Stamp(a)) /\ f[12] = Code(a)
    BY StampReads
  <1>2. PICK g : Reads(g, Stamp(b)) /\ g[12] = Code(b)
    BY StampReads
  <1>3. Less(Stamp(a), Stamp(b)) <=> f[12] < g[12]
    BY <1>1, <1>2, ReadsOrder, Zenon
  <1> QED BY <1>1, <1>2, <1>3, CodeOrder, Zenon

(***************************************************************************)
(* The values.  Every configured retention is an amount and a unit, and the *)
(* reconciler and the API server's rule agree on whether it is enabled.     *)
(***************************************************************************)
LEMMA ParsedValues ==
    ASSUME NEW f, NEW v, <<f, v>> \in Configs
    PROVE  /\ Durational(ParseRetention(v))
           /\ Enabled(ParseRetention(v)) <=> CountsAsEnabled(v)
  <1>1. CASE v = Unset
    <2>1. ParseRetention(v) = [amount |-> 0, unit |-> NoUnit]
      BY <1>1 DEF ParseRetention
    <2>2. Len(v.digits) = 0
      BY <1>1 DEF Unset
    <2>3. ParseRetention(v).amount = 0 /\ ParseRetention(v).unit = NoUnit
      BY <2>1
    <2>4. ~CountsAsEnabled(v)
      BY <2>2 DEF CountsAsEnabled
    <2>5. ~Enabled(ParseRetention(v))
      BY <2>3 DEF Enabled
    <2>6. Durational(ParseRetention(v))
      BY <2>3 DEF Durational
    <2> QED BY <2>4, <2>5, <2>6
  <1>2. CASE v # Unset
    <2>1. /\ v.unit \in Units /\ Len(v.digits) \in 1..15
          /\ \A i \in 1..Len(v.digits) : v.digits[i] \in 0..9
      <3>1. <<f, v>>[2] = v
        OBVIOUS
      <3> QED BY <1>2, <3>1, RetentionAssumption
    <2>2. Digits(v.digits)
      BY <2>1 DEF Digits
    <2>3. /\ Atoi(v.digits) \in Nat
          /\ Atoi(v.digits) > 0 <=> \E i \in 1..Len(v.digits) : v.digits[i] \in 1..9
      BY <2>2, AtoiPositive
    <2>4. /\ ParseRetention(v).amount = Atoi(v.digits)
          /\ ParseRetention(v).unit = v.unit
      BY <1>2 DEF ParseRetention
    <2> QED BY <2>1, <2>3, <2>4 DEF Durational, Enabled, CountsAsEnabled
  <1> QED BY <1>1, <1>2

(* A schedule is due on the hour.                                           *)
LEMMA DueOnTheHour ==
    ASSUME NEW f, NEW t \in Nat
    PROVE  NextDue(f, t) \in Nat /\ NextDue(f, t) % Hour = 0
  <1> DEFINE n == t \div Day
             c == Civil(n)
  <1>1. n \in Nat
    BY DEF Day, Hour
  <1>2. IsCivil(c, n)
    BY <1>1, CivilCorrect
  <1>3. ASSUME NEW x \in Nat PROVE x * Day \in Nat /\ (x * Day) % Hour = 0
    BY DEF Day, Hour
  <1>4. DayNumber(c.y + 1, 1, 1) \in Nat
    <2>1. c.y + 1 \in Int /\ n < DayNumber(c.y + 1, 1, 1)
      BY <1>2 DEF IsCivil
    <2>2. DayNumber(c.y + 1, 1, 1) \in Int
      BY <2>1, YearLength
    <2> HIDE DEF n, c
    <2> QED BY <1>1, <2>1, <2>2
  <1>5. c.m # 12 => DayNumber(c.y, c.m + 1, 1) \in Nat
    <2> SUFFICES ASSUME c.m # 12 PROVE DayNumber(c.y, c.m + 1, 1) \in Nat
      OBVIOUS
    <2>1. c.y \in Int /\ c.m \in 1..12
      BY <1>2 DEF IsCivil
    <2>2. c.m < 12 /\ c.m + 1 \in 1..12
      BY <2>1
    <2>3. n < DayNumber(c.y, c.m + 1, 1)
      BY <1>2, <2>2 DEF IsCivil
    <2>4. DayNumber(c.y, c.m + 1, 1) \in Int
      BY <2>1, <2>2, MonthStart
    <2> HIDE DEF n, c
    <2> QED BY <1>1, <2>3, <2>4
  <1>6. n + 1 \in Nat /\ n + 7 - (n % 7) \in Nat
    <2> HIDE DEF n
    <2> QED BY <1>1
  <1>7. (t \div Hour + 1) * Hour \in Nat /\ ((t \div Hour + 1) * Hour) % Hour = 0
    BY DEF Hour
  <1>8. \/ NextDue(f, t) = (t \div Hour + 1) * Hour
        \/ NextDue(f, t) = (n + 1) * Day
        \/ NextDue(f, t) = (n + 7 - (n % 7)) * Day
        \/ NextDue(f, t) = DayNumber(c.y + 1, 1, 1) * Day
        \/ c.m # 12 /\ NextDue(f, t) = DayNumber(c.y, c.m + 1, 1) * Day
    BY DEF NextDue
  <1> HIDE DEF n, c
  <1> QED BY <1>3, <1>4, <1>5, <1>6, <1>7, <1>8

(* Pruning keeps the files that are not older than the cutoff.              *)
LEMMA PrunedFiles ==
    ASSUME NEW files \in SUBSET Nat, NEW t \in Int, Durational(ParseRetention(value))
    PROVE  Pruned(files, t) = {f \in files : f >= DateAgo(ParseRetention(value), t)}
  <1> DEFINE cut == DateAgo(ParseRetention(value), t)
  <1>1. cut \in Int
    BY DateAgoBounds
  <1>2. ASSUME NEW f \in files PROVE ~Less(Stamp(f), Stamp(cut)) <=> f >= cut
    <2> HIDE DEF cut
    <2>1. f \in Int
      OBVIOUS
    <2>2. Less(Stamp(f), Stamp(cut)) <=> f < cut
      BY <1>1, <2>1, StampOrder
    <2> QED BY <1>1, <2>1, <2>2
  <1>3. Pruned(files, t) = {f \in files : ~Less(Stamp(f), Stamp(cut))}
    BY DEF Pruned
  <1> HIDE DEF cut
  <1>4. {f \in files : ~Less(Stamp(f), Stamp(cut))} = {f \in files : f >= cut}
    BY <1>2
  <1> QED BY <1>3, <1>4 DEF cut

(***************************************************************************)
(* The runs.  A run starts at the time it is, so that a prune is never      *)
(* earlier than what went before it.                                        *)
(***************************************************************************)
StartedNow == run # Never => run = now

(* The types and the start of a run, kept by every step.                    *)
LEMMA TypeInductive ==
    Spec => [](TypeOK /\ StartedNow)
  <1> USE DEF TypeOK, StartedNow
  <1>1. Init => TypeOK /\ StartedNow
    <2> SUFFICES ASSUME Init PROVE TypeOK /\ StartedNow
      OBVIOUS
    <2>1. <<freq, value>> \in Configs
      <3>1. PICK c \in Configs : freq = c[1] /\ value = c[2]
        BY DEF Init
      <3>2. c = <<c[1], c[2]>>
        BY RetentionAssumption
      <3> QED BY <3>1, <3>2
    <2>2. now \in Nat /\ due = NextDue(freq, now)
      BY RetentionAssumption DEF Init
    <2>3. due \in Nat /\ due % Hour = 0
      BY <2>2, DueOnTheHour
    <2>4. runs \in 0..MaxRuns /\ failures \in 0..MaxFailures
      BY RetentionAssumption DEF Init
    <2>5. /\ {run, pruned, last} \subseteq Nat \cup {Never}
          /\ kept \subseteq Nat /\ recent \subseteq Nat /\ run = Never
      BY DEF Init
    <2> QED BY <2>1, <2>2, <2>3, <2>4, <2>5
  <1>2. TypeOK /\ StartedNow /\ [Next]_vars => TypeOK' /\ StartedNow'
    <2> SUFFICES ASSUME TypeOK, StartedNow, [Next]_vars PROVE TypeOK' /\ StartedNow'
      OBVIOUS
    <2>1. CASE StartRun
      <3>1. run' \in Nat /\ now' = run'
        BY <2>1 DEF StartRun
      <3>2. due' = NextDue(freq, run')
        BY <2>1 DEF StartRun
      <3>3. due' \in Nat /\ due' % Hour = 0
        BY <3>1, <3>2, DueOnTheHour
      <3>4. runs' \in 0..MaxRuns
        BY <2>1, RetentionAssumption DEF StartRun
      <3>5. UNCHANGED <<freq, value, kept, pruned, last, recent, failures>>
        BY <2>1 DEF StartRun
      <3> QED BY <3>1, <3>3, <3>4, <3>5
    <2>2. ASSUME run # Never, NEW d \in Durations, now' = run + d PROVE now' \in Nat
      <3>1. run \in Nat
        BY <2>2
      <3>2. d \in Nat
        BY RetentionAssumption
      <3> QED BY <2>2, <3>1, <3>2
    <2>3. CASE FinishRun
      <3>1. run \in Nat /\ now' \in Nat
        BY <2>2, <2>3 DEF FinishRun
      <3>2. kept' \subseteq kept \cup {run} /\ recent' \subseteq recent \cup {run}
        BY <2>3 DEF FinishRun, Pruned
      <3>3. run' = Never /\ pruned' = now' /\ last' = run
        BY <2>3 DEF FinishRun
      <3>4. UNCHANGED <<freq, value, due, runs, failures>>
        BY <2>3 DEF FinishRun
      <3> QED BY <3>1, <3>2, <3>3, <3>4
    <2>4. CASE FailRun
      <3>1. now' \in Nat
        BY <2>2, <2>4 DEF FailRun
      <3>2. failures' \in 0..MaxFailures
        BY <2>4, RetentionAssumption DEF FailRun
      <3>3. run' = Never /\ UNCHANGED <<freq, value, due, kept, pruned, last, recent, runs>>
        BY <2>4 DEF FailRun
      <3> QED BY <3>1, <3>2, <3>3
    <2>5. CASE UNCHANGED vars
      BY <2>5 DEF vars
    <2> QED BY <2>1, <2>3, <2>4, <2>5 DEF Next
  <1> QED BY <1>1, <1>2, PTL DEF Spec

(* Every variable of the retention keeps its type, over every configured    *)
(* value, start and sequence of runs (Init, StartRun, FinishRun, FailRun).  *)
THEOREM TypeCorrect == Spec => []TypeOK
  BY TypeInductive, PTL

(***************************************************************************)
(* For every retention the pattern allows, leading zeros and zeros only     *)
(* included, parseRetention enables a frequency exactly when the API        *)
(* server's rule counts it.                                                 *)
(***************************************************************************)
THEOREM ValuesAgree == Spec => []EnabledAgree
  <1>1. TypeOK => EnabledAgree
    BY ParsedValues DEF TypeOK, EnabledAgree
  <1> QED BY <1>1, TypeCorrect, PTL

(* What a run does to the backups in its directory.                         *)
LEMMA FinishedRun ==
    ASSUME TypeOK, StartedNow, FinishRun
    PROVE  LET p == ParseRetention(value)
               cut == DateAgo(p, now')
           IN  /\ kept' = {f \in kept \cup {run} : f >= cut}
               /\ cut \in Int /\ Shortest(p) \in Int /\ Longest(p) \in Int
               /\ now' - cut >= Shortest(p) /\ now' - cut <= Longest(p)
               /\ run \in Nat /\ now' \in Nat /\ now <= now' /\ now \in Nat
  <1>1. run \in Nat /\ run = now
    BY DEF TypeOK, StartedNow, FinishRun
  <1>2. PICK d \in Durations : now' = run + d
    BY DEF FinishRun
  <1>3. d \in Nat
    BY RetentionAssumption
  <1>4. now' \in Nat /\ now <= now'
    BY <1>1, <1>2, <1>3
  <1>5. Durational(ParseRetention(value))
    BY ParsedValues DEF TypeOK
  <1>6. kept \cup {run} \in SUBSET Nat
    BY <1>1 DEF TypeOK
  <1>7. kept' = Pruned(kept \cup {run}, now')
    BY DEF FinishRun
  <1>8. now' \in Int
    BY <1>4
  <1>9. kept' = {f \in kept \cup {run} : f >= DateAgo(ParseRetention(value), now')}
    BY <1>5, <1>6, <1>7, <1>8, PrunedFiles
  <1> QED BY <1>1, <1>4, <1>5, <1>8, <1>9, DateAgoBounds

(***************************************************************************)
(* No prune deletes a backup that is still younger than the retention's     *)
(* shortest reading: for every amount and unit, every run time and every    *)
(* sequence of successful and failed runs (pruneScheduledBackupsScript).    *)
(***************************************************************************)
THEOREM BackupsKept == Spec => []KeptLongEnough
  <1>1. Init => KeptLongEnough
    BY DEF Init, KeptLongEnough
  <1>2. TypeOK /\ StartedNow /\ KeptLongEnough /\ [Next]_vars => KeptLongEnough'
    <2> SUFFICES ASSUME TypeOK, StartedNow, KeptLongEnough, [Next]_vars,
                        NEW t \in recent', now' - t <= Shortest(ParseRetention(value'))
                 PROVE  t \in kept'
      BY DEF KeptLongEnough
    <2>1. now \in Nat /\ due \in Nat /\ recent \subseteq Nat
      BY DEF TypeOK
    <2>2. Shortest(ParseRetention(value)) \in Int
      <3>1. 0 \in Int /\ Durational(ParseRetention(value))
        BY ParsedValues DEF TypeOK
      <3> QED BY <3>1, DateAgoBounds
    <2>3. ASSUME now' \in Nat, now <= now', UNCHANGED <<value, kept, recent>>
          PROVE  t \in kept'
      <3>1. t \in recent /\ t \in Nat /\ now' - t <= Shortest(ParseRetention(value))
        BY <2>1, <2>3
      <3>2. now - t <= Shortest(ParseRetention(value))
        BY <2>1, <2>2, <2>3, <3>1
      <3> QED BY <2>3, <3>1, <3>2 DEF KeptLongEnough
    <2>4. CASE StartRun
      <3>1. now' \in Nat /\ now <= now'
        BY <2>1, <2>4 DEF StartRun
      <3>2. UNCHANGED <<value, kept, recent>>
        BY <2>4 DEF StartRun
      <3> QED BY <2>3, <3>1, <3>2
    <2>5. CASE FailRun
      <3>1. run \in Nat /\ run = now
        BY <2>5 DEF FailRun, TypeOK, StartedNow
      <3>2. PICK d \in Durations : now' = run + d
        BY <2>5 DEF FailRun
      <3>3. d \in Nat
        BY RetentionAssumption
      <3>4. now' \in Nat /\ now <= now'
        BY <3>1, <3>2, <3>3
      <3>5. UNCHANGED <<value, kept, recent>>
        BY <2>5 DEF FailRun
      <3> QED BY <2>3, <3>4, <3>5
    <2>6. CASE FinishRun
      <3> DEFINE p == ParseRetention(value)
                 cut == DateAgo(p, now')
      <3>1. /\ kept' = {f \in kept \cup {run} : f >= cut}
            /\ cut \in Int /\ Shortest(p) \in Int
            /\ now' - cut >= Shortest(p)
            /\ run \in Nat /\ now' \in Nat /\ now <= now'
        BY <2>6, FinishedRun
      <3>2. t \in recent \cup {run} /\ now' - t <= Shortest(p)
        BY <2>6 DEF FinishRun
      <3> HIDE DEF p, cut
      <3>3. t \in Nat /\ t >= cut
        BY <2>1, <3>1, <3>2
      <3>4. t \in recent => t \in kept
        <4>1. t \in recent => now - t <= Shortest(p)
          BY <2>1, <3>1, <3>2, <3>3
        <4> QED BY <4>1 DEF KeptLongEnough, p
      <3> QED BY <3>1, <3>2, <3>3, <3>4
    <2>7. CASE UNCHANGED vars
      BY <2>1, <2>3, <2>7 DEF vars
    <2> QED BY <2>4, <2>5, <2>6, <2>7 DEF Next
  <1> QED BY <1>1, <1>2, TypeInductive, PTL DEF Spec

(***************************************************************************)
(* After a prune no backup is older than the retention's longest reading:   *)
(* the volume holds a bounded span of time (pruneScheduledBackupsScript).   *)
(***************************************************************************)
THEOREM VolumeBounded == Spec => []KeptNoLonger
  <1>1. Init => KeptNoLonger
    BY DEF Init, KeptNoLonger
  <1>2. TypeOK /\ StartedNow /\ KeptNoLonger /\ [Next]_vars => KeptNoLonger'
    <2> SUFFICES ASSUME TypeOK, StartedNow, KeptNoLonger, [Next]_vars
                 PROVE  KeptNoLonger'
      OBVIOUS
    <2>1. CASE FinishRun
      <3> SUFFICES ASSUME NEW t \in kept'
                   PROVE  pruned' - t <= Longest(ParseRetention(value'))
        BY DEF KeptNoLonger
      <3> DEFINE p == ParseRetention(value)
                 cut == DateAgo(p, now')
      <3>1. /\ kept' = {f \in kept \cup {run} : f >= cut}
            /\ cut \in Int /\ Longest(p) \in Int
            /\ now' - cut <= Longest(p)
            /\ run \in Nat /\ now' \in Nat
        BY <2>1, FinishedRun
      <3>2. pruned' = now' /\ value' = value
        BY <2>1 DEF FinishRun
      <3> HIDE DEF p, cut
      <3>3. t \in Nat /\ t >= cut
        BY <3>1 DEF TypeOK
      <3>4. now' - t <= Longest(p)
        BY <3>1, <3>3
      <3> QED BY <3>2, <3>4 DEF p
    <2>2. CASE StartRun \/ FailRun \/ UNCHANGED vars
      <3>1. UNCHANGED <<value, kept, pruned>>
        BY <2>2 DEF StartRun, FailRun, vars
      <3> QED BY <3>1 DEF KeptNoLonger
    <2> QED BY <2>1, <2>2 DEF Next
  <1> QED BY <1>1, <1>2, TypeInductive, PTL DEF Spec

(***************************************************************************)
(* The last successful run's backup stays until the next one succeeds,      *)
(* unless the run took longer than the whole retention, however late the    *)
(* next one is and however many fail (pruneScheduledBackupsScript).         *)
(***************************************************************************)
THEOREM LatestBackupKept == Spec => []LatestKept
  <1>1. Init => LatestKept
    BY DEF Init, LatestKept
  <1>2. TypeOK /\ StartedNow /\ LatestKept /\ [Next]_vars => LatestKept'
    <2> SUFFICES ASSUME TypeOK, StartedNow, LatestKept, [Next]_vars
                 PROVE  LatestKept'
      OBVIOUS
    <2>1. CASE FinishRun
      <3> SUFFICES ASSUME pruned' - last' <= Shortest(ParseRetention(value'))
                   PROVE  last' \in kept'
        BY DEF LatestKept
      <3> DEFINE p == ParseRetention(value)
                 cut == DateAgo(p, now')
      <3>1. /\ kept' = {f \in kept \cup {run} : f >= cut}
            /\ cut \in Int /\ Shortest(p) \in Int
            /\ now' - cut >= Shortest(p)
            /\ run \in Nat /\ now' \in Nat
        BY <2>1, FinishedRun
      <3>2. pruned' = now' /\ last' = run /\ value' = value
        BY <2>1 DEF FinishRun
      <3>3. now' - run <= Shortest(p)
        BY <3>2
      <3> HIDE DEF p, cut
      <3>4. run >= cut
        BY <3>1, <3>3
      <3> QED BY <3>1, <3>2, <3>4
    <2>2. CASE StartRun \/ FailRun \/ UNCHANGED vars
      <3>1. UNCHANGED <<value, kept, pruned, last>>
        BY <2>2 DEF StartRun, FailRun, vars
      <3> QED BY <3>1 DEF LatestKept
    <2> QED BY <2>1, <2>2 DEF Next
  <1> QED BY <1>1, <1>2, TypeInductive, PTL DEF Spec
=============================================================================
