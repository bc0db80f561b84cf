-------------------------- MODULE PacificDates_proofs --------------------------
(***************************************************************************)
(* Proofs about the date ranges of PacificDates: for every instant and     *)
(* every year of this century, a period's range holds its dates and its    *)
(* instants begin and end where these dates do.                            *)
(***************************************************************************)
EXTENDS PacificDates, FiniteSetTheorems, TLAPS

-----------------------------------------------------------------------------
(* The calendar. *)

\* The days of the year before the end of its k-th month.
DaysBefore(y, k) ==
    LET leap == IF Leap(y) THEN 1 ELSE 0
    IN  IF k = 0 THEN 0 ELSE IF k = 1 THEN 31 ELSE
        leap + CASE k = 2 -> 59 [] k = 3 -> 90 [] k = 4 -> 120 [] k = 5 -> 151 [] k = 6 -> 181
                 [] k = 7 -> 212 [] k = 8 -> 243 [] k = 9 -> 273 [] k = 10 -> 304 [] k = 11 -> 334
                 [] OTHER -> 365

IsBefore(f, y) == f = [k \in 0 .. 12 |-> IF k = 0 THEN 0 ELSE f[k - 1] + MonthLength(y, k)]

LEMMA MonthAdds ==
    ASSUME NEW y, NEW k \in 1 .. 12
    PROVE  /\ DaysBefore(y, k) = DaysBefore(y, k - 1) + MonthLength(y, k)
           /\ DaysBefore(y, k) \in Nat /\ DaysBefore(y, k - 1) \in Nat /\ MonthLength(y, k) \in 28 .. 31
<1>1. k \in {1, 2, 3, 4, 5, 6, 7, 8, 9, 10, 11, 12}
  OBVIOUS
<1> QED BY <1>1 DEF DaysBefore, MonthLength

\* The recursive function of DateOf exists, and this is what it gives.
LEMMA BeforeIs ==
    ASSUME NEW y
    PROVE  \A k \in 0 .. 12 : (CHOOSE f : IsBefore(f, y))[k] = DaysBefore(y, k)
<1> DEFINE g == [k \in 0 .. 12 |-> DaysBefore(y, k)]
           f == CHOOSE h : IsBefore(h, y)
<1>1. IsBefore(g, y)
  <2>1. ASSUME NEW k \in 0 .. 12
        PROVE  g[k] = IF k = 0 THEN 0 ELSE g[k - 1] + MonthLength(y, k)
    <3>1. CASE k = 0
      BY <3>1 DEF DaysBefore
    <3>2. CASE k # 0
      <4>1. k \in 1 .. 12 /\ k - 1 \in 0 .. 12
        BY <3>2
      <4> QED BY <3>2, <4>1, MonthAdds
    <3> QED BY <3>1, <3>2
  <2> HIDE DEF g
  <2>2. g = [k \in 0 .. 12 |-> g[k]]
    BY DEF g
  <2> QED BY <2>1, <2>2 DEF IsBefore
<1>2. IsBefore(f, y)
  BY <1>1
<1> HIDE DEF f
<1>3. f[0] = DaysBefore(y, 0)
  BY <1>2 DEF IsBefore, DaysBefore
<1>4. \A k \in 1 .. 12 : f[k] = f[k - 1] + MonthLength(y, k)
  BY <1>2 DEF IsBefore
<1>5. \A k \in 1 .. 12 : f[k - 1] = DaysBefore(y, k - 1) => f[k] = DaysBefore(y, k)
  BY <1>4, MonthAdds
<1> DEFINE Right(k) == f[k] = DaysBefore(y, k)
<1>6. Right(0) /\ \A k \in 1 .. 12 : Right(k - 1) => Right(k)
  BY <1>3, <1>5
<1> HIDE DEF Right
<1>7. Right(0) /\ Right(1) /\ Right(2) /\ Right(3) /\ Right(4) /\ Right(5) /\ Right(6)
  BY <1>6
<1>8. Right(7) /\ Right(8) /\ Right(9) /\ Right(10) /\ Right(11) /\ Right(12)
  BY <1>6, <1>7
<1>9. \A k \in 0 .. 12 : Right(k)
  BY <1>7, <1>8
<1> QED BY <1>9 DEF Right, f

\* A literal date, the month in or just out of its range.
LEMMA DateIs ==
    ASSUME NEW y \in Int, NEW d \in Int
    PROVE  /\ \A m \in 1 .. 12 : DateOf(y, m, d) = YearStart(y) + DaysBefore(y, m - 1) + d - 1
           /\ DateOf(y, 13, d) = YearStart(y + 1) + d - 1
<1>1. ASSUME NEW m \in 1 .. 13, NEW z \in Int, NEW k \in 0 .. 11, y + (m - 1) \div 12 = z, ((m - 1) % 12) + 1 = k + 1
      PROVE  DateOf(y, m, d) = YearStart(z) + DaysBefore(z, k) + d - 1
  <2>1. DateOf(y, m, d) = YearStart(z) + (CHOOSE f : IsBefore(f, z))[(k + 1) - 1] + d - 1
    BY <1>1 DEF DateOf, IsBefore
  <2>2. (k + 1) - 1 = k /\ k \in 0 .. 12
    OBVIOUS
  <2> QED BY <2>1, <2>2, BeforeIs
<1>2. ASSUME NEW m \in 1 .. 12
      PROVE  DateOf(y, m, d) = YearStart(y) + DaysBefore(y, m - 1) + d - 1
  <2>1. y + (m - 1) \div 12 = y /\ ((m - 1) % 12) + 1 = (m - 1) + 1 /\ m - 1 \in 0 .. 11 /\ m \in 1 .. 13
    OBVIOUS
  <2> QED BY <1>1, <2>1
<1>3. DateOf(y, 13, d) = YearStart(y + 1) + d - 1
  <2>1. y + (13 - 1) \div 12 = y + 1 /\ ((13 - 1) % 12) + 1 = 0 + 1 /\ 13 \in 1 .. 13 /\ y + 1 \in Int
    OBVIOUS
  <2>2. DateOf(y, 13, d) = YearStart(y + 1) + DaysBefore(y + 1, 0) + d - 1
    BY <1>1, <2>1
  <2>3. YearStart(y + 1) \in Int
    BY DEF YearStart
  <2> QED BY <2>2, <2>3 DEF DaysBefore
<1> QED BY <1>2, <1>3

Century == 2021 .. 2099

\* The first day of a month, the thirteenth being the next year's first.
FirstOf(y, m) == YearStart(y) + DaysBefore(y, m - 1)

LEMMA YearLength ==
    ASSUME NEW y \in Century
    PROVE  YearStart(y) \in Int /\ YearStart(y + 1) = YearStart(y) + DaysBefore(y, 12)
<1>1. y % 100 # 0
  BY DEF Century
<1>2. YearStart(y + 1) - YearStart(y) = IF y % 4 = 0 THEN 366 ELSE 365
  BY DEF Century, YearStart
<1>3. YearStart(y) \in Int /\ YearStart(y + 1) \in Int
  BY DEF Century, YearStart
<1> QED BY <1>1, <1>2, <1>3 DEF DaysBefore, Leap

LEMMA YearsInOrder ==
    ASSUME NEW y \in Century, NEW z \in Century, y < z
    PROVE  YearStart(y + 1) <= YearStart(z)
BY DEF Century, YearStart

LEMMA MonthsInOrder ==
    ASSUME NEW y \in Century
    PROVE  /\ \A m \in 1 .. 13 : FirstOf(y, m) \in Int /\ DateOf(y, m, 1) = FirstOf(y, m)
           /\ \A m \in 1 .. 12 : \A k \in 1 .. 12 : m < k => FirstOf(y, m + 1) <= FirstOf(y, k)
           /\ \A m \in 1 .. 12 : FirstOf(y, m) < FirstOf(y, m + 1)
           /\ FirstOf(y, 1) = YearStart(y) /\ FirstOf(y, 13) = YearStart(y + 1)
<1>1. y \in Int /\ YearStart(y) \in Int /\ YearStart(y + 1) = YearStart(y) + DaysBefore(y, 12)
  BY YearLength DEF Century
<1>2. \A k \in 0 .. 12 : DaysBefore(y, k) \in Nat
  <2>1. \A k \in 1 .. 12 : DaysBefore(y, k) \in Nat
    BY MonthAdds
  <2> QED BY <2>1 DEF DaysBefore
<1>3. ASSUME NEW m \in 1 .. 13 PROVE FirstOf(y, m) \in Int /\ DateOf(y, m, 1) = FirstOf(y, m)
  <2>1. m - 1 \in 0 .. 12
    OBVIOUS
  <2>2. FirstOf(y, m) \in Int
    BY <1>1, <1>2, <2>1 DEF FirstOf
  <2>3. CASE m = 13
    BY <1>1, <2>2, <2>3, DateIs DEF FirstOf
  <2>4. CASE m # 13
    <3>1. m \in 1 .. 12 /\ 1 \in Int
      BY <2>4
    <3>2. DateOf(y, m, 1) = YearStart(y) + DaysBefore(y, m - 1) + 1 - 1
      BY <1>1, <3>1, DateIs
    <3> QED BY <1>1, <1>2, <2>1, <2>2, <3>2 DEF FirstOf
  <2> QED BY <2>2, <2>3, <2>4
<1>4. FirstOf(y, 1) = YearStart(y) /\ FirstOf(y, 13) = YearStart(y + 1)
  BY <1>1 DEF FirstOf, DaysBefore
<1>5. \A k \in 1 .. 12 : \A j \in 0 .. 11 : j < k => DaysBefore(y, j) < DaysBefore(y, k)
  <2> SUFFICES ASSUME NEW k \in 1 .. 12, NEW j \in 0 .. 11, j < k PROVE DaysBefore(y, j) < DaysBefore(y, k)
    OBVIOUS
  <2>1. j \in {0, 1, 2, 3, 4, 5, 6, 7, 8, 9, 10, 11} /\ k \in {1, 2, 3, 4, 5, 6, 7, 8, 9, 10, 11, 12}
    OBVIOUS
  <2> QED BY <2>1 DEF DaysBefore
<1>6. ASSUME NEW m \in 1 .. 12, NEW k \in 1 .. 12, m < k PROVE FirstOf(y, m + 1) <= FirstOf(y, k)
  <2>1. (m + 1) - 1 = m /\ k - 1 \in 1 .. 11 /\ (m = k - 1 \/ m < k - 1) /\ m \in 0 .. 12 /\ k - 1 \in 0 .. 12
    BY <1>6
  <2>2. DaysBefore(y, m) <= DaysBefore(y, k - 1)
    BY <1>2, <1>5, <2>1
  <2> QED BY <1>1, <1>2, <2>1, <2>2 DEF FirstOf
<1>7. ASSUME NEW m \in 1 .. 12 PROVE FirstOf(y, m) < FirstOf(y, m + 1)
  <2>1. (m + 1) - 1 = m /\ m - 1 \in 0 .. 11 /\ m - 1 < m /\ m \in 0 .. 12
    OBVIOUS
  <2>2. DaysBefore(y, m - 1) < DaysBefore(y, m)
    BY <1>5, <2>1
  <2> QED BY <1>1, <1>2, <2>1, <2>2 DEF FirstOf
<1> QED BY <1>3, <1>4, <1>6, <1>7

InYear(n, y)     == YearStart(y) <= n /\ n < YearStart(y + 1)
InMonth(n, y, m) == FirstOf(y, m) <= n /\ n < FirstOf(y, m + 1)

LEMMA YearIs ==
    ASSUME NEW y \in Years, NEW n \in Int, InYear(n, y)
    PROVE  YearOf(n) = y
<1>1. ASSUME NEW z \in Years, InYear(n, z) PROVE z = y
  <2>1. y \in Century /\ z \in Century
    BY DatesAssumption DEF Century
  <2>2. /\ YearStart(y) \in Int /\ YearStart(y + 1) \in Int
        /\ YearStart(z) \in Int /\ YearStart(z + 1) \in Int
    BY <2>1 DEF Century, YearStart
  <2>3. ~(y < z) /\ ~(z < y)
    BY <1>1, <2>1, <2>2, YearsInOrder DEF InYear
  <2> QED BY <2>1, <2>3 DEF Century
<1> QED BY <1>1 DEF YearOf, InYear

LEMMA MonthIs ==
    ASSUME NEW y \in Years, NEW m \in 1 .. 12, NEW n \in Int, InMonth(n, y, m)
    PROVE  InYear(n, y) /\ YearOf(n) = y /\ MonthOf(n) = m
<1>1. y \in Century
  BY DatesAssumption DEF Century
<1>2. \A k \in 1 .. 13 : FirstOf(y, k) \in Int /\ DateOf(y, k, 1) = FirstOf(y, k)
  BY <1>1, MonthsInOrder
<1>3. FirstOf(y, 1) <= FirstOf(y, m) /\ FirstOf(y, m + 1) <= FirstOf(y, 13)
  <2>1. CASE m = 1
    <3>1. FirstOf(y, 2) <= FirstOf(y, 12) /\ FirstOf(y, 12) < FirstOf(y, 13)
      <4>1. 1 \in 1 .. 12 /\ 12 \in 1 .. 12 /\ 1 < 12 /\ 1 + 1 = 2 /\ 12 + 1 = 13
        OBVIOUS
      <4> QED BY <1>1, <4>1, MonthsInOrder
    <3> QED BY <1>2, <2>1, <3>1
  <2>2. CASE m = 12
    <3>1. FirstOf(y, 2) <= FirstOf(y, 12) /\ FirstOf(y, 1) < FirstOf(y, 2)
      <4>1. 1 \in 1 .. 12 /\ 12 \in 1 .. 12 /\ 1 < 12 /\ 1 + 1 = 2
        OBVIOUS
      <4> QED BY <1>1, <4>1, MonthsInOrder
    <3> QED BY <1>2, <2>2, <3>1
  <2>3. CASE m # 1 /\ m # 12
    <3>1. /\ 1 \in 1 .. 12 /\ 12 \in 1 .. 12 /\ 1 < m /\ m < 12 /\ 1 + 1 = 2 /\ 12 + 1 = 13 /\ m + 1 \in 1 .. 13
          /\ {1, 2, 12, 13, m} \subseteq 1 .. 13
      BY <2>3
    <3>2. FirstOf(y, 1) < FirstOf(y, 2) /\ FirstOf(y, 2) <= FirstOf(y, m)
      BY <1>1, <3>1, MonthsInOrder
    <3>3. FirstOf(y, m + 1) <= FirstOf(y, 12) /\ FirstOf(y, 12) < FirstOf(y, 13)
      BY <1>1, <3>1, MonthsInOrder
    <3>4. /\ FirstOf(y, 1) \in Int /\ FirstOf(y, 2) \in Int /\ FirstOf(y, m) \in Int
          /\ FirstOf(y, m + 1) \in Int /\ FirstOf(y, 12) \in Int /\ FirstOf(y, 13) \in Int
      BY <1>2, <3>1
    <3> QED BY <3>2, <3>3, <3>4
  <2> QED BY <2>1, <2>2, <2>3
<1>4. InYear(n, y)
  <2>1. FirstOf(y, 1) = YearStart(y) /\ FirstOf(y, 13) = YearStart(y + 1)
    BY <1>1, MonthsInOrder
  <2>2. m + 1 \in 1 .. 13 /\ m \in 1 .. 13 /\ 1 \in 1 .. 13 /\ 13 \in 1 .. 13
    OBVIOUS
  <2>3. FirstOf(y, 1) \in Int /\ FirstOf(y, m) \in Int /\ FirstOf(y, m + 1) \in Int /\ FirstOf(y, 13) \in Int
    BY <1>2, <2>2
  <2> QED BY <1>3, <2>1, <2>3 DEF InYear, InMonth
<1>5. YearOf(n) = y
  BY <1>4, YearIs
<1>6. \A k \in 1 .. 12 : DateOf(y, k, 1) <= n /\ n < DateOf(y, k + 1, 1) <=> InMonth(n, y, k)
  <2>1. \A k \in 1 .. 12 : k \in 1 .. 13 /\ k + 1 \in 1 .. 13
    OBVIOUS
  <2> QED BY <1>2, <2>1 DEF InMonth
<1>7. ASSUME NEW k \in 1 .. 12, InMonth(n, y, k) PROVE k = m
  <2>1. /\ FirstOf(y, k) \in Int /\ FirstOf(y, k + 1) \in Int
        /\ FirstOf(y, m) \in Int /\ FirstOf(y, m + 1) \in Int
    <3>1. k \in 1 .. 13 /\ k + 1 \in 1 .. 13 /\ m \in 1 .. 13 /\ m + 1 \in 1 .. 13
      OBVIOUS
    <3> QED BY <1>2, <3>1
  <2>2. (m < k => FirstOf(y, m + 1) <= FirstOf(y, k)) /\ (k < m => FirstOf(y, k + 1) <= FirstOf(y, m))
    BY <1>1, MonthsInOrder
  <2>3. ~(m < k) /\ ~(k < m)
    BY <1>7, <2>1, <2>2 DEF InMonth
  <2> QED BY <2>3
<1>8. MonthOf(n) = m
  BY <1>5, <1>6, <1>7 DEF MonthOf
<1> QED BY <1>4, <1>5, <1>8

LEMMA HasMonth ==
    ASSUME NEW y \in Years, NEW n \in Int, InYear(n, y)
    PROVE  \E m \in 1 .. 12 : InMonth(n, y, m)
<1>1. y \in Century
  BY DatesAssumption DEF Century
<1>2. FirstOf(y, 1) <= n /\ n < FirstOf(y, 13)
  BY <1>1, MonthsInOrder DEF InYear
<1>3. \A m \in 1 .. 13 : FirstOf(y, m) \in Int
  BY <1>1, MonthsInOrder
<1>4. ASSUME \A m \in 1 .. 12 : ~InMonth(n, y, m) PROVE FALSE
  <2> DEFINE Begun(m) == FirstOf(y, m) <= n
  <2>1. \A m \in 1 .. 12 : Begun(m) => Begun(m + 1)
    <3> SUFFICES ASSUME NEW m \in 1 .. 12, Begun(m) PROVE Begun(m + 1)
      OBVIOUS
    <3>1. m + 1 \in 1 .. 13 /\ m \in 1 .. 13
      OBVIOUS
    <3>2. ~InMonth(n, y, m) /\ FirstOf(y, m + 1) \in Int /\ FirstOf(y, m) \in Int
      BY <1>3, <1>4, <3>1
    <3> QED BY <3>2 DEF InMonth
  <2>2. Begun(1) /\ ~Begun(13)
    <3>1. 13 \in 1 .. 13
      OBVIOUS
    <3>2. FirstOf(y, 13) \in Int
      BY <1>3, <3>1
    <3> QED BY <1>2, <3>2
  <2> HIDE DEF Begun
  <2>3. Begun(2) /\ Begun(3) /\ Begun(4) /\ Begun(5) /\ Begun(6) /\ Begun(7)
    BY <2>1, <2>2
  <2>4. Begun(8) /\ Begun(9) /\ Begun(10) /\ Begun(11) /\ Begun(12) /\ Begun(13)
    BY <2>1, <2>3
  <2> QED BY <2>2, <2>4
<1> QED BY <1>4

\* The day before a month is the last of the month before.
LEMMA MonthBefore ==
    ASSUME NEW y \in Years, NEW m \in 1 .. 12, m = 1 => y - 1 \in Years,
           NEW z, NEW k, z = (IF m = 1 THEN y - 1 ELSE y), k = (IF m = 1 THEN 12 ELSE m - 1)
    PROVE  /\ z \in Years /\ k \in 1 .. 12 /\ FirstOf(z, k) \in Int
           /\ FirstOf(z, k + 1) = FirstOf(y, m) /\ FirstOf(z, k) < FirstOf(y, m)
<1>1. z \in Years /\ k \in 1 .. 12 /\ y \in Century /\ z \in Century /\ y \in Int
  BY DatesAssumption DEF Century
<1>2. FirstOf(z, k + 1) = FirstOf(y, m)
  <2>1. CASE m = 1
    <3>1. k + 1 = 13 /\ z + 1 = y
      BY <1>1, <2>1
    <3>2. FirstOf(z, 13) = YearStart(z + 1) /\ FirstOf(y, 1) = YearStart(y)
      BY <1>1, MonthsInOrder
    <3> QED BY <2>1, <3>1, <3>2
  <2>2. CASE m # 1
    BY <2>2
  <2> QED BY <2>1, <2>2
<1>3. FirstOf(z, k) < FirstOf(z, k + 1)
  BY <1>1, MonthsInOrder
<1>4. k \in 1 .. 13
  BY <1>1
<1>5. FirstOf(z, k) \in Int
  BY <1>1, <1>4, MonthsInOrder
<1> QED BY <1>1, <1>2, <1>3, <1>5

-----------------------------------------------------------------------------
(* The clock. The offset is one of two, and it changes only at an instant  *)
(* at which a change of the clock is due.                                  *)

LEMMA ChangesAreDates ==
    ASSUME NEW y \in Years
    PROVE  SpringDay(y) \in Int /\ AutumnDay(y) \in Int
<1>1. y \in Int /\ y \in Century /\ 7 \in Int /\ 1 \in Int
  BY DatesAssumption DEF Century
<1>2. ASSUME NEW m \in {3, 11} PROVE FirstSunday(y, m) \in Int
  <2>1. m \in 1 .. 12 /\ m \in 1 .. 13 /\ m - 1 \in 0 .. 12
    OBVIOUS
  <2>2. DateOf(y, m, 1) = FirstOf(y, m) /\ FirstOf(y, m) \in Int
    BY <1>1, <2>1, MonthsInOrder
  <2>3. DateOf(y, m, 7) = YearStart(y) + DaysBefore(y, m - 1) + 7 - 1
    BY <1>1, <2>1, DateIs
  <2>4. YearStart(y) \in Int /\ DaysBefore(y, m - 1) \in Nat
    BY <1>1, <2>1, YearLength, MonthAdds
  <2> DEFINE a == DateOf(y, m, 1)
  <2>5. a \in Int /\ DateOf(y, m, 7) = a + 6
    BY <2>2, <2>3, <2>4 DEF FirstOf
  <2> HIDE DEF a
  <2>6. \E n \in a .. (a + 6) : n % 7 = 6
    <3>1. /\ a \in a .. (a + 6) /\ a + 1 \in a .. (a + 6) /\ a + 2 \in a .. (a + 6) /\ a + 3 \in a .. (a + 6)
          /\ a + 4 \in a .. (a + 6) /\ a + 5 \in a .. (a + 6) /\ a + 6 \in a .. (a + 6)
      BY <2>5
    <3>2. \/ a % 7 = 6 \/ (a + 1) % 7 = 6 \/ (a + 2) % 7 = 6 \/ (a + 3) % 7 = 6
          \/ (a + 4) % 7 = 6 \/ (a + 5) % 7 = 6 \/ (a + 6) % 7 = 6
      BY <2>5
    <3> QED BY <3>1, <3>2
  <2>7. FirstSunday(y, m) \in a .. (a + 6)
    BY <2>5, <2>6 DEF FirstSunday, Weekday, a
  <2> QED BY <2>5, <2>7
<1>3. FirstSunday(y, 3) \in Int /\ FirstSunday(y, 11) \in Int
  BY <1>2
<1> QED BY <1>3 DEF SpringDay, AutumnDay

\* Between two instants of one offset and the other the clock changes.
LEMMA OffsetStays ==
    ASSUME NEW s \in Int, NEW t \in Int, s <= t,
           \A y \in Years : /\ ~(s < SpringDay(y) * 24 + 10 /\ SpringDay(y) * 24 + 10 <= t)
                            /\ ~(s < AutumnDay(y) * 24 + 9 /\ AutumnDay(y) * 24 + 9 <= t)
    PROVE  PstOffset(s) = PstOffset(t)
<1>1. ASSUME NEW y \in Years
      PROVE  SpringDay(y) * 24 + 10 <= s /\ s < AutumnDay(y) * 24 + 9
             <=> SpringDay(y) * 24 + 10 <= t /\ t < AutumnDay(y) * 24 + 9
  <2>1. SpringDay(y) \in Int /\ AutumnDay(y) \in Int
    BY ChangesAreDates
  <2> QED BY <2>1
<1>2. Summer(s) <=> Summer(t)
  BY <1>1 DEF Summer
<1> QED BY <1>2 DEF PstOffset

LEMMA OffsetIs == \A t : PstOffset(t) \in {-7, -8}
BY DEF PstOffset

LEMMA TodayIs ==
    /\ \A n \in Int : TodayPst(24 * n + 12) = n
    /\ \A t \in Int : TodayPst(t) \in Int
    /\ \A t \in Int : \A n \in Int : 24 * n <= t + PstOffset(t) /\ t + PstOffset(t) < 24 * n + 24 => TodayPst(t) = n
<1>1. ASSUME NEW t \in Int, NEW n \in Int, 24 * n <= t + PstOffset(t), t + PstOffset(t) < 24 * n + 24
      PROVE  TodayPst(t) = n
  <2>1. PstOffset(t) \in Int
    BY OffsetIs
  <2>2. \A u \in Int : 24 * n <= u /\ u < 24 * n + 24 => u \div 24 = n
    OBVIOUS
  <2>3. t + PstOffset(t) \in Int
    BY <2>1
  <2> QED BY <1>1, <2>2, <2>3 DEF TodayPst
<1>2. ASSUME NEW n \in Int PROVE TodayPst(24 * n + 12) = n
  <2>1. PstOffset(24 * n + 12) \in {-7, -8} /\ 24 * n + 12 \in Int
    BY OffsetIs
  <2> QED BY <1>1, <2>1
<1>3. ASSUME NEW t \in Int PROVE TodayPst(t) \in Int
  <2>1. PstOffset(t) \in Int
    BY OffsetIs
  <2> QED BY <2>1 DEF TodayPst
<1> QED BY <1>1, <1>2, <1>3

\* The last hour of a date is its own, whatever day it is: no change of the
\* clock lies between noon UTC of the date and the hour after its last.
LEMMA EndsFit ==
    ASSUME NEW e \in Int
    PROVE  TodayPst(ToPstIsoEnd(e)) = e /\ TodayPst(ToPstIsoEnd(e) + 1) = e + 1
<1> DEFINE to == ToPstIsoEnd(e)
           o  == PstOffset(Probe(e))
<1>1. o \in {-7, -8} /\ to = e * 24 + 23 - o /\ Probe(e) = e * 24 + 12
  BY OffsetIs DEF ToPstIsoEnd, Probe
<1> HIDE DEF to
<1>2. to \in Int /\ to + 1 \in Int /\ Probe(e) \in Int /\ Probe(e) <= to /\ to <= to + 1 /\ to + 1 <= e * 24 + 32
  BY <1>1
<1>3. ASSUME NEW u \in {to, to + 1} PROVE PstOffset(u) = o
  <2>1. u \in Int /\ Probe(e) <= u /\ u <= e * 24 + 32
    BY <1>2
  <2>2. ASSUME NEW y \in Years
        PROVE  /\ ~(Probe(e) < SpringDay(y) * 24 + 10 /\ SpringDay(y) * 24 + 10 <= u)
               /\ ~(Probe(e) < AutumnDay(y) * 24 + 9 /\ AutumnDay(y) * 24 + 9 <= u)
    <3>1. SpringDay(y) \in Int /\ AutumnDay(y) \in Int
      BY ChangesAreDates
    <3> QED BY <1>1, <2>1, <3>1
  <2> QED BY <1>2, <2>1, <2>2, OffsetStays
<1> HIDE DEF o
<1>4. to + PstOffset(to) = 24 * e + 23 /\ (to + 1) + PstOffset(to + 1) = 24 * (e + 1)
  BY <1>1, <1>3
<1>5. TodayPst(to) = e
  <2>1. 24 * e <= 24 * e + 23 /\ 24 * e + 23 < 24 * e + 24
    OBVIOUS
  <2> QED BY <1>2, <1>4, <2>1, TodayIs
<1>6. TodayPst(to + 1) = e + 1
  <2>1. e + 1 \in Int /\ 24 * (e + 1) <= 24 * (e + 1) /\ 24 * (e + 1) < 24 * (e + 1) + 24
    OBVIOUS
  <2> QED BY <1>2, <1>4, <2>1, TodayIs
<1> QED BY <1>5, <1>6 DEF to

\* So is its first hour, unless the clock changes on the date.
LEMMA StartsFit ==
    ASSUME NEW s \in Int, ~Changes(s)
    PROVE  TodayPst(ToPstIso(s)) = s /\ TodayPst(ToPstIso(s) - 1) = s - 1
<1> DEFINE from == ToPstIso(s)
           o    == PstOffset(Probe(s))
<1>1. o \in {-7, -8} /\ from = s * 24 - o /\ Probe(s) = s * 24 + 12
  BY OffsetIs DEF ToPstIso, Probe
<1> HIDE DEF from
<1>2. from \in Int /\ from - 1 \in Int /\ Probe(s) \in Int /\ from <= Probe(s) /\ from - 1 >= s * 24 + 6
  BY <1>1
<1>3. ASSUME NEW u \in {from, from - 1} PROVE PstOffset(u) = o
  <2>1. u \in Int /\ u <= Probe(s) /\ s * 24 + 6 <= u
    BY <1>2
  <2>2. ASSUME NEW y \in Years
        PROVE  /\ ~(u < SpringDay(y) * 24 + 10 /\ SpringDay(y) * 24 + 10 <= Probe(s))
               /\ ~(u < AutumnDay(y) * 24 + 9 /\ AutumnDay(y) * 24 + 9 <= Probe(s))
    <3>1. SpringDay(y) \in Int /\ AutumnDay(y) \in Int
      BY ChangesAreDates
    <3>2. SpringDay(y) # s /\ AutumnDay(y) # s
      BY DEF Changes
    <3> QED BY <1>1, <2>1, <3>1, <3>2
  <2> QED BY <1>2, <2>1, <2>2, OffsetStays
<1> HIDE DEF o
<1>4. from + PstOffset(from) = 24 * s /\ (from - 1) + PstOffset(from - 1) = 24 * (s - 1) + 23
  BY <1>1, <1>3
<1>5. TodayPst(from) = s
  <2>1. 24 * s <= 24 * s /\ 24 * s < 24 * s + 24
    OBVIOUS
  <2> QED BY <1>2, <1>4, <2>1, TodayIs
<1>6. TodayPst(from - 1) = s - 1
  <2>1. s - 1 \in Int /\ 24 * (s - 1) <= 24 * (s - 1) + 23 /\ 24 * (s - 1) + 23 < 24 * (s - 1) + 24
    OBVIOUS
  <2> QED BY <1>2, <1>4, <2>1, TodayIs
<1> QED BY <1>5, <1>6 DEF from

-----------------------------------------------------------------------------
(* The periods. *)

\* What the code's arithmetic on instants makes of today.
LEMMA Anchors ==
    ASSUME NEW t \in Int, NEW d, d = TodayPst(t)
    PROVE  /\ d \in Int /\ PtAnchor(t) = 24 * d + 12
           /\ \A k \in Int : TodayPst(AddDays(PtAnchor(t), k)) = d + k
           /\ \A k \in Int : TodayPst(AddDays(StartOfWeekPt(PtAnchor(t)), k)) = d - (d % 7) + k
           /\ TodayPst(StartOfWeekPt(PtAnchor(t))) = d - (d % 7)
<1>1. d \in Int /\ PtAnchor(t) = 24 * d + 12
  BY TodayIs DEF PtAnchor
<1>2. ASSUME NEW k \in Int PROVE TodayPst(AddDays(PtAnchor(t), k)) = d + k
  <2>1. AddDays(PtAnchor(t), k) = 24 * (d + k) + 12 /\ d + k \in Int
    BY <1>1 DEF AddDays
  <2> QED BY <2>1, TodayIs
<1>3. StartOfWeekPt(PtAnchor(t)) = 24 * (d - (d % 7)) + 12
  <2>1. WeekdayPst(24 * d + 12) = d % 7
    BY <1>1, TodayIs DEF WeekdayPst, Weekday
  <2>2. PICK w \in Int : w = d % 7
    BY <1>1
  <2>3. StartOfWeekPt(PtAnchor(t)) = 24 * d + 12 + 24 * (-w)
    BY <1>1, <2>1, <2>2 DEF StartOfWeekPt, AddDays
  <2>4. 24 * d + 12 + 24 * (-w) = 24 * (d - w) + 12
    BY <1>1
  <2> QED BY <1>1, <2>2, <2>3, <2>4
<1>4. d - (d % 7) \in Int
  BY <1>1
<1>5. ASSUME NEW k \in Int PROVE TodayPst(AddDays(StartOfWeekPt(PtAnchor(t)), k)) = d - (d % 7) + k
  <2>1. \A a \in Int : 24 * a + 12 + 24 * k = 24 * (a + k) + 12 /\ a + k \in Int
    OBVIOUS
  <2> QED BY <1>3, <1>4, <2>1, TodayIs DEF AddDays
<1>6. TodayPst(StartOfWeekPt(PtAnchor(t))) = d - (d % 7)
  BY <1>3, <1>4, TodayIs
<1> QED BY <1>1, <1>2, <1>5, <1>6

\* A range holds the dates of a period around today.
Holds(r, p, d) ==
    /\ r.startDate \in Int /\ r.endDate \in Int
    /\ \A n \in {r.startDate - 1, r.startDate, r.endDate, r.endDate + 1} :
         InPeriod(n, p, d) <=> n \in r.startDate .. r.endDate

\* The periods that count days back from today.
LEMMA DaysHold ==
    ASSUME NEW t \in Int, NEW p \in {"today", "yesterday", "last_7d", "last_30d", "last_90d"}
    PROVE  Holds(GetPstDateRange(p, t), p, TodayPst(t))
<1> DEFINE d == TodayPst(t)
<1>1. d \in Int /\ \A k \in Int : TodayPst(AddDays(PtAnchor(t), k)) = d + k
  BY Anchors
<1>2. /\ TodayPst(AddDays(PtAnchor(t), -1)) = d - 1 /\ TodayPst(AddDays(PtAnchor(t), -6)) = d - 6
      /\ TodayPst(AddDays(PtAnchor(t), -29)) = d - 29 /\ TodayPst(AddDays(PtAnchor(t), -89)) = d - 89
  <2>1. -1 \in Int /\ -6 \in Int /\ -29 \in Int /\ -89 \in Int
    OBVIOUS
  <2> QED BY <1>1, <2>1
<1>3. /\ GetPstDateRange("today", t) = [startDate |-> d, endDate |-> d]
      /\ GetPstDateRange("yesterday", t) = [startDate |-> d - 1, endDate |-> d - 1]
      /\ GetPstDateRange("last_7d", t) = [startDate |-> d - 6, endDate |-> d]
      /\ GetPstDateRange("last_30d", t) = [startDate |-> d - 29, endDate |-> d]
      /\ GetPstDateRange("last_90d", t) = [startDate |-> d - 89, endDate |-> d]
  BY <1>2 DEF GetPstDateRange, DateRange
<1>4. \A n : /\ InPeriod(n, "today", d) <=> n = d
             /\ InPeriod(n, "yesterday", d) <=> n = d - 1
             /\ InPeriod(n, "last_7d", d) <=> n <= d /\ n > d - 7
             /\ InPeriod(n, "last_30d", d) <=> n <= d /\ n > d - 30
             /\ InPeriod(n, "last_90d", d) <=> n <= d /\ n > d - 90
  BY DEF InPeriod
<1> HIDE DEF d
<1>5. CASE p = "today"
  BY <1>1, <1>3, <1>4, <1>5 DEF Holds, d
<1>6. CASE p = "yesterday"
  BY <1>1, <1>3, <1>4, <1>6 DEF Holds, d
<1>7. CASE p = "last_7d"
  BY <1>1, <1>3, <1>4, <1>7 DEF Holds, d
<1>8. CASE p = "last_30d"
  BY <1>1, <1>3, <1>4, <1>8 DEF Holds, d
<1>9. CASE p = "last_90d"
  BY <1>1, <1>3, <1>4, <1>9 DEF Holds, d
<1> QED BY <1>5, <1>6, <1>7, <1>8, <1>9

\* The Mondays around a date.
LEMMA Mondays ==
    ASSUME NEW d \in Int, NEW s, s = d - (d % 7)
    PROVE  /\ s \in Int /\ s <= d /\ d < s + 7
           /\ \A k \in Int : s - 7 < k /\ k < s + 7 => (Weekday(k) = 0 <=> k = s)
           /\ Weekday(s - 7) = 0
<1>1. PICK q \in Int : 7 * q <= d /\ d < 7 * q + 7
  <2>1. 7 * (d \div 7) <= d /\ d < 7 * (d \div 7) + 7 /\ d \div 7 \in Int
    OBVIOUS
  <2> QED BY <2>1
<1>2. s = 7 * q
  <2>1. PICK r \in 0 .. 6 : d = 7 * q + r
    <3>1. d - 7 * q \in 0 .. 6 /\ d = 7 * q + (d - 7 * q)
      BY <1>1
    <3> QED BY <3>1
  <2>2. d % 7 = r
    BY <2>1
  <2> QED BY <2>1, <2>2
<1>3. s \in Int /\ s <= d /\ d < s + 7
  BY <1>1, <1>2
<1>4. ASSUME NEW k \in Int, s - 7 < k, k < s + 7 PROVE k % 7 = 0 <=> k = s
  BY <1>2, <1>4
<1>5. (s - 7) % 7 = 0
  BY <1>2
<1> QED BY <1>3, <1>4, <1>5 DEF Weekday

LEMMA WeekToDateHolds ==
    ASSUME NEW t \in Int
    PROVE  Holds(GetPstDateRange("wtd", t), "wtd", TodayPst(t))
<1> DEFINE d == TodayPst(t)
           s == d - (d % 7)
<1>1. d \in Int /\ GetPstDateRange("wtd", t) = [startDate |-> s, endDate |-> d]
  BY Anchors DEF GetPstDateRange, DateRange
<1>2. \A n : InPeriod(n, "wtd", d) <=> n <= d /\ \A k \in n + 1 .. d : Weekday(k) # 0
  BY DEF InPeriod
<1> HIDE DEF d
<1>3. /\ s \in Int /\ s <= d /\ d < s + 7
      /\ \A k \in Int : s - 7 < k /\ k < s + 7 => (Weekday(k) = 0 <=> k = s)
  BY <1>1, Mondays
<1> HIDE DEF s
<1>4. ~InPeriod(s - 1, "wtd", d)
  <2>1. s \in (s - 1) + 1 .. d /\ Weekday(s) = 0
    BY <1>1, <1>3
  <2> QED BY <1>2, <2>1
<1>5. InPeriod(s, "wtd", d)
  <2>1. \A k \in s + 1 .. d : Weekday(k) # 0
    BY <1>1, <1>3
  <2> QED BY <1>2, <1>3, <2>1
<1>6. InPeriod(d, "wtd", d)
  <2>1. d + 1 .. d = {}
    BY <1>1
  <2> QED BY <1>1, <1>2, <2>1
<1>7. ~InPeriod(d + 1, "wtd", d)
  BY <1>1, <1>2
<1>8. s - 1 \notin s .. d /\ s \in s .. d /\ d \in s .. d /\ d + 1 \notin s .. d
  BY <1>1, <1>3
<1> QED BY <1>1, <1>3, <1>4, <1>5, <1>6, <1>7, <1>8 DEF Holds, d

LEMMA LastWeekHolds ==
    ASSUME NEW t \in Int
    PROVE  Holds(GetPstDateRange("last_week", t), "last_week", TodayPst(t))
<1> DEFINE d == TodayPst(t)
           s == d - (d % 7)
           M(n) == {k \in n + 1 .. d : Weekday(k) = 0}
<1>1. d \in Int /\ GetPstDateRange("last_week", t) = [startDate |-> s - 7, endDate |-> s - 1]
  <2>1. -7 \in Int /\ -1 \in Int
    OBVIOUS
  <2>2. /\ d \in Int /\ TodayPst(AddDays(StartOfWeekPt(PtAnchor(t)), -7)) = s + (-7)
        /\ TodayPst(AddDays(StartOfWeekPt(PtAnchor(t)), -1)) = s + (-1)
    BY <2>1, Anchors
  <2>3. GetPstDateRange("last_week", t) = [startDate |-> s + (-7), endDate |-> s + (-1)]
    BY <2>2 DEF GetPstDateRange, DateRange
  <2>4. s \in Int
    BY <2>2, Mondays
  <2> HIDE DEF s
  <2>5. s + (-7) = s - 7 /\ s + (-1) = s - 1
    BY <2>4
  <2> QED BY <2>2, <2>3, <2>5
<1>2. \A n : InPeriod(n, "last_week", d) <=> n < d /\ Cardinality(M(n)) = 1
  BY DEF InPeriod
<1> HIDE DEF d
<1>3. /\ s \in Int /\ s <= d /\ d < s + 7 /\ Weekday(s - 7) = 0
      /\ \A k \in Int : s - 7 < k /\ k < s + 7 => (Weekday(k) = 0 <=> k = s)
  BY <1>1, Mondays
<1> HIDE DEF s
<1>4. Cardinality({s}) = 1 /\ Cardinality({}) = 0
  BY FS_Singleton, FS_EmptySet
<1>5. M(s - 7) = {s} /\ M(s - 1) = {s} /\ M(s) = {}
  BY <1>1, <1>3
<1>6. Cardinality(M(s - 8)) # 1
  <2>1. s - 7 \in M(s - 8) /\ s \in M(s - 8) /\ s - 7 # s
    BY <1>1, <1>3
  <2>2. IsFiniteSet(M(s - 8))
    <3>1. IsFiniteSet((s - 8) + 1 .. d)
      BY <1>1, <1>3, FS_Interval
    <3> QED BY <3>1, FS_Subset
  <2> HIDE DEF M
  <2> SUFFICES ASSUME Cardinality(M(s - 8)) = 1 PROVE FALSE
    OBVIOUS
  <2>3. PICK x : M(s - 8) = {x}
    BY <2>2, FS_Singleton
  <2> QED BY <2>1, <2>3
<1>7. /\ InPeriod(s - 7, "last_week", d) /\ InPeriod(s - 1, "last_week", d)
      /\ ~InPeriod(s, "last_week", d) /\ ~InPeriod(s - 8, "last_week", d)
  <2>1. s - 7 < d /\ s - 1 < d
    BY <1>1, <1>3
  <2> HIDE DEF M
  <2> QED BY <1>2, <1>4, <1>5, <1>6, <2>1
<1>8. /\ (s - 7) - 1 = s - 8 /\ (s - 1) + 1 = s
      /\ s - 8 \notin s - 7 .. s - 1 /\ s - 7 \in s - 7 .. s - 1 /\ s - 1 \in s - 7 .. s - 1 /\ s \notin s - 7 .. s - 1
      /\ s - 7 \in Int /\ s - 1 \in Int
  BY <1>3
<1> QED BY <1>1, <1>7, <1>8 DEF Holds, d

-----------------------------------------------------------------------------
(* Months and years. *)

LEMMA TodaysYear ==
    ASSUME NEW t \in Instants
    PROVE  /\ t \in Int /\ TodayPst(t) \in Int
           /\ \E y \in Years : y - 1 \in Years /\ InYear(TodayPst(t), y)
BY DatesAssumption, TodayIs DEF InYear

LEMMA YearToDateHolds ==
    ASSUME NEW t \in Instants
    PROVE  Holds(GetPstDateRange("ytd", t), "ytd", TodayPst(t))
<1> DEFINE d == TodayPst(t)
<1>1. PICK y \in Years : y - 1 \in Years /\ InYear(d, y)
  BY TodaysYear
<1>2. d \in Int /\ t \in Int /\ y \in Century /\ y - 1 \in Century /\ y \in Int
  <2>1. y \in Century /\ y - 1 \in Century /\ y \in Int
    BY <1>1, DatesAssumption DEF Century
  <2> QED BY <2>1, TodaysYear
<1>3. YearOf(d) = y
  BY <1>1, <1>2, YearIs
<1> DEFINE s == YearStart(y)
<1>4. s \in Int /\ YearStart(y - 1) < s /\ YearStart((y - 1) + 1) = s
  <2>1. YearStart((y - 1) + 1) = s
    BY <1>2
  <2>2. FirstOf(y - 1, 1) < FirstOf(y - 1, 2)
    BY <1>2, MonthsInOrder
  <2>3. YearStart(y - 1) \in Int /\ YearStart((y - 1) + 1) = YearStart(y - 1) + DaysBefore(y - 1, 12)
    BY <1>2, YearLength
  <2>4. DaysBefore(y - 1, 12) \in 365 .. 366
    BY DEF DaysBefore
  <2>5. s \in Int
    BY <1>2, YearLength
  <2> QED BY <2>1, <2>3, <2>4, <2>5
<1>5. GetPstDateRange("ytd", t) = [startDate |-> s, endDate |-> d]
  <2>1. DateOf(y, 1, 1) = s
    <3>1. 1 \in 1 .. 13
      OBVIOUS
    <3> QED BY <1>2, <3>1, MonthsInOrder
  <2> QED BY <1>3, <2>1 DEF GetPstDateRange, DateRange
<1>6. \A n : InPeriod(n, "ytd", d) <=> n <= d /\ YearOf(n) = y
  BY <1>3 DEF InPeriod
<1> HIDE DEF d, s
<1>7. s <= d /\ d < YearStart(y + 1)
  BY <1>1 DEF InYear, s
<1>8. YearOf(s) = y
  BY <1>1, <1>2, <1>4, <1>7, YearIs DEF InYear, s, YearStart
<1>9. YearOf(s - 1) = y - 1
  <2>1. s - 1 \in Int /\ YearStart(y - 1) <= s - 1 /\ s - 1 < YearStart((y - 1) + 1)
    <3>1. YearStart(y - 1) \in Int
      BY <1>2, YearLength
    <3> QED BY <1>4, <3>1
  <2> QED BY <1>1, <2>1, YearIs DEF InYear
<1>10. ~InPeriod(s - 1, "ytd", d) /\ InPeriod(s, "ytd", d) /\ InPeriod(d, "ytd", d) /\ ~InPeriod(d + 1, "ytd", d)
  <2>1. y - 1 # y /\ d <= d /\ ~(d + 1 <= d)
    BY <1>2
  <2> QED BY <1>3, <1>6, <1>7, <1>8, <1>9, <2>1 DEF d
<1>11. s - 1 \notin s .. d /\ s \in s .. d /\ d \in s .. d /\ d + 1 \notin s .. d
  BY <1>2, <1>4, <1>7
<1> QED BY <1>2, <1>4, <1>5, <1>10, <1>11 DEF Holds, d

LEMMA TodaysMonth ==
    ASSUME NEW t \in Instants
    PROVE  /\ t \in Int /\ TodayPst(t) \in Int
           /\ \E y \in Years : \E m \in 1 .. 12 : y - 1 \in Years /\ InMonth(TodayPst(t), y, m)
<1>1. PICK y \in Years : y - 1 \in Years /\ InYear(TodayPst(t), y)
  BY TodaysYear
<1>2. t \in Int /\ TodayPst(t) \in Int
  BY TodaysYear
<1>3. \E m \in 1 .. 12 : InMonth(TodayPst(t), y, m)
  BY <1>1, <1>2, HasMonth
<1> QED BY <1>1, <1>2, <1>3

\* The first and the last date of a month and the one before it.
LEMMA MonthEdges ==
    ASSUME NEW y \in Years, NEW m \in 1 .. 12, m = 1 => y - 1 \in Years
    PROVE  /\ FirstOf(y, m) \in Int /\ FirstOf(y, m + 1) \in Int
           /\ FirstOf(y, m) <= FirstOf(y, m + 1) - 1
           /\ InMonth(FirstOf(y, m), y, m) /\ InMonth(FirstOf(y, m + 1) - 1, y, m)
           /\ ~(YearOf(FirstOf(y, m) - 1) = y /\ MonthOf(FirstOf(y, m) - 1) = m)
<1>1. y \in Century /\ y \in Int
  BY DatesAssumption DEF Century
<1>2. m \in 1 .. 13 /\ m + 1 \in 1 .. 13
  OBVIOUS
<1>3. FirstOf(y, m) \in Int /\ FirstOf(y, m + 1) \in Int /\ FirstOf(y, m) < FirstOf(y, m + 1)
  BY <1>1, <1>2, MonthsInOrder
<1>4. FirstOf(y, m) <= FirstOf(y, m + 1) - 1 /\ FirstOf(y, m) - 1 \in Int
  BY <1>3
<1>5. InMonth(FirstOf(y, m), y, m) /\ InMonth(FirstOf(y, m + 1) - 1, y, m)
  BY <1>3 DEF InMonth
<1>6. PICK z, k : z = (IF m = 1 THEN y - 1 ELSE y) /\ k = (IF m = 1 THEN 12 ELSE m - 1)
  OBVIOUS
<1>7. /\ z \in Years /\ k \in 1 .. 12 /\ FirstOf(z, k) \in Int
      /\ FirstOf(z, k + 1) = FirstOf(y, m) /\ FirstOf(z, k) < FirstOf(y, m)
  BY <1>6, MonthBefore
<1>8. InMonth(FirstOf(y, m) - 1, z, k)
  BY <1>3, <1>7 DEF InMonth
<1>9. YearOf(FirstOf(y, m) - 1) = z /\ MonthOf(FirstOf(y, m) - 1) = k
  BY <1>4, <1>7, <1>8, MonthIs
<1>10. k # m
  BY <1>6
<1> QED BY <1>3, <1>4, <1>5, <1>9, <1>10

LEMMA MonthToDateHolds ==
    ASSUME NEW t \in Instants
    PROVE  Holds(GetPstDateRange("mtd", t), "mtd", TodayPst(t))
<1> DEFINE d == TodayPst(t)
<1>1. PICK y \in Years, m \in 1 .. 12 : y - 1 \in Years /\ InMonth(d, y, m)
  BY TodaysMonth
<1>2. d \in Int /\ t \in Int
  BY TodaysMonth
<1>3. YearOf(d) = y /\ MonthOf(d) = m
  BY <1>1, <1>2, MonthIs
<1> DEFINE s == FirstOf(y, m)
<1>4. DateOf(y, m, 1) = s
  <2>1. y \in Century /\ m \in 1 .. 13
    BY DatesAssumption DEF Century
  <2> QED BY <2>1, MonthsInOrder
<1>5. GetPstDateRange("mtd", t) = [startDate |-> s, endDate |-> d]
  BY <1>3, <1>4 DEF GetPstDateRange, DateRange
<1>6. \A n : InPeriod(n, "mtd", d) <=> n <= d /\ YearOf(n) = y /\ MonthOf(n) = m
  BY <1>3 DEF InPeriod, SameMonth
<1>7. /\ s \in Int /\ s <= d /\ YearOf(s) = y /\ MonthOf(s) = m
      /\ ~(YearOf(s - 1) = y /\ MonthOf(s - 1) = m)
  <2>1. s \in Int /\ InMonth(s, y, m) /\ ~(YearOf(s - 1) = y /\ MonthOf(s - 1) = m)
    BY <1>1, MonthEdges
  <2>2. s <= d
    BY <1>1 DEF InMonth
  <2> QED BY <2>1, <2>2, MonthIs
<1> HIDE DEF d, s
<1>8. ~InPeriod(s - 1, "mtd", d) /\ InPeriod(s, "mtd", d) /\ InPeriod(d, "mtd", d) /\ ~InPeriod(d + 1, "mtd", d)
  <2>1. d <= d /\ ~(d + 1 <= d)
    BY <1>2
  <2> QED BY <1>3, <1>6, <1>7, <2>1
<1>9. s - 1 \notin s .. d /\ s \in s .. d /\ d \in s .. d /\ d + 1 \notin s .. d
  BY <1>2, <1>7
<1> QED BY <1>2, <1>5, <1>7, <1>8, <1>9 DEF Holds, d

LEMMA LastMonthHolds ==
    ASSUME NEW t \in Instants
    PROVE  Holds(GetPstDateRange("last_month", t), "last_month", TodayPst(t))
<1> DEFINE d == TodayPst(t)
<1>1. PICK y \in Years, m \in 1 .. 12 : y - 1 \in Years /\ InMonth(d, y, m)
  BY TodaysMonth
<1>2. d \in Int /\ t \in Int /\ y \in Int
  <2>1. y \in Int
    BY DatesAssumption
  <2> QED BY <2>1, TodaysMonth
<1>3. YearOf(d) = y /\ MonthOf(d) = m
  BY <1>1, <1>2, MonthIs
<1>4. PICK z, k : z = (IF m = 1 THEN y - 1 ELSE y) /\ k = (IF m = 1 THEN 12 ELSE m - 1)
  OBVIOUS
<1> DEFINE f == FirstOf(z, k)
           g == FirstOf(y, m)
           e == g - 1
<1>5. z \in Years /\ k \in 1 .. 12 /\ f \in Int /\ FirstOf(z, k + 1) = g /\ f < g
  BY <1>1, <1>4, MonthBefore
<1>6. z \in Int /\ z \in Century /\ y \in Century /\ (k = 1 => z - 1 \in Years)
  <2>1. z \in Int /\ z \in Century /\ y \in Century
    BY <1>5, DatesAssumption DEF Century
  <2>2. k = 1 => z = y
    BY <1>4
  <2> QED BY <1>1, <2>1, <2>2
<1>7. g \in Int /\ InMonth(g, y, m) /\ DateOf(y, m, 1) = g
  <2>1. m \in 1 .. 13
    OBVIOUS
  <2> QED BY <1>1, <1>6, <2>1, MonthEdges, MonthsInOrder
<1>8. \A n \in Int : DateOf(z, k, n) = f + n - 1
  <2>1. YearStart(z) \in Int /\ DaysBefore(z, k - 1) \in Nat
    BY <1>5, <1>6, YearLength, MonthAdds
  <2>2. \A n \in Int : DateOf(z, k, n) = YearStart(z) + DaysBefore(z, k - 1) + n - 1
    BY <1>5, <1>6, DateIs
  <2> QED BY <2>1, <2>2 DEF FirstOf
<1>9. DateOf(z, k + 1, 0) = e
  <2>1. CASE k = 12
    <3>1. k + 1 = 13 /\ 0 \in Int
      BY <2>1
    <3>2. DateOf(z, 13, 0) = YearStart(z + 1) + 0 - 1 /\ FirstOf(z, 13) = YearStart(z + 1)
      BY <1>6, <3>1, DateIs, MonthsInOrder
    <3>3. FirstOf(z, 13) = g
      BY <1>5, <3>1
    <3> QED BY <1>7, <3>1, <3>2, <3>3
  <2>2. CASE k # 12
    <3>1. k + 1 \in 1 .. 12 /\ 0 \in Int
      BY <1>5, <2>2
    <3>2. DateOf(z, k + 1, 0) = YearStart(z) + DaysBefore(z, (k + 1) - 1) + 0 - 1
      BY <1>6, <3>1, DateIs
    <3>3. g = YearStart(z) + DaysBefore(z, (k + 1) - 1)
      BY <1>5 DEF FirstOf
    <3> HIDE DEF g
    <3> QED BY <1>7, <3>2, <3>3
  <2> QED BY <2>1, <2>2
<1>10. /\ InMonth(f, z, k) /\ InMonth(e, z, k)
       /\ ~(YearOf(f - 1) = z /\ MonthOf(f - 1) = k)
  BY <1>5, <1>6, MonthEdges
<1> HIDE DEF f, g
<1>11. e \in Int /\ f <= e /\ e < d /\ e + 1 = g /\ g <= d
  <2>1. g <= d
    BY <1>1 DEF InMonth, g
  <2> QED BY <1>2, <1>5, <1>7, <2>1
<1>12. /\ YearOf(f) = z /\ MonthOf(f) = k /\ YearOf(e) = z /\ MonthOf(e) = k
       /\ YearOf(g) = y /\ MonthOf(g) = m
  BY <1>5, <1>7, <1>10, <1>11, MonthIs
<1> HIDE DEF e
<1>13. GetPstDateRange("last_month", t) = [startDate |-> f, endDate |-> e]
  <2>1. DayOf(e) = e - f + 1
    <3>1. DateOf(z, k, 1) = f + 1 - 1
      BY <1>8
    <3> QED BY <1>5, <1>12, <3>1 DEF DayOf
  <2>2. DateOf(z, k, DayOf(e)) = e /\ DateOf(z, k, 1) = f
    BY <1>5, <1>8, <1>11, <2>1
  <2>3. LastMonth(y, m) = [startDate |-> DateOf(z, k, 1), endDate |-> DateOf(z, k, DayOf(DateOf(z, k + 1, 0)))]
    BY <1>4 DEF LastMonth, DateRange
  <2>4. GetPstDateRange("last_month", t) = LastMonth(y, m)
    BY <1>3 DEF GetPstDateRange, d
  <2> QED BY <1>9, <2>2, <2>3, <2>4
<1>14. \A n : InPeriod(n, "last_month", d) <=> n < d /\ YearOf(n) = z /\ MonthOf(n) = k
  <2>1. DayOf(d) = d - g + 1
    BY <1>3, <1>7 DEF DayOf
  <2>2. d - DayOf(d) = e
    BY <1>2, <1>7, <2>1 DEF e
  <2> QED BY <1>12, <2>2 DEF InPeriod, SameMonth
<1> HIDE DEF d
<1>15. /\ ~InPeriod(f - 1, "last_month", d) /\ InPeriod(f, "last_month", d)
       /\ InPeriod(e, "last_month", d) /\ ~InPeriod(e + 1, "last_month", d)
  <2>1. f < d /\ e < d
    BY <1>2, <1>5, <1>11
  <2>2. k # m
    BY <1>4
  <2> QED BY <1>10, <1>11, <1>12, <1>14, <2>1, <2>2
<1>16. f - 1 \notin f .. e /\ f \in f .. e /\ e \in f .. e /\ e + 1 \notin f .. e
  BY <1>5, <1>11
<1> QED BY <1>5, <1>11, <1>13, <1>15, <1>16 DEF Holds, d

-----------------------------------------------------------------------------
(* What was answered last is the range of each period at this instant.     *)

DatesInv ==
    /\ now \in Instants /\ DOMAIN answers \subseteq Periods
    /\ \A p \in DOMAIN answers : answers[p] = GetPstDateRange(p, now)

LEMMA DatesStart == DatesInit => DatesInv
BY DEF DatesInit, DatesInv

LEMMA DatesSteps == DatesInv /\ [DatesNext]_dateVars => DatesInv'
<1> SUFFICES ASSUME DatesInv, [DatesNext]_dateVars PROVE DatesInv'
  OBVIOUS
<1>1. CASE AskRanges
  <2>1. PICK u : u = now' /\ u \in Instants
    BY <1>1 DEF AskRanges
  <2>2. answers' = [p \in Periods |-> GetPstDateRange(p, u)]
    BY <1>1, <2>1 DEF AskRanges
  <2>3. \A p : GetPstDateRange(p, now)' = GetPstDateRange(p, u)
    BY <2>1
  <2> QED BY <2>1, <2>2, <2>3 DEF DatesInv
<1>2. CASE UNCHANGED dateVars
  BY <1>2 DEF DatesInv, dateVars
<1> QED BY <1>1, <1>2 DEF DatesNext

LEMMA RangesHold ==
    ASSUME NEW t \in Instants, NEW p \in Periods
    PROVE  Holds(GetPstDateRange(p, t), p, TodayPst(t))
<1>1. t \in Int
  BY TodaysYear
<1>2. \/ p \in {"today", "yesterday", "last_7d", "last_30d", "last_90d"}
      \/ p = "wtd" \/ p = "last_week" \/ p = "mtd" \/ p = "ytd" \/ p = "last_month"
  BY DEF Periods
<1> QED BY <1>1, <1>2, DaysHold, WeekToDateHolds, LastWeekHolds, MonthToDateHolds, YearToDateHolds, LastMonthHolds

LEMMA DatesHold == DatesInv => PeriodsHoldTheirDates
<1> SUFFICES ASSUME DatesInv, NEW p \in DOMAIN answers, NEW r, r = answers[p]
             PROVE  /\ \A n \in {r.startDate - 1, r.startDate, r.endDate, r.endDate + 1} :
                         InPeriod(n, p, TodayPst(now)) <=> n \in r.startDate .. r.endDate
                    /\ TodayPst(ToPstIsoEnd(r.endDate)) = r.endDate
                    /\ TodayPst(ToPstIsoEnd(r.endDate) + 1) = r.endDate + 1
                    /\ ~Changes(r.startDate) => /\ TodayPst(ToPstIso(r.startDate)) = r.startDate
                                                /\ TodayPst(ToPstIso(r.startDate) - 1) = r.startDate - 1
  BY DEF PeriodsHoldTheirDates
<1>1. Holds(r, p, TodayPst(now))
  <2>1. now \in Instants /\ p \in Periods /\ r = GetPstDateRange(p, now)
    BY DEF DatesInv
  <2> QED BY <2>1, RangesHold
<1>2. r.startDate \in Int /\ r.endDate \in Int
  BY <1>1 DEF Holds
<1>3. TodayPst(ToPstIsoEnd(r.endDate)) = r.endDate /\ TodayPst(ToPstIsoEnd(r.endDate) + 1) = r.endDate + 1
  BY <1>2, EndsFit
<1>4. ~Changes(r.startDate) => /\ TodayPst(ToPstIso(r.startDate)) = r.startDate
                               /\ TodayPst(ToPstIso(r.startDate) - 1) = r.startDate - 1
  BY <1>2, StartsFit
<1> QED BY <1>1, <1>3, <1>4 DEF Holds

(* Whenever it is asked for, in any year of the century, the range of a    *)
(* period holds its dates and no other, and its first and last instants    *)
(* are those of its dates unless it begins on the day of a change of the   *)
(* clock (src/core/date-time.ts, getPstDateRange, toPstIso, toPstIsoEnd).  *)
THEOREM RangesAreRight == DatesSpec => []PeriodsHoldTheirDates
BY DatesStart, DatesSteps, DatesHold, PTL DEF DatesSpec
=============================================================================
