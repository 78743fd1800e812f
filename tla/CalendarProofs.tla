--------------------------- MODULE CalendarProofs ---------------------------
(***************************************************************************)
(* Theorems about Locations, and the functions of Closures, for weeks and  *)
(* calendars of any length; about LoanDates, for any loans, calendars and  *)
(* number of days; and what joins the two: a calendar of LoanDates, the    *)
(* set of dates a location is open on, gives loans the dates that          *)
(* find_next_open_date gives them.                                         *)
(*                                                                         *)
(* What the two functions that are loops compute is proved by induction,   *)
(* in the form that a set of natural numbers has a least one: of the dates *)
(* for which a claim fails, there would be a first.                        *)
(***************************************************************************)
EXTENDS Locations, LoanDates, WellFoundedInduction, TLAPS

-----------------------------------------------------------------------------
(* Numbers.                                                                *)

LEMMA Least ==
    ASSUME NEW S \in SUBSET Nat, S # {}
    PROVE  \E n \in S : \A m \in S : n <= m
  <1>. DEFINE R == {ss \in Nat \X Nat : ss[1] < ss[2]}
  <1>1. IsWellFoundedOn(R, Nat)
    BY NatLessThanWellFounded DEF OpToRel
  <1>. HIDE DEF R
  <1>2. PICK n \in S : \A m \in S : ~ (<<m, n>> \in R)
    BY <1>1, WFMin
  <1>3. \A m \in S : m \in Nat /\ n \in Nat
    OBVIOUS
  <1>4. \A m \in S : ~ (m < n)
    BY <1>2, <1>3 DEF R
  <1>. QED BY <1>3, <1>4

\* A set of integers with a bound has a minimum, or a maximum.
LEMMA MinType ==
    ASSUME NEW S \in SUBSET Int, S # {}, NEW b \in Int, \A x \in S : b <= x
    PROVE  Min(S) \in S /\ \A x \in S : Min(S) <= x
  <1>. DEFINE T == {x - b : x \in S}
  <1>1. T \in SUBSET Nat /\ T # {}
    <2>1. \A x \in S : x - b \in Nat
      OBVIOUS
    <2>. QED BY <2>1
  <1>2. PICK n \in T : \A m \in T : n <= m
    BY <1>1, Least
  <1>3. PICK y \in S : n = y - b
    BY <1>2
  <1>4. \A x \in S : x - b \in T
    OBVIOUS
  <1>. HIDE DEF T
  <1>5. \A x \in S : y <= x
    BY <1>2, <1>3, <1>4
  <1>. QED BY <1>5 DEF Min

LEMMA MaxType ==
    ASSUME NEW S \in SUBSET Int, S # {}, NEW b \in Int, \A x \in S : x <= b
    PROVE  Max(S) \in S /\ \A x \in S : Max(S) >= x
  <1>. DEFINE T == {b - x : x \in S}
  <1>1. T \in SUBSET Nat /\ T # {}
    <2>1. \A x \in S : b - x \in Nat
      OBVIOUS
    <2>. QED BY <2>1
  <1>2. PICK n \in T : \A m \in T : n <= m
    BY <1>1, Least
  <1>3. PICK y \in S : n = b - y
    BY <1>2
  <1>4. \A x \in S : b - x \in T
    OBVIOUS
  <1>. HIDE DEF T
  <1>5. \A x \in S : y >= x
    BY <1>2, <1>3, <1>4
  <1>. QED BY <1>5 DEF Max

LEMMA WeekdayType == \A date \in Int : Weekday(date) \in 0 .. Week - 1
  BY WeekAssumption DEF Weekday

-----------------------------------------------------------------------------
(* Calendars.                                                              *)

Calendar ==
    [opening_weekdays: Seq(OpeningWeekday),
     opening_exceptions: Seq(OpeningException)]

\* each exception ends before those after it start
InTurn(exceptions) ==
    /\ \A n \in DOMAIN exceptions :
           exceptions[n].start_date <= exceptions[n].end_date
    /\ \A m, n \in DOMAIN exceptions :
           m < n => exceptions[m].end_date < exceptions[n].start_date

LEMMA ExceptionsType ==
    ASSUME NEW e \in Seq(OpeningException)
    PROVE  /\ DOMAIN e = 1 .. Len(e) /\ Len(e) \in Nat
           /\ \A n \in DOMAIN e :
                  /\ e[n] \in OpeningException
                  /\ e[n].start_date \in Nat /\ e[n].end_date \in Nat
                  /\ e[n].is_open \in BOOLEAN
  <1>1. \A n \in DOMAIN e : e[n] \in OpeningException
    OBVIOUS
  <1>. QED BY <1>1 DEF OpeningException

\* Comparing neighbours is enough.
LEMMA NeighboursSuffice ==
    ASSUME NEW e \in Seq(OpeningException), ExceptionsAccepted(e)
    PROVE  InTurn(e)
  <1>1. \A n \in DOMAIN e : e[n].start_date \in Nat /\ e[n].end_date \in Nat
    BY ExceptionsType
  <1>2. DOMAIN e = 1 .. Len(e) /\ Len(e) \in Nat
    OBVIOUS
  <1>3. /\ \A n \in DOMAIN e : e[n].start_date <= e[n].end_date
        /\ \A n \in 1 .. Len(e) - 1 : e[n].end_date < e[n + 1].start_date
    BY DEF ExceptionsAccepted
  <1>4. ASSUME NEW m \in DOMAIN e
        PROVE  \A n \in DOMAIN e : m < n => e[m].end_date < e[n].start_date
    <2>. DEFINE Wrong == {n \in DOMAIN e : m < n /\ ~(e[m].end_date < e[n].start_date)}
    <2>. SUFFICES ASSUME Wrong # {} PROVE FALSE
      OBVIOUS
    <2>1. Wrong \in SUBSET Nat
      BY <1>2
    <2>2. PICK n \in Wrong : \A k \in Wrong : n <= k
      BY <2>1, Least
    <2>3. n \in DOMAIN e /\ m < n /\ ~(e[m].end_date < e[n].start_date)
      BY <2>2
    <2>4. n - 1 \notin Wrong
      BY <1>2, <2>2, <2>3
    <2>5. CASE n = m + 1
      BY <1>2, <1>3, <2>3, <2>5
    <2>6. CASE n # m + 1
      <3>1. n - 1 \in DOMAIN e /\ m < n - 1
        BY <1>2, <2>3, <2>6
      <3>2. e[m].end_date < e[n - 1].start_date
        BY <2>4, <3>1
      <3>3. e[n - 1].end_date < e[n].start_date
        BY <1>2, <1>3, <2>3, <3>1
      <3>. QED BY <1>1, <1>3, <2>3, <3>1, <3>2, <3>3
    <2>. QED BY <2>5, <2>6
  <1>. QED BY <1>3, <1>4 DEF InTurn

LEMMA ApartIsAccepted ==
    ASSUME NEW e \in Seq(OpeningException), InTurn(e)
    PROVE  ExceptionsAccepted(e)
  BY DEF InTurn, ExceptionsAccepted

\* No two exceptions cover the same date.
LEMMA OneCovers ==
    ASSUME NEW l \in Calendar, InTurn(l.opening_exceptions), NEW d \in Int
    PROVE  /\ \A m, n \in Covering(l, d) : m = n
           /\ Covering(l, d) # {} =>
                \E n \in DOMAIN l.opening_exceptions :
                    /\ Covering(l, d) = {n}
                    /\ Min(Covering(l, d)) = n /\ Max(Covering(l, d)) = n
  <1>. DEFINE e == l.opening_exceptions
              S == Covering(l, d)
  <1>1. /\ e \in Seq(OpeningException)
        /\ DOMAIN e = 1 .. Len(e) /\ Len(e) \in Nat
        /\ \A n \in DOMAIN e : e[n].start_date \in Nat /\ e[n].end_date \in Nat
    BY ExceptionsType DEF Calendar
  <1>2. S = {n \in DOMAIN e : e[n].start_date <= d /\ d <= e[n].end_date}
    BY DEF Covering, IsInInterval
  <1>. HIDE DEF e, S
  <1>3. \A m, n \in S : m = n
    <2>. SUFFICES ASSUME NEW m \in S, NEW n \in S, m < n PROVE FALSE
      BY <1>1, <1>2
    <2>. QED BY <1>1, <1>2 DEF InTurn, e
  <1>4. ASSUME S # {} PROVE \E n \in DOMAIN e : S = {n} /\ Min(S) = n /\ Max(S) = n
    <2>1. PICK n \in DOMAIN e : S = {n} /\ n \in Int
      BY <1>1, <1>2, <1>3, <1>4
    <2>2. Min({n}) = n /\ Max({n}) = n
      BY <2>1 DEF Min, Max
    <2>. QED BY <2>1, <2>2
  <1>. QED BY <1>3, <1>4 DEF e, S

-----------------------------------------------------------------------------
(* The task that drops past exceptions.                                    *)

KeptFrom(e, day, kept, n) ==
    IF n = 0 THEN <<>>
    ELSE IF e[n].end_date >= day THEN Append(kept[n - 1], e[n])
    ELSE kept[n - 1]

\* The loop, as far as any exception.
LEMMA KeptExists ==
    ASSUME NEW e, NEW day, NEW length \in Nat
    PROVE  \E kept : kept = [n \in 0 .. length |-> KeptFrom(e, day, kept, n)]
  <1>. DEFINE Has(k) == \E kept : kept = [n \in 0 .. k |-> KeptFrom(e, day, kept, n)]
              Wrong == {k \in Nat : ~Has(k)}
  <1>. SUFFICES ASSUME Wrong # {} PROVE FALSE
    OBVIOUS
  <1>1. PICK k \in Wrong : \A j \in Wrong : k <= j
    BY Least
  <1>2. k # 0
    <2>. DEFINE kept == [n \in 0 .. 0 |-> <<>>]
    <2>1. kept = [n \in 0 .. 0 |-> KeptFrom(e, day, kept, n)]
      BY DEF KeptFrom
    <2>. HIDE DEF kept
    <2>. QED BY <2>1
  <1>3. PICK kept : kept = [n \in 0 .. k - 1 |-> KeptFrom(e, day, kept, n)]
    <2>1. k - 1 \in Nat /\ k - 1 \notin Wrong
      BY <1>1, <1>2
    <2>. QED BY <2>1
  <1>. DEFINE more == [n \in 0 .. k |->
                          IF n = k THEN KeptFrom(e, day, kept, k) ELSE kept[n]]
  <1>4. more = [n \in 0 .. k |-> KeptFrom(e, day, more, n)]
    <2>1. k \in Nat /\ k # 0
      BY <1>2
    <2>2. \A n \in 0 .. k - 1 : kept[n] = KeptFrom(e, day, kept, n)
      BY <1>3
    <2>3. \A n \in 0 .. k - 1 : more[n] = kept[n]
      BY <2>1
    <2>4. \A n \in 0 .. k : n # 0 => n - 1 \in 0 .. k - 1
      BY <2>1
    <2>5. \A n \in 0 .. k : KeptFrom(e, day, more, n) = KeptFrom(e, day, kept, n)
      BY <2>3, <2>4 DEF KeptFrom
    <2>6. \A n \in 0 .. k : more[n] = KeptFrom(e, day, kept, n)
      BY <2>1, <2>2
    <2>7. more = [n \in 0 .. k |-> more[n]]
      OBVIOUS
    <2>. HIDE DEF more
    <2>. QED BY <2>5, <2>6, <2>7
  <1>. HIDE DEF more
  <1>. QED BY <1>4

LEMMA KeptDef ==
    ASSUME NEW e \in Seq(OpeningException), NEW day
    PROVE  \E kept : /\ kept = [n \in 0 .. Len(e) |-> KeptFrom(e, day, kept, n)]
                     /\ Kept(e, day) = kept[Len(e)]
  <1>. DEFINE kept[n \in 0 .. Len(e)] ==
                  IF n = 0 THEN <<>>
                  ELSE IF e[n].end_date >= day THEN Append(kept[n - 1], e[n])
                  ELSE kept[n - 1]
  <1>1. \E f : f = [n \in 0 .. Len(e) |-> KeptFrom(e, day, f, n)]
    <2>1. Len(e) \in Nat
      OBVIOUS
    <2>. QED BY <2>1, KeptExists
  <1>2. kept = [n \in 0 .. Len(e) |-> KeptFrom(e, day, kept, n)]
    BY <1>1 DEF KeptFrom
  <1>3. Kept(e, day) = kept[Len(e)]
    BY DEF Kept
  <1>. HIDE DEF kept
  <1>. QED BY <1>2, <1>3

\* k holds those of the first n exceptions that do not end before the day, in
\* their order
HoldsKept(e, day, n, k) ==
    /\ k \in Seq(OpeningException)
    /\ \A i \in DOMAIN k :
           \E j \in 1 .. n : k[i] = e[j] /\ e[j].end_date >= day
    /\ \A j \in 1 .. n :
           e[j].end_date >= day => \E i \in DOMAIN k : k[i] = e[j]
    /\ InTurn(k)

LEMMA KeepsOne ==
    ASSUME NEW e \in Seq(OpeningException), InTurn(e), NEW day \in Int,
           NEW n \in DOMAIN e, NEW k, HoldsKept(e, day, n - 1, k),
           e[n].end_date >= day
    PROVE  HoldsKept(e, day, n, Append(k, e[n]))
  <1>. DEFINE more == Append(k, e[n])
  <1>1. /\ DOMAIN e = 1 .. Len(e) /\ Len(e) \in Nat
        /\ \A j \in DOMAIN e :
               /\ e[j] \in OpeningException
               /\ e[j].start_date \in Nat /\ e[j].end_date \in Nat
    BY ExceptionsType
  <1>2. /\ k \in Seq(OpeningException)
        /\ \A i \in DOMAIN k :
               \E j \in 1 .. n - 1 : k[i] = e[j] /\ e[j].end_date >= day
        /\ \A j \in 1 .. n - 1 :
               e[j].end_date >= day => \E i \in DOMAIN k : k[i] = e[j]
        /\ InTurn(k)
    BY DEF HoldsKept
  <1>3. /\ more \in Seq(OpeningException)
        /\ DOMAIN more = 1 .. Len(k) + 1 /\ Len(k) \in Nat
        /\ DOMAIN k = 1 .. Len(k)
        /\ more[Len(k) + 1] = e[n]
        /\ \A i \in DOMAIN k : more[i] = k[i]
    BY <1>1, <1>2
  <1>. HIDE DEF more
  <1>4. \A i \in DOMAIN more :
            \E j \in 1 .. n : more[i] = e[j] /\ e[j].end_date >= day
    <2>. SUFFICES ASSUME NEW i \in DOMAIN more
                  PROVE  \E j \in 1 .. n : more[i] = e[j] /\ e[j].end_date >= day
      OBVIOUS
    <2>1. CASE i = Len(k) + 1
      BY <1>1, <1>3, <2>1
    <2>2. CASE i # Len(k) + 1
      <3>1. i \in DOMAIN k
        BY <1>3, <2>2
      <3>2. PICK j \in 1 .. n - 1 : k[i] = e[j] /\ e[j].end_date >= day
        BY <1>2, <3>1
      <3>3. j \in 1 .. n
        BY <1>1
      <3>. QED BY <1>3, <3>1, <3>2, <3>3
    <2>. QED BY <2>1, <2>2
  <1>5. \A j \in 1 .. n :
            e[j].end_date >= day => \E i \in DOMAIN more : more[i] = e[j]
    <2>. SUFFICES ASSUME NEW j \in 1 .. n, e[j].end_date >= day
                  PROVE  \E i \in DOMAIN more : more[i] = e[j]
      OBVIOUS
    <2>1. CASE j = n
      BY <1>3, <2>1
    <2>2. CASE j # n
      <3>1. PICK i \in DOMAIN k : k[i] = e[j]
        BY <1>1, <1>2, <2>2
      <3>2. i \in DOMAIN more
        BY <1>3
      <3>. QED BY <1>3, <3>1, <3>2
    <2>. QED BY <2>1, <2>2
  <1>6. InTurn(more)
    <2>1. \A i \in DOMAIN k : k[i].end_date < e[n].start_date
      <3>. SUFFICES ASSUME NEW i \in DOMAIN k
                    PROVE  k[i].end_date < e[n].start_date
        OBVIOUS
      <3>1. PICK j \in 1 .. n - 1 : k[i] = e[j]
        BY <1>2
      <3>2. j \in DOMAIN e /\ j < n
        BY <1>1
      <3>. QED BY <3>1, <3>2 DEF InTurn
    <2>2. e[n].start_date <= e[n].end_date
      BY DEF InTurn
    <2>3. /\ \A i \in DOMAIN k : k[i].start_date <= k[i].end_date
          /\ \A i, j \in DOMAIN k : i < j => k[i].end_date < k[j].start_date
      BY <1>2 DEF InTurn
    <2>4. \A i \in DOMAIN more : i = Len(k) + 1 \/ i \in DOMAIN k
      BY <1>3
    <2>5. \A i, j \in DOMAIN more :
              i < j => more[i].end_date < more[j].start_date
      <3>. SUFFICES ASSUME NEW i \in DOMAIN more, NEW j \in DOMAIN more, i < j
                    PROVE  more[i].end_date < more[j].start_date
        OBVIOUS
      <3>1. i \in DOMAIN k
        BY <1>3
      <3>. QED BY <1>3, <2>1, <2>3, <2>4, <3>1
    <2>. QED BY <1>3, <2>2, <2>3, <2>4, <2>5 DEF InTurn
  <1>. QED BY <1>3, <1>4, <1>5, <1>6 DEF HoldsKept, more

LEMMA DropsOne ==
    ASSUME NEW e \in Seq(OpeningException), NEW day \in Int,
           NEW n \in DOMAIN e, NEW k, HoldsKept(e, day, n - 1, k),
           ~(e[n].end_date >= day)
    PROVE  HoldsKept(e, day, n, k)
  <1>1. n \in Nat
    BY ExceptionsType
  <1>2. \A j \in 1 .. n : j = n \/ j \in 1 .. n - 1
    BY <1>1
  <1>3. \A j \in 1 .. n - 1 : j \in 1 .. n
    BY <1>1
  <1>. QED BY <1>2, <1>3 DEF HoldsKept

LEMMA KeptIsRight ==
    ASSUME NEW e \in Seq(OpeningException), InTurn(e), NEW day \in Int
    PROVE  HoldsKept(e, day, Len(e), Kept(e, day))
  <1>1. PICK kept : /\ kept = [n \in 0 .. Len(e) |-> KeptFrom(e, day, kept, n)]
                    /\ Kept(e, day) = kept[Len(e)]
    BY KeptDef
  <1>2. DOMAIN e = 1 .. Len(e) /\ Len(e) \in Nat
    BY ExceptionsType
  <1>3. \A n \in 0 .. Len(e) : kept[n] = KeptFrom(e, day, kept, n)
    BY <1>1
  <1>. DEFINE Wrong == {n \in 0 .. Len(e) : ~HoldsKept(e, day, n, kept[n])}
  <1>4. Wrong = {}
    <2>. SUFFICES ASSUME Wrong # {} PROVE FALSE
      OBVIOUS
    <2>1. Wrong \in SUBSET Nat
      BY <1>2
    <2>2. PICK n \in Wrong : \A m \in Wrong : n <= m
      BY <2>1, Least
    <2>3. n # 0
      <3>1. kept[0] = <<>>
        BY <1>2, <1>3 DEF KeptFrom
      <3>2. HoldsKept(e, day, 0, <<>>)
        BY DEF HoldsKept, InTurn
      <3>. QED BY <3>1, <3>2
    <2>4. n \in DOMAIN e /\ n - 1 \in 0 .. Len(e) /\ n \in 0 .. Len(e)
      BY <1>2, <2>3
    <2>5. HoldsKept(e, day, n - 1, kept[n - 1])
      BY <1>2, <2>2, <2>4
    <2>6. kept[n] = IF e[n].end_date >= day THEN Append(kept[n - 1], e[n])
                    ELSE kept[n - 1]
      BY <1>3, <2>3, <2>4 DEF KeptFrom
    <2>7. HoldsKept(e, day, n, kept[n])
      BY <2>4, <2>5, <2>6, KeepsOne, DropsOne
    <2>. QED BY <2>7
  <1>. QED BY <1>1, <1>2, <1>4

-----------------------------------------------------------------------------
(* The two readings, when no two exceptions cover the same date.           *)

LEMMA Readings ==
    ASSUME NEW l \in Calendar, InTurn(l.opening_exceptions), NEW d \in Int
    PROVE  /\ \A n \in DOMAIN l.opening_exceptions :
                  IsInInterval(d, l.opening_exceptions[n]) =>
                      /\ IsOpenOn(l, d) = l.opening_exceptions[n].is_open
                      /\ IsClosedOn(l, d) = ~l.opening_exceptions[n].is_open
           /\ (\A n \in DOMAIN l.opening_exceptions :
                  ~IsInInterval(d, l.opening_exceptions[n])) =>
                      /\ IsOpenOn(l, d) = IsNormallyOpen(l, d)
                      /\ IsClosedOn(l, d) = (Weekday(d) \in ClosedWeekdays(l))
  <1>1. ASSUME NEW n \in DOMAIN l.opening_exceptions,
               IsInInterval(d, l.opening_exceptions[n])
        PROVE  /\ IsOpenOn(l, d) = l.opening_exceptions[n].is_open
               /\ IsClosedOn(l, d) = ~l.opening_exceptions[n].is_open
    <2>1. n \in Covering(l, d)
      BY <1>1 DEF Covering
    <2>2. Min(Covering(l, d)) = n /\ Max(Covering(l, d)) = n
      BY <2>1, OneCovers
    <2>. QED BY <2>1, <2>2 DEF IsOpenOn, IsClosedOn
  <1>2. ASSUME \A n \in DOMAIN l.opening_exceptions :
                   ~IsInInterval(d, l.opening_exceptions[n])
        PROVE  Covering(l, d) = {}
    BY <1>2 DEF Covering
  <1>. QED BY <1>1, <1>2 DEF IsOpenOn, IsClosedOn

\* The exceptions that are dropped say nothing of the days that are left.
LEMMA CleanedReadings ==
    ASSUME NEW l \in Calendar, InTurn(l.opening_exceptions), NEW day \in Int,
           NEW cleaned \in Calendar,
           cleaned.opening_weekdays = l.opening_weekdays,
           cleaned.opening_exceptions = Kept(l.opening_exceptions, day),
           NEW d \in Int, day <= d
    PROVE  /\ IsOpenOn(cleaned, d) = IsOpenOn(l, d)
           /\ IsClosedOn(cleaned, d) = IsClosedOn(l, d)
  <1>. DEFINE e == l.opening_exceptions
              k == cleaned.opening_exceptions
  <1>1. e \in Seq(OpeningException) /\ k = Kept(e, day)
    BY DEF Calendar
  <1>2. HoldsKept(e, day, Len(e), k)
    BY <1>1, KeptIsRight
  <1>3. /\ DOMAIN e = 1 .. Len(e) /\ Len(e) \in Nat
        /\ \A n \in DOMAIN e : e[n].end_date \in Nat
    BY <1>1, ExceptionsType
  <1>4. InTurn(k)
    BY <1>2 DEF HoldsKept
  <1>5. CASE \E j \in DOMAIN e : IsInInterval(d, e[j])
    <2>1. PICK j \in DOMAIN e : IsInInterval(d, e[j])
      BY <1>5
    <2>2. e[j].end_date >= day
      BY <1>3, <2>1 DEF IsInInterval
    <2>3. PICK i \in DOMAIN k : k[i] = e[j]
      BY <1>2, <1>3, <2>1, <2>2 DEF HoldsKept
    <2>4. /\ IsOpenOn(l, d) = e[j].is_open
          /\ IsClosedOn(l, d) = ~e[j].is_open
      BY <2>1, Readings
    <2>5. /\ IsOpenOn(cleaned, d) = k[i].is_open
          /\ IsClosedOn(cleaned, d) = ~k[i].is_open
      BY <1>4, <2>1, <2>3, Readings
    <2>. QED BY <2>3, <2>4, <2>5
  <1>6. CASE \A j \in DOMAIN e : ~IsInInterval(d, e[j])
    <2>1. \A i \in DOMAIN k : ~IsInInterval(d, k[i])
      BY <1>2, <1>3, <1>6 DEF HoldsKept
    <2>2. /\ IsOpenOn(l, d) = IsNormallyOpen(l, d)
          /\ IsClosedOn(l, d) = (Weekday(d) \in ClosedWeekdays(l))
      BY <1>6, Readings
    <2>3. /\ IsOpenOn(cleaned, d) = IsNormallyOpen(cleaned, d)
          /\ IsClosedOn(cleaned, d) = (Weekday(d) \in ClosedWeekdays(cleaned))
      BY <1>4, <2>1, Readings
    <2>. QED BY <2>2, <2>3 DEF IsNormallyOpen, ClosedWeekdays
  <1>. QED BY <1>5, <1>6

-----------------------------------------------------------------------------
(* The invariant: what the loader accepts, and the task leaves accepted.   *)

Good ==
    /\ location \in Calendar
    /\ WeekdaysAccepted(location.opening_weekdays)
    /\ InTurn(location.opening_exceptions)
    /\ today \in Nat

LEMMA LoadedIsGood ==
    \A l \in Loaded :
        /\ l \in Calendar /\ WeekdaysAccepted(l.opening_weekdays)
        /\ InTurn(l.opening_exceptions)
  <1>. SUFFICES ASSUME NEW l \in Loaded
                PROVE  /\ l \in Calendar /\ WeekdaysAccepted(l.opening_weekdays)
                       /\ InTurn(l.opening_exceptions)
    OBVIOUS
  <1>1. PICK w \in WeekdayLists, e \in UNION {Orders(x) : x \in ExceptionLists} :
            /\ l = [opening_weekdays |-> w, opening_exceptions |-> e]
            /\ WeekdaysAccepted(w) /\ ExceptionsAccepted(e)
    BY DEF Loaded
  <1>2. PICK x \in ExceptionLists : e \in Orders(x)
    BY <1>1
  <1>3. w \in Seq(OpeningWeekday) /\ x \in Seq(OpeningException)
    BY ListsAssumption
  <1>4. PICK p \in Bijection(DOMAIN x, DOMAIN x) : e = [n \in DOMAIN x |-> x[p[n]]]
    BY <1>2 DEF Orders
  <1>5. p \in [DOMAIN x -> DOMAIN x] /\ DOMAIN x = 1 .. Len(x) /\ Len(x) \in Nat
    BY <1>3 DEF Bijection, Injection
  <1>6. e \in Seq(OpeningException)
    <2>1. \A n \in DOMAIN x : x[p[n]] \in OpeningException
      BY <1>3, <1>5
    <2>2. e \in [1 .. Len(x) -> OpeningException]
      BY <1>4, <1>5, <2>1
    <2>. QED BY <1>5, <2>2
  <1>7. InTurn(e)
    BY <1>1, <1>6, NeighboursSuffice
  <1>. QED BY <1>1, <1>3, <1>6, <1>7 DEF Calendar

LEMMA CleanedIsGood ==
    ASSUME Good, CleanPastExceptions
    PROVE  /\ location' \in Calendar /\ today' = today
           /\ location'.opening_weekdays = location.opening_weekdays
           /\ location'.opening_exceptions = Kept(location.opening_exceptions, today)
           /\ InTurn(location'.opening_exceptions)
  <1>. DEFINE k == Kept(location.opening_exceptions, today)
  <1>1. location' = [location EXCEPT !.opening_exceptions = k] /\ today' = today
    BY DEF CleanPastExceptions
  <1>2. k \in Seq(OpeningException) /\ InTurn(k)
    <2>. DEFINE e == location.opening_exceptions
    <2>1. e \in Seq(OpeningException) /\ InTurn(e) /\ today \in Int
      BY DEF Good, Calendar
    <2>2. HoldsKept(e, today, Len(e), Kept(e, today))
      BY <2>1, KeptIsRight
    <2>. QED BY <2>2 DEF HoldsKept
  <1>. QED BY <1>1, <1>2 DEF Good, Calendar

LEMMA LocationInitGood == LocationInit => Good
  BY LoadedIsGood DEF LocationInit, Good

LEMMA LocationNextGood == Good /\ [LocationNext]_locationVars => Good'
  <1>. SUFFICES ASSUME Good, [LocationNext]_locationVars PROVE Good'
    OBVIOUS
  <1>1. CASE UpdateLocation
    <2>1. location' \in Loaded /\ today' = today
      BY <1>1 DEF UpdateLocation
    <2>. QED BY <2>1, LoadedIsGood DEF Good
  <1>2. CASE CleanPastExceptions
    BY <1>2, CleanedIsGood DEF Good
  <1>3. CASE LocationNextDay
    BY <1>3 DEF LocationNextDay, Tomorrow, Good
  <1>4. CASE UNCHANGED locationVars
    BY <1>4 DEF locationVars, Good
  <1>. QED BY <1>1, <1>2, <1>3, <1>4 DEF LocationNext

LEMMA LocationInvariant == LocationSpec => []Good
  BY LocationInitGood, LocationNextGood, PTL DEF LocationSpec

-----------------------------------------------------------------------------
(* What holds of the exceptions.                                           *)

\* The first exception that covers a date is the last.
THEOREM ExceptionsAgree == LocationSpec => []ExceptionsReadAlike
  <1>1. Good => ExceptionsReadAlike
    <2>. SUFFICES ASSUME Good, NEW d \in Dates, Covering(location, d) # {}
                  PROVE  IsOpenOn(location, d) = ~IsClosedOn(location, d)
      BY DEF ExceptionsReadAlike
    <2>1. d \in Int
      BY LastDayAssumption DEF Dates
    <2>2. PICK n \in DOMAIN location.opening_exceptions :
              IsInInterval(d, location.opening_exceptions[n])
      BY DEF Covering
    <2>3. location.opening_exceptions[n].is_open \in BOOLEAN
      BY ExceptionsType DEF Good, Calendar
    <2>. QED BY <2>1, <2>2, <2>3, Readings DEF Good
  <1>. QED BY <1>1, LocationInvariant, PTL

\* The yearly task changes nothing that a date from today on is read to be.
THEOREM CleaningIsSafe == LocationSpec => CleaningKeepsTheCalendar
  <1>. DEFINE Keeps ==
                  location' # location /\ CleanPastExceptions =>
                      \A d \in today .. LastDay :
                          /\ IsOpenOn(location', d) = IsOpenOn(location, d)
                          /\ IsClosedOn(location', d) = IsClosedOn(location, d)
  <1>1. ASSUME Good, [LocationNext]_locationVars PROVE [Keeps]_locationVars
    <2>. SUFFICES ASSUME CleanPastExceptions, NEW d \in today .. LastDay
                  PROVE  /\ IsOpenOn(location', d) = IsOpenOn(location, d)
                         /\ IsClosedOn(location', d) = IsClosedOn(location, d)
      OBVIOUS
    <2>1. d \in Int /\ today \in Int /\ today <= d
      BY <1>1, LastDayAssumption DEF Good
    <2>. QED BY <1>1, <2>1, CleanedIsGood, CleanedReadings DEF Good
  <1>. QED BY <1>1, LocationInvariant, PTL DEF LocationSpec, CleaningKeepsTheCalendar

-----------------------------------------------------------------------------
(* The walk of get_closure_periods.                                        *)

Period == [start: Nat, end: Nat]

WalkFrom(l, start, walk, date) ==
    IF date < start
    THEN [periods |-> <<>>, streak |-> NoDate]
    ELSE Visit(l, walk[date - 1], date)

IsWalk(l, start, end, walk) ==
    walk = [date \in start - 1 .. end |-> WalkFrom(l, start, walk, date)]

\* The loop, as far as any date.
LEMMA WalkExists ==
    ASSUME NEW l, NEW start \in Int, NEW length \in Nat
    PROVE  \E walk :
               walk = [date \in start - 1 .. start - 1 + length |->
                          WalkFrom(l, start, walk, date)]
  <1>. DEFINE Has(k) == \E walk :
                  walk = [date \in start - 1 .. start - 1 + k |->
                             WalkFrom(l, start, walk, date)]
              Wrong == {k \in Nat : ~Has(k)}
  <1>. SUFFICES ASSUME Wrong # {} PROVE FALSE
    OBVIOUS
  <1>1. PICK k \in Wrong : \A j \in Wrong : k <= j
    BY Least
  <1>2. k # 0
    <2>. DEFINE walk == [date \in start - 1 .. start - 1 + 0 |->
                            [periods |-> <<>>, streak |-> NoDate]]
    <2>1. walk = [date \in start - 1 .. start - 1 + 0 |->
                     WalkFrom(l, start, walk, date)]
      BY DEF WalkFrom
    <2>. HIDE DEF walk
    <2>. QED BY <2>1
  <1>. DEFINE last == start - 1 + k
  <1>3. /\ k \in Nat /\ last \in Int /\ last >= start
        /\ start - 1 + (k - 1) = last - 1
    BY <1>2
  <1>4. PICK walk : walk = [date \in start - 1 .. last - 1 |->
                               WalkFrom(l, start, walk, date)]
    <2>1. k - 1 \in Nat /\ k - 1 \notin Wrong
      BY <1>1, <1>2
    <2>2. Has(k - 1)
      BY <2>1
    <2>. QED BY <1>3, <2>2
  <1>. DEFINE more == [date \in start - 1 .. last |->
                          IF date = last THEN WalkFrom(l, start, walk, last)
                          ELSE walk[date]]
  <1>5. more = [date \in start - 1 .. last |-> WalkFrom(l, start, more, date)]
    <2>. HIDE DEF last
    <2>1. \A d \in start - 1 .. last - 1 : walk[d] = WalkFrom(l, start, walk, d)
      BY <1>4
    <2>2. \A d \in start - 1 .. last - 1 : more[d] = walk[d]
      BY <1>3
    <2>3. \A d \in start - 1 .. last : ~(d < start) => d - 1 \in start - 1 .. last - 1
      BY <1>3
    <2>4. \A d \in start - 1 .. last :
              WalkFrom(l, start, more, d) = WalkFrom(l, start, walk, d)
      BY <2>2, <2>3 DEF WalkFrom
    <2>5. \A d \in start - 1 .. last : more[d] = WalkFrom(l, start, walk, d)
      BY <1>3, <2>1
    <2>6. more = [d \in start - 1 .. last |-> more[d]]
      OBVIOUS
    <2>. HIDE DEF more
    <2>. QED BY <2>4, <2>5, <2>6
  <1>. HIDE DEF more
  <1>. QED BY <1>5

LEMMA PeriodsDef ==
    ASSUME NEW l, NEW start \in Int, NEW end \in Int, start <= end
    PROVE  \E walk :
               /\ IsWalk(l, start, end, walk)
               /\ ClosurePeriods(l, start, end) =
                      IF walk[end].streak = NoDate
                      THEN walk[end].periods
                      ELSE Append(walk[end].periods,
                                  [start |-> walk[end].streak, end |-> end])
  <1>. DEFINE walk[date \in start - 1 .. end] ==
                  IF date < start
                  THEN [periods |-> <<>>, streak |-> NoDate]
                  ELSE Visit(l, walk[date - 1], date)
  <1>1. \E f : f = [date \in start - 1 .. end |-> WalkFrom(l, start, f, date)]
    <2>1. PICK length \in Nat : end = start - 1 + length
      <3>1. end - (start - 1) \in Nat /\ end = start - 1 + (end - (start - 1))
        OBVIOUS
      <3>. QED BY <3>1
    <2>2. \E f : f = [date \in start - 1 .. start - 1 + length |->
                         WalkFrom(l, start, f, date)]
      BY WalkExists
    <2>. QED BY <2>1, <2>2
  <1>2. walk = [date \in start - 1 .. end |-> WalkFrom(l, start, walk, date)]
    BY <1>1 DEF WalkFrom
  <1>3. ClosurePeriods(l, start, end) =
            IF walk[end].streak = NoDate
            THEN walk[end].periods
            ELSE Append(walk[end].periods,
                        [start |-> walk[end].streak, end |-> end])
    BY DEF ClosurePeriods
  <1>. HIDE DEF walk
  <1>. QED BY <1>2, <1>3 DEF IsWalk

\* a range of closed dates, which cannot begin earlier
Unbroken(l, start, r) ==
    /\ start <= r.start /\ r.start <= r.end
    /\ \A d \in r.start .. r.end : IsClosedOn(l, d)
    /\ r.start = start \/ ~IsClosedOn(l, r.start - 1)

\* ... that has come to its end by the date
Ended(l, start, date, r) ==
    /\ Unbroken(l, start, r)
    /\ r.end < date /\ ~IsClosedOn(l, r.end + 1)

Ordered(periods) ==
    \A n \in 1 .. Len(periods) - 1 : periods[n].end < periods[n + 1].start

\* what the walk has seen by the date
Walked(l, start, date, w) ==
    /\ w \in [periods: Seq(Period), streak: Int]
    /\ w.streak = NoDate => date < start \/ ~IsClosedOn(l, date)
    /\ w.streak # NoDate =>
           /\ w.streak \in Nat
           /\ Unbroken(l, start, [start |-> w.streak, end |-> date])
    /\ \A n \in DOMAIN w.periods : Ended(l, start, date, w.periods[n])
    /\ \A r \in Period :
           Ended(l, start, date, r) => \E n \in DOMAIN w.periods : w.periods[n] = r
    /\ Ordered(w.periods)

LEMMA SameEnd ==
    ASSUME NEW l, NEW start \in Nat, NEW q \in Period, NEW r \in Period,
           Unbroken(l, start, q), Unbroken(l, start, r), q.end = r.end
    PROVE  q = r
  <1>1. /\ q.start \in Nat /\ q.end \in Nat /\ r.start \in Nat /\ r.end \in Nat
        /\ q.start <= q.end /\ r.start <= r.end
        /\ start <= q.start /\ start <= r.start
    BY DEF Period, Unbroken
  <1>2. ~(q.start < r.start)
    <2>. SUFFICES ASSUME q.start < r.start PROVE FALSE
      OBVIOUS
    <2>1. r.start - 1 \in q.start .. q.end /\ r.start # start
      BY <1>1
    <2>. QED BY <2>1 DEF Unbroken
  <1>3. ~(r.start < q.start)
    <2>. SUFFICES ASSUME r.start < q.start PROVE FALSE
      OBVIOUS
    <2>1. q.start - 1 \in r.start .. r.end /\ q.start # start
      BY <1>1
    <2>. QED BY <2>1 DEF Unbroken
  <1>4. q.start = r.start
    BY <1>1, <1>2, <1>3
  <1>. QED BY <1>4 DEF Period

\* A range that has ended lies before one that has not.
LEMMA EndedIsBefore ==
    ASSUME NEW l, NEW start \in Nat, NEW date \in Nat, NEW q \in Period,
           Ended(l, start, date, q), NEW s \in Nat,
           Unbroken(l, start, [start |-> s, end |-> date])
    PROVE  q.end < s
  <1>1. /\ q.end \in Nat /\ q.end < date /\ ~IsClosedOn(l, q.end + 1)
        /\ \A d \in s .. date : IsClosedOn(l, d)
    BY DEF Period, Ended, Unbroken
  <1>2. q.end + 1 \notin s .. date
    BY <1>1
  <1>. QED BY <1>1, <1>2

\* A period that lies after all others is put at the end.
LEMMA OneMore ==
    ASSUME NEW periods \in Seq(Period), NEW r \in Period, Ordered(periods),
           \A n \in DOMAIN periods : periods[n].end < r.start
    PROVE  /\ Append(periods, r) \in Seq(Period)
           /\ DOMAIN Append(periods, r) = 1 .. Len(periods) + 1
           /\ DOMAIN periods = 1 .. Len(periods) /\ Len(periods) \in Nat
           /\ Append(periods, r)[Len(periods) + 1] = r
           /\ \A n \in DOMAIN periods : Append(periods, r)[n] = periods[n]
           /\ Ordered(Append(periods, r))
  <1>. DEFINE more == Append(periods, r)
  <1>1. /\ more \in Seq(Period) /\ DOMAIN more = 1 .. Len(periods) + 1
        /\ Len(more) = Len(periods) + 1
        /\ DOMAIN periods = 1 .. Len(periods) /\ Len(periods) \in Nat
        /\ more[Len(periods) + 1] = r
        /\ \A n \in DOMAIN periods : more[n] = periods[n]
    OBVIOUS
  <1>. HIDE DEF more
  <1>2. Ordered(more)
    <2>. SUFFICES ASSUME NEW n \in 1 .. Len(more) - 1
                  PROVE  more[n].end < more[n + 1].start
      BY DEF Ordered
    <2>1. n \in DOMAIN periods
      BY <1>1
    <2>2. CASE n = Len(periods)
      BY <1>1, <2>1, <2>2
    <2>3. CASE n # Len(periods)
      <3>1. n + 1 \in DOMAIN periods /\ n \in 1 .. Len(periods) - 1
        BY <1>1, <2>1, <2>3
      <3>. QED BY <1>1, <2>1, <3>1 DEF Ordered
    <2>. QED BY <2>2, <2>3
  <1>. QED BY <1>1, <1>2 DEF more

\* One turn of the loop.
LEMMA VisitIsRight ==
    ASSUME NEW l, NEW start \in Nat, NEW date \in Nat, start <= date,
           NEW w, Walked(l, start, date - 1, w)
    PROVE  Walked(l, start, date, Visit(l, w, date))
  <1>. DEFINE v == Visit(l, w, date)
  <1>1. /\ w \in [periods: Seq(Period), streak: Int]
        /\ w.streak = NoDate => date - 1 < start \/ ~IsClosedOn(l, date - 1)
        /\ w.streak # NoDate =>
               /\ w.streak \in Nat
               /\ Unbroken(l, start, [start |-> w.streak, end |-> date - 1])
        /\ \A n \in DOMAIN w.periods : Ended(l, start, date - 1, w.periods[n])
        /\ \A r \in Period :
               Ended(l, start, date - 1, r) =>
                   \E n \in DOMAIN w.periods : w.periods[n] = r
        /\ Ordered(w.periods)
    BY DEF Walked
  <1>2. /\ w.periods \in Seq(Period)
        /\ \A n \in DOMAIN w.periods : w.periods[n] \in Period
        /\ NoDate = -1
    BY <1>1 DEF NoDate
  <1>3. \A r \in Period :
            /\ r.start \in Nat /\ r.end \in Nat
            /\ r = [start |-> r.start, end |-> r.end]
    BY DEF Period
  <1>4. \A r \in Period : Ended(l, start, date - 1, r) => Ended(l, start, date, r)
    BY <1>3 DEF Ended
  \* only a range that ends on the day before has ended by now and not before
  <1>5. \A r \in Period :
            Ended(l, start, date, r) =>
                \/ Ended(l, start, date - 1, r)
                \/ r.end = date - 1 /\ ~IsClosedOn(l, date)
    <2>. SUFFICES ASSUME NEW r \in Period, Ended(l, start, date, r), r.end # date - 1
                  PROVE  Ended(l, start, date - 1, r)
      BY <1>3 DEF Ended
    <2>. QED BY <1>3 DEF Ended
  <1>6. CASE IsClosedOn(l, date)
    <2>1. \A r \in Period :
              Ended(l, start, date, r) <=> Ended(l, start, date - 1, r)
      BY <1>4, <1>5, <1>6
    <2>2. CASE w.streak = NoDate
      <3>1. /\ v = [w EXCEPT !.streak = date]
            /\ v \in [periods: Seq(Period), streak: Int]
            /\ v.streak = date /\ v.periods = w.periods /\ date # NoDate
        BY <1>1, <1>2, <1>6, <2>2 DEF Visit
      <3>2. Unbroken(l, start, [start |-> date, end |-> date])
        <4>1. date = start \/ ~IsClosedOn(l, date - 1)
          BY <1>1, <2>2
        <4>. QED BY <1>6, <4>1 DEF Unbroken
      <3>. HIDE DEF v
      <3>. QED BY <1>1, <1>2, <2>1, <3>1, <3>2 DEF Walked, v
    <2>3. CASE w.streak # NoDate
      <3>1. v = w
        BY <1>1, <1>6, <2>3 DEF Visit
      <3>2. Unbroken(l, start, [start |-> w.streak, end |-> date])
        <4>1. \A d \in w.streak .. date : d = date \/ d \in w.streak .. date - 1
          BY <1>1, <2>3
        <4>. QED BY <1>1, <1>6, <2>3, <4>1 DEF Unbroken
      <3>. HIDE DEF v
      <3>. QED BY <1>1, <1>2, <2>1, <2>3, <3>1, <3>2 DEF Walked, v
    <2>. QED BY <2>2, <2>3
  <1>7. CASE ~IsClosedOn(l, date) /\ w.streak = NoDate
    <2>1. v = w
      BY <1>7 DEF Visit
    <2>2. \A r \in Period :
              Ended(l, start, date, r) => Ended(l, start, date - 1, r)
      <3>. SUFFICES ASSUME NEW r \in Period, Ended(l, start, date, r),
                           r.end = date - 1
                    PROVE  FALSE
        BY <1>5
      <3>1. start <= r.start /\ r.start <= r.end /\ IsClosedOn(l, r.end)
        BY <1>3 DEF Ended, Unbroken
      <3>2. ~(date - 1 < start)
        BY <1>3, <3>1
      <3>. QED BY <1>1, <1>7, <3>1, <3>2
    <2>. HIDE DEF v
    <2>. QED BY <1>1, <1>2, <1>4, <1>7, <2>1, <2>2 DEF Walked, v
  <1>8. CASE ~IsClosedOn(l, date) /\ w.streak # NoDate
    <2>. DEFINE p == [start |-> w.streak, end |-> date - 1]
                more == Append(w.periods, p)
    <2>1. v = [periods |-> more, streak |-> NoDate]
      BY <1>8 DEF Visit
    <2>2. /\ w.streak \in Nat /\ Unbroken(l, start, p)
          /\ w.streak <= date - 1 /\ date - 1 \in Nat
      <3>1. w.streak \in Nat /\ Unbroken(l, start, p)
        BY <1>1, <1>8
      <3>2. w.streak <= date - 1
        BY <3>1 DEF Unbroken
      <3>. QED BY <3>1, <3>2
    <2>3. p \in Period /\ p.start = w.streak /\ p.end = date - 1
      BY <2>2 DEF Period
    <2>4. Ended(l, start, date, p)
      BY <1>8, <2>2, <2>3 DEF Ended
    <2>5. \A n \in DOMAIN w.periods : w.periods[n].end < p.start
      BY <1>1, <1>2, <2>2, <2>3, EndedIsBefore
    <2>. HIDE DEF p
    <2>6. /\ more \in Seq(Period) /\ DOMAIN more = 1 .. Len(w.periods) + 1
          /\ DOMAIN w.periods = 1 .. Len(w.periods) /\ Len(w.periods) \in Nat
          /\ more[Len(w.periods) + 1] = p
          /\ \A n \in DOMAIN w.periods : more[n] = w.periods[n]
          /\ Ordered(more)
      BY <1>1, <1>2, <2>3, <2>5, OneMore
    <2>. HIDE DEF more
    <2>7. \A n \in DOMAIN more : Ended(l, start, date, more[n])
      <3>. SUFFICES ASSUME NEW n \in DOMAIN more
                    PROVE  Ended(l, start, date, more[n])
        OBVIOUS
      <3>1. n = Len(w.periods) + 1 \/ n \in DOMAIN w.periods
        BY <2>6
      <3>. QED BY <1>1, <1>2, <1>4, <2>4, <2>6, <3>1
    <2>8. \A r \in Period :
              Ended(l, start, date, r) => \E n \in DOMAIN more : more[n] = r
      <3>. SUFFICES ASSUME NEW r \in Period, Ended(l, start, date, r)
                    PROVE  \E n \in DOMAIN more : more[n] = r
        OBVIOUS
      <3>1. CASE Ended(l, start, date - 1, r)
        <4>1. PICK n \in DOMAIN w.periods : w.periods[n] = r
          BY <1>1, <3>1
        <4>2. n \in DOMAIN more
          BY <2>6
        <4>. QED BY <2>6, <4>1, <4>2
      <3>2. CASE r.end = date - 1
        <4>1. Unbroken(l, start, r)
          BY DEF Ended
        <4>2. r = p
          BY <2>2, <2>3, <3>2, <4>1, SameEnd
        <4>3. Len(w.periods) + 1 \in DOMAIN more
          BY <2>6
        <4>. QED BY <2>6, <4>2, <4>3
      <3>. QED BY <1>5, <3>1, <3>2
    <2>9. /\ v \in [periods: Seq(Period), streak: Int]
          /\ v.periods = more /\ v.streak = NoDate
      BY <1>2, <2>1, <2>6
    <2>. HIDE DEF v
    <2>. QED BY <1>8, <2>6, <2>7, <2>8, <2>9 DEF Walked, v
  <1>. QED BY <1>6, <1>7, <1>8

LEMMA WalkIsRight ==
    ASSUME NEW l, NEW start \in Nat, NEW end \in Nat,
           NEW walk, IsWalk(l, start, end, walk), NEW date \in start - 1 .. end
    PROVE  Walked(l, start, date, walk[date])
  <1>. walk = [d \in start - 1 .. end |-> WalkFrom(l, start, walk, d)]
    BY DEF IsWalk
  <1>. DEFINE Wrong == {k \in Nat :
                  /\ start - 1 + k \in start - 1 .. end
                  /\ ~Walked(l, start, start - 1 + k, walk[start - 1 + k])}
  <1>1. Wrong = {}
    <2>. SUFFICES ASSUME Wrong # {} PROVE FALSE
      OBVIOUS
    <2>1. PICK k \in Wrong : \A j \in Wrong : k <= j
      BY Least
    <2>. DEFINE d == start - 1 + k
    <2>2. k \in Nat /\ d \in start - 1 .. end /\ ~Walked(l, start, d, walk[d])
      BY <2>1
    <2>3. k # 0
      <3>1. /\ start - 1 \in start - 1 .. end
            /\ walk[start - 1] = [periods |-> <<>>, streak |-> NoDate]
        BY <2>2 DEF WalkFrom
      <3>2. \A r \in Period : ~Ended(l, start, start - 1, r)
        BY DEF Ended, Unbroken, Period
      <3>3. Walked(l, start, start - 1, [periods |-> <<>>, streak |-> NoDate])
        BY <3>2 DEF Walked, Ordered, NoDate
      <3>4. k = 0 => d = start - 1
        OBVIOUS
      <3>. QED BY <2>2, <3>1, <3>3, <3>4
    <2>4. /\ k - 1 \in Nat /\ d - 1 = start - 1 + (k - 1)
          /\ d - 1 \in start - 1 .. end /\ start <= d /\ d \in Nat
      BY <2>2, <2>3
    <2>5. Walked(l, start, d - 1, walk[d - 1])
      <3>1. k - 1 \notin Wrong
        BY <2>1, <2>2, <2>4
      <3>. DEFINE b == start - 1 + (k - 1)
      <3>2. b \in start - 1 .. end => Walked(l, start, b, walk[b])
        BY <2>4, <3>1
      <3>3. b = d - 1
        BY <2>4
      <3>. HIDE DEF b, d
      <3>. QED BY <2>4, <3>2, <3>3
    <2>. HIDE DEF d
    <2>6. walk[d] = Visit(l, walk[d - 1], d)
      BY <2>2, <2>4 DEF WalkFrom
    <2>. QED BY <2>2, <2>4, <2>5, <2>6, VisitIsRight
  <1>2. date - (start - 1) \in Nat /\ start - 1 + (date - (start - 1)) = date
    OBVIOUS
  <1>. QED BY <1>1, <1>2

-----------------------------------------------------------------------------
(* The closure periods.                                                    *)

\* a longest range of closed dates between the two
Longest(l, start, end, r) ==
    /\ Unbroken(l, start, r)
    /\ r.end <= end
    /\ r.end = end \/ ~IsClosedOn(l, r.end + 1)

\* ... all of them, each once, in order
AllLongest(l, start, end, periods) ==
    /\ periods \in Seq(Period)
    /\ \A n \in DOMAIN periods : Longest(l, start, end, periods[n])
    /\ \A r \in Period :
           Longest(l, start, end, r) => \E n \in DOMAIN periods : periods[n] = r
    /\ Ordered(periods)

\* For any location, also one that the loader would refuse.
LEMMA PeriodsAreRight ==
    ASSUME NEW l, NEW start \in Nat, NEW end \in Nat, start <= end
    PROVE  AllLongest(l, start, end, ClosurePeriods(l, start, end))
  <1>. DEFINE periods == ClosurePeriods(l, start, end)
  <1>. start \in Int /\ end \in Int /\ end \in start - 1 .. end
    OBVIOUS
  <1>1. PICK walk :
            /\ IsWalk(l, start, end, walk)
            /\ periods = IF walk[end].streak = NoDate
                         THEN walk[end].periods
                         ELSE Append(walk[end].periods,
                                     [start |-> walk[end].streak, end |-> end])
    BY PeriodsDef
  <1>. HIDE DEF periods
  <1>. DEFINE w == walk[end]
  <1>2. Walked(l, start, end, w)
    BY <1>1, WalkIsRight
  <1>. HIDE DEF w
  <1>3. /\ w \in [periods: Seq(Period), streak: Int]
        /\ w.streak = NoDate => end < start \/ ~IsClosedOn(l, end)
        /\ w.streak # NoDate =>
               /\ w.streak \in Nat
               /\ Unbroken(l, start, [start |-> w.streak, end |-> end])
        /\ \A n \in DOMAIN w.periods : Ended(l, start, end, w.periods[n])
        /\ \A r \in Period :
               Ended(l, start, end, r) => \E n \in DOMAIN w.periods : w.periods[n] = r
        /\ Ordered(w.periods)
    BY <1>2 DEF Walked
  <1>4. /\ w.periods \in Seq(Period)
        /\ \A n \in DOMAIN w.periods : w.periods[n] \in Period
    BY <1>3
  <1>5. \A r \in Period : r.start \in Nat /\ r.end \in Nat
    BY DEF Period
  <1>6. \A r \in Period : Ended(l, start, end, r) => Longest(l, start, end, r)
    BY <1>5 DEF Ended, Longest
  <1>7. \A r \in Period :
            Longest(l, start, end, r) /\ r.end # end => Ended(l, start, end, r)
    BY <1>5 DEF Ended, Longest
  <1>8. CASE w.streak = NoDate
    <2>1. periods = w.periods
      BY <1>1, <1>8 DEF w
    <2>2. ASSUME NEW r \in Period, Longest(l, start, end, r)
          PROVE  r.end # end
      <3>1. start <= r.start /\ r.start <= r.end /\ IsClosedOn(l, r.end)
        BY <1>5, <2>2 DEF Longest, Unbroken
      <3>. QED BY <1>3, <1>8, <3>1
    <2>. QED BY <1>3, <1>4, <1>6, <1>7, <2>1, <2>2 DEF AllLongest, periods
  <1>9. CASE w.streak # NoDate
    <2>. DEFINE p == [start |-> w.streak, end |-> end]
    <2>1. periods = Append(w.periods, p)
      BY <1>1, <1>9 DEF w
    <2>2. w.streak \in Nat /\ Unbroken(l, start, p)
      BY <1>3, <1>9
    <2>3. p \in Period /\ p.start = w.streak /\ p.end = end
      BY <2>2 DEF Period
    <2>4. Longest(l, start, end, p)
      BY <2>2, <2>3 DEF Longest
    <2>5. \A n \in DOMAIN w.periods : w.periods[n].end < p.start
      BY <1>3, <1>4, <2>2, <2>3, EndedIsBefore
    <2>. HIDE DEF p
    <2>6. /\ periods \in Seq(Period) /\ DOMAIN periods = 1 .. Len(w.periods) + 1
          /\ DOMAIN w.periods = 1 .. Len(w.periods) /\ Len(w.periods) \in Nat
          /\ periods[Len(w.periods) + 1] = p
          /\ \A n \in DOMAIN w.periods : periods[n] = w.periods[n]
          /\ Ordered(periods)
      BY <1>3, <1>4, <2>1, <2>3, <2>5, OneMore
    <2>7. \A n \in DOMAIN periods : Longest(l, start, end, periods[n])
      <3>. SUFFICES ASSUME NEW n \in DOMAIN periods
                    PROVE  Longest(l, start, end, periods[n])
        OBVIOUS
      <3>1. n = Len(w.periods) + 1 \/ n \in DOMAIN w.periods
        BY <2>6
      <3>. QED BY <1>3, <1>4, <1>6, <2>4, <2>6, <3>1
    <2>8. ASSUME NEW r \in Period, Longest(l, start, end, r)
          PROVE  \E n \in DOMAIN periods : periods[n] = r
      <3>1. CASE r.end # end
        <4>1. PICK n \in DOMAIN w.periods : w.periods[n] = r
          BY <1>3, <1>7, <2>8, <3>1
        <4>2. n \in DOMAIN periods
          BY <2>6
        <4>. QED BY <2>6, <4>1, <4>2
      <3>2. CASE r.end = end
        <4>1. Unbroken(l, start, r)
          BY <2>8 DEF Longest
        <4>2. r = p
          BY <2>2, <2>3, <3>2, <4>1, SameEnd
        <4>3. Len(w.periods) + 1 \in DOMAIN periods
          BY <2>6
        <4>. QED BY <2>6, <4>2, <4>3
      <3>. QED BY <3>1, <3>2
    <2>. QED BY <2>6, <2>7, <2>8 DEF AllLongest, periods
  <1>. QED BY <1>8, <1>9

\* The closure periods are the longest ranges of closed dates.
THEOREM PeriodsAreLongest == LocationSpec => []PeriodsAreTheClosedRanges
  <1>1. PeriodsAreTheClosedRanges
    <2>1. \A d \in Dates : d \in Nat
      BY LastDayAssumption DEF Dates
    <2>2. ASSUME NEW start \in Dates, NEW end \in Dates, start <= end,
                 NEW ranges,
                 ranges =
                     {r \in [start: Dates, end: Dates] :
                        /\ r.start <= r.end
                        /\ \A d \in r.start .. r.end :
                               d \in start .. end /\ IsClosedOn(location, d)
                        /\ ~(r.start - 1 \in start .. end /\ IsClosedOn(location, r.start - 1))
                        /\ ~(r.end + 1 \in start .. end /\ IsClosedOn(location, r.end + 1))},
                 NEW periods, periods = ClosurePeriods(location, start, end)
          PROVE  /\ {periods[n] : n \in DOMAIN periods} = ranges
                 /\ \A n \in 1 .. Len(periods) - 1 :
                        periods[n].end < periods[n + 1].start
      <3>1. start \in Nat /\ end \in Nat /\ start .. end \subseteq Dates
        BY <2>1, LastDayAssumption DEF Dates
      <3>2. /\ periods \in Seq(Period)
            /\ \A n \in DOMAIN periods :
                   periods[n] \in Period /\ Longest(location, start, end, periods[n])
            /\ \A r \in Period :
                   Longest(location, start, end, r) =>
                       \E n \in DOMAIN periods : periods[n] = r
            /\ Ordered(periods)
        <4>1. AllLongest(location, start, end, periods)
          BY <2>2, <3>1, PeriodsAreRight
        <4>. QED BY <4>1 DEF AllLongest
      <3>3. ASSUME NEW r \in Period, Longest(location, start, end, r)
            PROVE  r \in ranges
        <4>1. /\ r.start \in Nat /\ r.end \in Nat
              /\ r = [start |-> r.start, end |-> r.end]
              /\ start <= r.start /\ r.start <= r.end /\ r.end <= end
          BY <3>3 DEF Period, Longest, Unbroken
        <4>2. r \in [start: Dates, end: Dates]
          BY <3>1, <4>1
        <4>3. \A d \in r.start .. r.end :
                  d \in start .. end /\ IsClosedOn(location, d)
          BY <3>1, <3>3, <4>1 DEF Longest, Unbroken
        <4>4. ~(r.start - 1 \in start .. end /\ IsClosedOn(location, r.start - 1))
          BY <3>1, <3>3, <4>1 DEF Longest, Unbroken
        <4>5. ~(r.end + 1 \in start .. end /\ IsClosedOn(location, r.end + 1))
          BY <3>1, <3>3, <4>1 DEF Longest
        <4>. QED BY <2>2, <4>1, <4>2, <4>3, <4>4, <4>5
      <3>4. ASSUME NEW r \in ranges
            PROVE  r \in Period /\ Longest(location, start, end, r)
        <4>1. /\ r \in [start: Dates, end: Dates]
              /\ r.start <= r.end
              /\ \A d \in r.start .. r.end :
                     d \in start .. end /\ IsClosedOn(location, d)
              /\ ~(r.start - 1 \in start .. end /\ IsClosedOn(location, r.start - 1))
              /\ ~(r.end + 1 \in start .. end /\ IsClosedOn(location, r.end + 1))
          BY <2>2, <3>4
        <4>2. r.start \in Nat /\ r.end \in Nat /\ r \in Period
          BY <2>1, <4>1 DEF Period
        <4>3. r.start \in start .. end /\ r.end \in start .. end
          BY <4>1, <4>2
        <4>4. Unbroken(location, start, r)
          BY <3>1, <4>1, <4>2, <4>3 DEF Unbroken
        <4>5. r.end = end \/ ~IsClosedOn(location, r.end + 1)
          BY <3>1, <4>1, <4>2, <4>3
        <4>. QED BY <3>1, <4>2, <4>3, <4>4, <4>5 DEF Longest
      <3>. QED BY <3>2, <3>3, <3>4 DEF Ordered
    <2>. QED BY <2>2 DEF PeriodsAreTheClosedRanges
  <1>. QED BY <1>1, PTL

-----------------------------------------------------------------------------
(* The next open date.                                                     *)

\* Weekdays listed in order read the same by position and by name.
LEMMA WeekdaysReadAlike ==
    ASSUME Good, NEW d \in Int,
           \A n \in DOMAIN location.opening_weekdays :
               location.opening_weekdays[n].weekday = n - 1
    PROVE  IsNormallyOpen(location, d) <=>
               ~(Weekday(d) \in ClosedWeekdays(location))
  <1>. DEFINE w == location.opening_weekdays
              n == Weekday(d) + 1
  <1>1. w \in Seq(OpeningWeekday) /\ Len(w) = Week
    BY DEF Good, Calendar, WeekdaysAccepted
  <1>2. /\ DOMAIN w = 1 .. Week /\ Week \in Nat
        /\ \A m \in DOMAIN w : w[m] \in OpeningWeekday
    BY <1>1
  <1>3. n \in DOMAIN w /\ n - 1 = Weekday(d) /\ Weekday(d) \in Int
    <2>1. Weekday(d) \in 0 .. Week - 1
      BY WeekdayType
    <2>2. \A k \in 0 .. Week - 1 : k + 1 \in 1 .. Week /\ (k + 1) - 1 = k
      BY <1>2
    <2>. HIDE DEF w
    <2>. QED BY <1>2, <2>1, <2>2
  <1>4. Weekday(d) \in ClosedWeekdays(location) <=>
            \E m \in DOMAIN w : ~w[m].is_open /\ w[m].weekday = Weekday(d)
    BY DEF ClosedWeekdays
  <1>5. \A m \in DOMAIN w : w[m].weekday = Weekday(d) <=> m = n
    BY <1>2, <1>3
  <1>6. IsNormallyOpen(location, d) = w[n].is_open
    BY DEF IsNormallyOpen
  <1>. HIDE DEF n, w
  <1>. QED BY <1>3, <1>4, <1>5, <1>6

LEMMA DatesReadAlike ==
    ASSUME Good, NEW d \in Int,
           \A n \in DOMAIN location.opening_weekdays :
               location.opening_weekdays[n].weekday = n - 1
    PROVE  IsOpenOn(location, d) <=> ~IsClosedOn(location, d)
  <1>. DEFINE e == location.opening_exceptions
  <1>1. /\ location \in Calendar /\ InTurn(e)
        /\ \A n \in DOMAIN e : e[n].is_open \in BOOLEAN
    BY ExceptionsType DEF Good, Calendar
  <1>2. CASE \E n \in DOMAIN e : IsInInterval(d, e[n])
    <2>1. PICK n \in DOMAIN e : IsInInterval(d, e[n])
      BY <1>2
    <2>2. /\ IsOpenOn(location, d) = e[n].is_open
          /\ IsClosedOn(location, d) = ~e[n].is_open
      BY <1>1, <2>1, Readings
    <2>. QED BY <2>2
  <1>3. CASE \A n \in DOMAIN e : ~IsInInterval(d, e[n])
    <2>1. /\ IsOpenOn(location, d) = IsNormallyOpen(location, d)
          /\ IsClosedOn(location, d) = (Weekday(d) \in ClosedWeekdays(location))
      BY <1>1, <1>3, Readings
    <2>. QED BY <2>1, WeekdaysReadAlike
  <1>. QED BY <1>2, <1>3

LEMMA NextOpenIsFirst ==
    ASSUME NEW l, NEW d \in Nat, NEW next, next = FindNextOpenDate(l, d),
           next # NoDate
    PROVE  /\ next \in Nat /\ d <= next /\ IsOpenOn(l, next)
           /\ \A x \in d .. next - 1 : ~IsOpenOn(l, x)
  <1>. DEFINE open == {x \in d .. d + Horizon - 1 : IsOpenOn(l, x)}
  <1>1. open # {} /\ next = Min(open)
    BY DEF FindNextOpenDate
  <1>2. open \in SUBSET Int /\ d \in Int /\ \A x \in open : d <= x
    BY HorizonAssumption
  <1>. HIDE DEF open
  <1>3. next \in open /\ \A x \in open : next <= x
    BY <1>1, <1>2, MinType
  <1>4. next \in d .. d + Horizon - 1 /\ IsOpenOn(l, next)
    BY <1>3 DEF open
  <1>5. ASSUME NEW x \in d .. next - 1 PROVE ~IsOpenOn(l, x)
    <2>1. x \in d .. d + Horizon - 1 /\ ~(next <= x)
      BY <1>4, HorizonAssumption
    <2>. QED BY <1>3, <2>1 DEF open
  <1>. QED BY <1>4, <1>5, HorizonAssumption

\* Of closed dates up to an open one, the periods are the one range.
LEMMA PeriodsToAnOpenDate ==
    ASSUME NEW l, NEW d \in Nat, NEW next \in Nat, d <= next,
           ~IsClosedOn(l, next), \A x \in d .. next - 1 : IsClosedOn(l, x)
    PROVE  ClosurePeriods(l, d, next) =
               IF next = d THEN <<>> ELSE <<[start |-> d, end |-> next - 1]>>
  <1>. DEFINE periods == ClosurePeriods(l, d, next)
              p == [start |-> d, end |-> next - 1]
  <1>1. AllLongest(l, d, next, periods)
    BY PeriodsAreRight
  <1>. HIDE DEF periods
  <1>2. /\ periods \in Seq(Period)
        /\ \A n \in DOMAIN periods :
               periods[n] \in Period /\ Longest(l, d, next, periods[n])
        /\ \A r \in Period :
               Longest(l, d, next, r) => \E n \in DOMAIN periods : periods[n] = r
        /\ Ordered(periods)
    BY <1>1 DEF AllLongest
  \* the only range there may be
  <1>3. ASSUME NEW r \in Period, Longest(l, d, next, r)
        PROVE  next # d /\ r = p
    <2>1. /\ r.start \in Nat /\ r.end \in Nat
          /\ d <= r.start /\ r.start <= r.end /\ r.end <= next
          /\ IsClosedOn(l, r.end)
          /\ Unbroken(l, d, r)
          /\ r.end = next \/ ~IsClosedOn(l, r.end + 1)
      BY <1>3 DEF Period, Longest, Unbroken
    <2>2. r.end = next - 1
      BY <2>1
    <2>3. d <= next - 1 /\ next - 1 \in Nat
      BY <2>1, <2>2
    <2>4. p \in Period /\ p.start = d /\ p.end = next - 1
      BY <2>3 DEF Period
    <2>5. Unbroken(l, d, p)
      BY <2>3, <2>4 DEF Unbroken
    <2>. HIDE DEF p
    <2>6. r = p
      BY <2>1, <2>2, <2>4, <2>5, SameEnd
    <2>. QED BY <2>3, <2>6
  <1>4. /\ DOMAIN periods = 1 .. Len(periods) /\ Len(periods) \in Nat
    BY <1>2
  <1>5. CASE next = d
    <2>1. DOMAIN periods = {}
      BY <1>2, <1>3, <1>5
    <2>2. periods = <<>>
      BY <1>2, <1>4, <2>1
    <2>. QED BY <1>5, <2>2 DEF periods
  <1>6. CASE next # d
    <2>1. d <= next - 1 /\ next - 1 \in Nat
      BY <1>6
    <2>2. p \in Period /\ p.start = d /\ p.end = next - 1
      BY <2>1 DEF Period
    <2>3. Longest(l, d, next, p)
      BY <2>1, <2>2 DEF Longest, Unbroken
    <2>. HIDE DEF p
    <2>4. PICK n \in DOMAIN periods : periods[n] = p
      BY <1>2, <2>2, <2>3
    <2>5. \A m \in DOMAIN periods : periods[m] = p
      BY <1>2, <1>3
    <2>6. Len(periods) = 1
      <3>. SUFFICES ASSUME Len(periods) # 1 PROVE FALSE
        OBVIOUS
      <3>1. 1 \in 1 .. Len(periods) - 1 /\ 1 \in DOMAIN periods /\ 2 \in DOMAIN periods
        BY <1>4, <2>4
      <3>2. periods[1].end < periods[1 + 1].start
        BY <1>2, <3>1 DEF Ordered
      <3>. QED BY <2>1, <2>2, <2>5, <3>1, <3>2
    <2>7. periods = <<p>>
      BY <1>2, <1>4, <2>5, <2>6
    <2>. QED BY <1>6, <2>7 DEF periods, p
  <1>. QED BY <1>5, <1>6

\* A loan that would end on a closed date ends right after the closure period
\* that users are shown, when the weekdays are listed in order.
THEOREM ClosuresAreAvoided == LocationSpec => []AvoidsClosuresInWeekOrder
  <1>1. Good => AvoidsClosuresInWeekOrder
    <2>. SUFFICES ASSUME Good,
                         \A n \in DOMAIN location.opening_weekdays :
                             location.opening_weekdays[n].weekday = n - 1,
                         NEW d \in Dates, NEW next,
                         next = FindNextOpenDate(location, d), next # NoDate
                  PROVE  ClosurePeriods(location, d, next) =
                             IF next = d THEN <<>>
                             ELSE <<[start |-> d, end |-> next - 1]>>
      BY DEF AvoidsClosuresInWeekOrder, AvoidsClosures
    <2>1. d \in Nat
      BY LastDayAssumption DEF Dates
    <2>2. /\ next \in Nat /\ d <= next /\ IsOpenOn(location, next)
          /\ \A x \in d .. next - 1 : ~IsOpenOn(location, x)
      BY <2>1, NextOpenIsFirst
    <2>3. \A x \in Int : IsOpenOn(location, x) <=> ~IsClosedOn(location, x)
      BY DatesReadAlike
    <2>4. /\ ~IsClosedOn(location, next)
          /\ \A x \in d .. next - 1 : IsClosedOn(location, x)
      BY <2>1, <2>2, <2>3
    <2>. QED BY <2>1, <2>2, <2>4, PeriodsToAnOpenDate
  <1>. QED BY <1>1, LocationInvariant, PTL

-----------------------------------------------------------------------------
(* What LoanDates makes of a location.                                     *)

\* the calendar of a location, in LoanDates
OpenDates(l) == {d \in Dates : IsOpenOn(l, d)}

\* The end dates LoanDates gives are those of find_next_open_date, whatever the
\* location's weekdays and exceptions: if the days it looks at go as far as the
\* dates of the model, an end date is found exactly when one of those is open,
\* and it is the same.
THEOREM NextOpenDateIsFound ==
    ASSUME NEW l, NEW date \in Nat, LastDay < date + Horizon
    PROVE  NextOpenDate(OpenDates(l), date) = {FindNextOpenDate(l, date)} \cap Dates
  <1>. DEFINE open == {x \in date .. date + Horizon - 1 : IsOpenOn(l, x)}
              next == FindNextOpenDate(l, date)
  <1>1. next = IF open = {} THEN NoDate ELSE Min(open)
    BY DEF FindNextOpenDate
  <1>2. \A x : x \in OpenDates(l) /\ x >= date <=> x \in open /\ x \in Dates
    BY HorizonAssumption, LastDayAssumption DEF OpenDates, Dates
  <1>3. open \in SUBSET Int /\ date \in Int /\ \A x \in open : date <= x
    BY HorizonAssumption
  <1>4. NoDate \notin Dates /\ Dates \in SUBSET Int
    BY LastDayAssumption DEF NoDate, Dates
  <1>. HIDE DEF open, next
  <1>5. CASE open = {}
    <2>1. NextOpenDate(OpenDates(l), date) = {}
      BY <1>2, <1>5 DEF NextOpenDate
    <2>. QED BY <1>1, <1>4, <1>5, <2>1 DEF next
  <1>6. CASE open # {}
    <2>1. next \in open /\ \A x \in open : next <= x
      BY <1>1, <1>3, <1>6, MinType
    <2>2. \A x \in open : x \in Dates => next \in Dates
      <3>1. next \in Int /\ date <= next /\ open \in SUBSET Int
        BY <1>3, <2>1
      <3>. QED BY <2>1, <3>1, LastDayAssumption DEF Dates
    <2>3. ASSUME NEW d \in NextOpenDate(OpenDates(l), date)
          PROVE  d = next /\ next \in Dates
      <3>1. d \in OpenDates(l) /\ d >= date
            /\ \A e \in OpenDates(l) : e >= date => d <= e
        BY DEF NextOpenDate
      <3>2. d \in open /\ d \in Dates
        BY <1>2, <3>1
      <3>3. next \in Dates /\ next <= d
        BY <2>1, <2>2, <3>2
      <3>4. d <= next
        BY <1>2, <2>1, <3>1, <3>3
      <3>. QED BY <1>4, <3>2, <3>3, <3>4
    <2>4. ASSUME next \in Dates
          PROVE  next \in NextOpenDate(OpenDates(l), date)
      <3>1. next \in OpenDates(l) /\ next >= date
        BY <1>2, <2>1, <2>4
      <3>2. \A e \in OpenDates(l) : e >= date => next <= e
        BY <1>2, <2>1
      <3>. QED BY <3>1, <3>2 DEF NextOpenDate
    <2>. QED BY <2>3, <2>4 DEF next
  <1>. QED BY <1>5, <1>6

-----------------------------------------------------------------------------
(* Types of LoanDates.                                                     *)

\* find_next_open_date returns a date the location is open on.
LEMMA NextOpenDateIsOpen ==
    \A open, date : NextOpenDate(open, date) \subseteq open
  BY DEF NextOpenDate

LEMMA LoanInitType == Init => TypeOK
  <1>. SUFFICES ASSUME Init PROVE TypeOK
    OBVIOUS
  <1>1. 0 \in Dates
    BY LastDayAssumption DEF Dates
  <1>2. [state |-> "NONE", end_date |-> 0] \in Loan
    BY <1>1 DEF Loan
  <1>3. loans \in [Loans -> Loan] /\ indexed \in [Loans -> Loan]
    BY <1>2 DEF Init
  <1>4. hits \in [Loans -> Dates \cup {None}] /\ moved \in [Loans -> Dates \cup {None}]
    BY DEF Init, NoDates
  <1>. QED BY <1>1, <1>3, <1>4 DEF Init, TypeOK

\* What a handler saves is a loan.
LEMMA SaveType ==
    ASSUME TypeOK, NEW l \in Loans, NEW loan \in Loan, Save(l, loan)
    PROVE  TypeOK'
  <1>1. loans' \in [Loans -> Loan] /\ indexed' \in [Loans -> Loan]
    BY DEF TypeOK, Save
  <1>2. UNCHANGED <<calendar, scheduled, running, read, hits, moved, lastRun, today>>
    BY DEF Save, task
  <1>. QED BY <1>1, <1>2 DEF TypeOK

\* The type of the tables and of what the task keeps is kept by every step.
LEMMA LoanNextType == TypeOK /\ [Next]_vars => TypeOK'
  <1>. SUFFICES ASSUME TypeOK, [Next]_vars PROVE TypeOK'
    OBVIOUS
  <1>0. calendar \subseteq Dates /\ read \subseteq Dates
    BY CalendarsAssumption DEF TypeOK
  <1>1. ASSUME NEW l \in Loans, Checkout(l) PROVE TypeOK'
    <2>0. PICK date \in Dates :
              \E end \in NextOpenDate(calendar, date) :
                  Save(l, [state |-> Active, end_date |-> end])
      BY <1>1 DEF Checkout
    <2>1. PICK end \in NextOpenDate(calendar, date) :
              Save(l, [state |-> Active, end_date |-> end])
      BY <2>0
    <2>2. end \in Dates
      BY <2>1, <1>0, NextOpenDateIsOpen
    <2>3. [state |-> Active, end_date |-> end] \in Loan
      BY <2>2 DEF Loan
    <2>. QED BY <2>1, <2>3, SaveType
  <1>2. ASSUME NEW l \in Loans, Extend(l) PROVE TypeOK'
    <2>1. PICK end \in NextOpenDate(calendar, ExtensionStart(l) + Duration) :
              Save(l, [loans[l] EXCEPT !.end_date = end])
      BY <1>2 DEF Extend
    <2>2. end \in Dates
      BY <2>1, <1>0, NextOpenDateIsOpen
    <2>3. [loans[l] EXCEPT !.end_date = end] \in Loan
      BY <2>2 DEF TypeOK, Loan
    <2>. QED BY <2>1, <2>3, SaveType
  <1>3. ASSUME NEW l \in Loans, Close(l) PROVE TypeOK'
    <2>1. [loans[l] EXCEPT !.state = "ITEM_RETURNED"] \in Loan
      BY DEF TypeOK, Loan
    <2>. QED BY <1>3, <2>1, SaveType DEF Close
  <1>4. ASSUME NEW l \in Loans, NEW date \in Dates, UpdateDatesLoan(l, date)
        PROVE  TypeOK'
    <2>1. [loans[l] EXCEPT !.end_date = date] \in Loan
      BY DEF TypeOK, Loan
    <2>. QED BY <1>4, <2>1, SaveType DEF UpdateDatesLoan
  <1>5. ASSUME NEW l \in Loans, ExtendHit(l) PROVE TypeOK'
    <2>1. PICK open \in {read, calendar} : MoveHit(l, open)
      BY <1>5 DEF ExtendHit
    <2>2. PICK date \in NextOpenDate(open, hits[l]) :
              \/ UNCHANGED <<moved, indexed>>
              \/ /\ moved' = [moved EXCEPT ![l] = date]
                 /\ indexed' = [indexed EXCEPT ![l] =
                        [loans[l] EXCEPT !.end_date = date]]
      BY <2>1 DEF MoveHit
    <2>3. date \in Dates
      BY <2>1, <2>2, <1>0, NextOpenDateIsOpen
    <2>4. [loans[l] EXCEPT !.end_date = date] \in Loan
      BY <2>3 DEF TypeOK, Loan
    <2>5. moved' \in [Loans -> Dates \cup {None}] /\ indexed' \in [Loans -> Loan]
      BY <2>2, <2>3, <2>4 DEF TypeOK
    <2>6. hits' \in [Loans -> Dates \cup {None}]
      BY <1>5 DEF ExtendHit, TypeOK
    <2>. QED BY <1>5, <2>5, <2>6 DEF ExtendHit, TypeOK
  <1>6. CASE UpdateCalendar
    BY <1>6 DEF UpdateCalendar, NotifyLocationUpdated, TypeOK, task
  <1>7. CASE StartTask
    <2>1. hits' \in [Loans -> Dates \cup {None}]
      BY <1>7 DEF StartTask, TypeOK, Loan
    <2>. QED BY <1>7, <2>1 DEF StartTask, TypeOK
  <1>8. CASE FinishTask
    <2>1. \A l \in Loans : Committed(l) \in Loan
      BY DEF Committed, TypeOK, Loan
    <2>2. loans' \in [Loans -> Loan]
      BY <1>8, <2>1 DEF FinishTask
    <2>. QED BY <1>8, <2>2 DEF FinishTask, TypeOK, NoDates
  <1>9. CASE AbortTask
    BY <1>9 DEF AbortTask, TypeOK, NoDates
  <1>10. CASE NextDay
    BY <1>10, LastDayAssumption DEF NextDay, Tomorrow, TypeOK, task, Dates
  <1>11. CASE UNCHANGED vars
    BY <1>11 DEF vars, task, TypeOK
  <1>. QED
    BY <1>1, <1>2, <1>3, <1>4, <1>5, <1>6, <1>7, <1>8, <1>9, <1>10, <1>11
       DEF Next, Work

\* Every reachable state of loans, index, calendar and task has its type.
THEOREM LoanTypes == Spec => []TypeOK
  BY LoanInitType, LoanNextType, PTL DEF Spec

\* Librarians who look at the calendar do nothing others could not.
LEMMA CarefulStep == TypeOK /\ [CarefulNext]_vars => [Next]_vars
  BY CalendarsAssumption DEF TypeOK, CarefulNext, Next

LEMMA CarefulType == CarefulSpec => []TypeOK
  BY LoanInitType, LoanNextType, CarefulStep, PTL DEF CarefulSpec

-----------------------------------------------------------------------------
(* No loan is forgotten. A run reads the calendar when it starts and again  *)
(* hit by hit; if nothing is scheduled after it, the two are the same, and  *)
(* each loan is settled already, still among the hits with its own date, or *)
(* written with an open one.                                               *)

\* nothing to do about the loan, or its index entry is not to be relied on
Settled(l) == EndsOnClosure(l) => indexed[l] # loans[l]

\* how far the run has come with the loan
Underway(l) ==
    /\ moved[l] # None => moved[l] \in calendar
    /\ moved[l] = None =>
           Settled(l) \/ (hits[l] # None /\ hits[l] = loans[l].end_date)

RunInv ==
    /\ running /\ ~scheduled => read = calendar /\ \A l \in Loans : Underway(l)
    /\ ~running => hits = NoDates /\ moved = NoDates

RunInvariant == TypeOK /\ NoLoanForgotten /\ RunInv

\* A handler's loan is closed or ends on an open day, and the index gets it.
LEMMA SaveKeeps ==
    ASSUME RunInvariant, NEW l \in Loans, NEW loan \in Loan, Save(l, loan),
           loan.state = Active => loan.end_date \in calendar
    PROVE  NoLoanForgotten' /\ RunInv'
  <1>1. UNCHANGED <<calendar, scheduled, running, read, hits, moved, lastRun>>
    BY DEF Save, task
  <1>2. /\ moved[l] = None
        /\ loans'[l] = loan
        /\ \A m \in Loans \ {l} : loans'[m] = loans[m] /\ indexed'[m] = indexed[m]
    BY DEF Save, RunInvariant, TypeOK
  <1>3. ~EndsOnClosure(l)'
    BY <1>1, <1>2 DEF EndsOnClosure
  <1>4. \A m \in Loans \ {l} : EndsOnClosure(m)' <=> EndsOnClosure(m)
    BY <1>1, <1>2 DEF EndsOnClosure
  <1>5. NoLoanForgotten'
    BY <1>1, <1>2, <1>3, <1>4 DEF RunInvariant, NoLoanForgotten, Attended
  <1>6. ASSUME NEW m \in Loans, Underway(m) PROVE Underway(m)'
    <2>1. CASE m = l
      BY <2>1, <1>1, <1>2, <1>3 DEF Underway, Settled
    <2>2. CASE m # l
      BY <2>2, <1>6, <1>1, <1>2, <1>4 DEF Underway, Settled
    <2>. QED BY <2>1, <2>2
  <1>. QED BY <1>1, <1>5, <1>6 DEF RunInvariant, RunInv, NoDates

\* The run begins with every active loan the index knows of among its hits.
LEMMA StartKeeps == RunInvariant /\ StartTask => RunInv' /\ NoLoanForgotten'
  <1>. SUFFICES ASSUME RunInvariant, StartTask PROVE RunInv' /\ NoLoanForgotten'
    OBVIOUS
  <1>1. /\ UNCHANGED <<loans, indexed, calendar, moved>>
        /\ running' /\ read' = calendar /\ ~running
        /\ \A l \in Loans : hits'[l] =
               IF indexed[l].state = Active THEN indexed[l].end_date ELSE None
    BY DEF StartTask
  <1>2. ASSUME NEW l \in Loans PROVE Underway(l)'
    <2>1. moved'[l] = None
      BY <1>1 DEF RunInvariant, RunInv, NoDates
    <2>2. loans[l].end_date \in Dates
      BY DEF RunInvariant, TypeOK, Loan
    <2>3. ASSUME EndsOnClosure(l), indexed[l] = loans[l]
          PROVE  hits'[l] = loans[l].end_date /\ hits'[l] # None
      BY <1>1, <2>2, <2>3, NoDateAssumption DEF EndsOnClosure
    <2>. QED BY <1>1, <2>1, <2>3 DEF Underway, Settled, EndsOnClosure
  <1>3. Attended'
    BY <1>1 DEF Attended
  <1>. QED BY <1>1, <1>2, <1>3 DEF RunInv, NoLoanForgotten

\* A hit done with has an open date: its own, or the one it was moved to.
LEMMA HitKeeps ==
    ASSUME RunInvariant, NEW l \in Loans, ExtendHit(l)
    PROVE  RunInv' /\ NoLoanForgotten'
  <1>1. /\ UNCHANGED <<loans, calendar, scheduled, running, read, lastRun>>
        /\ hits' = [hits EXCEPT ![l] = None]
        /\ hits[l] # None
    BY DEF ExtendHit
  <1>2. running
    BY <1>1 DEF RunInvariant, RunInv, NoDates
  <1>3. PICK open \in {read, calendar} : MoveHit(l, open)
    BY DEF ExtendHit
  <1>4. PICK date \in NextOpenDate(open, hits[l]) :
            IF date = hits[l]
            THEN UNCHANGED <<moved, indexed>>
            ELSE /\ moved' = [moved EXCEPT ![l] = date]
                 /\ indexed' = [indexed EXCEPT ![l] =
                        [loans[l] EXCEPT !.end_date = date]]
    BY <1>3 DEF MoveHit
  <1>5. date \in open
    BY <1>4, NextOpenDateIsOpen
  <1>6. ASSUME ~scheduled, NEW m \in Loans PROVE Underway(m)'
    <2>1. date \in calendar
      BY <1>2, <1>3, <1>5, <1>6 DEF RunInvariant, RunInv
    <2>2. Underway(m)
      BY <1>2, <1>6 DEF RunInvariant, RunInv
    <2>3. CASE m # l
      <3>1. moved'[m] = moved[m] /\ indexed'[m] = indexed[m] /\ hits'[m] = hits[m]
        BY <1>1, <1>4, <2>3 DEF RunInvariant, TypeOK
      <3>. QED BY <1>1, <2>2, <3>1 DEF Underway, Settled, EndsOnClosure
    <2>4. CASE m = l /\ date = hits[l]
      <3>1. UNCHANGED <<moved, indexed>>
        BY <1>4, <2>4
      <3>2. moved[l] = None => Settled(l)
        BY <2>1, <2>2, <2>4 DEF Underway, Settled, EndsOnClosure
      <3>. QED BY <1>1, <2>2, <2>4, <3>1, <3>2
               DEF Underway, Settled, EndsOnClosure
    <2>5. CASE m = l /\ date # hits[l]
      <3>1. moved'[l] = date
        BY <1>4, <2>5 DEF RunInvariant, TypeOK
      <3>2. date # None
        BY <2>1, CalendarsAssumption, NoDateAssumption DEF RunInvariant, TypeOK
      <3>. QED BY <1>1, <2>1, <2>5, <3>1, <3>2 DEF Underway
    <2>. QED BY <2>3, <2>4, <2>5
  <1>7. Attended'
    BY <1>1, <1>2 DEF Attended
  <1>8. scheduled' = scheduled /\ running' /\ (~scheduled => read' = calendar')
    BY <1>1, <1>2 DEF RunInvariant, RunInv
  <1>. QED BY <1>6, <1>7, <1>8 DEF RunInv, NoLoanForgotten

\* When the run commits, what it has not written was settled before.
LEMMA FinishKeeps == RunInvariant /\ FinishTask => RunInv' /\ NoLoanForgotten'
  <1>. SUFFICES ASSUME RunInvariant, FinishTask PROVE RunInv' /\ NoLoanForgotten'
    OBVIOUS
  <1>1. /\ UNCHANGED <<indexed, calendar, scheduled, hits>>
        /\ running /\ ~running' /\ hits = NoDates /\ moved' = NoDates
        /\ \A l \in Loans : loans'[l] = Committed(l)
    BY DEF FinishTask
  <1>2. ASSUME ~scheduled, NEW l \in Loans PROVE Settled(l)'
    <2>1. Underway(l) /\ hits[l] = None
      BY <1>1, <1>2 DEF RunInvariant, RunInv, NoDates
    <2>2. CASE moved[l] = None
      <3>1. loans'[l] = loans[l]
        BY <1>1, <2>2 DEF Committed
      <3>. QED BY <1>1, <2>1, <2>2, <3>1 DEF Underway, Settled, EndsOnClosure
    <2>3. CASE moved[l] # None
      <3>1. loans'[l].end_date = moved[l]
        BY <1>1, <2>3 DEF Committed, RunInvariant, TypeOK, Loan
      <3>. QED BY <1>1, <2>1, <2>3, <3>1 DEF Underway, Settled, EndsOnClosure
    <2>. QED BY <2>2, <2>3
  <1>3. scheduled => Attended'
    BY <1>1 DEF Attended
  <1>. QED BY <1>1, <1>2, <1>3 DEF RunInv, NoLoanForgotten, Settled

LEMMA InvStep == RunInvariant /\ [CarefulNext]_vars => RunInvariant'
  <1>. SUFFICES ASSUME RunInvariant, [CarefulNext]_vars PROVE RunInvariant'
    OBVIOUS
  <1>0. TypeOK'
    BY CarefulStep, LoanNextType DEF RunInvariant
  <1>. SUFFICES RunInv' /\ NoLoanForgotten'
    BY <1>0 DEF RunInvariant
  <1>1. ASSUME NEW l \in Loans, Checkout(l) PROVE RunInv' /\ NoLoanForgotten'
    <2>1. PICK date \in Dates :
              \E end \in NextOpenDate(calendar, date) :
                  Save(l, [state |-> Active, end_date |-> end])
      BY <1>1 DEF Checkout
    <2>2. PICK end \in NextOpenDate(calendar, date) :
              Save(l, [state |-> Active, end_date |-> end])
      BY <2>1
    <2>3. end \in calendar
      BY NextOpenDateIsOpen
    <2>4. [state |-> Active, end_date |-> end] \in Loan
      BY <2>3, CalendarsAssumption DEF Loan, RunInvariant, TypeOK
    <2>. QED BY <2>2, <2>3, <2>4, SaveKeeps
  <1>2. ASSUME NEW l \in Loans, Extend(l) PROVE RunInv' /\ NoLoanForgotten'
    <2>1. PICK end \in NextOpenDate(calendar, ExtensionStart(l) + Duration) :
              Save(l, [loans[l] EXCEPT !.end_date = end])
      BY <1>2 DEF Extend
    <2>2. end \in calendar
      BY NextOpenDateIsOpen
    <2>3. [loans[l] EXCEPT !.end_date = end] \in Loan
      BY <2>2, CalendarsAssumption DEF Loan, RunInvariant, TypeOK
    <2>4. [loans[l] EXCEPT !.end_date = end].end_date = end
      BY DEF Loan, RunInvariant, TypeOK
    <2>. QED BY <2>1, <2>2, <2>3, <2>4, SaveKeeps
  <1>3. ASSUME NEW l \in Loans, Close(l) PROVE RunInv' /\ NoLoanForgotten'
    <2>1. [loans[l] EXCEPT !.state = "ITEM_RETURNED"] \in Loan
      BY DEF Loan, RunInvariant, TypeOK
    <2>2. [loans[l] EXCEPT !.state = "ITEM_RETURNED"].state # Active
      BY DEF Loan, RunInvariant, TypeOK, Active
    <2>. QED BY <1>3, <2>1, <2>2, SaveKeeps DEF Close
  <1>4. ASSUME NEW l \in Loans, NEW date \in calendar, UpdateDatesLoan(l, date)
        PROVE  RunInv' /\ NoLoanForgotten'
    <2>1. [loans[l] EXCEPT !.end_date = date] \in Loan
      BY CalendarsAssumption DEF Loan, RunInvariant, TypeOK
    <2>2. [loans[l] EXCEPT !.end_date = date].end_date = date
      BY DEF Loan, RunInvariant, TypeOK
    <2>. QED BY <1>4, <2>1, <2>2, SaveKeeps DEF UpdateDatesLoan
  <1>5. ASSUME NEW l \in Loans, ExtendHit(l) PROVE RunInv' /\ NoLoanForgotten'
    BY <1>5, HitKeeps
  <1>6. CASE UpdateCalendar
    <2>1. scheduled' /\ UNCHANGED <<running, hits, moved>>
      BY <1>6 DEF UpdateCalendar, NotifyLocationUpdated, task
    <2>2. RunInv'
      BY <2>1 DEF RunInvariant, RunInv, NoDates
    <2>. QED BY <2>1, <2>2 DEF NoLoanForgotten, Attended
  <1>7. CASE StartTask
    BY <1>7, StartKeeps
  <1>8. CASE FinishTask
    BY <1>8, FinishKeeps
  <1>9. CASE AbortTask
    BY <1>9 DEF AbortTask, RunInv, NoLoanForgotten, Attended, NoDates
  <1>10. CASE NextDay \/ UNCHANGED vars
    <2>1. UNCHANGED <<loans, indexed, calendar, scheduled, running, read, hits,
                      moved, lastRun>>
      BY <1>10 DEF NextDay, Tomorrow, vars, task
    <2>. QED BY <2>1 DEF RunInvariant, RunInv, NoLoanForgotten, Underway, Settled,
                         EndsOnClosure, Attended, NoDates
  <1>. QED
    BY <1>1, <1>2, <1>3, <1>4, <1>5, <1>6, <1>7, <1>8, <1>9, <1>10
       DEF CarefulNext, Work

\* If librarians' own dates are open ones, no active loan is left to end on
\* a closed day once the runs that are due have succeeded, however lending,
\* extensions, returns and further changes of the calendar race with them.
THEOREM NoneForgotten == CarefulSpec => []NoLoanForgotten
  <1>1. Init => RunInvariant
    <2>. SUFFICES ASSUME Init PROVE RunInvariant
      OBVIOUS
    <2>1. \A l \in Loans : ~EndsOnClosure(l)
      BY DEF Init, EndsOnClosure, Active
    <2>2. RunInv
      BY DEF Init, RunInv
    <2>. QED BY <2>1, <2>2, LoanInitType DEF RunInvariant, NoLoanForgotten
  <1>2. RunInvariant => NoLoanForgotten
    BY DEF RunInvariant
  <1>. QED BY <1>1, <1>2, InvStep, PTL DEF CarefulSpec
=============================================================================
