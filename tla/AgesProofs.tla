------------------------------ MODULE AgesProofs ------------------------------
(***************************************************************************)
(* Theorems about Ages: for every calendar, every set of birthdays and of  *)
(* bounds.                                                                 *)
(***************************************************************************)
EXTENDS Ages, TLAPS

-----------------------------------------------------------------------------
(* Dates.                                                                  *)

\* What is left to know of a date.
LEMMA DateFields ==
  ASSUME NEW r, IsDate(r)
  PROVE  r.y \in Int /\ r.m \in Int /\ r.d \in Int /\ r.d <= Days(r.y, r.m)
  <1>1. Days(r.y, r.m) \in Nat
    BY SMT DEF Days
  <1> QED
    BY <1>1, SMT DEF IsDate

\* n years ago was the same month, and the same day but for a leap day.
LEMMA AgoFields ==
  ASSUME NEW now, IsDate(now), NEW n \in Nat
  PROVE  /\ Ago(now, n).y = now.y - n
         /\ Ago(now, n).m = now.m
         /\ Ago(now, n).d \in Int
         /\ Ago(now, n).d <= now.d
         /\ \/ Ago(now, n).d = now.d
            \/ Ago(now, n).d = Days(now.y - n, now.m)
  <1>1. Days(now.y - n, now.m) \in Nat
    BY SMT DEF Days
  <1>2. now.y \in Int /\ now.m \in Int /\ now.d \in Int
    BY DateFields
  <1> QED
    BY <1>1, <1>2, SMT DEF Ago

\* Who was born n years ago or earlier is n at least, and the other way round.
LEMMA AtLeast ==
  ASSUME NEW b, IsDate(b), NEW now, IsDate(now), NEW n \in Nat
  PROVE  Until(b, Ago(now, n)) <=> Age(b, now) >= n
  <1>1. b.y \in Int /\ b.m \in Int /\ b.d \in Int /\ b.d <= Days(b.y, b.m)
    BY DateFields
  <1>2. now.y \in Int /\ now.m \in Int /\ now.d \in Int
    BY DateFields
  <1>3. /\ Ago(now, n).y = now.y - n
        /\ Ago(now, n).m = now.m
        /\ Ago(now, n).d \in Int
        /\ Ago(now, n).d <= now.d
        /\ \/ Ago(now, n).d = now.d
           \/ Ago(now, n).d = Days(now.y - n, now.m)
    BY AgoFields
  <1>4. b.y = now.y - n /\ b.m = now.m => b.d <= Days(now.y - n, now.m)
    BY <1>1
  <1> QED
    BY <1>1, <1>2, <1>3, <1>4, SMT DEF Until, Age

\* Who was born n years ago or later is n at most; and who is not, and yet n at
\* most, is n and has no birthday today.
LEMMA AtMost ==
  ASSUME NEW b, IsDate(b), NEW now, IsDate(now), NEW n \in Nat
  PROVE  /\ Until(Ago(now, n), b) => Age(b, now) <= n
         /\ ~Until(Ago(now, n), b) /\ Age(b, now) <= n
              => Age(b, now) = n /\ (now.m # b.m \/ now.d # b.d)
  <1>1. b.y \in Int /\ b.m \in Int /\ b.d \in Int
    BY DateFields
  <1>2. now.y \in Int /\ now.m \in Int /\ now.d \in Int
    BY DateFields
  <1>3. /\ Ago(now, n).y = now.y - n
        /\ Ago(now, n).m = now.m
        /\ Ago(now, n).d \in Int
        /\ Ago(now, n).d <= now.d
    BY AgoFields
  <1> QED
    BY <1>1, <1>2, <1>3, SMT DEF Until, Age

-----------------------------------------------------------------------------
(* The invariant.                                                          *)

\* The stored age is the difference of the years on the day of the last save.
SavedAge ==
  \A u \in Registered :
    users[u].age = users[u].saved.y - users[u].birthday.y

AgesInv == TypeOK /\ SavedAge

LEMMA RowFields ==
  ASSUME TypeOK, NEW u \in Registered
  PROVE  /\ IsDate(users[u].birthday) /\ IsDate(users[u].saved) /\ IsDate(today)
         /\ users[u].birthday \in Birthdays
  BY AgesAssumption DEF TypeOK, Registered, Row

LEMMA InitAges == Init => AgesInv
  BY DEF Init, AgesInv, TypeOK, SavedAge, Registered

\* Saving a row sets its age on the day it is saved.
LEMMA SaveAges ==
  ASSUME AgesInv, NEW u \in Users, NEW b \in Birthdays, Save(u, b)
  PROVE  AgesInv'
  <1> USE DEF AgesInv
  <1>1. IsDate(b) /\ IsDate(today) /\ today \in Calendar
    BY AgesAssumption DEF TypeOK
  <1>2. StoredAge(b, today) \in Int
    BY <1>1, DateFields, SMT DEF StoredAge
  <1> DEFINE row == [birthday |-> b, age |-> StoredAge(b, today), saved |-> today]
  <1>3. row \in Row
    BY <1>1, <1>2 DEF Row
  <1>4. users' = [users EXCEPT ![u] = row] /\ today' = today
    BY DEF Save
  <1>5. users \in [Users -> Row \cup {None}]
    BY DEF TypeOK
  <1> HIDE DEF row
  <1>6. TypeOK'
    BY <1>3, <1>4, <1>5 DEF TypeOK
  <1>7. SavedAge'
    <2> SUFFICES ASSUME NEW v \in Users, users'[v] # None
                 PROVE  users'[v].age = users'[v].saved.y - users'[v].birthday.y
      BY DEF SavedAge, Registered
    <2>1. CASE v = u
      BY <2>1, <1>4, <1>5 DEF row, StoredAge
    <2>2. CASE v # u
      BY <2>2, <1>4, <1>5 DEF SavedAge, Registered
    <2> QED BY <2>1, <2>2
  <1> QED BY <1>6, <1>7

LEMMA NextAges == AgesInv /\ [Next]_vars => AgesInv'
  <1> SUFFICES ASSUME AgesInv, [Next]_vars PROVE AgesInv'
    OBVIOUS
  <1>1. CASE Pass
    BY <1>1 DEF Pass, AgesInv, TypeOK, SavedAge, Registered
  <1>2. CASE \E u \in Users, b \in Birthdays : Save(u, b)
    BY <1>2, SaveAges
  <1>3. CASE UNCHANGED vars
    BY <1>3 DEF vars, AgesInv, TypeOK, SavedAge, Registered
  <1> QED BY <1>1, <1>2, <1>3 DEF Next

\* Type correctness, and the stored age as the difference of two years, are
\* kept by every save and by the passing of time.
THEOREM AgesInvariance == Spec => []AgesInv
  <1>1. Init => AgesInv
    BY InitAges
  <1>2. AgesInv /\ [Next]_vars => AgesInv'
    BY NextAges
  <1> QED BY <1>1, <1>2, PTL DEF Spec

\* The row of a user holds a birthday, an age and the day of the last save.
THEOREM AgesTypeCorrect == Spec => []TypeOK
  <1>1. AgesInv => TypeOK
    BY DEF AgesInv
  <1> QED BY <1>1, AgesInvariance, PTL

-----------------------------------------------------------------------------
(* Searching.                                                              *)

LEMMA BoundsOrdered ==
  ASSUME NEW a \in Nat, NEW b \in Nat
  PROVE  /\ Least(a, b) \in Nat /\ Greatest(a, b) \in Nat
         /\ Least(a, b) <= Greatest(a, b)
  BY SMT DEF Least, Greatest

LEMMA AgeIsInt ==
  ASSUME NEW b, IsDate(b), NEW now, IsDate(now)
  PROVE  Age(b, now) \in Int
  BY DateFields, SMT DEF Age

\* A search by age finds nobody outside its bounds, whatever the dates.
THEOREM SearchFindsNoStrangerTheorem == Spec => []SearchFindsNoStranger
  <1>1. TypeOK => SearchFindsNoStranger
    <2> SUFFICES ASSUME TypeOK, NEW u \in Registered,
                        NEW min \in Bounds, NEW max \in Bounds,
                        Found(users[u].birthday, min, max, today)
                 PROVE  /\ Least(min, max) <= Age(users[u].birthday, today)
                        /\ Age(users[u].birthday, today) <= Greatest(min, max)
      BY DEF SearchFindsNoStranger
    <2>1. IsDate(users[u].birthday) /\ IsDate(today)
      BY RowFields
    <2>2. Least(min, max) \in Nat /\ Greatest(min, max) \in Nat
      BY AgesAssumption, BoundsOrdered
    <2>3. Age(users[u].birthday, today) >= Least(min, max)
      BY <2>1, <2>2, AtLeast DEF Found
    <2>4. Age(users[u].birthday, today) <= Greatest(min, max)
      BY <2>1, <2>2, AtMost DEF Found
    <2>5. Age(users[u].birthday, today) \in Int
      BY <2>1, AgeIsInt
    <2> QED BY <2>2, <2>3, <2>4, <2>5, SMT
  <1> QED BY <1>1, AgesTypeCorrect, PTL

\* It misses none inside but users of the highest age, whose birthday was before.
THEOREM SearchMissesTheOldestTheorem == Spec => []SearchMissesTheOldest
  <1>1. TypeOK => SearchMissesTheOldest
    <2> SUFFICES ASSUME TypeOK, NEW u \in Registered,
                        NEW min \in Bounds, NEW max \in Bounds,
                        Least(min, max) <= Age(users[u].birthday, today),
                        Age(users[u].birthday, today) <= Greatest(min, max),
                        ~Found(users[u].birthday, min, max, today)
                 PROVE  /\ Age(users[u].birthday, today) = Greatest(min, max)
                        /\ \/ today.m # users[u].birthday.m
                           \/ today.d # users[u].birthday.d
      BY DEF SearchMissesTheOldest
    <2>1. IsDate(users[u].birthday) /\ IsDate(today)
      BY RowFields
    <2>2. Least(min, max) \in Nat /\ Greatest(min, max) \in Nat
      BY AgesAssumption, BoundsOrdered
    <2>3. Age(users[u].birthday, today) \in Int
      BY <2>1, AgeIsInt
    <2>4. Age(users[u].birthday, today) >= Least(min, max)
      BY <2>2, <2>3, SMT
    <2>5. Until(users[u].birthday, Ago(today, Least(min, max)))
      BY <2>1, <2>2, <2>4, AtLeast
    <2>6. ~Until(Ago(today, Greatest(min, max)), users[u].birthday)
      BY <2>5 DEF Found
    <2> QED BY <2>1, <2>2, <2>6, AtMost
  <1> QED BY <1>1, AgesTypeCorrect, PTL

-----------------------------------------------------------------------------
(* The stored age.                                                         *)

\* The stored age differs from the age by the turns of the year since the last
\* save, and by one until the birthday of the year.
THEOREM StoredAgeDriftsTheorem == Spec => []StoredAgeDrifts
  <1>1. AgesInv => StoredAgeDrifts
    <2> SUFFICES ASSUME AgesInv, NEW u \in Registered
                 PROVE  Age(users[u].birthday, today) - users[u].age
                          \in {today.y - users[u].saved.y - 1,
                               today.y - users[u].saved.y}
      BY DEF StoredAgeDrifts
    <2>1. /\ IsDate(users[u].birthday) /\ IsDate(users[u].saved) /\ IsDate(today)
      BY RowFields DEF AgesInv
    <2>2. users[u].age = users[u].saved.y - users[u].birthday.y
      BY DEF AgesInv, SavedAge
    <2>3. /\ users[u].birthday.y \in Int /\ users[u].saved.y \in Int
          /\ today.y \in Int
      BY <2>1, DateFields
    <2>4. Age(users[u].birthday, today)
            \in {today.y - users[u].birthday.y - 1, today.y - users[u].birthday.y}
      BY <2>3, SMT DEF Age
    <2> QED BY <2>2, <2>3, <2>4, SMT
  <1> QED BY <1>1, AgesInvariance, PTL

-----------------------------------------------------------------------------
(* What the three ways compute, for any dates.                             *)

\* The birthday n years on, as the calendar names it: who was born on a leap
\* day has it between the 28th of February and the 1st of March of every year.
Anniversary(b, n) == [y |-> b.y + n, m |-> b.m, d |-> b.d]

\* Until orders the dates: by the year, the month and the day.
LEMMA UntilOrders ==
  ASSUME NEW a, IsDate(a), NEW b, IsDate(b), NEW c, IsDate(c)
  PROVE  /\ Until(a, a)
         /\ Until(a, b) \/ Until(b, a)
         /\ Until(a, b) /\ Until(b, a) => a = b
         /\ Until(a, b) /\ Until(b, c) => Until(a, c)
  <1>1. /\ a.y \in Int /\ a.m \in Int /\ a.d \in Int
        /\ b.y \in Int /\ b.m \in Int /\ b.d \in Int
        /\ c.y \in Int /\ c.m \in Int /\ c.d \in Int
    BY DateFields
  <1>2. a.y = b.y /\ a.m = b.m /\ a.d = b.d => a = b
    BY DEF IsDate
  <1> QED BY <1>1, <1>2, SMT DEF Until

\* n years before a date is a date.
LEMMA AgoIsDate ==
  ASSUME NEW now, IsDate(now), NEW n \in Nat, n <= now.y
  PROVE  IsDate(Ago(now, n))
  <1>1. now.y \in Nat /\ now.m \in 1..12 /\ now.d \in Nat /\ now.d >= 1
    BY SMT DEF IsDate, Days
  <1>2. now.y - n \in Nat
    BY <1>1
  <1>3. Days(now.y - n, now.m) \in Nat /\ Days(now.y - n, now.m) >= 1
    BY SMT DEF Days
  <1> DEFINE day == IF now.d > Days(now.y - n, now.m) THEN Days(now.y - n, now.m)
                                                       ELSE now.d
  <1>4. day \in 1..Days(now.y - n, now.m)
    BY <1>1, <1>3
  <1> HIDE DEF day
  <1>5. Ago(now, n) = [y |-> now.y - n, m |-> now.m, d |-> day]
    BY DEF Ago, day
  <1> QED BY <1>1, <1>2, <1>4, <1>5 DEF IsDate

\* User#age counts the birthdays since the birth: it is n from the n-th birthday
\* until the day before the next one.
THEOREM AgeCountsBirthdays ==
  ASSUME NEW b, IsDate(b), NEW now, IsDate(now), NEW n \in Nat
  PROVE  Age(b, now) = n <=> /\ Until(Anniversary(b, n), now)
                             /\ ~Until(Anniversary(b, n + 1), now)
  <1>1. /\ b.y \in Int /\ b.m \in Int /\ b.d \in Int
        /\ now.y \in Int /\ now.m \in Int /\ now.d \in Int
    BY DateFields
  <1>2. /\ Anniversary(b, n).y = b.y + n /\ Anniversary(b, n).m = b.m
        /\ Anniversary(b, n).d = b.d
        /\ Anniversary(b, n + 1).y = b.y + n + 1 /\ Anniversary(b, n + 1).m = b.m
        /\ Anniversary(b, n + 1).d = b.d
    BY <1>1 DEF Anniversary
  <1> QED BY <1>1, <1>2, SMT DEF Age, Until

\* An age is negative only before the birth.
THEOREM AgeFromBirth ==
  ASSUME NEW b, IsDate(b), NEW now, IsDate(now)
  PROVE  Age(b, now) >= 0 <=> Until(b, now)
  <1>1. /\ b.y \in Int /\ b.m \in Int /\ b.d \in Int
        /\ now.y \in Int /\ now.m \in Int /\ now.d \in Int
    BY DateFields
  <1> QED BY <1>1, SMT DEF Age, Until

\* Whom a search with bounds in either order finds, exactly: everybody from the
\* lower age to below the higher one, and of the higher one those whose birthday
\* is today, or was yesterday if today is the 29th of February and the year of
\* their birth had none.
THEOREM FoundExactly ==
  ASSUME NEW b, IsDate(b), NEW now, IsDate(now), NEW min \in Nat, NEW max \in Nat
  PROVE  Found(b, min, max, now) <=>
           /\ Least(min, max) <= Age(b, now)
           /\ \/ Age(b, now) < Greatest(min, max)
              \/ /\ Age(b, now) = Greatest(min, max)
                 /\ b.m = now.m /\ b.d = Ago(now, Greatest(min, max)).d
  <1> DEFINE low == Least(min, max)
             high == Greatest(min, max)
  <1>1. low \in Nat /\ high \in Nat
    BY BoundsOrdered
  <1>2. Until(b, Ago(now, low)) <=> Age(b, now) >= low
    BY <1>1, AtLeast
  <1>3. Age(b, now) \in Int
    BY AgeIsInt
  <1>4. Until(Ago(now, high), b) <=>
          \/ Age(b, now) < high
          \/ Age(b, now) = high /\ b.m = now.m /\ b.d = Ago(now, high).d
    <2> HIDE DEF high
    <2>1. /\ b.y \in Int /\ b.m \in Int /\ b.d \in Int /\ b.d <= Days(b.y, b.m)
          /\ now.y \in Int /\ now.m \in Int /\ now.d \in Int
      BY DateFields
    <2>2. /\ Ago(now, high).y = now.y - high /\ Ago(now, high).m = now.m
          /\ Ago(now, high).d \in Int /\ Ago(now, high).d <= now.d
          /\ \/ Ago(now, high).d = now.d
             \/ Ago(now, high).d = Days(now.y - high, now.m)
      BY <1>1, AgoFields
    <2>3. b.y = now.y - high /\ b.m = now.m => b.d <= Days(now.y - high, now.m)
      BY <2>1
    <2> QED BY <1>1, <2>1, <2>2, <2>3, SMT DEF Until, Age
  <1> QED BY <1>1, <1>2, <1>3, <1>4, SMT DEF Found

\* While a birthday stays as it is, the age the profile shows never falls.
THEOREM AgeNeverFalls ==
  Spec => [][\A u \in Registered :
               users'[u].birthday = users[u].birthday =>
                 Age(users[u].birthday, today) <= Age(users[u].birthday, today)']_vars
  <1>1. AgesInv /\ AgesInv' /\ [Next]_vars =>
          [\A u \in Registered :
             users'[u].birthday = users[u].birthday =>
               Age(users[u].birthday, today) <= Age(users[u].birthday, today)']_vars
    <2> SUFFICES ASSUME AgesInv, AgesInv', Next, NEW u \in Registered,
                        users'[u].birthday = users[u].birthday
                 PROVE  Age(users[u].birthday, today)
                          <= Age(users'[u].birthday, today')
      OBVIOUS
    <2> DEFINE b == users[u].birthday
    <2>1. IsDate(b) /\ IsDate(today) /\ IsDate(today')
      BY RowFields, AgesAssumption DEF AgesInv, TypeOK
    <2>2. today' = today \/ Until(today, today')
      BY DEF Next, Pass, Save
    <2> HIDE DEF b
    <2>3. /\ b.y \in Int /\ b.m \in Int /\ b.d \in Int
          /\ today.y \in Int /\ today.m \in Int /\ today.d \in Int
          /\ today'.y \in Int /\ today'.m \in Int /\ today'.d \in Int
      BY <2>1, DateFields
    <2>4. Age(b, today) <= Age(b, today')
      BY <2>2, <2>3, SMT DEF Until, Age
    <2> QED BY <2>4 DEF b
  <1> QED BY <1>1, AgesInvariance, PTL DEF Spec
=============================================================================
