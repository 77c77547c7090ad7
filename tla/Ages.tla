--------------------------------- MODULE Ages ---------------------------------
(***************************************************************************)
(* The age of a user, as the site tells it in three ways: counted from the *)
(* birthday wherever a profile is shown, stored with the row as a          *)
(* difference of years (the column the search index carries), and by       *)
(* bounds on the birthday in a search.                                     *)
(*                                                                         *)
(* A date is a record of year, month and day.  The clocks that are asked,  *)
(* the server's and UTC, are taken to show one date.                       *)
(***************************************************************************)
EXTENDS Integers

CONSTANTS
  Users,
  Calendar,   \* the dates on which something happens
  Birthdays,  \* the dates a user can give as the birthday
  Bounds,     \* the ages a search can be bounded by
  None        \* no such user

\* The Gregorian calendar.
LeapYear(y) == y % 4 = 0 /\ (y % 100 # 0 \/ y % 400 = 0)
Days(y, m) ==
  IF m = 2 THEN (IF LeapYear(y) THEN 29 ELSE 28)
  ELSE IF m \in {4, 6, 9, 11} THEN 30 ELSE 31
IsDate(r) ==
  /\ r = [y |-> r.y, m |-> r.m, d |-> r.d]
  /\ r.y \in Nat /\ r.m \in 1..12 /\ r.d \in 1..Days(r.y, r.m)

ASSUME AgesAssumption ==
  /\ \A r \in Calendar \cup Birthdays : IsDate(r)
  /\ Bounds \subseteq Nat

VARIABLES
  today,
  users   \* user -> the row: birthday, age and the day of the last save

vars == <<today, users>>

Row == [birthday: Birthdays, age: Int, saved: Calendar]
Registered == {u \in Users : users[u] # None}

\* The type invariant.
TypeOK == today \in Calendar /\ users \in [Users -> Row \cup {None}]

-----------------------------------------------------------------------------
\* a is not after b.
Until(a, b) ==
  \/ a.y < b.y
  \/ a.y = b.y /\ a.m < b.m
  \/ a.y = b.y /\ a.m = b.m /\ a.d <= b.d

\* User#age
Age(b, now) ==
  now.y - b.y - (IF now.m > b.m \/ (now.m = b.m /\ now.d >= b.d) THEN 0 ELSE 1)

\* User#set_age
StoredAge(b, now) == now.y - b.y

\* n.years before now; there is not every year a 29th of February.
Ago(now, n) ==
  [y |-> now.y - n, m |-> now.m,
   d |-> IF now.d > Days(now.y - n, now.m) THEN Days(now.y - n, now.m) ELSE now.d]

Least(a, b) == IF a <= b THEN a ELSE b
Greatest(a, b) == IF a <= b THEN b ELSE a

\* Slip: reaches one year further back, for those who are not yet a year older.
FoundAYearOlder(b, min, max, now) ==
  /\ Until(Ago(now, Greatest(min, max) + 1), b)
  /\ Until(b, Ago(now, Least(min, max)))

\* Slip: starts a year later.
FoundAYearYounger(b, min, max, now) ==
  /\ Until(Ago(now, Greatest(min, max) - 1), b)
  /\ Until(b, Ago(now, Least(min, max)))

\* Search#find_users: birthday BETWEEN, the bounds given in either order.  With a
\* blank bound there is no such condition; the form that leads here sends both.
Found(b, min, max, now) ==
  /\ Until(Ago(now, Greatest(min, max)), b)
  /\ Until(b, Ago(now, Least(min, max)))

-----------------------------------------------------------------------------
Init ==
  /\ today \in {r \in Calendar : \A s \in Calendar : Until(r, s)}
  /\ users = [u \in Users |-> None]

\* Slip: the age is set when the user signs up and left alone later.
SaveKeepingAge(u, b) ==
  /\ users' = [users EXCEPT ![u] =
       [birthday |-> b, saved |-> today,
        age |-> IF u \in Registered THEN users[u].age ELSE StoredAge(b, today)]]
  /\ UNCHANGED today

\* Slip: the age waits for a task that nothing runs.
SaveWithoutAge(u, b) ==
  /\ users' = [users EXCEPT ![u] = [birthday |-> b, age |-> None, saved |-> today]]
  /\ UNCHANGED today

\* Every save, of a new user or of an old one, with the birthday as it was or
\* with another one, sets the age before it writes the row.
Save(u, b) ==
  /\ users' = [users EXCEPT ![u] =
       [birthday |-> b, age |-> StoredAge(b, today), saved |-> today]]
  /\ UNCHANGED today

\* Time passes, and nothing writes the rows then.
Pass ==
  /\ today' \in {r \in Calendar : Until(today, r) /\ r # today}
  /\ UNCHANGED users

Next == Pass \/ \E u \in Users, b \in Birthdays : Save(u, b)

Spec == Init /\ [][Next]_vars

-----------------------------------------------------------------------------
(* Properties.                                                             *)

\* A search by age finds nobody younger or older than it was asked for.
SearchFindsNoStranger ==
  \A u \in Registered, min, max \in Bounds :
    LET age == Age(users[u].birthday, today) IN
    Found(users[u].birthday, min, max, today) =>
      Least(min, max) <= age /\ age <= Greatest(min, max)

\* Of those it was asked for it misses only users of the highest age, and of
\* these it finds whose birthday is today.
SearchMissesTheOldest ==
  \A u \in Registered, min, max \in Bounds :
    LET b == users[u].birthday
        age == Age(b, today) IN
    Least(min, max) <= age /\ age <= Greatest(min, max) /\ ~Found(b, min, max, today)
      => age = Greatest(min, max) /\ (today.m # b.m \/ today.d # b.d)

\* The stored age, which the search index carries, is one too high until the
\* birthday of the year, and then falls behind by a year at each turn of the
\* year in which the row is not saved.
StoredAgeDrifts ==
  \A u \in Registered :
    LET row == users[u]
        behind == Age(row.birthday, today) - row.age
        years == today.y - row.saved.y IN
    behind \in {years - 1, years}
=============================================================================
