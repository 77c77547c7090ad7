-------------------------------- MODULE MCAges --------------------------------
(***************************************************************************)
(* Instances of Ages for TLC: three years around a leap day, and birthdays *)
(* on, before and after every day of the calendar, of users about the ages *)
(* a search is bounded by.                                                 *)
(***************************************************************************)
EXTENDS Ages

DaysOfYears(years) ==
  {r \in [y: years, m: {1, 2, 3, 12}, d: {1, 15, 28, 29, 31}] : IsDate(r)}

MCCalendar == DaysOfYears({2011, 2012, 2013})

MCBirthdays == DaysOfYears({1968, 1987, 1993, 1994})

MCBounds == {17, 18, 19, 20, 24, 25}
=============================================================================
