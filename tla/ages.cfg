SPECIFICATION Spec
CONSTANTS
  Users = {u1}
  Calendar <- MCCalendar
  Birthdays <- MCBirthdays
  Bounds <- MCBounds
  None = None
INVARIANTS TypeOK SearchFindsNoStranger SearchMissesTheOldest StoredAgeDrifts
