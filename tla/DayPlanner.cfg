\* Two users, of whom each may connect a calendar, and two attempts at a time.
SPECIFICATION Spec
CONSTANTS
  Users = {u1, u2}
  Attempts = {r1, r2}
  Window = 1
  MaxClaims = 3
  MaxFaults = 1
INVARIANT PlanReachesCalendar
