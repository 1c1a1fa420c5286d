SPECIFICATION Spec
CONSTANTS
  Replicas = {r1, r2}
  Passwords = {p1, p2, p3, p4}
  Blank = Blank
  Given = Given
  Former = Former
  None = None
  MaxFaults = 1
  MaxChanges = 2
INVARIANTS
  PasswordsAgreeWithoutOverlap
PROPERTIES
  PublishedIsHonouredWithoutOverlap
  EnabledGetsDatabase
  DisabledLosesSecret
