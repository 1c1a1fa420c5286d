SPECIFICATION Spec
CONSTANTS
  Replicas = {r1, r2}
  Passwords = {p1, p2, p3, p4}
  Blank = Blank
  Given = Given
  Former = Former
  None = None
  MaxFaults = 0
  MaxChanges = 0
INVARIANT PasswordsAgree
