SPECIFICATION Spec
CONSTANTS
  r0 = r0  r1 = r1  r2 = r2  r3 = r3
  None = None
  Request = {r0, r1, r2, r3}
  Commands = {"login", "csrf", "me", "logout"}
  SignedIn = {r0}
  TTL = 1
  MaxTime = 1
INVARIANTS EchoIsAccepted
PROPERTIES DeadSessionsStayDead
CHECK_DEADLOCK FALSE
