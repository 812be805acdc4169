CONSTANTS
  Callers = {"poller", "handler"}
  Pollers = {"poller"}
  Life = 3
  Trip = 1
  Pause = 1
  Attempts = 3
  Budget <- Each
  MaxTotal = 2
SPECIFICATION FairSpec
INVARIANTS EmptyAccounted ExpiryHonest CallBounded
PROPERTIES ServiceResumes
