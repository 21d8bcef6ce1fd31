\* Two requests at a time over three tokens; three failures lock the account.
SPECIFICATION Spec
CONSTANTS
  Tokens = {t1, t2, t3}
  Requests = {r1, r2}
  MaxFailed = 3
  NoToken = NoToken
INVARIANTS ExchangedOncePerRequest LockedInTheEnd
PROPERTIES LockOutlivesOlderLogins DeletedStaysClosed
SYMMETRY Symmetric
CHECK_DEADLOCK FALSE
