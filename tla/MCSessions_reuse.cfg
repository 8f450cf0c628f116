SPECIFICATION SessionsSpec
CONSTANTS
  Client = {q1}
  Session = {s1, s2, s3}
  PasswordLink = {p1}
  VerifyLink = {v1}
  NoRow = NoRow
CHECK_DEADLOCK FALSE
PROPERTIES ReuseEndsSessions
