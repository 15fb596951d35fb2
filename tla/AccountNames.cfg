SPECIFICATION AccountsSpec
CONSTANTS
  p1 = p1
  p2 = p2
  t1 = t1
  t2 = t2
  r1 = r1
  r2 = r2
  nick = nick
  mail1 = mail1
  mail2 = mail2
  None = None
  Persons = {p1, p2}
  Tokens = {t1, t2}
  Requests = {r1, r2}
  Names = {nick, mail1, mail2}
  Addresses = {mail1, mail2}
  Passwords <- EdgePasswords
  Roles = {"", "STUDENT"}
PROPERTY GoodCredentialsAdmit
SYMMETRY Interchangeable
CHECK_DEADLOCK FALSE
