SPECIFICATION SpecNetwork
CONSTANTS
  Request = {r1, r2}
  Service = {s1, s2}
  Host = {h1, h2}
  User = {u}
  Password = {pw}
  Path = {p1, p2}
  None = None
  Refused = Refused
SYMMETRY NetworkSymmetry
INVARIANTS
  AttemptsDoNotMix
  NoAgentStays
  PasswordsStayHome
