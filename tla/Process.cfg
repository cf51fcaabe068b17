SPECIFICATION Spec
CONSTANTS
  p1 = p1  a1 = a1  r1 = r1  s1 = s1  s2 = s2
  Passwords = {p1}
  Apps = {a1}
  Requests = {r1}
  Slots = {s1, s2}
  None = None
  Absent = Absent
  Broken = Broken
  Main = Main
  MaxHellos = 2
PROPERTIES GatewayGoesOn SessionsEnd
