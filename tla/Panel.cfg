SPECIFICATION PanelSpec
CONSTANTS
  p1 = p1  p2 = p2  a1 = a1  a2 = a2  r1 = r1  r2 = r2  r3 = r3
  Passwords = {p1, p2}
  Apps = {a1, a2}
  Requests = {r1, r2, r3}
  None = None
  Absent = Absent
  Broken = Broken
  Main = Main
  MaxTries = 2
SYMMETRY Symmetry
INVARIANTS SetupOnce AckedOnDisk SessionsCurrent
