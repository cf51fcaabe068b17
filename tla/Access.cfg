SPECIFICATION Spec
CONSTANTS
  u1 = u1  u2 = u2  h1 = h1  h2 = h2
  Users = {u1}
  Handlers = {h1, h2}
  Panel = Panel
  Nobody = Nobody
  MaxAttempts = 2
  Window = 1
  LockTime = 2
SYMMETRY Symmetry
INVARIANTS GuessesBounded RoleKept GrantDurable
