SPECIFICATION Spec
CONSTANTS
  w1 = w1
  w2 = w2
  t1 = t1
  t2 = t2
  p1 = p1
  p2 = p2
  Workers = {w1,w2}
  Tenants = {t1,t2}
  Phones = {p1,p2}
  None = None
  l1 = l1
  Loops = {l1}
  MaxHurt = 1
  MaxPosts = 2
CHECK_DEADLOCK FALSE
SYMMETRY Perms
INVARIANTS TypeOK PolledIsProven VerifiedIsPolled
