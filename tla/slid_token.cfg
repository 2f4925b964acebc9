SPECIFICATION Spec
CONSTANTS
    ann = ann  bob = bob  s1 = s1  t1 = t1  t2 = t2  
    q1 = q1  q2 = q2  l1 = l1  l2 = l2
    Users = {ann, bob}
    StaticUsers = {ann}
    StaticToken <- AnnStatic
    TokenStrings = {s1, t1, t2}
    TTL = 2
    Requests = {q1, q2}
    Logins = {l1, l2}
    OneAtATime = FALSE
    MaxTime = 5
    MaxRestarts = 1
SYMMETRY Interchangeable
INVARIANTS UsedLives
