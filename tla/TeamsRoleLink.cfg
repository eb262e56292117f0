SPECIFICATION Spec
CONSTANTS
    i1 = i1  i2 = i2  t1 = t1  NoUser = NoUser
    Users = {i1, i2, t1}
    FirstRole <- MCFirstRole
    Requests = {q1, q2}
    Links = {k1}
    Sessions = {s1}
    Operations = {"role", "link"}
SYMMETRY MCSymmetry
INVARIANT LinksJoinRoles
CHECK_DEADLOCK FALSE
