SPECIFICATION Spec
CONSTANTS
    i1 = i1  i2 = i2  t1 = t1  NoUser = NoUser
    Users = {i1, i2, t1}
    FirstRole <- MCFirstRole
    Requests = {q1, q2}
    Links = {k1, k2}
    Sessions = {s1}
    Operations = {"deactivate", "delete", "link", "end", "logout", "login"}
SYMMETRY MCSymmetry
PROPERTIES SignsOutUnsupervised SparesSupervised
CHECK_DEADLOCK FALSE
