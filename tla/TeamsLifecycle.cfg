SPECIFICATION Spec
CONSTANTS
    i1 = i1  i2 = i2  t1 = t1  NoUser = NoUser
    Users = {i1, t1}
    FirstRole <- MCFirstRole
    Requests = {q1, q2}
    Links = {k1}
    Sessions = {s1}
    Operations = {"deactivate", "reactivate", "delete", "role", "link", "login"}
SYMMETRY MCSymmetry
PROPERTIES LifecycleAudited ExitSignsOut SignsOutUnsupervised
CHECK_DEADLOCK FALSE
