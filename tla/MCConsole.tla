------------------------------ MODULE MCConsole ------------------------------
(* Two root admins, an instructor with an assistant, an address nobody has.   *)
EXTENDS Console, TLC

CONSTANTS Root, Root2, Teacher, Assistant, Newcomer, b1

MCFirstRole == [u \in Users |-> CASE u \in {Root, Root2} -> "root_admin" [] u = Teacher -> "instructor" [] u = Assistant -> "teaching_assistant"
                                  [] OTHER -> "none"]
MCFirstLinks == {<<Assistant, Teacher>>}
Ask(op, actor, target, role, with) == [op |-> op, actor |-> actor, target |-> target, role |-> role, with |-> with]
MCAsks ==
    {Ask(op, x, u, "none", NoUser) : op \in {"deactivate", "reactivate"}, x \in {Root, Root2}, u \in {Root, Root2, Teacher}}
    \cup {Ask("delete", Root, u, "none", NoUser) : u \in {Root2, Teacher, Assistant}}
    \cup {Ask("role", Root, u, "teaching_assistant", NoUser) : u \in {Root2, Teacher, Assistant}}
    \cup {Ask("rename", x, Teacher, "none", NoUser) : x \in {Root, Teacher, Assistant}}
    \cup {Ask("login", Teacher, Teacher, "none", NoUser), Ask("link", Root, Assistant, "none", Teacher), Ask("end", Teacher, Assistant, "none", Teacher), Ask("end", Assistant, Assistant, "none", Teacher)}
    \cup {Ask("create", Root, Teacher, "instructor", NoUser), Ask("create", Root, Newcomer, "teaching_assistant", Teacher)}
    \cup {Ask("add", Teacher, u, "none", NoUser) : u \in {Assistant, Newcomer, Root}}
    \cup {Ask("check", Teacher, NoUser, "none", NoUser), Ask("batch", Teacher, NoUser, "none", "answers"), Ask("cancel", Teacher, NoUser, "none", b1)}
MCLine(ref, answer) == [ref |-> ref, answer |-> answer, question |-> 0]
MCFiles == [f \in {"answers"} |->
    [columns |-> {"external_ref", "answer_text"}, lines |-> <<MCLine(1, 2), MCLine(1, 1), MCLine(1, 2)>>]]
MCSymmetry == Permutations(Callers)
=============================================================================
