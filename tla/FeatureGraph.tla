----------------------------- MODULE FeatureGraph -----------------------------
(***************************************************************************)
(* What WorkSpace promises about features, without lists, pointers or a    *)
(* call stack: a feature is provided over features that are provided, and   *)
(* it disappears only when nothing that is provided depends on it.          *)
(***************************************************************************)
CONSTANT Features

VARIABLES
    provided,   \* the features that are available
    deps        \* pairs <<f, g>>: f was built from g

Provide(f) ==
    /\ f \notin provided
    /\ provided' = provided \union {f}
    /\ deps \subseteq deps'
    /\ deps' \ deps \subseteq {f} \X provided

Withdraw(f) ==
    /\ f \in provided
    /\ \A g \in Features : <<g, f>> \notin deps
    /\ provided' = provided \ {f}
    /\ deps' = {d \in deps : d[1] # f}

Init == provided \subseteq Features /\ deps = {}

Next == \E f \in Features : Provide(f) \/ Withdraw(f)

Spec == Init /\ [][Next]_<<provided, deps>>
=============================================================================
