----------------------------- MODULE MCAssembly -----------------------------
(* Instances of Assembly and Replay for TLC: four blocks, two near-duplicates. *)
EXTENDS Replay

CONSTANTS b1, b2, b3, b4

MCIdOrder == [x \in Blocks |-> CASE x = b1 -> 1 [] x = b2 -> 2 [] x = b3 -> 3 [] x = b4 -> 4]

\* b1 and b2 say the same, b3 is related to both, b4 points the other way.
MCSimilarity == [p \in Blocks \X Blocks |->
    IF p[1] = p[2] THEN 100
    ELSE CASE {p[1], p[2]} = {b1, b2} -> 97 [] b4 \in {p[1], p[2]} -> -20 [] OTHER -> 40]

Window(w, o, s, u) == [window |-> w, output |-> o, system |-> s, user |-> u]

\* Room for some, room for everything, exactly none left, and an overflow.
MCBudgets == {Window(20, 5, 3, 5), Window(40, 4, 3, 5), Window(12, 4, 3, 5), Window(11, 4, 3, 5)}

=============================================================================
