---------------------------- MODULE MCRetrieval ----------------------------
(* Instances of Retrieval for TLC: four memories, of which two pairs are alike. *)
EXTENDS Retrieval

CONSTANTS a, b, c, d

\* b repeats a and c repeats b, but c is not quite a; d is about something else.
MCLikeness == [p \in Memories \X Memories |->
    IF p[1] = p[2] THEN 100
    ELSE CASE {p[1], p[2]} = {a, b} -> 97 [] {p[1], p[2]} = {b, c} -> 95
           [] {p[1], p[2]} = {a, c} -> 90 [] OTHER -> 20]

\* Recent and unimportant, old and important, or more so than the first in both.
Some == [recency |-> 90, importance |-> 40]
Old  == [recency |-> 20, importance |-> 100]
Both == [recency |-> 100, importance |-> 100]

MCSignals  == {Some, Old}
MCPinned   == {Some, Both}

=============================================================================
