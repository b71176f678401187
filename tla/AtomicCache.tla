---------------------------- MODULE AtomicCache ----------------------------
(***************************************************************************)
(* What the semantic cache promises its callers: a lookup is as good as    *)
(* one that looks at all live entries in one instant - an answer is the    *)
(* text of a live entry for the same question, or for the one most like    *)
(* it, and no answer means there is none, or that the cache failed.  A     *)
(* store makes at most one entry, in one instant; entries may be           *)
(* forgotten, and a forgotten one never comes back.  Tiers, keys and the   *)
(* clock are not visible here.                                             *)
(***************************************************************************)
EXTENDS Naturals

CONSTANTS Ops, Norm, Similarity, Threshold

VARIABLES
    asks,    \* of each call: its kind, its query, and the scope a hit must share
    live,    \* the calls whose texts may be served
    answer   \* of each call: the call whose text it was given, None, Stored or Pending

absVars == <<asks, live, answer>>

None    == "none"
Stored  == "stored"
Pending == "pending"

AbsInit == live = {} /\ answer = [o \in Ops |-> Pending]

Likeness(o, e) == Similarity[Norm[asks[o].query], Norm[asks[e].query]]
Near(o) == {e \in live : asks[e].scope = asks[o].scope /\ Likeness(o, e) >= Threshold}
Best(o) == {e \in Near(o) : \A f \in Near(o) : Likeness(o, e) >= Likeness(o, f)}

\* Those for the same question.  A question without a word is like nothing, not even
\* like itself, so they need not be near.
Same(o) == {e \in live : /\ asks[e].scope = asks[o].scope
                         /\ Norm[asks[e].query] = Norm[asks[o].query]}

Reply(o, a) == answer[o] = Pending /\ answer' = [answer EXCEPT ![o] = a]

Answer(o) ==
    /\ asks[o].kind = "lookup"
    /\ \E a \in Same(o) \cup (IF Near(o) = {} THEN {None} ELSE Best(o)) : Reply(o, a)
    /\ UNCHANGED live

\* A failure.
NoAnswer(o) == Reply(o, None) /\ UNCHANGED live

\* The new entry takes the place of the one for the same question; one that comes
\* too late is forgotten at once.  A failure may follow the write.
Write(o) ==
    /\ asks[o].kind = "store"
    /\ Reply(o, Stored) \/ Reply(o, None)
    /\ LET others == {e \in live : \/ asks[e].scope # asks[o].scope
                                   \/ Norm[asks[e].query] # Norm[asks[o].query]}
       IN  live' \in {others, others \cup {o}}

Forget == live' \subseteq live /\ UNCHANGED answer

AbsNext ==
    /\ UNCHANGED asks
    /\ Forget \/ \E o \in Ops : Answer(o) \/ NoAnswer(o) \/ Write(o)

AbsSpec == AbsInit /\ [][AbsNext]_absVars

=============================================================================
