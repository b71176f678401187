------------------------------- MODULE Replay -------------------------------
(***************************************************************************)
(* replay/engine.py over the assembler: a chat's prompt is assembled, the  *)
(* assembler's inputs and the prompt are frozen in a bundle, the backend's *)
(* text is attached to it if there is one, and any number of times later   *)
(* the bundle's inputs are assembled again and the two prompts compared.   *)
(* Assembly's variables are those of the assembly under way, the chat's or *)
(* a replay's.                                                             *)
(*                                                                         *)
(* The same assembler, embedder and tokenizer replay as assembled, as in   *)
(* the gateway and the SDK, which hand the pipeline's own to the debugger. *)
(* Who may replay what is module Gateway.  A definition introduced by      *)
(* "Fault:" is a deliberately wrong variant of the one after it; no        *)
(* specification uses it.                                                  *)
(***************************************************************************)
EXTENDS Assembly

VARIABLES
    stage,      \* "chat", "invoke", "ended", "replay" or "broken"
    bundle,     \* what was captured
    recorded,   \* whether an output is attached to it
    report      \* the ReplayResult of the last replay

replayVars == <<vars, stage, bundle, recorded, report>>

NoBundle == [prompt |-> <<>>]
NoReport == [mode |-> "none"]

Modes == {"recorded_output", "live_backend"}

ReplayTypeOK ==
    /\ stage \in {"chat", "invoke", "ended", "replay", "broken"}
    /\ bundle = NoBundle <=> stage \in {"chat", "broken"}
    /\ recorded \in BOOLEAN
    /\ recorded => stage \in {"ended", "replay"}

ReplayInit ==
    /\ Init
    /\ stage = "chat" /\ bundle = NoBundle /\ recorded = FALSE
    /\ report = NoReport

-----------------------------------------------------------------------------
(* The prompt.                                                             *)

Message(role, body) == <<[role |-> role, body |-> body]>>

\* _render: the system prompt if there is one, the kept memories in one message
\* if there are any, the user's turn last.  Only the memories' text varies.
Render(blocks) ==
    (IF budget.system > 0 THEN Message("system", <<>>) ELSE <<>>)
    \o (IF blocks # <<>> THEN Message("system", blocks) ELSE <<>>)
    \o Message("user", <<>>)

-----------------------------------------------------------------------------
(* The chat.                                                               *)

\* Fault: the candidates are frozen as a set, and come back in the order of ids.
CaptureSorted ==
    /\ stage = "chat" /\ pc = "done"
    /\ bundle' = [cands |-> SortSeq(cands, LAMBDA a, b : IdOrder[a] < IdOrder[b]),
                  score |-> score, size |-> size, budget |-> budget,
                  prompt |-> Render(placed)]
    /\ stage' = "invoke"
    /\ UNCHANGED <<vars, recorded, report>>

\* capture: everything the assembler was given, the scores' raw signals and the
\* compressed text of each candidate among it, and the prompt it made of that.
Capture ==
    /\ stage = "chat" /\ pc = "done"
    /\ bundle' = [cands |-> cands, score |-> score, size |-> size, budget |-> budget,
                  prompt |-> Render(placed)]
    /\ stage' = "invoke"
    /\ UNCHANGED <<vars, recorded, report>>

\* attach_output when the backend has finished a text; otherwise none is attached.
EndChat ==
    /\ stage = "invoke"
    /\ recorded' \in BOOLEAN
    /\ stage' = "ended"
    /\ UNCHANGED <<vars, bundle, report>>

-----------------------------------------------------------------------------
(* replay                                                                  *)

\* The bundle's inputs are handed to the assembler.
ReplayTrace ==
    /\ stage = "ended"
    /\ stage' = "replay" /\ report' = NoReport
    /\ pc' = "check"
    /\ cands' = bundle.cands /\ score' = bundle.score
    /\ size' = bundle.size /\ budget' = bundle.budget
    /\ pool' = <<>> /\ selected' = <<>> /\ placed' = <<>> /\ decisions' = <<>>
    /\ maxSim' = [b \in Blocks |-> 0] /\ used' = 0
    /\ UNCHANGED <<bundle, recorded>>

\* The prompts are compared; output_equal repeats the verdict in one mode and is
\* left open in the other.  The mode is an argument that nothing reads before.
Report(mode) ==
    /\ stage = "replay" /\ pc = "done"
    /\ LET equal == Render(placed) = bundle.prompt
       IN  report' = [mode |-> mode, prompt_equal |-> equal,
                      output_equal |-> IF mode = "recorded_output" THEN {equal} ELSE {}]
    /\ stage' = "ended"
    /\ UNCHANGED <<vars, bundle, recorded>>

\* The assembler goes on.
Assemble ==
    /\ stage \in {"chat", "replay"}
    /\ Next
    /\ UNCHANGED <<stage, bundle, recorded, report>>

\* It raised: the chat fails with nothing captured, the replay fails.
Break ==
    /\ stage \in {"chat", "replay"} /\ pc \in {"overflow", "failed"}
    /\ stage' = IF stage = "chat" THEN "broken" ELSE "ended"
    /\ UNCHANGED <<vars, bundle, recorded, report>>

ReplayNext ==
    \/ Assemble \/ Break \/ Capture \/ EndChat
    \/ ReplayTrace
    \/ \E m \in Modes : Report(m)

ReplaySpec == ReplayInit /\ [][ReplayNext]_replayVars

-----------------------------------------------------------------------------
(* What replay must guarantee.                                             *)

\* A replay that ends reproduces the prompt of the chat, ties, evictions and order
\* included: capture has frozen all that the assembler's choices depend on, and
\* nothing it was given can refuse to be assembled again (replay/engine.py:1-10).
ReplayReproduces ==
    /\ ReplayTypeOK
    /\ report # NoReport => report.prompt_equal
    /\ stage = "replay" => pc # "overflow"

-----------------------------------------------------------------------------
(* What the documents say and the code does not do.                        *)

\* docs/design/06-killer-features.md:172: "a replay of an aborted request honestly
\* reports: ... output_equal = None (no recorded output exists to compare)".  The code
\* reports what it found of the prompt (replay/engine.py:141).
OutputEqualMeansRecorded ==
    report # NoReport /\ report.output_equal = {TRUE} => recorded

=============================================================================
