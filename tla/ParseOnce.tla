------------------------------ MODULE ParseOnce ------------------------------
(***************************************************************************)
(* What the parse worker pool promises its callers, whatever its threads   *)
(* do: every file asked for is settled once, with its own parse; a file    *)
(* that falls back to the main thread stays there; and only the main       *)
(* thread's own parse of a file can reject it, never a worker's failure.   *)
(***************************************************************************)
CONSTANT Tasks        \* the parse calls of one run

VARIABLE phase        \* where each call stands

Phases == {"unasked", "waiting", "inline", "resolved", "rejected"}

Init == phase = [t \in Tasks |-> "unasked"]

\* A caller asks for a file: of a worker, or of the main thread at once.
Ask(t) ==
    /\ phase[t] = "unasked"
    /\ \E p \in {"waiting", "inline"} : phase' = [phase EXCEPT ![t] = p]

\* A worker's parse settles its call.
Answer(t) ==
    /\ phase[t] = "waiting"
    /\ phase' = [phase EXCEPT ![t] = "resolved"]

\* Some waiting calls, together, turn to the main thread.
FallBack ==
    \E S \in SUBSET {t \in Tasks : phase[t] = "waiting"} :
        phase' = [t \in Tasks |-> IF t \in S THEN "inline" ELSE phase[t]]

\* The main thread's parse settles its call, either way.
InlineEnds(t) ==
    /\ phase[t] = "inline"
    /\ \E p \in {"resolved", "rejected"} : phase' = [phase EXCEPT ![t] = p]

Next ==
    \/ \E t \in Tasks : Ask(t) \/ Answer(t) \/ InlineEnds(t)
    \/ FallBack

Spec == Init /\ [][Next]_phase
==============================================================================
