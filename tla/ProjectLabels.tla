----------------------------- MODULE ProjectLabels -----------------------------
(***************************************************************************)
(* Display labels of projects (buildProjectLabels, aggregate/project-key). *)
(* A key is what its path begins with and its segments; a label is a path  *)
(* too, without a beginning unless it is a full key.  A segment is a       *)
(* sequence: its name, then the numbers that were appended to it.          *)
(***************************************************************************)
LOCAL INSTANCE Naturals
LOCAL INSTANCE SequencesExt
LOCAL INSTANCE FiniteSetsExt

CONSTANTS
    Rootless,   \* the beginning of a relative path
    Here,       \* the segment "."
    Reserved    \* the segment "(unattributed)"

UnattributedLabel == [root |-> Rootless, segs |-> <<Reserved>>]
\* splitKeySegments(key).slice(-depth), or the whole key if it has fewer.
LabelAt(key, depth) ==
    IF depth > Len(key.segs) THEN key
    ELSE [root |-> Rootless, segs |-> SubSeq(key.segs, Len(key.segs) - depth + 1, Len(key.segs))]
FullLabel(key) ==
    IF key = UnattributedLabel THEN [root |-> Rootless, segs |-> <<Here, Reserved>>] ELSE key
WithNumber(label, n) ==
    IF label.segs = <<>> THEN [label EXCEPT !.segs = <<<<n>>>>]
    ELSE [label EXCEPT !.segs[Len(label.segs)] = Append(@, n)]
\* The label, or its first number that is free.
Numbered(label, taken) ==
    IF label \notin taken THEN label
    ELSE WithNumber(label, Min({n \in 2 .. Cardinality(taken) + 2 : WithNumber(label, n) \notin taken}))

Taken(labels) == {labels[k] : k \in DOMAIN labels} \cup {UnattributedLabel}
Alone(key, pending, taken, depth) ==
    /\ LabelAt(key, depth) \notin taken
    /\ \A k \in pending \ {key} : LabelAt(k, depth) # LabelAt(key, depth)

\* A round of the loop: labels that are alone, then those of the keys out of segments.
LabelRound(keys, labels, depth) ==
    LET pending == keys \ DOMAIN labels
        alone == {k \in pending : Alone(k, pending, Taken(labels), depth)}
        outOf == {k \in pending \ alone : depth >= Len(k.segs)}
        given == [k \in DOMAIN labels \cup alone |-> IF k \in alone THEN LabelAt(k, depth) ELSE labels[k]]
        give(all, key) == [k \in DOMAIN all \cup {key} |->
                              IF k = key THEN Numbered(FullLabel(key), Taken(all)) ELSE all[k]]
    IN FoldLeft(give, given, SetToSeq(outOf))
ProjectLabels(keys) ==
    LET rounds == [n \in 1 .. Max({1} \cup {Len(k.segs) : k \in keys}) |-> n]
    IN FoldLeft(LAMBDA labels, depth : LabelRound(keys, labels, depth), [k \in {} |-> UnattributedLabel], rounds)

(***************************************************************************)
(* Every project gets a label, no two the same, and none that of usage     *)
(* without a project, though paths are spelled like labels given already.  *)
(***************************************************************************)
LabelsTellApart(keys) ==
    LET labels == ProjectLabels(keys) IN
    /\ DOMAIN labels = keys
    /\ \A k \in keys : labels[k] # UnattributedLabel
    /\ \A k, l \in keys : labels[k] = labels[l] => k = l
=============================================================================
