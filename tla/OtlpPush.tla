------------------------------- MODULE OtlpPush -------------------------------
(***************************************************************************)
(* The push of an OTLP export (src/otel-export/otlp-push.ts): the export's *)
(* lines are merged into batches below a size, and posted in order.  A     *)
(* status that may pass is tried again, anything else ends the push with   *)
(* an error that says how much was sent.  The receiver may have stored     *)
(* what it did not answer for.                                             *)
(***************************************************************************)
EXTENDS Integers, Sequences, SequencesExt, FiniteSets

CONSTANTS
    Exports,        \* the exports: a kind, and each line's spans or points by their sizes
    EnvelopeBytes,  \* a request body with no resource
    ResourceBytes,  \* a resource with no span
    MaxBatchBytes,  \* OTLP_MAX_BATCH_BYTES
    MaxAttempts     \* MAX_ATTEMPTS

ASSUME OtlpPushAssumption ==
    /\ \A e \in Exports : e.kind \in {"traces", "metrics"} /\ e.lines \in Seq(Seq(Nat))
    /\ {EnvelopeBytes, ResourceBytes, MaxBatchBytes, MaxAttempts} \subseteq Nat \ {0}

VARIABLES
    export,     \* what is pushed
    batches,    \* buildBatches: the units of each batch
    pushed,     \* OtlpPushResult: batches and items acknowledged, items rejected
    posts,      \* attempts made for the next batch
    outcome,    \* how the push ended
    received    \* history: the batches the receiver stored, in order

pushVars == <<export, batches, pushed, posts, outcome, received>>

Total(sizes) ==
    LET upTo[i \in 0 .. Len(sizes)] == IF i = 0 THEN 0 ELSE upTo[i - 1] + sizes[i]
    IN upTo[Len(sizes)]

\* A resource of `items` spans or points: its own bytes, theirs, and the commas between them.
UnitBytes(items) == ResourceBytes + Total(items) + (IF items = <<>> THEN 0 ELSE Len(items) - 1)
\* bodyBytes, of resources that take `bytes` together.
BodyBytes(bytes, count) == EnvelopeBytes + bytes + (IF count = 0 THEN 0 ELSE count - 1)
BatchBytes(units) == BodyBytes(Total([i \in DOMAIN units |-> UnitBytes(units[i])]), Len(units))
FitsBody(units) == BatchBytes(units) <= MaxBatchBytes

\* x added to the last of a sequence of sequences.
ExtendLast(ss, x) == Append(Front(ss), Append(Last(ss), x))

\* splitTracesLine: each piece takes spans until the next would not fit.
AddSpan(pieces, span) ==
    IF Last(pieces) = <<>> \/ FitsBody(<<Append(Last(pieces), span)>>)
    THEN ExtendLast(pieces, span)
    ELSE Append(pieces, <<span>>)
SplitLine(line) ==
    LET upTo[i \in 0 .. Len(line)] == IF i = 0 THEN <<<<>>>> ELSE AddSpan(upTo[i - 1], line[i])
    IN upTo[Len(line)]

\* toBatchUnits: whole lines, or the pieces of a traces line that is too large by itself.
UnitsOf(line, kind) == IF kind = "metrics" \/ FitsBody(<<line>>) THEN <<line>> ELSE SplitLine(line)
BatchUnits(e) == FlattenSeq([i \in DOMAIN e.lines |-> UnitsOf(e.lines[i], e.kind)])

\* A mutant: the size is looked at before the unit is added.
MergeUnitLate(done, unit) ==
    IF done # <<>> /\ FitsBody(Last(done)) THEN ExtendLast(done, unit) ELSE Append(done, <<unit>>)

\* buildBatches: units are merged in order, each body within the limit when it can be.
MergeUnit(done, unit) ==
    IF done # <<>> /\ FitsBody(Append(Last(done), unit))
    THEN ExtendLast(done, unit) ELSE Append(done, <<unit>>)
Merged(units) ==
    LET upTo[i \in 0 .. Len(units)] == IF i = 0 THEN <<>> ELSE MergeUnit(upTo[i - 1], units[i])
    IN upTo[Len(units)]
BuildBatches(e) == Merged(BatchUnits(e))

Items(batch) == Len(FlattenSeq(batch))
Pending == pushed.batches < Len(batches) /\ outcome = "pushing"
NextBatch == pushed.batches + 1

PushInit ==
    /\ export \in Exports
    /\ batches = BuildBatches(export)
    /\ pushed = [batches |-> 0, items |-> 0, rejected |-> 0]
    /\ posts = 0 /\ outcome = "pushing" /\ received = <<>>

\* The receiver answers that it took the batch, or all of it but what it rejects.
Accepted(rejected) ==
    /\ Pending /\ rejected <= Items(batches[NextBatch])
    /\ received' = Append(received, NextBatch)
    /\ pushed' = [batches |-> NextBatch, items |-> pushed.items + Items(batches[NextBatch]),
                  rejected |-> pushed.rejected + rejected]
    /\ posts' = 0
    /\ UNCHANGED <<export, batches, outcome>>

\* What the receiver stored, if it did, of a batch it does not answer for.
Stores(stored) == received' = IF stored THEN Append(received, NextBatch) ELSE received

\* 429, 502, 503 and 504 are tried again, unless Retry-After asks for too long a wait.
AnswersLater(stored, tooLong) ==
    /\ Pending /\ Stores(stored)
    /\ IF posts + 1 < MaxAttempts /\ ~tooLong
       THEN posts' = posts + 1 /\ UNCHANGED outcome
       ELSE posts' = posts + 1 /\ outcome' = "failed"
    /\ UNCHANGED <<export, batches, pushed>>

\* Any other status, a redirect, a timeout and a lost connection end the push.
PushFails(stored) ==
    /\ Pending /\ Stores(stored)
    /\ posts' = posts + 1 /\ outcome' = "failed"
    /\ UNCHANGED <<export, batches, pushed>>

PushEnds ==
    /\ outcome = "pushing" /\ pushed.batches = Len(batches)
    /\ outcome' = "pushed"
    /\ UNCHANGED <<export, batches, pushed, posts, received>>

PushNext ==
    \/ \E rejected \in {0, 1} : Accepted(rejected)
    \/ \E stored, tooLong \in BOOLEAN : AnswersLater(stored, tooLong)
    \/ \E stored \in BOOLEAN : PushFails(stored)
    \/ PushEnds

PushSpec == PushInit /\ [][PushNext]_pushVars

\* Every item of the export is in one batch, in order, and a body is too large only when one
\* span, or one line of metrics, is.
BatchedInOrder ==
    /\ FlattenSeq(FlattenSeq(batches)) = FlattenSeq(export.lines)
    /\ \A b \in DOMAIN batches :
          FitsBody(batches[b]) \/ (Len(batches[b]) = 1 /\ (export.kind = "traces" => Len(batches[b][1]) <= 1))

(***************************************************************************)
(* What pushOtlp says was sent is what the receiver took: the batches it   *)
(* stored come in export order, none is past the one that failed, all that *)
(* are counted as sent are there, and only attempts at one batch repeat it *)
(* (at most MaxAttempts times).  A push that succeeds sent every item.     *)
(***************************************************************************)
Stored(b) == {i \in DOMAIN received : received[i] = b}
SentItems(n) == Items(FlattenSeq(SubSeq(batches, 1, n)))
PushIsTold ==
    /\ BatchedInOrder
    /\ \A i, j \in DOMAIN received : i <= j => received[i] <= received[j]
    /\ \A i \in DOMAIN received : received[i] <= NextBatch
    /\ \A b \in 1 .. pushed.batches : Stored(b) # {}
    /\ \A b \in DOMAIN batches : Cardinality(Stored(b)) <= MaxAttempts
    /\ pushed.items = SentItems(pushed.batches)
    /\ outcome = "pushed" => pushed.items = Len(FlattenSeq(export.lines))
=============================================================================
