------------------------------- MODULE JsonlRead -------------------------------
(***************************************************************************)
(* The read of a JSONL file chunk by chunk (utils/read-jsonl-objects.ts,   *)
(* stream/cursor.ts), while a tool goes on writing it: how lines are put   *)
(* together from chunks, and how a cursor comes to cover exactly the bytes *)
(* of the lines that were read.  A hash is the bytes it was taken of, and  *)
(* a record is its line.                                                   *)
(***************************************************************************)
EXTENDS Integers, Sequences, SequencesExt, FiniteSets, FiniteSetsExt

CONSTANTS
    Byte,           \* what files hold besides the three below
    LF, CR, BOM,
    MaxBytes, MaxRewrites,
    ChunkSize,  \* of the buffer that a read fills
    NoCursor, NoRead
ASSUME JsonlAssumption == ChunkSize \in Nat

VARIABLES
    bytes,      \* the file
    rewrites,
    read,       \* the read under way: what readJsonlBatches and the tracker keep
    touched,    \* the file changed since the read began
    kept        \* the records of the last completed reads, and their cursor
jsonlVars == <<bytes, rewrites, read, touched, kept>>

Bytes == {Byte, LF, CR, BOM}

----------------------------------------------------------------------------
(* Lines.                                                                  *)

\* parseJsonlLine: one CR at its end and a BOM at the start of the file are cut; <<>>: blank.
LineText(line, isFirst) ==
    LET end == IF line # <<>> /\ Last(line) = CR THEN Len(line) - 1 ELSE Len(line)
        start == IF isFirst /\ end >= 1 /\ line[1] = BOM THEN 2 ELSE 1
        text == SubSeq(line, start, end)
    IN IF \A i \in DOMAIN text : text[i] = CR THEN <<>> ELSE text
RecordsOf(line, isFirst) == IF LineText(line, isFirst) = <<>> THEN <<>> ELSE <<LineText(line, isFirst)>>

\* parseChunkLines, for one byte of a chunk.
TakeByte(acc, b) ==
    IF b = LF
    THEN [carried |-> <<>>, isFirst |-> FALSE, at |-> acc.at + 1, lineEnd |-> acc.at + 1,
          out |-> acc.out \o RecordsOf(acc.carried, acc.isFirst)]
    ELSE [carried |-> Append(acc.carried, b), isFirst |-> acc.isFirst, at |-> acc.at + 1,
          lineEnd |-> acc.lineEnd, out |-> acc.out]
TakeBytes(acc, bs) ==
    LET upTo[i \in 0 .. Len(bs)] == IF i = 0 THEN acc ELSE TakeByte(upTo[i - 1], bs[i])
    IN upTo[Len(bs)]

\* What a file's bytes hold, read at once: its lines, and those and what follows the last.
LinesFrom(at) == [carried |-> <<>>, isFirst |-> at = 0, at |-> at, lineEnd |-> at, out |-> <<>>]
Whole(bs) == TakeBytes(LinesFrom(0), bs)
CompleteRecords(bs) == Whole(bs).out
AllRecords(bs) == Whole(bs).out \o RecordsOf(Whole(bs).carried, Whole(bs).isFirst)

----------------------------------------------------------------------------
(* CursorPrefixTracker.                                                    *)

Tracker(hash) == [hash |-> hash, pending |-> <<>>, hashedTo |-> Len(hash), chunkStart |-> Len(hash)]
\* (mutant) The start of the line from earlier chunks is left out.
AddChunkUncarried(tracker, chunk, lineEnd) ==
    LET ended == lineEnd > tracker.hashedTo
        hashedTo == IF ended THEN lineEnd ELSE tracker.hashedTo
        chunkEnd == tracker.chunkStart + Len(chunk)
    IN [hash |-> IF ended THEN tracker.hash \o SubSeq(chunk, 1, lineEnd - tracker.chunkStart)
                 ELSE tracker.hash,
        pending |-> <<>>, hashedTo |-> hashedTo, chunkStart |-> chunkEnd]
\* addChunk, after the chunk's lines were reported.
AddChunk(tracker, chunk, lineEnd) ==
    LET ended == lineEnd > tracker.hashedTo
        hashedTo == IF ended THEN lineEnd ELSE tracker.hashedTo
        chunkEnd == tracker.chunkStart + Len(chunk)
        rest == IF hashedTo > tracker.chunkStart THEN hashedTo - tracker.chunkStart ELSE 0
    IN [hash |-> IF ended THEN tracker.hash \o tracker.pending \o SubSeq(chunk, 1, lineEnd - tracker.chunkStart)
                 ELSE tracker.hash,
        pending |-> (IF ended THEN <<>> ELSE tracker.pending)
                    \o (IF chunkEnd > hashedTo THEN SubSeq(chunk, rest + 1, Len(chunk)) ELSE <<>>),
        hashedTo |-> hashedTo, chunkStart |-> chunkEnd]

----------------------------------------------------------------------------
JsonlInit ==
    /\ bytes = <<>> /\ rewrites = 0 /\ touched = FALSE
    /\ read = NoRead
    /\ kept = [records |-> <<>>, cursor |-> NoCursor]

\* The tool appends, or another file takes the place of this one.
AppendByte ==
    /\ Len(bytes) < MaxBytes
    /\ \E b \in Bytes : (b = BOM => bytes = <<>>) /\ bytes' = Append(bytes, b)
    /\ touched' = TRUE
    /\ UNCHANGED <<rewrites, read, kept>>
Rewrite ==
    /\ rewrites < MaxRewrites /\ rewrites' = rewrites + 1
    /\ \E i \in DOMAIN bytes :
          bytes' \in {[bytes EXCEPT ![i] = Byte], [bytes EXCEPT ![i] = LF], SubSeq(bytes, 1, i - 1)}
    /\ bytes' # bytes
    /\ touched' = TRUE
    /\ UNCHANGED <<read, kept>>

\* validateJsonlCursor
CursorValid == kept.cursor # NoCursor /\ IsPrefix(kept.cursor, bytes)

\* readJsonlFromCursor: the read starts at the cursor, or at 0.
BeginAt(hash, positioned, records) ==
    /\ read = NoRead
    /\ read' = [positioned |-> positioned, before |-> records, tracker |-> Tracker(hash),
                lines |-> LinesFrom(Len(hash))]
    /\ touched' = FALSE
    /\ UNCHANGED <<bytes, rewrites, kept>>
BeginRead ==
    \/ CursorValid /\ BeginAt(kept.cursor, TRUE, kept.records)
    \/ ~CursorValid /\ BeginAt(<<>>, TRUE, <<>>)
    \/ BeginAt(<<>>, FALSE, <<>>)

\* readHandleChunks: what the handle gives from the offset on, all of it or less.
ReadChunk ==
    /\ read # NoRead /\ read.lines.at < Len(bytes)
    /\ \E n \in 1 .. ChunkSize :
          /\ read.lines.at + n <= Len(bytes)
          /\ LET chunk == SubSeq(bytes, read.lines.at + 1, read.lines.at + n)
                 lines == TakeBytes(read.lines, chunk)
             IN read' = [read EXCEPT !.lines = lines, !.tracker = AddChunk(@, chunk, lines.lineEnd)]
    /\ UNCHANGED <<bytes, rewrites, touched, kept>>

\* Nothing more to read: a read under a cursor leaves an open last line.
EndRead ==
    /\ read # NoRead /\ read.lines.at >= Len(bytes)
    /\ kept' = IF read.positioned
               THEN [records |-> read.before \o read.lines.out, cursor |-> read.tracker.hash] ELSE kept
    /\ read' = NoRead
    /\ UNCHANGED <<bytes, rewrites, touched>>

JsonlNext == AppendByte \/ Rewrite \/ BeginRead \/ ReadChunk \/ EndRead
JsonlSpec == JsonlInit /\ [][JsonlNext]_jsonlVars

(***************************************************************************)
(* Whatever chunks a read gets and however the file changes under it, the  *)
(* cursor ends with a line and its hash is of the bytes that the kept      *)
(* records are the lines of; so a cursor that is still valid continues     *)
(* those records.                                                          *)
(***************************************************************************)
CursorCoversRecords ==
    kept.cursor # NoCursor =>
        /\ kept.cursor = <<>> \/ Last(kept.cursor) = LF
        /\ kept.records = CompleteRecords(kept.cursor)

(***************************************************************************)
(* A read that ends while the file is as it was when it began has its      *)
(* lines: those that ended, and without a cursor the last one as well.     *)
(***************************************************************************)
ReadsWholeFile ==
    read # NoRead /\ ~touched /\ read.lines.at = Len(bytes) =>
        LET lines == read.lines
        IN IF read.positioned THEN read.before \o lines.out = CompleteRecords(bytes)
           ELSE lines.out \o RecordsOf(lines.carried, lines.isFirst) = AllRecords(bytes)

\* Both, of reads that go on where others ended.
ReadsGoOn == CursorCoversRecords /\ ReadsWholeFile
=============================================================================
