-------------------------------- MODULE Ingest --------------------------------
(***************************************************************************)
(* How runs keep one session file in the ledger while its tool writes it   *)
(* (build-usage-data-parsing.ts, event-store-parse-cache.ts,               *)
(* stored-session-events.ts, stream/cursor.ts, event-store-append.ts).     *)
(*                                                                         *)
(* A run takes the file's fingerprint, looks the file up in the store, and *)
(* serves the stored rows when the fingerprints match.  Otherwise it reads *)
(* the file: from the stored cursor when the file only grew and the store  *)
(* holds one, else whole; and it stores what it read under the fingerprint *)
(* it took first.  Every run is a process of its own, and each step here   *)
(* is one file system call or one SQLite statement or transaction, so runs *)
(* and the tool interleave between any two of them.                        *)
(*                                                                         *)
(* Lines stand for complete JSONL lines; the last may still lack its line  *)
(* feed (`open`).  A joining line updates the row of the line before it.   *)
(***************************************************************************)
EXTENDS Integers, Sequences, SequencesExt

CONSTANTS Runs,        \* the processes that report on the file, again and again
          Lines,       \* what a line may say
          Joining,     \* the lines that update the row before them
          Follows,     \* dependenciesFollowFile: the entry is read before the stat
          MaxChanges,  \* bound: changes of the file and its parent together
          MaxLen,      \* bound: lines in the file
          MaxDrops,    \* bound: runs that end before their write
          None         \* no entry, no cursor, no resume point

Fingerprints == [size : Nat, mtime : Nat, parent : Nat]
Rows == [first : Lines, last : Lines, parent : Nat]
Cursors == [fp : Fingerprints, lines : Seq(Lines)]

ASSUME IngestAssumption ==
    /\ Joining \subseteq Lines
    /\ Follows \in BOOLEAN
    /\ MaxChanges \in Nat /\ MaxLen \in Nat /\ MaxDrops \in Nat
    /\ None \notin Fingerprints /\ None \notin Cursors

VARIABLES
    disk,     \* the session file: its lines, whether the last is open, its mtime
    parent,   \* version of the dependency its parse reads (a fork's parent)
    entry,    \* files.fingerprint
    rows,     \* the file's rows in events
    cursor,   \* the file's row in file_read_cursors
    pc,       \* where each run is
    fp,       \* the fingerprint each run took
    known,    \* the entry each run read
    growth,   \* what readFileGrowth returned it
    read,     \* what it has read of the file
    drops     \* how many runs ended before their write

storeVars == <<entry, rows, cursor>>
runVars == <<pc, fp, known, growth, read, drops>>
vars == <<disk, parent, storeVars, runVars>>

----------------------------------------------------------------------------
(* The file and its parse.                                                 *)

Size(d) == 2 * Len(d.lines) - (IF d.open THEN 1 ELSE 0)
Complete(d) == IF d.open THEN Front(d.lines) ELSE d.lines
Fingerprint == [size |-> Size(disk), mtime |-> disk.mtime, parent |-> parent]

\* The rows of lines ls added to the rows so far, for a parse that saw parent p.
\* A joining line updates the last row, any other line has a row of its own.
AddLine(sofar, l, p) ==
    IF l \in Joining /\ sofar # <<>>
    THEN [sofar EXCEPT ![Len(sofar)] = [@ EXCEPT !.last = l, !.parent = p]]
    ELSE Append(sofar, [first |-> l, last |-> l, parent |-> p])
AddLines(sofar, ls, p) ==
    LET after[i \in 0..Len(ls)] == IF i = 0 THEN sofar ELSE AddLine(after[i - 1], ls[i], p)
    IN after[Len(ls)]
Parse(ls, p) == AddLines(<<>>, ls, p)

\* The parse state a cursor over lines ls carries: the last row, still open to
\* a joining line.  A resumed read yields it again (replaced.usage).
OpenRows(ls, p) == IF ls = <<>> THEN <<>> ELSE <<Last(Parse(ls, p))>>
Replaced(ls) == IF ls = <<>> THEN 0 ELSE 1
DropLast(s, n) == SubSeq(s, 1, Len(s) - n)

NoGrowth == [kind |-> "none", fp |-> None, rows |-> <<>>, lines |-> <<>>]
NothingRead == [lines |-> <<>>, kept |-> FALSE, resumed |-> FALSE, parent |-> 0]

Init ==
    /\ \E l \in Lines : disk = [lines |-> <<l>>, open |-> FALSE, mtime |-> 0]
    /\ parent = 0
    /\ entry = None /\ rows = <<>> /\ cursor = None
    /\ pc = [r \in Runs |-> "idle"]
    /\ fp = [r \in Runs |-> None]
    /\ known = [r \in Runs |-> None]
    /\ growth = [r \in Runs |-> NoGrowth]
    /\ read = [r \in Runs |-> NothingRead]
    /\ drops = 0

----------------------------------------------------------------------------
(* The tool that writes the file: external to this program.                *)

MayChange == disk.mtime + parent < MaxChanges

AppendLine ==
    /\ MayChange /\ ~disk.open /\ Len(disk.lines) < MaxLen
    /\ \E l \in Lines, open \in BOOLEAN :
         disk' = [lines |-> Append(disk.lines, l), open |-> open, mtime |-> disk.mtime + 1]
    /\ UNCHANGED <<parent, storeVars, runVars>>

EndLine ==
    /\ MayChange /\ disk.open
    /\ disk' = [lines |-> disk.lines, open |-> FALSE, mtime |-> disk.mtime + 1]
    /\ UNCHANGED <<parent, storeVars, runVars>>

Rewrite ==
    /\ MayChange
    /\ \E n \in 1..MaxLen, l \in Lines :
         \* every line becomes l, or the file is cut to its first n lines
         \/ disk' = [lines |-> [i \in 1..n |-> l], open |-> FALSE, mtime |-> disk.mtime + 1]
         \/ /\ n < Len(disk.lines)
            /\ disk' = [lines |-> SubSeq(disk.lines, 1, n), open |-> FALSE,
                        mtime |-> disk.mtime + 1]
    /\ UNCHANGED <<parent, storeVars, runVars>>

ParentChanges ==
    /\ MayChange
    /\ parent' = parent + 1
    /\ UNCHANGED <<disk, storeVars, runVars>>

----------------------------------------------------------------------------
(* A run's lookup (lookUpFile).                                            *)

Goto(r, from, to) == pc[r] = from /\ pc' = [pc EXCEPT ![r] = to]

\* A run starts; a source whose dependencies follow its file reads its entry
\* now (readStoredFileEntry), any other as it compares.
Start(r) ==
    /\ Goto(r, "idle", "stat")
    /\ known' = [known EXCEPT ![r] = IF Follows THEN entry ELSE None]
    /\ UNCHANGED <<disk, parent, storeVars, fp, growth, read, drops>>

\* getFileFingerprint stats the file, then what its parse depends on.
StatFile(r) ==
    /\ Goto(r, "stat", "statParent")
    /\ fp' = [fp EXCEPT ![r] = Fingerprint]
    /\ UNCHANGED <<disk, parent, storeVars, known, growth, read, drops>>
StatParent(r) ==
    /\ Goto(r, "statParent", "compare")
    /\ fp' = [fp EXCEPT ![r].parent = parent]
    /\ UNCHANGED <<disk, parent, storeVars, known, growth, read, drops>>

\* readParsedFileFromEventStore: an entry that was not read before is read
\* here (getFileEntry).  With equal fingerprints the rows are read, in a
\* statement of their own; else the file is a miss.
Compare(r) ==
    LET have == IF known[r] = None THEN entry ELSE known[r] IN
    /\ Goto(r, "compare", IF have = fp[r] THEN "serve" ELSE "growth")
    /\ UNCHANGED <<disk, parent, storeVars, fp, known, growth, read, drops>>

Reset(r) ==
    /\ fp' = [fp EXCEPT ![r] = None]
    /\ known' = [known EXCEPT ![r] = None]
    /\ growth' = [growth EXCEPT ![r] = NoGrowth]
    /\ read' = [read EXCEPT ![r] = NothingRead]

\* readFileEvents: the run reports the stored rows, as they are by now.
Serve(r) ==
    /\ Goto(r, "serve", "idle")
    /\ Reset(r)
    /\ UNCHANGED <<disk, parent, storeVars, drops>>

\* isOnlyFileGrown: only the file's own size and time differ, and it is larger.
OnlyGrown(stored, now) ==
    stored # None /\ stored.parent = now.parent /\ stored.size < now.size

\* A cursor holds only for the stored version it was written with.
CursorHolds == cursor # None /\ cursor.fp = entry

\* readFileGrowth: entry, cursor and rows in one read transaction.
ReadGrowth(r) ==
    /\ Goto(r, "growth", "read")
    /\ growth' = [growth EXCEPT ![r] =
         IF ~OnlyGrown(entry, fp[r]) THEN NoGrowth
         ELSE IF CursorHolds
         THEN [kind |-> "resume", fp |-> entry, rows |-> rows, lines |-> cursor.lines]
         ELSE [NoGrowth EXCEPT !.kind = "grown"]]
    /\ UNCHANGED <<disk, parent, storeVars, fp, known, read, drops>>

----------------------------------------------------------------------------
(* A run's read of the file.                                               *)

\* (mutant) The bytes before the cursor are counted, not compared.
ResumesUnchecked(r) ==
    growth[r].kind = "resume" /\ Len(growth[r].lines) <= Len(Complete(disk))

\* validateJsonlCursor: the bytes before the cursor are those it covers.
Resumes(r) == growth[r].kind = "resume" /\ IsPrefix(growth[r].lines, Complete(disk))

\* readJsonlFromStatefulCursor opens the file at the cursor, if it is valid, else
\* at 0.  The first chunk it reads ends at any line.  A grown file may also go to
\* a worker, which keeps no cursor, and so does any other file (keep = FALSE).
BeginRead(r) ==
    LET resumes == Resumes(r)
        from == IF resumes THEN Len(growth[r].lines) ELSE 0 IN
    /\ Goto(r, "read", "readOn")
    /\ \E keep \in CASE growth[r].kind = "none" -> {FALSE}
                     [] growth[r].kind = "grown" -> BOOLEAN
                     [] growth[r].kind = "resume" -> {TRUE},
          n \in from..Len(Complete(disk)) :
         read' = [read EXCEPT ![r] = [lines |-> SubSeq(disk.lines, 1, n), kept |-> keep,
                                      resumed |-> resumes, parent |-> parent]]
    /\ UNCHANGED <<disk, parent, storeVars, fp, known, growth, drops>>

\* The read goes on to the end of the file, as it is now; a resumed pass that
\* meets a line its state cannot place (ResumeConflict) starts over, from 0.  A
\* read that keeps a cursor leaves an open last line alone; then
\* collectFileForEventStore reads the file once more, whole, for no cursor.
EndRead(r) ==
    LET got == read[r].lines IN
    /\ pc[r] = "readOn"
    /\ \E from \in {Len(got)} \cup (IF read[r].resumed THEN {0} ELSE {}) :
         \/ /\ read[r].kept /\ disk.open /\ Len(disk.lines) > from
            /\ pc' = [pc EXCEPT ![r] = "readAgain"]
            /\ read' = [read EXCEPT ![r] = NothingRead]
         \/ /\ ~(read[r].kept /\ disk.open /\ Len(disk.lines) > from)
            /\ pc' = [pc EXCEPT ![r] = "write"]
            /\ read' = [read EXCEPT
                 ![r].lines = SubSeq(got, 1, from) \o SubSeq(disk.lines, from + 1, Len(disk.lines)),
                 ![r].resumed = @ /\ from = Len(got)]
    /\ UNCHANGED <<disk, parent, storeVars, fp, known, growth, drops>>

ReadAgain(r) ==
    /\ Goto(r, "readAgain", "readOn")
    /\ \E n \in 0..Len(Complete(disk)) :
         read' = [read EXCEPT ![r] = [NothingRead EXCEPT !.lines = SubSeq(disk.lines, 1, n),
                                                         !.parent = parent]]
    /\ UNCHANGED <<disk, parent, storeVars, fp, known, growth, drops>>

\* The rows the read yielded: of the appended lines only, when it resumed.
NewRows(r) ==
    LET got == read[r]
        base == growth[r].lines IN
    IF got.resumed
    THEN AddLines(OpenRows(base, got.parent),
                  SubSeq(got.lines, Len(base) + 1, Len(got.lines)), got.parent)
    ELSE Parse(got.lines, got.parent)

\* joinResumedRead: what the run reports of the file.
ReportRows(r) ==
    IF read[r].resumed
    THEN DropLast(growth[r].rows, Replaced(growth[r].lines)) \o NewRows(r)
    ELSE NewRows(r)

----------------------------------------------------------------------------
(* A run's write (replaceFilesEvents), one transaction.                    *)

\* (mutants) Only the stored version is compared; or no append ever fits.
AppendFitsVersion(r) == entry = growth[r].fp
AppendNeverFits(r) == FALSE

\* prepareFileAppend, under the write lock: the stored version and cursor are
\* still those the read resumed from.
AppendFits(r) ==
    /\ entry = growth[r].fp
    /\ CursorHolds /\ cursor.lines = growth[r].lines

\* (mutant) A read that keeps no cursor leaves the stored one.
CursorLeftBehind(r) ==
    IF read[r].kept THEN [fp |-> fp[r], lines |-> read[r].lines] ELSE cursor

\* writeFileReadCursor
StoredCursor(r) ==
    IF read[r].kept THEN [fp |-> fp[r], lines |-> read[r].lines] ELSE None

Write(r) ==
    /\ Goto(r, "write", "idle")
    /\ IF read[r].resumed /\ ~AppendFits(r)
       THEN UNCHANGED storeVars
       ELSE /\ entry' = fp[r]
            /\ rows' = IF read[r].resumed
                       THEN DropLast(rows, Replaced(growth[r].lines)) \o NewRows(r)
                       ELSE NewRows(r)
            /\ cursor' = StoredCursor(r)
    /\ Reset(r)
    /\ UNCHANGED <<disk, parent, drops>>

\* The run is killed, or its store fails, before the batch commits.
NoWrite(r) ==
    /\ drops < MaxDrops
    /\ drops' = drops + 1
    /\ Goto(r, "write", "idle")
    /\ Reset(r)
    /\ UNCHANGED <<disk, parent, storeVars>>

----------------------------------------------------------------------------
Step(r) ==
    \/ StatFile(r) \/ StatParent(r) \/ Compare(r) \/ Serve(r)
    \/ ReadGrowth(r) \/ BeginRead(r) \/ EndRead(r) \/ ReadAgain(r) \/ Write(r)

Next ==
    \/ AppendLine \/ EndLine \/ Rewrite \/ ParentChanges
    \/ \E r \in Runs : Start(r) \/ Step(r) \/ NoWrite(r)

Spec == Init /\ [][Next]_vars

\* A run that started goes on; users keep running reports.
FairSpec == Spec /\ \A r \in Runs : WF_vars(Start(r)) /\ WF_vars(Step(r))

----------------------------------------------------------------------------
\* Type correctness.
TypeOK ==
    /\ disk \in [lines : Seq(Lines), open : BOOLEAN, mtime : Nat]
    /\ parent \in Nat
    /\ entry \in Fingerprints \cup {None}
    /\ rows \in Seq(Rows)
    /\ cursor \in Cursors \cup {None}
    /\ pc \in [Runs -> {"idle", "stat", "statParent", "compare", "serve",
                        "growth", "read", "readOn", "readAgain", "write"}]
    /\ \A r \in Runs : fp[r] \in Fingerprints \cup {None}
    /\ \A r \in Runs : read[r] \in [lines : Seq(Lines), kept : BOOLEAN,
                                    resumed : BOOLEAN, parent : Nat]

(* While the stored fingerprint is the file's own, the stored rows are the
   parse of the file as it is: a file that changes while it is read is stored
   under a fingerprint it will never have again (the fingerprint is taken
   before the read), and an append only ever continues the rows it was read
   against.  So a hit never serves the wrong rows for an unchanged file.     *)
CurrentIsExact == entry = Fingerprint => rows = Parse(disk.lines, parent)

(* A cursor that holds continues the stored rows exactly: they are the parse
   of the lines it covers, so a resumed read neither repeats nor skips one,
   whichever runs wrote the rows and the cursor.                            *)
Untagged(rs) == [i \in 1..Len(rs) |-> <<rs[i].first, rs[i].last>>]
CursorPairsRows ==
    CursorHolds => Untagged(rows) = Untagged(Parse(cursor.lines, 0))

(* What a run reports of a file it read is the file's parse, if the file did
   not change since its fingerprint was taken: stored rows and appended ones
   join without a gap or an overlap, though other runs write in between.    *)
ReportIsExact ==
    \A r \in Runs : pc[r] = "write" /\ fp[r] = Fingerprint =>
        ReportRows(r) = Parse(disk.lines, parent)

(* Rows are reused only for the version whose fingerprint matched: between
   the comparison and the read of the rows no other version slips in.       *)
ReusedOnlyOnMatch ==
    [][\A r \in Runs : pc[r] = "serve" /\ pc'[r] = "idle" => entry = fp[r]]_vars

(* Once the file stops changing, the store comes to hold its last version and
   keeps it: neither a slow run that stores an older version late, nor an
   append that is skipped, nor a run that dies, keeps it behind for good.   *)
StoreCatchesUp == <>[](entry = Fingerprint)
==============================================================================
