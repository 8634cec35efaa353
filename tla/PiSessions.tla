------------------------------ MODULE PiSessions ------------------------------
(***************************************************************************)
(* pi sessions and their forks (sources/pi): a fork's file repeats its     *)
(* parent's entries, which a report must not count twice, whether it finds *)
(* the parent, kept its rows when it went away, or never saw it.  pi,      *)
(* which writes the files, is external.  A report is one step here; how it *)
(* interleaves with others is Ingest's and Ledger's matter.                *)
(***************************************************************************)
EXTENDS Integers, Sequences, SequencesExt, FiniteSets

CONSTANTS
    MaxSessions,
    PiModels,   \* sequence of models: a session starts with the first one
    MaxClock,   \* bounds what pi writes
    NoEntry     \* no session, model, or rows
ASSUME PiAssumption ==
    /\ MaxSessions \in Nat
    /\ PiModels \in Seq(ToSet(PiModels)) /\ PiModels # <<>>
    /\ NoEntry \notin Nat \cup ToSet(PiModels) \cup [at : Nat, parent : Nat, counted : BOOLEAN]

VARIABLES
    session,    \* the entries of each session's file; <<>>: there is none
    used,       \* how many sessions there were: their numbers are in order
    outside,    \* sessions whose files lie outside the scanned roots
    clock,      \* the time, one for every entry
    answers,    \* the responses: who made them, when and with which model
    stored      \* what the store has of each file
piVars == <<session, used, outside, clock, answers, stored>>

PiFiles == 1 .. MaxSessions
NoFile == <<>>
Exists(s) == session[s] # NoFile
Discovered == {s \in PiFiles \ outside : Exists(s)}

----------------------------------------------------------------------------
(* The entries of a file, folded into rows and the state a cursor keeps.   *)

Header(s, parent) == [type |-> "session", id |-> s, parent |-> parent, at |-> clock]
Change(m) == [type |-> "model_change", model |-> m, at |-> clock]
Message(m) == [type |-> "message", model |-> m, at |-> clock]

NoFork == NoEntry
FreshState == [id |-> NoEntry, fork |-> NoFork, model |-> NoEntry, rows |-> <<>>]

\* resolveFork: whether the same report counts the parent.
ForkOf(header) ==
    [at |-> header.at, parent |-> header.parent, counted |-> header.parent \in Discovered]

\* (mutant) A copy keeps the id of the fork it is in.
CopiesAsOwn(st, at) ==
    IF st.fork # NoFork /\ at < st.fork.at /\ st.fork.counted THEN NoEntry ELSE st.id
\* resolveRecordSessionId: a copy's is its parent's, or none while the parent is counted.
RecordSession(st, at) ==
    IF st.fork = NoFork \/ at >= st.fork.at THEN st.id
    ELSE IF st.fork.counted THEN NoEntry ELSE st.fork.parent

\* applySessionLine, applyModelChangeLine and createUsage
TakeEntry(st, e) ==
    CASE e.type = "session" ->
           [st EXCEPT !.id = e.id, !.fork = IF e.parent = NoEntry THEN @ ELSE ForkOf(e)]
      [] e.type = "model_change" -> [st EXCEPT !.model = e.model]
      [] OTHER ->
           LET id == RecordSession(st, e.at)
               row == [id |-> id, at |-> e.at, model |-> IF e.model = NoEntry THEN st.model ELSE e.model]
           IN IF id = NoEntry THEN st ELSE [st EXCEPT !.rows = Append(@, row)]
ReadEntries(st, entries) ==
    LET upTo[i \in 0 .. Len(entries)] == IF i = 0 THEN st ELSE TakeEntry(upTo[i - 1], entries[i])
    IN upTo[Len(entries)]

----------------------------------------------------------------------------
(* pi.                                                                     *)

PiInit ==
    /\ session = [s \in PiFiles |-> NoFile] /\ used = 0
    /\ outside \in {{}} \cup {{s} : s \in PiFiles}
    /\ clock = 0 /\ answers = {}
    /\ stored = [s \in PiFiles |-> NoEntry]

AddEntries(s, entries) ==
    /\ clock < MaxClock /\ clock' = clock + 1
    /\ session' = [session EXCEPT ![s] = @ \o entries]
    /\ UNCHANGED <<outside, stored>>
BeginSession(s, parent, entries) ==
    /\ s = used + 1 /\ used' = s
    /\ AddEntries(s, <<Header(s, parent)>> \o entries)
    /\ UNCHANGED answers

NewSession(s) == BeginSession(s, NoEntry, <<Change(PiModels[1])>>)
\* The first entries of the parent, its header left out.
ForkSession(p, s) ==
    /\ Exists(p)
    /\ \E n \in 2 .. Len(session[p]) : BeginSession(s, p, SubSeq(session[p], 2, n))

\* The last change that is in a file.
LastChange(entries, i) ==
    /\ i \in DOMAIN entries /\ entries[i].type = "model_change"
    /\ \A j \in i + 1 .. Len(entries) : entries[j].type # "model_change"
ModelOf(s) == session[s][CHOOSE i \in DOMAIN session[s] : LastChange(session[s], i)].model
SwitchModel(s) ==
    /\ Exists(s) /\ ModelOf(s) # PiModels[Len(PiModels)]
    /\ AddEntries(s, <<Change(PiModels[Len(PiModels)])>>)
    /\ UNCHANGED <<used, answers>>
\* A response names its model, or leaves it to the last change.
Respond(s) ==
    /\ Exists(s)
    /\ \E named \in BOOLEAN : AddEntries(s, <<Message(IF named THEN ModelOf(s) ELSE NoEntry)>>)
    /\ answers' = answers \cup {[session |-> s, at |-> clock, model |-> ModelOf(s)]}
    /\ UNCHANGED used
Delete(s) ==
    /\ Exists(s) /\ session' = [session EXCEPT ![s] = NoFile]
    /\ UNCHANGED <<used, outside, clock, answers, stored>>

----------------------------------------------------------------------------
(* A report.                                                               *)

Parent(s) == session[s][1].parent
\* getParseDependencies: the parent, if this report can discover it.
Dependency(s) ==
    IF Parent(s) = NoEntry \/ Parent(s) \in outside THEN NoEntry ELSE Len(session[Parent(s)])
PrintOf(s) == [size |-> Len(session[s]), dependency |-> Dependency(s)]

\* The stored rows, those of the new entries added to them, or a full read.
Reread(s) ==
    LET old == stored[s]
        grown == old # NoEntry /\ old.print.dependency = Dependency(s)
        st == IF grown THEN ReadEntries(old.state, SubSeq(session[s], old.print.size + 1, Len(session[s])))
              ELSE ReadEntries(FreshState, session[s])
    IN [print |-> PrintOf(s), state |-> st]

\* Rows of a file that went away stay.
Report ==
    /\ Discovered # {}
    /\ stored' = [s \in PiFiles |-> IF s \in Discovered THEN Reread(s) ELSE stored[s]]
    /\ UNCHANGED <<session, used, outside, clock, answers>>

PiNext ==
    \/ Report
    \/ \E s \in PiFiles : NewSession(s) \/ SwitchModel(s) \/ Respond(s) \/ Delete(s)
    \/ \E p, s \in PiFiles : ForkSession(p, s)
PiSpec == PiInit /\ [][PiNext]_piVars

UpToDate == \A s \in Discovered : stored[s] # NoEntry /\ stored[s].print = PrintOf(s)
Reported == UNION {ToSet(stored[s].state.rows) : s \in {t \in PiFiles : stored[t] # NoEntry}}

(***************************************************************************)
(* A report counts every response that a file it read still tells of, with *)
(* the model that gave it, and as one event of the session that gave it:   *)
(* a fork's copies of it are skipped, or are that event, also when the     *)
(* parent went away before or after a report saw it.  Only a copy that     *)
(* came through a missing fork is counted under that fork's id.            *)
(***************************************************************************)
AnswersCountOnce ==
    UpToDate =>
    \A a \in answers :
        LET rows == {row \in Reported : row.at = a.at} IN
        /\ (\E s \in Discovered : \E i \in DOMAIN session[s] :
               session[s][i].type = "message" /\ session[s][i].at = a.at) => rows # {}
        /\ \A row \in rows : /\ row.model = a.model
                             /\ row.id # a.session => row.id \notin Discovered
=============================================================================
