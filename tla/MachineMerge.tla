----------------------------- MODULE MachineMerge -----------------------------
(***************************************************************************)
(* What a report counts of other machines (machines/merge-machine-events): *)
(* per session, a machine's events that are copies of served ones are left *)
(* out, by content or, where the parser versions differ, by turn.  An      *)
(* event is a record as in Dedup; a machine is [events, version].          *)
(***************************************************************************)
EXTENDS Integers, Sequences, SequencesExt, FiniteSets, FiniteSetsExt, Dedup

Unversioned == 0
SessionsOf(events) == {e.session : e \in ToSet(events)}
OfSession(events, s) == SelectSeq(events, LAMBDA e : e.session = s)

\* USAGE_KEYS: what a copy must agree on, the closest key first.
ByContent == <<"content">>
ByTurn == <<"model", "time">>
SameKey(key, e, f) ==
    CASE key = "content" -> Hash(e) = Hash(f)
      [] key = "model"   -> e.at = f.at /\ e.model = f.model
      [] key = "time"    -> e.at = f.at

\* The passes of matchCopies, by the ids that an event and the served one it takes have.
Passes == <<"sameIds", "forServedIds", "forOwnIds", "noIds">>
Fits(pass, e, f) ==
    CASE pass = "sameIds"      -> e.ids # NoIds /\ f.ids = e.ids
      [] pass = "forServedIds" -> e.ids = NoIds /\ f.ids # NoIds
      [] pass = "forOwnIds"    -> e.ids # NoIds /\ f.ids = NoIds
      [] pass = "noIds"        -> e.ids = NoIds /\ f.ids = NoIds

\* Every event that is not matched takes the last served one that is not taken, in each
\* pass with each key in turn.
Take(events, served, pass, key, acc, i) ==
    LET open == {j \in DOMAIN served \ acc.taken :
                   SameKey(key, events[i], served[j]) /\ Fits(pass, events[i], served[j])}
    IN IF i \in acc.matched \/ open = {} THEN acc
       ELSE [matched |-> acc.matched \cup {i}, taken |-> acc.taken \cup {Max(open)}]
MatchCopies(events, served, keys) ==
    LET each(pass, key, acc) ==
            FoldLeftDomain(LAMBDA a, i : Take(events, served, pass, key, a, i), acc, events)
        perKey(acc, pass) == FoldLeft(LAMBDA a, key : each(pass, key, a), acc, keys)
    IN FoldLeft(perKey, [matched |-> {}, taken |-> {}], Passes).matched

\* findSkew
Skewed(machine, version) ==
    Unversioned \in {machine.version, version} \/ machine.version # version

\* mergeByKeys, for the sessions of one machine: served and the versions by session.
\* SessionsOf(acc.served) = the sessions of servedBySession.
MergeSession(machine, acc, s) ==
    LET events == OfSession(machine.events, s)
        served == OfSession(acc.served, s)
        keys == IF Skewed(machine, acc.versions[s]) THEN ByTurn ELSE ByContent
        matched == MatchCopies(events, served, keys)
        new == Keep(events, LAMBDA i : i \notin matched)
    IN IF s \notin SessionsOf(acc.served)
       THEN [acc EXCEPT !.served = @ \o events, !.versions[s] = machine.version,
                        !.kept[Len(acc.kept)] = @ \o events]
       ELSE [acc EXCEPT !.served = @ \o new, !.kept[Len(acc.kept)] = @ \o new]
MergeMachine(acc, machine) ==
    FoldSet(LAMBDA s, a : MergeSession(machine, a, s), [acc EXCEPT !.kept = Append(@, <<>>)],
            SessionsOf(machine.events))

\* mergeMachineEvents: what each machine adds to what is served here.
Merge(served, version, machines) ==
    LET sessions == SessionsOf(served) \cup UNION {SessionsOf(m.events) : m \in ToSet(machines)}
    IN FoldLeft(MergeMachine, [served |-> served, versions |-> [s \in sessions |-> version],
                               kept |-> <<>>], machines).kept

----------------------------------------------------------------------------
(* What the merge must come to.                                            *)

Copy(keys, e, f) == SameKey(Last(keys), e, f) /\ (NoIds \in {e.ids, f.ids} \/ e.ids = f.ids)
\* The most events that can each be a copy of a served one of its own.
MostCopies(events, served, keys) ==
    Max({Cardinality(S) : S \in {T \in SUBSET DOMAIN events :
        \E m \in Injection(T, DOMAIN served) : \A i \in T : Copy(keys, events[i], served[m[i]])}})

(***************************************************************************)
(* As many events of a session are left out as can be copies of served     *)
(* ones, each served one counted once; so what a machine adds, it does not *)
(* add again, and one that holds just what is served adds nothing,         *)
(* whichever machines and parser versions came between.                    *)
(***************************************************************************)
MachinesCountOnce(served, version, machines) ==
    LET twice == Merge(served, version, machines \o machines)
        mirror == [events |-> served, version |-> version]
    IN /\ \A s \in SessionsOf(served), m \in ToSet(machines), keys \in {ByContent, ByTurn} :
            LET events == OfSession(m.events, s) IN
            Cardinality(MatchCopies(events, OfSession(served, s), keys))
                = MostCopies(events, OfSession(served, s), keys)
       /\ \A n \in DOMAIN machines : twice[Len(machines) + n] = <<>>
       /\ Last(Merge(served, version, Append(machines, mirror))) = <<>>
=============================================================================
