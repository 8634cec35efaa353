-------------------------------- MODULE Projects --------------------------------
(***************************************************************************)
(* The project that usage counts under (cli/build-usage-event-dataset,     *)
(* session/): its session's root, then the repository of the worktree it   *)
(* ran in, of another machine's clone, then an alias.  A key is a path,    *)
(* the sequence of its segments.  Git and the tools, which make and delete *)
(* the directories, are external.                                          *)
(***************************************************************************)
EXTENDS Integers, Sequences, SequencesExt, FiniteSets, FiniteSetsExt, Functions

CONSTANTS
    GitDirs,        \* where repositories and worktrees may come to be
    RepoDirs,       \* of these, the ones where repositories may
    WorkDirs,       \* where sessions run
    Home,           \* the home directory
    NamesIn(_),     \* the parts of a segment that a repository's name may match
    NameLength(_), MinMatchedNameLength,
    ProjectRuns,
    MaxLogged, MaxGitSteps,
    NoPath           \* no key, root, session or remote

ASSUME ProjectsAssumption ==
    /\ RepoDirs \subseteq GitDirs
    /\ GitDirs \cup WorkDirs \subseteq Seq(Nat)
    /\ NoPath \notin GitDirs \cup [root : GitDirs, repo : RepoDirs]

VARIABLES
    disk,       \* the repository that each git directory belongs to
    gitSteps,
    logged,     \* this machine's usage, in the order of its time
    recorded,   \* git_roots of the store
    rootsRead,      \* what each run read of it
    credited    \* the git root through which a report first moved, or kept, a key
projectVars == <<disk, gitSteps, logged, recorded, rootsRead, credited>>

NoRoots == <<>>
AtOrAbove(key) == {SubSeq(key, 1, n) : n \in 1 .. Len(key)}
Nearest(keys) == CHOOSE k \in keys : \A l \in keys : Len(l) <= Len(k)
\* compareByCodePoint
Before(k, l) == IsStrictPrefix(k, l)
    \/ \E i \in DOMAIN k \cap DOMAIN l : k[i] < l[i] /\ SubSeq(k, 1, i - 1) = SubSeq(l, 1, i - 1)
FirstPath(keys) == CHOOSE k \in keys : \A l \in keys : k = l \/ Before(k, l)
\* moveProjectKeyBelow
MoveBelow(key, ancestor, target) == target \o SubSeq(key, Len(ancestor) + 1, Len(key))

----------------------------------------------------------------------------
(* The root of a session (session/aggregate-sessions.ts).                  *)

\* mapSessionRepoRoots: where its earliest event ran, of several the least by name.
SessionRoot(events, s) ==
    LET own == {e \in ToSet(events) : e.session = s /\ e.root # NoPath} IN
    IF own = {} THEN NoPath
    ELSE LET first == Min({e.at : e \in own})
             roots == {e.root : e \in {d \in own : d.at = first}}
         IN FirstPath(roots)
\* attributeEventsToSessionRoots: the nearest directory, up to the session's root, where
\* some session started.
SessionKey(events, e) ==
    LET root == SessionRoot(events, e.session)
        starts == {SessionRoot(events, d.session) : d \in ToSet(events)}
        between == {k \in AtOrAbove(e.root) : Len(k) >= Len(root)}
    IN IF e.root = NoPath \/ root = NoPath \/ root \notin AtOrAbove(e.root) THEN e.root
       ELSE Nearest(between \cap starts)
Attributed(events) == [i \in DOMAIN events |-> [events[i] EXCEPT !.root = SessionKey(events, events[i])]]

----------------------------------------------------------------------------
(* Worktrees (session/worktree-roots.ts).                                  *)

\* readGitRoot: the home directory and those above it are not read.
Readable(d) == disk[d] # NoPath /\ d \notin AtOrAbove(Home)
OnDisk == {d \in GitDirs : Readable(d)}
\* locate: the nearest git root at or above a key.
Located(key) ==
    LET roots == OnDisk \cap AtOrAbove(key) IN IF roots = {} THEN NoPath ELSE Nearest(roots)
\* resolveWorktreeRoots: roots found for `keys` that are not among `roots`.
NewRoots(keys, roots) ==
    LET found == {Located(k) : k \in keys} \ ({NoPath} \cup DOMAIN roots)
    IN [d \in found |-> disk[d]]

\* (mutant) What is on disk now wins over the record of the same path.
DiskFirst(key, roots) ==
    LET found == Located(key) IN
    IF found # NoPath THEN [root |-> found, repo |-> disk[found]]
    ELSE LET above == DOMAIN roots \cap AtOrAbove(key)
         IN IF above = {} THEN NoPath ELSE [root |-> Nearest(above), repo |-> roots[Nearest(above)]]
\* resolve: the nearest root of the record or the disk; of one directory, the record.
RootOf(key, roots) ==
    LET above == (DOMAIN roots \cup OnDisk) \cap AtOrAbove(key) IN
    IF above = {} THEN NoPath
    ELSE LET root == Nearest(above)
         IN [root |-> root, repo |-> IF root \in DOMAIN roots THEN roots[root] ELSE disk[root]]

\* repoKeysByName: several repositories of a name leave it to the one with worktrees.
Bearers(name, roots) == {r \in Range(roots) : Last(r) = name}
WithWorktrees(roots) == {roots[d] : d \in {e \in DOMAIN roots : roots[e] # e}}
BearerOf(name, roots) ==
    LET all == Bearers(name, roots)
        some == IF Cardinality(all) = 1 THEN all ELSE all \cap WithWorktrees(roots)
    IN IF Cardinality(some) = 1 THEN CHOOSE r \in some : TRUE ELSE NoPath
\* matchByName: the longest name, of several the first repository.
NamedAfter(key, roots) ==
    LET names == {n \in UNION {NamesIn(key[i]) : i \in DOMAIN key} :
                     NameLength(n) >= MinMatchedNameLength /\ BearerOf(n, roots) # NoPath}
        longest == {n \in names : \A m \in names : NameLength(m) <= NameLength(n)}
    IN IF names = {} THEN NoPath ELSE FirstPath({BearerOf(n, roots) : n \in longest})

\* repoKeyOf and moveEventsToRepositories: the key after the move.
RepositoryKey(key, roots) ==
    LET found == RootOf(key, roots) IN
    IF found # NoPath
    THEN IF found.root = found.repo THEN key ELSE MoveBelow(key, found.root, found.repo)
    ELSE IF NamedAfter(key, roots) = NoPath THEN key ELSE NamedAfter(key, roots)

----------------------------------------------------------------------------
(* Other machines (session/git-remotes.ts) and aliases.                    *)

\* moveMachineEventsToLocalRepositories: `remotes` are of the machine's roots, `local` of
\* the repositories here; a remote that several have moves nothing.
LocalRepository(remote, local) ==
    LET same == {r \in DOMAIN local : local[r] = remote}
    IN IF Cardinality(same) = 1 THEN CHOOSE r \in same : TRUE ELSE NoPath
MachineKey(key, remotes, local) ==
    LET roots == DOMAIN remotes \cap AtOrAbove(key) IN
    IF roots = {} THEN key
    ELSE LET repo == LocalRepository(remotes[Nearest(roots)], local)
         IN IF repo = NoPath THEN key ELSE MoveBelow(key, Nearest(roots), repo)

\* createProjectAliasResolver: the nearest alias, unless a target is as near.
AliasKey(key, aliases) ==
    LET near == (DOMAIN aliases \cup Range(aliases)) \cap AtOrAbove(key) IN
    IF near = {} \/ Nearest(near) \in Range(aliases) THEN key
    ELSE MoveBelow(key, Nearest(near), aliases[Nearest(near)])

\* buildUsageEventDataset: the order of the moves.
LocalProject(key, roots, aliases) == AliasKey(RepositoryKey(key, roots), aliases)
MachineProject(key, remotes, local, aliases) == AliasKey(MachineKey(key, remotes, local), aliases)

----------------------------------------------------------------------------
(* Worktrees come and go, and reports run.                                 *)

ProjectsInit ==
    /\ disk = [d \in GitDirs |-> IF d \in RepoDirs THEN d ELSE NoPath] /\ gitSteps = 0
    /\ logged = <<>> /\ recorded = NoRoots
    /\ rootsRead = [r \in ProjectRuns |-> NoPath]
    /\ credited = [k \in WorkDirs |-> NoPath]

\* A repository or a worktree is made, or a directory is deleted.
GitStep(d, repo) ==
    /\ gitSteps < MaxGitSteps /\ gitSteps' = gitSteps + 1
    /\ disk[d] # repo
    /\ repo \in {NoPath} \cup ({d} \cap RepoDirs) \cup {r \in RepoDirs \ {d} : disk[r] = r}
    /\ disk' = [disk EXCEPT ![d] = repo]
    /\ UNCHANGED <<logged, recorded, rootsRead, credited>>
\* A session of its own, or the last one after a change of directory.
Work(dir, newSession) ==
    /\ Len(logged) < MaxLogged
    /\ logged # <<>> \/ newSession
    /\ LET last == IF logged = <<>> THEN 0 ELSE Last(logged).session
       IN logged' = Append(logged, [session |-> IF newSession THEN last + 1 ELSE last,
                                    at |-> Len(logged), root |-> dir])
    /\ UNCHANGED <<disk, gitSteps, recorded, rootsRead, credited>>

\* attributeWorktreesToRepositories: readGitRoots, then the disk and recordGitRoots.
ReadGitRoots(r) ==
    /\ rootsRead[r] = NoPath /\ logged # <<>>
    /\ rootsRead' = [rootsRead EXCEPT ![r] = recorded]
    /\ UNCHANGED <<disk, gitSteps, logged, recorded, credited>>
\* The roots of both, those of the first as it has them.
FilledFrom(first, second) ==
    [d \in DOMAIN first \cup DOMAIN second |-> IF d \in DOMAIN first THEN first[d] ELSE second[d]]
\* A root already recorded keeps its first record.
RecordRoots(new) == FilledFrom(recorded, new)
\* The events of a report's window, and the keys that it moves.
Attribute(r, first) ==
    LET events == Attributed(SubSeq(logged, first, Len(logged)))
        keys == {e.root : e \in ToSet(events)}
        new == NewRoots(keys, rootsRead[r])
        roots == FilledFrom(rootsRead[r], new)
        store == RecordRoots(new)
    IN /\ rootsRead[r] # NoPath
       /\ recorded' = store
       /\ credited' = [k \in WorkDirs |->
            LET found == RootOf(k, roots) IN
            IF k \in keys /\ credited[k] = NoPath /\ found # NoPath
               /\ found.root \in DOMAIN store /\ store[found.root] = found.repo
            THEN found ELSE credited[k]]
       /\ rootsRead' = [rootsRead EXCEPT ![r] = NoPath]
       /\ UNCHANGED <<disk, gitSteps, logged>>

ProjectsNext ==
    \/ \E d \in GitDirs, repo \in RepoDirs \cup {NoPath} : GitStep(d, repo)
    \/ \E dir \in WorkDirs, newSession \in BOOLEAN : Work(dir, newSession)
    \/ \E r \in ProjectRuns : ReadGitRoots(r) \/ \E first \in DOMAIN logged : Attribute(r, first)
ProjectsSpec == ProjectsInit /\ [][ProjectsNext]_projectVars

(***************************************************************************)
(* Usage that a report once counted under the repository of its worktree   *)
(* stays there, though the worktree is deleted or its path becomes one of  *)
(* another repository, whichever runs record what they find, in which      *)
(* order: only a git root nearer to it can move it.                        *)
(***************************************************************************)
CreditStays ==
    \A k \in WorkDirs :
        LET now == RootOf(k, recorded) IN
        credited[k] # NoPath =>
            /\ now # NoPath /\ Len(now.root) >= Len(credited[k].root)
            /\ now.root = credited[k].root => now.repo = credited[k].repo

(***************************************************************************)
(* The projects of a report do not depend on the order in which its events *)
(* were read, and a second pass over them changes nothing.                 *)
(***************************************************************************)
SessionsKeepRoots(events) ==
    LET once == Attributed(events) IN
    /\ Attributed(once) = once
    /\ ToSet(Attributed(Reverse(events))) = ToSet(once)

(***************************************************************************)
(* A directory of a repository is one project wherever it was used: in the *)
(* repository, in a worktree of it, or in the only clone of it on another  *)
(* machine; aliases, which follow, move all three alike.                   *)
(***************************************************************************)
OneProjectEverywhere(roots, local, remotes, aliases, below) ==
    LET project(repo) == LocalProject(repo \o below, roots, aliases)
        plain(repo) == RootOf(repo \o below, roots) \in {NoPath, [root |-> repo, repo |-> repo]}
    IN /\ \A d \in DOMAIN roots :
             RootOf(d \o below, roots).root = d /\ plain(roots[d]) =>
                 LocalProject(d \o below, roots, aliases) = project(roots[d])
       /\ \A d \in DOMAIN remotes :
             LET repo == LocalRepository(remotes[d], local) IN
             repo # NoPath /\ plain(repo) /\ Nearest(DOMAIN remotes \cap AtOrAbove(d \o below)) = d =>
                 MachineProject(d \o below, remotes, local, aliases) = project(repo)
=============================================================================
