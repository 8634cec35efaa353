------------------------------- MODULE MCIngest -------------------------------
(* Small instances of the ingest of one file: two runs, a few changes.     *)
EXTENDS Ingest, TLC

RunSymmetry == Permutations(Runs)

\* A store that is new, or that earlier runs left with the file as it is and a cursor for it.
MCInit ==
    \/ Init
    \/ /\ \E l \in Lines : disk = [lines |-> <<l>>, open |-> FALSE, mtime |-> 0]
       /\ parent = 0
       /\ entry = Fingerprint /\ rows = Parse(disk.lines, parent)
       /\ cursor = [fp |-> entry, lines |-> disk.lines]
       /\ pc = [r \in Runs |-> "idle"] /\ drops = 0
       /\ fp = [r \in Runs |-> None] /\ known = fp
       /\ growth = [r \in Runs |-> NoGrowth] /\ read = [r \in Runs |-> NothingRead]
MCSpec == MCInit /\ [][Next]_vars
==============================================================================
