----------------------------- MODULE ConfigEdits -----------------------------
(***************************************************************************)
(* `machine add` and `machine remove` edit one config file                 *)
(* (machine-config-file.ts): under a lock file, each reads the file,       *)
(* checks what its edit would make of it, and replaces it through a        *)
(* rename.  A run that dies leaves the lock behind; no run takes it over,  *)
(* the user deletes it once no other run is editing.                       *)
(***************************************************************************)
EXTENDS Integers, FiniteSets

CONSTANTS Editors,     \* runs that edit the config
          Adds,        \* those that add a machine; the others remove one
          MachineOf,   \* the machine each edits
          NoEditor     \* nobody

Machines == {MachineOf[e] : e \in Editors}

ASSUME ConfigAssumption == Adds \subseteq Editors /\ NoEditor \notin Editors

VARIABLES
    config,      \* the machines of the config file
    configLock,  \* the run whose lock file is there
    editPc,      \* where each run is
    base,        \* the config it read
    dead         \* runs that died

editVars == <<config, configLock, editPc, base, dead>>

EditInit ==
    /\ config \in SUBSET Machines
    /\ configLock = NoEditor
    /\ editPc = [e \in Editors |-> "lock"]
    /\ base = [e \in Editors |-> {}]
    /\ dead = {}

EditStep(e, from, to) ==
    /\ e \notin dead
    /\ editPc[e] = from
    /\ editPc' = [editPc EXCEPT ![e] = to]

\* (mutant) Whoever finds a lock takes it over.
LockTakenOver == TRUE

\* open with wx: only where there is no lock file.
LockFree == configLock = NoEditor

\* withConfigLock: it retries for five seconds, then gives up.
TakeLock(e) ==
    \/ /\ LockFree
       /\ EditStep(e, "lock", "read")
       /\ configLock' = e
       /\ UNCHANGED <<config, base, dead>>
    \/ /\ ~LockFree
       /\ EditStep(e, "lock", "failed")
       /\ UNCHANGED <<config, configLock, base, dead>>

ReadConfig(e) ==
    /\ EditStep(e, "read", "replace")
    /\ base' = [base EXCEPT ![e] = config]
    /\ UNCHANGED <<config, configLock, dead>>

\* The edit, where the file allows it: a table of that name must not be there
\* to be added, and must be there to be removed.
Edit(e, machines) ==
    IF e \in Adds THEN machines \cup {MachineOf[e]} ELSE machines \ {MachineOf[e]}
Editable(e, machines) == (e \in Adds) # (MachineOf[e] \in machines)

\* addMachineUnderLock, removeMachineUnderLock, replaceConfigFile: one rename, or
\* an error that leaves the file as it was.
ReplaceConfig(e) ==
    /\ \/ /\ Editable(e, base[e])
          /\ EditStep(e, "replace", "edited")
          /\ config' = Edit(e, base[e])
       \/ /\ EditStep(e, "replace", "refused")
          /\ UNCHANGED config
    /\ UNCHANGED <<configLock, base, dead>>

\* The finally of withConfigLock: the lock file is removed, whoever made it.
Unlock(e) ==
    /\ \/ EditStep(e, "edited", "done") \/ EditStep(e, "refused", "failed")
    /\ configLock' = NoEditor
    /\ UNCHANGED <<config, base, dead>>

\* A run dies: external.
DieEditing(e) ==
    /\ editPc[e] \notin {"lock", "done", "failed"}
    /\ dead' = dead \cup {e}
    /\ UNCHANGED <<config, configLock, editPc, base>>

\* The user deletes the lock file, as the error says, if no other run is editing.
DeleteLock ==
    /\ configLock \in dead
    /\ configLock' = NoEditor
    /\ UNCHANGED <<config, editPc, base, dead>>

EditNext ==
    \/ \E e \in Editors :
        TakeLock(e) \/ ReadConfig(e) \/ ReplaceConfig(e) \/ Unlock(e) \/ DieEditing(e)
    \/ DeleteLock

EditSpec == EditInit /\ [][EditNext]_editVars

----------------------------------------------------------------------------
Editing(e) == editPc[e] \in {"read", "replace", "edited", "refused"}

(* Type correctness. *)
EditTypeOK ==
    /\ config \subseteq Machines
    /\ configLock \in Editors \cup {NoEditor}
    /\ editPc \in [Editors -> {"lock", "read", "replace", "edited", "refused", "done", "failed"}]
    /\ base \in [Editors -> SUBSET Machines]
    /\ dead \subseteq Editors

(* The run whose lock file is there is the only one alive that edits; and what
   it read is the file as it still is.                                      *)
LockGuards ==
    /\ \A e \in Editors : Editing(e) /\ e \notin dead => configLock = e
    /\ \A e \in Editors : editPc[e] = "replace" /\ e \notin dead => base[e] = config

(* No edit drops another's: whatever a run writes is the file as it is at that
   moment with its own machine added or removed, nothing else, though it read
   the file some calls before, and though runs die with the lock and their
   lock file is deleted by hand.                                            *)
NoEditLost ==
    [][config' # config =>
         \E e \in Editors : config' = Edit(e, config)]_editVars
==============================================================================
