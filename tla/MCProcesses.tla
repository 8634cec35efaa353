------------------------------ MODULE MCProcesses ------------------------------
(***************************************************************************)
(* Short processes that share files: statusline ticks, first runs, config  *)
(* edits, machine syncs and update checks.  They share none with one       *)
(* another, so a behaviour is one of one kind, its scene, and the others   *)
(* stand still.  Ticks are symmetric.                                      *)
(***************************************************************************)
EXTENDS StatuslineLock, FirstRun, ConfigEdits, MachineSync, UpdateClaim, TLC

CONSTANTS Scenes, e1, e2, e3

VARIABLE scene

TickSymmetry == Permutations(Ticks)
\* Two runs that add a and b, and one that removes a.
MCMachineOf == (e1 :> "a") @@ (e2 :> "b") @@ (e3 :> "a")

\* What stands still stands at one initial state.
ProcessesInit ==
    /\ scene \in Scenes
    /\ Init
    /\ OpenInit /\ (scene # "open" => storeAt = NoStore /\ oldLedger = NoStore)
    /\ EditInit /\ (scene # "edit" => config = {})
    /\ MachineInit /\ (scene # "sync" => entry = Nothing)
    /\ UpdateInit /\ (scene # "update" => cached.on = Unwritten /\ attempt = Unwritten)
ProcessesNext ==
    \/ scene = "tick" /\ Next /\ UNCHANGED <<openVars, editVars, machineVars, updateVars>>
    \/ scene = "open" /\ OpenNext /\ UNCHANGED <<vars, editVars, machineVars, updateVars>>
    \/ scene = "edit" /\ EditNext /\ UNCHANGED <<vars, openVars, machineVars, updateVars>>
    \/ scene = "sync" /\ MachineNext /\ UNCHANGED <<vars, openVars, editVars, updateVars>>
    \/ scene = "update" /\ UpdateNext /\ UNCHANGED <<vars, openVars, editVars, machineVars>>
ProcessesSpec ==
    ProcessesInit /\
    [][ProcessesNext /\ UNCHANGED scene]_<<scene, vars, openVars, editVars, machineVars, updateVars>>
FairTicksSpec == ProcessesSpec /\ TickFairness
=============================================================================
