--------------------------- MODULE CodeModuleStore ---------------------------
(***************************************************************************)
(* What the CSI driver promises about the code modules of a node, without  *)
(* its symlink switches, clean-up passes, handlers and restarts:           *)
(*                                                                         *)
(*  - a DynaKube is only ever pointed at a module that is installed;       *)
(*  - a volume is mounted from an installed module, and at most once;      *)
(*  - an installed module disappears in two ways only: its installation is *)
(*    given up before anything is pointed at it by that installation, or   *)
(*    it is collected, and then it is neither the current module of a      *)
(*    DynaKube the last clean-up knew of nor mounted in the data directory.*)
(***************************************************************************)
CONSTANTS DynaKube, Version, NoVersion, AppVolume

VARIABLES
    installed,  \* the modules on the node
    staged,     \* the module being installed
    pointed,    \* the module of each DynaKube
    known,      \* the DynaKubes the last clean-up found to inject into applications
    mounted     \* the overlay mounts

vars == <<installed, staged, pointed, known, mounted>>

Init ==
    /\ installed \subseteq Version
    /\ staged = {}
    /\ pointed = [dk \in DynaKube |-> NoVersion]
    /\ known = {}
    /\ \A m \in mounted : m.lower \in installed

Stage(v) ==
    /\ installed' = installed \cup {v}
    /\ staged' = {v}
    /\ UNCHANGED <<pointed, known, mounted>>

\* a download job puts a module into place on its own
Arrive(v) ==
    /\ installed' = installed \cup {v}
    /\ UNCHANGED <<staged, pointed, known, mounted>>

GiveUp ==
    /\ installed' = installed \ staged
    /\ staged' = {}
    /\ UNCHANGED <<pointed, known, mounted>>

Unstage ==
    /\ staged' = {}
    /\ UNCHANGED <<installed, pointed, known, mounted>>

\* a restart
Forget ==
    /\ staged' = {}
    /\ known' = {}
    /\ UNCHANGED <<installed, pointed, mounted>>

Point(dk, v) ==
    /\ v \in installed
    /\ pointed' = [pointed EXCEPT ![dk] = v]
    /\ UNCHANGED <<installed, staged, known, mounted>>

Unpoint(dks) ==
    /\ pointed' = [dk \in DynaKube |-> IF dk \in dks THEN NoVersion ELSE pointed[dk]]
    /\ UNCHANGED <<installed, staged, known, mounted>>

Learn(dks) ==
    /\ known' = dks
    /\ UNCHANGED <<installed, staged, pointed, mounted>>

Collect(v) ==
    /\ \A dk \in known : pointed[dk] # v
    /\ \A m \in mounted : m.path = "mapped" => m.lower # v
    /\ installed' = installed \ {v}
    /\ UNCHANGED <<staged, pointed, known, mounted>>

MountModule(vol, v) ==
    /\ v \in installed
    /\ \A m \in mounted : m.volume = vol => m.path # "target"
    /\ mounted' = mounted \cup {[volume |-> vol, path |-> "target", lower |-> v]}
    /\ UNCHANGED <<installed, staged, pointed, known>>

Unmount(vol, path) ==
    /\ mounted' = {m \in mounted : m.volume # vol \/ m.path # path}
    /\ UNCHANGED <<installed, staged, pointed, known>>

Next ==
    \/ \E v \in Version : Stage(v) \/ Arrive(v) \/ Collect(v)
    \/ GiveUp \/ Unstage \/ Forget
    \/ \E dk \in DynaKube, v \in Version : Point(dk, v)
    \/ \E dks \in SUBSET DynaKube : Unpoint(dks) \/ Learn(dks)
    \/ \E vol \in AppVolume, v \in Version : MountModule(vol, v)
    \/ \E vol \in AppVolume, path \in {"target", "mapped"} : Unmount(vol, path)

Spec == Init /\ [][Next]_vars
=============================================================================
