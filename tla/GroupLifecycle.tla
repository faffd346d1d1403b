--------------------------- MODULE GroupLifecycle ---------------------------
(***************************************************************************)
(* What the finalizer of a TiProxyMachineGroup promises, without caches,   *)
(* reconciles and patches: machines are built only for a group that has    *)
(* the finalizer, torn down only for one its user deleted, and the group   *)
(* leaves the API server only when they are gone.                          *)
(* MachineGroupController implements it.                                   *)
(***************************************************************************)

VARIABLES phase,     \* of the group on the API server
          machines   \* there are machines in the cloud

vars == <<phase, machines>>

\* new: without finalizer; condemned: deleted by its user, and still there.
Phases == {"absent", "new", "guarded", "condemned"}

Init == phase = "new" /\ machines = FALSE

Create == phase = "absent" /\ phase' = "new" /\ UNCHANGED machines

Guard == phase = "new" /\ phase' = "guarded" /\ UNCHANGED machines

\* The user deletes the group; nothing keeps one that has no finalizer yet.
Delete ==
    /\ \/ phase = "new" /\ phase' = "absent"
       \/ phase = "guarded" /\ phase' = "condemned"
    /\ UNCHANGED machines

\* A reconcile that read the group before it was condemned may still build.
Build ==
    /\ phase \in {"guarded", "condemned"}
    /\ machines' = TRUE
    /\ UNCHANGED phase

TearDown == phase = "condemned" /\ machines' = FALSE /\ UNCHANGED phase

Release ==
    /\ phase = "condemned" /\ ~machines
    /\ phase' = "absent"
    /\ UNCHANGED machines

Next == Create \/ Guard \/ Delete \/ Build \/ TearDown \/ Release

Spec == Init /\ [][Next]_vars

=============================================================================
