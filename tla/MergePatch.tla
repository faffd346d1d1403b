----------------------------- MODULE MergePatch -----------------------------
(***************************************************************************)
(* What client.Patch and client.Status().Patch do with                     *)
(* client.MergeFrom(base): the client sends the JSON merge patch that      *)
(* turns base into the modified object, and the API server applies it to   *)
(* whatever it holds by then. There is no resourceVersion in the patch, so *)
(* nothing is refused because base is out of date. External code           *)
(* (controller-runtime and the API server), modelled from its use.         *)
(***************************************************************************)
EXTENDS Naturals

\* A field that the patch replaces as a whole (a scalar, or a list).
PatchField(server, base, modified) ==
    IF base = modified THEN server ELSE modified

Removed(base, modified) == DOMAIN base \ DOMAIN modified
Changed(base, modified) ==
    {k \in DOMAIN modified : k \notin DOMAIN base \/ base[k] # modified[k]}

\* A map with "omitempty": the patch names the keys that differ, but a map
\* that became empty is absent from the modified object, and the patch sets
\* the whole map to null.
PatchMap(server, base, modified) ==
    LET removed == IF DOMAIN modified = {} /\ DOMAIN base # {}
                   THEN DOMAIN server ELSE Removed(base, modified)
        changed == Changed(base, modified)
    IN  [k \in (DOMAIN server \ removed) \cup changed |->
            IF k \in changed THEN modified[k] ELSE server[k]]

\* Such a map whose values are objects: of a value that differs, the patch
\* names only the fields that differ, and the server merges these into the
\* value it has, or into an empty one.
PatchObjects(server, base, modified) ==
    LET fields(map, k) == IF k \in DOMAIN map THEN map[k] ELSE [f \in {} |-> 0]
        merged == [k \in DOMAIN modified |->
                      PatchMap(fields(server, k), fields(base, k), modified[k])]
        patched == PatchMap(server, base, modified)
    IN  [k \in DOMAIN patched |->
            IF k \in Changed(base, modified) THEN merged[k] ELSE patched[k]]

=============================================================================
