-------------------------- MODULE MachineStatuses --------------------------
(***************************************************************************)
(* status.machines of one TiProxyMachineGroup and everyone who writes it:  *)
(* the agents, one per machine, each under its own key, and the controller *)
(* that prunes stale entries. An agent reads the group and sends a merge   *)
(* patch, in upsertMachineStatus at the end of every sync and in           *)
(* removeMachineStatus when it is told to stop. The patches carry no       *)
(* resourceVersion: retry.RetryOnConflict has no conflict to retry, and    *)
(* other writers may come between the Get and the Patch.                   *)
(*                                                                         *)
(* An entry has the fields "heartbeat" (lastHeartbeatTime) and "report"    *)
(* (generation, phase, configHash, image, message); an entry put together  *)
(* by patches may lack one.                                                *)
(***************************************************************************)
EXTENDS MergePatch

CONSTANTS Machine,     \* machine ids
          Report,      \* what syncOnce may have to say
          Pruning,     \* MachineStatusStaleAfter > 0
          MaxNow,      \* bound: the clock
          MaxFaults    \* bound: shutdowns, lost machines and failed calls

ASSUME StatusesAssumption ==
    Pruning \in BOOLEAN /\ MaxNow \in Nat /\ MaxFaults \in Nat

VARIABLES entries,  \* API server: status.machines
          pc,       \* of each agent: "idle", the call it makes next, or "off"
          base,     \* the entries its last Get returned
          mine,     \* the entry it is about to write
          late,     \* agents whose cancelled patch may still reach the server
          cache,    \* the controller's informer: earlier entries
          now, faults

agents == <<pc, base, mine, late>>
bounds == <<now, faults>>
vars == <<entries, agents, cache, bounds>>

NoEntries == [m \in {} |-> 0]
NoEntry == [f \in {} |-> 0]

With(map, m, x) == [k \in DOMAIN map \cup {m} |-> IF k = m THEN x ELSE map[k]]
Without(map, m) == [k \in DOMAIN map \ {m} |-> map[k]]

Init ==
    /\ entries = NoEntries
    /\ pc = [m \in Machine |-> "off"]
    /\ base = [m \in Machine |-> NoEntries]
    /\ mine = [m \in Machine |-> NoEntry]
    /\ late = {}
    /\ cache = NoEntries
    /\ now = 0 /\ faults = 0

\* More than MachineStatusStaleAfter goes by: that is all the controller tells
\* apart. (Heartbeats within one such period may count as equal, as those
\* within one second do.)
Tick ==
    /\ now < MaxNow
    /\ now' = now + 1
    /\ UNCHANGED <<entries, agents, cache, faults>>

-----------------------------------------------------------------------------
(* Agents                                                                  *)

Goto(m, call) == pc' = [pc EXCEPT ![m] = call]

\* The machine boots, or systemd starts the agent again.
Start(m) ==
    /\ pc[m] = "off"
    /\ Goto(m, "idle")
    /\ UNCHANGED <<entries, base, mine, late, cache, bounds>>

\* The end of a sync: upsertMachineStatus gets the group and puts the entry
\* into its copy ...
UpsertGet(m, report) ==
    /\ pc[m] = "idle"
    /\ base' = [base EXCEPT ![m] = entries]
    /\ mine' = [mine EXCEPT ![m] = [heartbeat |-> now, report |-> report]]
    /\ Goto(m, "upsert")
    /\ UNCHANGED <<entries, late, cache, bounds>>

\* What the server holds once it has applied the patch of m's upsert.
Upserted(m, read, entry) == PatchObjects(entries, read, With(read, m, entry))

UpsertDone(m) ==
    /\ pc[m] = "upsert"
    /\ base' = [base EXCEPT ![m] = NoEntries] /\ mine' = [mine EXCEPT ![m] = NoEntry]
    /\ Goto(m, "idle")
    /\ UNCHANGED <<late, cache>>

\* Mutant: the status is written as a whole (Update instead of Patch).
UpsertPatchReplaces(m) ==
    UpsertDone(m) /\ entries' = With(base[m], m, mine[m]) /\ UNCHANGED bounds

\* Mutant: the agent reports only when it finds no entry of its own.
UpsertPatchOnce(m) ==
    /\ UpsertDone(m)
    /\ entries' = IF m \in DOMAIN base[m] THEN entries ELSE Upserted(m, base[m], mine[m])
    /\ UNCHANGED bounds

\* ... and Status().Patch sends the difference.
UpsertPatch(m) ==
    /\ UpsertDone(m)
    /\ entries' = Upserted(m, base[m], mine[m])
    /\ UNCHANGED bounds

Fault == faults < MaxFaults /\ faults' = faults + 1 /\ UNCHANGED now

\* The patch fails; syncOnce returns the error and the ticker goes on. (When
\* the answer is lost: UpsertPatch.)
UpsertError(m) == UpsertDone(m) /\ Fault /\ UNCHANGED entries

\* SIGTERM cancels the context. A patch under way returns an error to the
\* agent, but may have left the machine and be applied later.
Shutdown(m) ==
    /\ pc[m] \in {"idle", "upsert"} /\ Fault
    /\ late' \in {late} \cup
          (IF pc[m] = "upsert"
           THEN {late \cup {[by |-> m, base |-> base[m], entry |-> mine[m]]}} ELSE {})
    /\ base' = [base EXCEPT ![m] = NoEntries] /\ mine' = [mine EXCEPT ![m] = NoEntry]
    /\ Goto(m, "leave")
    /\ UNCHANGED <<entries, cache>>

\* The server applies a patch whose sender has given up on it.
LatePatch(patch) ==
    /\ patch \in late
    /\ entries' = Upserted(patch.by, patch.base, patch.entry)
    /\ late' = late \ {patch}
    /\ UNCHANGED <<pc, base, mine, cache, bounds>>

\* removeMachineStatus gets the group; there may be nothing to remove.
RemoveGet(m) ==
    /\ pc[m] = "leave"
    /\ IF m \in DOMAIN entries
       THEN Goto(m, "remove") /\ base' = [base EXCEPT ![m] = entries]
       ELSE Goto(m, "off") /\ UNCHANGED base
    /\ UNCHANGED <<entries, mine, late, cache, bounds>>

\* Mutant: the entry is emptied and not deleted.
RemovePatchEmpties(m) ==
    /\ pc[m] = "remove"
    /\ entries' = [entries EXCEPT ![m] = NoEntry]
    /\ base' = [base EXCEPT ![m] = NoEntries]
    /\ Goto(m, "off")
    /\ UNCHANGED <<mine, late, cache, bounds>>

\* The patch deletes the agent's key; when it was the only one in the copy,
\* machines becomes nil and the patch deletes the whole map.
RemovePatch(m) ==
    /\ pc[m] = "remove"
    /\ entries' = PatchObjects(entries, base[m], Without(base[m], m))
    /\ base' = [base EXCEPT ![m] = NoEntries]
    /\ Goto(m, "off")
    /\ UNCHANGED <<mine, late, cache, bounds>>

\* The clean-up is best effort: it fails, or its five seconds are over.
RemoveError(m) ==
    /\ pc[m] \in {"leave", "remove"} /\ Fault
    /\ base' = [base EXCEPT ![m] = NoEntries]
    /\ Goto(m, "off")
    /\ UNCHANGED <<entries, mine, late, cache>>

\* The machine is terminated, or the agent killed.
Die(m) ==
    /\ pc[m] # "off" /\ Fault
    /\ base' = [base EXCEPT ![m] = NoEntries] /\ mine' = [mine EXCEPT ![m] = NoEntry]
    /\ Goto(m, "off")
    /\ UNCHANGED <<entries, late, cache>>

-----------------------------------------------------------------------------
(* The controller                                                          *)

Sync ==
    /\ cache # entries
    /\ cache' = entries
    /\ UNCHANGED <<entries, agents, bounds>>

\* An entry without lastHeartbeatTime is stale as well.
Stale(entry) ==
    Pruning /\ ("heartbeat" \in DOMAIN entry => now > entry.heartbeat)

\* pruneStaleMachineStatuses.
Pruned(statuses) ==
    LET kept == {m \in DOMAIN statuses : ~Stale(statuses[m])}
    IN  [m \in kept |-> statuses[m]]

\* Mutant: statusBase is copied before the pruning, which the patch then
\* contains.
ReconcilePatchPrunes ==
    /\ entries' = PatchObjects(entries, cache, Pruned(cache))
    /\ UNCHANGED <<agents, cache, bounds>>

\* What Reconcile does to status.machines: mg is pruned and then copied to
\* statusBase. (It reads the cache, which may lag by any amount: reading it
\* here loses nothing.)
ReconcilePatch ==
    LET mg == Pruned(cache) IN
    /\ entries' = PatchObjects(entries, mg, mg)
    /\ UNCHANGED <<agents, cache, bounds>>

-----------------------------------------------------------------------------

AgentNext(m) ==
    \/ Start(m)
    \/ \E r \in Report : UpsertGet(m, r)
    \/ UpsertPatch(m) \/ UpsertError(m)
    \/ Shutdown(m) \/ RemoveGet(m) \/ RemovePatch(m) \/ RemoveError(m)
    \/ Die(m)

Next ==
    \/ Tick
    \/ \E m \in Machine : AgentNext(m)
    \/ \E patch \in late : LatePatch(patch)
    \/ Sync \/ ReconcilePatch

\* A running agent syncs on every tick of its ticker and its calls return.
\* Nobody has to stop, fail or start, and the controller may lag for ever.
Fairness ==
    \A m \in Machine : /\ WF_vars(\E r \in Report : UpsertGet(m, r))
                       /\ WF_vars(UpsertPatch(m))
                       /\ WF_vars(RemoveGet(m) \/ RemovePatch(m))

Spec == Init /\ [][Next]_vars /\ Fairness

-----------------------------------------------------------------------------
(* Properties                                                              *)

Fields == {"heartbeat", "report"}

EntryOK(entry) ==
    /\ DOMAIN entry \subseteq Fields /\ DOMAIN entry # {}
    /\ "heartbeat" \in DOMAIN entry => entry.heartbeat \in 0 .. MaxNow
    /\ "report" \in DOMAIN entry => entry.report \in Report

EntriesOK(map) == DOMAIN map \subseteq Machine /\ \A m \in DOMAIN map : EntryOK(map[m])

\* The types; an entry always says something, whatever patches it was merged from.
TypeOK ==
    /\ EntriesOK(entries) /\ EntriesOK(cache)
    /\ pc \in [Machine -> {"idle", "upsert", "leave", "remove", "off"}]
    /\ \A m \in Machine : /\ EntriesOK(base[m])
                          /\ mine[m] = NoEntry \/ EntryOK(mine[m])
    /\ \A patch \in late : EntriesOK(patch.base) /\ EntryOK(patch.entry)

\* A step of m's agent, or its late patch.
By(m) == pc'[m] # pc[m] \/ {p \in late : p.by = m} # {p \in late' : p.by = m}

\* Only the agent of a machine adds an entry for it: no patch computed from an
\* old copy brings back an entry that was removed in between.
AddedByOwner ==
    [][\A m \in DOMAIN entries' \ DOMAIN entries : By(m)]_vars

\* Nobody changes or removes an entry that is not its own, stale copies or not;
\* with one exception, removeMachineStatus of an agent that saw no entry but its
\* own: its patch deletes the map with whatever was added since its Get.
LostOnlyToNullPatch ==
    [][\A m \in DOMAIN entries :
        \/ m \in DOMAIN entries' /\ entries'[m] = entries[m]
        \/ By(m)
        \/ \E n \in Machine : /\ pc[n] = "remove" /\ By(n)
                              /\ DOMAIN base[n] = {n}]_vars

\* Agents make up for such losses: once machines stop going down, every running
\* agent has a complete entry, and keeps it.
Registers ==
    <>[](\A m \in Machine :
            pc[m] \in {"idle", "upsert"} =>
                m \in DOMAIN entries /\ DOMAIN entries[m] = Fields)

=============================================================================
