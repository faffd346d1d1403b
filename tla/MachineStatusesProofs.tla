----------------------- MODULE MachineStatusesProofs -----------------------
(***************************************************************************)
(* status.machines under concurrent merge patches: types, and who may add, *)
(* change or remove an entry, for any number of machines and faults.       *)
(***************************************************************************)
EXTENDS MachineStatuses, TLAPS

-----------------------------------------------------------------------------
(* The inductive invariant. A patch carries whole entries (the agent fills *)
(* in every field) and is computed from what was once on the server; what  *)
(* the server merges from it may be partial, but is never empty.           *)

IsFunction(f) == f = [x \in DOMAIN f |-> f[x]]

EntriesInv(map) == EntriesOK(map) /\ \A m \in DOMAIN map : IsFunction(map[m])

Whole(entry) == EntryOK(entry) /\ IsFunction(entry) /\ DOMAIN entry = Fields

AgentInv(m) ==
    /\ EntriesInv(base[m])
    /\ mine[m] = NoEntry \/ Whole(mine[m])
    /\ pc[m] = "upsert" => Whole(mine[m])

LateInv(patch) == patch.by \in Machine /\ EntriesInv(patch.base) /\ Whole(patch.entry)

EntryInv ==
    /\ EntriesInv(entries) /\ EntriesInv(cache)
    /\ pc \in [Machine -> {"idle", "upsert", "leave", "remove", "off"}]
    /\ DOMAIN base = Machine /\ DOMAIN mine = Machine
    /\ \A m \in Machine : AgentInv(m)
    /\ \A patch \in late : LateInv(patch)
    /\ now \in 0 .. MaxNow

-----------------------------------------------------------------------------
(* What the three kinds of patches do                                      *)

\* upsertMachineStatus touches one key.
LEMMA UpsertedKeys ==
    ASSUME NEW m, NEW read, NEW entry
    PROVE  LET map == Upserted(m, read, entry) IN
           /\ DOMAIN entries \subseteq DOMAIN map
           /\ DOMAIN map \subseteq DOMAIN entries \cup {m}
           /\ \A k \in DOMAIN entries \ {m} : map[k] = entries[k]
<1>. DEFINE modified == With(read, m, entry)
<1>1. /\ DOMAIN modified # {} /\ Removed(read, modified) = {}
      /\ Changed(read, modified) \subseteq {m}
  BY DEF With, Removed, Changed
<1>. HIDE DEF modified
<1>. DEFINE patched == PatchMap(entries, read, modified)
<1>2. /\ DOMAIN patched = DOMAIN entries \cup Changed(read, modified)
      /\ \A k \in DOMAIN entries \ Changed(read, modified) : patched[k] = entries[k]
  BY <1>1 DEF PatchMap
<1>3. /\ DOMAIN Upserted(m, read, entry) = DOMAIN patched
      /\ \A k \in DOMAIN patched \ Changed(read, modified) :
            Upserted(m, read, entry)[k] = patched[k]
  BY DEF Upserted, PatchObjects, modified
<1>. QED  BY <1>1, <1>2, <1>3

\* removeMachineStatus deletes one key, or the map when there was no other.
LEMMA RemovedKeys ==
    ASSUME NEW m, NEW read
    PROVE  LET map == PatchObjects(entries, read, Without(read, m)) IN
           /\ DOMAIN map \subseteq DOMAIN entries
           /\ \A k \in DOMAIN map : map[k] = entries[k]
           /\ DOMAIN read # {m} => DOMAIN entries \ {m} \subseteq DOMAIN map
<1>. DEFINE modified == Without(read, m)
<1>1. /\ DOMAIN modified = DOMAIN read \ {m} /\ Changed(read, modified) = {}
      /\ Removed(read, modified) \subseteq {m}
  BY DEF Without, Removed, Changed
<1>. HIDE DEF modified
<1>. DEFINE patched == PatchMap(entries, read, modified)
<1>2. /\ DOMAIN patched \subseteq DOMAIN entries
      /\ \A k \in DOMAIN patched : patched[k] = entries[k]
      /\ DOMAIN read # {m} => DOMAIN entries \ {m} \subseteq DOMAIN patched
  BY <1>1 DEF PatchMap
<1>3. /\ DOMAIN PatchObjects(entries, read, modified) = DOMAIN patched
      /\ \A k \in DOMAIN patched : PatchObjects(entries, read, modified)[k] = patched[k]
  BY <1>1 DEF PatchObjects
<1>. QED  BY <1>2, <1>3 DEF modified

\* Reconcile's patch says nothing about the machines, pruned or not.
LEMMA ReconcileKeys ==
    ASSUME ReconcilePatch
    PROVE  DOMAIN entries' = DOMAIN entries /\ \A k \in DOMAIN entries : entries'[k] = entries[k]
<1>. DEFINE mg == Pruned(cache)
<1>1. Changed(mg, mg) = {} /\ Removed(mg, mg) = {}
  BY DEF Changed, Removed
<1>. HIDE DEF mg
<1>. DEFINE patched == PatchMap(entries, mg, mg)
<1>2. DOMAIN patched = DOMAIN entries /\ \A k \in DOMAIN entries : patched[k] = entries[k]
  BY <1>1 DEF PatchMap
<1>3. entries' = PatchObjects(entries, mg, mg)
  BY DEF ReconcilePatch, mg
<1>. QED  BY <1>1, <1>2, <1>3 DEF PatchObjects

\* A whole entry merged into whatever the server has of it leaves an entry that
\* says something.
LEMMA MergedEntry ==
    ASSUME NEW old, IsFunction(old), old = NoEntry \/ EntryOK(old),
           NEW read, IsFunction(read), read = NoEntry \/ EntryOK(read),
           NEW entry, Whole(entry), entry # read
    PROVE  LET merged == PatchMap(old, read, entry) IN EntryOK(merged) /\ IsFunction(merged)
<1>. DEFINE merged == PatchMap(old, read, entry)
            changed == Changed(read, entry)
<1>1. DOMAIN NoEntry = {}
  BY DEF NoEntry
<1>2. DOMAIN old \subseteq Fields /\ DOMAIN read \subseteq Fields /\ DOMAIN entry = Fields
  BY <1>1 DEF EntryOK, Whole
<1>3. changed # {} /\ changed \subseteq Fields
  <2>1. CASE DOMAIN read = Fields
    <3>1. \E f \in Fields : read[f] # entry[f]
      <4>. SUFFICES ASSUME \A f \in Fields : read[f] = entry[f] PROVE FALSE
        OBVIOUS
      <4>1. read = [f \in Fields |-> read[f]] /\ entry = [f \in Fields |-> entry[f]]
        BY <1>2, <2>1 DEF IsFunction, Whole
      <4>. QED  BY <4>1
    <3>. QED  BY <1>2, <3>1 DEF Changed
  <2>2. CASE DOMAIN read # Fields
    BY <1>2, <2>2 DEF Changed
  <2>. QED  BY <2>1, <2>2
<1>4. /\ DOMAIN merged = DOMAIN old \cup changed
      /\ \A f \in DOMAIN merged : merged[f] = IF f \in changed THEN entry[f] ELSE old[f]
      /\ IsFunction(merged)
  BY <1>2 DEF PatchMap, Removed, Fields, IsFunction
<1>. HIDE DEF merged, changed
<1>5. DOMAIN merged \subseteq Fields /\ DOMAIN merged # {}
  BY <1>2, <1>3, <1>4
<1>6. "heartbeat" \in DOMAIN merged => merged.heartbeat \in 0 .. MaxNow
  BY <1>1, <1>4, <1>3 DEF EntryOK, Whole, Fields
<1>7. "report" \in DOMAIN merged => merged.report \in Report
  BY <1>1, <1>4, <1>3 DEF EntryOK, Whole, Fields
<1>8. EntryOK(merged)
  BY <1>5, <1>6, <1>7 DEF EntryOK
<1>. QED  BY <1>4, <1>8 DEF merged

LEMMA UpsertedOK ==
    ASSUME EntriesInv(entries), NEW m \in Machine, NEW read, EntriesInv(read),
           NEW entry, Whole(entry)
    PROVE  EntriesInv(Upserted(m, read, entry))
<1>. DEFINE map == Upserted(m, read, entry)
            modified == With(read, m, entry)
            fields(server, k) == IF k \in DOMAIN server THEN server[k] ELSE [f \in {} |-> 0]
<1>1. DOMAIN modified = DOMAIN read \cup {m} /\ modified[m] = entry
  BY DEF With
<1>2. m \in DOMAIN map /\ m \notin Changed(read, modified) => m \in DOMAIN entries
  BY DEF Upserted, PatchObjects, PatchMap
<1>3. m \in DOMAIN map /\ m \notin Changed(read, modified) => map[m] = entries[m]
  BY DEF Upserted, PatchObjects, PatchMap
<1>4. m \in Changed(read, modified) =>
        m \in DOMAIN map /\ map[m] = PatchMap(fields(entries, m), fields(read, m), entry)
  <2>1. ASSUME m \in Changed(read, modified)
        PROVE  m \in DOMAIN map /\ map[m] = PatchMap(fields(entries, m), fields(read, m), modified[m])
    BY <1>1, <2>1 DEF Upserted, PatchObjects, PatchMap
  <2>. QED  BY <1>1, <2>1
<1>5. m \in Changed(read, modified) => entry # fields(read, m)
  <2>1. entry # [f \in {} |-> 0]
    BY DEF Whole, Fields
  <2>. QED  BY <1>1, <2>1 DEF Changed
<1>6. /\ IsFunction(fields(entries, m))
      /\ fields(entries, m) = NoEntry \/ EntryOK(fields(entries, m))
  BY DEF EntriesInv, EntriesOK, IsFunction, NoEntry
<1>7. IsFunction(fields(read, m)) /\ (fields(read, m) = NoEntry \/ EntryOK(fields(read, m)))
  BY DEF EntriesInv, EntriesOK, IsFunction, NoEntry
<1>. HIDE DEF fields, modified
<1>8. m \in DOMAIN map => EntryOK(map[m]) /\ IsFunction(map[m])
  <2>1. CASE m \in Changed(read, modified)
    BY <1>4, <1>5, <1>6, <1>7, <2>1, MergedEntry
  <2>2. CASE m \notin Changed(read, modified)
    BY <1>2, <1>3, <2>2 DEF EntriesInv, EntriesOK
  <2>. QED  BY <2>1, <2>2
<1>9. /\ DOMAIN map \subseteq DOMAIN entries \cup {m}
      /\ \A k \in DOMAIN entries \ {m} : map[k] = entries[k]
  BY UpsertedKeys
<1>. HIDE DEF map
<1>10. EntriesInv(map)
  BY <1>8, <1>9 DEF EntriesInv, EntriesOK
<1>. QED  BY <1>10 DEF map

-----------------------------------------------------------------------------
(* Steps                                                                   *)

LEMMA NoEntriesInv == EntriesInv(NoEntries)
<1>1. DOMAIN NoEntries = {}
  BY DEF NoEntries
<1>. QED  BY <1>1 DEF EntriesInv, EntriesOK

LEMMA InitEntryInv == Init => EntryInv
<1>. SUFFICES ASSUME Init PROVE EntryInv
  OBVIOUS
<1>1. \A m \in Machine : AgentInv(m)
  BY NoEntriesInv DEF Init, AgentInv
<1>. QED  BY <1>1, NoEntriesInv, StatusesAssumption DEF Init, EntryInv

\* A step of one agent that leaves it with a copy and an entry of the right kind.
LEMMA AgentStep ==
    ASSUME EntryInv, NEW m \in Machine,
           NEW call \in {"idle", "upsert", "leave", "remove", "off"}, Goto(m, call),
           NEW copy, base' = [base EXCEPT ![m] = copy] \/ (base' = base /\ copy = base[m]),
           EntriesInv(copy),
           NEW entry, mine' = [mine EXCEPT ![m] = entry] \/ (mine' = mine /\ entry = mine[m]),
           (entry = NoEntry /\ call # "upsert") \/ Whole(entry)
    PROVE  /\ pc' \in [Machine -> {"idle", "upsert", "leave", "remove", "off"}]
           /\ pc'[m] = call /\ \A n \in Machine \ {m} : pc'[n] = pc[n]
           /\ DOMAIN base' = Machine /\ DOMAIN mine' = Machine
           /\ \A n \in Machine : AgentInv(n)'
<1>1. /\ pc \in [Machine -> {"idle", "upsert", "leave", "remove", "off"}]
      /\ DOMAIN base = Machine /\ DOMAIN mine = Machine
  BY DEF EntryInv
<1>2. /\ pc' \in [Machine -> {"idle", "upsert", "leave", "remove", "off"}]
      /\ pc'[m] = call /\ \A n \in Machine \ {m} : pc'[n] = pc[n]
  BY <1>1 DEF Goto
<1>3. /\ DOMAIN base' = Machine /\ base'[m] = copy
      /\ \A n \in Machine \ {m} : base'[n] = base[n]
  BY <1>1
<1>4. /\ DOMAIN mine' = Machine /\ mine'[m] = entry
      /\ \A n \in Machine \ {m} : mine'[n] = mine[n]
  BY <1>1
<1>5. ASSUME NEW n \in Machine PROVE AgentInv(n)'
  <2>1. CASE n = m
    BY <1>2, <1>3, <1>4, <2>1 DEF AgentInv
  <2>2. CASE n # m
    BY <1>2, <1>3, <1>4, <2>2 DEF AgentInv, EntryInv
  <2>. QED  BY <2>1, <2>2
<1>. QED  BY <1>2, <1>3, <1>4, <1>5

LEMMA AgentEntryInv ==
    ASSUME EntryInv, NEW m \in Machine, AgentNext(m)
    PROVE  EntryInv'
<1>1. /\ EntriesInv(entries) /\ EntriesInv(cache) /\ now \in 0 .. MaxNow
      /\ \A patch \in late : LateInv(patch)
      /\ AgentInv(m) /\ EntriesInv(base[m])
      /\ pc[m] \in {"idle", "upsert", "leave", "remove", "off"}
  BY DEF EntryInv, AgentInv
<1>2. cache' = cache /\ now' = now
  BY DEF AgentNext, Start, UpsertGet, UpsertPatch, UpsertError, Shutdown, RemoveGet,
         RemovePatch, RemoveError, Die, UpsertDone, Fault, bounds
<1>3. EntriesInv(NoEntries)
  BY NoEntriesInv
<1>. DEFINE Agents == /\ pc' \in [Machine -> {"idle", "upsert", "leave", "remove", "off"}]
                      /\ DOMAIN base' = Machine /\ DOMAIN mine' = Machine
                      /\ \A n \in Machine : AgentInv(n)'
<1>4. ASSUME Agents, EntriesInv(entries'), \A patch \in late' : LateInv(patch)
      PROVE  EntryInv'
  BY <1>1, <1>2, <1>4 DEF EntryInv, LateInv
<1>5. ASSUME Start(m) PROVE EntryInv'
  <2>1. mine[m] = NoEntry \/ Whole(mine[m])
    BY <1>1 DEF AgentInv
  <2>2. Agents
    BY <1>1, <1>5, <2>1, AgentStep DEF Start
  <2>. QED  BY <1>1, <1>4, <1>5, <2>2 DEF Start
<1>6. ASSUME NEW r \in Report, UpsertGet(m, r) PROVE EntryInv'
  <2>. DEFINE entry == [heartbeat |-> now, report |-> r]
  <2>1. Whole(entry)
    BY <1>1 DEF Whole, EntryOK, IsFunction, Fields
  <2>. HIDE DEF entry
  <2>2. /\ base' = [base EXCEPT ![m] = entries] /\ mine' = [mine EXCEPT ![m] = entry]
        /\ Goto(m, "upsert") /\ entries' = entries /\ late' = late
    BY <1>6 DEF UpsertGet, entry
  <2>3. Agents
    BY <1>1, <2>1, <2>2, AgentStep
  <2>. QED  BY <1>1, <1>4, <2>2, <2>3
<1>7. ASSUME UpsertDone(m), EntriesInv(entries') PROVE EntryInv'
  <2>1. Agents
    BY <1>3, <1>7, AgentStep DEF UpsertDone
  <2>. QED  BY <1>1, <1>4, <1>7, <2>1 DEF UpsertDone
<1>8. ASSUME UpsertPatch(m) PROVE EntryInv'
  <2>1. Whole(mine[m])
    BY <1>1, <1>8 DEF UpsertPatch, UpsertDone, AgentInv
  <2>2. EntriesInv(entries')
    BY <1>1, <1>8, <2>1, UpsertedOK DEF UpsertPatch
  <2>. QED  BY <1>7, <1>8, <2>2 DEF UpsertPatch
<1>9. ASSUME UpsertError(m) PROVE EntryInv'
  BY <1>1, <1>7, <1>9 DEF UpsertError
<1>10. ASSUME Shutdown(m) PROVE EntryInv'
  <2>1. Agents /\ entries' = entries
    BY <1>3, <1>10, AgentStep DEF Shutdown
  <2>. DEFINE sent == [by |-> m, base |-> base[m], entry |-> mine[m]]
  <2>2. late' = late \/ (pc[m] = "upsert" /\ late' = late \cup {sent})
    BY <1>10 DEF Shutdown
  <2>3. pc[m] = "upsert" => LateInv(sent)
    BY <1>1 DEF AgentInv, LateInv
  <2>. HIDE DEF sent
  <2>4. \A patch \in late' : LateInv(patch)
    BY <1>1, <2>2, <2>3
  <2>. QED  BY <1>1, <1>4, <2>1, <2>4
<1>11. ASSUME RemoveGet(m) PROVE EntryInv'
  <2>1. mine[m] = NoEntry \/ Whole(mine[m])
    BY <1>1 DEF AgentInv
  <2>2. Agents
    BY <1>1, <1>11, <2>1, AgentStep DEF RemoveGet
  <2>. QED  BY <1>1, <1>4, <1>11, <2>2 DEF RemoveGet
<1>12. ASSUME RemovePatch(m) PROVE EntryInv'
  <2>1. mine[m] = NoEntry \/ Whole(mine[m])
    BY <1>1 DEF AgentInv
  <2>2. Agents
    BY <1>3, <1>12, <2>1, AgentStep DEF RemovePatch
  <2>3. DOMAIN entries' \subseteq DOMAIN entries /\ \A k \in DOMAIN entries' : entries'[k] = entries[k]
    BY <1>12, RemovedKeys DEF RemovePatch
  <2>4. EntriesInv(entries')
    BY <1>1, <2>3 DEF EntriesInv, EntriesOK
  <2>. QED  BY <1>1, <1>4, <1>12, <2>2, <2>4 DEF RemovePatch
<1>13. ASSUME RemoveError(m) PROVE EntryInv'
  <2>1. mine[m] = NoEntry \/ Whole(mine[m])
    BY <1>1 DEF AgentInv
  <2>2. Agents
    BY <1>3, <1>13, <2>1, AgentStep DEF RemoveError
  <2>. QED  BY <1>1, <1>4, <1>13, <2>2 DEF RemoveError
<1>14. ASSUME Die(m) PROVE EntryInv'
  <2>1. Agents
    BY <1>3, <1>14, AgentStep DEF Die
  <2>. QED  BY <1>1, <1>4, <1>14, <2>1 DEF Die
<1>. QED
  BY <1>5, <1>6, <1>8, <1>9, <1>10, <1>11, <1>12, <1>13, <1>14 DEF AgentNext

LEMMA EntryInvInductive == EntryInv /\ [Next]_vars => EntryInv'
<1>. SUFFICES ASSUME EntryInv, [Next]_vars PROVE EntryInv'
  OBVIOUS
<1>1. ASSUME UNCHANGED agents, EntriesInv(entries'), EntriesInv(cache'), now' \in 0 .. MaxNow
      PROVE  EntryInv'
  BY <1>1 DEF agents, EntryInv, AgentInv, LateInv
<1>2. EntriesInv(entries) /\ EntriesInv(cache) /\ now \in 0 .. MaxNow
  BY DEF EntryInv
<1>3. CASE Tick
  BY <1>1, <1>2, <1>3, StatusesAssumption DEF Tick
<1>4. ASSUME NEW patch \in late, LatePatch(patch) PROVE EntryInv'
  <2>1. LateInv(patch)
    BY DEF EntryInv
  <2>2. EntriesInv(entries')
    BY <1>2, <1>4, <2>1, UpsertedOK DEF LatePatch, LateInv
  <2>3. /\ late' \subseteq late /\ pc' = pc /\ base' = base /\ mine' = mine
        /\ cache' = cache /\ now' = now
    BY <1>4 DEF LatePatch, bounds
  <2>. QED  BY <2>2, <2>3 DEF EntryInv, AgentInv, LateInv
<1>5. CASE Sync
  BY <1>1, <1>2, <1>5 DEF Sync, bounds
<1>6. CASE ReconcilePatch
  <2>1. EntriesInv(entries')
    BY <1>2, <1>6, ReconcileKeys DEF EntriesInv, EntriesOK
  <2>. QED  BY <1>1, <1>2, <1>6, <2>1 DEF ReconcilePatch, bounds
<1>7. CASE UNCHANGED vars
  BY <1>1, <1>2, <1>7 DEF vars, bounds
<1>. QED  BY <1>3, <1>4, <1>5, <1>6, <1>7, AgentEntryInv DEF Next

LEMMA AlwaysEntryInv == Spec => []EntryInv
BY InitEntryInv, EntryInvInductive, PTL DEF Spec

\* Merge patches from old copies never leave an entry that says nothing, nor a
\* field with a value of another kind.
THEOREM AlwaysTypeOK == Spec => []TypeOK
<1>1. EntryInv => TypeOK
  BY DEF EntryInv, AgentInv, LateInv, Whole, EntriesInv, TypeOK
<1>. QED  BY <1>1, AlwaysEntryInv, PTL

-----------------------------------------------------------------------------
(* Who writes what                                                         *)

\* The steps after which an entry may be another one.
LEMMA WhoWrites ==
    ASSUME EntryInv, Next
    PROVE  \/ /\ DOMAIN entries' = DOMAIN entries
              /\ \A k \in DOMAIN entries : entries'[k] = entries[k]
           \/ \E m \in Machine : UpsertPatch(m) \/ RemovePatch(m)
           \/ \E patch \in late : LatePatch(patch)
<1>1. ASSUME NEW m \in Machine, AgentNext(m)
      PROVE  entries' = entries \/ UpsertPatch(m) \/ RemovePatch(m)
  BY <1>1 DEF AgentNext, Start, UpsertGet, UpsertError, Shutdown, RemoveGet, RemoveError, Die
<1>2. Tick \/ Sync => entries' = entries
  BY DEF Tick, Sync
<1>. QED  BY <1>1, <1>2, ReconcileKeys DEF Next

\* The writer of an upsert or a removal is recognisable as such.
LEMMA WriterActs ==
    ASSUME EntryInv
    PROVE  /\ \A m \in Machine : UpsertPatch(m) \/ RemovePatch(m) => By(m)
           /\ \A patch \in late : LatePatch(patch) => By(patch.by)
<1>1. ASSUME NEW m \in Machine, UpsertPatch(m) \/ RemovePatch(m) PROVE By(m)
  BY <1>1 DEF UpsertPatch, UpsertDone, RemovePatch, Goto, By, EntryInv
<1>2. ASSUME NEW patch \in late, LatePatch(patch) PROVE By(patch.by)
  <2>1. /\ patch \in {p \in late : p.by = patch.by}
        /\ patch \notin {p \in late' : p.by = patch.by}
    BY <1>2 DEF LatePatch
  <2>. QED  BY <2>1, Zenon DEF By
<1>. QED  BY <1>1, <1>2

\* An entry appears for a machine only by a step of its own agent.
THEOREM OwnersAdd == Spec => AddedByOwner
<1>1. ASSUME EntryInv, Next PROVE \A m \in DOMAIN entries' \ DOMAIN entries : By(m)
  <2>1. ASSUME NEW n \in Machine, UpsertPatch(n)
        PROVE  DOMAIN entries' \ DOMAIN entries \subseteq {n}
    BY <2>1, UpsertedKeys DEF UpsertPatch
  <2>2. ASSUME NEW n \in Machine, RemovePatch(n)
        PROVE  DOMAIN entries' \subseteq DOMAIN entries
    BY <2>2, RemovedKeys DEF RemovePatch
  <2>3. ASSUME NEW patch \in late, LatePatch(patch)
        PROVE  DOMAIN entries' \ DOMAIN entries \subseteq {patch.by}
    BY <2>3, UpsertedKeys DEF LatePatch
  <2>. QED  BY <1>1, <2>1, <2>2, <2>3, WhoWrites, WriterActs
<1>. QED  BY <1>1, AlwaysEntryInv, PTL DEF Spec, AddedByOwner

\* Nobody changes or removes another machine's entry, but for the removal by an
\* agent that saw no entry besides its own.
THEOREM OthersKeep == Spec => LostOnlyToNullPatch
<1>. DEFINE Kept == \A m \in DOMAIN entries :
              \/ m \in DOMAIN entries' /\ entries'[m] = entries[m]
              \/ By(m)
              \/ \E n \in Machine : /\ pc[n] = "remove" /\ By(n)
                                    /\ DOMAIN base[n] = {n}
<1>1. ASSUME EntryInv, Next, NEW m \in DOMAIN entries
      PROVE  \/ m \in DOMAIN entries' /\ entries'[m] = entries[m]
             \/ By(m)
             \/ \E n \in Machine : pc[n] = "remove" /\ By(n) /\ DOMAIN base[n] = {n}
  <2>1. ASSUME NEW n \in Machine, UpsertPatch(n)
        PROVE  m = n \/ (m \in DOMAIN entries' /\ entries'[m] = entries[m])
    BY <2>1, UpsertedKeys DEF UpsertPatch
  <2>2. ASSUME NEW n \in Machine, RemovePatch(n)
        PROVE  \/ m = n \/ (m \in DOMAIN entries' /\ entries'[m] = entries[m])
               \/ pc[n] = "remove" /\ DOMAIN base[n] = {n}
    BY <2>2, RemovedKeys DEF RemovePatch
  <2>3. ASSUME NEW patch \in late, LatePatch(patch)
        PROVE  m = patch.by \/ (m \in DOMAIN entries' /\ entries'[m] = entries[m])
    BY <2>3, UpsertedKeys DEF LatePatch
  <2>. QED  BY <1>1, <2>1, <2>2, <2>3, WhoWrites, WriterActs
<1>2. EntryInv /\ [Next]_vars => [Kept]_vars
  BY <1>1
<1>. QED  BY <1>2, AlwaysEntryInv, PTL DEF Spec, LostOnlyToNullPatch

=============================================================================
