---------------------- MODULE PortAllocatorLoopProofs ----------------------
(***************************************************************************)
(* What the loops of ReconcilePorts guarantee for every set of requests,   *)
(* every map of existing allocations and every port range.                 *)
(***************************************************************************)
EXTENDS PortAllocatorLoop, PortAllocatorProofs

\* Everything findNext must not return is in "used".
UsedCoversResult == PortsOf(result) \subseteq used

SharingInv == TypeOK /\ UsedCoversResult /\ NoSharedPort

\* Assigning a port that is not in use keeps the map injective, and the
\* bookkeeping in "used" complete.
LEMMA AssignSafe ==
  ASSUME UsedCoversResult, NoSharedPort,
         NEW u, NEW p, p \notin used, Assign(u, p)
  PROVE  UsedCoversResult' /\ NoSharedPort'
  BY DEF UsedCoversResult, NoSharedPort, Assign, PortsOf, Injective

\* Skip leaves both facts alone.
LEMMA SkipSafe ==
  ASSUME UsedCoversResult, NoSharedPort, UNCHANGED <<result, used>>
  PROVE  UsedCoversResult' /\ NoSharedPort'
  BY DEF UsedCoversResult, NoSharedPort, PortsOf, Injective

\* Assigning an integer to a request keeps the types of result and used.
LEMMA AssignType ==
  ASSUME TypeOK, NEW u \in DOMAIN requested, NEW p \in Int, Assign(u, p)
  PROVE  /\ DOMAIN result' \subseteq DOMAIN requested
         /\ result' \in [DOMAIN result' -> Int]
         /\ used' \subseteq Int
  BY DEF TypeOK, Assign

\* Initially the arguments are maps over UIDs and nothing is assigned.
LEMMA InitTypeOK == Init => TypeOK
<1> SUFFICES ASSUME Init PROVE TypeOK
  OBVIOUS
<1>1. PICK D \in SUBSET UID : existing \in [D -> PortValue \ {NoPort}]
  BY DEF Init
<1>2. PICK E \in SUBSET UID : requested \in [E -> PortValue \cup {NoPort}]
  BY DEF Init
<1>3. PortValue \subseteq Int /\ PortValue \cup {NoPort} \subseteq Int
  BY LoopAssumption DEF NoPort
<1>4. range \in PortRanges /\ range.start \in Int
  BY LoopAssumption DEF Init
<1>5. existing \in [DOMAIN existing -> Int] /\ DOMAIN existing \subseteq UID
  BY <1>1, <1>3
<1>6. requested \in [DOMAIN requested -> Int] /\ DOMAIN requested \subseteq UID
  BY <1>2, <1>3
<1>7. result \in [DOMAIN result -> Int] /\ DOMAIN result = {}
  BY DEF Init, EmptyMap, NoPort
<1> QED
  BY <1>4, <1>5, <1>6, <1>7 DEF Init, TypeOK

\* Every iteration keeps the types.
LEMMA StepTypeOK == TypeOK /\ [Next]_vars => TypeOK'
<1> SUFFICES ASSUME TypeOK, [Next]_vars PROVE TypeOK'
  OBVIOUS
<1>1. range.start \in Int /\ range.end \in Int
  BY LoopAssumption DEF TypeOK
<1>2. Increment(next) \in Int
  BY LoopAssumption DEF TypeOK, Increment
<1>3. ASSUME NEW u \in UID, PinStep(u) PROVE TypeOK'
  <2>1. u \in DOMAIN requested /\ requested[u] \in Int
    BY <1>3 DEF PinStep, Current, TypeOK
  <2>2. CASE Assign(u, requested[u])
    BY <1>3, <2>1, <2>2, AssignType DEF PinStep, TypeOK, args
  <2>3. CASE Skip
    BY <1>3, <2>3 DEF PinStep, Skip, TypeOK, args
  <2> QED
    BY <1>3, <2>2, <2>3 DEF PinStep
<1>4. ASSUME NEW u \in UID, KeepStep(u) PROVE TypeOK'
  <2>1. u \in DOMAIN requested
    BY <1>4 DEF KeepStep, Current, TypeOK
  <2>2. CASE Keepable(u) /\ Assign(u, existing[u])
    <3>1. existing[u] \in Int
      BY <2>2 DEF Keepable, TypeOK
    <3> QED
      BY <1>4, <2>1, <2>2, <3>1, AssignType DEF KeepStep, TypeOK, args
  <2>3. CASE Skip
    BY <1>4, <2>3 DEF KeepStep, Skip, TypeOK, args
  <2> QED
    BY <1>4, <2>2, <2>3 DEF KeepStep
<1>5. ASSUME NEW u \in UID, FillSkip(u) PROVE TypeOK'
  BY <1>5 DEF FillSkip, TypeOK, args
<1>6. ASSUME NEW u \in UID, FillScan(u) PROVE TypeOK'
  BY <1>6, <1>2 DEF FillScan, TypeOK, args
<1>7. ASSUME NEW u \in UID, FillTake(u) PROVE TypeOK'
  <2>1. u \in DOMAIN requested /\ next \in Int /\ Assign(u, next)
    BY <1>7 DEF FillTake, Current, TypeOK
  <2> QED
    BY <1>7, <1>2, <2>1, AssignType DEF FillTake, TypeOK, args
<1>8. ASSUME NEW u \in UID, FillFail(u) PROVE TypeOK'
  BY <1>8 DEF FillFail, TypeOK, args
<1>9. CASE NextLoop
  BY <1>9 DEF NextLoop, TypeOK, args
<1>10. CASE UNCHANGED vars
  BY <1>10 DEF vars, TypeOK
<1> QED
  BY <1>3, <1>4, <1>5, <1>6, <1>7, <1>8, <1>9, <1>10 DEF Next

\* The types of the loop variables hold throughout ReconcilePorts.
THEOREM TypeCorrect == Spec => []TypeOK
  BY InitTypeOK, StepTypeOK, PTL DEF Spec

\* Every iteration keeps the map injective: pins are compared with the ports
\* pinned before, the other two loops look at "used".
LEMMA StepSharingInv == SharingInv /\ [Next]_vars => SharingInv'
<1> SUFFICES ASSUME SharingInv, [Next]_vars
             PROVE  UsedCoversResult' /\ NoSharedPort'
  BY StepTypeOK DEF SharingInv
<1>1. UsedCoversResult /\ NoSharedPort
  BY DEF SharingInv
<1>2. ASSUME NEW u \in UID, PinStep(u)
      PROVE  UsedCoversResult' /\ NoSharedPort'
  BY <1>1, <1>2, AssignSafe, SkipSafe DEF PinStep, Skip
<1>3. ASSUME NEW u \in UID, KeepStep(u)
      PROVE  UsedCoversResult' /\ NoSharedPort'
  BY <1>1, <1>3, AssignSafe, SkipSafe DEF KeepStep, Keepable, Skip
<1>4. ASSUME NEW u \in UID, FillTake(u)
      PROVE  UsedCoversResult' /\ NoSharedPort'
  BY <1>1, <1>4, AssignSafe DEF FillTake
<1>5. ASSUME NEW u \in UID, FillSkip(u) \/ FillScan(u) \/ FillFail(u)
      PROVE  UNCHANGED <<result, used>>
  BY <1>5 DEF FillSkip, FillScan, FillFail
<1>6. CASE NextLoop \/ UNCHANGED vars
  BY <1>1, <1>6, SkipSafe DEF NextLoop, vars
<1> QED
  BY <1>1, <1>2, <1>3, <1>4, <1>5, <1>6, SkipSafe DEF Next

\* No two requests ever hold the same port, for any requests, any existing
\* allocations (even ones that share ports) and any range, overflow included.
THEOREM NeverShared == Spec => []NoSharedPort
<1>1. Init => SharingInv
  BY InitTypeOK
  DEF Init, SharingInv, UsedCoversResult, NoSharedPort, EmptyMap, PortsOf, Injective
<1>2. SharingInv => NoSharedPort
  BY DEF SharingInv
<1> QED
  BY <1>1, <1>2, StepSharingInv, PTL DEF Spec

-----------------------------------------------------------------------------
(* Ports come from the range. The cursor moves up from range.start and     *)
(* leaves only ports in use behind: when it reaches the largest int32 and  *)
(* wraps around, the range is exhausted.                                   *)

CursorInv ==
    \/ Exhausted
    \/ /\ next >= range.start
       /\ \A p \in Int : range.start <= p /\ p < next => p \in used

RangeInv == TypeOK /\ CursorInv /\ AllocatesFromRange

\* The cursor moves on from a port of the range that is in use.
LEMMA CursorMoves ==
  ASSUME RangeInv, range' = range, used \subseteq used',
         next <= range.end, next \in used', next' = Increment(next)
  PROVE  CursorInv'
<1>1. /\ range.start \in Int /\ range.end \in Int /\ next \in Int
      /\ range.end <= MaxInt32 /\ MaxInt32 \in Nat
  BY LoopAssumption DEF RangeInv, TypeOK
<1>2. CASE Exhausted
  BY <1>2 DEF Exhausted, CursorInv
<1>3. CASE ~Exhausted
  <2>1. \A p \in Int : range.start <= p /\ p <= next => p \in used'
    BY <1>1, <1>3 DEF RangeInv, CursorInv
  <2>2. next >= range.start
    BY <1>3 DEF RangeInv, CursorInv
  <2>3. CASE next = MaxInt32
    <3>1. range.end = MaxInt32 /\ range.start .. range.end \subseteq used'
      BY <1>1, <2>1, <2>3
    <3> QED  BY <3>1 DEF Exhausted, CursorInv
  <2>4. CASE next # MaxInt32
    <3>1. next' = next + 1
      BY <1>1, <2>4 DEF Increment
    <3> QED  BY <1>1, <2>1, <2>2, <3>1 DEF CursorInv
  <2> QED  BY <2>3, <2>4
<1> QED  BY <1>2, <1>3

\* Every iteration keeps the assigned ports in the range.
LEMMA StepRangeInv == RangeInv /\ [Next]_vars => RangeInv'
<1> SUFFICES ASSUME RangeInv, [Next]_vars PROVE CursorInv' /\ AllocatesFromRange'
  BY StepTypeOK DEF RangeInv
<1>1. range.start \in Int /\ range.end \in Int /\ next \in Int
  BY LoopAssumption DEF RangeInv, TypeOK
<1>2. ASSUME NEW u, NEW p, InRange(p), Assign(u, p), UNCHANGED range
      PROVE  AllocatesFromRange'
  BY <1>2 DEF RangeInv, AllocatesFromRange, Exhausted, InRange, Assign
<1>3. ASSUME result' = result, used' = used, range' = range
      PROVE  AllocatesFromRange'
  BY <1>3 DEF RangeInv, AllocatesFromRange, Exhausted, InRange
<1>4. ASSUME next' = next, used \subseteq used', range' = range
      PROVE  CursorInv'
  BY <1>4 DEF RangeInv, CursorInv, Exhausted
<1>5. ASSUME NEW u, NEW p, Assign(u, p)
      PROVE  used \subseteq used' /\ p \in used'
  BY <1>5 DEF Assign
<1>6. ASSUME NEW u \in UID, PinStep(u)
      PROVE  CursorInv' /\ AllocatesFromRange'
  BY <1>2, <1>3, <1>4, <1>5, <1>6 DEF PinStep, Skip, args
<1>7. ASSUME NEW u \in UID, KeepStep(u)
      PROVE  CursorInv' /\ AllocatesFromRange'
  BY <1>2, <1>3, <1>4, <1>5, <1>7 DEF KeepStep, Keepable, Skip, args
<1>8. ASSUME NEW u \in UID, FillScan(u)
      PROVE  CursorInv' /\ AllocatesFromRange'
  BY <1>3, <1>8, CursorMoves DEF FillScan, args
<1>9. ASSUME NEW u \in UID, FillTake(u)
      PROVE  CursorInv' /\ AllocatesFromRange'
  <2>a. /\ Assign(u, next) /\ range' = range
        /\ next <= range.end /\ next' = Increment(next)
    BY <1>9 DEF FillTake, args
  <2>b. used \subseteq used' /\ next \in used'
    BY <2>a, <1>5
  <2>1. CursorInv'
    BY <2>a, <2>b, CursorMoves
  <2>2. CASE Exhausted
    BY <2>a, <2>b, <2>1, <2>2 DEF Exhausted, AllocatesFromRange
  <2>3. CASE ~Exhausted
    <3>1. InRange(next)
      BY <1>1, <2>a, <2>3 DEF RangeInv, CursorInv, InRange
    <3> QED  BY <1>2, <2>a, <2>1, <3>1
  <2> QED  BY <2>2, <2>3
<1>10. ASSUME NEW u \in UID, FillSkip(u) \/ FillFail(u)
       PROVE  CursorInv' /\ AllocatesFromRange'
  BY <1>3, <1>4, <1>10 DEF FillSkip, FillFail, args
<1>11. ASSUME NextLoop \/ UNCHANGED vars
       PROVE  CursorInv' /\ AllocatesFromRange'
  BY <1>3, <1>4, <1>11 DEF NextLoop, vars, args
<1> QED
  BY <1>6, <1>7, <1>8, <1>9, <1>10, <1>11 DEF Next

\* Every port ReconcilePorts gives out is in spec.portRange, unless the range
\* ends at the largest int32 and all of its ports are in use.
THEOREM AlwaysFromRange == Spec => []AllocatesFromRange
<1>1. Init => RangeInv
  <2> SUFFICES ASSUME Init PROVE CursorInv /\ AllocatesFromRange
    BY InitTypeOK DEF RangeInv
  <2>1. range.start \in Int
    BY LoopAssumption DEF Init
  <2> QED
    BY <2>1 DEF Init, CursorInv, AllocatesFromRange, EmptyMap
<1>2. RangeInv /\ [Next]_vars => RangeInv'
  BY StepRangeInv
<1>3. RangeInv => AllocatesFromRange
  BY DEF RangeInv
<1> QED
  BY <1>1, <1>2, <1>3, PTL DEF Spec

-----------------------------------------------------------------------------
(* Existing allocations stay. A keeper is a request whose allocation is    *)
(* still valid; its port is free until the second loop gives it back.      *)

Keeper(u) ==
    /\ u \in DOMAIN requested \cap DOMAIN existing
    /\ requested[u] = NoPort
    /\ InRange(existing[u])
    /\ \A v \in DOMAIN requested \ {u} :
            /\ requested[v] # existing[u]
            /\ v \in DOMAIN existing => existing[v] # existing[u]

Waiting(u) == u \notin DOMAIN result /\ existing[u] \notin used
HasBack(u) == u \in DOMAIN result /\ result[u] = existing[u]

KeeperInv ==
    \A u \in UID : Keeper(u) =>
        /\ loop = "pin" => Waiting(u)
        /\ loop = "keep" => (u \in todo /\ Waiting(u)) \/ HasBack(u)
        /\ loop \in {"fill", "done"} => HasBack(u)

KeepInv == TypeOK /\ KeeperInv

\* Every iteration keeps each keeper's port free for it, or in its hands.
LEMMA StepKeepInv == KeepInv /\ [Next]_vars => KeepInv'
<1> SUFFICES ASSUME KeepInv, [Next]_vars, NEW w \in UID, Keeper(w)'
             PROVE  /\ loop' = "pin" => Waiting(w)'
                    /\ loop' = "keep" => (w \in todo' /\ Waiting(w)') \/ HasBack(w)'
                    /\ loop' \in {"fill", "done"} => HasBack(w)'
  BY StepTypeOK DEF KeepInv, KeeperInv
<1>1. UNCHANGED <<existing, requested, range>>
  BY DEF Next, PinStep, KeepStep, FillSkip, FillScan, FillTake, FillFail,
         NextLoop, args, vars
<1>2. Keeper(w)
  BY <1>1 DEF Keeper, InRange
<1>3. /\ loop = "pin" => Waiting(w)
      /\ loop = "keep" => (w \in todo /\ Waiting(w)) \/ HasBack(w)
      /\ loop \in {"fill", "done"} => HasBack(w)
  BY <1>2 DEF KeepInv, KeeperInv
<1>4. TypeOK /\ w \in DOMAIN requested
  BY <1>2 DEF KeepInv, Keeper
<1>5. ASSUME NEW u \in UID, PinStep(u)
      PROVE  loop' \in {"pin", "error"} /\ (loop' = "pin" => Waiting(w)')
  <2>1. CASE Assign(u, requested[u]) /\ requested[u] # NoPort
    <3>1. u # w /\ u \in DOMAIN requested
      BY <1>2, <1>4, <1>5, <2>1 DEF Keeper, PinStep, Current, TypeOK
    <3>2. requested[u] # existing[w]
      BY <1>2, <3>1 DEF Keeper
    <3> QED
      BY <1>1, <1>3, <1>5, <2>1, <3>1, <3>2 DEF PinStep, Assign, Waiting
  <2>2. CASE Skip
    BY <1>1, <1>3, <1>5, <2>2 DEF PinStep, Skip, Waiting
  <2> QED
    BY <1>5, <2>1, <2>2 DEF PinStep
<1>6. ASSUME NEW u \in UID, KeepStep(u)
      PROVE  loop' = "keep" /\ ((w \in todo' /\ Waiting(w)') \/ HasBack(w)')
  <2>0. loop = "keep" /\ loop' = "keep" /\ todo' = todo \ {u} /\ u \in DOMAIN requested
    BY <1>4, <1>6 DEF KeepStep, Current, TypeOK
  <2>1. CASE u = w /\ Waiting(w)
    <3>1. Keepable(w)
      BY <1>2, <2>1 DEF Keeper, Waiting, Keepable
    <3> QED
      BY <1>1, <1>6, <2>0, <2>1, <3>1 DEF KeepStep, Assign, HasBack
  <2>2. CASE u # w /\ Waiting(w) /\ w \in todo
    <3>1. Keepable(u) => existing[u] # existing[w]
      BY <1>2, <2>0, <2>2 DEF Keeper, Keepable
    <3> QED
      BY <1>1, <1>6, <2>0, <2>2, <3>1 DEF KeepStep, Assign, Skip, Waiting
  <2>3. CASE HasBack(w)
    <3>1. Keepable(u) => u # w
      BY <2>3 DEF HasBack, Keepable
    <3> QED
      BY <1>1, <1>6, <2>0, <2>3, <3>1 DEF KeepStep, Assign, Skip, HasBack
  <2> QED
    BY <1>3, <2>0, <2>1, <2>2, <2>3
<1>7. ASSUME NEW u \in UID, FillTake(u)
      PROVE  loop' = "fill" /\ HasBack(w)'
  <2>1. loop = "fill" /\ loop' = "fill" /\ u \notin DOMAIN result /\ Assign(u, next)
    BY <1>7 DEF FillTake
  <2> QED
    BY <1>1, <1>3, <2>1 DEF Assign, HasBack
<1>8. ASSUME NEW u \in UID, FillSkip(u) \/ FillScan(u)
      PROVE  loop' = "fill" /\ HasBack(w)'
  <2>1. loop = "fill" /\ loop' = "fill" /\ result' = result
    BY <1>8 DEF FillSkip, FillScan
  <2> QED
    BY <1>1, <1>3, <2>1 DEF HasBack
<1>9. ASSUME NEW u \in UID, FillFail(u) PROVE loop' = "error"
  BY <1>9 DEF FillFail
<1>10. CASE NextLoop
  <2>1. /\ todo = {} /\ UNCHANGED <<result, used>>
        /\ \/ loop = "pin" /\ loop' = "keep" /\ todo' = DOMAIN requested
           \/ loop = "keep" /\ loop' = "fill"
           \/ loop = "fill" /\ loop' = "done"
    BY <1>10 DEF NextLoop
  <2> QED
    BY <1>1, <1>3, <1>4, <2>1 DEF Waiting, HasBack
<1>11. CASE UNCHANGED vars
  BY <1>3, <1>11 DEF vars, Waiting, HasBack
<1> QED
  BY <1>5, <1>6, <1>7, <1>8, <1>9, <1>10, <1>11 DEF Next

\* A still valid allocation that no other request pins or holds is what
\* ReconcilePorts returns for its request.
THEOREM AlwaysKeeps == Spec => []KeepsExisting
<1>1. Init => KeepInv
  <2> SUFFICES ASSUME Init PROVE KeeperInv
    BY InitTypeOK DEF KeepInv
  <2> QED
    BY DEF Init, KeeperInv, Waiting, EmptyMap
<1>2. KeepInv => KeepsExisting
  BY DEF KeepInv, TypeOK, KeeperInv, KeepsExisting, Keeper, HasBack
<1> QED
  BY <1>1, <1>2, StepKeepInv, PTL DEF Spec

-----------------------------------------------------------------------------
(* The loops compute the definition. Each loop has its own invariant: what *)
(* result holds once the requests before the current one are done.         *)

Pinned == PinnedBy(requested)
KeptPorts == KeptBy(existing, requested, range.start, range.end)
SettledPorts == Settled(existing, requested, range.start, range.end)

\* What is left for the third loop.
Rest == DOMAIN requested \ DOMAIN SettledPorts
Free == (range.start .. range.end) \ PortsOf(SettledPorts)

\* The requests are taken in order.
OrderInv == \A u \in DOMAIN requested \ todo, v \in todo : Before(u, v)

PinInv ==
    /\ DOMAIN result = Pinned \ todo
    /\ \A u \in DOMAIN result : result[u] = requested[u] /\ InRange(result[u])

\* A port that a request before this one could have kept is in use: nobody
\* after it gets it.
KeepLoopInv ==
    /\ PinsValid(requested, range.start, range.end)
    /\ DOMAIN result = Pinned \cup (KeptPorts \ todo)
    /\ \A u \in DOMAIN result : result[u] = SettledPorts[u]
    /\ \A u \in (DOMAIN requested \ (Pinned \cup todo)) \cap DOMAIN existing :
          InRange(existing[u]) => existing[u] \in used

\* The cursor has passed as many free ports as there are requests done, and
\* each of these has the free port of its own rank.
Handed ==
    /\ Cardinality(Lower(next, Free)) = Cardinality(Rest \ todo)
    /\ \A u \in Rest \ todo : /\ result[u] \in Free /\ result[u] < next
                             /\ Paired(u, Rest, result[u], Free)

FillInv ==
    /\ PinsValid(requested, range.start, range.end)
    /\ DOMAIN result = DOMAIN SettledPorts \cup (Rest \ todo)
    /\ \A u \in DOMAIN SettledPorts : result[u] = SettledPorts[u]
    /\ Exhausted \/ Handed

LoopInv ==
    /\ used = PortsOf(result)
    /\ loop # "error" => range.start > 0 /\ range.end >= range.start
    /\ loop \in {"pin", "keep", "fill"} => OrderInv
    /\ loop = "pin" => PinInv
    /\ loop = "keep" => KeepLoopInv
    /\ loop = "fill" => FillInv

AgreeInv == RangeInv /\ NoSharedPort /\ LoopInv /\ AgreesWithDefinition

\* The arguments do not change, nor does what is defined from them.
LEMMA SameDefinition ==
  ASSUME UNCHANGED args
  PROVE  /\ UNCHANGED <<existing, requested, range>>
         /\ UNCHANGED <<Pinned, KeptPorts, SettledPorts, Rest, Free>>
         /\ PinsValid(requested, range.start, range.end)'
              <=> PinsValid(requested, range.start, range.end)
<1>1. UNCHANGED <<existing, requested, range>>
  BY DEF args
<1>. QED  BY <1>1 DEF Pinned, KeptPorts, SettledPorts, Rest, Free

LEMMA AssignEffect ==
  ASSUME NEW u, u \notin DOMAIN result, NEW p, Assign(u, p), used = PortsOf(result)
  PROVE  /\ used' = PortsOf(result') /\ used' = used \cup {p}
         /\ DOMAIN result' = DOMAIN result \cup {u}
         /\ result'[u] = p
         /\ \A v \in DOMAIN result : v # u /\ result'[v] = result[v]
  BY DEF Assign, PortsOf

\* The request at hand is after those that are done and before the others.
LEMMA CurrentOrder ==
  ASSUME OrderInv, todo \subseteq DOMAIN requested,
         NEW u, Current(u), todo' = todo \ {u}, requested' = requested
  PROVE  /\ OrderInv'
         /\ u \in todo
         /\ \A v \in DOMAIN requested \ todo : Before(v, u)
  BY DEF OrderInv, Current

\* First loop: the pins so far, all of them valid.
LEMMA PinAgree ==
  ASSUME AgreeInv, NEW u \in UID, PinStep(u)
  PROVE  LoopInv' /\ AgreesWithDefinition'
<1>1. /\ loop = "pin" /\ Current(u) /\ UNCHANGED args
      /\ u \in todo /\ todo \subseteq DOMAIN requested
      /\ used = PortsOf(result) /\ PinInv /\ OrderInv
      /\ range.start > 0 /\ range.end >= range.start
  BY DEF PinStep, Current, AgreeInv, RangeInv, TypeOK, LoopInv
<1>2. UNCHANGED <<existing, requested, range, Pinned>>
  BY <1>1, SameDefinition
<1>3. u \notin DOMAIN result
  BY <1>1 DEF PinInv
<1>4. CASE requested[u] = NoPort /\ Skip /\ todo' = todo \ {u} /\ loop' = loop
  <2>1. Pinned \ todo' = Pinned \ todo
    BY <1>4 DEF Pinned, PinnedBy
  <2>2. PinInv'
    BY <1>1, <1>2, <1>4, <2>1 DEF Skip, PinInv, InRange
  <2>. QED
    BY <1>1, <1>2, <1>4, <2>2, CurrentOrder DEF Skip, LoopInv, AgreesWithDefinition
<1>5. CASE /\ requested[u] # NoPort /\ InRange(requested[u])
           /\ Assign(u, requested[u]) /\ todo' = todo \ {u} /\ loop' = loop
  <2>1. Pinned \ todo' = (Pinned \ todo) \cup {u}
    BY <1>1, <1>5 DEF Pinned, PinnedBy
  <2>2. /\ used' = PortsOf(result')
        /\ DOMAIN result' = DOMAIN result \cup {u}
        /\ result'[u] = requested[u]
        /\ \A v \in DOMAIN result : result'[v] = result[v]
    BY <1>1, <1>3, <1>5, AssignEffect
  <2>3. PinInv'
    BY <1>1, <1>2, <1>5, <2>1, <2>2 DEF PinInv, InRange
  <2>. QED
    BY <1>1, <1>2, <1>5, <2>2, <2>3, CurrentOrder DEF LoopInv, AgreesWithDefinition
<1>6. CASE /\ requested[u] # NoPort /\ Skip /\ loop' = "error"
           /\ ~InRange(requested[u]) \/ requested[u] \in used
  <2>1. u \in Pinned
    BY <1>1, <1>6 DEF Pinned, PinnedBy
  <2>2. ~PinsValid(requested, range.start, range.end)
    <3>1. CASE ~InRange(requested[u])
      BY <2>1, <3>1 DEF PinsValid, Pinned, InRange
    <3>2. CASE requested[u] \in used
      <4>1. PICK v \in DOMAIN result : requested[u] = result[v]
        BY <1>1, <3>2 DEF PortsOf
      <4>2. v \in Pinned /\ v # u /\ requested[v] = requested[u]
        BY <1>1, <1>3, <4>1 DEF PinInv
      <4>. QED  BY <2>1, <4>2 DEF PinsValid, Pinned
    <3>. QED  BY <1>6, <3>1, <3>2
  <2>3. ~ReconcilePortsOK(existing, requested, range.start, range.end)
    BY <2>2 DEF ReconcilePortsOK
  <2>. QED
    BY <1>1, <1>2, <1>6, <2>3 DEF Skip, LoopInv, AgreesWithDefinition
<1>. QED  BY <1>4, <1>5, <1>6 DEF PinStep

\* Second loop: the request at hand keeps its port exactly when the definition
\* says so.
LEMMA KeepableIsKept ==
  ASSUME AgreeInv, loop = "keep", NEW u \in UID, Current(u)
  PROVE  Keepable(u) <=> u \in KeptPorts
<1>1. /\ u \in todo /\ u \in DOMAIN requested /\ used = PortsOf(result) /\ KeepLoopInv
      /\ \A v \in DOMAIN requested \ todo : Before(v, u)
      /\ \A v \in todo \ {u} : Before(u, v)
      /\ DOMAIN requested \subseteq UID
  BY DEF Current, AgreeInv, RangeInv, TypeOK, LoopInv, OrderInv
<1>2. Pinned \subseteq DOMAIN requested /\ KeptPorts \subseteq DOMAIN requested \ Pinned
  BY DEF Pinned, PinnedBy, KeptPorts, KeptBy
<1>3. /\ \A v \in Pinned : SettledPorts[v] = requested[v]
      /\ \A v \in KeptPorts : SettledPorts[v] = existing[v]
  BY <1>2 DEF SettledPorts, Settled, Pinned, KeptPorts
<1>4. ASSUME Keepable(u) PROVE u \in KeptPorts
  <2>1. u \in (DOMAIN requested \ Pinned) \cap DOMAIN existing
    BY <1>1, <1>4 DEF Keepable, KeepLoopInv
  <2>2. \A v \in Pinned : requested[v] # existing[u]
    BY <1>1, <1>3, <1>4 DEF Keepable, KeepLoopInv, PortsOf
  <2>3. ASSUME NEW v \in (DOMAIN requested \ Pinned) \cap DOMAIN existing,
               existing[v] = existing[u], Before(v, u)
        PROVE  FALSE
    <3>1. v \in UID /\ v # u /\ ~Before(u, v)
      BY <1>1, <2>3, BeforeIsOrder
    <3>2. v \notin todo
      BY <1>1, <3>1
    <3>. QED  BY <1>1, <1>4, <2>3, <3>2 DEF Keepable, KeepLoopInv
  <2>. QED  BY <1>4, <2>1, <2>2, <2>3 DEF KeptPorts, KeptBy, Pinned, Keepable, InRange
<1>5. ASSUME u \in KeptPorts PROVE Keepable(u)
  <2>1. /\ u \in (DOMAIN requested \ Pinned) \cap DOMAIN existing
        /\ InRange(existing[u])
        /\ \A v \in Pinned : requested[v] # existing[u]
        /\ \A v \in (DOMAIN requested \ Pinned) \cap DOMAIN existing :
              existing[v] = existing[u] => ~Before(v, u)
    BY <1>5 DEF KeptPorts, KeptBy, Pinned, InRange
  <2>2. u \notin DOMAIN result
    BY <1>1, <2>1 DEF KeepLoopInv
  <2>3. ASSUME NEW v \in DOMAIN result, result[v] = existing[u] PROVE FALSE
    <3>1. CASE v \in Pinned
      BY <1>1, <1>3, <2>1, <2>3, <3>1 DEF KeepLoopInv
    <3>2. CASE v \in KeptPorts \ todo
      <4>1. existing[v] = existing[u] /\ v \in (DOMAIN requested \ Pinned) \cap DOMAIN existing
        BY <1>1, <1>3, <2>3, <3>2 DEF KeepLoopInv, KeptPorts, KeptBy, Pinned
      <4>. QED  BY <1>1, <2>1, <3>2, <4>1
    <3>. QED  BY <1>1, <3>1, <3>2 DEF KeepLoopInv
  <2>. QED  BY <1>1, <2>1, <2>2, <2>3 DEF Keepable, PortsOf
<1>. QED  BY <1>4, <1>5

LEMMA KeepAgree ==
  ASSUME AgreeInv, NEW u \in UID, KeepStep(u)
  PROVE  LoopInv' /\ AgreesWithDefinition'
<1>1. /\ loop = "keep" /\ loop' = "keep" /\ Current(u) /\ UNCHANGED args
      /\ todo' = todo \ {u}
      /\ u \in todo /\ todo \subseteq DOMAIN requested
      /\ used = PortsOf(result) /\ KeepLoopInv /\ OrderInv
      /\ range.start > 0 /\ range.end >= range.start
  BY DEF KeepStep, Current, AgreeInv, RangeInv, TypeOK, LoopInv
<1>2. /\ UNCHANGED <<existing, requested, range, Pinned, KeptPorts, SettledPorts>>
      /\ PinsValid(requested, range.start, range.end)'
  BY <1>1, SameDefinition DEF KeepLoopInv
<1>3. OrderInv'
  BY <1>1, <1>2, CurrentOrder
<1>4. used' = PortsOf(result') /\ KeepLoopInv'
  <2>1. CASE Keepable(u) /\ Assign(u, existing[u])
    <3>1. u \in KeptPorts /\ u \notin DOMAIN result
      BY <1>1, <2>1, KeepableIsKept DEF Keepable
    <3>2. /\ used' = PortsOf(result') /\ used' = used \cup {existing[u]}
          /\ DOMAIN result' = DOMAIN result \cup {u}
          /\ result'[u] = existing[u]
          /\ \A v \in DOMAIN result : result'[v] = result[v]
      BY <1>1, <2>1, <3>1, AssignEffect
    <3>3. SettledPorts[u] = existing[u]
      BY <3>1 DEF KeptPorts, KeptBy, SettledPorts, Settled
    <3>4. DOMAIN result' = Pinned \cup (KeptPorts \ todo')
      BY <1>1, <3>1, <3>2 DEF KeepLoopInv
    <3>5. ASSUME NEW v \in (DOMAIN requested \ (Pinned \cup todo')) \cap DOMAIN existing,
                 InRange(existing[v])
          PROVE  existing[v] \in used'
      BY <1>1, <3>2, <3>5 DEF KeepLoopInv
    <3>6. \A v \in DOMAIN result' : result'[v] = SettledPorts[v]
      BY <1>1, <3>2, <3>3 DEF KeepLoopInv
    <3>. QED  BY <1>2, <3>2, <3>4, <3>5, <3>6 DEF KeepLoopInv, InRange
  <2>2. CASE ~Keepable(u) /\ Skip
    <3>1. u \notin KeptPorts
      BY <1>1, <2>2, KeepableIsKept
    <3>2. result' = result /\ used' = used
      BY <2>2 DEF Skip
    <3>3. DOMAIN result' = Pinned \cup (KeptPorts \ todo')
      BY <1>1, <3>1, <3>2 DEF KeepLoopInv
    <3>4. u \in DOMAIN existing /\ InRange(existing[u]) /\ u \notin Pinned
            => existing[u] \in used
      BY <1>1, <2>2, <3>1 DEF Keepable, KeepLoopInv
    <3>. QED  BY <1>1, <1>2, <3>2, <3>3, <3>4 DEF KeepLoopInv, InRange
  <2>. QED  BY <2>1, <2>2 DEF KeepStep
<1>. QED  BY <1>1, <1>2, <1>3, <1>4 DEF LoopInv, AgreesWithDefinition

\* The types of what the third loop works on.
LEMMA FillTypes ==
  ASSUME AgreeInv
  PROVE  /\ range.start \in Int /\ range.end \in Int /\ next \in Int
         /\ Rest \in SUBSET UID /\ IsFiniteSet(Rest)
         /\ Free \in SUBSET Int /\ IsFiniteSet(Free)
         /\ DOMAIN SettledPorts \subseteq DOMAIN requested
<1>1. range.start \in Int /\ range.end \in Int /\ next \in Int /\ DOMAIN requested \subseteq UID
  BY LoopAssumption DEF AgreeInv, RangeInv, TypeOK
<1>2. IsFiniteSet(range.start .. range.end)
  BY <1>1, FS_Interval
<1>3. Rest \in SUBSET UID /\ Free \in SUBSET (range.start .. range.end)
  BY <1>1 DEF Rest, Free
<1>4. IsFiniteSet(Rest) /\ IsFiniteSet(Free)
  BY <1>2, <1>3, UIDAssumption, FS_Subset
<1>5. DOMAIN SettledPorts \subseteq DOMAIN requested
  BY DEF SettledPorts, Settled, PinnedBy, KeptBy
<1>. QED  BY <1>1, <1>3, <1>4, <1>5

\* What a request of the third loop has before it: those the loop has served.
LEMMA FillCurrent ==
  ASSUME AgreeInv, loop = "fill", NEW u \in UID, Current(u), u \notin DOMAIN result
  PROVE  /\ u \in Rest /\ u \in todo
         /\ Earlier(u, Rest) = Rest \ todo
<1>1. /\ OrderInv /\ FillInv /\ u \in todo /\ u \in DOMAIN requested
      /\ DOMAIN requested \subseteq UID /\ todo \subseteq DOMAIN requested
      /\ \A v \in todo \ {u} : Before(u, v)
  BY DEF AgreeInv, RangeInv, TypeOK, LoopInv, Current
<1>2. u \in Rest
  BY <1>1 DEF FillInv, Rest
<1>3. ASSUME NEW v \in Rest PROVE Before(v, u) <=> v \notin todo
  <2>1. v \in DOMAIN requested /\ v \in UID
    BY <1>1 DEF Rest
  <2>2. CASE v \notin todo
    BY <1>1, <2>1, <2>2 DEF OrderInv
  <2>3. CASE v \in todo
    BY <1>1, <2>1, <2>3, BeforeIsOrder
  <2>. QED  BY <2>2, <2>3
<1>. QED  BY <1>1, <1>2, <1>3 DEF Earlier

\* The cursor wraps around only when the range is exhausted.
LEMMA CursorSteps ==
  ASSUME AgreeInv, loop = "fill", UNCHANGED range, used \subseteq used',
         next <= range.end, next \in used', next' = Increment(next)
  PROVE  Exhausted' \/ next' = next + 1
<1>1. CursorInv'
  BY CursorMoves DEF AgreeInv
<1>2. range.start > 0 /\ MaxInt32 \in Nat /\ range.start \in Int /\ next \in Int
  BY LoopAssumption DEF AgreeInv, RangeInv, TypeOK, LoopInv
<1>. QED  BY <1>1, <1>2 DEF CursorInv, Increment

\* Third loop: ports in use are passed over ...
LEMMA ScanAgree ==
  ASSUME AgreeInv, NEW u \in UID, FillScan(u)
  PROVE  LoopInv' /\ AgreesWithDefinition'
<1>1. /\ loop = "fill" /\ loop' = "fill" /\ UNCHANGED <<args, todo, result, used>>
      /\ next <= range.end /\ next \in used /\ next' = Increment(next)
      /\ used = PortsOf(result) /\ FillInv /\ OrderInv
      /\ range.start > 0 /\ range.end >= range.start
  BY DEF FillScan, AgreeInv, LoopInv
<1>2. /\ UNCHANGED <<existing, requested, range, SettledPorts, Rest, Free>>
      /\ PinsValid(requested, range.start, range.end)'
  BY <1>1, SameDefinition DEF FillInv
<1>3. Exhausted' \/ Handed'
  <2>1. CASE Exhausted
    BY <1>1, <1>2, <2>1 DEF Exhausted
  <2>2. CASE ~Exhausted /\ ~Exhausted'
    <3>1. Handed /\ next' = next + 1
      BY <1>1, <1>2, <2>2, CursorSteps DEF FillInv
    <3>2. next \notin Free
      <4>1. PICK v \in DOMAIN result : next = result[v]
        BY <1>1 DEF PortsOf
      <4>2. v \notin Rest \ todo
        BY <3>1, <4>1, FillTypes DEF Handed
      <4>3. v \in DOMAIN SettledPorts /\ next = SettledPorts[v]
        BY <1>1, <4>1, <4>2 DEF FillInv
      <4>. QED  BY <4>3 DEF Free, PortsOf
    <3>3. Lower(next', Free) = Lower(next, Free)
      BY <3>1, <3>2, FillTypes DEF Lower
    <3>4. \A v \in Rest \ todo : result[v] < next'
      BY <3>1, FillTypes DEF Handed
    <3>. QED  BY <1>1, <1>2, <3>1, <3>3, <3>4 DEF Handed
  <2>. QED  BY <2>1, <2>2
<1>4. FillInv'
  BY <1>1, <1>2, <1>3 DEF FillInv
<1>. QED  BY <1>1, <1>2, <1>4 DEF LoopInv, OrderInv, AgreesWithDefinition

\* ... the first free one is the one of the same rank as the request ...
LEMMA TakeAgree ==
  ASSUME AgreeInv, NEW u \in UID, FillTake(u)
  PROVE  LoopInv' /\ AgreesWithDefinition'
<1>1. /\ loop = "fill" /\ loop' = "fill" /\ Current(u) /\ u \notin DOMAIN result
      /\ UNCHANGED args /\ todo' = todo \ {u} /\ Assign(u, next)
      /\ next <= range.end /\ next \notin used /\ next' = Increment(next)
      /\ used = PortsOf(result) /\ FillInv /\ OrderInv
      /\ todo \subseteq DOMAIN requested
      /\ range.start > 0 /\ range.end >= range.start
  BY DEF FillTake, AgreeInv, RangeInv, TypeOK, LoopInv
<1>2. /\ UNCHANGED <<existing, requested, range, SettledPorts, Rest, Free>>
      /\ PinsValid(requested, range.start, range.end)'
  BY <1>1, SameDefinition DEF FillInv
<1>3. OrderInv'
  BY <1>1, <1>2, CurrentOrder
<1>4. /\ used' = PortsOf(result') /\ used' = used \cup {next}
      /\ DOMAIN result' = DOMAIN result \cup {u}
      /\ result'[u] = next
      /\ \A v \in DOMAIN result : v # u /\ result'[v] = result[v]
  BY <1>1, AssignEffect
<1>5. u \in Rest /\ u \in todo /\ Earlier(u, Rest) = Rest \ todo
  BY <1>1, FillCurrent
<1>6. Rest \ todo' = (Rest \ todo) \cup {u}
  BY <1>1, <1>5
<1>7. Exhausted' \/ Handed'
  <2>1. CASE Exhausted
    BY <1>2, <1>4, <2>1 DEF Exhausted
  <2>2. CASE ~Exhausted /\ ~Exhausted'
    <3>1. Handed /\ next' = next + 1
      BY <1>1, <1>2, <1>4, <2>2, CursorSteps DEF FillInv
    <3>2. next \in Free
      <4>1. next >= range.start
        BY <2>2 DEF AgreeInv, RangeInv, CursorInv
      <4>2. next \notin PortsOf(SettledPorts)
        BY <1>1 DEF FillInv, PortsOf
      <4>. QED  BY <1>1, <4>1, <4>2, FillTypes DEF Free
    <3>3. Lower(next', Free) = Lower(next, Free) \cup {next}
      BY <3>1, <3>2, FillTypes DEF Lower
    <3>4. /\ IsFiniteSet(Lower(next, Free)) /\ next \notin Lower(next, Free)
      <4>1. Lower(next, Free) \in SUBSET Free /\ next \notin Lower(next, Free)
        BY FillTypes DEF Lower
      <4>. QED  BY <4>1, FillTypes, FS_Subset
    <3>5. Cardinality(Lower(next', Free)) = Cardinality(Lower(next, Free)) + 1
      BY <3>3, <3>4, FS_AddElement
    <3>6. Cardinality(Rest \ todo') = Cardinality(Rest \ todo) + 1
      <4>1. IsFiniteSet(Rest \ todo)
        BY FillTypes, FS_Subset
      <4>. QED  BY <1>5, <1>6, <4>1, FS_AddElement
    <3>7. Paired(u, Rest, next, Free)
      BY <1>5, <3>1 DEF Paired, Handed
    <3>8. ASSUME NEW v \in Rest \ todo'
          PROVE  /\ result'[v] \in Free /\ result'[v] < next'
                 /\ Paired(v, Rest, result'[v], Free)
      <4>1. CASE v = u
        BY <1>4, <3>1, <3>2, <3>7, <4>1, FillTypes
      <4>2. CASE v \in Rest \ todo
        <5>1. result'[v] = result[v]
          BY <1>1, <1>4, <4>2 DEF FillInv
        <5>. QED  BY <3>1, <4>2, <5>1, FillTypes DEF Handed
      <4>. QED  BY <1>6, <4>1, <4>2
    <3>. QED  BY <1>2, <3>1, <3>5, <3>6, <3>8 DEF Handed
  <2>. QED  BY <2>1, <2>2
<1>8. FillInv'
  <2>1. DOMAIN result' = DOMAIN SettledPorts \cup (Rest \ todo')
    BY <1>1, <1>4, <1>6 DEF FillInv
  <2>2. \A v \in DOMAIN SettledPorts : result'[v] = SettledPorts[v]
    BY <1>1, <1>4 DEF FillInv
  <2>. QED  BY <1>2, <1>7, <2>1, <2>2 DEF FillInv
<1>. QED  BY <1>1, <1>2, <1>3, <1>4, <1>8 DEF LoopInv, AgreesWithDefinition

\* ... and requests that have a port are skipped.
LEMMA SkipAgree ==
  ASSUME AgreeInv, NEW u \in UID, FillSkip(u)
  PROVE  LoopInv' /\ AgreesWithDefinition'
<1>1. /\ loop = "fill" /\ loop' = "fill" /\ Current(u) /\ u \in DOMAIN result
      /\ UNCHANGED <<args, result, used, next>> /\ todo' = todo \ {u}
      /\ used = PortsOf(result) /\ FillInv /\ OrderInv
      /\ todo \subseteq DOMAIN requested /\ u \in todo
      /\ range.start > 0 /\ range.end >= range.start
  BY DEF FillSkip, Current, AgreeInv, RangeInv, TypeOK, LoopInv
<1>2. /\ UNCHANGED <<existing, requested, range, SettledPorts, Rest, Free>>
      /\ PinsValid(requested, range.start, range.end)'
  BY <1>1, SameDefinition DEF FillInv
<1>3. Rest \ todo' = Rest \ todo
  BY <1>1 DEF FillInv, Rest
<1>4. FillInv'
  BY <1>1, <1>2, <1>3 DEF FillInv, Handed, Exhausted
<1>5. OrderInv'
  BY <1>1, <1>2, CurrentOrder
<1>. QED  BY <1>1, <1>2, <1>4, <1>5 DEF LoopInv, AgreesWithDefinition

\* When the cursor has passed the end, there is no free port of that rank.
LEMMA FailAgree ==
  ASSUME AgreeInv, NEW u \in UID, FillFail(u)
  PROVE  LoopInv' /\ AgreesWithDefinition'
<1>1. /\ loop = "fill" /\ loop' = "error" /\ Current(u) /\ u \notin DOMAIN result
      /\ UNCHANGED <<args, todo, result, used, next>> /\ next > range.end
      /\ used = PortsOf(result) /\ FillInv
  BY DEF FillFail, AgreeInv, LoopInv
<1>2. UNCHANGED <<existing, requested, range>>
  BY <1>1, SameDefinition
<1>3. ASSUME ~Exhausted PROVE ~ReconcilePortsOK(existing, requested, range.start, range.end)
  <2>1. u \in Rest /\ Earlier(u, Rest) = Rest \ todo
    BY <1>1, FillCurrent
  <2>2. Lower(next, Free) = Free
    BY <1>1, FillTypes DEF Lower, Free
  <2>3. Cardinality(Earlier(u, Rest)) = Cardinality(Free)
    BY <1>1, <1>3, <2>1, <2>2 DEF FillInv, Handed
  <2>4. \A p \in Free : ~Paired(u, Rest, p, Free)
    BY <2>3, FillTypes, LowerCounts, FS_CardinalityType DEF Paired
  <2>5. u \notin DOMAIN InOrder(Rest, Free)
    BY <2>4 DEF InOrder
  <2>. QED  BY <2>1, <2>5 DEF ReconcilePortsOK, Filled, Rest, Free, SettledPorts
<1>. QED  BY <1>1, <1>2, <1>3 DEF LoopInv, AgreesWithDefinition, Exhausted

\* One loop hands over to the next, and the last one to the caller.
LEMMA NextLoopAgree ==
  ASSUME AgreeInv, NextLoop
  PROVE  LoopInv' /\ AgreesWithDefinition'
<1>1. /\ todo = {} /\ UNCHANGED <<args, result, used, next>>
      /\ used = PortsOf(result) /\ NoSharedPort
      /\ loop # "error" => range.start > 0 /\ range.end >= range.start
  BY DEF NextLoop, AgreeInv, LoopInv
<1>2. /\ UNCHANGED <<existing, requested, range>>
      /\ UNCHANGED <<Pinned, KeptPorts, SettledPorts, Rest, Free>>
      /\ PinsValid(requested, range.start, range.end)'
           <=> PinsValid(requested, range.start, range.end)
  BY <1>1, SameDefinition
<1>3. /\ Pinned \subseteq DOMAIN requested
      /\ KeptPorts \subseteq DOMAIN requested \ Pinned
      /\ DOMAIN SettledPorts = Pinned \cup KeptPorts
      /\ \A u \in Pinned : SettledPorts[u] = requested[u]
  BY DEF Pinned, PinnedBy, KeptPorts, KeptBy, SettledPorts, Settled
<1>4. CASE loop = "pin" /\ loop' = "keep" /\ todo' = DOMAIN requested
  <2>1. DOMAIN result = Pinned /\ \A u \in Pinned : result[u] = requested[u] /\ InRange(result[u])
    BY <1>1, <1>4 DEF AgreeInv, LoopInv, PinInv
  <2>2. PinsValid(requested, range.start, range.end)
    BY <1>1, <2>1 DEF PinsValid, Pinned, InRange, NoSharedPort, Injective
  <2>3. KeepLoopInv'
    BY <1>1, <1>2, <1>3, <1>4, <2>1, <2>2 DEF KeepLoopInv
  <2>. QED
    BY <1>1, <1>2, <1>4, <2>3 DEF LoopInv, OrderInv, AgreesWithDefinition
<1>5. CASE loop = "keep" /\ loop' = "fill" /\ todo' = DOMAIN requested
  <2>1. /\ PinsValid(requested, range.start, range.end)
        /\ DOMAIN result = DOMAIN SettledPorts
        /\ \A u \in DOMAIN SettledPorts : result[u] = SettledPorts[u]
    BY <1>1, <1>3, <1>5 DEF AgreeInv, LoopInv, KeepLoopInv
  <2>2. Rest \ todo' = {}
    BY <1>5 DEF Rest
  <2>3. ASSUME ~Exhausted PROVE Lower(next, Free) = {}
    <3>1. used = PortsOf(SettledPorts)
      BY <1>1, <2>1 DEF PortsOf
    <3>2. \A p \in Int : range.start <= p /\ p < next => p \in PortsOf(SettledPorts)
      BY <2>3, <3>1 DEF AgreeInv, RangeInv, CursorInv
    <3>. QED  BY <3>2, FillTypes DEF Lower, Free
  <2>4. Exhausted' \/ Handed'
    <3>1. ASSUME ~Exhausted PROVE Handed'
      BY <1>1, <1>2, <2>2, <2>3, <3>1 DEF Handed
    <3>. QED  BY <1>1, <1>2, <3>1 DEF Exhausted
  <2>5. FillInv'
    BY <1>1, <1>2, <2>1, <2>2, <2>4 DEF FillInv
  <2>. QED
    BY <1>1, <1>2, <1>5, <2>5 DEF LoopInv, OrderInv, AgreesWithDefinition
<1>6. CASE loop = "fill" /\ loop' = "done"
  <2>. DEFINE filled == Filled(existing, requested, range.start, range.end)
              map == ReconcilePorts(existing, requested, range.start, range.end)
  <2>1. ASSUME ~Exhausted
        PROVE  /\ ReconcilePortsOK(existing, requested, range.start, range.end)
               /\ result = map
    <3>1. /\ PinsValid(requested, range.start, range.end)
          /\ DOMAIN result = DOMAIN requested
          /\ \A u \in DOMAIN SettledPorts : result[u] = SettledPorts[u]
          /\ \A u \in Rest : result[u] \in Free /\ Paired(u, Rest, result[u], Free)
      BY <1>1, <1>3, <1>6, <2>1 DEF AgreeInv, LoopInv, FillInv, Handed, Rest
    <3>2. filled = InOrder(Rest, Free)
      BY DEF Filled, Rest, Free, SettledPorts
    <3>3. DOMAIN filled = Rest
      BY <3>1, <3>2 DEF InOrder
    <3>4. ASSUME NEW u \in Rest PROVE filled[u] = result[u]
      <4>1. filled[u] = CHOOSE p \in Free : Paired(u, Rest, p, Free)
        BY <3>2, <3>3 DEF InOrder
      <4>2. filled[u] \in Free /\ Paired(u, Rest, filled[u], Free)
        BY <3>1, <4>1
      <4>. QED  BY <3>1, <4>2, FillTypes, LowerCounts DEF Paired
    <3>5. ReconcilePortsOK(existing, requested, range.start, range.end)
      BY <1>1, <1>6, <3>1, <3>3 DEF ReconcilePortsOK, Rest, SettledPorts
    <3>6. map = [u \in DOMAIN requested |-> result[u]]
      BY <3>1, <3>4 DEF ReconcilePorts, Rest, SettledPorts
    <3>7. result = [u \in DOMAIN requested |-> result[u]]
      BY <3>1 DEF AgreeInv, RangeInv, TypeOK
    <3>. QED  BY <3>5, <3>6, <3>7
  <2>. QED
    BY <1>1, <1>2, <1>6, <2>1 DEF LoopInv, AgreesWithDefinition, Exhausted
<1>. QED  BY <1>4, <1>5, <1>6 DEF NextLoop

LEMMA StepAgreeInv == AgreeInv /\ [Next]_vars => AgreeInv'
<1>. SUFFICES ASSUME AgreeInv, [Next]_vars PROVE AgreeInv'
  OBVIOUS
<1>1. RangeInv'
  BY StepRangeInv DEF AgreeInv
<1>2. NoSharedPort'
  <2>1. SharingInv
    BY DEF AgreeInv, RangeInv, LoopInv, SharingInv, UsedCoversResult
  <2>. QED  BY <2>1, StepSharingInv DEF SharingInv
<1>3. CASE UNCHANGED vars
  BY <1>1, <1>2, <1>3
  DEF vars, AgreeInv, LoopInv, AgreesWithDefinition, OrderInv, PinInv, KeepLoopInv,
      FillInv, Handed, Exhausted, InRange, Pinned, KeptPorts, SettledPorts, Rest, Free
<1>4. CASE Next
  BY <1>1, <1>2, <1>4, PinAgree, KeepAgree, ScanAgree, TakeAgree, SkipAgree, FailAgree,
     NextLoopAgree
  DEF Next, AgreeInv
<1>. QED  BY <1>3, <1>4

LEMMA InitAgreeInv == Init => AgreeInv
<1>. SUFFICES ASSUME Init PROVE AgreeInv
  OBVIOUS
<1>1. TypeOK /\ range.start \in Int /\ range.end \in Int
  BY InitTypeOK, LoopAssumption DEF TypeOK
<1>2. /\ DOMAIN result = {} /\ used = {} /\ todo = DOMAIN requested
      /\ next = range.start
      /\ loop = IF range.start <= 0 \/ range.end < range.start THEN "error" ELSE "pin"
  BY DEF Init, EmptyMap
<1>3. RangeInv /\ NoSharedPort
  BY <1>1, <1>2 DEF RangeInv, CursorInv, AllocatesFromRange, NoSharedPort, Injective
<1>4. PinInv /\ OrderInv /\ used = PortsOf(result)
  BY <1>2 DEF PinInv, OrderInv, Pinned, PinnedBy, PortsOf
<1>5. LoopInv /\ AgreesWithDefinition
  BY <1>1, <1>2, <1>4 DEF LoopInv, AgreesWithDefinition, ReconcilePortsOK
<1>. QED  BY <1>3, <1>5 DEF AgreeInv

\* The three loops of ReconcilePorts, with their shared "used" set and cursor,
\* return an error or a map exactly when the definition in PortAllocator does,
\* and the same map: for all requests, allocations and ranges, but for the
\* wrap-around of the cursor.
THEOREM AlwaysAgrees == Spec => []AgreesWithDefinition
<1>1. AgreeInv => AgreesWithDefinition
  BY DEF AgreeInv
<1>. QED  BY <1>1, InitAgreeInv, StepAgreeInv, PTL DEF Spec

\* FixedPoint: the next reconcile with the same requests moves no port that
\* ReconcilePorts returned, and does not fail.
THEOREM AlwaysFixedPoint == Spec => []FixedPoint
<1>1. AgreeInv => FixedPoint
  <2>. SUFFICES ASSUME AgreeInv, loop = "done", ~Exhausted
                PROVE  /\ ReconcilePortsOK(result, requested, range.start, range.end)
                       /\ ReconcilePorts(result, requested, range.start, range.end) = result
    BY DEF FixedPoint
  <2>1. /\ DOMAIN requested \subseteq UID
        /\ ReconcilePortsOK(existing, requested, range.start, range.end)
        /\ result = ReconcilePorts(existing, requested, range.start, range.end)
    BY DEF AgreeInv, RangeInv, TypeOK, AgreesWithDefinition
  <2>. QED  BY <2>1, ReconcilePortsFixedPoint
<1>. QED  BY <1>1, InitAgreeInv, StepAgreeInv, PTL DEF Spec

=============================================================================
