----------------------- MODULE InstanceRefreshProofs -----------------------
(***************************************************************************)
(* The image tag of the Auto Scaling group and the refreshes it accounts   *)
(* for, for any number of machines, images, edits and faults.              *)
(***************************************************************************)
EXTENDS InstanceRefresh, FiniteSetTheorems, TLAPS

-----------------------------------------------------------------------------
(* The inductive invariant                                                 *)

\* What the manager knows at each of its calls. Nobody else creates the Auto
\* Scaling group or sets its tag: the answer it got earlier is still good.
Past == {"describe", "create", "update", "refreshes", "start", "tag", "status"}
Described == {"update", "refreshes", "start", "tag"}

JobInv ==
    /\ pc \in Past => template
    /\ pc = "create" => ~asg.exists /\ found.tag = NoImage
    /\ pc \in Described => asg.exists /\ found.tag = asg.tag
    /\ pc \in {"refreshes", "start"} => hash # NoImage /\ found.tag \notin {hash, NoImage}
    /\ pc = "tag" => hash # NoImage /\ found.tag # hash

\* Before the first change of the image there is one hash only.
FirstInv ==
    Len(asked) = 1 =>
        /\ hash \in {NoImage, asked[1]} /\ asg.tag \in {NoImage, asked[1]}
        /\ pc \notin {"refreshes", "start"}
        /\ \A i \in Image : started[i] = 0

\* How often the user had asked for i when he asked for the t-th time.
Asked(i, t) == Cardinality({k \in 1 .. t : asked[k] = i})

\* A refresh for i was started that no tag accounts for yet.
Pending(i) == IF pc = "tag" /\ asg.tag # NoImage /\ hash = i THEN 1 ELSE 0

\* The tag is the t-th image asked for, the running reconcile has the j-th.
Counted(t, j) ==
    /\ asg.tag # NoImage => t # 0 /\ asked[t] = asg.tag
    /\ pc # "idle" => j # 0 /\ asked[j] = hash
    /\ \A i \in Image : started[i] <= Asked(i, t) + faults + Pending(i)

CountInv ==
    /\ faults \in Nat
    /\ \E t \in 0 .. cache : \E j \in t .. cache : Counted(t, j)

\* Age and Onward, and what the machines in S run, for any sequence of images.
AgeIn(seq, i) == Max({0} \cup {k \in DOMAIN seq : seq[k] = i})
OnwardIn(seq) == \A j, k \in DOMAIN seq : seq[j] = seq[k] => j = k
In(seq, i) == \E k \in DOMAIN seq : seq[k] = i
NotBefore(seq, run, i, S) == \A m \in S : AgeIn(seq, run[m]) >= AgeIn(seq, i)

Reliable == DOMAIN runs \ (behind \cup refresh.left)

\* Beside what the tag says: once a refresh was started (or the group was found
\* without machines) it is true of the hash that is to become the tag.
ReachInv ==
    /\ \A m \in DOMAIN runs : In(asked, runs[m])
    /\ asg.tag # NoImage => In(asked, asg.tag)
    /\ pc # "idle" => In(asked, hash)
    /\ OnwardIn(asked) =>
          /\ asg.tag # NoImage => NotBefore(asked, runs, asg.tag, Reliable)
          /\ pc = "tag" /\ found.tag # NoImage => NotBefore(asked, runs, hash, Reliable)
          /\ pc = "update" /\ found.empty => NotBefore(asked, runs, hash, DOMAIN runs)

-----------------------------------------------------------------------------
(* Types                                                                   *)

LEMMA InitTypes == Init => TypeOK /\ JobInv
<1>. SUFFICES ASSUME Init PROVE TypeOK /\ JobInv
  OBVIOUS
<1>1. NoImage \in Image /\ FirstImage \in Image
  BY RefreshAssumption DEF Image, NoImage
<1>2. asked \in Seq(Image) /\ cache \in DOMAIN asked
  BY <1>1 DEF Init
<1>. QED  BY <1>1, <1>2 DEF Init, TypeOK, JobInv, Past, Described, Idle

LEMMA TypesInductive == TypeOK /\ JobInv /\ [Next]_vars => TypeOK' /\ JobInv'
<1>. SUFFICES ASSUME TypeOK, JobInv, [Next]_vars PROVE TypeOK' /\ JobInv'
  OBVIOUS
<1>. USE DEF TypeOK
<1>0. NoImage \in Image
  BY RefreshAssumption DEF Image, NoImage
<1>h. asked[cache] \in Image /\ asked # << >> /\ image \in Image
  BY DEF image
<1>1. ASSUME NEW i \in Image, EditImage(i) PROVE TypeOK' /\ JobInv'
  BY <1>1 DEF EditImage, JobInv, job, aws, history
<1>2. CASE Sync
  BY <1>h, <1>2 DEF Sync, JobInv, job, aws, history
<1>3. ASSUME NEW m \in Machine, Launch(m) PROVE TypeOK' /\ JobInv'
  BY <1>h, <1>3 DEF Launch, Boot, JobInv, job, history
<1>4. ASSUME NEW m \in Machine, Replace(m) PROVE TypeOK' /\ JobInv'
  BY <1>h, <1>4 DEF Replace, Boot, JobInv, job, history
<1>5. CASE RefreshDone
  BY <1>5 DEF RefreshDone, Idle, JobInv, job, history
<1>6. ASSUME NEW m \in Machine, Lose(m) PROVE TypeOK' /\ JobInv'
  BY <1>6 DEF Lose, Fault, JobInv, job, history
<1>7. CASE RefreshFails
  BY <1>7 DEF RefreshFails, Fault, Idle, JobInv, job, history
<1>8. CASE OtherRefresh
  BY <1>8 DEF OtherRefresh, Fault, JobInv, job, history
<1>9. CASE Begin
  BY <1>h, <1>9 DEF Begin, Goto, JobInv, Past, Described, aws, history
<1>10. CASE EnsureLaunchTemplate
  BY <1>10 DEF EnsureLaunchTemplate, Goto, JobInv, Past, Described, history
<1>11. CASE DescribeGroup
  BY <1>11 DEF DescribeGroup, Goto, JobInv, Past, Described, aws, history
<1>12. CASE CreateGroup
  BY <1>0, <1>12 DEF CreateGroup, Goto, JobInv, Past, Described, history
<1>13. CASE UpdateGroup
  BY <1>13 DEF UpdateGroup, AfterUpdate, Goto, JobInv, Past, Described, aws, history
<1>14. CASE HasActiveInstanceRefresh
  BY <1>14 DEF HasActiveInstanceRefresh, Goto, JobInv, Past, Described, aws, history
<1>15. CASE StartInstanceRefresh
  BY <1>15 DEF StartInstanceRefresh, Goto, JobInv, Past, Described
<1>16. CASE RefreshInProgress
  BY <1>16 DEF RefreshInProgress, Goto, JobInv, Past, Described, aws, history
<1>17. CASE SetTag
  BY <1>17 DEF SetTag, Goto, JobInv, Past, Described
<1>18. CASE PatchStatus
  BY <1>18 DEF PatchStatus, Goto, JobInv, Past, Described, aws, history
<1>19. CASE CallError
  BY <1>19 DEF CallError, Fault, Goto, JobInv, Past, Described, aws, history
<1>20. CASE Crash
  <2>1. /\ cache' = Len(asked) /\ queued' = TRUE /\ unseen' = FALSE /\ pc' = "idle"
        /\ UNCHANGED <<asked, hash, found, template, asg, runs, refresh, behind, started>>
    BY <1>20 DEF Crash, Goto, aws, history
  <2>2. Len(asked) \in DOMAIN asked
    BY <1>h
  <2>3. TypeOK'
    BY <2>1, <2>2
  <2>. QED  BY <2>1, <2>3 DEF JobInv, Past, Described
<1>21. CASE UNCHANGED vars
  BY <1>21 DEF vars, JobInv, job, aws, history
<1>. QED
  BY <1>1, <1>2, <1>3, <1>4, <1>5, <1>6, <1>7, <1>8, <1>9, <1>10, <1>11, <1>12, <1>13,
     <1>14, <1>15, <1>16, <1>17, <1>18, <1>19, <1>20, <1>21
  DEF Next, ManagerNext, AwsNext, FaultNext

LEMMA AlwaysTypes == Spec => [](TypeOK /\ JobInv)
BY InitTypes, TypesInductive, PTL DEF Spec

\* No interleaving of manager, AWS and faults leaves an Auto Scaling group
\* without launch template, or a tag, machines or a refresh without group.
THEOREM AlwaysTypeOK == Spec => []TypeOK
BY AlwaysTypes, PTL

-----------------------------------------------------------------------------
(* The steps by what they leave alone                                      *)

\* Informer, instances and refreshes.
Outside ==
    \/ Sync
    \/ \E m \in Machine : Launch(m) \/ Replace(m) \/ Lose(m)
    \/ RefreshDone \/ RefreshFails \/ OtherRefresh

\* Calls that do not concern tag and counts.
Passing ==
    \/ EnsureLaunchTemplate \/ DescribeGroup \/ UpdateGroup \/ HasActiveInstanceRefresh
    \/ RefreshInProgress \/ PatchStatus \/ CallError \/ Crash

LEMMA OutsideFrame ==
    ASSUME Outside
    PROVE  UNCHANGED <<asked, pc, hash, found, unseen, template, asg, started>>
BY DEF Outside, Sync, Launch, Replace, Lose, RefreshDone, RefreshFails, OtherRefresh, job,
       aws, history

LEMMA PassingFrame ==
    ASSUME Passing
    PROVE  UNCHANGED <<asked, hash, asg, runs, refresh, behind, started>>
BY DEF Passing, EnsureLaunchTemplate, DescribeGroup, UpdateGroup, HasActiveInstanceRefresh,
       RefreshInProgress, PatchStatus, CallError, Crash, aws, history

LEMMA StepKinds ==
    ASSUME [Next]_vars
    PROVE  \/ \E i \in Image : EditImage(i)
           \/ Outside \/ Passing
           \/ Begin \/ CreateGroup \/ StartInstanceRefresh \/ SetTag
           \/ UNCHANGED vars
BY DEF Next, ManagerNext, AwsNext, FaultNext, Outside, Passing

\* Where the manager goes on.
LEMMA PassingCalls ==
    ASSUME TypeOK, JobInv, Passing
    PROVE  /\ pc' = "start" => pc = "refreshes"
           /\ pc' = "refreshes" =>
                 /\ pc = "update" /\ found' = found /\ ~found.empty
                 /\ hash # NoImage /\ found.tag \notin {hash, NoImage}
           /\ pc' = "tag" => /\ pc = "update" /\ found' = found
                             /\ found.tag = NoImage \/ found.empty
           /\ pc' # "idle" => pc # "idle"
           /\ pc' = "update" => pc = "describe" /\ found' = [tag |-> asg.tag, empty |-> DOMAIN runs = {}]
BY DEF TypeOK, JobInv, Passing, EnsureLaunchTemplate, DescribeGroup, UpdateGroup, AfterUpdate,
       HasActiveInstanceRefresh, RefreshInProgress, PatchStatus, CallError, Crash, Goto

-----------------------------------------------------------------------------
(* No refresh before the first change                                      *)

LEMMA InitFirst == Init => FirstInv
BY DEF Init, FirstInv

LEMMA FirstInductive == TypeOK /\ JobInv /\ FirstInv /\ [Next]_vars => FirstInv'
<1>. SUFFICES ASSUME TypeOK, JobInv, FirstInv, [Next]_vars, Len(asked') = 1
              PROVE  FirstInv'
  BY DEF FirstInv
<1>1. ASSUME NEW i \in Image, EditImage(i) PROVE FALSE
  BY <1>1 DEF EditImage, TypeOK
<1>2. asked' = asked
  BY <1>1, StepKinds, OutsideFrame, PassingFrame
  DEF Begin, CreateGroup, StartInstanceRefresh, SetTag, vars
<1>3. /\ hash \in {NoImage, asked[1]} /\ asg.tag \in {NoImage, asked[1]}
      /\ pc \notin {"refreshes", "start"}
      /\ \A i \in Image : started[i] = 0
      /\ asked[cache] = asked[1]
  BY <1>2 DEF FirstInv, TypeOK
<1>4. CASE Outside \/ UNCHANGED vars
  BY <1>3, <1>4, OutsideFrame DEF FirstInv, vars, job, aws, history
<1>5. CASE Passing
  <2>1. pc' \notin {"refreshes", "start"}
    BY <1>3, <1>5, PassingCalls DEF JobInv, Described
  <2>. QED  BY <1>3, <1>5, <2>1, PassingFrame DEF FirstInv
<1>6. CASE Begin
  BY <1>3, <1>6 DEF Begin, Goto, FirstInv, aws, history
<1>7. CASE CreateGroup
  BY <1>3, <1>7 DEF CreateGroup, Goto, FirstInv, history
<1>8. CASE SetTag
  BY <1>3, <1>8 DEF SetTag, Goto, FirstInv, TypeOK
<1>9. CASE StartInstanceRefresh
  BY <1>3, <1>9 DEF StartInstanceRefresh
<1>. QED  BY <1>1, <1>4, <1>5, <1>6, <1>7, <1>8, <1>9, StepKinds

\* Creating the group, however often it is interrupted, starts no refresh.
THEOREM AlwaysOnlyChangesRefresh == Spec => []OnlyChangesRefresh
<1>1. FirstInv => OnlyChangesRefresh
  BY DEF FirstInv, OnlyChangesRefresh
<1>. QED  BY <1>1, AlwaysTypes, InitFirst, FirstInductive, PTL DEF Spec

-----------------------------------------------------------------------------
(* One refresh per image                                                   *)

LEMMA AskedCounts ==
    ASSUME NEW i, NEW t \in Nat, NEW j \in Nat, t <= j
    PROVE  /\ Asked(i, t) \in Nat /\ Asked(i, j) \in Nat /\ Asked(i, t) <= Asked(i, j)
           /\ t < j /\ asked[j] = i => Asked(i, t) + 1 <= Asked(i, j)
<1>. DEFINE S == {k \in 1 .. t : asked[k] = i}
            T == {k \in 1 .. j : asked[k] = i}
<1>1. IsFiniteSet(1 .. t) /\ IsFiniteSet(1 .. j)
  BY FS_Interval
<1>2. S \in SUBSET (1 .. t) /\ T \in SUBSET (1 .. j) /\ S \in SUBSET T
  OBVIOUS
<1>3. t < j /\ asked[j] = i => j \in T /\ j \notin S
  OBVIOUS
<1>4. Asked(i, t) = Cardinality(S) /\ Asked(i, j) = Cardinality(T)
  BY DEF Asked
<1>. HIDE DEF S, T
<1>5. IsFiniteSet(S) /\ IsFiniteSet(T)
  BY <1>1, <1>2, FS_Subset
<1>6. Cardinality(S) \in Nat /\ Cardinality(T) \in Nat
  BY <1>5, FS_CardinalityType
<1>7. Cardinality(S) <= Cardinality(T)
  BY <1>2, <1>5, FS_Subset
<1>8. ASSUME t < j, asked[j] = i PROVE Cardinality(S) + 1 <= Cardinality(T)
  <2>1. S \cup {j} \in SUBSET T
    BY <1>2, <1>3, <1>8
  <2>2. /\ IsFiniteSet(S \cup {j}) /\ Cardinality(S \cup {j}) = Cardinality(S) + 1
    BY <1>3, <1>5, <1>8, FS_AddElement
  <2>3. Cardinality(S \cup {j}) <= Cardinality(T)
    BY <1>5, <2>1, FS_Subset
  <2>. QED  BY <2>2, <2>3
<1>. QED  BY <1>4, <1>6, <1>7, <1>8

\* Between two refreshes for an image another one was asked for: a refresh that
\* is not accounted for by the t-th is by the j-th.
LEMMA PendingIsLater ==
    ASSUME TypeOK, JobInv, NEW t \in 0 .. cache, NEW j \in t .. cache, Counted(t, j),
           NEW i \in Image
    PROVE  /\ Asked(i, t) \in Nat /\ Asked(i, j) \in Nat
           /\ Asked(i, t) + Pending(i) <= Asked(i, j)
<1>1. cache \in Nat /\ t \in Nat /\ j \in Nat /\ t <= j
  BY DEF TypeOK
<1>2. /\ Asked(i, t) \in Nat /\ Asked(i, j) \in Nat /\ Asked(i, t) <= Asked(i, j)
      /\ t < j /\ asked[j] = i => Asked(i, t) + 1 <= Asked(i, j)
  BY <1>1, AskedCounts
<1>3. CASE Pending(i) = 0
  BY <1>2, <1>3
<1>4. CASE Pending(i) # 0
  <2>1. pc = "tag" /\ asg.tag # NoImage /\ hash = i /\ Pending(i) = 1
    BY <1>4 DEF Pending
  <2>2. asked[t] = asg.tag /\ asked[j] = i /\ asg.tag # i
    BY <2>1 DEF Counted, JobInv, Described
  <2>3. t < j
    BY <1>1, <2>2
  <2>. QED  BY <1>2, <2>1, <2>2, <2>3
<1>. QED  BY <1>3, <1>4

LEMMA InitCount == Init => CountInv
<1>. SUFFICES ASSUME Init PROVE CountInv
  OBVIOUS
<1>1. cache = 1 /\ faults = 0 /\ asg.tag = NoImage /\ pc = "idle"
      /\ \A i \in Image : started[i] = 0
  BY DEF Init
<1>2. Counted(0, 0)
  <2>1. ASSUME NEW i \in Image PROVE started[i] <= Asked(i, 0) + faults + Pending(i)
    <3>1. Asked(i, 0) \in Nat /\ Pending(i) = 0
      BY <1>1, AskedCounts DEF Pending
    <3>. QED  BY <1>1, <3>1
  <2>. QED  BY <1>1, <2>1 DEF Counted
<1>. QED  BY <1>1, <1>2 DEF CountInv

LEMMA CountInductive == TypeOK /\ JobInv /\ CountInv /\ [Next]_vars /\ TypeOK' => CountInv'
<1>. SUFFICES ASSUME TypeOK, JobInv, CountInv, [Next]_vars, TypeOK' PROVE CountInv'
  OBVIOUS
<1>1. PICK t \in 0 .. cache : \E j \in t .. cache : Counted(t, j)
  BY DEF CountInv
<1>2. PICK j \in t .. cache : Counted(t, j)
  BY <1>1
<1>3. /\ cache \in Nat /\ t \in Nat /\ j \in Nat /\ t <= j /\ j <= cache
      /\ cache <= Len(asked) /\ Len(asked) \in Nat /\ faults \in Nat
      /\ \A i \in Image : /\ Asked(i, t) \in Nat /\ Pending(i) \in 0 .. 1
                          /\ started[i] \in Nat
                          /\ started[i] <= Asked(i, t) + faults + Pending(i)
      /\ asg.tag # NoImage => t # 0 /\ asked[t] = asg.tag
      /\ pc # "idle" => j # 0 /\ asked[j] = hash
  <2>1. /\ cache \in Nat /\ cache <= Len(asked) /\ Len(asked) \in Nat /\ faults \in Nat
        /\ t \in Nat /\ j \in Nat /\ t <= j /\ j <= cache
    <3>0. asked \in Seq(Image) /\ cache \in DOMAIN asked
      BY DEF TypeOK
    <3>1. Len(asked) \in Nat /\ cache \in 1 .. Len(asked) /\ faults \in Nat
      BY <3>0 DEF CountInv
    <3>. QED  BY <3>1
  <2>2. ASSUME NEW i \in Image
        PROVE  /\ Asked(i, t) \in Nat /\ Pending(i) \in 0 .. 1 /\ started[i] \in Nat
               /\ started[i] <= Asked(i, t) + faults + Pending(i)
    <3>1. Asked(i, t) \in Nat
      BY <2>1, AskedCounts
    <3>2. Pending(i) \in 0 .. 1
      BY DEF Pending
    <3>3. started[i] \in Nat
      BY DEF TypeOK
    <3>. QED  BY <1>2, <3>1, <3>2, <3>3 DEF Counted
  <2>. QED  BY <1>2, <2>1, <2>2 DEF Counted
<1>4. /\ faults' \in {faults, faults + 1} /\ cache' \in {cache, Len(asked)}
  BY <1>3, StepKinds DEF EditImage, Outside, Passing, Begin, CreateGroup, StartInstanceRefresh,
         SetTag, vars, Sync, Launch, Replace, Lose, RefreshDone, RefreshFails, OtherRefresh,
         EnsureLaunchTemplate, DescribeGroup, UpdateGroup, HasActiveInstanceRefresh,
         RefreshInProgress, PatchStatus, CallError, Crash, Fault
<1>5. faults' \in Nat /\ cache' \in Nat /\ cache <= cache' /\ faults <= faults'
  BY <1>3, <1>4
<1>6. ASSUME NEW u \in 0 .. cache', NEW k \in u .. cache', Counted(u, k)' PROVE CountInv'
  BY <1>5, <1>6 DEF CountInv
\* The same two images, nothing started.
<1>7. ASSUME UNCHANGED <<asg, started>>,
             \A k \in 1 .. cache : asked'[k] = asked[k],
             pc' # "idle" => pc # "idle" /\ hash' = hash,
             \A i \in Image : faults + Pending(i) <= faults' + Pending(i)'
      PROVE  CountInv'
  <2>1. \A i : Asked(i, t)' = Asked(i, t)
    <3>. SUFFICES ASSUME NEW i
                  PROVE  {k \in 1 .. t : asked'[k] = i} = {k \in 1 .. t : asked[k] = i}
      BY DEF Asked
    <3>. QED  BY <1>3, <1>7
  <2>2. asg.tag # NoImage => asked'[t] = asked[t]
    BY <1>3, <1>7
  <2>3. pc # "idle" => asked'[j] = asked[j]
    BY <1>3, <1>7
  <2>4. \A i \in Image : Pending(i)' \in 0 .. 1
    BY DEF Pending
  <2>5. \A i \in Image : started'[i] <= Asked(i, t)' + faults' + Pending(i)'
    <3>. TAKE i \in Image
    <3>1. /\ started'[i] = started[i] /\ Asked(i, t)' = Asked(i, t) /\ Pending(i)' \in 0 .. 1
          /\ faults + Pending(i) <= faults' + Pending(i)'
      BY <1>7, <2>1, <2>4
    <3>2. /\ Asked(i, t) \in Nat /\ Pending(i) \in 0 .. 1 /\ started[i] \in Nat
          /\ started[i] <= Asked(i, t) + faults + Pending(i)
      BY <1>3
    <3>3. faults \in Nat /\ faults' \in Nat
      BY <1>3, <1>5
    <3>. QED  BY <3>1, <3>2, <3>3
  <2>6. Counted(t, j)'
    BY <1>3, <1>7, <2>2, <2>3, <2>5 DEF Counted
  <2>. QED  BY <1>3, <1>5, <1>6, <2>6
<1>8. ASSUME NEW i \in Image, EditImage(i) PROVE CountInv'
  <2>1. \A k \in 1 .. cache : asked'[k] = asked[k]
    <3>1. asked' = Append(asked, i) /\ asked \in Seq(Image)
      BY <1>8 DEF EditImage, TypeOK
    <3>2. \A k \in 1 .. Len(asked) : asked'[k] = asked[k]
      BY <3>1
    <3>. QED  BY <1>3, <3>2
  <2>2. UNCHANGED <<pc, hash, asg, started, faults>>
    BY <1>8 DEF EditImage, job, aws, history
  <2>3. \A c \in Image : faults + Pending(c) <= faults' + Pending(c)'
    <3>1. \A c \in Image : Pending(c)' = Pending(c)
      BY <2>2 DEF Pending
    <3>. QED  BY <1>3, <2>2, <3>1
  <2>. QED  BY <1>7, <2>1, <2>2, <2>3
<1>9. CASE Outside
  <2>1. UNCHANGED <<asked, pc, hash, asg, started>>
    BY <1>9, OutsideFrame
  <2>2. \A i \in Image : faults + Pending(i) <= faults' + Pending(i)'
    <3>1. \A i \in Image : Pending(i)' = Pending(i)
      BY <2>1 DEF Pending
    <3>. QED  BY <1>3, <1>5, <3>1
  <2>. QED  BY <1>7, <2>1, <2>2
<1>10. CASE Passing
  <2>1. UNCHANGED <<asked, hash, asg, started>> /\ (pc' # "idle" => pc # "idle")
    BY <1>10, PassingFrame, PassingCalls
  <2>2. pc = "tag" => faults' = faults + 1
    BY <1>10 DEF Passing, EnsureLaunchTemplate, DescribeGroup, UpdateGroup,
                 HasActiveInstanceRefresh, RefreshInProgress, PatchStatus, CallError, Crash,
                 Fault
  <2>3. \A i \in Image : faults + Pending(i) <= faults' + Pending(i)'
    BY <1>3, <1>5, <2>1, <2>2 DEF Pending
  <2>. QED  BY <1>7, <2>1, <2>3
<1>11. CASE UNCHANGED vars
  <2>1. UNCHANGED <<asked, pc, hash, asg, started, faults>>
    BY <1>11 DEF vars, job, aws, history
  <2>2. \A i \in Image : faults + Pending(i) <= faults' + Pending(i)'
    <3>1. \A i \in Image : Pending(i)' = Pending(i)
      BY <2>1 DEF Pending
    <3>. QED  BY <1>3, <2>1, <3>1
  <2>. QED  BY <1>7, <2>1, <2>2
<1>12. CASE Begin
  <2>1. /\ UNCHANGED <<asked, cache, asg, started, faults>> /\ pc = "idle" /\ pc' = "template"
        /\ hash' = asked[cache]
    BY <1>12 DEF Begin, Goto, aws, history
  <2>2. cache # 0
    <3>1. asked \in Seq(Image) /\ cache \in DOMAIN asked
      BY DEF TypeOK
    <3>. QED  BY <3>1
  <2>3. Counted(t, cache)'
    BY <1>3, <2>1, <2>2 DEF Counted, Asked, Pending
  <2>. QED  BY <1>3, <1>6, <2>1, <2>3
<1>13. CASE CreateGroup
  <2>1. /\ UNCHANGED <<asked, cache, hash, started, faults>> /\ pc = "create"
        /\ asg.tag = NoImage /\ asg'.tag = NoImage
    BY <1>13 DEF CreateGroup, history, JobInv, TypeOK
  <2>2. \A i \in Image : Pending(i) = 0 /\ Pending(i)' = 0
    BY <2>1 DEF Pending
  <2>3. Counted(t, j)'
    BY <1>3, <2>1, <2>2 DEF Counted, Asked
  <2>. QED  BY <1>3, <1>6, <2>1, <2>3
<1>14. CASE StartInstanceRefresh
  <2>1. /\ UNCHANGED <<asked, cache, hash, asg, faults>> /\ pc = "start" /\ pc' = "tag"
        /\ started' = [started EXCEPT ![hash] = started[hash] + 1]
    BY <1>14 DEF StartInstanceRefresh, Goto
  <2>2. asg.tag # NoImage /\ hash \in Image
    BY <2>1 DEF JobInv, Described, TypeOK
  <2>3. \A i \in Image : /\ Pending(i) = 0
                         /\ Pending(i)' = IF i = hash THEN 1 ELSE 0
                         /\ started'[i] = started[i] + IF i = hash THEN 1 ELSE 0
    <3>1. \A i \in Image : Pending(i) = 0 /\ Pending(i)' = IF i = hash THEN 1 ELSE 0
      BY <2>1, <2>2 DEF Pending
    <3>2. started \in [Image -> Nat]
      BY DEF TypeOK
    <3>3. \A i \in Image : started'[i] = started[i] + IF i = hash THEN 1 ELSE 0
      BY <2>1, <2>2, <3>2
    <3>. QED  BY <3>1, <3>3
  <2>4. \A i \in Image : Asked(i, t)' = Asked(i, t)
    BY <2>1 DEF Asked
  <2>5. \A i \in Image : started'[i] <= Asked(i, t)' + faults' + Pending(i)'
    BY <1>3, <2>1, <2>3, <2>4
  <2>6. Counted(t, j)'
    BY <1>3, <2>1, <2>5 DEF Counted
  <2>. QED  BY <1>3, <1>6, <2>1, <2>6
<1>15. CASE SetTag
  <2>1. /\ UNCHANGED <<asked, cache, hash, started, faults>> /\ pc = "tag" /\ pc' = "status"
        /\ asg'.tag = hash
    BY <1>15 DEF SetTag, Goto, TypeOK
  <2>2. ASSUME NEW i \in Image PROVE started'[i] <= Asked(i, j)' + faults' + Pending(i)'
    <3>1. Asked(i, j) \in Nat /\ Asked(i, t) + Pending(i) <= Asked(i, j)
      BY <1>2, PendingIsLater
    <3>2. Asked(i, j)' = Asked(i, j) /\ Pending(i)' = 0
      BY <2>1 DEF Asked, Pending
    <3>3. /\ faults \in Nat /\ started[i] \in Nat /\ Asked(i, t) \in Nat /\ Pending(i) \in 0 .. 1
          /\ started[i] <= Asked(i, t) + faults + Pending(i)
      BY <1>3
    <3>4. started'[i] = started[i] /\ faults' = faults
      BY <2>1
    <3>. QED  BY <3>1, <3>2, <3>3, <3>4
  <2>3. Counted(j, j)'
    BY <1>3, <2>1, <2>2 DEF Counted
  <2>. QED  BY <1>3, <1>6, <2>1, <2>3
<1>. QED
  BY <1>8, <1>9, <1>10, <1>11, <1>12, <1>13, <1>14, <1>15, StepKinds

\* The manager starts no more refreshes for an image than the user asked for it,
\* but for failed calls and crashes.
THEOREM AlwaysOneRefreshPerImage == Spec => []OneRefreshPerImage
<1>1. ASSUME TypeOK, JobInv, CountInv PROVE OneRefreshPerImage
  <2>1. PICK t \in 0 .. cache : \E j \in t .. cache : Counted(t, j)
    BY <1>1 DEF CountInv
  <2>2. PICK j \in t .. cache : Counted(t, j)
    BY <2>1
  <2>3. ASSUME NEW i \in Image
        PROVE  started[i] <= Cardinality({k \in DOMAIN asked : asked[k] = i}) + faults
    <3>1. /\ Asked(i, t) \in Nat /\ Asked(i, j) \in Nat
          /\ Asked(i, t) + Pending(i) <= Asked(i, j)
      BY <1>1, <2>2, PendingIsLater
    <3>2. j \in Nat /\ Len(asked) \in Nat /\ j <= Len(asked)
      BY <1>1 DEF TypeOK
    <3>3. Asked(i, Len(asked)) \in Nat /\ Asked(i, j) <= Asked(i, Len(asked))
      BY <3>2, AskedCounts
    <3>4. DOMAIN asked = 1 .. Len(asked)
      BY <1>1 DEF TypeOK
    <3>5. Asked(i, Len(asked)) = Cardinality({k \in DOMAIN asked : asked[k] = i})
      BY <3>4 DEF Asked
    <3>6. /\ started[i] \in Nat /\ faults \in Nat /\ Pending(i) \in 0 .. 1
          /\ started[i] <= Asked(i, t) + faults + Pending(i)
      BY <1>1, <2>2 DEF TypeOK, CountInv, Counted, Pending
    <3>. QED  BY <3>1, <3>3, <3>5, <3>6
  <2>. QED  BY <2>3 DEF OneRefreshPerImage
<1>2. Init => CountInv
  BY InitCount
<1>3. TypeOK /\ JobInv /\ CountInv /\ [Next]_vars /\ TypeOK' => CountInv'
  BY CountInductive
<1>. QED  BY <1>1, <1>2, <1>3, AlwaysTypes, PTL DEF Spec

-----------------------------------------------------------------------------
(* The tag tells the truth                                                 *)

\* When no image comes twice, the age of one is its position.
LEMMA AgeIsPosition ==
    ASSUME NEW seq \in Seq(Image), OnwardIn(seq), NEW n \in DOMAIN seq
    PROVE  AgeIn(seq, seq[n]) = n
<1>1. {0} \cup {k \in DOMAIN seq : seq[k] = seq[n]} = {0, n}
  BY DEF OnwardIn
<1>2. n \in Nat /\ n >= 0
  OBVIOUS
<1>3. Max({0, n}) = n
  BY <1>2 DEF Max
<1>. QED  BY <1>1, <1>3 DEF AgeIn

\* The last image is the youngest: what an instance boots with.
LEMMA LastIsYoungest ==
    ASSUME NEW seq \in Seq(Image), OnwardIn(seq), NEW i, In(seq, i)
    PROVE  AgeIn(seq, seq[Len(seq)]) >= AgeIn(seq, i)
<1>1. PICK n \in DOMAIN seq : seq[n] = i
  BY DEF In
<1>2. Len(seq) \in DOMAIN seq /\ n \in Int /\ Len(seq) \in Int /\ n <= Len(seq)
  BY <1>1
<1>3. AgeIn(seq, seq[Len(seq)]) = Len(seq) /\ AgeIn(seq, i) = n
  BY <1>1, <1>2, AgeIsPosition
<1>. QED  BY <1>2, <1>3

\* Another change of the image leaves the order of the earlier ones alone.
LEMMA AppendKeepsAge ==
    ASSUME NEW seq \in Seq(Image), NEW i \in Image
    PROVE  LET more == Append(seq, i) IN
           /\ \A x : In(seq, x) => In(more, x)
           /\ OnwardIn(more) =>
                 OnwardIn(seq) /\ \A x : In(seq, x) => AgeIn(more, x) = AgeIn(seq, x)
<1>. DEFINE more == Append(seq, i)
<1>1. /\ more \in Seq(Image) /\ DOMAIN seq \subseteq DOMAIN more
      /\ \A k \in DOMAIN seq : more[k] = seq[k]
  OBVIOUS
<1>. HIDE DEF more
<1>2. \A x : In(seq, x) => In(more, x)
  BY <1>1 DEF In
<1>3. ASSUME OnwardIn(more) PROVE OnwardIn(seq)
  BY <1>1, <1>3 DEF OnwardIn
<1>4. ASSUME OnwardIn(more), NEW x, In(seq, x) PROVE AgeIn(more, x) = AgeIn(seq, x)
  <2>1. PICK n \in DOMAIN seq : seq[n] = x
    BY <1>4 DEF In
  <2>2. AgeIn(seq, x) = n
    BY <1>3, <1>4, <2>1, AgeIsPosition
  <2>3. AgeIn(more, x) = n
    BY <1>1, <1>4, <2>1, AgeIsPosition
  <2>. QED  BY <2>2, <2>3
<1>. QED  BY <1>2, <1>3, <1>4 DEF more

\* Machines that are as before or booted by now do not fall behind.
LEMMA BootedNotBefore ==
    ASSUME NEW seq \in Seq(Image), OnwardIn(seq), NEW i, In(seq, i),
           NEW run, NEW S, NotBefore(seq, run, i, S), NEW next, NEW T,
           \A m \in T : next[m] = seq[Len(seq)] \/ (m \in S /\ next[m] = run[m])
    PROVE  NotBefore(seq, next, i, T)
BY LastIsYoungest DEF NotBefore

LEMMA InitReach == Init => ReachInv
<1>. SUFFICES ASSUME Init PROVE ReachInv
  OBVIOUS
<1>1. DOMAIN runs = {} /\ asg.tag = NoImage /\ pc = "idle"
  BY DEF Init
<1>. QED  BY <1>1 DEF ReachInv

LEMMA EditReach ==
    ASSUME TypeOK, ReachInv, NEW i \in Image, EditImage(i)
    PROVE  ReachInv'
<1>1. asked' = Append(asked, i) /\ UNCHANGED <<pc, hash, found, asg, runs, refresh, behind>>
  BY DEF EditImage, job, aws, history
<1>2. asked \in Seq(Image)
  BY DEF TypeOK
<1>3. \A x : In(asked, x) => In(asked', x)
  BY <1>1, <1>2, AppendKeepsAge
<1>4. OnwardIn(asked') =>
        OnwardIn(asked) /\ \A x : In(asked, x) => AgeIn(asked', x) = AgeIn(asked, x)
  BY <1>1, <1>2, AppendKeepsAge
<1>5. ASSUME OnwardIn(asked'), NEW x, In(asked, x), NEW S \in SUBSET DOMAIN runs,
             NotBefore(asked, runs, x, S)
      PROVE  NotBefore(asked', runs, x, S)
  BY <1>4, <1>5 DEF NotBefore, ReachInv
<1>6. Reliable \in SUBSET DOMAIN runs /\ Reliable' = Reliable
  BY <1>1 DEF Reliable
<1>7. ASSUME OnwardIn(asked')
      PROVE  /\ asg.tag # NoImage => NotBefore(asked', runs, asg.tag, Reliable)
             /\ pc = "tag" /\ found.tag # NoImage => NotBefore(asked', runs, hash, Reliable)
             /\ pc = "update" /\ found.empty => NotBefore(asked', runs, hash, DOMAIN runs)
  BY <1>4, <1>5, <1>6, <1>7 DEF ReachInv
<1>. QED  BY <1>1, <1>3, <1>6, <1>7 DEF ReachInv

\* Instances come and go, refreshes begin and end.
LEMMA OutsideReach ==
    ASSUME TypeOK, JobInv, ReachInv, Outside
    PROVE  ReachInv'
<1>1. UNCHANGED <<asked, pc, hash, found, asg>>
  BY OutsideFrame
<1>2. asked \in Seq(Image) /\ asked # << >> /\ image = asked[Len(asked)]
  BY DEF TypeOK, image
<1>3. In(asked, image)
  BY <1>2 DEF In
<1>. DEFINE BootedOnly ==
              /\ \A m \in DOMAIN runs' :
                    runs'[m] = image \/ (m \in DOMAIN runs /\ runs'[m] = runs[m])
              /\ \A m \in Reliable' :
                    runs'[m] = image \/ (m \in Reliable /\ runs'[m] = runs[m])
<1>4. BootedOnly
  <2>1. ASSUME NEW m \in Machine, Launch(m) PROVE BootedOnly
    BY <2>1 DEF Launch, Boot, Reliable, history
  <2>2. ASSUME NEW m \in Machine, Replace(m) PROVE BootedOnly
    BY <2>2 DEF Replace, Boot, Reliable, TypeOK
  <2>3. ASSUME NEW m \in Machine, Lose(m) PROVE BootedOnly
    BY <2>3 DEF Lose, Reliable, TypeOK
  <2>4. CASE Sync \/ RefreshDone \/ RefreshFails \/ OtherRefresh
    BY <2>4 DEF Sync, RefreshDone, RefreshFails, OtherRefresh, Idle, Reliable, aws, history
  <2>. QED  BY <2>1, <2>2, <2>3, <2>4 DEF Outside
<1>5. \A m \in DOMAIN runs' : In(asked, runs'[m])
  BY <1>3, <1>4 DEF ReachInv
<1>6. ASSUME OnwardIn(asked)
      PROVE  /\ asg.tag # NoImage => NotBefore(asked, runs', asg.tag, Reliable')
             /\ pc = "tag" /\ found.tag # NoImage => NotBefore(asked, runs', hash, Reliable')
             /\ pc = "update" /\ found.empty => NotBefore(asked, runs', hash, DOMAIN runs')
  BY <1>2, <1>4, <1>6, BootedNotBefore DEF ReachInv
<1>. QED  BY <1>1, <1>5, <1>6 DEF ReachInv

LEMMA ReachInductive == TypeOK /\ JobInv /\ ReachInv /\ [Next]_vars => ReachInv'
<1>. SUFFICES ASSUME TypeOK, JobInv, ReachInv, [Next]_vars PROVE ReachInv'
  OBVIOUS
<1>1. asked \in Seq(Image) /\ asked # << >> /\ cache \in DOMAIN asked
  BY DEF TypeOK
\* Steps that leave images and machines alone.
<1>2. ASSUME UNCHANGED <<asked, runs, refresh, behind, asg>>,
             pc' # "idle" => In(asked, hash'),
             OnwardIn(asked) /\ pc' = "tag" /\ found'.tag # NoImage =>
                 NotBefore(asked, runs, hash', Reliable),
             OnwardIn(asked) /\ pc' = "update" /\ found'.empty =>
                 NotBefore(asked, runs, hash', DOMAIN runs)
      PROVE  ReachInv'
  <2>1. Reliable' = Reliable
    BY <1>2 DEF Reliable
  <2>. QED  BY <1>2, <2>1 DEF ReachInv
<1>3. CASE Passing
  <2>1. UNCHANGED <<asked, hash, asg, runs, refresh, behind>>
    BY <1>3, PassingFrame
  <2>2. /\ pc' # "idle" => pc # "idle"
        /\ pc' = "tag" => /\ pc = "update" /\ found' = found
                          /\ found.tag = NoImage \/ found.empty
        /\ pc' = "update" => found' = [tag |-> asg.tag, empty |-> DOMAIN runs = {}]
    BY <1>3, PassingCalls
  <2>3. OnwardIn(asked) /\ pc' = "tag" /\ found'.tag # NoImage =>
            NotBefore(asked, runs, hash', Reliable)
    BY <2>1, <2>2 DEF ReachInv, NotBefore, Reliable
  <2>4. pc' = "update" /\ found'.empty => NotBefore(asked, runs, hash', DOMAIN runs)
    <3>1. ASSUME pc' = "update", DOMAIN runs # {} PROVE ~found'.empty
      <4>1. (DOMAIN runs = {}) = FALSE
        BY <3>1
      <4>2. found' = [tag |-> asg.tag, empty |-> FALSE]
        BY <2>2, <3>1, <4>1, Zenon
      <4>. QED  BY <4>2
    <3>2. DOMAIN runs = {} => NotBefore(asked, runs, hash', DOMAIN runs)
      BY DEF NotBefore
    <3>. QED  BY <3>1, <3>2
  <2>. QED  BY <1>2, <2>1, <2>2, <2>3, <2>4 DEF ReachInv
<1>4. CASE Begin
  BY <1>1, <1>2, <1>4 DEF Begin, Goto, aws, history, In
<1>5. CASE CreateGroup
  <2>1. /\ UNCHANGED <<asked, hash, found, runs, refresh, behind>> /\ asg'.tag = NoImage
        /\ pc = "create" /\ pc' \in {"status", "tag"} /\ found.tag = NoImage
    BY <1>5 DEF CreateGroup, Goto, history, JobInv
  <2>. QED  BY <2>1 DEF ReachInv
<1>6. CASE StartInstanceRefresh
  <2>1. /\ UNCHANGED <<asked, hash, found, asg, runs, behind>> /\ refresh'.left = DOMAIN runs
        /\ pc = "start" /\ pc' = "tag"
    BY <1>6 DEF StartInstanceRefresh, Goto
  <2>2. Reliable' = {}
    BY <2>1 DEF Reliable
  <2>. QED  BY <2>1, <2>2 DEF ReachInv, NotBefore
<1>7. CASE SetTag
  <2>1. /\ UNCHANGED <<asked, hash, found, runs, refresh>> /\ asg'.tag = hash
        /\ pc = "tag" /\ pc' = "status"
        /\ behind' = IF found.tag = NoImage
                     THEN {m \in DOMAIN runs : m \in behind \/ Age(runs[m]) < Age(hash)}
                     ELSE behind
    BY <1>7 DEF SetTag, Goto, TypeOK
  <2>2. ASSUME OnwardIn(asked) PROVE NotBefore(asked, runs, hash, Reliable')
    <3>1. CASE found.tag # NoImage
      BY <2>1, <2>2, <3>1 DEF ReachInv, Reliable
    <3>2. CASE found.tag = NoImage
      <4>1. ASSUME NEW m \in Reliable' PROVE AgeIn(asked, runs[m]) >= AgeIn(asked, hash)
        <5>1. m \in DOMAIN runs /\ ~(Age(runs[m]) < Age(hash))
          BY <2>1, <3>2, <4>1 DEF Reliable
        <5>2. In(asked, runs[m]) /\ In(asked, hash)
          BY <2>1, <5>1 DEF ReachInv
        <5>3. Age(runs[m]) \in Int /\ Age(hash) \in Int
          BY <1>1, <2>2, <5>2, AgeIsPosition DEF In, Age, AgeIn
        <5>. QED  BY <5>1, <5>3 DEF Age, AgeIn
      <4>. QED  BY <4>1 DEF NotBefore
    <3>. QED  BY <3>1, <3>2
  <2>. QED  BY <2>1, <2>2 DEF ReachInv
<1>8. CASE UNCHANGED vars
  <2>1. UNCHANGED <<asked, pc, hash, found, runs, refresh, behind, asg>>
    BY <1>8 DEF vars, job, aws, history
  <2>. QED  BY <1>2, <2>1 DEF ReachInv
<1>. QED
  BY <1>3, <1>4, <1>5, <1>6, <1>7, <1>8, EditReach, OutsideReach, StepKinds

\* The tag tells the truth about every machine that was not passed over, for an
\* image history without a way back.
THEOREM AlwaysTagIsReached == Spec => []TagIsReached
<1>1. ReachInv => TagIsReached
  BY DEF ReachInv, TagIsReached, Onward, OnwardIn, NotBefore, Age, AgeIn, Reliable
<1>. QED  BY <1>1, AlwaysTypes, InitReach, ReachInductive, PTL DEF Spec

=============================================================================
