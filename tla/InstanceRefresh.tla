-------------------------- MODULE InstanceRefresh --------------------------
(***************************************************************************)
(* How a new TiProxy image reaches the machines of a group on AWS: the     *)
(* manager's ensureLaunchTemplate, ensureAutoScalingGroup and              *)
(* ensureImageRollingRefresh, call by call, and the Auto Scaling group     *)
(* they work on.                                                           *)
(*                                                                         *)
(* The manager compares the hash of spec.tiproxy's image fields with a tag *)
(* on the Auto Scaling group, and has AWS replace all instances when they  *)
(* differ. The image itself is not in the launch template: the agent of a  *)
(* new instance reads the group and starts whatever it asks for then.      *)
(***************************************************************************)
EXTENDS Naturals, Sequences, FiniteSets, FiniteSetsExt

CONSTANTS Machine,     \* the places for instances in the Auto Scaling group
          MaxImage,    \* images are numbers
          FirstImage,
          MaxEdits,    \* bound: changes of the image
          MaxFaults    \* bound: failed calls, crashes, lost machines, refreshes
                       \* that fail or that somebody else starts

NoImage == 0  \* all image fields empty; their hash, and a missing tag, is ""

Image == NoImage .. MaxImage

ASSUME RefreshAssumption ==
    /\ MaxImage \in Nat /\ FirstImage \in Image
    /\ MaxEdits \in Nat /\ MaxFaults \in Nat

VARIABLES asked,    \* API server: the image fields of spec.tiproxy so far
          cache,    \* the controller's copy: how many of them it has seen
          queued,   \* the group's key is in the work queue
          pc,       \* the manager's next call, "status", or "idle"
          hash,     \* desiredImageHash
          found,    \* existingASG: its tag, and whether it has instances
          unseen,   \* ltVersion is not the one recorded in status.cloud
          template, \* AWS: the launch template exists
          asg,      \* AWS: the Auto Scaling group: whether it exists, its tag
          runs,     \* the image each instance runs
          refresh,  \* AWS: an instance refresh is active; instances it has left
          behind,   \* history: machines that kept their image when a tag was set
                    \* without a refresh, or a refresh failed
          started,  \* history: refreshes the manager started, by image
          faults

aws == <<template, asg, runs, refresh>>
job == <<pc, hash, found, unseen>>
history == <<behind, started>>
vars == <<asked, cache, queued, job, aws, history, faults>>

image == asked[Len(asked)]

Idle == [active |-> FALSE, left |-> {}]

Init ==
    /\ asked = <<FirstImage>> /\ cache = 1
    /\ queued = TRUE
    /\ pc = "idle" /\ hash = NoImage /\ unseen = FALSE
    /\ found = [tag |-> NoImage, empty |-> TRUE]
    /\ template = FALSE
    /\ asg = [exists |-> FALSE, tag |-> NoImage]
    /\ runs = [m \in {} |-> NoImage]
    /\ refresh = Idle
    /\ behind = {} /\ started = [i \in Image |-> 0]
    /\ faults = 0

\* How late the user asked for an image; 0 when nobody did.
Age(i) == Max({0} \cup {k \in DOMAIN asked : asked[k] = i})

Fault == faults < MaxFaults /\ faults' = faults + 1

-----------------------------------------------------------------------------
(* The user, the informer and the instances                                *)

EditImage(i) ==
    /\ Len(asked) <= MaxEdits /\ i # image
    /\ asked' = Append(asked, i)
    /\ UNCHANGED <<cache, queued, job, aws, history, faults>>

Sync ==
    /\ cache # Len(asked)
    /\ cache' = Len(asked) /\ queued' = TRUE
    /\ UNCHANGED <<asked, job, aws, history, faults>>

\* An instance is launched or replaced. Its agent runs the image it reads.
Boot(m) == runs' = [n \in DOMAIN runs \cup {m} |-> IF n = m THEN image ELSE runs[n]]

Launch(m) ==
    /\ asg.exists /\ m \notin DOMAIN runs
    /\ Boot(m)
    /\ UNCHANGED <<asked, cache, queued, job, template, asg, refresh, history, faults>>

\* An instance fails or the group is scaled in.
Lose(m) ==
    /\ m \in DOMAIN runs /\ Fault
    /\ runs' = [n \in DOMAIN runs \ {m} |-> runs[n]]
    /\ refresh' = [refresh EXCEPT !.left = @ \ {m}]
    /\ behind' = behind \ {m}
    /\ UNCHANGED <<asked, cache, queued, job, template, asg, started>>

\* A rolling refresh replaces the instances one after the other ...
Replace(m) ==
    /\ m \in refresh.left
    /\ Boot(m)
    /\ refresh' = [refresh EXCEPT !.left = @ \ {m}]
    /\ behind' = behind \ {m}
    /\ UNCHANGED <<asked, cache, queued, job, template, asg, started, faults>>

\* ... and is then successful.
RefreshDone ==
    /\ refresh.active /\ refresh.left = {}
    /\ refresh' = Idle
    /\ UNCHANGED <<asked, cache, queued, job, template, asg, runs, history, faults>>

\* It is cancelled, or fails because an instance does not come up.
RefreshFails ==
    /\ refresh.active /\ Fault
    /\ refresh' = Idle
    /\ behind' = behind \cup refresh.left
    /\ UNCHANGED <<asked, cache, queued, job, template, asg, runs, started>>

\* Somebody else starts a refresh.
OtherRefresh ==
    /\ asg.exists /\ ~refresh.active /\ Fault
    /\ refresh' = [active |-> TRUE, left |-> DOMAIN runs]
    /\ UNCHANGED <<asked, cache, queued, job, template, asg, runs, history>>

-----------------------------------------------------------------------------
(* EnsureMachineGroup                                                      *)

Goto(call) == pc' = call

\* Mutant: the launch template is left to somebody else.
BeginWithoutTemplate ==
    /\ pc = "idle" /\ queued
    /\ queued' = FALSE
    /\ hash' = asked[cache]
    /\ Goto("describe")
    /\ UNCHANGED <<asked, cache, found, unseen, aws, history, faults>>

Begin ==
    /\ pc = "idle" /\ queued
    /\ queued' = FALSE
    /\ hash' = asked[cache]
    /\ Goto("template")
    /\ UNCHANGED <<asked, cache, found, unseen, aws, history, faults>>

\* Mutant: an existing launch template is used as it is.
EnsureLaunchTemplateReused ==
    /\ pc = "template"
    /\ template' = TRUE
    /\ unseen' = ~template
    /\ Goto("describe")
    /\ UNCHANGED <<asked, cache, queued, hash, found, asg, runs, refresh, history, faults>>

\* ensureLaunchTemplate creates the template, or another version of it even if
\* nothing has changed. (ModifyLaunchTemplate may fail without consequence.)
EnsureLaunchTemplate ==
    /\ pc = "template"
    /\ template' = TRUE
    /\ unseen' = TRUE
    /\ Goto("describe")
    /\ UNCHANGED <<asked, cache, queued, hash, found, asg, runs, refresh, history, faults>>

\* DescribeAutoScalingGroups: the answer is used until the end.
DescribeGroup ==
    /\ pc = "describe"
    /\ found' = [tag |-> asg.tag, empty |-> DOMAIN runs = {}]
    /\ Goto(IF asg.exists THEN "update" ELSE "create")
    /\ UNCHANGED <<asked, cache, queued, hash, unseen, aws, history, faults>>

\* CreateAutoScalingGroup; the hash is a tag of its own, set by the next call.
CreateGroup ==
    /\ pc = "create"
    /\ asg' = [exists |-> TRUE, tag |-> NoImage]
    /\ Goto(IF hash = NoImage THEN "status" ELSE "tag")
    /\ UNCHANGED <<asked, cache, queued, hash, found, unseen, template, runs,
                   refresh, history, faults>>

\* Mutant: a group without the tag is refreshed like any other.
AfterUpdateNoBaseline ==
    CASE hash = NoImage \/ found.tag = hash -> "status"
      [] ~(hash = NoImage \/ found.tag = hash) /\ found.empty -> "tag"
      [] OTHER -> "refreshes"

\* ensureImageRollingRefresh, up to its first call: a group without the tag
\* ("bootstrap tracking"), or without instances, is only tagged.
AfterUpdate ==
    CASE hash = NoImage \/ found.tag = hash -> "status"
      [] ~(hash = NoImage \/ found.tag = hash)
         /\ (found.tag = NoImage \/ found.empty) -> "tag"
      [] OTHER -> "refreshes"

UpdateGroup ==
    /\ pc = "update"
    /\ Goto(AfterUpdate)
    /\ UNCHANGED <<asked, cache, queued, hash, found, unseen, aws, history, faults>>

\* Mutant: the tag is set although the active refresh is an earlier one.
HasActiveInstanceRefreshTags ==
    /\ pc = "refreshes"
    /\ Goto(IF refresh.active THEN "tag" ELSE "start")
    /\ UNCHANGED <<asked, cache, queued, hash, found, unseen, aws, history, faults>>

\* DescribeInstanceRefreshes: while one is active this reconcile is done.
HasActiveInstanceRefresh ==
    /\ pc = "refreshes"
    /\ Goto(IF refresh.active THEN "status" ELSE "start")
    /\ UNCHANGED <<asked, cache, queued, hash, found, unseen, aws, history, faults>>

\* Mutant: the tag is left to the next reconcile.
StartInstanceRefreshUntagged ==
    /\ pc = "start" /\ ~refresh.active
    /\ refresh' = [active |-> TRUE, left |-> DOMAIN runs]
    /\ started' = [started EXCEPT ![hash] = @ + 1]
    /\ Goto("status")
    /\ UNCHANGED <<asked, cache, queued, hash, found, unseen, template, asg, runs,
                   behind, faults>>

StartInstanceRefresh ==
    /\ pc = "start" /\ ~refresh.active
    /\ refresh' = [active |-> TRUE, left |-> DOMAIN runs]
    /\ started' = [started EXCEPT ![hash] = @ + 1]
    /\ Goto("tag")
    /\ UNCHANGED <<asked, cache, queued, hash, found, unseen, template, asg, runs,
                   behind, faults>>

\* Someone was faster: InstanceRefreshInProgress is not an error.
RefreshInProgress ==
    /\ pc = "start" /\ refresh.active
    /\ Goto("status")
    /\ UNCHANGED <<asked, cache, queued, hash, found, unseen, aws, history, faults>>

\* setASGTag. (behind: without a refresh, older instances stay as they are.)
SetTag ==
    /\ pc = "tag"
    /\ asg' = [asg EXCEPT !.tag = hash]
    /\ behind' = IF found.tag = NoImage
                 THEN {m \in DOMAIN runs : m \in behind \/ Age(runs[m]) < Age(hash)} ELSE behind
    /\ Goto("status")
    /\ UNCHANGED <<asked, cache, queued, hash, found, unseen, template, runs, refresh,
                   started, faults>>

\* The status patch. A launch template version that status.cloud does not have
\* yet is a change, whose event queues the group again.
PatchStatus ==
    /\ pc = "status"
    /\ queued' = (queued \/ unseen)
    /\ unseen' = FALSE
    /\ Goto("idle")
    /\ UNCHANGED <<asked, cache, hash, found, aws, history, faults>>

\* A call fails (or its answer is lost: the step of the call, then this one).
\* The reconcile reports the error and asks to be repeated.
CallError ==
    /\ pc \notin {"idle", "status"} /\ Fault
    /\ queued' = TRUE /\ unseen' = FALSE
    /\ Goto("idle")
    /\ UNCHANGED <<asked, cache, hash, found, aws, history>>

Crash ==
    /\ Fault
    /\ cache' = Len(asked) /\ queued' = TRUE /\ unseen' = FALSE
    /\ Goto("idle")
    /\ UNCHANGED <<asked, hash, found, aws, history>>

-----------------------------------------------------------------------------

ManagerNext ==
    \/ Begin \/ EnsureLaunchTemplate \/ DescribeGroup \/ CreateGroup \/ UpdateGroup
    \/ HasActiveInstanceRefresh \/ StartInstanceRefresh \/ RefreshInProgress
    \/ SetTag \/ PatchStatus

AwsNext == (\E m \in Machine : Launch(m) \/ Replace(m)) \/ RefreshDone

FaultNext ==
    \/ (\E m \in Machine : Lose(m)) \/ RefreshFails \/ OtherRefresh \/ CallError \/ Crash

Next == (\E i \in Image : EditImage(i)) \/ Sync \/ ManagerNext \/ AwsNext \/ FaultNext

\* The controller's worker and informer go on, and AWS does what it was asked.
Fairness == WF_vars(ManagerNext) /\ WF_vars(AwsNext) /\ WF_vars(Sync)

Spec == Init /\ [][Next]_vars /\ Fairness

-----------------------------------------------------------------------------
(* Properties                                                              *)

\* The types; an Auto Scaling group has its launch template, and a tag, machines
\* and refreshes only when it exists.
TypeOK ==
    /\ asked \in Seq(Image) /\ cache \in DOMAIN asked /\ hash \in Image
    /\ queued \in BOOLEAN /\ unseen \in BOOLEAN /\ template \in BOOLEAN
    /\ pc \in {"idle", "template", "describe", "create", "update", "refreshes",
               "start", "tag", "status"}
    /\ found \in [tag : Image, empty : BOOLEAN]
    /\ asg \in [exists : BOOLEAN, tag : Image]
    /\ DOMAIN runs \subseteq Machine /\ \A m \in DOMAIN runs : runs[m] \in Image
    /\ refresh.active \in BOOLEAN /\ refresh.left \subseteq DOMAIN runs
    /\ behind \subseteq DOMAIN runs
    /\ started \in [Image -> Nat]
    /\ asg.exists => template
    /\ ~asg.exists => asg.tag = NoImage /\ DOMAIN runs = {} /\ ~refresh.active

\* The user never asked again for an image he had left.
Onward == \A j, k \in DOMAIN asked : asked[j] = asked[k] => j = k

\* The tag tells the truth: a machine runs the tagged image or a later one,
\* unless the active refresh has yet to replace it, or it was passed over
\* when the group was first tagged or when a refresh failed. In particular
\* the tag is set after the refresh it stands for was started, over stale
\* copies of spec and Auto Scaling group, failed calls and restarts. It may lie
\* once the user takes back a change: the tag then matches the image before, and
\* a machine that booted in between does not.
TagIsReached ==
    Onward /\ asg.tag # NoImage =>
        \A m \in DOMAIN runs \ (behind \cup refresh.left) : Age(runs[m]) >= Age(asg.tag)

\* "one ASG instance refresh, deduplicated by image hash": no more of them than
\* the user asked for the image, but for failed calls and crashes.
OneRefreshPerImage ==
    \A i \in Image :
        started[i] <= Cardinality({k \in DOMAIN asked : asked[k] = i}) + faults

\* "without forcing an unexpected refresh": nothing is refreshed before the
\* user has changed the image, even when the group's creation was interrupted.
OnlyChangesRefresh == Len(asked) = 1 => \A i \in Image : started[i] = 0

\* After the last change and the last fault, every machine runs the image that
\* is asked for, except those passed over, if the user asks for one and did not
\* take back a change. (A refresh that is found active is waited for without
\* asking for another reconcile: that there is one is due to the launch template
\* versions.)
RollsOut ==
    <>[](image # NoImage =>
            /\ asg.tag = image
            /\ Onward => \A m \in Machine \ behind :
                             m \in DOMAIN runs /\ runs[m] = image)

\* "changing TiProxy image fields triggers one ASG instance refresh (rolling
\* replacement)": in the end no machine is left with an earlier image.
ChangesReachAll ==
    <>[](\A m \in DOMAIN runs : runs[m] = image)

=============================================================================
