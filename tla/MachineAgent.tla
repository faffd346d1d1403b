---------------------------- MODULE MachineAgent ----------------------------
(***************************************************************************)
(* tiproxy-machine-agent on one machine: syncOnce renders the TiProxy      *)
(* configuration of the group, writes it to the file mounted into the      *)
(* TiProxy container, starts the container when it is not running, pushes  *)
(* a changed configuration over TiProxy's API and reports in               *)
(* status.machines.                                                        *)
(*                                                                         *)
(* TiProxy and Docker are external: TiProxy reads the file when it starts, *)
(* takes a new configuration through its API, and may or may not notice    *)
(* that the file changed; Docker restarts a container that exited          *)
(* ("unless-stopped"). The agent writes the file in place: TiProxy may     *)
(* find it half written, and run with the part it finds.                   *)
(***************************************************************************)
EXTENDS TiProxyConfig

CONSTANTS Groups,       \* what the TiProxyMachineGroup may ask for
          FirstGroup,
          DefaultImage, \* --default-image
          MaxEdits,     \* bound: changes of the group
          MaxFails      \* bound: failed calls, crashes and exits

\* No configuration: its API port is never that of a rendered one.
NoConfig(api) == [clusters |-> {}, range |-> <<0, 0>>, api |-> api]
NotSet == NoConfig(0)         \* the empty lastConfigHash
Torn == NoConfig(-1)          \* a half written file
Unrenderable == NoConfig(-2)  \* BuildTiProxyConfig returns an error

\* What syncOnce makes of the group: its configuration and runtime settings.
SettingsOf(group) ==
    [config |-> IF BuildTiProxyConfigOK(group) THEN BuildTiProxyConfig(group)
                ELSE Unrenderable,
     image |-> ResolveTiProxyImage(group, DefaultImage),
     path |-> group.path]

Settings == {SettingsOf(g) : g \in Groups}
Config == {s.config : s \in Settings} \ {Unrenderable}
Image == {s.image : s \in Settings}
Path == {s.path : s \in Settings}

ASSUME AgentAssumption ==
    /\ FirstGroup \in Groups
    /\ BuildTiProxyConfigOK(FirstGroup)
    /\ MaxEdits \in Nat /\ MaxFails \in Nat

VARIABLES asked,      \* API server: what the group asked for so far
          status,     \* API server: status.machines[MachineID]
          pc,         \* the next step of syncOnce, or "idle"
          job,        \* what syncOnce read
          started,    \* justStarted
          failed,     \* syncOnce is about to report an error
          last,       \* a.lastConfigHash
          files,      \* the configuration files, by their paths
          container,  \* the TiProxy container
          fails

vars == <<asked, status, pc, job, started, failed, last, files, container, fails>>
machine == <<files, container>>

\* path: of the file mounted; torn: TiProxy runs with what it found in a half
\* written file, and config is the last one it had as a whole; api: the port its
\* API listens on.
NoContainer == [exists |-> FALSE, up |-> FALSE, image |-> NoImage, path |-> "",
                config |-> NotSet, torn |-> FALSE, api |-> 0]
NoStatus == [phase |-> "None", config |-> NotSet, image |-> NoImage]

Wanted == asked[Len(asked)]

Init ==
    /\ asked = <<SettingsOf(FirstGroup)>>
    /\ status = NoStatus
    /\ pc = "idle" /\ job = Wanted /\ started = FALSE /\ failed = FALSE
    /\ last = NotSet
    /\ files = [p \in Path |-> NotSet]
    /\ container = NoContainer
    /\ fails = 0

\* The controller resolves other links, or the user changes the spec.
EditGroup(group) ==
    /\ Len(asked) <= MaxEdits
    /\ SettingsOf(group) # Wanted
    /\ asked' = Append(asked, SettingsOf(group))
    /\ UNCHANGED <<status, pc, job, started, failed, last, machine, fails>>

-----------------------------------------------------------------------------
(* syncOnce, on every tick                                                 *)

\* Client.Get, runtimeSettings and BuildTiProxyConfig. (When Get fails,
\* syncOnce returns at once and nothing changes.)
SyncBegin ==
    /\ pc = "idle"
    /\ job' = Wanted
    /\ started' = FALSE
    /\ failed' = (Wanted.config = Unrenderable)
    /\ pc' = IF Wanted.config = Unrenderable THEN "report" ELSE "write"
    /\ UNCHANGED <<asked, status, last, machine, fails>>

\* Mutant: an existing file is left as it is.
WriteConfigFileOnce ==
    /\ pc = "write"
    /\ LET same == files[job.path] # NotSet IN
       /\ files' = IF same THEN files ELSE [files EXCEPT ![job.path] = Torn]
       /\ pc' = IF same THEN "check" ELSE "writing"
    /\ UNCHANGED <<asked, status, job, started, failed, last, container, fails>>

\* A file that has the content already is not written; os.WriteFile truncates
\* any other, or creates an empty one ...
WriteConfigFile ==
    /\ pc = "write"
    /\ LET same == files[job.path] = job.config IN
       /\ files' = IF same THEN files ELSE [files EXCEPT ![job.path] = Torn]
       /\ pc' = IF same THEN "check" ELSE "writing"
    /\ UNCHANGED <<asked, status, job, started, failed, last, container, fails>>

\* ... and then writes the content.
WriteContent ==
    /\ pc = "writing"
    /\ files' = [files EXCEPT ![job.path] = job.config]
    /\ pc' = "check"
    /\ UNCHANGED <<asked, status, job, started, failed, last, container, fails>>

\* Docker.IsRunning and the decision to start, to push or to do neither.
IsRunning ==
    /\ pc = "check"
    /\ pc' = CASE ~container.up -> "start"
               [] container.up /\ job.config # last -> "push"
               [] OTHER -> "report"
    /\ UNCHANGED <<asked, status, job, started, failed, last, machine, fails>>

\* The container of Docker.Start: TiProxy reads the file it mounts.
NewContainer ==
    [exists |-> TRUE, up |-> TRUE, image |-> job.image, path |-> job.path,
     config |-> files[job.path], torn |-> FALSE, api |-> files[job.path].api]

\* Docker.Start removes any container of that name and runs a new one.
Start ==
    /\ pc = "start"
    /\ container' = NewContainer
    /\ started' = TRUE
    /\ pc' = "report"
    /\ UNCHANGED <<asked, status, job, failed, last, files, fails>>

\* apiBaseURL has the port of the group, TiProxy the one it started with.
Reachable == container.up /\ container.api = job.config.api

\* TiProxy takes the configuration as a whole.
Pushed == [container EXCEPT !.config = job.config, !.torn = FALSE]

\* pushConfig: PUT /api/admin/config, answered with 2xx.
PushConfig ==
    /\ pc = "push"
    /\ Reachable
    /\ container' = Pushed
    /\ pc' = "report"
    /\ UNCHANGED <<asked, status, job, started, failed, last, files, fails>>

\* Nothing listens there: the connection is refused.
PushRefused ==
    /\ pc = "push"
    /\ ~Reachable
    /\ failed' = TRUE
    /\ pc' = "report"
    /\ UNCHANGED <<asked, status, job, started, last, machine, fails>>

Phase ==
    CASE failed -> "Failed"
      [] ~failed /\ started -> "Starting"
      [] OTHER -> "Running"

\* The configHash reported is empty when there is no configuration.
Reported ==
    [phase |-> Phase, image |-> job.image,
     config |-> IF job.config = Unrenderable THEN NotSet ELSE job.config]

\* Mutant: lastConfigHash is set although the push failed.
ReportAlwaysRemembers ==
    /\ pc = "report"
    /\ last' = job.config
    /\ status' = Reported
    /\ pc' = "idle"
    /\ UNCHANGED <<asked, job, started, failed, machine, fails>>

\* lastConfigHash is set unless there was an error, then upsertMachineStatus.
Report ==
    /\ pc = "report"
    /\ last' = IF failed THEN last ELSE job.config
    /\ status' = Reported
    /\ pc' = "idle"
    /\ UNCHANGED <<asked, job, started, failed, machine, fails>>

-----------------------------------------------------------------------------
(* Failures                                                                *)

Fail == fails < MaxFails /\ fails' = fails + 1 /\ UNCHANGED asked

\* MkdirAll fails, or opening the file; or the write, with the file left half
\* written, or whole when only closing it failed.
WriteError ==
    /\ pc \in {"write", "writing"} /\ Fail
    /\ \/ UNCHANGED files
       \/ pc = "writing" /\ files' = [files EXCEPT ![job.path] = job.config]
    /\ failed' = TRUE /\ pc' = "report"
    /\ UNCHANGED <<status, job, started, last, container>>

\* Inspecting, pulling, removing, creating or starting fails: the old container
\* is still there or removed, or the new one runs and the answer is lost. (One
\* that was created and never started is as good as none.)
DockerError ==
    /\ pc \in {"check", "start"} /\ Fail
    /\ container' \in IF pc = "check" THEN {container}
                      ELSE {container, NoContainer, NewContainer}
    /\ failed' = TRUE /\ pc' = "report"
    /\ UNCHANGED <<status, job, started, last, files>>

\* The push times out (3s) or is answered with an error, before or after
\* TiProxy applied it.
PushError ==
    /\ pc = "push" /\ Reachable /\ Fail
    /\ container' \in {container, Pushed}
    /\ failed' = TRUE /\ pc' = "report"
    /\ UNCHANGED <<status, job, started, last, files>>

\* upsertMachineStatus fails: syncOnce returns the error, lastConfigHash stays set.
ReportError ==
    /\ pc = "report" /\ Fail
    /\ last' = IF failed THEN last ELSE job.config
    /\ pc' = "idle"
    /\ UNCHANGED <<status, job, started, failed, machine>>

\* The agent process is killed and started again by systemd; a write under way
\* is cut short.
AgentRestart ==
    /\ Fail
    /\ pc' = "idle" /\ started' = FALSE /\ failed' = FALSE
    /\ last' = NotSet
    /\ UNCHANGED <<status, job, machine>>

\* TiProxy exits ...
ContainerExit ==
    /\ container.up /\ Fail
    /\ container' = [container EXCEPT !.up = FALSE]
    /\ UNCHANGED <<status, pc, job, started, failed, last, files>>

\* The API ports half a file may give: one of a configuration the group asked
\* for, or TiProxy's own default when the file ends before the port.
HalfReadPorts ==
    {3080} \cup {c.api : c \in {asked[i].config : i \in DOMAIN asked} \cap Config}

\* ... and Docker restarts it, with the file as it is now. Half a file may be
\* valid TOML, an empty one always is: TiProxy runs with what it finds there.
\* (Where it refuses the file it stays down, until the agent starts a new one.)
DockerRestart ==
    /\ container.exists /\ ~container.up
    /\ LET file == files[container.path] IN
       \/ /\ file \in Config
          /\ container' = [container EXCEPT !.up = TRUE, !.config = file, !.torn = FALSE,
                                            !.api = file.api]
       \/ /\ file = Torn
          /\ \E port \in HalfReadPorts :
                container' = [container EXCEPT !.up = TRUE, !.torn = TRUE, !.api = port]
    /\ UNCHANGED <<asked, status, pc, job, started, failed, last, files, fails>>

\* TiProxy notices that the file changed, half written or whole, and may move
\* its API. (The half it has read already says nothing new.) Nothing in the
\* repository says that it does either: nothing below depends on it.
Reload ==
    /\ container.up
    /\ LET file == files[container.path] IN
       \/ /\ file \in Config
          /\ \E port \in {container.api, file.api} :
                container' = [container EXCEPT !.config = file, !.torn = FALSE,
                                               !.api = port]
       \/ /\ file = Torn /\ (pc = "writing" \/ ~container.torn)
          /\ \E port \in HalfReadPorts \cup {container.api} :
                container' = [container EXCEPT !.torn = TRUE, !.api = port]
    /\ UNCHANGED <<asked, status, pc, job, started, failed, last, files, fails>>

-----------------------------------------------------------------------------

SyncNext ==
    \/ SyncBegin \/ WriteConfigFile \/ WriteContent \/ IsRunning \/ Start
    \/ PushConfig \/ PushRefused \/ Report

FailNext ==
    \/ WriteError \/ DockerError \/ PushError \/ ReportError
    \/ AgentRestart \/ ContainerExit

Next ==
    \/ \E g \in Groups : EditGroup(g)
    \/ SyncNext \/ FailNext \/ DockerRestart \/ Reload

\* The ticker goes on calling syncOnce, and syncOnce comes to its end.
Spec == Init /\ [][Next]_vars /\ WF_vars(SyncNext)

-----------------------------------------------------------------------------
(* Properties                                                              *)

\* The variables of the agent and of the machine have their types.
TypeOK ==
    /\ asked \in Seq(Settings) /\ job \in Settings
    /\ pc \in {"idle", "write", "writing", "check", "start", "push", "report"}
    /\ started \in BOOLEAN /\ failed \in BOOLEAN
    /\ last \in Config \cup {NotSet}
    /\ files \in [Path -> Config \cup {NotSet, Torn}]
    /\ container = NoContainer \/ /\ container.exists /\ container.up \in BOOLEAN
                                  /\ container.image \in Image
                                  /\ container.path \in Path
                                  /\ container.config \in Config
                                  /\ container.torn \in BOOLEAN
    /\ status \in [phase : {"None", "Failed", "Starting", "Running"},
                   image : Image \cup {NoImage}, config : Config \cup {NotSet}]

\* The group never asked again for a configuration it had left.
Onward ==
    \A i, j, k \in DOMAIN asked :
        i < j /\ j < k /\ asked[i].config = asked[k].config =>
            asked[j].config = asked[i].config

\* The container mounts the file the agent writes, and always did.
Mounted == \A i \in DOMAIN asked : asked[i].path = container.path

\* How late the group asked for c; 0 when it never did.
Age(c) == Max({0} \cup {i \in DOMAIN asked : asked[i].config = c})
ServedAge == Age(container.config)

\* The configuration TiProxy runs with, or ran with before it found a file half
\* written, is never replaced by an older one, not even when TiProxy crashes and
\* reads the file again: the file is written before the push. It relies on the
\* file being the one that is mounted, which a change of configPath ends. (What
\* half a file says may be older, or nothing: LastIsServed is about that.)
NeverOlder ==
    [][container.exists /\ container'.exists /\ Onward' /\ Mounted' =>
        ServedAge' >= ServedAge]_vars

\* The agent skips the push of what it remembers having pushed: TiProxy, while
\* it runs, has that or something newer, whatever crashed and timed out. Or it
\* runs with half a file, and then the group has moved on from what the agent
\* remembers: the next syncOnce pushes, and nothing is skipped.
LastIsServed ==
    Onward /\ container.up /\ Mounted /\ last # NotSet =>
        IF container.torn THEN Wanted.config # last
        ELSE ServedAge >= Age(last)

\* TiProxy runs the configuration of the group and the status says so.
UpToDate ==
    /\ container.up /\ ~container.torn /\ container.config = Wanted.config
    /\ status = [phase |-> "Running", config |-> Wanted.config, image |-> Wanted.image]

\* The group moved the API port, or TiProxy read another one in half a file: no
\* push reaches TiProxy until it restarts.
OutOfReach ==
    container.up /\ container.api # Wanted.config.api /\ status.phase = "Failed"

\* The agent remembers having pushed what the group asks for, and reports it;
\* a push with a lost answer, or a restart from the file mounted or from half of
\* it, came after it.
Overlooked ==
    /\ ~Onward \/ ~Mounted
    /\ container.up /\ last = Wanted.config
    /\ status = [phase |-> "Running", config |-> Wanted.config, image |-> Wanted.image]

\* Once the group stops changing and calls stop failing, TiProxy runs the
\* configuration of the group and the status says so, or says Failed because
\* one of the links cannot be rendered or TiProxy's API is on another port. Only
\* after a change back to an earlier configuration, or of configPath, may
\* syncOnce settle on a configuration TiProxy does not run. Half a file is never
\* what TiProxy is left with otherwise.
Settles ==
    <>[](IF Wanted.config = Unrenderable THEN status.phase = "Failed"
         ELSE UpToDate \/ OutOfReach \/ Overlooked)

=============================================================================
