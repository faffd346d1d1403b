------------------------- MODULE MachineAgentProofs -------------------------
(***************************************************************************)
(* What TiProxy runs with, beside what the agent remembers having pushed   *)
(* and what the file says, for any set of groups and any number of edits,  *)
(* failed calls, crashes and exits.                                        *)
(***************************************************************************)
EXTENDS MachineAgent, WellFoundedInduction, TLAPS

-----------------------------------------------------------------------------
(* The inductive invariant                                                 *)

\* syncOnce has a configuration and is not done with it ...
Working == pc \in {"write", "writing", "check", "start", "push"}

\* ... and from the write on, the file has it.
Written == pc \in {"check", "start", "push"} \/ (pc = "report" /\ ~failed)

SyncInv ==
    /\ Len(asked) > 0
    /\ Working \/ Written => job.config \in Config
    /\ Written => files[job.path] = job.config

\* The group asked for configuration c; it asked for b no earlier than for a;
\* it asked for c and then for another; it never left the path p.
In(seq, c) == \E i \in DOMAIN seq : seq[i].config = c
NotAfter(seq, a, b) ==
    \A i \in DOMAIN seq : seq[i].config = a =>
        \E j \in DOMAIN seq : j >= i /\ seq[j].config = b
Left(seq, c) ==
    \E i, j \in DOMAIN seq : i < j /\ seq[i].config = c /\ seq[j].config # c
OnePath(seq, p) == \A i \in DOMAIN seq : seq[i].path = p
OnwardIn(seq) ==
    \A i, j, k \in DOMAIN seq :
        i < j /\ j < k /\ seq[i].config = seq[k].config => seq[j].config = seq[i].config

\* Whatever the machine has, the group asked for.
AskedInv ==
    /\ \E i \in DOMAIN asked : asked[i] = job
    /\ container.exists => In(asked, container.config)
    /\ container.exists => \E i \in DOMAIN asked : asked[i].path = container.path
    /\ \A p \in Path : files[p] \in Config => In(asked, files[p])
    /\ last # NotSet => In(asked, last)

\* The file is half written, or TiProxy runs with half of it, only when the group
\* has left what the agent remembers, or is about to remember: the push that
\* repairs it will not be skipped.
TornInv(p) ==
    /\ last # NotSet =>
          /\ files[p] # NotSet
          /\ files[p] = Torn => Left(asked, last)
          /\ container.torn => Left(asked, last)
    /\ pc = "report" /\ ~failed /\ container.torn => Left(asked, job.config)

\* The file p is no older than what TiProxy runs or the agent remembers, and the
\* configuration syncOnce works on is no older than any of them: a restart from
\* the whole file, at any moment, brings nothing older. What runs is no older
\* than what the agent remembers, or is about to.
Ordered(p) ==
    /\ files[p] \in Config =>
          /\ container.exists => NotAfter(asked, container.config, files[p])
          /\ last # NotSet => NotAfter(asked, last, files[p])
          /\ Working => NotAfter(asked, files[p], job.config)
    /\ Working =>
          /\ container.exists => NotAfter(asked, container.config, job.config)
          /\ last # NotSet => NotAfter(asked, last, job.config)
    /\ container.up /\ ~container.torn =>
          /\ last # NotSet => NotAfter(asked, last, container.config)
          /\ pc = "report" /\ ~failed => NotAfter(asked, job.config, container.config)

\* ... while the path is p and no configuration comes back.
OrderInv(p) == OnwardIn(asked) /\ OnePath(asked, p) => Ordered(p) /\ TornInv(p)

\* The API ports a container may have: those of the configurations, none, and
\* TiProxy's own default.
Ports == {c.api : c \in Config} \cup {0, 3080}

\* The fields of the container, for the updates of one or two of them.
Container ==
    [exists : BOOLEAN, up : BOOLEAN, image : Image \cup {NoImage},
     path : Path \cup {""}, config : Config \cup {NotSet}, torn : BOOLEAN,
     api : Ports]

\* Whatever TypeOK says of the container, as an operator.
ContainerOK(c) ==
    /\ c \in Container
    /\ \/ c = NoContainer
       \/ /\ c.exists /\ c.image \in Image /\ c.path \in Path /\ c.config \in Config

AgentInv == TypeOK /\ ContainerOK(container) /\ SyncInv /\ AskedInv /\ \A p \in Path : OrderInv(p)

-----------------------------------------------------------------------------
(* Configurations                                                          *)

\* A rendered configuration has a positive API port, the others none.
LEMMA ConfigFacts ==
    ASSUME NEW c \in Config
    PROVE  c # NotSet /\ c # Torn /\ c # Unrenderable
<1>1. PICK g \in Groups : c = SettingsOf(g).config /\ c # Unrenderable
  BY DEF Config, Settings
<1>2. BuildTiProxyConfigOK(g) /\ c = BuildTiProxyConfig(g)
  BY <1>1 DEF SettingsOf
<1>3. c.api > 0
  BY <1>2 DEF BuildTiProxyConfigOK, BuildTiProxyConfig
<1>4. NotSet.api = 0 /\ Torn.api = -1
  BY DEF NotSet, Torn, NoConfig
<1> QED BY <1>1, <1>3, <1>4

\* Neither is half a file the same as none.
LEMMA TornFacts == Torn # NotSet
<1>1. NotSet.api = 0 /\ Torn.api = -1
  BY DEF NotSet, Torn, NoConfig
<1> QED BY <1>1

LEMMA SettingsFields ==
    ASSUME NEW s \in Settings
    PROVE  /\ s.path \in Path /\ s.image \in Image
           /\ s.config \in Config \/ s.config = Unrenderable
BY DEF Path, Image, Config

\* The group asked for something, and last asked for one of its settings.
LEMMA WantedSettings == TypeOK /\ SyncInv => Wanted \in Settings
BY DEF TypeOK, SyncInv, Wanted

\* What the group asks for only grows.
LEMMA EditAppends ==
    ASSUME TypeOK, NEW g \in Groups, EditGroup(g)
    PROVE  /\ SettingsOf(g) \in Settings
           /\ asked' = Append(asked, SettingsOf(g))
           /\ asked' \in Seq(Settings) /\ Len(asked') = Len(asked) + 1
BY DEF EditGroup, TypeOK, Settings

-----------------------------------------------------------------------------
(* Types                                                                   *)

LEMMA NoFields ==
    /\ ContainerOK(NoContainer)
    /\ NoContainer.exists = FALSE /\ NoContainer.up = FALSE
    /\ NoContainer.config = NotSet /\ NoContainer.torn = FALSE
<1>1. NoContainer \in Container
  BY DEF NoContainer, Container, Ports
<1> QED BY <1>1 DEF NoContainer, ContainerOK

\* A container that runs is one that exists.
LEMMA UpExists ==
    ASSUME NEW c, ContainerOK(c), c.up
    PROVE  c.exists /\ c \in Container
BY NoFields DEF ContainerOK

\* Whatever a step changes in the container, its image and its path stay.
LEMMA ChangedOK ==
    ASSUME NEW c, ContainerOK(c), c.exists,
           NEW d \in Container, d.exists, d.image = c.image, d.path = c.path, d.config \in Config
    PROVE  ContainerOK(d)
BY NoFields DEF ContainerOK

\* TiProxy exits.
LEMMA ExitStep ==
    ASSUME ContainerOK(container), container.up,
           container' = [container EXCEPT !.up = FALSE]
    PROVE  /\ ContainerOK(container') /\ container'.exists = container.exists
           /\ ~container'.up /\ container'.path = container.path
           /\ container'.config = container.config /\ container'.torn = container.torn
<1>1. container.exists /\ container \in Container
  BY UpExists
<1>2. container' \in Container
  BY <1>1 DEF Container
<1>3. /\ container'.exists = container.exists /\ container'.up = FALSE
      /\ container'.torn = container.torn
  BY <1>1 DEF Container
<1>4. /\ container'.image = container.image /\ container'.path = container.path
      /\ container'.config = container.config
  BY <1>1 DEF Container
<1>5. container.config \in Config
  BY <1>1, NoFields DEF ContainerOK
<1>6. ContainerOK(container')
  BY <1>1, <1>2, <1>3, <1>4, <1>5, ChangedOK
<1> QED BY <1>3, <1>4, <1>6

\* A new container runs with the configuration just written.
LEMMA NewFields ==
    ASSUME TypeOK, SyncInv, pc = "start"
    PROVE  /\ ContainerOK(NewContainer)
           /\ NewContainer.exists = TRUE /\ NewContainer.up = TRUE
           /\ NewContainer.path = job.path /\ NewContainer.config = job.config
           /\ ~NewContainer.torn
<1>1. files[job.path] = job.config /\ job.config \in Config
  BY DEF SyncInv, Working, Written
<1>2. job.image \in Image /\ job.path \in Path
  BY SettingsFields DEF TypeOK
<1>3. /\ NewContainer.exists = TRUE /\ NewContainer.up = TRUE
      /\ NewContainer.path = job.path /\ NewContainer.config = job.config
      /\ NewContainer.image = job.image /\ ~NewContainer.torn
  BY <1>1 DEF NewContainer
<1>4. NewContainer \in Container
  <2>1. job.config.api \in Ports
    BY <1>1 DEF Ports
  <2> QED BY <1>1, <1>2, <2>1 DEF NewContainer, Container
<1> QED BY <1>1, <1>2, <1>3, <1>4 DEF ContainerOK

\* The API ports TiProxy may find in a file are ports of a container.
LEMMA PortFacts ==
    ASSUME ContainerOK(container)
    PROVE  /\ HalfReadPorts \subseteq Ports /\ container.api \in Ports
           /\ \A c \in Config : c.api \in Ports
<1>1. container.api \in Ports
  BY DEF ContainerOK, Container
<1>2. \A c \in Config : c.api \in Ports
  BY DEF Ports
<1>3. 3080 \in Ports
  BY DEF Ports
<1>4. HalfReadPorts \subseteq Ports
  BY <1>2, <1>3 DEF HalfReadPorts
<1> QED BY <1>1, <1>2, <1>4

\* TiProxy reads the file, whole or half written, when it comes up again or while
\* it runs.
LEMMA RereadStep ==
    ASSUME ContainerOK(container), DockerRestart \/ Reload
    PROVE  /\ container.exists /\ container.path \in Path
           /\ ContainerOK(container')
           /\ container'.exists /\ container'.up
           /\ container'.path = container.path
           /\ \/ /\ files[container.path] \in Config
                 /\ container'.config = files[container.path] /\ ~container'.torn
              \/ /\ files[container.path] = Torn
                 /\ container'.config = container.config /\ container'.torn
<1> DEFINE file == files[container.path]
<1>1. /\ container.exists /\ container.path \in Path /\ container \in Container
      /\ container.config \in Config
  BY NoFields DEF DockerRestart, Reload, ContainerOK
<1>2. CASE DockerRestart
  <2>1. CASE /\ file \in Config
             /\ container' = [container EXCEPT !.up = TRUE, !.config = file,
                                               !.torn = FALSE, !.api = file.api]
    <3>1. PICK port \in Ports :
              container' = [container EXCEPT !.up = TRUE, !.config = file,
                                      !.torn = FALSE, !.api = port]
      BY <2>1, PortFacts
    <3> HIDE DEF file
    <3>2. container' \in Container
      BY <1>1, <2>1, <3>1 DEF Container
    <3>3. /\ container'.exists = container.exists /\ container'.up = TRUE
          /\ container'.torn = FALSE
      BY <1>1, <3>1 DEF Container
    <3>4. /\ container'.image = container.image /\ container'.path = container.path
          /\ container'.config = file
      BY <1>1, <3>1 DEF Container
    <3>5. ContainerOK(container')
      BY <1>1, <2>1, <3>2, <3>3, <3>4, ChangedOK
    <3> QED BY <1>1, <2>1, <3>3, <3>4, <3>5 DEF file
  <2>2. CASE /\ file = Torn
             /\ \E port \in HalfReadPorts :
                   container' = [container EXCEPT !.up = TRUE, !.torn = TRUE, !.api = port]
    <3>1. PICK port \in Ports :
              container' = [container EXCEPT !.up = TRUE, !.torn = TRUE, !.api = port]
      BY <2>2, PortFacts
    <3> HIDE DEF file
    <3>2. container' \in Container
      BY <1>1, <2>2, <3>1 DEF Container
    <3>3. /\ container'.exists = container.exists /\ container'.up = TRUE
          /\ container'.torn = TRUE
      BY <1>1, <3>1 DEF Container
    <3>4. /\ container'.image = container.image /\ container'.path = container.path
          /\ container'.config = container.config
      BY <1>1, <3>1 DEF Container
    <3>5. ContainerOK(container')
      BY <1>1, <2>2, <3>2, <3>3, <3>4, ChangedOK
    <3> QED BY <1>1, <2>2, <3>3, <3>4, <3>5 DEF file
  <2> QED BY <1>2, <2>1, <2>2 DEF DockerRestart
<1>3. CASE Reload
  <2>0. container.up
    BY <1>3 DEF Reload
  <2>1. CASE /\ file \in Config
             /\ \E port \in {container.api, file.api} :
                   container' = [container EXCEPT !.config = file, !.torn = FALSE, !.api = port]
    <3>1. PICK port \in Ports :
              container' = [container EXCEPT !.config = file, !.torn = FALSE, !.api = port]
      BY <2>1, PortFacts
    <3> HIDE DEF file
    <3>2. container' \in Container
      BY <1>1, <2>1, <3>1 DEF Container
    <3>3. /\ container'.exists = container.exists /\ container'.up = container.up
          /\ container'.torn = FALSE
      BY <1>1, <3>1 DEF Container
    <3>4. /\ container'.image = container.image /\ container'.path = container.path
          /\ container'.config = file
      BY <1>1, <3>1 DEF Container
    <3>5. ContainerOK(container')
      BY <1>1, <2>1, <3>2, <3>3, <3>4, ChangedOK
    <3> QED BY <1>1, <2>0, <2>1, <3>3, <3>4, <3>5 DEF file
  <2>2. CASE /\ file = Torn
             /\ \E port \in HalfReadPorts \cup {container.api} :
                   container' = [container EXCEPT !.torn = TRUE, !.api = port]
    <3>1. PICK port \in Ports :
              container' = [container EXCEPT !.torn = TRUE, !.api = port]
      BY <2>2, PortFacts
    <3> HIDE DEF file
    <3>2. container' \in Container
      BY <1>1, <2>2, <3>1 DEF Container
    <3>3. /\ container'.exists = container.exists /\ container'.up = container.up
          /\ container'.torn = TRUE
      BY <1>1, <3>1 DEF Container
    <3>4. /\ container'.image = container.image /\ container'.path = container.path
          /\ container'.config = container.config
      BY <1>1, <3>1 DEF Container
    <3>5. ContainerOK(container')
      BY <1>1, <2>2, <3>2, <3>3, <3>4, ChangedOK
    <3> QED BY <1>1, <2>0, <2>2, <3>3, <3>4, <3>5 DEF file
  <2> QED BY <1>3, <2>1, <2>2 DEF Reload
<1> QED BY <1>2, <1>3

\* TiProxy takes the configuration that is pushed, or never sees it.
LEMMA PushStep ==
    ASSUME ContainerOK(container), SyncInv, PushConfig \/ PushError
    PROVE  /\ container.exists /\ job.config \in Config
           /\ ContainerOK(container')
           /\ \/ container' = container /\ failed'
              \/ /\ container'.exists /\ container'.up = container.up
                 /\ container'.path = container.path
                 /\ container'.config = job.config /\ ~container'.torn
<1>1. job.config \in Config
  BY DEF PushConfig, PushError, SyncInv, Working
<1>2. container \in Container /\ container.exists
  BY NoFields DEF ContainerOK, PushConfig, PushError, Reachable
<1>3. CASE container' = container /\ failed'
  BY <1>1, <1>2, <1>3
<1>4. CASE container' = Pushed
  <2>1. container' = [container EXCEPT !.config = job.config, !.torn = FALSE]
    BY <1>4 DEF Pushed
  <2>2. container' \in Container
    BY <1>1, <1>2, <2>1 DEF Container
  <2>3. /\ container'.exists = container.exists /\ container'.up = container.up
        /\ container'.torn = FALSE
    BY <1>2, <2>1 DEF Container
  <2>4. /\ container'.image = container.image /\ container'.path = container.path
        /\ container'.config = job.config
    BY <1>2, <2>1 DEF Container
  <2>5. ContainerOK(container')
    BY <1>1, <1>2, <2>2, <2>3, <2>4, ChangedOK
  <2> QED BY <1>1, <1>2, <2>3, <2>4, <2>5
<1> QED BY <1>3, <1>4 DEF PushConfig, PushError

\* The container after any step.
LEMMA ContainerStep ==
    ASSUME TypeOK, ContainerOK(container), SyncInv, [Next]_vars
    PROVE  ContainerOK(container')
<1>0. container \in Container
  BY DEF ContainerOK
<1>1. CASE container' = container
  BY <1>1
<1>2. CASE Start
  BY <1>2, NewFields DEF Start
<1>3. CASE DockerError
  BY <1>3, NewFields, NoFields DEF DockerError
<1>4. CASE PushConfig \/ PushError
  BY <1>4, PushStep
<1>5. CASE ContainerExit
  <2>1. container' = [container EXCEPT !.up = FALSE] /\ container.up
    BY <1>5 DEF ContainerExit
  <2> QED BY <2>1, ExitStep
<1>6. CASE DockerRestart \/ Reload
  BY <1>6, RereadStep
<1> QED
  BY <1>1, <1>2, <1>3, <1>4, <1>5, <1>6
  DEF Next, SyncNext, FailNext, vars, machine, EditGroup, SyncBegin, WriteConfigFile, WriteContent,
      IsRunning, PushRefused, Report, WriteError, ReportError, AgentRestart

\* The files after any step.
LEMMA FilesStep ==
    ASSUME TypeOK, SyncInv, [Next]_vars
    PROVE  files' \in [Path -> Config \cup {NotSet, Torn}]
<1> USE DEF TypeOK
<1>0. job.path \in Path
  BY SettingsFields
<1>1. CASE files' = files
  BY <1>1
<1>2. CASE pc \in {"write", "writing"} /\ \E content \in {job.config, Torn} :
                               files' = [files EXCEPT ![job.path] = content]
  BY <1>0, <1>2 DEF SyncInv, Working
<1> QED
  BY <1>1, <1>2
  DEF Next, SyncNext, FailNext, vars, machine, EditGroup, SyncBegin, WriteConfigFile, WriteContent,
      IsRunning, Start, PushConfig, PushRefused, Report, WriteError, DockerError,
      PushError, ReportError, AgentRestart, ContainerExit, DockerRestart, Reload

\* What syncOnce reports is a status.
LEMMA ReportedType ==
    ASSUME TypeOK
    PROVE  Reported \in [phase : {"None", "Failed", "Starting", "Running"},
                         image : Image \cup {NoImage}, config : Config \cup {NotSet}]
<1>1. Phase \in {"None", "Failed", "Starting", "Running"}
  BY DEF Phase
<1>2. job.image \in Image /\ (job.config \in Config \/ job.config = Unrenderable)
  BY SettingsFields DEF TypeOK
<1> QED BY <1>1, <1>2 DEF Reported

LEMMA TypeStep ==
    ASSUME TypeOK, ContainerOK(container), SyncInv, [Next]_vars
    PROVE  TypeOK'
<1>1. asked' \in Seq(Settings)
  <2>1. CASE UNCHANGED asked
    BY <2>1 DEF TypeOK
  <2>2. ASSUME NEW g \in Groups, EditGroup(g) PROVE asked' \in Seq(Settings)
    BY <2>2, EditAppends
  <2> QED
    BY <2>1, <2>2
    DEF Next, SyncNext, FailNext, vars, SyncBegin, WriteConfigFile, WriteContent,
        IsRunning, Start, PushConfig, PushRefused, Report, WriteError, DockerError,
        PushError, ReportError, AgentRestart, ContainerExit, DockerRestart, Reload, Fail
<1>2. job' \in Settings
  BY WantedSettings
  DEF TypeOK, Next, SyncNext, FailNext, vars, machine, EditGroup, SyncBegin, WriteConfigFile, WriteContent,
      IsRunning, Start, PushConfig, PushRefused, Report, WriteError, DockerError,
      PushError, ReportError, AgentRestart, ContainerExit, DockerRestart, Reload
<1>3. pc' \in {"idle", "write", "writing", "check", "start", "push", "report"}
  BY DEF TypeOK, Next, SyncNext, FailNext, vars, machine, EditGroup, SyncBegin,
      WriteConfigFile, WriteContent, IsRunning, Start, PushConfig, PushRefused, Report, WriteError,
      DockerError, PushError, ReportError, AgentRestart, ContainerExit, DockerRestart, Reload
<1>4. started' \in BOOLEAN /\ failed' \in BOOLEAN
  BY DEF TypeOK, Next, SyncNext, FailNext, vars, machine, EditGroup, SyncBegin,
      WriteConfigFile, WriteContent, IsRunning, Start, PushConfig, PushRefused, Report, WriteError,
      DockerError, PushError, ReportError, AgentRestart, ContainerExit, DockerRestart, Reload
<1>5. last' \in Config \cup {NotSet}
  BY DEF TypeOK, SyncInv, Written, Next, SyncNext, FailNext, vars, machine, EditGroup,
      SyncBegin, WriteConfigFile, WriteContent, IsRunning, Start, PushConfig, PushRefused, Report,
      WriteError, DockerError, PushError, ReportError, AgentRestart, ContainerExit,
      DockerRestart, Reload
<1>6. files' \in [Path -> Config \cup {NotSet, Torn}]
  BY FilesStep
<1>7. ContainerOK(container')
  BY ContainerStep
<1>8. status' \in [phase : {"None", "Failed", "Starting", "Running"},
                   image : Image \cup {NoImage}, config : Config \cup {NotSet}]
  <2>1. CASE status' = status
    BY <2>1 DEF TypeOK
  <2>2. CASE status' = Reported
    BY <2>2, ReportedType
  <2> QED
    BY <2>1, <2>2
    DEF Next, SyncNext, FailNext, vars, machine, EditGroup, SyncBegin, WriteConfigFile, WriteContent,
      IsRunning, Start, PushConfig, PushRefused, Report, WriteError, DockerError,
      PushError, ReportError, AgentRestart, ContainerExit, DockerRestart, Reload
<1>9. \/ container' = NoContainer
      \/ /\ container'.exists /\ container'.up \in BOOLEAN
         /\ container'.image \in Image /\ container'.path \in Path
         /\ container'.config \in Config /\ container'.torn \in BOOLEAN
  BY <1>7 DEF ContainerOK, Container
<1> QED BY <1>1, <1>2, <1>3, <1>4, <1>5, <1>6, <1>8, <1>9 DEF TypeOK

-----------------------------------------------------------------------------
(* The file that syncOnce wrote                                            *)

LEMMA SyncStep ==
    ASSUME TypeOK, SyncInv, [Next]_vars
    PROVE  SyncInv'
<1>0. job.path \in Path /\ (job.config \in Config \/ job.config = Unrenderable)
  BY SettingsFields DEF TypeOK
<1>1. ASSUME NEW g \in Groups, EditGroup(g) PROVE SyncInv'
  BY <1>1, EditAppends DEF SyncInv, EditGroup, machine, Working, Written, TypeOK
<1>2. CASE SyncBegin
  <2>1. Wanted.config \in Config \/ Wanted.config = Unrenderable
    BY WantedSettings, SettingsFields
  <2> QED BY <1>2, <2>1 DEF SyncInv, SyncBegin, machine, Working, Written
<1>3. CASE WriteConfigFile \/ WriteContent
  <2>1. pc' = "check" => files'[job.path] = job.config
    BY <1>0, <1>3 DEF WriteConfigFile, WriteContent, TypeOK
  <2> QED BY <1>3, <2>1 DEF SyncInv, WriteConfigFile, WriteContent, Working, Written
<1>4. CASE IsRunning \/ Start \/ PushConfig \/ ContainerExit \/ DockerRestart \/ Reload
           \/ UNCHANGED vars
  BY <1>4
  DEF SyncInv, Working, Written, IsRunning, Start, PushConfig, ContainerExit,
      DockerRestart, Reload, machine, vars, Fail
<1>5. CASE Report \/ ReportError \/ AgentRestart
  BY <1>5 DEF SyncInv, Working, Written, Report, ReportError, AgentRestart, machine, Fail
<1>6. CASE PushRefused \/ WriteError \/ DockerError \/ PushError
  BY <1>6
  DEF SyncInv, Working, Written, PushRefused, WriteError, DockerError, PushError, machine, Fail
<1> QED
  BY <1>1, <1>2, <1>3, <1>4, <1>5, <1>6 DEF Next, SyncNext, FailNext

-----------------------------------------------------------------------------
(* The order in which the group asked                                      *)

LEMMA NotAfterItself ==
    ASSUME NEW seq \in Seq(Settings), NEW a
    PROVE  NotAfter(seq, a, a)
BY DEF NotAfter

LEMMA NotAfterWanted ==
    ASSUME NEW seq \in Seq(Settings), Len(seq) > 0, NEW a
    PROVE  NotAfter(seq, a, seq[Len(seq)].config)
BY DEF NotAfter

\* A new wish forgets none of the old ones, and what it keeps they kept.
LEMMA AppendKeeps ==
    ASSUME NEW seq \in Seq(Settings), NEW s \in Settings
    PROVE  /\ \A i \in DOMAIN seq : /\ i \in DOMAIN Append(seq, s)
                                    /\ Append(seq, s)[i] = seq[i]
           /\ \A c : In(seq, c) => In(Append(seq, s), c)
           /\ \A c : Left(seq, c) => Left(Append(seq, s), c)
           /\ OnwardIn(Append(seq, s)) => OnwardIn(seq)
           /\ \A p : OnePath(Append(seq, s), p) => OnePath(seq, p)
<1>1. \A i \in DOMAIN seq : i \in DOMAIN Append(seq, s) /\ Append(seq, s)[i] = seq[i]
  OBVIOUS
<1> QED BY <1>1, Zenon DEF In, Left, OnwardIn, OnePath

\* As long as no configuration comes back, those asked for stay in their order:
\* if the new one is an old one, it is the last of them.
LEMMA AppendOrder ==
    ASSUME NEW seq \in Seq(Settings), NEW s \in Settings,
           OnwardIn(Append(seq, s)),
           NEW a, NEW b, In(seq, a), NotAfter(seq, a, b)
    PROVE  NotAfter(Append(seq, s), a, b)
<1> DEFINE new == Append(seq, s)
<1>1. /\ DOMAIN new = 1 .. Len(seq) + 1 /\ DOMAIN seq = 1 .. Len(seq) /\ Len(seq) \in Nat
      /\ new[Len(seq) + 1] = s
      /\ \A i \in DOMAIN seq : new[i] = seq[i]
  OBVIOUS
<1> HIDE DEF new
<1>2. SUFFICES ASSUME NEW i \in DOMAIN new, new[i].config = a
               PROVE  \E j \in DOMAIN new : j >= i /\ new[j].config = b
  BY DEF NotAfter, new
<1>3. CASE i \in DOMAIN seq
  <2>1. PICK j \in DOMAIN seq : j >= i /\ seq[j].config = b
    BY <1>1, <1>2, <1>3 DEF NotAfter
  <2> QED BY <1>1, <2>1
<1>4. CASE i = Len(seq) + 1
  <2>1. PICK k \in DOMAIN seq : seq[k].config = a
    BY DEF In
  <2>2. PICK j \in DOMAIN seq : j >= k /\ seq[j].config = b
    BY <2>1 DEF NotAfter
  <2>3. CASE j = k
    BY <1>1, <1>2, <2>1, <2>2, <2>3
  <2>4. CASE j # k
    <3>1. k < j /\ j < i /\ k \in DOMAIN new /\ j \in DOMAIN new
      BY <1>1, <1>4, <2>2, <2>4
    <3>2. new[k].config = new[i].config
      BY <1>1, <1>2, <2>1
    <3>3. new[j].config = new[k].config
      BY <3>1, <3>2 DEF OnwardIn, new
    <3> QED BY <1>1, <1>2, <2>1, <2>2, <3>2, <3>3
  <2> QED BY <2>3, <2>4
<1> QED BY <1>1, <1>3, <1>4

\* What the group asked for, and then for another no earlier, it has left ...
LEMMA LeftFor ==
    ASSUME NEW seq \in Seq(Settings), NEW a, NEW b, In(seq, a), NotAfter(seq, a, b), a # b
    PROVE  Left(seq, a)
<1>1. PICK i \in DOMAIN seq : seq[i].config = a
  BY DEF In
<1>2. PICK j \in DOMAIN seq : j >= i /\ seq[j].config = b
  BY <1>1 DEF NotAfter
<1>3. i < j
  BY <1>1, <1>2
<1> QED BY <1>1, <1>2, <1>3 DEF Left

\* ... and as long as no configuration comes back, it does not ask for it now.
LEMMA LeftNotWanted ==
    ASSUME NEW seq \in Seq(Settings), OnwardIn(seq), NEW c, Left(seq, c)
    PROVE  seq[Len(seq)].config # c
<1>1. PICK i, j \in DOMAIN seq : i < j /\ seq[i].config = c /\ seq[j].config # c
  BY DEF Left
<1>2. Len(seq) \in DOMAIN seq /\ j <= Len(seq) /\ j \in Nat /\ Len(seq) \in Nat
  BY <1>1
<1>3. CASE j = Len(seq)
  BY <1>1, <1>3
<1>4. CASE j < Len(seq)
  BY <1>1, <1>2, <1>4 DEF OnwardIn
<1> QED BY <1>2, <1>3, <1>4

LEMMA AskedStep ==
    ASSUME TypeOK, ContainerOK(container), SyncInv, AskedInv, [Next]_vars
    PROVE  AskedInv'
<1>0. container \in Container /\ job.path \in Path /\ (container.up => container.exists)
  BY SettingsFields, NoFields DEF ContainerOK, TypeOK
<1>1. ASSUME NEW g \in Groups, EditGroup(g) PROVE AskedInv'
  <2> DEFINE s == SettingsOf(g)
  <2>1. s \in Settings /\ asked' = Append(asked, s) /\ asked \in Seq(Settings)
    BY <1>1, EditAppends DEF TypeOK
  <2> HIDE DEF s
  <2>2. /\ \A i \in DOMAIN asked : i \in DOMAIN asked' /\ asked'[i] = asked[i]
        /\ \A c : In(asked, c) => In(asked', c)
    BY <2>1, AppendKeeps
  <2>3. UNCHANGED <<job, container, files, last>>
    BY <1>1 DEF EditGroup, machine
  <2>4. (\E i \in DOMAIN asked : asked[i] = job) => \E i \in DOMAIN asked' : asked'[i] = job
    BY <2>2
  <2>5. (\E i \in DOMAIN asked : asked[i].path = container.path) =>
           \E i \in DOMAIN asked' : asked'[i].path = container.path
    BY <2>2
  <2> QED BY <2>2, <2>3, <2>4, <2>5 DEF AskedInv
<1>2. CASE SyncBegin
  <2>1. Len(asked) \in DOMAIN asked /\ asked[Len(asked)] = Wanted
    BY DEF TypeOK, SyncInv, Wanted
  <2> QED BY <1>2, <2>1 DEF SyncBegin, AskedInv, machine
<1>3. In(asked, job.config) /\ \E i \in DOMAIN asked : asked[i].path = job.path
  BY DEF AskedInv, In
<1>4. CASE WriteConfigFile \/ WriteContent \/ WriteError
  <2>1. UNCHANGED <<asked, job, container, last>>
    BY <1>4 DEF WriteConfigFile, WriteContent, WriteError, Fail
  <2>2. files' = files \/ \E content \in {job.config, Torn} :
            files' = [files EXCEPT ![job.path] = content]
    BY <1>4 DEF WriteConfigFile, WriteContent, WriteError
  <2>3. \A p \in Path : files'[p] \in Config => In(asked, files'[p])
    BY <1>0, <1>3, <2>2, ConfigFacts DEF AskedInv, TypeOK
  <2> QED BY <2>1, <2>3 DEF AskedInv
<1>5. CASE AgentRestart
  BY <1>5 DEF AgentRestart, Fail, machine, AskedInv
<1>6. CASE Report \/ ReportError
  <2>1. UNCHANGED <<asked, job, container, files>> /\ last' \in {last, job.config}
    BY <1>6 DEF Report, ReportError, machine, Fail
  <2> QED BY <1>3, <2>1 DEF AskedInv
<1>7. CASE UNCHANGED <<asked, job, files, last>> /\ container' \in {container, NewContainer}
           /\ pc = "start"
  BY <1>3, <1>7, NewFields DEF AskedInv
<1>8. CASE UNCHANGED <<asked, job, files, last>> /\ container' \in {container, NoContainer}
  BY <1>8, NoFields DEF AskedInv
<1>9. CASE PushConfig \/ PushError
  <2>1. UNCHANGED <<asked, job, files, last>>
    BY <1>9 DEF PushConfig, PushError, Fail
  <2>2. \/ container' = container
        \/ /\ container'.path = container.path /\ container'.config = job.config
           /\ container.exists
    BY <1>9, PushStep
  <2> QED BY <1>3, <2>1, <2>2 DEF AskedInv
<1>10. CASE ContainerExit
  <2>1. UNCHANGED <<asked, job, files, last>>
    BY <1>10 DEF ContainerExit, Fail
  <2>2. /\ container'.path = container.path /\ container'.config = container.config
        /\ container'.exists = container.exists
    BY <1>0, <1>10, ExitStep DEF ContainerExit
  <2> QED BY <2>1, <2>2 DEF AskedInv
<1>11. CASE DockerRestart \/ Reload
  <2>1. UNCHANGED <<asked, job, files, last>>
    BY <1>11 DEF DockerRestart, Reload
  <2>2. /\ container.exists /\ container.path \in Path
        /\ container'.path = container.path
        /\ \/ /\ files[container.path] \in Config
              /\ container'.config = files[container.path]
           \/ container'.config = container.config
    BY <1>11, RereadStep
  <2> QED BY <2>1, <2>2 DEF AskedInv
<1>12. CASE Start \/ DockerError \/ IsRunning \/ PushRefused \/ UNCHANGED vars
  BY <1>7, <1>8, <1>12 DEF Start, DockerError, IsRunning, PushRefused, vars, machine, Fail
<1> QED
  BY <1>1, <1>2, <1>4, <1>5, <1>6, <1>9, <1>10, <1>11, <1>12 DEF Next, SyncNext, FailNext

-----------------------------------------------------------------------------
(* What runs, what is remembered and what the file says keep their order   *)

\* A new wish changes nothing on the machine.
LEMMA EditOrder ==
    ASSUME TypeOK, ContainerOK(container), SyncInv, AskedInv, NEW p \in Path, OrderInv(p),
           NEW g \in Groups, EditGroup(g)
    PROVE  OrderInv(p)'
<1> DEFINE s == SettingsOf(g)
<1>1. s \in Settings /\ asked' = Append(asked, s) /\ asked \in Seq(Settings)
  BY EditAppends DEF TypeOK
<1>2. UNCHANGED <<pc, job, failed, last, files, container>>
  BY DEF EditGroup, machine
<1> HIDE DEF s
<1>3. SUFFICES ASSUME OnwardIn(asked'), OnePath(asked', p) PROVE Ordered(p)' /\ TornInv(p)'
  BY DEF OrderInv
<1>4. Ordered(p) /\ TornInv(p)
  BY <1>1, <1>3, AppendKeeps DEF OrderInv
<1>5. \A a, b : In(asked, a) /\ NotAfter(asked, a, b) => NotAfter(asked', a, b)
  BY <1>1, <1>3, AppendOrder
<1>6. In(asked, job.config)
  BY DEF AskedInv, In
<1>7. container.up => container.exists
  BY NoFields DEF ContainerOK
<1>8. Ordered(p)'
  BY <1>2, <1>4, <1>5, <1>6, <1>7 DEF Ordered, Working, AskedInv
<1>9. \A a : Left(asked, a) => Left(asked', a)
  BY <1>1, AppendKeeps
<1>10. TornInv(p)'
  BY <1>2, <1>4, <1>9 DEF TornInv
<1> QED BY <1>8, <1>10

\* Half a file is what the write of another configuration leaves behind.
LEMMA TornStep ==
    ASSUME TypeOK, ContainerOK(container), SyncInv, AskedInv, NEW p \in Path,
           Ordered(p), TornInv(p), job.path = p, container.exists => container.path = p,
           Next, UNCHANGED asked
    PROVE  TornInv(p)'
<1>1. In(asked, job.config) /\ (last # NotSet => In(asked, last)) /\ asked \in Seq(Settings)
  BY DEF AskedInv, In, TypeOK
<1>2. /\ pc \in {"check", "start", "push"} => files[p] = job.config /\ job.config \in Config
      /\ pc = "report" /\ ~failed => files[p] = job.config /\ job.config \in Config
      /\ pc \in {"write", "writing"} => job.config \in Config
  BY DEF SyncInv, Working, Written
<1>3. container \in Container
  BY DEF ContainerOK
<1>4. CASE WriteConfigFile
  <2>1. UNCHANGED <<job, last, container>> /\ pc = "write" /\ pc' # "report"
    BY <1>4 DEF WriteConfigFile
  <2>2. CASE files' = files
    BY <2>1, <2>2 DEF TornInv
  <2>3. CASE files[p] # job.config /\ files' = [files EXCEPT ![p] = Torn]
    <3>1. files'[p] = Torn
      BY <2>3 DEF TypeOK
    <3>2. ASSUME last # NotSet PROVE Left(asked, last)
      <4>1. NotAfter(asked, last, job.config)
        BY <2>1, <3>2 DEF Ordered, Working
      <4>2. CASE last # job.config
        BY <1>1, <3>2, <4>1, <4>2, LeftFor
      <4>3. CASE last = job.config /\ files[p] \in Config
        <5>1. NotAfter(asked, last, files[p])
          BY <3>2, <4>3 DEF Ordered
        <5> QED BY <1>1, <2>3, <3>2, <4>3, <5>1, LeftFor
      <4>4. CASE files[p] \notin Config
        BY <3>2, <4>4 DEF TornInv, TypeOK
      <4> QED BY <4>2, <4>3, <4>4
    <3> QED BY <2>1, <3>1, <3>2, TornFacts DEF TornInv
  <2> QED BY <1>4, <2>2, <2>3 DEF WriteConfigFile
<1>5. CASE WriteContent \/ WriteError
  <2>1. UNCHANGED <<job, last, container>> /\ (pc' = "report" => failed')
    BY <1>5 DEF WriteContent, WriteError
  <2>2. files'[p] = files[p] \/ files'[p] = job.config
    BY <1>5 DEF WriteContent, WriteError, TypeOK
  <2>3. job.config # NotSet /\ job.config # Torn
    BY <1>2, <1>5, ConfigFacts DEF WriteContent, WriteError
  <2> QED BY <2>1, <2>2, <2>3 DEF TornInv
<1>6. CASE IsRunning
  <2>1. /\ UNCHANGED <<job, last, container, files>> /\ pc = "check"
        /\ pc' = "report" => job.config = last
    BY <1>6 DEF IsRunning, machine
  <2>2. job.config # NotSet
    BY <1>2, <2>1, ConfigFacts
  <2> QED BY <2>1, <2>2 DEF TornInv
<1>7. CASE Report \/ ReportError
  <2>1. /\ UNCHANGED <<job, container, files>> /\ pc' = "idle" /\ pc = "report"
        /\ (last' = last \/ (last' = job.config /\ ~failed))
    BY <1>7 DEF Report, ReportError, machine
  <2>2. CASE last' = last
    BY <2>1, <2>2 DEF TornInv
  <2>3. CASE last' = job.config /\ ~failed
    <3>1. files[p] # NotSet /\ files[p] # Torn
      BY <1>2, <2>1, <2>3, ConfigFacts
    <3> QED BY <2>1, <2>3, <3>1 DEF TornInv
  <2> QED BY <2>1, <2>2, <2>3
<1>8. CASE Start \/ DockerError
  <2>1. UNCHANGED <<job, last, files>> /\ pc' = "report"
    BY <1>8 DEF Start, DockerError
  <2>2. \/ container' = container /\ failed'
        \/ container' = NoContainer
        \/ container' = NewContainer /\ pc = "start"
    BY <1>8 DEF Start, DockerError
  <2>3. container' # container => ~container'.torn
    BY <2>2, NewFields, NoFields
  <2>4. container'.torn => container' = container /\ failed'
    BY <2>2, <2>3, NewFields, NoFields
  <2> QED BY <2>1, <2>4 DEF TornInv
<1>9. CASE PushConfig \/ PushError
  <2>1. UNCHANGED <<job, last, files>>
    BY <1>9 DEF PushConfig, PushError
  <2>2. \/ container' = container /\ failed'
        \/ ~container'.torn
    BY <1>9, PushStep
  <2> QED BY <2>1, <2>2 DEF TornInv
<1>10. CASE ContainerExit
  <2>1. UNCHANGED <<job, last, files, pc, failed>>
    BY <1>10 DEF ContainerExit
  <2>2. container'.torn = container.torn
    BY <1>3, <1>10, ExitStep DEF ContainerExit
  <2> QED BY <2>1, <2>2 DEF TornInv
<1>11. CASE DockerRestart \/ Reload
  <2>1. UNCHANGED <<job, last, files, pc, failed>>
    BY <1>11 DEF DockerRestart, Reload
  <2>2. container.path = p /\ (~container'.torn \/ files[p] = Torn)
    BY <1>11, RereadStep
  <2>3. files[p] = Torn => ~(pc = "report" /\ ~failed)
    BY <1>2, ConfigFacts
  <2> QED BY <2>1, <2>2, <2>3 DEF TornInv
<1>12. CASE SyncBegin \/ PushRefused \/ AgentRestart
  <2>1. /\ UNCHANGED <<container, files>> /\ last' \in {last, NotSet}
        /\ pc' = "report" => failed'
    BY <1>12 DEF SyncBegin, PushRefused, AgentRestart, machine
  <2> QED BY <2>1 DEF TornInv
<1>13. ASSUME NEW g \in Groups, EditGroup(g) PROVE FALSE
  BY <1>13, EditAppends DEF TypeOK
<1> QED
  BY <1>4, <1>5, <1>6, <1>7, <1>8, <1>9, <1>10, <1>11, <1>12, <1>13
  DEF Next, SyncNext, FailNext

LEMMA OrderStep ==
    ASSUME TypeOK, ContainerOK(container), SyncInv, AskedInv, NEW p \in Path, OrderInv(p),
           [Next]_vars
    PROVE  OrderInv(p)'
<1>1. CASE \E g \in Groups : EditGroup(g)
  BY <1>1, EditOrder
<1>2. CASE UNCHANGED asked
  <2>1. SUFFICES ASSUME OnwardIn(asked), OnePath(asked, p) PROVE Ordered(p)' /\ TornInv(p)'
    BY <1>2 DEF OrderInv
  <2>2. Ordered(p) /\ TornInv(p)
    BY <2>1 DEF OrderInv
  <2>3. job.path = p /\ (container.exists => container.path = p)
    BY <2>1 DEF AskedInv, OnePath
  <2>18. TornInv(p)'
    <3>1. CASE UNCHANGED vars
      BY <2>2, <3>1 DEF TornInv, vars
    <3> QED BY <1>2, <2>2, <2>3, <3>1, TornStep
  <2>19. SUFFICES Ordered(p)'
    BY <2>18
  <2>4. container \in Container /\ (container.up => container.exists)
    BY NoFields DEF ContainerOK
  <2>5. \A a : NotAfter(asked, a, a) /\ NotAfter(asked, a, Wanted.config)
    BY NotAfterItself, NotAfterWanted DEF TypeOK, SyncInv, Wanted
  <2>6. /\ pc \in {"check", "start", "push"} => files[p] = job.config /\ job.config \in Config
        /\ pc = "report" /\ ~failed => files[p] = job.config /\ job.config \in Config
        /\ pc \in {"write", "writing"} => job.config \in Config
    BY <2>3 DEF SyncInv, Working, Written
  <2>7. CASE SyncBegin
    BY <2>2, <2>5, <2>7 DEF SyncBegin, Ordered, Working, machine
  <2>8. CASE WriteConfigFile \/ WriteContent \/ WriteError
    <3>1. files'[p] \in {files[p], job.config, Torn}
      BY <2>3, <2>8 DEF WriteConfigFile, WriteContent, WriteError, TypeOK
    <3>2. files'[p] \in {files[p], job.config} \/ files'[p] \notin Config
      BY <3>1, ConfigFacts
    <3>3. /\ UNCHANGED <<asked, job, last, container>> /\ pc \in {"write", "writing"}
          /\ \/ pc' \in {"writing", "check"}
             \/ pc' = "report" /\ failed'
      BY <2>8 DEF WriteConfigFile, WriteContent, WriteError, Fail
    <3> QED BY <2>2, <2>5, <2>6, <3>2, <3>3 DEF Ordered, Working
  <2>9. CASE IsRunning \/ PushRefused
    <3>1. UNCHANGED <<asked, job, last, container, files>>
      BY <2>9 DEF IsRunning, PushRefused, machine
    <3>2. /\ pc \in {"check", "push"} /\ pc' \in {"start", "push", "report"}
          /\ pc' = "report" /\ ~failed' => ~container.up \/ job.config = last
      BY <2>9 DEF IsRunning, PushRefused
    <3> QED BY <2>2, <2>6, <3>1, <3>2, ConfigFacts DEF Ordered, Working
  <2>10. CASE Report \/ ReportError
    <3>1. /\ UNCHANGED <<asked, job, container, files>>
          /\ pc = "report" /\ pc' = "idle"
          /\ \/ last' = last
             \/ last' = job.config /\ ~failed
      BY <2>10 DEF Report, ReportError, machine, Fail
    <3> QED BY <2>2, <2>5, <2>6, <3>1 DEF Ordered, Working
  <2>11. CASE AgentRestart
    <3>1. UNCHANGED <<asked, job, container>> /\ pc' = "idle" /\ last' = NotSet
      BY <2>11 DEF AgentRestart, Fail, machine
    <3>2. UNCHANGED files
      BY <2>11 DEF AgentRestart, machine
    <3> QED BY <2>2, <3>1, <3>2 DEF Ordered, Working
  <2>12. CASE Start \/ DockerError
    <3>1. UNCHANGED <<asked, job, last, files>>
      BY <2>12 DEF Start, DockerError, Fail
    <3>2. /\ pc' = "report"
          /\ \/ container' = container /\ failed'
             \/ container' = NoContainer
             \/ container' = NewContainer /\ pc = "start"
      BY <2>12 DEF Start, DockerError
    <3>3. CASE container' = container /\ failed'
      BY <2>2, <3>1, <3>2, <3>3 DEF Ordered, Working
    <3>4. CASE container' = NoContainer
      BY <2>2, <3>1, <3>2, <3>4, NoFields DEF Ordered, Working
    <3>5. CASE container' = NewContainer /\ pc = "start"
      <4>1. container'.config = job.config
        BY <3>5, NewFields
      <4> QED BY <2>2, <2>5, <2>6, <3>1, <3>2, <3>5, <4>1 DEF Ordered, Working
    <3> QED BY <3>2, <3>3, <3>4, <3>5
  <2>13. CASE PushConfig \/ PushError
    <3>1. UNCHANGED <<asked, job, last, files>> /\ pc = "push" /\ pc' = "report"
      BY <2>13 DEF PushConfig, PushError, Fail
    <3>2. \/ container' = container /\ failed'
          \/ container'.config = job.config
      BY <2>13, PushStep
    <3> QED BY <2>2, <2>5, <2>6, <3>1, <3>2 DEF Ordered, Working
  <2>14. CASE ContainerExit
    <3>1. UNCHANGED <<asked, job, last, files, pc, failed>>
      BY <2>14 DEF ContainerExit, Fail
    <3>2. /\ container'.exists = container.exists /\ ~container'.up
          /\ container'.config = container.config
      BY <2>4, <2>14, ExitStep DEF ContainerExit
    <3> QED BY <2>2, <3>1, <3>2 DEF Ordered, Working
  <2>15. CASE DockerRestart \/ Reload
    <3>1. UNCHANGED <<asked, job, last, files, pc, failed>>
      BY <2>15 DEF DockerRestart, Reload
    <3>2. /\ container.exists
          /\ \/ files[p] \in Config /\ container'.config = files[p]
             \/ container'.config = container.config /\ container'.torn
      BY <2>3, <2>15, RereadStep
    <3> QED BY <2>2, <2>5, <2>6, <3>1, <3>2 DEF Ordered, Working
  <2>16. CASE UNCHANGED vars
    BY <2>2, <2>16 DEF Ordered, Working, vars
  <2>17. CASE \E g \in Groups : EditGroup(g)
    BY <1>1, <1>2, <2>1, <2>17 DEF OrderInv
  <2> QED
    BY <2>7, <2>8, <2>9, <2>10, <2>11, <2>12, <2>13, <2>14, <2>15, <2>16, <2>17
    DEF Next, SyncNext, FailNext
<1> QED
  BY <1>1, <1>2
  DEF Next, SyncNext, FailNext, vars, SyncBegin, WriteConfigFile, WriteContent, IsRunning, Start,
      PushConfig, PushRefused, Report, WriteError, DockerError, PushError, ReportError,
      AgentRestart, ContainerExit, DockerRestart, Reload, Fail

-----------------------------------------------------------------------------
(* Ages                                                                    *)

\* A set of natural numbers with a bound has a greatest element: the least of
\* its bounds, which the well-founded order of the natural numbers provides.
LEMMA MaxExists ==
    ASSUME NEW S \in SUBSET Nat, S # {}, NEW n \in Nat, \A x \in S : x <= n
    PROVE  Max(S) \in S /\ \A x \in S : x <= Max(S)
<1> DEFINE R == OpToRel(<, Nat)
           T == {u \in Nat : \A x \in S : x <= u}
<1>1. IsWellFoundedOn(R, Nat)
  BY NatLessThanWellFounded
<1>2. T \subseteq Nat /\ T # {}
  OBVIOUS
<1>3. \A x, y \in Nat : x < y => <<x, y>> \in R
  BY DEF OpToRel
<1> HIDE DEF R
<1>4. PICK u \in T : \A y \in T : ~(<<y, u>> \in R)
  BY <1>1, <1>2, WFMin
<1>5. u \in S
  <2>1. SUFFICES ASSUME u \notin S PROVE FALSE
    OBVIOUS
  <2>2. \A x \in S : x < u
    BY <2>1
  <2>3. PICK x \in S : x \in Nat /\ x < u
    BY <2>2
  <2>4. u \in Nat /\ u - 1 \in Nat /\ u - 1 < u
    BY <2>3
  <2>5. u - 1 \in T
    BY <2>2, <2>4
  <2>6. <<u - 1, u>> \in R
    BY <1>3, <2>4
  <2> QED BY <1>4, <2>5, <2>6
<1>6. \E x \in S : \A y \in S : x >= y
  BY <1>5
<1>7. Max(S) \in S /\ \A y \in S : Max(S) >= y
  BY <1>6, Zenon DEF Max
<1> QED BY <1>7

\* Age, for any sequence.
AgeIn(seq, c) == Max({0} \cup {i \in DOMAIN seq : seq[i].config = c})

LEMMA AgeFacts ==
    ASSUME NEW seq \in Seq(Settings), NEW c
    PROVE  /\ AgeIn(seq, c) \in Nat
           /\ AgeIn(seq, c) # 0 => AgeIn(seq, c) \in DOMAIN seq
                                /\ seq[AgeIn(seq, c)].config = c
           /\ \A i \in DOMAIN seq : seq[i].config = c => i <= AgeIn(seq, c)
<1> DEFINE S == {0} \cup {i \in DOMAIN seq : seq[i].config = c}
<1>1. Len(seq) \in Nat /\ DOMAIN seq = 1 .. Len(seq)
  OBVIOUS
<1>2. S \in SUBSET Nat /\ S # {} /\ \A x \in S : x <= Len(seq)
  BY <1>1
<1>3. AgeIn(seq, c) \in S /\ \A x \in S : x <= AgeIn(seq, c)
  <2> HIDE DEF S
  <2>1. Max(S) \in S /\ \A x \in S : x <= Max(S)
    BY <1>1, <1>2, MaxExists
  <2> QED BY <2>1 DEF AgeIn, S
<1> QED BY <1>2, <1>3

\* NotAfter is the order of ages.
LEMMA NotAfterAge ==
    ASSUME NEW seq \in Seq(Settings), NEW a, NEW b, NotAfter(seq, a, b)
    PROVE  AgeIn(seq, b) >= AgeIn(seq, a)
<1>1. AgeIn(seq, a) \in Nat /\ AgeIn(seq, b) \in Nat
  BY AgeFacts
<1>2. CASE AgeIn(seq, a) = 0
  BY <1>1, <1>2
<1>3. CASE AgeIn(seq, a) # 0
  <2>1. AgeIn(seq, a) \in DOMAIN seq /\ seq[AgeIn(seq, a)].config = a
    BY <1>3, AgeFacts
  <2>2. PICK j \in DOMAIN seq : j >= AgeIn(seq, a) /\ seq[j].config = b
    BY <2>1 DEF NotAfter
  <2>3. j <= AgeIn(seq, b) /\ j \in Nat
    BY <2>2, AgeFacts
  <2> QED BY <1>1, <2>2, <2>3
<1> QED BY <1>2, <1>3

\* A new wish makes no age smaller.
LEMMA AppendAge ==
    ASSUME NEW seq \in Seq(Settings), NEW s \in Settings, NEW c
    PROVE  AgeIn(Append(seq, s), c) >= AgeIn(seq, c)
<1> DEFINE new == Append(seq, s)
<1>1. /\ new \in Seq(Settings)
      /\ \A i \in DOMAIN seq : i \in DOMAIN new /\ new[i] = seq[i]
  OBVIOUS
<1>2. AgeIn(seq, c) \in Nat /\ AgeIn(new, c) \in Nat
  BY <1>1, AgeFacts
<1> HIDE DEF new
<1>3. CASE AgeIn(seq, c) = 0
  BY <1>2, <1>3 DEF new
<1>4. CASE AgeIn(seq, c) # 0
  <2>1. AgeIn(seq, c) \in DOMAIN new /\ new[AgeIn(seq, c)].config = c
    BY <1>1, <1>4, AgeFacts
  <2>2. AgeIn(seq, c) <= AgeIn(new, c)
    BY <1>1, <2>1, AgeFacts
  <2> QED BY <1>2, <2>2 DEF new
<1> QED BY <1>3, <1>4

-----------------------------------------------------------------------------
(* The results                                                             *)

LEMMA InitAgentInv == Init => AgentInv
<1> SUFFICES ASSUME Init PROVE AgentInv
  OBVIOUS
<1> DEFINE first == SettingsOf(FirstGroup)
<1>1. first \in Settings
  BY AgentAssumption DEF Settings
<1> HIDE DEF first
<1>2. /\ asked = <<first>> /\ asked \in Seq(Settings) /\ Len(asked) = 1
      /\ asked[1] = first /\ job = first /\ DOMAIN asked = {1}
  BY <1>1 DEF Init, Wanted, first
<1>3. container = NoContainer /\ pc = "idle" /\ last = NotSet /\ failed = FALSE
  BY DEF Init
<1>4. files \in [Path -> Config \cup {NotSet, Torn}] /\ \A p \in Path : files[p] \notin Config
  BY ConfigFacts DEF Init
<1>5. TypeOK
  BY <1>1, <1>2, <1>3, <1>4 DEF TypeOK, Init, NoStatus
<1>6. SyncInv /\ ContainerOK(container)
  BY <1>2, <1>3, NoFields DEF SyncInv, Working, Written
<1>7. AskedInv
  BY <1>2, <1>3, <1>4, NoFields DEF AskedInv
<1>8. \A p \in Path : OrderInv(p)
  BY <1>3, <1>4, NoFields DEF OrderInv, Ordered, TornInv, Working
<1> QED BY <1>5, <1>6, <1>7, <1>8 DEF AgentInv

LEMMA AgentInvInductive == AgentInv /\ [Next]_vars => AgentInv'
<1> SUFFICES ASSUME AgentInv, [Next]_vars PROVE AgentInv'
  OBVIOUS
<1> USE DEF AgentInv
<1>1. TypeOK' /\ ContainerOK(container')
  BY TypeStep, ContainerStep
<1>2. SyncInv' /\ AskedInv'
  BY SyncStep, AskedStep
<1>3. \A p \in Path : OrderInv(p)'
  BY OrderStep
<1>4. (\A p \in Path : OrderInv(p))'
  BY <1>3
<1> QED BY <1>1, <1>2, <1>4

LEMMA AlwaysAgentInv == Spec => []AgentInv
BY InitAgentInv, AgentInvInductive, PTL DEF Spec

\* The variables of the agent and of the machine have their types.
THEOREM AlwaysTypeOK == Spec => []TypeOK
<1>1. AgentInv => TypeOK
  BY DEF AgentInv
<1> QED BY <1>1, AlwaysAgentInv, PTL

\* While TiProxy mounts the one file the agent writes.
LEMMA MountedOrdered ==
    ASSUME AgentInv, Onward, Mounted, container.exists
    PROVE  /\ container.path \in Path
           /\ Ordered(container.path) /\ TornInv(container.path)
<1>1. container.path \in Path
  BY NoFields DEF AgentInv, ContainerOK
<1>2. OnwardIn(asked) /\ OnePath(asked, container.path)
  BY DEF Onward, Mounted, OnwardIn, OnePath
<1>3. OrderInv(container.path)
  BY <1>1 DEF AgentInv
<1> QED BY <1>1, <1>2, <1>3 DEF OrderInv

\* lastConfigHash is safe to skip a push by: TiProxy, while it runs, has what
\* the agent remembers or something newer, whatever crashed and timed out; and
\* if it runs with half a file, the group asks for something else by now, so
\* that the next syncOnce does push.
THEOREM AlwaysLastIsServed == Spec => []LastIsServed
<1>1. AgentInv => LastIsServed
  <2> SUFFICES ASSUME AgentInv, Onward, container.up, Mounted, last # NotSet
               PROVE  IF container.torn THEN Wanted.config # last
                      ELSE ServedAge >= Age(last)
    BY DEF LastIsServed
  <2>1. container.exists
    BY NoFields DEF AgentInv, ContainerOK
  <2>2. CASE container.torn
    <3>1. Left(asked, last)
      BY <2>1, <2>2, MountedOrdered DEF TornInv
    <3>2. OnwardIn(asked) /\ asked \in Seq(Settings)
      BY DEF Onward, OnwardIn, AgentInv, TypeOK
    <3>3. asked[Len(asked)].config # last
      BY <3>1, <3>2, LeftNotWanted
    <3> QED BY <2>2, <3>3 DEF Wanted
  <2>3. CASE ~container.torn
    <3>1. NotAfter(asked, last, container.config)
      BY <2>1, <2>3, MountedOrdered DEF Ordered
    <3>2. AgeIn(asked, container.config) >= AgeIn(asked, last)
      BY <3>1, NotAfterAge DEF AgentInv, TypeOK
    <3> QED BY <2>3, <3>2 DEF ServedAge, Age, AgeIn
  <2> QED BY <2>2, <2>3
<1> QED BY <1>1, AlwaysAgentInv, PTL

\* What a step makes TiProxy run is no older than what it ran.
LEMMA ServedStep ==
    ASSUME AgentInv, Next, UNCHANGED asked, container.exists, container'.exists,
           Onward', Mounted'
    PROVE  NotAfter(asked, container.config, container'.config)
<1> USE DEF AgentInv
<1>1. Onward /\ \A i \in DOMAIN asked : asked[i].path = container'.path
  BY DEF Onward, Mounted
<1>2. container.path = container'.path
  BY <1>1 DEF AskedInv
<1>3. container.path \in Path /\ Ordered(container.path)
  BY <1>1, <1>2, MountedOrdered DEF Mounted
<1>4. job.path = container.path
  BY <1>1, <1>2 DEF AskedInv
<1>5. \A a : NotAfter(asked, a, a)
  BY NotAfterItself DEF TypeOK
<1>6. CASE container'.config = container.config
  BY <1>5, <1>6
<1>7. CASE Start \/ DockerError
  <2>1. \/ container' = container
        \/ container' = NoContainer
        \/ container' = NewContainer /\ pc = "start"
    BY <1>7 DEF Start, DockerError
  <2>2. CASE container' = NewContainer /\ pc = "start"
    <3>1. container'.config = job.config
      BY <2>2, NewFields
    <3> QED BY <1>3, <2>2, <3>1 DEF Ordered, Working
  <2> QED BY <1>6, <2>1, <2>2, NoFields
<1>8. CASE PushConfig \/ PushError
  <2>1. pc = "push" /\ container'.config \in {container.config, job.config}
    BY <1>8, PushStep DEF PushConfig, PushError
  <2> QED BY <1>3, <1>6, <2>1 DEF Ordered, Working
<1>9. CASE DockerRestart \/ Reload
  BY <1>3, <1>5, <1>9, RereadStep DEF Ordered
<1>10. CASE ContainerExit
  BY <1>6, <1>10, ExitStep DEF ContainerExit, ContainerOK
<1>11. CASE UNCHANGED container
  BY <1>6, <1>11
<1> QED
  BY <1>7, <1>8, <1>9, <1>10, <1>11
  DEF Next, SyncNext, FailNext, EditGroup, SyncBegin, WriteConfigFile, WriteContent, IsRunning,
      PushRefused, Report, WriteError, ReportError, AgentRestart, machine

\* The configuration TiProxy runs with, or ran with before it found a file half
\* written, is never replaced by an older one of the group, not even when TiProxy
\* crashes and Docker restarts it from the file at any point of syncOnce.
THEOREM TiProxyNeverOlder == Spec => NeverOlder
<1> DEFINE A == container.exists /\ container'.exists /\ Onward' /\ Mounted' =>
                    ServedAge' >= ServedAge
<1>1. AgentInv /\ [Next]_vars => [A]_vars
  <2> SUFFICES ASSUME AgentInv, Next, container.exists, container'.exists,
                      Onward', Mounted'
               PROVE  ServedAge' >= ServedAge
    OBVIOUS
  <2>1. asked \in Seq(Settings)
    BY DEF AgentInv, TypeOK
  <2>2. ASSUME NEW g \in Groups, EditGroup(g) PROVE ServedAge' >= ServedAge
    <3>1. UNCHANGED container
      BY <2>2 DEF EditGroup, machine
    <3>2. asked' = Append(asked, SettingsOf(g)) /\ SettingsOf(g) \in Settings
      BY <2>2, EditAppends DEF AgentInv
    <3>3. AgeIn(asked', container.config) >= AgeIn(asked, container.config)
      BY <2>1, <3>2, AppendAge
    <3> QED BY <3>1, <3>3 DEF ServedAge, Age, AgeIn
  <2>3. CASE UNCHANGED asked
    <3>1. NotAfter(asked, container.config, container'.config)
      BY <2>3, ServedStep
    <3>2. AgeIn(asked, container'.config) >= AgeIn(asked, container.config)
      BY <2>1, <3>1, NotAfterAge
    <3> QED BY <2>3, <3>2 DEF ServedAge, Age, AgeIn
  <2> QED
    BY <2>2, <2>3
    DEF Next, SyncNext, FailNext, SyncBegin, WriteConfigFile, WriteContent, IsRunning, Start,
        PushConfig, PushRefused, Report, WriteError, DockerError, PushError, ReportError,
        AgentRestart, ContainerExit, DockerRestart, Reload, Fail
<1> QED BY <1>1, AlwaysAgentInv, PTL DEF NeverOlder, Spec

=============================================================================
