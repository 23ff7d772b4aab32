----------------------------- MODULE DoltServices -----------------------------
(***************************************************************************)
(* The services of a program with versioned data, as its context starts    *)
(* and stops them: the Dolt daemon (DoltDaemon), and above it the workbench*)
(* (thinking_executor_data/dolt/ui.py), a container (DockerContainers)     *)
(* that is connected to the daemon's server.                               *)
(*                                                                         *)
(* The context initializes DoltUi after the daemon it requires.  If it     *)
(* raises, the daemon is deinitialized; so it is after DoltUi has been,    *)
(* whether that raised or not.  No deinitialize() gets to what a killed    *)
(* process had started.                                                    *)
(***************************************************************************)
EXTENDS DoltDaemon

CONSTANTS
  UiPorts,     \* the host ports of the workbench
  Store,       \* the container path of its connection store
  StoreOf      \* project |-> the host directory mounted there

VARIABLES
  containers,   \* see DockerContainers
  ui,        \* project |-> where its process stands in the lifecycle of DoltUi
  \* History:
  leaked     \* containers that nobody has a handle to, for something went wrong

K == INSTANCE DockerContainers

serviceVars == <<daemonVars, containers, ui, leaked>>

UiPhase == {"before", "create", "start", "follow", "running", "remove", "after"}

Container == Server

\* Each process runs the workbench once.
Own(p) == Child(p)

Ui(p, phase) == ui' = [ui EXCEPT ![p] = phase]

SInit ==
  /\ Init
  /\ K!Init
  /\ ui = [p \in Projects |-> "before"]
  /\ leaked = {}

-----------------------------------------------------------------------------
\* DoltUi.initialize: the connection store is written, and an image pulled if there is
\* none, ...
WriteStore(p) ==
  /\ pc[p] = "up" /\ ui[p] = "before"
  /\ Ui(p, "create")
  /\ UNCHANGED <<daemonVars, containers, leaked>>

\* ... then DockerClient.run creates the container, starts it, ...
CreateContainer(p) ==
  /\ ui[p] = "create"
  /\ K!Create(Own(p), UiPorts, <<K!Mount(Store, StoreOf[p], "rw")>>)
  /\ Ui(p, "start")
  /\ UNCHANGED <<daemonVars, leaked>>

StartContainer(p) ==
  /\ ui[p] = "start"
  /\ K!StartCreated(Own(p))
  /\ Ui(p, "follow")
  /\ UNCHANGED <<daemonVars, leaked>>

\* ... and has a thread consume its logs.
FollowLogs(p) ==
  /\ ui[p] = "follow"
  /\ Ui(p, "running")
  /\ UNCHANGED <<daemonVars, containers, leaked>>

\* run() raises: there is no handle yet to what it has created.
RunRaises(p) ==
  /\ leaked' = leaked \union ({Own(p)} \intersect DOMAIN containers)
  /\ Ui(p, "after")
  /\ UNCHANGED <<machine, pc, kept, tries, starts, history, containers>>

\* The engine refuses the start, as long as another container has one of the ports.
StartRefused(p) ==
  /\ ui[p] = "start" /\ ~K!PortsFree(Own(p))
  /\ RunRaises(p)
  /\ UNCHANGED faults

UiFails(p) ==
  /\ ui[p] \in {"create", "start", "follow"}
  /\ Fault(p)
  /\ RunRaises(p)

-----------------------------------------------------------------------------
\* DoltUi.deinitialize: DockerContainer.stop
StopContainer(p) ==
  /\ ui[p] = "running"
  /\ K!StopBackend(Own(p))
  /\ Ui(p, "remove")
  /\ UNCHANGED <<daemonVars, leaked>>

RemoveContainer(p) ==
  /\ ui[p] = "remove"
  /\ K!Remove(Own(p))
  /\ Ui(p, "after")
  /\ UNCHANGED <<daemonVars, leaked>>

StopFails(p) ==
  /\ ui[p] \in {"running", "remove"}
  /\ Fault(p)
  /\ leaked' = leaked \union {Own(p)}
  /\ Ui(p, "after")
  /\ UNCHANGED <<machine, pc, kept, tries, starts, history, containers>>

\* The container's program ends by itself.
ContainerExits(p) ==
  /\ \E c \in DOMAIN containers : c.of = p /\ K!Exit(c)
  /\ Fault(p)
  /\ UNCHANGED <<machine, pc, kept, tries, starts, history, ui, leaked>>

-----------------------------------------------------------------------------
\* The daemon is deinitialized last.
SDeinitializing(p) ==
  /\ ui[p] = "after"
  /\ Deinitializing(p)
  /\ ui' = IF pc'[p] = "off" THEN [ui EXCEPT ![p] = "before"] ELSE ui
  /\ UNCHANGED <<containers, leaked>>

SInitializing(p) ==
  /\ Start(p) \/ Initializing(p)
  /\ UNCHANGED <<containers, ui, leaked>>

\* When the process ends, what it had up stays, and is not deinitialized.
SFailing(p) ==
  /\ Failing(p)
  /\ IF pc'[p] = "off"
     THEN /\ Ui(p, "before")
          /\ leaked' = leaked \union ({Own(p)} \intersect DOMAIN containers)
     ELSE UNCHANGED <<ui, leaked>>
  /\ UNCHANGED <<containers>>

SServing(p) ==
  /\ Serving(p)
  /\ UNCHANGED <<containers, ui, leaked>>

\* Initializing and running the workbench, and what ends it
UiUp(p) == WriteStore(p) \/ CreateContainer(p) \/ StartContainer(p) \/ FollowLogs(p)

UiDown(p) == StopContainer(p) \/ RemoveContainer(p)

UiAccidents(p) == StartRefused(p) \/ UiFails(p) \/ StopFails(p) \/ ContainerExits(p)

SNext == \E p \in Projects :
  \/ SInitializing(p) \/ SServing(p) \/ SFailing(p) \/ SDeinitializing(p)
  \/ UiUp(p) \/ UiDown(p) \/ UiAccidents(p)

SSpec == SInit /\ [][SNext]_serviceVars

\* Each process takes its next step, each call returns or raises, somebody starts the
\* program again, and the server gets its port or exits.  Nothing that goes wrong is fair.
SFairness == \A p \in Projects :
  /\ WF_serviceVars(SInitializing(p)) /\ WF_serviceVars(SServing(p))
  /\ WF_serviceVars(SDeinitializing(p))
  /\ WF_serviceVars(UiUp(p)) /\ WF_serviceVars(UiDown(p))
  /\ WF_serviceVars(StartRefused(p))

SFairSpec == SSpec /\ SFairness

-----------------------------------------------------------------------------
(***************************************************************************)
(* Properties                                                              *)
(***************************************************************************)
STypeOK ==
  /\ TypeOK
  /\ DOMAIN containers \subseteq Container
  /\ \A c \in DOMAIN containers :
       containers[c].state \in K!State /\ containers[c].ports = UiPorts
  /\ ui \in [Projects -> UiPhase]
  /\ leaked \subseteq Container

\* A container exists as long as somebody can stop it, or for something went wrong:
\* run() raised before it returned a handle, stop() raised, the process was killed.
NoStrayContainer ==
  \A c \in DOMAIN containers :
    \/ c = Own(c.of) /\ ui[c.of] \notin {"before", "after"}
    \/ c \in leaked

\* What runs on the machine belongs to somebody who will stop it, or was abandoned.
NothingLeft == NoStrayServer /\ NoStrayContainer

\* The workbench never outlives, or precedes, the server it shows: while the process has
\* its container, a server answers on the port that the connection store names.
UiHasServer ==
  \A p \in Projects : ui[p] \notin {"before", "after"} => pc[p] = "up" /\ Answers(p)

\* Neither a program nor a workbench talks to a server that is not there.
ServersAnswer == UpIsServed /\ UiHasServer

\* However the workbench ends, and whether it ever ran, the process ends and takes the
\* daemon down.
UiEndsDown == \A p \in Projects : ui[p] = "after" ~> pc[p] = "off"

\* Whatever earlier processes left, a project gets up; and whatever fails, it goes down.
UpAndDown == EventuallyUp /\ UiEndsDown

=============================================================================
