--------------------------- MODULE DockerContainers ---------------------------
(***************************************************************************)
(* What DockerClient and DockerContainer (containers/docker_client.py) do  *)
(* to the Docker engine: the calls that run() and stop() consist of, each  *)
(* an action, because the process may die, or the engine may refuse,       *)
(* between any two.  The engine is external: a container is created, then  *)
(* running, then exited, and starts only if its host ports are free.       *)
(***************************************************************************)
EXTENDS Naturals, Sequences

VARIABLE containers   \* container |-> its state, the host ports and the mounts it has

State == {"created", "running", "exited"}

\* One mount of the argument `volumes`, a dict from container paths
Mount(path, host, mode) == [path |-> path, host |-> host, mode |-> mode]

\* _prepare_volumes: what docker-py takes is keyed by the host's side, so of two paths
\* that mount one volume, the last one wins.
PreparedVolumes(mounts) ==
  [h \in {mounts[i].host : i \in DOMAIN mounts} |->
     LET last == CHOOSE i \in DOMAIN mounts :
                   mounts[i].host = h /\ \A j \in DOMAIN mounts : j > i => mounts[j].host # h
     IN  [bind |-> mounts[last].path, mode |-> mounts[last].mode]]

Init == containers = [c \in {} |-> [state |-> "created", ports |-> {}, volumes |-> <<>>]]

\* containers.run, with detach, is two calls to the engine.
Create(c, ports, mounts) ==
  /\ c \notin DOMAIN containers
  /\ containers' = [x \in DOMAIN containers \union {c} |->
       IF x = c
       THEN [state |-> "created", ports |-> ports, volumes |-> PreparedVolumes(mounts)]
       ELSE containers[x]]

PortsFree(c) ==
  \A x \in DOMAIN containers :
    containers[x].state = "running" => containers[x].ports \intersect containers[c].ports = {}

StartCreated(c) ==
  /\ containers[c].state = "created"
  /\ PortsFree(c)
  /\ containers' = [containers EXCEPT ![c].state = "running"]

\* The program in the container ends by itself.
Exit(c) ==
  /\ containers[c].state = "running"
  /\ containers' = [containers EXCEPT ![c].state = "exited"]

\* stop(): the first call, which is idempotent, ...
StopBackend(c) ==
  /\ c \in DOMAIN containers
  /\ containers' = [containers EXCEPT ![c].state = "exited"]

\* ... the second, which returns when the container has exited, ...
Waited(c) == c \in DOMAIN containers /\ containers[c].state = "exited"

\* ... and the third.
Remove(c) ==
  /\ Waited(c)
  /\ containers' = [x \in DOMAIN containers \ {c} |-> containers[x]]

=============================================================================
