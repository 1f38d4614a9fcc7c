------------------------------ MODULE Sandboxes ------------------------------
(***************************************************************************)
(* The sandboxes of orqest/sandbox.  A DockerSandbox is an async context   *)
(* manager: entering it starts a container (the Docker daemon is external),*)
(* waits for its port and server and connects; leaving it disconnects and  *)
(* removes the container.  In the container the session is authenticated   *)
(* and the executor sets up the agent's venv under a lock, then runs the   *)
(* code beside other calls.  The subprocess and in-process sandboxes run   *)
(* it on the host.  A container that is gone frees its port for another.   *)
(***************************************************************************)
EXTENDS Integers

CONSTANTS
    Sandboxes,      \* DockerSandbox objects, one session each
    MaxContainers,  \* bound: containers started
    Ports,          \* host ports Docker may publish
    Executions,     \* calls of execute, each made once
    Agents,         \* agent_id
    Codes,          \* implementations: [imports, names, does]
    Imports,        \* allowed_imports of the calls
    Available,      \* modules that can be imported
    ForbiddenNames, \* _FORBIDDEN_NAMES and _FORBIDDEN_ATTRIBUTES
    Specs,          \* versions of one package that calls may declare
    AllowedSpecs,   \* those whose package is in allowed_packages
    None

ASSUME MaxContainersAssumption == MaxContainers \in Nat
ASSUME AllowedSpecsAssumption == AllowedSpecs \subseteq Specs

VARIABLES
    phase,      \* sandbox -> where its entry or exit is
    container,  \* sandbox -> _container
    port,       \* sandbox -> _published_port
    docker,     \* container -> [state, session, port]
    mishap,     \* containers whose entry failed, exit was cancelled, or removal was refused
    venv, installed, lock,   \* container -> agent -> ...
    pc, request \* execution -> ...

host == <<phase, container, port>>
inside == <<venv, installed, lock>>
sandboxVars == <<host, docker, mishap, inside, pc, request>>

Containers == 1..MaxContainers
UnderWay == {"waiting", "creating", "installing", "running"}
(* An ExecutionResult, or a ValidationError. *)
Settled == {"success", "failure", "raised"}

(* A call that is under way or has been: the sandbox and agent, None for a *)
(* subprocess on the host, code, dependency, and the container it is in.   *)
Call == [sandbox : Sandboxes \cup {None}, agent : Agents \cup {None}, code : Codes,
         dep : Specs \cup {None}, at : Containers \cup {None}]

ASSUME NoneAssumption ==
    None \notin Sandboxes \cup Ports \cup Executions \cup Agents \cup Specs \cup Containers \cup Call

SandboxTypeOK ==
    /\ phase \in [Sandboxes -> {"out", "port", "boot", "connect", "open", "exit"}]
    /\ container \in [Sandboxes -> Containers \cup {None}]
    /\ port \in [Sandboxes -> Ports \cup {None}]
    /\ docker \in [Containers -> [state : {"none", "created", "alive", "dead", "removed"},
                                  session : Sandboxes \cup {None}, port : Ports \cup {None}]]
    /\ mishap \subseteq Containers
    /\ venv \in [Containers -> [Agents -> {"absent", "partial", "ready"}]]
    /\ installed \in [Containers -> [Agents -> AllowedSpecs \cup {None}]]
    /\ lock \in [Containers -> [Agents -> Executions \cup {None}]]
    /\ pc \in [Executions -> {"idle", "sent"} \cup UnderWay \cup Settled]
    /\ request \in [Executions -> Call \cup {None}]

SandboxInit ==
    /\ phase = [s \in Sandboxes |-> "out"]
    /\ container = [s \in Sandboxes |-> None] /\ port = [s \in Sandboxes |-> None]
    /\ docker = [c \in Containers |-> [state |-> "none", session |-> None, port |-> None]]
    /\ mishap = {}
    /\ venv = [c \in Containers |-> [a \in Agents |-> "absent"]]
    /\ installed = [c \in Containers |-> [a \in Agents |-> None]]
    /\ lock = [c \in Containers |-> [a \in Agents |-> None]]
    /\ pc = [k \in Executions |-> "idle"] /\ request = [k \in Executions |-> None]

-----------------------------------------------------------------------------
(* Entering. *)

Alive(c) == docker[c].state = "alive"
FreePorts == Ports \ {docker[c].port : c \in {d \in Containers : Alive(d)}}
Leave(s) == phase' = [phase EXCEPT ![s] = "out"]

(* The volume is there, and containers.run starts a container, or raises:  *)
(* before anything exists, or with a container created but not started.    *)
(* Bound: a session is entered again only after it was left.  The code has *)
(* no guard for that; a nested entry would drop the container of the first. *)
Enter(s) ==
    /\ phase[s] = "out"
    /\ \E c \in Containers :
          /\ docker[c].state = "none" /\ \A d \in 1..(c - 1) : docker[d].state # "none"
          /\ \/ \E p \in FreePorts :
                   /\ docker' = [docker EXCEPT ![c] = [state |-> "alive", session |-> s, port |-> p]]
                   /\ container' = [container EXCEPT ![s] = c]
                   /\ port' = [port EXCEPT ![s] = None]
                   /\ phase' = [phase EXCEPT ![s] = "port"]
                   /\ UNCHANGED mishap
             \/ /\ docker' = [docker EXCEPT ![c] = [state |-> "created", session |-> s, port |-> None]]
                /\ mishap' = mishap \cup {c}
                /\ UNCHANGED <<container, port, phase>>
    /\ UNCHANGED <<inside, pc, request>>

(* published_port and mcp_url: where calls are sent. *)
McpUrl(s) == port[s]

Await(s, from, to) == phase[s] = from /\ phase' = [phase EXCEPT ![s] = to]

PortPublished(s) ==
    /\ Await(s, "port", "boot")
    /\ Alive(container[s])
    /\ port' = [port EXCEPT ![s] = docker[container[s]].port]
    /\ UNCHANGED <<container, docker, mishap, inside, pc, request>>

(* _wait_for_mcp_ready: whoever answers at the port will do. *)
McpReady(s) ==
    /\ Await(s, "boot", "connect")
    /\ \E c \in Containers : Alive(c) /\ docker[c].port = McpUrl(s)
    /\ UNCHANGED <<container, port, docker, mishap, inside, pc, request>>

(* _open_mcp: the connection and the one token it will ever have.  *)
McpOpened(s) ==
    /\ Await(s, "connect", "open")
    /\ UNCHANGED <<container, port, docker, mishap, inside, pc, request>>

(* A poll runs out, a call raises or the task is cancelled: __aexit__ is   *)
(* never called.                                                           *)
EntryFails(s) ==
    /\ phase[s] \in {"port", "boot", "connect"}
    /\ Leave(s)
    /\ mishap' = mishap \cup {container[s]}
    /\ UNCHANGED <<container, port, docker, inside, pc, request>>

-----------------------------------------------------------------------------
(* Leaving. *)

(* Mutant of Disconnect: an error of disconnect is not suppressed. *)
DisconnectRaises(s) ==
    /\ phase[s] = "open"
    /\ \/ phase' = [phase EXCEPT ![s] = "exit"] /\ UNCHANGED mishap
       \/ Leave(s) /\ mishap' = mishap \cup {container[s]}
       \/ Leave(s) /\ UNCHANGED mishap
    /\ UNCHANGED <<container, port, docker, inside, pc, request>>

(* disconnect ends or raises, which is suppressed; a cancellation is not.  *)
Disconnect(s) ==
    /\ phase[s] = "open"
    /\ \/ phase' = [phase EXCEPT ![s] = "exit"] /\ UNCHANGED mishap
       \/ Leave(s) /\ mishap' = mishap \cup {container[s]}
    /\ UNCHANGED <<container, port, docker, inside, pc, request>>

(* The container is gone with its workspace, a tmpfs, and the calls it had *)
(* taken are answered by a transport error.                                *)
Gone(c, state) ==
    /\ docker' = [docker EXCEPT ![c].state = state, ![c].port = None]
    /\ venv' = [venv EXCEPT ![c] = [a \in Agents |-> "absent"]]
    /\ installed' = [installed EXCEPT ![c] = [a \in Agents |-> None]]
    /\ lock' = [lock EXCEPT ![c] = [a \in Agents |-> None]]
    /\ LET taken == {k \in Executions : request[k] # None /\ request[k].at = c}
       IN /\ pc' = [k \in Executions |-> IF k \in taken /\ pc[k] \in UnderWay THEN "failure" ELSE pc[k]]
          /\ request' = [k \in Executions |-> IF k \in taken THEN None ELSE request[k]]

(* stop, then remove by force; what Docker raises is suppressed.           *)
Remove(s) ==
    /\ phase[s] = "exit"
    /\ Leave(s)
    /\ container' = [container EXCEPT ![s] = None]
    /\ \/ Gone(container[s], "removed") /\ UNCHANGED mishap
       \/ mishap' = mishap \cup {container[s]} /\ UNCHANGED <<docker, inside, pc, request>>
    /\ UNCHANGED <<port>>

(* The memory limit kills the container, or it crashes. *)
ContainerDies(c) ==
    /\ Alive(c)
    /\ Gone(c, "dead")
    /\ UNCHANGED <<host, mishap>>

-----------------------------------------------------------------------------
(* collect_issues: imports that are not allowed, forbidden names. *)
Issues(code) == (code.imports \ Imports) \cup (code.names \cap ForbiddenNames)

(* The wrapper: a namespace with every allowed import, the code, its value *)
(* as JSON.                                                                *)
Outcome(code) ==
    IF Imports \subseteq Available /\ code.does = "return" THEN "success" ELSE "failure"

Settle(k, result) == pc' = [pc EXCEPT ![k] = result]

(* A sandbox that is not entered fails as data.  The others validate and   *)
(* raise; in process the code has ended when execute returns, subprocesses *)
(* may not start.                                                          *)
Answer(k, result) == Settle(k, result) /\ UNCHANGED request
Accept(k, new, next) == Settle(k, next) /\ request' = [request EXCEPT ![k] = new]

ExecuteDocker(k) ==
    \E s \in Sandboxes, a \in Agents, code \in Codes, d \in Specs \cup {None} :
        IF phase[s] # "open" THEN Answer(k, "failure")
        ELSE Accept(k, [sandbox |-> s, agent |-> a, code |-> code, dep |-> d, at |-> None], "sent")

ExecuteInProcess(k) ==
    \E code \in Codes :
        /\ code.does # "loop"
        /\ Answer(k, IF Issues(code) # {} THEN "raised" ELSE Outcome(code))

ExecuteSubprocess(k) ==
    \E code \in Codes :
        IF Issues(code) # {} THEN Answer(k, "raised")
        ELSE \/ Answer(k, "failure")
             \/ Accept(k, [sandbox |-> None, agent |-> None, code |-> code, dep |-> None, at |-> None],
                       "running")

Execute(k) ==
    /\ pc[k] = "idle"
    /\ ExecuteDocker(k) \/ ExecuteInProcess(k) \/ ExecuteSubprocess(k)
    /\ UNCHANGED <<host, docker, mishap, inside>>

(* The token of a connection, and what is left of it past its exp. *)
Mint(s) == [sid |-> s]
Decode(token, late) == IF late THEN None ELSE token

(* Mutant of Authorized: any token under the shared secret will do. *)
AuthorizedBySignature(claims, c) == claims # None

(* SessionAuthMiddleware, under a secret that sessions may share: the token*)
(* was minted for this session.                                            *)
Authorized(claims, c) == claims # None /\ claims.sid = docker[c].session

(* The request reaches the container that has the port by now, if any: it  *)
(* is refused, found invalid, or goes to the executor.                     *)
Receive(k) ==
    LET s == request[k].sandbox
        there == {c \in Containers : Alive(c) /\ docker[c].port = McpUrl(s)}
        taken(c, late) == Authorized(Decode(Mint(s), late), c) /\ Issues(request[k].code) = {}
    IN /\ pc[k] = "sent"
       /\ \E late \in BOOLEAN :
             IF \E c \in there : taken(c, late)
             THEN \E c \in there : request' = [request EXCEPT ![k].at = c] /\ Settle(k, "waiting")
             ELSE Settle(k, "failure") /\ request' = [request EXCEPT ![k] = None]
       /\ UNCHANGED <<host, docker, mishap, inside>>

-----------------------------------------------------------------------------
(* Executor.execute: the lock of the agent covers its venv. *)

Box(k) == request[k].at
Venv(k) == venv[Box(k)][request[k].agent]
Lock(k, holder) == lock' = [lock EXCEPT ![Box(k)][request[k].agent] = holder]

(* There is a venv: install_deps, default deny.  Without dependencies the  *)
(* code starts, outside the lock.                                          *)
Install(k) ==
    IF request[k].dep = None THEN Settle(k, "running") /\ Lock(k, None)
    ELSE IF request[k].dep \notin AllowedSpecs THEN Settle(k, "failure") /\ Lock(k, None)
    ELSE Settle(k, "installing") /\ Lock(k, k)

(* Mutant of LockFree: the lock is created anew for every call. *)
NeverLocked(k) == TRUE
LockFree(k) == lock[Box(k)][request[k].agent] = None

(* ensure_venv: a bin directory is taken for a venv. *)
EnsureVenv(k) ==
    /\ pc[k] = "waiting"
    /\ LockFree(k)
    /\ IF Venv(k) = "absent" THEN Settle(k, "creating") /\ Lock(k, k) ELSE Install(k)
    /\ UNCHANGED <<host, docker, mishap, venv, installed, request>>

(* uv venv ends; a failure may leave the directory behind. *)
VenvCreated(k) ==
    /\ pc[k] = "creating"
    /\ \/ /\ venv' = [venv EXCEPT ![Box(k)][request[k].agent] = "ready"]
          /\ Install(k)
       \/ /\ \E v \in {"absent", "partial"} : venv' = [venv EXCEPT ![Box(k)][request[k].agent] = v]
          /\ Settle(k, "failure") /\ Lock(k, None)
    /\ UNCHANGED <<host, docker, mishap, installed, request>>

(* Mutant of InstallInto: every agent's venv gets the package. *)
InstallIntoAll(k) == installed' = [installed EXCEPT ![Box(k)] = [a \in Agents |-> request[k].dep]]
InstallInto(k) == installed' = [installed EXCEPT ![Box(k)][request[k].agent] = request[k].dep]

(* uv pip install replaces the version that is there, or fails. *)
Installed(k) ==
    /\ pc[k] = "installing"
    /\ \/ InstallInto(k) /\ Settle(k, "running")
       \/ Settle(k, "failure") /\ UNCHANGED installed
    /\ Lock(k, None)
    /\ UNCHANGED <<host, docker, mishap, venv, request>>

(* The process ends.  Output that is no JSON, or none, is a failure, as is *)
(* a limit reached or a process that does not start.                       *)
Finish(k) ==
    /\ pc[k] = "running" /\ request[k].code.does # "loop"
    /\ \/ Settle(k, Outcome(request[k].code))
       \/ Settle(k, "failure")
    /\ UNCHANGED <<host, docker, mishap, inside, request>>

(* The process is killed. *)
Timeout(k) ==
    /\ pc[k] = "running"
    /\ Settle(k, "failure")
    /\ UNCHANGED <<host, docker, mishap, inside, request>>

Serve(k) ==
    Receive(k) \/ EnsureVenv(k) \/ VenvCreated(k) \/ Installed(k) \/ Finish(k) \/ Timeout(k)

SandboxNext ==
    \/ \E s \in Sandboxes :
          \/ Enter(s) \/ PortPublished(s) \/ McpReady(s) \/ McpOpened(s) \/ EntryFails(s)
          \/ Disconnect(s) \/ Remove(s)
    \/ \E c \in Containers : ContainerDies(c)
    \/ \E k \in Executions : Execute(k) \/ Serve(k)

SandboxSpec == SandboxInit /\ [][SandboxNext]_sandboxVars

-----------------------------------------------------------------------------
(* remove=False: "we manage removal ourselves on __aexit__".  A container  *)
(* is left over by a failed entry, a cancelled exit or a refusal of Docker,*)
(* and by nothing else.                                                    *)
LeakOnlyOnFailure ==
    \A c \in Containers :
        docker[c].state \notin {"none", "removed"} =>
            \/ c \in mishap
            \/ \E s \in Sandboxes : container[s] = c /\ phase[s] # "out"

(* Code runs in the container of its own session, even when the port has   *)
(* passed to another's.                                                    *)
OwnSession ==
    \A k \in Executions :
        pc[k] \in UnderWay /\ Box(k) # None => docker[Box(k)].session = request[k].sandbox

(* The executor's lock: no two uv commands work on the venv of an agent.   *)
SetupIsExclusive ==
    \A k, l \in Executions :
        /\ k # l
        /\ {pc[k], pc[l]} \subseteq {"creating", "installing"}
        => <<Box(k), request[k].agent>> # <<Box(l), request[l].agent>>

(* The lock is free when the code starts, so another call of the agent may *)
(* exchange the version; but code whose agent made no other call runs with *)
(* what it declared: venvs are not shared.                                 *)
DepsUndisturbed ==
    \A k \in Executions :
        /\ pc[k] = "running" /\ Box(k) # None
        /\ request[k].dep # None
        /\ \A l \in Executions \ {k} : request[l] = None \/ request[l].agent # request[k].agent
        => installed[Box(k)][request[k].agent] = request[k].dep

(* Values are of their types, and code runs in its own session's container.*)
SandboxesConsistent == SandboxTypeOK /\ OwnSession
=============================================================================
