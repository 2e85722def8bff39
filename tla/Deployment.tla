----------------------------- MODULE Deployment -----------------------------
(***************************************************************************)
(* The two Kubernetes deployments: bootstrap-silo.sh and                   *)
(* bootstrap-bridge.sh, the manifests they apply and the network policies  *)
(* among them.  A script runs under `set -e`: it stops at the first        *)
(* command that fails and is started again from its beginning.  kubectl    *)
(* acts on its current context, which kind switches when it creates a      *)
(* cluster, run_matrix.sh before it measures, and the scripts not at all;  *)
(* in another shell it may be switched, or a cluster deleted, at any time, *)
(* also between two commands of a script.  A pod starts some time after    *)
(* its manifest was applied.                                               *)
(*                                                                         *)
(* The clusters are made by these two scripts, one at a time.  A namespace *)
(* is a pair of its kind and the tenant it belongs to; namespaces without  *)
(* pods (monitoring, traffic-gen) are left out.                            *)
(***************************************************************************)
EXTENDS Integers, Sequences

CONSTANTS
  NoCluster,   \* a cluster that does not exist, no kubectl context
  Diversions   \* bound of the model: the commands of a bootstrap script, by
               \* their numbers, before which someone may switch the context

Topologies == {"silo", "bridge"}
Tenants    == {"a", "b"}

Ns(kind, owner) == [kind |-> kind, owner |-> owner]

Inference == Ns("inference", "shared")
Dns       == Ns("dns", "shared")          \* kube-system
Internet  == Ns("internet", "shared")

(* Silo has a Keycloak and a gateway for each tenant, Bridge one for both. *)
Home(t, x) == IF t = "silo" THEN x ELSE "shared"

Keycloak(t, x) == Ns("authorizer", Home(t, x))
Gateway(t, x)  == Ns("gateway", Home(t, x))      \* enforcer-X, gateway-ingress
Agent(x)       == Ns("tenant", x)

PodNamespaces(t) ==
  {Inference} \cup UNION {{Agent(x), Keycloak(t, x), Gateway(t, x)} : x \in Tenants}

Namespaces == {Dns, Internet} \cup UNION {PodNamespaces(t) : t \in Topologies}

Port == [authorizer |-> 8080, gateway |-> 8001, inference |-> 11434,
         dns |-> 53, internet |-> 443, tenant |-> 0]

----------------------------------------------------------------------------
(* Network policies, one record for each peer of a direction; every policy *)
(* selects all the pods of its namespace.                                  *)

Rule(at, dir, peer, port) == [at |-> at, dir |-> dir, peer |-> peer, port |-> port]

Nobody == Ns("nobody", "shared")

DefaultDeny(t) ==
  {Rule(n, d, Nobody, 0) : n \in PodNamespaces(t), d \in {"egress", "ingress"}}

AllowDns(t) == {Rule(n, "egress", Dns, Port.dns) : n \in PodNamespaces(t)}

(* HTTPS to anywhere: the policy has ports and no peers. *)
InferenceInternet == {Rule(Inference, "egress", n, Port.internet) : n \in Namespaces}

(* Egress at the one end and ingress at the other. *)
Allow(from, to) ==
  {Rule(from, "egress", to, Port[to.kind]), Rule(to, "ingress", from, Port[to.kind])}

\* Mutant: the gateway of one tenant let through to the Keycloak of the other.
GatewayKeycloakOfAll(t) ==
  UNION {Allow(Gateway(t, x), Keycloak(t, y)) : x \in Tenants, y \in Tenants}

GatewayKeycloak(t) == UNION {Allow(Gateway(t, x), Keycloak(t, x)) : x \in Tenants}
AgentKeycloak(t)   == UNION {Allow(Agent(x), Keycloak(t, x)) : x \in Tenants}
AgentInference(t)  ==
  UNION {Allow(Agent(x), Gateway(t, x)) \cup Allow(Agent(x), Inference) : x \in Tenants}

(* What a manifest does to the network.  Bridge has the three agent and    *)
(* gateway policies in one file.                                           *)
Policies(t, manifest) ==
  CASE manifest = "default-deny-all"            -> DefaultDeny(t)
    [] manifest = "allow-dns"                   -> AllowDns(t)
    [] manifest = "allow-enforcer-authorizer"   -> GatewayKeycloak(t)
    [] manifest = "allow-agent-inference"       -> AgentInference(t)
    [] manifest = "allow-agent-authorizer"      -> AgentKeycloak(t)
    [] manifest = "allow-agent-shared-services" ->
         GatewayKeycloak(t) \cup AgentKeycloak(t) \cup AgentInference(t)
    [] manifest = "allow-inference-internet"    -> InferenceInternet
    [] OTHER                                    -> {}

----------------------------------------------------------------------------
(* The scripts, with the scripts they call, as sequences of commands.      *)

Do(command)     == [do |-> command, what |-> "none"]
Apply(manifest) == [do |-> "apply", what |-> manifest]
Rollout(pods)   == [do |-> "rollout", what |-> pods]

\* deploy-tenant-a.sh, deploy-tenant-b.sh, deploy-bridge.sh
DeployStack(stack) == <<Do("load-image"), Apply(stack), Rollout(stack)>>

\* The common end of deploy-agents.sh and deploy-bridge-agents.sh
DeployAgents ==
  <<Apply("ollama"), Rollout("ollama"), Do("pull"), Do("load-image"),
    Apply("agent-a"), Apply("agent-b"), Rollout("agent-a"), Rollout("agent-b")>>

SiloStacks == <<Do("create"), Do("cilium")>> \o DeployStack("stack-a") \o DeployStack("stack-b")

SiloPolicies ==
  <<Apply("default-deny-all"), Apply("allow-dns"), Apply("allow-enforcer-authorizer")>>

AgentPolicies ==
  <<Apply("allow-agent-inference"), Apply("allow-agent-authorizer"),
    Apply("allow-inference-internet")>>

\* Mutant: the agents brought up with the stacks, before any policy.
SiloAgentsFirst ==
  SiloStacks \o <<Apply("runtimeclass")>> \o DeployAgents \o SiloPolicies \o AgentPolicies

\* Mutant: steps 6 to 8 of k8s/README.md, which make the cluster anew and
\* do not apply the policies of step 5 again.
SiloByTheReadme == SiloStacks \o <<Apply("runtimeclass")>> \o AgentPolicies \o DeployAgents

Silo ==
  SiloStacks \o SiloPolicies \o AgentPolicies \o
  <<Apply("runtimeclass"), Apply("allow-inference-internet"),
    Apply("allow-agent-authorizer")>> \o DeployAgents

Bridge ==
  <<Do("create"), Do("cilium")>> \o DeployStack("stack") \o
  <<Apply("runtimeclass"), Apply("runtimeclass"), Apply("default-deny-all"),
    Apply("allow-dns"), Apply("allow-agent-shared-services"), Apply("allow-inference-internet")>> \o DeployAgents

\* run_matrix.sh
Matrix ==
  <<[do |-> "use-context", what |-> "silo"], [do |-> "measure", what |-> "silo"],
    [do |-> "use-context", what |-> "bridge"], [do |-> "measure", what |-> "bridge"]>>

Script(t) ==
  CASE t = "silo" -> Silo [] t = "bridge" -> Bridge [] t = "matrix" -> Matrix

Manifests ==
  {c.what : c \in UNION {{Script(t)[i] : i \in 1 .. Len(Script(t))} : t \in Topologies}}

Agents    == [a |-> "agent-a", b |-> "agent-b"]
Workloads == {"stack", "stack-a", "stack-b", "ollama", "agent-a", "agent-b"}
Stacks(t) == IF t = "silo" THEN {"stack-a", "stack-b"} ELSE {"stack"}

(* The node pools of a cluster, and those that a workload's pods select. *)
Pools == [silo   |-> {"monitoring", "inference", "a", "b"},
          bridge |-> {"shared-services", "security-control", "inference", "a", "b"}]

Selects(w) ==
  CASE w = "stack"                  -> {"shared-services", "security-control"}
    [] w \in {"stack-a", "agent-a"} -> {"a"}
    [] w \in {"stack-b", "agent-b"} -> {"b"}
    [] w = "ollama"                 -> {"inference"}

VARIABLES
  cluster,  \* kind's clusters
  context,  \* the cluster kubectl acts on
  running,  \* the script that runs, and how far it is
  up,       \* which topology's script has come to its end on which cluster
  disturbed \* history: the clusters a bootstrap script was diverted to while
            \* it ran, because someone switched the context

vars == <<cluster, context, running, up, disturbed>>

Empty == [cilium |-> FALSE, image |-> FALSE, applied |-> {}, pods |-> {}]
Idle  == [script |-> "none", next |-> 1]

ClusterType == [cilium : BOOLEAN, image : BOOLEAN, pods : SUBSET Workloads,
                applied : SUBSET (Topologies \X Manifests)]

ASSUME NoClusterAssumption == NoCluster \notin ClusterType \cup Topologies

Exists(t) == cluster[t] # NoCluster

TypeOK ==
  /\ \A t \in Topologies : Exists(t) => cluster[t] \in ClusterType
  /\ context # NoCluster => context \in Topologies /\ Exists(context)
  /\ running.script \in Topologies \cup {"none", "matrix"} /\ running.next \in Nat
  /\ up \subseteq Topologies \X {t \in Topologies : Exists(t)}
  /\ disturbed \subseteq {t \in Topologies : Exists(t)}

Init ==
  /\ cluster = [t \in Topologies |-> NoCluster] /\ context = NoCluster
  /\ running = Idle /\ up = {} /\ disturbed = {}

----------------------------------------------------------------------------
(* Who reaches whom.  A pod that no policy of a direction selects is open  *)
(* in that direction.                                                      *)

Rules(c) == UNION {Policies(m[1], m[2]) : m \in cluster[c].applied}

Open(rules, at, dir, peer, port) ==
  LET selecting == {r \in rules : r.at = at /\ r.dir = dir} IN
  selecting = {} \/ \E r \in selecting : r.peer = peer /\ r.port = port

ReachedFrom(c, from) ==
  LET rules == Rules(c) IN
  {to \in Namespaces \ {from} :
     /\ Open(rules, from, "egress", to, Port[to.kind])
     /\ Open(rules, to, "ingress", from, Port[to.kind])}

----------------------------------------------------------------------------
(* The scripts' commands. *)

Target == cluster[context]
Update(value) == context # NoCluster /\ cluster' = [cluster EXCEPT ![context] = value]

Start(t) ==
  /\ running = Idle
  /\ running' = [script |-> t, next |-> 1]
  /\ UNCHANGED <<cluster, context, up, disturbed>>

Command == Script(running.script)[running.next]

Current(command) ==
  /\ running # Idle /\ running.next <= Len(Script(running.script))
  /\ Command.do = command

Proceed == running' = [running EXCEPT !.next = @ + 1]

(* kind create cluster, unless kind get clusters names it; the context     *)
(* changes with the creation only.                                         *)
Create ==
  /\ Current("create") /\ Proceed
  /\ IF Exists(running.script) THEN UNCHANGED <<cluster, context>>
     ELSE /\ cluster' = [cluster EXCEPT ![running.script] = Empty]
          /\ context' = running.script
  /\ UNCHANGED <<up, disturbed>>

\* Mutant: an installation that is there already is taken for a success.
InstallCiliumAgain ==
  /\ Current("cilium") /\ Proceed
  /\ Update([Target EXCEPT !.cilium = TRUE])
  /\ UNCHANGED <<context, up, disturbed>>

(* cilium install, which refuses a cluster that has it. *)
InstallCilium ==
  /\ Current("cilium") /\ Proceed
  /\ Update([Target EXCEPT !.cilium = TRUE]) /\ ~Target.cilium
  /\ UNCHANGED <<context, up, disturbed>>

(* docker build and kind load, which names its cluster. *)
LoadImage ==
  /\ Current("load-image") /\ Proceed /\ Exists(running.script)
  /\ cluster' = [cluster EXCEPT ![running.script].image = TRUE]
  /\ UNCHANGED <<context, up, disturbed>>

ApplyManifest ==
  /\ Current("apply") /\ Proceed
  /\ Update([Target EXCEPT !.applied = @ \cup {<<running.script, Command.what>>}])
  /\ UNCHANGED <<context, up, disturbed>>

\* Mutant: no waiting for the pods.
RolloutAtOnce ==
  /\ Current("rollout") /\ Proceed /\ context # NoCluster
  /\ UNCHANGED <<cluster, context, up, disturbed>>

(* kubectl rollout status: waits until the pods run. *)
AwaitRollout ==
  /\ Current("rollout") /\ Proceed
  /\ context # NoCluster /\ Command.what \in Target.pods
  /\ UNCHANGED <<cluster, context, up, disturbed>>

CanPull(c) == {Dns, Internet} \subseteq ReachedFrom(c, Inference)

(* ollama pull, in the pod: from the registry, by its name. *)
PullModel ==
  /\ Current("pull") /\ Proceed
  /\ context # NoCluster /\ "ollama" \in Target.pods /\ CanPull(context)
  /\ UNCHANGED <<cluster, context, up, disturbed>>

(* The closing echo, "fully up", of whatever cluster kubectl is at. *)
Finish ==
  /\ running # Idle /\ running.next > Len(Script(running.script))
  /\ running' = Idle
  /\ up' = IF running.script = "matrix" \/ context = NoCluster THEN up
           ELSE up \cup {<<running.script, context>>}
  /\ UNCHANGED <<cluster, context, disturbed>>

(* Any command may fail, which ends a script under set -e; run_matrix.sh,  *)
(* which is not, may be interrupted.                                       *)
Fail ==
  /\ running # Idle /\ running.next <= Len(Script(running.script))
  /\ running' = Idle
  /\ UNCHANGED <<cluster, context, up, disturbed>>

(* A pod starts: the cluster has a network, its node pool and, unless it   *)
(* is Ollama's, the image; an agent's needs the RuntimeClass.              *)
StartPods(c, w) ==
  /\ Exists(c) /\ cluster[c].cilium
  /\ w \notin cluster[c].pods /\ Selects(w) \subseteq Pools[c]
  /\ \E t \in Topologies : <<t, w>> \in cluster[c].applied
  /\ w # "ollama" => cluster[c].image
  /\ w \in {"agent-a", "agent-b"} =>
       \E t \in Topologies : <<t, "runtimeclass">> \in cluster[c].applied
  /\ cluster' = [cluster EXCEPT ![c].pods = @ \cup {w}]
  /\ UNCHANGED <<context, running, up, disturbed>>

(* run_matrix.sh, for both topologies or TOPOLOGIES="bridge" only. *)
StartMatrix ==
  /\ running = Idle
  /\ \E n \in {1, 3} : running' = [script |-> "matrix", next |-> n]
  /\ UNCHANGED <<cluster, context, up, disturbed>>

\* Mutant: the answer of kubectl is not looked at.
SwitchUnchecked ==
  /\ Current("use-context") /\ Proceed
  /\ context' = Command.what
  /\ UNCHANGED <<cluster, up, disturbed>>

(* "Aborting rather than silently running these tests against the wrong    *)
(* cluster."                                                               *)
SwitchOrAbort ==
  /\ Current("use-context")
  /\ IF Exists(Command.what) THEN Proceed /\ context' = Command.what
                             ELSE running' = Idle /\ UNCHANGED context
  /\ UNCHANGED <<cluster, up, disturbed>>

(* One of a topology's runs: kubectl exec, at the context of the moment,   *)
(* in the sandbox of tenant-a, if there is one.  Its row in manifest.csv   *)
(* repeats the topology of the loop and its exit code, whatever it is, and *)
(* the next run follows.                                                   *)
Measure ==
  /\ Current("measure") /\ (Proceed \/ UNCHANGED running)
  /\ UNCHANGED <<cluster, context, up, disturbed>>

(* kubectl config use-context by hand (eval/README.md:57).  It diverts a   *)
(* bootstrap script that runs to another cluster.                          *)
UseContext(t) ==
  /\ Exists(t) /\ t # context
  /\ running.script \in Topologies => running.next \in Diversions
  /\ context' = t
  /\ disturbed' = IF running.script \in Topologies THEN disturbed \cup {t} ELSE disturbed
  /\ UNCHANGED <<cluster, running, up>>

(* kind delete cluster (k8s/README.md, step 9): its context goes with it. *)
Delete(t) ==
  /\ Exists(t)
  /\ cluster' = [cluster EXCEPT ![t] = NoCluster]
  /\ context' = IF context = t THEN NoCluster ELSE context
  /\ up' = {u \in up : u[2] # t}
  /\ disturbed' = disturbed \ {t}
  /\ UNCHANGED running

Next ==
  \/ \E t \in Topologies : Start(t) \/ UseContext(t) \/ Delete(t)
  \/ Create \/ InstallCilium \/ LoadImage \/ ApplyManifest \/ AwaitRollout
  \/ PullModel \/ Finish \/ Fail
  \/ StartMatrix \/ SwitchOrAbort \/ Measure
  \/ \E c \in Topologies, w \in Workloads : StartPods(c, w)

Spec == Init /\ [][Next]_vars

----------------------------------------------------------------------------
(* A script acts on whatever context it finds.  What it promises, it       *)
(* promises of the clusters it was not diverted to while it ran.           *)
Undisturbed == {t \in Topologies : Exists(t) /\ t \notin disturbed}

(* From its first moment an agent sandbox reaches nothing but its own      *)
(* Keycloak, its own gateway, Ollama and DNS (k8s/README.md:195, "nothing  *)
(* else"), whatever failed before, whichever script was run again, in the  *)
(* wrong cluster too, and however far the rollout of the rest is.          *)
AgentsConfined ==
  \A c \in Undisturbed : \A x \in Tenants :
    Agents[x] \in cluster[c].pods =>
      \E t \in Topologies :
        ReachedFrom(c, Agent(x)) \subseteq {Keycloak(t, x), Gateway(t, x), Inference, Dns}

(* In Silo, what a tenant has and Ollama are closed: once an agent's       *)
(* manifest is applied, no chain of connections through them leads from    *)
(* one tenant's pods to the other's (k8s/README.md:101, 109).  What DNS or *)
(* hosts in the Internet pass on is not followed.                          *)
Zone(x) == {Agent(x), Keycloak("silo", x), Gateway("silo", x), Inference}

TenantsApart ==
  \A c \in Undisturbed : \A x, y \in Tenants :
    <<"silo", Agents[y]>> \in cluster[c].applied =>
      \A n \in Zone(x) : ReachedFrom(c, n) \subseteq Zone(x) \cup {Dns, Internet}

(* No script comes to the pull of the model with policies in place that    *)
(* keep Ollama from the registry or from DNS (deploy-agents.sh:4-8).       *)
PullHasItsEgress == Current("pull") /\ context \in Undisturbed => CanPull(context)

(* "Fully up" means that in the cluster the script has acted on all the    *)
(* pods have started and every connection of the evaluation is open        *)
(* (bootstrap-silo.sh:18, bootstrap-bridge.sh:14).  Keycloak and the       *)
(* gateway have no readinessProbe: whether they serve yet is not said.     *)
UpMeansUsable ==
  \A u \in up : LET t == u[1]
                   c == u[2] IN
    c \in Undisturbed =>
    /\ Stacks(t) \cup {"ollama", "agent-a", "agent-b"} \subseteq cluster[c].pods
    /\ \A x \in Tenants :
         /\ {Keycloak(t, x), Gateway(t, x), Inference, Dns} \subseteq ReachedFrom(c, Agent(x))
         /\ {Keycloak(t, x), Dns} \subseteq ReachedFrom(c, Gateway(t, x))

(* A script begins in whatever context it finds, but no cluster gets       *)
(* manifests of both topologies, whose namespaces collide                  *)
(* (k8s/bridge/README.md:22): cilium refuses a second installation before  *)
(* anything is applied.  The price is in SafeToRerun.                      *)
OneTopologyEach ==
  \A c \in Undisturbed : \A m, n \in cluster[c].applied : m[1] = n[1]

(* eval/README.md:30 says of bootstrap-silo.sh: "It's safe to rerun if     *)
(* something fails partway", and the guard around kind create cluster is   *)
(* there for that.  A rerun in the script's own cluster would not come to  *)
(* a command that this cluster refuses from then on.                       *)
SafeToRerun == Current("cilium") /\ context = running.script => ~Target.cilium

(* What run_matrix.sh runs for a topology, and records under its name, it  *)
(* never runs in another topology's cluster: "Aborting rather than         *)
(* silently running these tests against the wrong cluster"                 *)
(* (run_matrix.sh:17).  The context is looked at once for a topology, and  *)
(* read by each of its runs.                                               *)
RunsInTheirCluster ==
  Current("measure") => context \in {Command.what, NoCluster}
=============================================================================
