-------------------------- MODULE DeploymentProofs --------------------------
(***************************************************************************)
(* Proofs about the two Kubernetes deployments: why the scripts keep the   *)
(* topologies apart and the agents confined in whatever order they are     *)
(* run, fail and are run again, in the clusters they are not diverted to,  *)
(* before whatever command someone switches the context.  The run of       *)
(* Deployment lets that happen before one command only.                    *)
(***************************************************************************)
EXTENDS Deployment, SequenceTheorems, TLAPS

----------------------------------------------------------------------------
(* The scripts as sequences: they begin with the cluster and its network,  *)
(* and what opens and closes the network comes before the agents.          *)

Objects ==
  {"none", "runtimeclass", "default-deny-all", "allow-dns", "allow-enforcer-authorizer",
   "allow-agent-inference", "allow-agent-authorizer", "allow-agent-shared-services",
   "allow-inference-internet"} \cup Workloads

Commands ==
  [do : {"create", "cilium", "load-image", "apply", "rollout", "pull"}, what : Objects]

(* What a bootstrap script does once the cluster is there.                 *)
Later == {c \in Commands : c.do \in {"load-image", "apply", "rollout", "pull"}}

(* The commands that want the policies in place.                           *)
Guarded(c) == c.do = "pull" \/ (c.do = "apply" /\ c.what \in {"agent-a", "agent-b"})

Begins(s) ==
  /\ s \in Seq(Commands) /\ Len(s) >= 2
  /\ s[1] = Do("create") /\ s[2] = Do("cilium")
  /\ \A i \in 3 .. Len(s) : s[i] \in Later

LEMMA LaterCommands ==
  /\ \A w \in Objects : Apply(w) \in Later /\ Rollout(w) \in Later
  /\ Do("load-image") \in Later /\ Do("pull") \in Later
<1>1. ASSUME NEW w \in Objects PROVE Apply(w) \in Later
  BY <1>1, SMT DEF Later, Commands, Apply
<1>2. ASSUME NEW w \in Objects PROVE Rollout(w) \in Later
  BY <1>2, SMT DEF Later, Commands, Rollout
<1>3. Do("load-image") \in Later
  BY SMT DEF Later, Commands, Do, Objects
<1>4. Do("pull") \in Later
  BY SMT DEF Later, Commands, Do, Objects
<1> QED
  BY <1>1, <1>2, <1>3, <1>4

LEMMA LaterSeq ==
  ASSUME NEW u \in Seq(Later)
  PROVE  u \in Seq(Commands) /\ \A i \in 1 .. Len(u) : u[i] \in Later
BY DEF Later

LEMMA BeginsExtends ==
  ASSUME NEW s, Begins(s), NEW u \in Seq(Later)
  PROVE  Begins(s \o u) /\ Range(s \o u) = Range(s) \cup Range(u)
<1>1. u \in Seq(Commands) /\ \A i \in 1 .. Len(u) : u[i] \in Later
  BY LaterSeq
<1>2. s \in Seq(Commands) /\ Len(s) \in Nat /\ Len(u) \in Nat
  BY <1>1 DEF Begins
<1>3. /\ s \o u \in Seq(Commands)
      /\ Len(s \o u) = Len(s) + Len(u)
      /\ \A i \in 1 .. Len(s) + Len(u) :
           (s \o u)[i] = IF i <= Len(s) THEN s[i] ELSE u[i - Len(s)]
  BY <1>1, <1>2, ConcatProperties
<1>4. Begins(s \o u)
  BY <1>1, <1>2, <1>3 DEF Begins
<1>5. Range(s \o u) = Range(s) \cup Range(u)
  BY <1>1, <1>2, RangeConcatenation
<1> QED
  BY <1>4, <1>5

LEMMA DeployStackIs ==
  ASSUME NEW w \in Objects
  PROVE  /\ DeployStack(w) \in Seq(Later)
         /\ Range(DeployStack(w)) = {Do("load-image"), Apply(w), Rollout(w)}
<1>1. DeployStack(w) \in Seq(Later)
  BY LaterCommands DEF DeployStack, Objects, Workloads
<1>2. Range(DeployStack(w)) = {Do("load-image"), Apply(w), Rollout(w)}
  BY DEF DeployStack, Range
<1> QED
  BY <1>1, <1>2

LEMMA DeployAgentsIs ==
  /\ DeployAgents \in Seq(Later)
  /\ Range(DeployAgents) = {Apply("ollama"), Rollout("ollama"), Do("pull"), Do("load-image"),
                            Apply("agent-a"), Apply("agent-b"),
                            Rollout("agent-a"), Rollout("agent-b")}
<1>1. DeployAgents \in Seq(Later)
  BY LaterCommands DEF DeployAgents, Objects, Workloads
<1>2. Range(DeployAgents) = {Apply("ollama"), Rollout("ollama"), Do("pull"), Do("load-image"),
                            Apply("agent-a"), Apply("agent-b"),
                            Rollout("agent-a"), Rollout("agent-b")}
  BY DEF DeployAgents, Range
<1> QED
  BY <1>1, <1>2

SiloHead ==
  SiloStacks \o SiloPolicies \o AgentPolicies \o
  <<Apply("runtimeclass"), Apply("allow-inference-internet"), Apply("allow-agent-authorizer")>>

BridgeHead ==
  <<Do("create"), Do("cilium")>> \o DeployStack("stack") \o
  <<Apply("runtimeclass"), Apply("runtimeclass"), Apply("default-deny-all"),
    Apply("allow-dns"), Apply("allow-agent-shared-services"), Apply("allow-inference-internet")>>

LEMMA OpeningBegins ==
  LET s == <<Do("create"), Do("cilium")>>
  IN  Begins(s) /\ Range(s) = {Do("create"), Do("cilium")}
<1>1. Do("create") \in Commands /\ Do("cilium") \in Commands
  BY DEF Do, Commands, Objects
<1> QED
  BY <1>1 DEF Begins, Range

LEMMA SiloHeadIs ==
  /\ Begins(SiloHead)
  /\ Range(SiloHead) =
       {Do("create"), Do("cilium"), Do("load-image"), Apply("stack-a"), Rollout("stack-a"),
        Apply("stack-b"), Rollout("stack-b"), Apply("default-deny-all"), Apply("allow-dns"),
        Apply("allow-enforcer-authorizer"), Apply("allow-agent-inference"),
        Apply("allow-agent-authorizer"), Apply("allow-inference-internet"),
        Apply("runtimeclass")}
<1> DEFINE s1 == <<Do("create"), Do("cilium")>>
           s2 == s1 \o DeployStack("stack-a")
           s3 == s2 \o DeployStack("stack-b")
           s4 == s3 \o SiloPolicies
           s5 == s4 \o AgentPolicies
           tail == <<Apply("runtimeclass"), Apply("allow-inference-internet"),
                     Apply("allow-agent-authorizer")>>
<1>1. Begins(s1) /\ Range(s1) = {Do("create"), Do("cilium")}
  BY OpeningBegins
<1>2. /\ Begins(s2)
      /\ Range(s2) = Range(s1) \cup {Do("load-image"), Apply("stack-a"), Rollout("stack-a")}
  <2> HIDE DEF s1
  <2>1. DeployStack("stack-a") \in Seq(Later)
    BY DeployStackIs DEF Objects, Workloads
  <2>2. Range(DeployStack("stack-a")) = {Do("load-image"), Apply("stack-a"), Rollout("stack-a")}
    BY DeployStackIs DEF Objects, Workloads
  <2> QED
    BY <2>1, <2>2, <1>1, BeginsExtends
<1>3. /\ Begins(s3)
      /\ Range(s3) = Range(s2) \cup {Do("load-image"), Apply("stack-b"), Rollout("stack-b")}
  <2> HIDE DEF s2
  <2>1. DeployStack("stack-b") \in Seq(Later)
    BY DeployStackIs DEF Objects, Workloads
  <2>2. Range(DeployStack("stack-b")) = {Do("load-image"), Apply("stack-b"), Rollout("stack-b")}
    BY DeployStackIs DEF Objects, Workloads
  <2> QED
    BY <2>1, <2>2, <1>2, BeginsExtends
<1>4. /\ SiloPolicies \in Seq(Later)
      /\ Range(SiloPolicies) = {Apply("default-deny-all"), Apply("allow-dns"),
                                Apply("allow-enforcer-authorizer")}
  <2>1. SiloPolicies \in Seq(Later)
    BY LaterCommands DEF SiloPolicies, Objects, Workloads
  <2> QED
    BY <2>1 DEF SiloPolicies, Range
<1>5. /\ AgentPolicies \in Seq(Later)
      /\ Range(AgentPolicies) = {Apply("allow-agent-inference"), Apply("allow-agent-authorizer"),
                                 Apply("allow-inference-internet")}
  <2>1. AgentPolicies \in Seq(Later)
    BY LaterCommands DEF AgentPolicies, Objects, Workloads
  <2> QED
    BY <2>1 DEF AgentPolicies, Range
<1>6. Begins(s4) /\ Range(s4) = Range(s3) \cup Range(SiloPolicies)
  <2> HIDE DEF s3
  <2> QED
    BY <1>3, <1>4, BeginsExtends
<1>7. Begins(s5) /\ Range(s5) = Range(s4) \cup Range(AgentPolicies)
  <2> HIDE DEF s4
  <2> QED
    BY <1>5, <1>6, BeginsExtends
<1>8. /\ tail \in Seq(Later)
      /\ Range(tail) = {Apply("runtimeclass"), Apply("allow-inference-internet"),
                        Apply("allow-agent-authorizer")}
  <2>1. tail \in Seq(Later)
    BY LaterCommands DEF Objects, Workloads
  <2> QED
    BY <2>1 DEF Range
<1>9. Begins(s5 \o tail) /\ Range(s5 \o tail) = Range(s5) \cup Range(tail)
  <2> HIDE DEF s5, tail
  <2> QED
    BY <1>7, <1>8, BeginsExtends
<1>10. SiloHead = s5 \o tail
  BY DEF SiloHead, SiloStacks
<1> HIDE DEF s1, s2, s3, s4, s5, tail
<1> QED
  BY <1>1, <1>2, <1>3, <1>4, <1>5, <1>6, <1>7, <1>8, <1>9, <1>10

LEMMA BridgeHeadIs ==
  /\ Begins(BridgeHead)
  /\ Range(BridgeHead) =
       {Do("create"), Do("cilium"), Do("load-image"), Apply("stack"), Rollout("stack"),
        Apply("runtimeclass"), Apply("default-deny-all"), Apply("allow-dns"),
        Apply("allow-agent-shared-services"), Apply("allow-inference-internet")}
<1> DEFINE s1 == <<Do("create"), Do("cilium")>>
           s2 == s1 \o DeployStack("stack")
           tail == <<Apply("runtimeclass"), Apply("runtimeclass"), Apply("default-deny-all"),
                     Apply("allow-dns"), Apply("allow-agent-shared-services"),
                     Apply("allow-inference-internet")>>
<1>1. Begins(s1) /\ Range(s1) = {Do("create"), Do("cilium")}
  BY OpeningBegins
<1>2. /\ Begins(s2)
      /\ Range(s2) = Range(s1) \cup {Do("load-image"), Apply("stack"), Rollout("stack")}
  <2> HIDE DEF s1
  <2> QED
    BY <1>1, DeployStackIs, BeginsExtends DEF Objects, Workloads
<1>3. /\ tail \in Seq(Later)
      /\ Range(tail) = {Apply("runtimeclass"), Apply("default-deny-all"), Apply("allow-dns"),
                        Apply("allow-agent-shared-services"),
                        Apply("allow-inference-internet")}
  <2>1. tail \in Seq(Later)
    BY LaterCommands DEF Objects, Workloads
  <2> QED
    BY <2>1 DEF Range
<1>4. Begins(s2 \o tail) /\ Range(s2 \o tail) = Range(s2) \cup Range(tail)
  <2> HIDE DEF s2, tail
  <2> QED
    BY <1>2, <1>3, BeginsExtends
<1>5. BridgeHead = s2 \o tail
  BY DEF BridgeHead
<1> HIDE DEF s1, s2, tail
<1> QED
  BY <1>1, <1>2, <1>3, <1>4, <1>5

LEMMA ScriptIs ==
  ASSUME NEW t \in Topologies
  PROVE  /\ Begins(Script(t))
         /\ Script(t) = (IF t = "silo" THEN SiloHead ELSE BridgeHead) \o DeployAgents
         /\ Range(Script(t)) = Range(IF t = "silo" THEN SiloHead ELSE BridgeHead)
                                  \cup Range(DeployAgents)
<1>1. CASE t = "silo"
  <2>1. Script(t) = SiloHead \o DeployAgents
    BY <1>1 DEF Script, Silo, SiloHead
  <2> QED
    BY <1>1, <2>1, SiloHeadIs, DeployAgentsIs, BeginsExtends
<1>2. CASE t = "bridge"
  <2>1. Script(t) = BridgeHead \o DeployAgents
    BY <1>2 DEF Script, Bridge, BridgeHead
  <2> QED
    BY <1>2, <2>1, BridgeHeadIs, DeployAgentsIs, BeginsExtends
<1> QED
  BY <1>1, <1>2 DEF Topologies

(* What opens and closes the network of a topology's agents.               *)
Guards(t) ==
  {"default-deny-all", "allow-dns", "allow-inference-internet"} \cup
  IF t = "silo"
    THEN {"allow-enforcer-authorizer", "allow-agent-inference", "allow-agent-authorizer"}
    ELSE {"allow-agent-shared-services"}

(* What is at the head of a script comes before what is at its end only.   *)
LEMMA HeadFirst ==
  ASSUME NEW h \in Seq(Commands), NEW d \in Seq(Commands), NEW p \in Range(h),
         NEW j \in 1 .. Len(h \o d), (h \o d)[j] \notin Range(h)
  PROVE  \E i \in 1 .. j - 1 : (h \o d)[i] = p
<1>1. Len(h) \in Nat /\ Len(d) \in Nat /\ DOMAIN h = 1 .. Len(h)
  OBVIOUS
<1>2. PICK i \in 1 .. Len(h) : p = h[i]
  BY <1>1 DEF Range
<1>3. /\ Len(h \o d) = Len(h) + Len(d)
      /\ \A k \in 1 .. Len(h) + Len(d) :
           (h \o d)[k] = IF k <= Len(h) THEN h[k] ELSE d[k - Len(h)]
  BY ConcatProperties
<1>4. j > Len(h)
  <2>1. SUFFICES ASSUME j <= Len(h) PROVE FALSE
    BY <1>1
  <2>2. (h \o d)[j] = h[j] /\ j \in DOMAIN h
    BY <1>1, <1>3, <2>1
  <2> QED
    BY <2>2 DEF Range
<1> QED
  BY <1>1, <1>2, <1>3, <1>4

LEMMA HeadUnguarded ==
  /\ \A c \in Range(SiloHead) : ~Guarded(c)
  /\ \A c \in Range(BridgeHead) : ~Guarded(c)
<1>1. \A c \in Range(SiloHead) : ~Guarded(c)
  BY SiloHeadIs, SMT DEF Guarded, Do, Apply, Rollout
<1>2. \A c \in Range(BridgeHead) : ~Guarded(c)
  BY BridgeHeadIs, SMT DEF Guarded, Do, Apply, Rollout
<1> QED
  BY <1>1, <1>2

(* The policies come before the agents and before the pull of the model.   *)
LEMMA GuardsComeFirst ==
  ASSUME NEW t \in Topologies, NEW j \in 1 .. Len(Script(t)), Guarded(Script(t)[j]),
         NEW m \in Guards(t)
  PROVE  \E i \in 1 .. j - 1 : Script(t)[i] = Apply(m)
<1> DEFINE h == IF t = "silo" THEN SiloHead ELSE BridgeHead
<1>1. Script(t) = h \o DeployAgents
  BY ScriptIs
<1>2. h \in Seq(Commands) /\ DeployAgents \in Seq(Commands)
  BY SiloHeadIs, BridgeHeadIs, DeployAgentsIs, LaterSeq DEF Begins
<1>3. Apply(m) \in Range(h)
  BY SiloHeadIs, BridgeHeadIs DEF Guards
<1>4. Script(t)[j] \notin Range(h)
  BY HeadUnguarded
<1> HIDE DEF h
<1> QED
  BY <1>1, <1>2, <1>3, <1>4, HeadFirst

(* A script that has come to its end has applied the policies and waited   *)
(* for all pods.                                                           *)
LEMMA ScriptComplete ==
  ASSUME NEW t \in Topologies
  PROVE  /\ \A m \in Guards(t) : \E i \in 1 .. Len(Script(t)) : Script(t)[i] = Apply(m)
         /\ \A w \in Stacks(t) \cup {"ollama", "agent-a", "agent-b"} :
              \E i \in 1 .. Len(Script(t)) : Script(t)[i] = Rollout(w)
<1>1. Range(Script(t)) = {Script(t)[i] : i \in 1 .. Len(Script(t))}
  BY ScriptIs DEF Begins, Range
<1>2. ASSUME NEW m \in Guards(t) PROVE Apply(m) \in Range(Script(t))
  BY <1>2, ScriptIs, SiloHeadIs, BridgeHeadIs DEF Guards
<1>3. ASSUME NEW w \in Stacks(t) \cup {"ollama", "agent-a", "agent-b"}
      PROVE  Rollout(w) \in Range(Script(t))
  BY <1>3, ScriptIs, SiloHeadIs, BridgeHeadIs, DeployAgentsIs DEF Stacks
<1> QED
  BY <1>1, <1>2, <1>3

----------------------------------------------------------------------------
(* The policies.                                                           *)

LEMMA PolicyCases ==
  ASSUME NEW t, NEW m, NEW r \in Policies(t, m)
  PROVE  \/ m = "default-deny-all" /\ r \in DefaultDeny(t)
         \/ r \in AllowDns(t)
         \/ r \in GatewayKeycloak(t)
         \/ r \in AgentInference(t)
         \/ r \in AgentKeycloak(t)
         \/ r \in InferenceInternet
BY DEF Policies

LEMMA Homes ==
  ASSUME NEW t \in Topologies, NEW x \in Tenants
  PROVE  Agent(x) \in PodNamespaces(t) /\ Keycloak(t, x) \in PodNamespaces(t)
         /\ Gateway(t, x) \in PodNamespaces(t) /\ Inference \in PodNamespaces(t)
BY DEF PodNamespaces

LEMMA PodNamespacesAre ==
  ASSUME NEW t \in Topologies, NEW n \in PodNamespaces(t)
  PROVE  /\ n \in Namespaces /\ n # Nobody /\ n # Dns /\ n # Internet
<1>1. n \in Namespaces
  BY DEF Namespaces
<1>2. n.kind \in {"inference", "tenant", "authorizer", "gateway"}
  BY SMT DEF PodNamespaces, Inference, Agent, Keycloak, Gateway, Ns
<1>3. n # Nobody /\ n # Dns /\ n # Internet
  BY <1>2, SMT DEF Nobody, Dns, Internet, Ns
<1> QED
  BY <1>1, <1>3

LEMMA NamespacesAre ==
  ASSUME NEW n \in Namespaces
  PROVE  /\ n # Nobody
         /\ n.kind \in {"inference", "tenant", "authorizer", "gateway", "dns"} \/ n = Internet
<1>1. CASE n = Dns
  <2>1. n.kind = "dns" /\ Nobody.kind = "nobody"
    BY <1>1, SMT DEF Nobody, Dns, Ns
  <2> QED
    BY <2>1
<1>2. CASE n = Internet
  <2>1. n.kind = "internet" /\ Nobody.kind = "nobody"
    BY <1>2, SMT DEF Nobody, Internet, Ns
  <2> QED
    BY <1>2, <2>1
<1>3. CASE \E t \in Topologies : n \in PodNamespaces(t)
  <2>1. PICK t \in Topologies : n \in PodNamespaces(t)
    BY <1>3
  <2>2. n.kind \in {"inference", "tenant", "authorizer", "gateway"}
    BY <2>1, SMT DEF PodNamespaces, Inference, Agent, Keycloak, Gateway, Ns
  <2> QED
    BY <2>1, <2>2, PodNamespacesAre
<1> QED
  BY <1>1, <1>2, <1>3 DEF Namespaces

LEMMA OutsideNamespaces == Dns \in Namespaces /\ Internet \in Namespaces
BY Zenon DEF Namespaces

(* A policy selects pods of its topology.                                  *)
LEMMA RulesAtPods ==
  ASSUME NEW t \in Topologies, NEW m, NEW r \in Policies(t, m)
  PROVE  r.at \in PodNamespaces(t)
<1>1. CASE r \in DefaultDeny(t)
  BY <1>1 DEF DefaultDeny, Rule
<1>2. CASE r \in AllowDns(t)
  BY <1>2 DEF AllowDns, Rule
<1>3. CASE r \in GatewayKeycloak(t)
  BY <1>3, Homes DEF GatewayKeycloak, Allow, Rule
<1>4. CASE r \in AgentInference(t)
  BY <1>4, Homes DEF AgentInference, Allow, Rule
<1>5. CASE r \in AgentKeycloak(t)
  BY <1>5, Homes DEF AgentKeycloak, Allow, Rule
<1>6. CASE r \in InferenceInternet
  BY <1>6, Homes DEF InferenceInternet, Rule, Tenants
<1> QED
  BY <1>1, <1>2, <1>3, <1>4, <1>5, <1>6, PolicyCases

(* Where the pods of a namespace may connect to, by every policy there is. *)
LEMMA AgentEgress ==
  ASSUME NEW t \in Topologies, NEW x \in Tenants, NEW m, NEW r \in Policies(t, m),
         r.at = Agent(x), r.dir = "egress"
  PROVE  r.peer \in {Nobody, Keycloak(t, x), Gateway(t, x), Inference, Dns}
<1> USE DEF Rule, Ns, Agent, Keycloak, Gateway, Inference
<1>1. CASE r \in DefaultDeny(t)
  BY <1>1 DEF DefaultDeny
<1>2. CASE r \in AllowDns(t)
  BY <1>2 DEF AllowDns
<1>3. CASE r \in GatewayKeycloak(t)
  BY <1>3, SMT DEF GatewayKeycloak, Allow
<1>4. CASE r \in AgentInference(t)
  BY <1>4, SMT DEF AgentInference, Allow
<1>5. CASE r \in AgentKeycloak(t)
  BY <1>5, SMT DEF AgentKeycloak, Allow
<1>6. CASE r \in InferenceInternet
  BY <1>6, SMT DEF InferenceInternet
<1> QED
  BY <1>1, <1>2, <1>3, <1>4, <1>5, <1>6, PolicyCases

LEMMA ZoneEgress ==
  ASSUME NEW x \in Tenants, NEW n \in Zone(x), NEW m, NEW r \in Policies("silo", m),
         r.at = n, r.dir = "egress"
  PROVE  r.peer \in Zone(x) \cup {Nobody, Dns} \/ r.port = Port.internet
<1> USE DEF Rule, Ns, Agent, Keycloak, Gateway, Inference, Home, Zone
<1>1. CASE r \in DefaultDeny("silo")
  BY <1>1 DEF DefaultDeny
<1>2. CASE r \in AllowDns("silo")
  BY <1>2 DEF AllowDns
<1>3. CASE r \in GatewayKeycloak("silo")
  BY <1>3, SMT DEF GatewayKeycloak, Allow
<1>4. CASE r \in AgentInference("silo")
  BY <1>4, SMT DEF AgentInference, Allow
<1>5. CASE r \in AgentKeycloak("silo")
  BY <1>5, SMT DEF AgentKeycloak, Allow
<1>6. CASE r \in InferenceInternet
  BY <1>6, SMT DEF InferenceInternet
<1> QED
  BY <1>1, <1>2, <1>3, <1>4, <1>5, <1>6, PolicyCases

LEMMA OnlyInternetIsInternet ==
  ASSUME NEW n \in Namespaces, Port[n.kind] = Port.internet
  PROVE  n = Internet
BY NamespacesAre, SMT DEF Port

(* What is open when a topology's own policies are there, of that topology *)
(* only: whatever has been applied before the rest.                        *)
OfTopology(c, t) == \A m \in cluster[c].applied : m[1] = t

Guarding(c, t) == \A m \in Guards(t) : <<t, m>> \in cluster[c].applied

LEMMA RulesOf ==
  ASSUME NEW c, NEW t, OfTopology(c, t), NEW r \in Rules(c)
  PROVE  \E m : r \in Policies(t, m)
BY DEF OfTopology, Rules

LEMMA ToApplied ==
  ASSUME NEW c, NEW t, NEW m, <<t, m>> \in cluster[c].applied
  PROVE  Policies(t, m) \subseteq Rules(c)
BY DEF Rules

(* Every namespace with pods is closed, but for what a policy opens.       *)
LEMMA ClosedByDefault ==
  ASSUME NEW c, NEW t \in Topologies, <<t, "default-deny-all">> \in cluster[c].applied,
         NEW n \in PodNamespaces(t), NEW dir \in {"egress", "ingress"},
         NEW peer, NEW port, Open(Rules(c), n, dir, peer, port)
  PROVE  \E r \in Rules(c) : r.at = n /\ r.dir = dir /\ r.peer = peer /\ r.port = port
<1> DEFINE d == Rule(n, dir, Nobody, 0)
<1>1. d \in DefaultDeny(t)
  BY DEF DefaultDeny
<1>2. d \in Rules(c)
  BY <1>1, ToApplied DEF Policies
<1>3. d.at = n /\ d.dir = dir
  BY DEF Rule
<1> HIDE DEF d
<1> QED
  BY <1>2, <1>3 DEF Open

LEMMA OpenByRule ==
  ASSUME NEW c, NEW n, NEW dir, NEW peer, NEW port, Rule(n, dir, peer, port) \in Rules(c)
  PROVE  Open(Rules(c), n, dir, peer, port)
<1> DEFINE d == Rule(n, dir, peer, port)
<1>1. d.at = n /\ d.dir = dir /\ d.peer = peer /\ d.port = port
  BY DEF Rule
<1>2. d \in Rules(c)
  OBVIOUS
<1> HIDE DEF d
<1> QED
  BY <1>1, <1>2 DEF Open

LEMMA Outside ==
  ASSUME NEW c, NEW t \in Topologies, OfTopology(c, t), NEW n \in {Dns, Internet},
         NEW peer, NEW port
  PROVE  Open(Rules(c), n, "ingress", peer, port)
<1>1. ASSUME NEW r \in Rules(c) PROVE r.at # n
  BY <1>1, RulesOf, RulesAtPods, PodNamespacesAre
<1> QED
  BY <1>1 DEF Open

LEMMA AllowedConnects ==
  ASSUME NEW c, NEW from, NEW to \in Namespaces, from # to, Allow(from, to) \subseteq Rules(c)
  PROVE  to \in ReachedFrom(c, from)
<1>1. Open(Rules(c), from, "egress", to, Port[to.kind])
  BY OpenByRule DEF Allow
<1>2. Open(Rules(c), to, "ingress", from, Port[to.kind])
  BY OpenByRule DEF Allow
<1> QED
  BY <1>1, <1>2 DEF ReachedFrom

LEMMA DnsConnects ==
  ASSUME NEW c, NEW t \in Topologies, OfTopology(c, t), <<t, "allow-dns">> \in cluster[c].applied,
         NEW n \in PodNamespaces(t)
  PROVE  Dns \in ReachedFrom(c, n)
<1>1. Rule(n, "egress", Dns, Port.dns) \in Rules(c)
  BY ToApplied DEF Policies, AllowDns
<1>2. Port[Dns.kind] = Port.dns
  BY SMT DEF Port, Dns, Ns
<1>3. Dns \in Namespaces /\ Dns # n
  BY PodNamespacesAre, OutsideNamespaces
<1> QED
  BY <1>1, <1>2, <1>3, OpenByRule, Outside DEF ReachedFrom

LEMMA InternetConnects ==
  ASSUME NEW c, NEW t \in Topologies, OfTopology(c, t),
         <<t, "allow-inference-internet">> \in cluster[c].applied
  PROVE  Internet \in ReachedFrom(c, Inference)
<1>1. Internet \in Namespaces /\ Internet # Inference
  <2>1. Inference \in PodNamespaces(t)
    BY DEF PodNamespaces
  <2> QED
    BY <2>1, PodNamespacesAre, OutsideNamespaces
<1>2. Rule(Inference, "egress", Internet, Port.internet) \in Rules(c)
  BY <1>1, ToApplied DEF Policies, InferenceInternet
<1>3. Port[Internet.kind] = Port.internet
  BY SMT DEF Port, Internet, Ns
<1> QED
  BY <1>1, <1>2, <1>3, OpenByRule, Outside DEF ReachedFrom

(* The gist of AgentsConfined, ...                                         *)
LEMMA GuardedAgentConfined ==
  ASSUME NEW c, NEW t \in Topologies, OfTopology(c, t), Guarding(c, t), NEW x \in Tenants
  PROVE  ReachedFrom(c, Agent(x)) \subseteq {Keycloak(t, x), Gateway(t, x), Inference, Dns}
<1> SUFFICES ASSUME NEW to \in ReachedFrom(c, Agent(x))
             PROVE  to \in {Keycloak(t, x), Gateway(t, x), Inference, Dns}
  OBVIOUS
<1>1. to \in Namespaces /\ Open(Rules(c), Agent(x), "egress", to, Port[to.kind])
  BY DEF ReachedFrom
<1>2. <<t, "default-deny-all">> \in cluster[c].applied
  BY DEF Guarding, Guards
<1>3. PICK r \in Rules(c) : r.at = Agent(x) /\ r.dir = "egress" /\ r.peer = to
  BY <1>1, <1>2, ClosedByDefault, Homes
<1> QED
  BY <1>1, <1>3, RulesOf, AgentEgress, NamespacesAre

(* ... of TenantsApart, ...                                                *)
LEMMA GuardedZoneClosed ==
  ASSUME NEW c, OfTopology(c, "silo"), Guarding(c, "silo"), NEW x \in Tenants,
         NEW n \in Zone(x)
  PROVE  ReachedFrom(c, n) \subseteq Zone(x) \cup {Dns, Internet}
<1> SUFFICES ASSUME NEW to \in ReachedFrom(c, n)
             PROVE  to \in Zone(x) \cup {Dns, Internet}
  OBVIOUS
<1>1. to \in Namespaces /\ Open(Rules(c), n, "egress", to, Port[to.kind])
  BY DEF ReachedFrom
<1>2. <<"silo", "default-deny-all">> \in cluster[c].applied
  BY DEF Guarding, Guards
<1>3. "silo" \in Topologies
  BY DEF Topologies
<1>4. n \in PodNamespaces("silo")
  BY <1>3, Homes DEF Zone
<1>5. PICK r \in Rules(c) : r.at = n /\ r.dir = "egress" /\ r.peer = to /\ r.port = Port[to.kind]
  BY <1>1, <1>2, <1>3, <1>4, ClosedByDefault
<1>6. to \in Zone(x) \cup {Nobody, Dns} \/ Port[to.kind] = Port.internet
  BY <1>5, RulesOf, ZoneEgress
<1> QED
  BY <1>1, <1>6, NamespacesAre, OnlyInternetIsInternet

(* ... of PullHasItsEgress ...                                             *)
LEMMA GuardedCanPull ==
  ASSUME NEW c, NEW t \in Topologies, OfTopology(c, t), Guarding(c, t)
  PROVE  CanPull(c)
<1>1. <<t, "allow-dns">> \in cluster[c].applied
      /\ <<t, "allow-inference-internet">> \in cluster[c].applied
  BY DEF Guarding, Guards
<1>2. Inference \in PodNamespaces(t)
  BY DEF PodNamespaces
<1> QED
  BY <1>1, <1>2, DnsConnects, InternetConnects DEF CanPull

(* ... and of UpMeansUsable.                                               *)
LEMMA GuardedIsUsable ==
  ASSUME NEW c, NEW t \in Topologies, OfTopology(c, t), Guarding(c, t), NEW x \in Tenants
  PROVE  /\ {Keycloak(t, x), Gateway(t, x), Inference, Dns} \subseteq ReachedFrom(c, Agent(x))
         /\ {Keycloak(t, x), Dns} \subseteq ReachedFrom(c, Gateway(t, x))
<1>1. GatewayKeycloak(t) \subseteq Rules(c)
  <2>1. CASE t = "silo"
    <3>1. <<t, "allow-enforcer-authorizer">> \in cluster[c].applied
      BY <2>1 DEF Guarding, Guards
    <3> QED
      BY <3>1, ToApplied DEF Policies
  <2>2. CASE t = "bridge"
    <3>1. <<t, "allow-agent-shared-services">> \in cluster[c].applied
      BY <2>2 DEF Guarding, Guards
    <3> QED
      BY <3>1, ToApplied DEF Policies
  <2> QED
    BY <2>1, <2>2 DEF Topologies
<1>2. AgentKeycloak(t) \subseteq Rules(c)
  <2>1. CASE t = "silo"
    <3>1. <<t, "allow-agent-authorizer">> \in cluster[c].applied
      BY <2>1 DEF Guarding, Guards
    <3> QED
      BY <3>1, ToApplied DEF Policies
  <2>2. CASE t = "bridge"
    <3>1. <<t, "allow-agent-shared-services">> \in cluster[c].applied
      BY <2>2 DEF Guarding, Guards
    <3> QED
      BY <3>1, ToApplied DEF Policies
  <2> QED
    BY <2>1, <2>2 DEF Topologies
<1>3. AgentInference(t) \subseteq Rules(c)
  <2>1. CASE t = "silo"
    <3>1. <<t, "allow-agent-inference">> \in cluster[c].applied
      BY <2>1 DEF Guarding, Guards
    <3> QED
      BY <3>1, ToApplied DEF Policies
  <2>2. CASE t = "bridge"
    <3>1. <<t, "allow-agent-shared-services">> \in cluster[c].applied
      BY <2>2 DEF Guarding, Guards
    <3> QED
      BY <3>1, ToApplied DEF Policies
  <2> QED
    BY <2>1, <2>2 DEF Topologies
<1>4. /\ Keycloak(t, x) \in Namespaces /\ Gateway(t, x) \in Namespaces
      /\ Inference \in Namespaces
  BY Homes, PodNamespacesAre
<1>5. /\ Agent(x) # Keycloak(t, x) /\ Agent(x) # Gateway(t, x) /\ Agent(x) # Inference
      /\ Gateway(t, x) # Keycloak(t, x)
  BY SMT DEF Agent, Keycloak, Gateway, Inference, Ns
<1>6. Keycloak(t, x) \in ReachedFrom(c, Agent(x))
  <2>1. Allow(Agent(x), Keycloak(t, x)) \subseteq Rules(c)
    BY <1>2 DEF AgentKeycloak
  <2> QED
    BY <1>4, <1>5, <2>1, AllowedConnects
<1>7. Gateway(t, x) \in ReachedFrom(c, Agent(x)) /\ Inference \in ReachedFrom(c, Agent(x))
  <2>1. /\ Allow(Agent(x), Gateway(t, x)) \subseteq Rules(c)
        /\ Allow(Agent(x), Inference) \subseteq Rules(c)
    BY <1>3 DEF AgentInference
  <2> QED
    BY <1>4, <1>5, <2>1, AllowedConnects
<1>8. Keycloak(t, x) \in ReachedFrom(c, Gateway(t, x))
  <2>1. Allow(Gateway(t, x), Keycloak(t, x)) \subseteq Rules(c)
    BY <1>1 DEF GatewayKeycloak
  <2> QED
    BY <1>4, <1>5, <2>1, AllowedConnects
<1>9. Dns \in ReachedFrom(c, Agent(x)) /\ Dns \in ReachedFrom(c, Gateway(t, x))
  <2>1. <<t, "allow-dns">> \in cluster[c].applied
    BY DEF Guarding, Guards
  <2> QED
    BY <2>1, DnsConnects, Homes
<1> QED
  BY <1>6, <1>7, <1>8, <1>9

(***************************************************************************)
(* The inductive invariant.  A script that runs has done to the context's  *)
(* cluster what it was to do so far, unless it was diverted there, and     *)
(* that cluster has been acted on by scripts of its topology only: Cilium  *)
(* was not there when the first of them began, and nothing is applied      *)
(* before it is.                                                           *)
(***************************************************************************)
RunningShape ==
  /\ running \in [script : Topologies \cup {"none", "matrix"}, next : Nat \ {0}]
  /\ running.script = "none" => running = Idle

ClusterShape ==
  /\ cluster \in [Topologies -> ClusterType \cup {NoCluster}]
  /\ context \in Topologies \cup {NoCluster}
  /\ context # NoCluster => Exists(context)

UpShape == up \subseteq Topologies \X {t \in Topologies : Exists(t)}

DisturbedShape == disturbed \subseteq {t \in Topologies : Exists(t)}

Shape == RunningShape /\ ClusterShape /\ UpShape /\ DisturbedShape

BareBeforeCilium(c) == ~cluster[c].cilium => cluster[c].applied = {}

PodsWereApplied(c) ==
  \A w \in cluster[c].pods : \E t \in Topologies : <<t, w>> \in cluster[c].applied

AgentsGuarded(c) ==
  \A t \in Topologies : \A w \in {"agent-a", "agent-b"} :
    <<t, w>> \in cluster[c].applied => Guarding(c, t)

OfOneTopology(c) == \A m, n \in cluster[c].applied : m[1] = n[1]

Clusters ==
  \A c \in Undisturbed :
    BareBeforeCilium(c) /\ PodsWereApplied(c) /\ AgentsGuarded(c) /\ OfOneTopology(c)

Effective(command, c, t) ==
  /\ command.do = "apply" => <<t, command.what>> \in cluster[c].applied
  /\ command.do = "rollout" => command.what \in cluster[c].pods

(* The script of topology t, before its k-th command, in cluster c.        *)
Acted(t, k, c) ==
  /\ c # NoCluster /\ cluster[c].cilium /\ OfTopology(c, t)
  /\ \A i \in 1 .. k - 1 : Effective(Script(t)[i], c, t)

ScriptActs ==
  running.script \in Topologies /\ running.next > 2 /\ context \in Undisturbed
    => Acted(running.script, running.next, context)

UpIsComplete ==
  \A u \in up : u[2] \in Undisturbed =>
    /\ Guarding(u[2], u[1])
    /\ Stacks(u[1]) \cup {"ollama", "agent-a", "agent-b"} \subseteq cluster[u[2]].pods

Inv == Shape /\ Clusters /\ ScriptActs /\ UpIsComplete

----------------------------------------------------------------------------
LEMMA ShapeTypes == Shape => TypeOK
<1> SUFFICES ASSUME Shape PROVE TypeOK
  OBVIOUS
<1>1. \A t \in Topologies : Exists(t) => cluster[t] \in ClusterType
  BY DEF Shape, ClusterShape, Exists
<1>2. context # NoCluster => context \in Topologies /\ Exists(context)
  BY DEF Shape, ClusterShape
<1>3. running.script \in Topologies \cup {"none", "matrix"} /\ running.next \in Nat
  BY DEF Shape, RunningShape
<1> QED
  BY <1>1, <1>2, <1>3 DEF TypeOK, Shape, UpShape, DisturbedShape

(* Where a script is when it runs a command.                               *)

LEMMA MatrixIs ==
  /\ Script("matrix") = Matrix /\ Len(Matrix) = 4
  /\ Matrix[1] = [do |-> "use-context", what |-> "silo"]
  /\ Matrix[2] = [do |-> "measure", what |-> "silo"]
  /\ Matrix[3] = [do |-> "use-context", what |-> "bridge"]
  /\ Matrix[4] = [do |-> "measure", what |-> "bridge"]
BY DEF Script, Matrix

LEMMA MatrixSteps ==
  ASSUME Shape, running.script = "matrix", running.next <= Len(Script(running.script))
  PROVE  running.next \in {1, 2, 3, 4}
<1>1. Len(Script(running.script)) = 4
  BY MatrixIs
<1>2. running.next <= 4
  BY <1>1, Zenon
<1>3. running.next \in Nat \ {0}
  BY DEF Shape, RunningShape
<1>4. \A n \in Nat \ {0} : n <= 4 => n \in {1, 2, 3, 4}
  OBVIOUS
<1> QED
  BY <1>2, <1>3, <1>4, Zenon

LEMMA AtWork ==
  ASSUME Shape, running # Idle
  PROVE  running.script \in Topologies \cup {"matrix"} /\ running.next \in Nat \ {0}
BY DEF Shape, RunningShape

(* The commands of a bootstrap script.                                     *)
LEMMA Bootstrapping ==
  ASSUME Shape, NEW do, Current(do), do # "use-context", do # "measure"
  PROVE  /\ running.script \in Topologies
         /\ running.next \in 1 .. Len(Script(running.script))
         /\ Command \in Commands /\ Command.do = do
         /\ do = "create" <=> running.next = 1
         /\ do = "cilium" <=> running.next = 2
<1>1. /\ running # Idle /\ running.next <= Len(Script(running.script))
      /\ Command.do = do
  BY DEF Current
<1>2. running.script # "matrix"
  <2>1. SUFFICES ASSUME running.script = "matrix" PROVE FALSE
    OBVIOUS
  <2>2. running.next \in {1, 2, 3, 4}
    BY <1>1, <2>1, MatrixSteps
  <2>3. Command.do \in {"use-context", "measure"}
    BY <2>1, <2>2, MatrixIs DEF Command
  <2> QED
    BY <1>1, <2>3
<1>3. running.script \in Topologies
  BY <1>1, <1>2, AtWork
<1>4. Begins(Script(running.script))
  BY <1>3, ScriptIs
<1>5. Len(Script(running.script)) \in Nat
  BY <1>4 DEF Begins
<1>6. running.next \in 1 .. Len(Script(running.script))
  BY <1>1, <1>5, AtWork
<1>7. Command \in Commands
  BY <1>4, <1>6 DEF Begins, Command
<1>8. do = "create" <=> running.next = 1
  <2>1. running.next = 1 => do = "create"
    BY <1>1, <1>4 DEF Begins, Command, Do
  <2>2. running.next # 1 => do # "create"
    BY <1>1, <1>4, <1>6 DEF Begins, Command, Do, Later
  <2> QED
    BY <2>1, <2>2
<1>9. do = "cilium" <=> running.next = 2
  <2>1. running.next = 2 => do = "cilium"
    BY <1>1, <1>4 DEF Begins, Command, Do
  <2>2. running.next # 2 => do # "cilium"
    BY <1>1, <1>4, <1>6 DEF Begins, Command, Do, Later
  <2> QED
    BY <2>1, <2>2
<1> QED
  BY <1>1, <1>3, <1>6, <1>7, <1>8, <1>9

(* The commands of run_matrix.sh.                                          *)
LEMMA Measuring ==
  ASSUME Shape, NEW do \in {"use-context", "measure"}, Current(do)
  PROVE  /\ running.script = "matrix"
         /\ do = "use-context" => \/ running.next = 1 /\ Command.what = "silo"
                                  \/ running.next = 3 /\ Command.what = "bridge"
         /\ do = "measure" => \/ running.next = 2 /\ Command.what = "silo"
                              \/ running.next = 4 /\ Command.what = "bridge"
<1>1. /\ running # Idle /\ running.next <= Len(Script(running.script))
      /\ Command.do = do
  BY DEF Current
<1>2. running.script = "matrix"
  <2>1. SUFFICES ASSUME running.script \in Topologies PROVE FALSE
    BY <1>1, AtWork
  <2>2. Begins(Script(running.script))
    BY <2>1, ScriptIs
  <2>3. running.next \in 1 .. Len(Script(running.script))
    BY <1>1, <2>2, AtWork DEF Begins
  <2>4. Command \in Commands
    BY <2>2, <2>3 DEF Begins, Command
  <2> QED
    BY <1>1, <2>4 DEF Commands
<1>3. running.next \in {1, 2, 3, 4}
  BY <1>1, <1>2, MatrixSteps
<1>4. Command = Matrix[running.next]
  BY <1>2, MatrixIs DEF Command
<1> QED
  BY <1>1, <1>2, <1>3, <1>4, MatrixIs

LEMMA Proceeds ==
  ASSUME Shape, Proceed
  PROVE  /\ running'.script = running.script /\ running'.next = running.next + 1
         /\ running' \in [script : Topologies \cup {"none", "matrix"}, next : Nat \ {0}]
BY DEF Shape, RunningShape, Proceed

LEMMA Idles ==
  /\ Idle.script = "none" /\ Idle.next = 1
  /\ Idle \in [script : Topologies \cup {"none", "matrix"}, next : Nat \ {0}]
BY DEF Idle

LEMMA ContextExists ==
  ASSUME Shape, context # NoCluster
  PROVE  context \in Topologies /\ Exists(context) /\ Target \in ClusterType
BY DEF Shape, ClusterShape, Exists, Target

LEMMA ExistingTyped ==
  ASSUME Shape, NEW c \in Topologies, Exists(c)
  PROVE  cluster[c] \in ClusterType
BY DEF Shape, ClusterShape, Exists

(* A step that gives one cluster a new value.                              *)
LEMMA Updates ==
  ASSUME Shape, NEW d \in Topologies, NEW v \in ClusterType,
         cluster' = [cluster EXCEPT ![d] = v]
  PROVE  /\ cluster' \in [Topologies -> ClusterType \cup {NoCluster}]
         /\ cluster'[d] = v /\ v # NoCluster
         /\ \A c \in Topologies : c # d => cluster'[c] = cluster[c]
         /\ \A c \in Topologies : Exists(c) => Exists(c)'
         /\ \A c \in Topologies : Exists(c)' => Exists(c) \/ c = d
BY NoClusterAssumption DEF Shape, ClusterShape, Exists

LEMMA UpTyped ==
  ASSUME Shape, NEW u \in up
  PROVE  u = <<u[1], u[2]>> /\ u[1] \in Topologies /\ u[2] \in Topologies /\ Exists(u[2])
BY DEF Shape, UpShape

LEMMA ProceedShape ==
  ASSUME Shape, running.script # "none", Proceed
  PROVE  RunningShape'
BY Proceeds DEF RunningShape

LEMMA UpdateShape ==
  ASSUME Shape, NEW d \in Topologies, NEW v \in ClusterType,
         cluster' = [cluster EXCEPT ![d] = v], UNCHANGED <<up, disturbed>>,
         context' = context \/ context' = d
  PROVE  ClusterShape' /\ UpShape' /\ DisturbedShape'
<1>1. /\ cluster' \in [Topologies -> ClusterType \cup {NoCluster}]
      /\ cluster'[d] # NoCluster
      /\ \A c \in Topologies : cluster[c] # NoCluster => cluster'[c] # NoCluster
  BY Updates DEF Exists
<1>2. ClusterShape /\ UpShape /\ DisturbedShape
  BY DEF Shape
<1>3. ClusterShape'
  BY <1>1, <1>2 DEF ClusterShape, Exists
<1>4. UpShape'
  BY <1>1, <1>2 DEF UpShape, Exists
<1>5. DisturbedShape'
  BY <1>1, <1>2 DEF DisturbedShape, Exists
<1> QED
  BY <1>3, <1>4, <1>5

(* What the clusters become.                                               *)
LEMMA EmptyTyped == Empty \in ClusterType
BY DEF Empty, ClusterType

LEMMA InstallCiliumIs ==
  ASSUME Shape, InstallCilium
  PROVE  \E v \in ClusterType :
           /\ context \in Topologies /\ Exists(context)
           /\ cluster' = [cluster EXCEPT ![context] = v]
           /\ v.applied = Target.applied /\ v.pods = Target.pods /\ v.cilium /\ ~Target.cilium
<1> DEFINE v == [Target EXCEPT !.cilium = TRUE]
<1>1. /\ context \in Topologies /\ Exists(context)
      /\ cluster' = [cluster EXCEPT ![context] = v] /\ ~Target.cilium
  BY ContextExists DEF InstallCilium, Update
<1>2. Target \in ClusterType
  BY <1>1, ExistingTyped DEF Target
<1>3. /\ v \in ClusterType
      /\ v.applied = Target.applied /\ v.pods = Target.pods /\ v.cilium
  BY <1>2 DEF ClusterType
<1> QED
  BY <1>1, <1>3

LEMMA ApplyManifestIs ==
  ASSUME Shape, ApplyManifest
  PROVE  \E v \in ClusterType :
           /\ context \in Topologies /\ Exists(context)
           /\ cluster' = [cluster EXCEPT ![context] = v]
           /\ v.applied = Target.applied \cup {<<running.script, Command.what>>}
           /\ v.pods = Target.pods /\ v.cilium = Target.cilium
<1> DEFINE m == <<running.script, Command.what>>
           v == [Target EXCEPT !.applied = Target.applied \cup {m}]
<1>1. /\ context \in Topologies /\ Exists(context)
      /\ cluster' = [cluster EXCEPT ![context] = v]
  BY ContextExists DEF ApplyManifest, Update
<1>2. Target \in ClusterType
  BY <1>1, ExistingTyped DEF Target
<1>3. m \in Topologies \X Manifests
  <2>1. /\ running.script \in Topologies
        /\ running.next \in 1 .. Len(Script(running.script))
    BY Bootstrapping DEF ApplyManifest
  <2>2. Command \in UNION {{Script(t)[i] : i \in 1 .. Len(Script(t))} : t \in Topologies}
    BY <2>1 DEF Command
  <2> QED
    BY <2>1, <2>2 DEF Manifests
<1> HIDE DEF m
<1>4. /\ v \in ClusterType
      /\ v.applied = Target.applied \cup {m}
      /\ v.pods = Target.pods /\ v.cilium = Target.cilium
  BY <1>2, <1>3 DEF ClusterType
<1> QED
  BY <1>1, <1>4 DEF m

LEMMA LoadImageIs ==
  ASSUME Shape, LoadImage
  PROVE  \E d \in Topologies : \E v \in ClusterType :
           /\ Exists(d) /\ cluster' = [cluster EXCEPT ![d] = v]
           /\ v.applied = cluster[d].applied /\ v.pods = cluster[d].pods
           /\ v.cilium = cluster[d].cilium
<1> DEFINE d == running.script
           v == [cluster[d] EXCEPT !.image = TRUE]
<1>1. d \in Topologies /\ running.next \in Nat /\ running.next > 1
  BY Bootstrapping DEF LoadImage
<1>2. Exists(d) /\ cluster[d] \in ClusterType
  BY <1>1, ExistingTyped DEF LoadImage
<1>3. /\ v \in ClusterType
      /\ v.applied = cluster[d].applied /\ v.pods = cluster[d].pods
      /\ v.cilium = cluster[d].cilium
  BY <1>2 DEF ClusterType
<1>4. cluster' = [cluster EXCEPT ![d] = v]
  BY DEF LoadImage
<1> QED
  BY <1>1, <1>2, <1>3, <1>4

LEMMA StartPodsIs ==
  ASSUME Shape, NEW d \in Topologies, NEW w \in Workloads, StartPods(d, w)
  PROVE  \E v \in ClusterType :
           /\ Exists(d) /\ cluster[d].cilium /\ cluster' = [cluster EXCEPT ![d] = v]
           /\ v.applied = cluster[d].applied /\ v.pods = cluster[d].pods \cup {w}
           /\ v.cilium = cluster[d].cilium
<1> DEFINE v == [cluster[d] EXCEPT !.pods = cluster[d].pods \cup {w}]
<1>1. Exists(d) /\ cluster[d].cilium /\ cluster' = [cluster EXCEPT ![d] = v]
  BY DEF StartPods
<1>2. cluster[d] \in ClusterType
  BY <1>1, ExistingTyped
<1>3. /\ v \in ClusterType
      /\ v.applied = cluster[d].applied /\ v.pods = cluster[d].pods \cup {w}
      /\ v.cilium = cluster[d].cilium
  BY <1>2 DEF ClusterType
<1> QED
  BY <1>1, <1>3

----------------------------------------------------------------------------
(* The steps, one conjunct of the invariant at a time.                     *)

(* The closing echo speaks of a cluster that exists.                       *)
LEMMA FinishUp ==
  ASSUME Shape, ScriptActs, Finish
  PROVE  \/ up' = up
         \/ /\ running.script \in Topologies /\ context \in Topologies /\ Exists(context)
            /\ running.next > Len(Script(running.script))
            /\ context \in Undisturbed => Acted(running.script, running.next, context)
            /\ up' = up \cup {<<running.script, context>>}
<1>1. running # Idle /\ running.next > Len(Script(running.script))
  BY DEF Finish
<1>2. CASE running.script = "matrix" \/ context = NoCluster
  BY <1>2 DEF Finish
<1>3. CASE running.script \in Topologies /\ context # NoCluster
  <2>1. Len(Script(running.script)) \in Nat /\ Len(Script(running.script)) >= 2
    BY <1>3, ScriptIs DEF Begins
  <2>2. running.next \in Nat
    BY <1>1, AtWork
  <2>3. context \in Undisturbed => Acted(running.script, running.next, context)
    BY <1>1, <1>3, <2>1, <2>2 DEF ScriptActs
  <2>4. context \in Topologies /\ Exists(context)
    BY <1>3, ContextExists
  <2>5. up' = up \cup {<<running.script, context>>}
    BY <1>3 DEF Finish, Topologies
  <2> QED
    BY <1>1, <1>3, <2>3, <2>4, <2>5
<1> QED
  BY <1>1, <1>2, <1>3, AtWork

(* Neither a script nor its start or end leaves the types.                 *)
LEMMA ShapeStep ==
  ASSUME Shape, ScriptActs, [Next]_vars
  PROVE  Shape'
<1>0. RunningShape /\ ClusterShape /\ UpShape /\ DisturbedShape
  BY DEF Shape
<1>i. RunningShape /\ running' = Idle => RunningShape'
  BY Idles DEF RunningShape
<1>1. ASSUME NEW t \in Topologies, Start(t) PROVE Shape'
  <2>1. RunningShape'
    BY <1>1 DEF Start, RunningShape, Topologies
  <2> QED
    BY <1>0, <1>1, <2>1 DEF Shape, Start, ClusterShape, UpShape, DisturbedShape, Exists
<1>2. ASSUME NEW t \in Topologies, UseContext(t) PROVE Shape'
  BY <1>0, <1>2 DEF Shape, UseContext, RunningShape, ClusterShape, UpShape, DisturbedShape, Exists
<1>3. ASSUME NEW t \in Topologies, Delete(t) PROVE Shape'
  <2>1. RunningShape'
    BY <1>0, <1>3 DEF Delete, RunningShape
  <2>4. DisturbedShape'
    BY <1>0, <1>3 DEF Delete, DisturbedShape, ClusterShape, Exists
  <2>2. ClusterShape'
    BY <1>0, <1>3 DEF Delete, ClusterShape, Exists
  <2>3. UpShape'
    BY <1>0, <1>3 DEF Delete, ClusterShape, UpShape, DisturbedShape, Exists
  <2> QED
    BY <2>1, <2>2, <2>3, <2>4 DEF Shape
<1>4. CASE Create
  <2>1. running.script \in Topologies
    BY <1>4, Bootstrapping DEF Create
  <2>2. RunningShape'
    BY <1>4, <2>1, ProceedShape DEF Create, Topologies
  <2>3. CASE Exists(running.script)
    BY <1>0, <1>4, <2>2, <2>3 DEF Shape, Create, ClusterShape, UpShape, DisturbedShape, Exists
  <2>4. CASE ~Exists(running.script)
    <3>1. cluster' = [cluster EXCEPT ![running.script] = Empty] /\ context' = running.script
      BY <1>4, <2>4 DEF Create
    <3>2. ClusterShape' /\ UpShape' /\ DisturbedShape'
      BY <1>4, <2>1, <3>1, EmptyTyped, UpdateShape DEF Create
    <3> QED
      BY <1>0, <1>4, <2>2, <3>2 DEF Shape, Create
  <2> QED
    BY <2>3, <2>4
<1>5. CASE InstallCilium
  <2>1. RunningShape'
    BY <1>5, Bootstrapping, ProceedShape DEF InstallCilium, Topologies
  <2>2. ClusterShape' /\ UpShape' /\ DisturbedShape'
    BY <1>5, InstallCiliumIs, UpdateShape DEF InstallCilium
  <2> QED
    BY <1>0, <1>5, <2>1, <2>2 DEF Shape, InstallCilium
<1>6. CASE LoadImage
  <2>1. RunningShape'
    BY <1>6, Bootstrapping, ProceedShape DEF LoadImage, Topologies
  <2>2. ClusterShape' /\ UpShape' /\ DisturbedShape'
    BY <1>6, LoadImageIs, UpdateShape DEF LoadImage
  <2> QED
    BY <1>0, <1>6, <2>1, <2>2 DEF Shape, LoadImage
<1>7. CASE ApplyManifest
  <2>1. RunningShape'
    BY <1>7, Bootstrapping, ProceedShape DEF ApplyManifest, Topologies
  <2>2. ClusterShape' /\ UpShape' /\ DisturbedShape'
    BY <1>7, ApplyManifestIs, UpdateShape DEF ApplyManifest
  <2> QED
    BY <1>0, <1>7, <2>1, <2>2 DEF Shape, ApplyManifest
<1>8. CASE AwaitRollout \/ PullModel
  <2>1. RunningShape'
    BY <1>8, Bootstrapping, ProceedShape DEF AwaitRollout, PullModel, Topologies
  <2> QED
    BY <1>0, <1>8, <2>1 DEF Shape, AwaitRollout, PullModel, ClusterShape, UpShape, DisturbedShape, Exists
<1>9. CASE Finish
  <2>1. RunningShape' /\ ClusterShape' /\ DisturbedShape'
    BY <1>0, <1>9, <1>i DEF Finish, ClusterShape, DisturbedShape, Exists
  <2>2. UpShape'
    BY <1>0, <1>9, FinishUp DEF Finish, UpShape, Exists
  <2> QED
    BY <2>1, <2>2 DEF Shape
<1>10. CASE Fail
  <2>1. RunningShape'
    BY <1>0, <1>10, <1>i DEF Fail
  <2> QED
    BY <1>0, <1>10, <2>1 DEF Shape, Fail, ClusterShape, UpShape, DisturbedShape, Exists
<1>11. CASE StartMatrix
  <2>1. RunningShape'
    BY <1>11 DEF StartMatrix, RunningShape
  <2> QED
    BY <1>0, <1>11, <2>1 DEF Shape, StartMatrix, ClusterShape, UpShape, DisturbedShape, Exists
<1>12. CASE SwitchOrAbort
  <2>1. running.script = "matrix" /\ Command.what \in Topologies
    BY <1>12, Measuring DEF SwitchOrAbort, Topologies
  <2>2. CASE Exists(Command.what)
    <3>1. Proceed /\ context' = Command.what
      BY <1>12, <2>2 DEF SwitchOrAbort
    <3>2. RunningShape'
      BY <2>1, <3>1, ProceedShape
    <3> QED
      BY <1>0, <1>12, <2>1, <2>2, <3>1, <3>2
         DEF Shape, SwitchOrAbort, ClusterShape, UpShape, DisturbedShape, Exists
  <2>3. CASE ~Exists(Command.what)
    <3>1. running' = Idle /\ UNCHANGED context
      BY <1>12, <2>3 DEF SwitchOrAbort
    <3> QED
      BY <1>0, <1>12, <1>i, <3>1 DEF Shape, SwitchOrAbort, ClusterShape, UpShape, DisturbedShape, Exists
  <2> QED
    BY <2>2, <2>3
<1>13. CASE Measure
  <2>1. running.script = "matrix" /\ Command.what \in Topologies
    BY <1>13, Measuring DEF Measure, Topologies
  <2>2. RunningShape'
    BY <1>0, <1>13, <2>1, ProceedShape DEF Measure, RunningShape
  <2> QED
    BY <1>0, <1>13, <2>2 DEF Shape, Measure, ClusterShape, UpShape, DisturbedShape, Exists
<1>14. ASSUME NEW c \in Topologies, NEW w \in Workloads, StartPods(c, w) PROVE Shape'
  <2>1. ClusterShape' /\ UpShape' /\ DisturbedShape'
    BY <1>14, StartPodsIs, UpdateShape DEF StartPods
  <2> QED
    BY <1>0, <1>14, <2>1 DEF Shape, StartPods, RunningShape
<1>15. CASE UNCHANGED vars
  BY <1>0, <1>15 DEF Shape, vars, RunningShape, ClusterShape, UpShape, DisturbedShape, Exists
<1> QED
  BY <1>1, <1>2, <1>3, <1>4, <1>5, <1>6, <1>7, <1>8, <1>9, <1>10, <1>11, <1>12, <1>13, <1>14, <1>15
     DEF Next

(* One cluster of a step takes a value that is as good as the rest.        *)
LEMMA UpdateClusters ==
  ASSUME Shape, Clusters, NEW d \in Topologies, NEW v \in ClusterType,
         cluster' = [cluster EXCEPT ![d] = v], UNCHANGED disturbed,
         d \in disturbed \/
           /\ ~v.cilium => v.applied = {}
           /\ \A w \in v.pods : \E t \in Topologies : <<t, w>> \in v.applied
           /\ \A t \in Topologies : \A w \in {"agent-a", "agent-b"} :
                <<t, w>> \in v.applied => \A m \in Guards(t) : <<t, m>> \in v.applied
           /\ \A m, n \in v.applied : m[1] = n[1]
  PROVE  Clusters'
<1>1. /\ cluster'[d] = v
      /\ \A c \in Topologies : c # d => cluster'[c] = cluster[c]
  BY Updates
<1>2. SUFFICES ASSUME NEW c \in Topologies, Exists(c)', c \notin disturbed
               PROVE  (BareBeforeCilium(c) /\ PodsWereApplied(c) /\ AgentsGuarded(c)
                        /\ OfOneTopology(c))'
  BY DEF Clusters, Undisturbed
<1>3. CASE c = d
  BY <1>1, <1>2, <1>3
     DEF BareBeforeCilium, PodsWereApplied, AgentsGuarded, OfOneTopology, Guarding
<1>4. CASE c # d
  <2>1. cluster'[c] = cluster[c] /\ c \in Undisturbed
    BY <1>1, <1>2, <1>4 DEF Exists, Undisturbed
  <2> QED
    BY <2>1
       DEF Clusters, BareBeforeCilium, PodsWereApplied, AgentsGuarded, OfOneTopology, Guarding
<1> QED
  BY <1>3, <1>4

(* What one cluster is like before it changes.                             *)
LEMMA ClusterIs ==
  ASSUME Clusters, NEW d \in Undisturbed
  PROVE  /\ ~cluster[d].cilium => cluster[d].applied = {}
         /\ \A w \in cluster[d].pods : \E t \in Topologies : <<t, w>> \in cluster[d].applied
         /\ \A t \in Topologies : \A w \in {"agent-a", "agent-b"} :
              <<t, w>> \in cluster[d].applied
                => \A m \in Guards(t) : <<t, m>> \in cluster[d].applied
         /\ \A m, n \in cluster[d].applied : m[1] = n[1]
BY DEF Clusters, BareBeforeCilium, PodsWereApplied, AgentsGuarded, OfOneTopology, Guarding

LEMMA SameManifests ==
  ASSUME Shape, Clusters, NEW d \in Topologies, Exists(d), NEW v \in ClusterType,
         cluster' = [cluster EXCEPT ![d] = v], UNCHANGED disturbed,
         v.applied = cluster[d].applied, cluster[d].cilium => v.cilium,
         \A w \in v.pods : w \in cluster[d].pods
                           \/ \E t \in Topologies : <<t, w>> \in cluster[d].applied
  PROVE  Clusters'
<1>1. CASE d \in disturbed
  BY <1>1, UpdateClusters
<1>2. CASE d \notin disturbed
  <2>0. d \in Undisturbed
    BY <1>2 DEF Undisturbed
  <2>1. ~v.cilium => v.applied = {}
    BY <2>0, ClusterIs
  <2>2. \A w \in v.pods : \E t \in Topologies : <<t, w>> \in v.applied
    BY <2>0, ClusterIs
  <2>3. \A t \in Topologies : \A w \in {"agent-a", "agent-b"} :
          <<t, w>> \in v.applied => \A m \in Guards(t) : <<t, m>> \in v.applied
    BY <2>0, ClusterIs
  <2>4. \A m, n \in v.applied : m[1] = n[1]
    BY <2>0, ClusterIs
  <2> QED
    BY <2>1, <2>2, <2>3, <2>4, UpdateClusters
<1> QED
  BY <1>1, <1>2

(* A script applies an agent in a cluster that it has guarded.             *)
LEMMA AgentsAfterGuards ==
  ASSUME Shape, ScriptActs, ApplyManifest, context \in Undisturbed,
         NEW m \in Guards(running.script),
         Command.what \in {"agent-a", "agent-b"}
  PROVE  <<running.script, m>> \in Target.applied
<1> DEFINE t == running.script
<1>1. /\ t \in Topologies /\ running.next \in 1 .. Len(Script(t))
      /\ Command.do = "apply" /\ running.next # 1 /\ running.next # 2
  BY Bootstrapping DEF ApplyManifest
<1>2. Guarded(Script(t)[running.next])
  BY <1>1 DEF Guarded, Command
<1>3. PICK i \in 1 .. running.next - 1 : Script(t)[i] = Apply(m)
  BY <1>1, <1>2, GuardsComeFirst
<1>4. Acted(t, running.next, context)
  BY <1>1 DEF ScriptActs
<1>5. Effective(Apply(m), context, t)
  BY <1>3, <1>4 DEF Acted
<1> QED
  BY <1>5 DEF Effective, Apply, Target

LEMMA ClustersStep ==
  ASSUME Shape, ScriptActs, Clusters, [Next]_vars
  PROVE  Clusters'
<1>1. ASSUME UNCHANGED cluster, disturbed \subseteq disturbed' PROVE Clusters'
  BY <1>1 DEF Clusters, Undisturbed, Exists, BareBeforeCilium, PodsWereApplied, AgentsGuarded,
     OfOneTopology, Guarding
<1>2. ASSUME NEW t \in Topologies, Start(t) \/ UseContext(t) PROVE Clusters'
  BY <1>1, <1>2 DEF Start, UseContext
<1>3. ASSUME NEW t \in Topologies, Delete(t) PROVE Clusters'
  <2>1. SUFFICES ASSUME NEW c \in Topologies, Exists(c)', c \notin disturbed'
                 PROVE  (BareBeforeCilium(c) /\ PodsWereApplied(c) /\ AgentsGuarded(c)
                          /\ OfOneTopology(c))'
    BY DEF Clusters, Undisturbed
  <2>2. cluster' = [cluster EXCEPT ![t] = NoCluster] /\ disturbed' = disturbed \ {t}
    BY <1>3 DEF Delete
  <2>3. cluster'[c] = cluster[c] /\ c \in Undisturbed
    BY <2>1, <2>2 DEF Exists, Undisturbed, Shape, ClusterShape
  <2> QED
    BY <2>3
       DEF Clusters, BareBeforeCilium, PodsWereApplied, AgentsGuarded, OfOneTopology, Guarding
<1>4. CASE Create
  <2>1. running.script \in Topologies
    BY <1>4, Bootstrapping DEF Create
  <2>2. CASE Exists(running.script)
    BY <1>1, <1>4, <2>2 DEF Create
  <2>3. CASE ~Exists(running.script)
    <3>1. cluster' = [cluster EXCEPT ![running.script] = Empty]
      BY <1>4, <2>3 DEF Create
    <3>2. Empty.applied = {} /\ Empty.pods = {}
      BY DEF Empty
    <3> QED
      BY <1>4, <2>1, <3>1, <3>2, EmptyTyped, UpdateClusters DEF Create
  <2> QED
    BY <2>2, <2>3
<1>5. CASE InstallCilium
  <2>1. PICK v \in ClusterType :
          /\ context \in Topologies /\ Exists(context)
          /\ cluster' = [cluster EXCEPT ![context] = v]
          /\ v.applied = Target.applied /\ v.pods = Target.pods /\ v.cilium
    BY <1>5, InstallCiliumIs
  <2> QED
    BY <1>5, <2>1, SameManifests DEF Target, InstallCilium
<1>6. CASE LoadImage
  <2>1. PICK d \in Topologies, v \in ClusterType :
          /\ Exists(d) /\ cluster' = [cluster EXCEPT ![d] = v]
          /\ v.applied = cluster[d].applied /\ v.pods = cluster[d].pods
          /\ v.cilium = cluster[d].cilium
    BY <1>6, LoadImageIs
  <2> QED
    BY <1>6, <2>1, SameManifests DEF LoadImage
<1>7. CASE ApplyManifest
  <2>1. PICK v \in ClusterType :
          /\ context \in Topologies /\ Exists(context)
          /\ cluster' = [cluster EXCEPT ![context] = v]
          /\ v.applied = Target.applied \cup {<<running.script, Command.what>>}
          /\ v.pods = Target.pods /\ v.cilium = Target.cilium
    BY <1>7, ApplyManifestIs
  <2>2. running.script \in Topologies /\ running.next \in Nat /\ running.next > 2
    BY <1>7, Bootstrapping DEF ApplyManifest
  <2>0. UNCHANGED disturbed
    BY <1>7 DEF ApplyManifest
  <2>3. CASE context \in disturbed
    BY <2>0, <2>1, <2>3, UpdateClusters
  <2>4. CASE context \notin disturbed
    <3>0. context \in Undisturbed
      BY <2>1, <2>4 DEF Undisturbed
    <3>1. Target.cilium /\ \A m \in Target.applied : m[1] = running.script
      BY <2>2, <3>0 DEF ScriptActs, Acted, OfTopology, Target
    <3>2. \A m, n \in v.applied : m[1] = n[1]
      BY <2>1, <3>1
    <3>3. ASSUME NEW t \in Topologies, NEW w \in {"agent-a", "agent-b"}, <<t, w>> \in v.applied,
                 NEW m \in Guards(t)
          PROVE  <<t, m>> \in v.applied
      <4>1. CASE <<t, w>> \in Target.applied
        BY <2>1, <3>0, <3>3, <4>1, ClusterIs DEF Target
      <4>2. CASE t = running.script /\ w = Command.what
        BY <1>7, <2>1, <3>0, <4>2, AgentsAfterGuards
      <4> QED
        BY <2>1, <3>3, <4>1, <4>2
    <3>4. \A w \in v.pods : \E t \in Topologies : <<t, w>> \in v.applied
      BY <2>1, <3>0, ClusterIs DEF Target
    <3> QED
      BY <2>0, <2>1, <3>1, <3>2, <3>3, <3>4, UpdateClusters
  <2> QED
    BY <2>3, <2>4
<1>8. CASE AwaitRollout \/ PullModel \/ Finish \/ Fail \/ StartMatrix \/ SwitchOrAbort \/ Measure
  BY <1>1, <1>8 DEF AwaitRollout, PullModel, Finish, Fail, StartMatrix, SwitchOrAbort, Measure
<1>9. ASSUME NEW d \in Topologies, NEW w \in Workloads, StartPods(d, w) PROVE Clusters'
  <2>1. PICK v \in ClusterType :
          /\ Exists(d) /\ cluster' = [cluster EXCEPT ![d] = v]
          /\ v.applied = cluster[d].applied /\ v.pods = cluster[d].pods \cup {w}
          /\ v.cilium = cluster[d].cilium
    BY <1>9, StartPodsIs
  <2>2. \E t \in Topologies : <<t, w>> \in cluster[d].applied
    BY <1>9 DEF StartPods
  <2> QED
    BY <1>9, <2>1, <2>2, SameManifests DEF StartPods
<1>10. CASE UNCHANGED vars
  BY <1>1, <1>10 DEF vars
<1> QED
  BY <1>2, <1>3, <1>4, <1>5, <1>6, <1>7, <1>8, <1>9, <1>10 DEF Next

(* What a script has done in a cluster stays done while the cluster gets   *)
(* manifests of the same topology and pods.                                *)
LEMMA ActedStays ==
  ASSUME Shape, NEW d \in Topologies, NEW v \in ClusterType,
         cluster' = [cluster EXCEPT ![d] = v],
         cluster[d].applied \subseteq v.applied, cluster[d].pods \subseteq v.pods,
         cluster[d].cilium => v.cilium,
         NEW t \in Topologies, NEW k \in Nat, NEW c, Acted(t, k, c), c \in Topologies,
         \A m \in v.applied : m \in cluster[d].applied \/ c # d \/ m[1] = t
  PROVE  Acted(t, k, c)'
<1>1. /\ cluster'[d] = v
      /\ \A e \in Topologies : e # d => cluster'[e] = cluster[e]
  BY Updates
<1>2. cluster'[c].cilium
  BY <1>1 DEF Acted
<1>3. \A m \in cluster'[c].applied : m[1] = t
  BY <1>1 DEF Acted, OfTopology
<1>4. /\ cluster[c].applied \subseteq cluster'[c].applied
      /\ cluster[c].pods \subseteq cluster'[c].pods
  BY <1>1
<1>5. ASSUME NEW i \in 1 .. k - 1 PROVE Effective(Script(t)[i], c, t)'
  <2>1. Effective(Script(t)[i], c, t)
    BY <1>5 DEF Acted
  <2> QED
    BY <1>4, <2>1 DEF Effective
<1> QED
  BY <1>2, <1>3, <1>5 DEF Acted, OfTopology

(* A script goes on to its next command.                                   *)
LEMMA ActedProceeds ==
  ASSUME Shape, Proceed, UNCHANGED context,
         NEW t \in Topologies, t = running.script, NEW k \in Nat, k = running.next,
         NEW c, c = context, Acted(t, k, c)', Effective(Script(t)[k], c, t)'
  PROVE  ScriptActs'
<1>1. running'.script = t /\ running'.next = k + 1 /\ context' = c
  BY Proceeds
<1>2. Acted(t, k + 1, c)'
  <2>1. ASSUME NEW i \in 1 .. k PROVE Effective(Script(t)[i], c, t)'
    <3>1. CASE i = k
      BY <3>1
    <3>2. CASE i \in 1 .. k - 1
      BY <3>2 DEF Acted
    <3> QED
      BY <2>1, <3>1, <3>2
  <2> QED
    BY <2>1 DEF Acted
<1>3. Acted(running.script, running.next, context)' => ScriptActs'
  BY DEF ScriptActs
<1>4. Acted(running.script, running.next, context)' <=> Acted(t, k + 1, c)'
  BY <1>1 DEF Acted, OfTopology, Effective
<1> QED
  BY <1>2, <1>3, <1>4

LEMMA ScriptActsStep ==
  ASSUME Shape, Clusters, ScriptActs, [Next]_vars
  PROVE  ScriptActs'
<1>0. running.next \in Nat \ {0}
  BY DEF Shape, RunningShape
<1>1. ASSUME running' = Idle \/ running'.script = "matrix" PROVE ScriptActs'
  BY <1>1, Idles DEF ScriptActs, Topologies
<1>2. ASSUME running.script \in Topologies, running.next > 2, context \in Undisturbed,
             NEW t, NEW k, NEW c, t = running.script, k = running.next, c = context
      PROVE  Acted(t, k, c) /\ c \in Topologies /\ k \in Nat /\ t \in Topologies
  <2>1. Acted(t, k, c)
    BY <1>2 DEF ScriptActs
  <2>2. c # NoCluster
    BY <2>1 DEF Acted
  <2> QED
    BY <1>0, <1>2, <2>1, <2>2, ContextExists
<1>a. ASSUME UNCHANGED <<context, disturbed>>, context' \in Undisturbed',
             \A c \in Topologies : Exists(c)' => Exists(c)
      PROVE  context \in Undisturbed
  BY <1>a DEF Undisturbed, Exists
<1>b. SUFFICES ASSUME context' \in Undisturbed' PROVE ScriptActs'
  BY DEF ScriptActs
<1>3. ASSUME NEW t \in Topologies, Start(t) PROVE ScriptActs'
  BY <1>3 DEF Start, ScriptActs
<1>14. ASSUME NEW t \in Topologies, UseContext(t) PROVE ScriptActs'
  BY <1>b, <1>14 DEF UseContext, ScriptActs, Undisturbed
<1>15. ASSUME NEW t \in Topologies, Delete(t) PROVE ScriptActs'
  <2>1. /\ cluster' = [cluster EXCEPT ![t] = NoCluster] /\ UNCHANGED running
        /\ context' = IF context = t THEN NoCluster ELSE context
        /\ disturbed' = disturbed \ {t}
    BY <1>15 DEF Delete
  <2>2. context # t /\ context' = context
    BY <1>b, <2>1, NoClusterAssumption DEF Undisturbed
  <2>3. context \in Undisturbed /\ cluster'[context] = cluster[context]
    BY <1>b, <2>1, <2>2 DEF Undisturbed, Exists, Shape, ClusterShape
  <2> QED
    BY <2>1, <2>2, <2>3 DEF ScriptActs, Acted, OfTopology, Effective
<1>4. CASE Create
  <2>1. running'.next = 2
    BY <1>4, Bootstrapping, Proceeds DEF Create
  <2> QED
    BY <2>1 DEF ScriptActs
<1>5. CASE InstallCilium
  <2>1. PICK t \in Topologies : t = running.script
    BY <1>5, Bootstrapping DEF InstallCilium
  <2>2. running.next = 2 /\ Proceed /\ UNCHANGED context
    BY <1>5, Bootstrapping DEF InstallCilium
  <2>3. PICK c \in Topologies, v \in ClusterType :
          /\ c = context /\ Exists(c)
          /\ cluster' = [cluster EXCEPT ![c] = v]
          /\ v.applied = cluster[c].applied /\ v.cilium /\ ~cluster[c].cilium
    BY <1>5, InstallCiliumIs DEF Target
  <2>0. c \in Undisturbed
    BY <1>5, <1>b, <2>2, <2>3 DEF InstallCilium, Undisturbed
  <2>4. cluster'[c] = v /\ c # NoCluster /\ v.applied = {}
    BY <2>0, <2>3, Updates, ClusterIs, NoClusterAssumption
  <2>5. Script(t)[1] = Do("create") /\ Script(t)[2] = Do("cilium")
    BY ScriptIs DEF Begins
  <2>6. Effective(Script(t)[1], c, t)' /\ Effective(Script(t)[2], c, t)'
    BY <2>5 DEF Effective, Do
  <2>7. Acted(t, 2, c)'
    BY <2>3, <2>4, <2>6 DEF Acted, OfTopology
  <2> QED
    BY <2>1, <2>2, <2>3, <2>6, <2>7, ActedProceeds
<1>6. CASE LoadImage
  <2>1. /\ running.script \in Topologies /\ running.next > 2
        /\ Command.do = "load-image" /\ Proceed /\ UNCHANGED context
    BY <1>0, <1>6, Bootstrapping DEF LoadImage
  <2>0. context \in Undisturbed
    BY <1>6, <1>a, <1>b, LoadImageIs, Updates DEF LoadImage
  <2>2. PICK t \in Topologies, k \in Nat, c \in Topologies :
          /\ t = running.script /\ k = running.next /\ c = context /\ Acted(t, k, c)
    BY <1>2, <2>0, <2>1
  <2>3. Acted(t, k, c)'
    <3>1. PICK d \in Topologies, v \in ClusterType :
            /\ Exists(d) /\ cluster' = [cluster EXCEPT ![d] = v]
            /\ v.applied = cluster[d].applied /\ v.pods = cluster[d].pods
            /\ v.cilium = cluster[d].cilium
      BY <1>6, LoadImageIs
    <3> QED
      BY <2>2, <3>1, ActedStays
  <2>4. Effective(Script(t)[k], c, t)'
    BY <2>1, <2>2 DEF Effective, Command
  <2> QED
    BY <2>1, <2>2, <2>3, <2>4, ActedProceeds
<1>7. CASE ApplyManifest
  <2>1. /\ running.script \in Topologies /\ running.next > 2
        /\ Command.do = "apply" /\ Proceed /\ UNCHANGED context
    BY <1>0, <1>7, Bootstrapping DEF ApplyManifest
  <2>0. context \in Undisturbed
    BY <1>7, <1>a, <1>b, ApplyManifestIs, Updates DEF ApplyManifest
  <2>2. PICK t \in Topologies, k \in Nat, c \in Topologies :
          /\ t = running.script /\ k = running.next /\ c = context /\ Acted(t, k, c)
    BY <1>2, <2>0, <2>1
  <2>3. PICK v \in ClusterType :
          /\ cluster' = [cluster EXCEPT ![c] = v]
          /\ v.applied = cluster[c].applied \cup {<<t, Command.what>>}
          /\ v.pods = cluster[c].pods /\ v.cilium = cluster[c].cilium
    BY <1>7, <2>2, ApplyManifestIs DEF Target
  <2>4. Acted(t, k, c)'
    <3>1. /\ cluster[c].applied \subseteq v.applied /\ cluster[c].pods \subseteq v.pods
          /\ cluster[c].cilium => v.cilium
      BY <2>3
    <3>2. \A m \in v.applied : m \in cluster[c].applied \/ m[1] = t
      BY <2>3
    <3> QED
      BY <2>2, <2>3, <3>1, <3>2, ActedStays
  <2>5. Effective(Script(t)[k], c, t)'
    <3>1. Script(t)[k] = Command
      BY <2>2 DEF Command
    <3>2. cluster'[c] = v
      BY <2>3, Updates
    <3> QED
      BY <2>1, <2>3, <3>1, <3>2 DEF Effective
  <2> QED
    BY <2>1, <2>2, <2>4, <2>5, ActedProceeds
<1>8. CASE AwaitRollout \/ PullModel
  <2>1. /\ running.script \in Topologies /\ running.next > 2
        /\ Command.do \in {"rollout", "pull"} /\ Proceed /\ UNCHANGED <<cluster, context>>
    BY <1>0, <1>8, Bootstrapping DEF AwaitRollout, PullModel
  <2>0. context \in Undisturbed
    BY <1>8, <1>a, <1>b DEF AwaitRollout, PullModel, Exists
  <2>2. PICK t \in Topologies, k \in Nat, c \in Topologies :
          /\ t = running.script /\ k = running.next /\ c = context /\ Acted(t, k, c)
    BY <1>2, <2>0, <2>1
  <2>3. Acted(t, k, c)'
    BY <2>1, <2>2 DEF Acted, OfTopology, Effective
  <2>4. Command.do = "rollout" => Command.what \in cluster[c].pods
    BY <1>8, <2>2 DEF AwaitRollout, PullModel, Target, Current
  <2>5. Effective(Script(t)[k], c, t)'
    <3>1. Script(t)[k] = Command
      BY <2>2 DEF Command
    <3> QED
      BY <2>1, <2>4, <3>1 DEF Effective
  <2> QED
    BY <2>1, <2>2, <2>3, <2>5, ActedProceeds
<1>9. CASE Finish \/ Fail
  BY <1>1, <1>9 DEF Finish, Fail
<1>10. CASE StartMatrix
  BY <1>1, <1>10 DEF StartMatrix
<1>11. CASE SwitchOrAbort \/ Measure
  <2>1. running.script = "matrix"
    BY <1>11, Measuring DEF SwitchOrAbort, Measure
  <2> QED
    BY <1>1, <1>11, <2>1, Proceeds DEF SwitchOrAbort, Measure
<1>12. ASSUME NEW d \in Topologies, NEW w \in Workloads, StartPods(d, w) PROVE ScriptActs'
  <2>1. UNCHANGED <<context, running>>
    BY <1>12 DEF StartPods
  <2>0. context \in Undisturbed
    BY <1>12, <1>a, <1>b, StartPodsIs, Updates DEF StartPods
  <2>2. CASE running.script \in Topologies /\ running.next > 2
    <3>1. PICK t \in Topologies, k \in Nat, c \in Topologies :
            /\ t = running.script /\ k = running.next /\ c = context /\ Acted(t, k, c)
      BY <1>2, <2>0, <2>2
    <3>2. PICK v \in ClusterType :
            /\ cluster' = [cluster EXCEPT ![d] = v]
            /\ v.applied = cluster[d].applied /\ v.pods = cluster[d].pods \cup {w}
            /\ v.cilium = cluster[d].cilium
      BY <1>12, StartPodsIs
    <3>3. Acted(t, k, c)'
      BY <3>1, <3>2, ActedStays
    <3> QED
      BY <2>1, <3>1, <3>3 DEF ScriptActs, Acted, OfTopology, Effective
  <2>3. CASE ~(running.script \in Topologies /\ running.next > 2)
    BY <2>1, <2>3 DEF ScriptActs
  <2> QED
    BY <2>2, <2>3
<1>13. CASE UNCHANGED vars
  BY <1>13 DEF vars, ScriptActs, Acted, OfTopology, Effective, Undisturbed, Exists
<1> QED
  BY <1>3, <1>4, <1>5, <1>6, <1>7, <1>8, <1>9, <1>10, <1>11, <1>12, <1>13, <1>14, <1>15
     DEF Next

(* What a finished script has left behind stays until its cluster goes.    *)
LEMMA UpStays ==
  ASSUME Shape, UpIsComplete, NEW d \in Topologies, NEW v \in ClusterType,
         cluster' = [cluster EXCEPT ![d] = v],
         Exists(d) => cluster[d].applied \subseteq v.applied /\ cluster[d].pods \subseteq v.pods,
         UNCHANGED <<up, disturbed>>
  PROVE  UpIsComplete'
<1>1. /\ cluster'[d] = v
      /\ \A e \in Topologies : e # d => cluster'[e] = cluster[e]
  BY Updates
<1>2. ASSUME NEW u \in up, u[2] \in Undisturbed'
      PROVE  /\ u[2] \in Undisturbed
             /\ cluster[u[2]].applied \subseteq cluster'[u[2]].applied
             /\ cluster[u[2]].pods \subseteq cluster'[u[2]].pods
  BY <1>1, <1>2, UpTyped DEF Undisturbed
<1> QED
  BY <1>2 DEF UpIsComplete, Guarding

LEMMA UpStep ==
  ASSUME Shape, ScriptActs, UpIsComplete, [Next]_vars
  PROVE  UpIsComplete'
<1>1. ASSUME UNCHANGED <<cluster, up>>, disturbed \subseteq disturbed' PROVE UpIsComplete'
  BY <1>1 DEF UpIsComplete, Guarding, Undisturbed, Exists
<1>2. ASSUME NEW t \in Topologies, Start(t) \/ UseContext(t) PROVE UpIsComplete'
  BY <1>1, <1>2 DEF Start, UseContext
<1>3. ASSUME NEW t \in Topologies, Delete(t) PROVE UpIsComplete'
  <2>1. /\ cluster' = [cluster EXCEPT ![t] = NoCluster]
        /\ up' = {u \in up : u[2] # t} /\ disturbed' = disturbed \ {t}
    BY <1>3 DEF Delete
  <2>2. ASSUME NEW u \in up', u[2] \in Undisturbed'
        PROVE  u \in up /\ cluster'[u[2]] = cluster[u[2]] /\ u[2] \in Undisturbed
    BY <2>1, <2>2, UpTyped DEF Shape, ClusterShape, Undisturbed, Exists
  <2> QED
    BY <2>2 DEF UpIsComplete, Guarding
<1>4. CASE Create
  <2>1. running.script \in Topologies
    BY <1>4, Bootstrapping DEF Create
  <2>2. CASE Exists(running.script)
    BY <1>1, <1>4, <2>2 DEF Create
  <2>3. CASE ~Exists(running.script)
    <3>1. cluster' = [cluster EXCEPT ![running.script] = Empty] /\ UNCHANGED <<up, disturbed>>
      BY <1>4, <2>3 DEF Create
    <3> QED
      BY <2>1, <2>3, <3>1, EmptyTyped, UpStays
  <2> QED
    BY <2>2, <2>3
<1>5. CASE InstallCilium
  BY <1>5, InstallCiliumIs, UpStays DEF InstallCilium, Target
<1>6. CASE LoadImage
  BY <1>6, LoadImageIs, UpStays DEF LoadImage
<1>7. CASE ApplyManifest
  BY <1>7, ApplyManifestIs, UpStays DEF ApplyManifest, Target
<1>8. CASE AwaitRollout \/ PullModel \/ Fail \/ StartMatrix \/ SwitchOrAbort \/ Measure
  BY <1>1, <1>8 DEF AwaitRollout, PullModel, Fail, StartMatrix, SwitchOrAbort, Measure
<1>9. CASE Finish
  <2>1. UNCHANGED <<cluster, disturbed>>
    BY <1>9 DEF Finish
  <2>2. CASE up' = up
    BY <1>1, <2>1, <2>2
  <2>3. CASE up' # up
    <3>0. running.next \in Nat
      BY DEF Shape, RunningShape
    <3>1. PICK t \in Topologies, k \in Nat, c \in Topologies :
            /\ t = running.script /\ k = running.next /\ c = context
            /\ k > Len(Script(t)) /\ (c \in Undisturbed => Acted(t, k, c)) /\ up' = up \cup {<<t, c>>}
      BY <1>9, <2>3, <3>0, FinishUp
    <3>2. k \in Nat /\ Len(Script(t)) \in Nat
      BY ScriptIs DEF Begins
    <3>3. c \in Undisturbed => \A i \in 1 .. Len(Script(t)) : Effective(Script(t)[i], c, t)
      BY <3>1, <3>2 DEF Acted
    <3>4. ASSUME c \in Undisturbed, NEW m \in Guards(t) PROVE <<t, m>> \in cluster[c].applied
      <4>1. Effective(Apply(m), c, t)
        BY <3>3, <3>4, ScriptComplete
      <4> QED
        BY <4>1 DEF Effective, Apply
    <3>5. ASSUME c \in Undisturbed, NEW w \in Stacks(t) \cup {"ollama", "agent-a", "agent-b"}
          PROVE  w \in cluster[c].pods
      <4>1. Effective(Rollout(w), c, t)
        BY <3>3, <3>5, ScriptComplete
      <4> QED
        BY <4>1 DEF Effective, Rollout
    <3>6. ASSUME NEW u \in up', u[2] \in Undisturbed
          PROVE  /\ Guarding(u[2], u[1])
                 /\ Stacks(u[1]) \cup {"ollama", "agent-a", "agent-b"} \subseteq cluster[u[2]].pods
      <4>1. CASE u \in up
        BY <3>6, <4>1 DEF UpIsComplete
      <4>2. CASE u = <<t, c>>
        <5>1. u[1] = t /\ u[2] = c
          BY <4>2
        <5> QED
          BY <3>4, <3>5, <3>6, <5>1 DEF Guarding
      <4> QED
        BY <3>1, <3>6, <4>1, <4>2
    <3> QED
      BY <2>1, <3>6 DEF UpIsComplete, Guarding, Undisturbed, Exists
  <2> QED
    BY <2>2, <2>3
<1>10. ASSUME NEW d \in Topologies, NEW w \in Workloads, StartPods(d, w) PROVE UpIsComplete'
  <2>1. UNCHANGED <<up, disturbed>>
    BY <1>10 DEF StartPods
  <2> QED
    BY <1>10, <2>1, StartPodsIs, UpStays
<1>11. CASE UNCHANGED vars
  BY <1>1, <1>11 DEF vars
<1> QED
  BY <1>2, <1>3, <1>4, <1>5, <1>6, <1>7, <1>8, <1>9, <1>10, <1>11 DEF Next

----------------------------------------------------------------------------
(* The results.                                                            *)

LEMMA InvHolds == Spec => []Inv
<1>1. Init => Inv
  <2> SUFFICES ASSUME Init PROVE Inv
    OBVIOUS
  <2>1. /\ \A c \in Topologies : ~Exists(c)
        /\ context = NoCluster /\ running = Idle /\ up = {} /\ disturbed = {}
    BY DEF Init, Exists
  <2>2. Shape
    BY <2>1, Idles DEF Init, Shape, RunningShape, ClusterShape, UpShape, DisturbedShape
  <2>3. ScriptActs
    BY <2>1, Idles DEF ScriptActs
  <2>4. Clusters /\ UpIsComplete
    BY <2>1 DEF Clusters, UpIsComplete, Undisturbed
  <2> QED
    BY <2>2, <2>3, <2>4 DEF Inv
<1>2. Inv /\ [Next]_vars => Inv'
  BY ShapeStep, ClustersStep, ScriptActsStep, UpStep DEF Inv
<1> QED
  BY <1>1, <1>2, PTL DEF Spec

(* Every variable keeps its type: the context is that of a cluster that    *)
(* exists, and what is up is so in one.                                    *)
THEOREM TypeCorrect == Spec => []TypeOK
<1>1. Inv => TypeOK
  BY ShapeTypes DEF Inv
<1> QED
  BY <1>1, InvHolds, PTL

(* No cluster that scripts were not diverted to ever gets manifests of     *)
(* both topologies, although they begin in whatever context they find      *)
(* (bootstrap-silo.sh, bootstrap-bridge.sh): before the first manifest,    *)
(* Cilium is installed.                                                    *)
THEOREM TopologiesStayApart == Spec => []OneTopologyEach
<1>1. Inv => OneTopologyEach
  BY DEF Inv, Clusters, OfOneTopology, OneTopologyEach
<1> QED
  BY <1>1, InvHolds, PTL

(* A cluster where one manifest of a topology was applied has that one's   *)
(* only.                                                                   *)
LEMMA GuardedIsOfTopology ==
  ASSUME Inv, NEW c \in Undisturbed, NEW t, Guarding(c, t)
  PROVE  OfTopology(c, t)
<1>1. <<t, "default-deny-all">> \in cluster[c].applied
  BY DEF Guarding, Guards
<1>2. \A m, n \in cluster[c].applied : m[1] = n[1]
  BY ClusterIs DEF Inv
<1> QED
  BY <1>1, <1>2 DEF OfTopology

(* From its first moment an agent sandbox reaches nothing but its own      *)
(* Keycloak, its own gateway, Ollama and DNS, whatever failed before and   *)
(* was run again: its manifest comes after the policies in each script.    *)
THEOREM AgentsStayConfined == Spec => []AgentsConfined
<1>1. ASSUME Inv PROVE AgentsConfined
  <2>1. SUFFICES ASSUME NEW c \in Undisturbed, NEW x \in Tenants,
                        Agents[x] \in cluster[c].pods
                 PROVE  \E t \in Topologies :
                          ReachedFrom(c, Agent(x))
                            \subseteq {Keycloak(t, x), Gateway(t, x), Inference, Dns}
    BY DEF AgentsConfined
  <2>2. Agents[x] \in {"agent-a", "agent-b"}
    BY SMT DEF Agents, Tenants
  <2>3. PICK t \in Topologies : <<t, Agents[x]>> \in cluster[c].applied
    BY <1>1, <2>1, ClusterIs DEF Inv
  <2>4. Guarding(c, t)
    BY <1>1, <2>1, <2>2, <2>3, ClusterIs DEF Inv, Guarding
  <2>5. OfTopology(c, t)
    BY <1>1, <2>1, <2>4, GuardedIsOfTopology
  <2> QED
    BY <2>4, <2>5, GuardedAgentConfined
<1> QED
  BY <1>1, InvHolds, PTL

(* In Silo no chain of connections leads from one tenant's pods to the     *)
(* other's, from when an agent's manifest is applied.                      *)
THEOREM TenantsStayApart == Spec => []TenantsApart
<1>1. ASSUME Inv PROVE TenantsApart
  <2>1. SUFFICES ASSUME NEW c \in Undisturbed, NEW x \in Tenants, NEW y \in Tenants,
                        <<"silo", Agents[y]>> \in cluster[c].applied,
                        NEW n \in Zone(x)
                 PROVE  ReachedFrom(c, n) \subseteq Zone(x) \cup {Dns, Internet}
    BY DEF TenantsApart
  <2>2. Agents[y] \in {"agent-a", "agent-b"} /\ "silo" \in Topologies
    BY SMT DEF Agents, Tenants, Topologies
  <2>3. Guarding(c, "silo")
    BY <1>1, <2>1, <2>2, ClusterIs DEF Inv, Guarding
  <2>4. OfTopology(c, "silo")
    BY <1>1, <2>1, <2>3, GuardedIsOfTopology
  <2> QED
    BY <2>3, <2>4, GuardedZoneClosed
<1> QED
  BY <1>1, InvHolds, PTL

(* The pull of the model finds the registry and DNS open.                  *)
THEOREM PullFindsItsEgress == Spec => []PullHasItsEgress
<1>1. ASSUME Inv PROVE PullHasItsEgress
  <2>1. SUFFICES ASSUME Current("pull"), context \in Undisturbed PROVE CanPull(context)
    BY DEF PullHasItsEgress
  <2>2. /\ running.script \in Topologies /\ Command.do = "pull"
        /\ running.next \in 1 .. Len(Script(running.script))
        /\ running.next # 1 /\ running.next # 2
    BY <1>1, <2>1, Bootstrapping DEF Inv
  <2>3. Acted(running.script, running.next, context)
    BY <1>1, <2>1, <2>2 DEF Inv, ScriptActs
  <2>4. context \in Topologies /\ Exists(context)
    BY <2>1 DEF Undisturbed
  <2>5. Guarded(Script(running.script)[running.next])
    <3>1. Script(running.script)[running.next] = Command
      BY DEF Command
    <3>2. Guarded(Command)
      BY <2>2, Zenon DEF Guarded
    <3> QED
      BY <3>1, <3>2
  <2>6. Guarding(context, running.script)
    <3>1. SUFFICES ASSUME NEW m \in Guards(running.script)
                   PROVE  <<running.script, m>> \in cluster[context].applied
      BY DEF Guarding
    <3>2. PICK i \in 1 .. running.next - 1 : Script(running.script)[i] = Apply(m)
      BY <2>2, <2>5, GuardsComeFirst
    <3>3. Effective(Apply(m), context, running.script)
      BY <2>3, <3>2 DEF Acted
    <3> QED
      BY <3>3 DEF Effective, Apply
  <2> QED
    BY <2>2, <2>3, <2>6, GuardedCanPull DEF Acted
<1> QED
  BY <1>1, InvHolds, PTL

(* "Fully up" is true: all the pods run and what the evaluation connects   *)
(* to is open.                                                             *)
THEOREM UpIsUsable == Spec => []UpMeansUsable
<1>1. ASSUME Inv PROVE UpMeansUsable
  <2>1. ASSUME NEW u \in up, u[2] \in Undisturbed
        PROVE  /\ Stacks(u[1]) \cup {"ollama", "agent-a", "agent-b"} \subseteq cluster[u[2]].pods
               /\ \A x \in Tenants :
                    /\ {Keycloak(u[1], x), Gateway(u[1], x), Inference, Dns}
                         \subseteq ReachedFrom(u[2], Agent(x))
                    /\ {Keycloak(u[1], x), Dns} \subseteq ReachedFrom(u[2], Gateway(u[1], x))
    <3>1. u[1] \in Topologies /\ u[2] \in Topologies /\ Exists(u[2])
      BY <1>1, UpTyped DEF Inv
    <3>2. /\ Guarding(u[2], u[1])
          /\ Stacks(u[1]) \cup {"ollama", "agent-a", "agent-b"} \subseteq cluster[u[2]].pods
      BY <1>1, <2>1 DEF Inv, UpIsComplete
    <3>3. OfTopology(u[2], u[1])
      BY <1>1, <2>1, <3>2, GuardedIsOfTopology
    <3> QED
      BY <3>1, <3>2, <3>3, GuardedIsUsable
  <2> QED
    BY <2>1 DEF UpMeansUsable
<1> QED
  BY <1>1, InvHolds, PTL
=============================================================================
