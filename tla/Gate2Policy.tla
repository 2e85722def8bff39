---------------------------- MODULE Gate2Policy ----------------------------
(***************************************************************************)
(* Gate 2's decision: the Cedar policy of gateway/policies/gate2.cedar     *)
(* over the entities of gateway/policies/gate2_entities.json, as           *)
(* evaluate_gate2 asks for it.  Cedar itself is external: a comparison     *)
(* with an attribute of an entity it does not know is an error, and a      *)
(* policy in error permits nothing.                                        *)
(***************************************************************************)
EXTENDS Integers

CONSTANTS
  UserTenant,     \* the tenant attribute of each User entity
  RecordTenant,   \* the tenant attribute of each Record entity
  AgentActions    \* the allowedActions of each Agent entity

(* The two actions of the policy's head. *)
RecordActions == {"readRecord", "updateRecord"}

SameTenant(principal, resource) ==
  /\ principal \in DOMAIN UserTenant
  /\ resource \in DOMAIN RecordTenant
  /\ UserTenant[principal] = RecordTenant[resource]

AgentMay(agent, action) == agent \in DOMAIN AgentActions /\ action \in AgentActions[agent]

\* Mutant: the agent's scope without the user's tenant.
PermitsAnyTenant(principal, action, resource, agent) ==
  action \in RecordActions /\ AgentMay(agent, action)

Permits(principal, action, resource, agent) ==
  /\ action \in RecordActions
  /\ SameTenant(principal, resource)
  /\ AgentMay(agent, action)
=============================================================================
