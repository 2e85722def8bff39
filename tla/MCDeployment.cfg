SPECIFICATION Spec
CONSTANTS
  NoCluster = NoCluster
  Diversions = {18}
INVARIANTS TypeOK AgentsConfined TenantsApart PullHasItsEgress UpMeansUsable OneTopologyEach
