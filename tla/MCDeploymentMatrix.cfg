SPECIFICATION Spec
CONSTANTS
  NoCluster = NoCluster
  Diversions = {}
INVARIANT RunsInTheirCluster
