SPECIFICATION Spec
CONSTANTS
  NUM_NODES = 5
  NUM_GATEWAYS = 2
  NUM_CONFIGS = 4
  MAX_SR_LEN = 4
  MetricFiles <- MCMetricFiles
  ConflictFile <- MCConflictFile
  ConfigFile <- MCConfigFile
  TREE_TYPES = {"DIJKSTRA", "ITERATIVE"}
  SOURCE = 4
  SKIP = {5}
  RANK_LIMIT = 100
INVARIANTS
  SearchSound
  TablesDeliver
  RoutesShortest
