\* Two workers, four pods, one failure, a disk that may fill at any write.
CONSTANTS
  Lists <- MCLists
  Namespaces = {"n1", "n2"}
  Objects <- MCObjects
  YamlOf <- MCYamlOf
  Secrets <- MCSecrets
  Pods = {"p1", "p2", "p3", "p4"}
  PodOf <- MCPodOf
  Files <- MCFiles
  Only = "n1"
  Resource = "auto"
  ForwardPort = 3307
  SkipPodSummary = FALSE
  Workers = {"w1", "w2"}
  JobsCap = 1
  MaxFailures = 1
SPECIFICATION Spec
INVARIANTS TypeOK OnceAndRedacted Collected
PROPERTY Ends
CHECK_DEADLOCK FALSE
