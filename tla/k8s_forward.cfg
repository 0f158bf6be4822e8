\* The ports of the databases themselves.
CONSTANTS
  Lists <- MCLists
  Namespaces = {"n1", "n2"}
  Objects <- MCObjects
  YamlOf <- MCYamlOf
  Secrets <- MCSecrets
  Pods = {"p1", "p2"}
  PodOf <- MCPodOf
  Files <- MCFiles
  Only = "n1"
  Resource = "auto"
  ForwardPort = 0
  SkipPodSummary = FALSE
  Workers = {"w1", "w2"}
  JobsCap = 1
  MaxFailures = 0
SPECIFICATION Spec
INVARIANT SummaryOfPod
CHECK_DEADLOCK FALSE
