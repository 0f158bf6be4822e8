SPECIFICATION Spec
CONSTANTS
  Hosts <- Five
  Place <- ByName
  Role <- ClusterRoles
  SetOf <- ClusterSets
  CommandLines <- Lines
  OpKinds = {"insert", "query"}
  MaxOps = 2
  Bind = {"loopback", "public"}
  Auth = FALSE
  Colls <- ThreeColls
  MaxWindow = 1
INVARIANTS TypeOK GatheredTrue MissingIsSaid
CHECK_DEADLOCK FALSE
