SPECIFICATION Spec
CONSTANTS
  idA = idA
  idB = idB
  idC = idC
  r1 = r1
  r2 = r2
  p1 = p1
  p2 = p2
  t1 = t1
  t2 = t2
  bool = bool
  percent = percent
  None = None
  Local = Local
  Ids = {idA, idB, idC}
  Remotes = {r1}
  Hosts <- MCHosts
  Plugins = {p1, p2}
  States = {"s"}
  Actions = {"x"}
  StateType <- MCStateType
  ActionType <- MCActionType
  Faulty = {}
  Configs <- CycleConfigs
  Tags = {t1, t2}
SYMMETRY Symmetry
INVARIANT MapsExact
PROPERTY WiresSpec
