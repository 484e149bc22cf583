SPECIFICATION Spec
CONSTANTS
  pluginPath = pluginPath
  pathA = pathA
  pathB = pathB
  call1 = call1
  call2 = call2
  Plugins <- OnlyActionLast
  MaxDrops = 0
INVARIANT OnlyLocalPublished
CHECK_DEADLOCK FALSE
