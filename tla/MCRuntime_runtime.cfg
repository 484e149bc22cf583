SPECIFICATION Spec
CONSTANTS
  pluginPath = pluginPath
  pathA = pathA
  pathB = pathB
  call1 = call1
  call2 = call2
  Plugins <- EitherLast
  MaxDrops = 1
INVARIANTS MirrorExact CalmlyPublished AtMostOnce
PROPERTIES EventuallySettled
CHECK_DEADLOCK FALSE
