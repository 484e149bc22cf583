SPECIFICATION Spec
CONSTANTS
  Plugin = pluginPath
  Components = {pathA}
  MaxViews = 2
  MaxEvents = 4
  MaxDrops = 0
CHECK_DEADLOCK FALSE
INVARIANT OfflineForgotten
