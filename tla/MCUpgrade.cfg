\* Once every bound is used up nothing is left to do.
SPECIFICATION UpgradeSpec
CONSTANTS
  Layers <- MCLayers
  UserLayer = 1
  widget = widget
  gadget = gadget
  Plugins <- MCBoth
  Abis <- MCAbis
  AbiOf <- MCAbiOf
  Published <- MCPublished
  CommandLimit = 4
  PluginLimit = 1
  TroubleLimit = 2
INVARIANT RetryCanFinish
PROPERTIES RollbackRestores NeededReleasesStay UpgradeMovesAll
CHECK_DEADLOCK FALSE
