\* Once every bound is used up nothing is left to do.
SPECIFICATION UpgradeSpec
CONSTANTS
  Layers <- MCLayers
  UserLayer = 1
  widget = widget
  gadget = gadget
  Plugins <- MCWidget
  Abis <- MCAbis
  AbiOf <- MCAbiOf
  Published <- MCPublished
  CommandLimit = 4
  PluginLimit = 0
  TroubleLimit = 0
INVARIANT BackupsOnDisk
CHECK_DEADLOCK FALSE
