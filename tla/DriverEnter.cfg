SPECIFICATION FairSpec
CONSTANTS
  MaxLevel = 1
  NewResistorAt = {1}
  Keys = {"StartCalibration", "Stop"}
  KeysWhileActive = {"StartCalibration", "Stop"}
  KeysWhileCalibrating = {"Stop"}
  MaxDepth = 9
PROPERTY EnterIsHeard
