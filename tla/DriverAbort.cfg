SPECIFICATION Spec
CONSTANTS
  MaxLevel = 1
  NewResistorAt = {1}
  Keys = {"StartNormalModeOperation", "StartCalibration", "Stop"}
  KeysWhileActive = {"StartNormalModeOperation", "StartCalibration", "Stop"}
  KeysWhileCalibrating = {"Stop"}
  MaxDepth = 9
INVARIANTS StopAlwaysStops OneSensorOn
