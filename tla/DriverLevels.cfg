SPECIFICATION FairSpec
CONSTANTS
  MaxLevel = 2
  NewResistorAt = {1}
  Keys = {"StartNormalModeOperation", "Stop", "SwitchToNextSensor", "DisableAGC", "IncreaseGain", "DecreaseGain", "StartCalibration"}
  KeysWhileActive = {"StartNormalModeOperation", "Stop", "SwitchToNextSensor", "DisableAGC", "IncreaseGain", "DecreaseGain", "StartCalibration"}
  KeysWhileCalibrating = {}
  MaxDepth = 9
INVARIANT StoredAtItsLevel

