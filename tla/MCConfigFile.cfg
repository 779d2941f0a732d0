SPECIFICATION ConfigSpec
CONSTANTS
  Presets <- MCPresets
  Models = {"llama"}
  Keys = {"k2"}
  FileTokens = {"t2"}
  Envs <- MCEnvs
  FirstFile <- MCFirstFile
  Writers = {"w1"}
  Asked <- MCAsked
  None = None
  MaxStarts = 2
PROPERTY SetupKeepsTokens
CHECK_DEADLOCK FALSE
