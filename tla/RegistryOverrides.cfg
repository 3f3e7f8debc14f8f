\* A catalog may enable items itself (RunnerEntry and PresetEntry have the field).
SPECIFICATION RgSpec
CONSTANTS
  RgRunners = {"node", "bun"}
  RgPresets = {"preset"}
  RgRunnerOf <- MCRunnerOf
  RgCategory <- MCCategory
  RgCatalogEnabled = {"unset", "true"}
  RgRequests = {a1}
INVARIANTS RgOverridesWin
CHECK_DEADLOCK FALSE
