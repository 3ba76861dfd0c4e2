SPECIFICATION EitherSpec
CONSTANTS
  Faults = {"fail", "crash", "restart"}
  MaxCommands = 3
  MaxAccidents = 1
  Commands = {"install", "uninstall"}
  Installs = {"install"}
  Others = {"zed"}
  Scalars = {"noted", "listed"}
  MaxEntries = 2
  MaxChanges = 1
  SettingsFaults = {"full", "rename", "kill"}
INVARIANTS
  ReportsTruthful
PROPERTIES
  SettingsKept
CHECK_DEADLOCK FALSE
