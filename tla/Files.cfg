SPECIFICATION FilesSpec
CONSTANTS
  YY_BUF_SIZE = 2
  YY_READ_BUF_SIZE = 2
  MaxRestarts = 1
  TokenCodes = {"NAME", "IF", "ELSE", "DO", "WHILE", "WORKFLOW", "RETURN", "{", "}", "!", "(", ")", "other", "not positive"}
  YYINITDEPTH = 5
  YYMAXDEPTH = 12
  MaxTokens = 10
  PoolSize = 2
  MaxAnswers = 5
  GraphWorkers = {gw1, gw2}
  GraphCallbacks = {gc}
  GraphUsers = {u1, u2}
  GraphPoolSize = 3
  MaxReloads = 1
  FileDir <- MCFileDir
  FileUsers = {fu1, fu2}
  MaxCookies = 2
  MaxFileEvents = 1
  MaxDirsGone = 1
  MaxMonitorStarts = 2
  MsProcess <- MCMsProcess
  MsUses <- MCMsUses
  MAX_CACHE_SIZE = 2
  MaxIncrements = 1
  MaxDeathsOfMs = 1
  CounterNames = {"a", "b"}
  OldNames = {"a"}
  Searched = {"a"}
  Thresholds <- MCThresholds
  Options <- MCOptions
  CountMod = 2
  TimeSlice = 1
  TimeSlot = 2
  UpdateTimes = {0, 3}
  Updaters = {ms}
  MaxUpdates = 2
  MaxSamples = 2
CHECK_DEADLOCK FALSE
INVARIANTS ScannerOK ParserOK CompilerOK GraphsOK MonitorOK CountersOK ReaderOK
