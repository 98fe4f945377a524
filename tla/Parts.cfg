\* One instance of every part: two users, requests, browsers or updates, a
\* clock of nine refill seconds for the limiter (the other parts' values are
\* in MCParts, they name states the modules must tell apart).
CONSTANTS
  Capacity = 4
  Cost = 2
  Requests = {r1, r2}
  Idle = 6
  Skew = 1
  Horizon = 9
  TTL = 2
  Interval = 1
  SessionTTL = 2
  MaxTokens = 2
  MaxCodes = 1
  Handlers = {"h1", "h2"}
  MaxAttempts = 2
  Fleets <- Attackers
  Garrisons <- Hulls
  Batteries <- Launchers
  TechLevels <- Levels
  Short <- ShortProducts
  Views = {"overview", "buildings"}
  Overview = "overview"
  PlanetCount = 2
  MaxCommands = 2
  Updaters = {"u1", "u2"}
  Tags = {"v1", "v2"}
  Dirs = {"system", "home"}
  Exe = "system"
  Fallback = "home"
  StorageGoal = 12
  Orders = {"metal_mine", "solar_plant"}
  MaxLevel = 2
  Speed = 1
  AvgTemp = 20
  PositionBonus <- MCPositionBonus
SPECIFICATION PartsSpec
INVARIANTS
  TypesOK
  RateBounded
  AccountsDistinct
  RowsNameTheirUser
  TokenWasApproved
  LoggedOutIsOut
  CurrentHasPlanet
  OneAlliance
  FoundedWhole
  AdminsRemain
  ShowsActiveView
  ShowsCurrentPlanet
  WriterReturned
  PromptOwed
  ParentFirst
  EverythingReachable
  NoOverkill
  BinaryWhole
  ComparedIsIntact
PROPERTIES
  FirstApprovalWins
  LoginEnds
  JoinEnds
  NobodyOvercredited
  FounderLeavesNobody
  InstallsItsRelease
\* A battle is over, a technology tree complete, an update done.
CHECK_DEADLOCK FALSE
