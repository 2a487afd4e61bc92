CONSTANTS
  NotANumber = NotANumber
  Off = Off
  Unset = Unset
  Cores = 2
  PortSpace = 65536
  Scripts <- OneScript
  Results <- NothingOrTable
  Given <- Starts
  Clients <- TwoClients
  Fds = {2}
  MaxCommands <- FirstTypes
  TickPeriod = 1
SPECIFICATION FairSpec
CHECK_DEADLOCK FALSE
INVARIANTS
  SettingsSound
  WatchesOpen
  EventsOnce
  StackBounded
PROPERTIES
  ClosedAlone
  ReloadServed
