SPECIFICATION MCSpec
CONSTANTS
  t1 = t1
  t2 = t2
  NoThread = NoThread
  Absent = Absent
  Threads <- TwoThreads
  Lines = 3
  MaxSize = 1
  LastSec = 1
  Backup = TRUE
  Faults = TRUE
  MaxFd = 5
  Inherited <- Nothing
  Script <- Messages
  HeadLen = 4
  BufSize = 5
  Breaks = TRUE
  MaxInt = 99
  MaxLong = 199
  MaxText = 16
  MaxTime = 35
  Unit <- Calendar
  Summer <- FirstSummer
  Ahead = 4
  Clock <- Instants
  Offsets <- ThereAndBack
INVARIANTS
  LogSound
  Delivered
  HandlesExact
  MatchRight
  FieldsRight
  TimesRight
PROPERTIES
  LogsReturn
  MessagesArrive
  ReplaceRight
CHECK_DEADLOCK FALSE
