SPECIFICATION Spec
CONSTANTS
  etimer = etimer
  a = a
  b = b
  t1 = t1
  t2 = t2
  App = {a, b}
  Service = {etimer}
  etimer_process = etimer
  NULL = NULL
  NUMEVENTS = 2
  AutoStart <- MCAutoStart
  Profiles <- MCProfiles
  Timer = {t1, t2}
  Period = 5
  Intervals = {0, 1}
  Shifts = {1}
  ClockStart = {4}
  MaxLag = 1
INVARIANTS
  TypeOK
  ListsSound
  CurrentRuns
  TimersOfLiving
PROPERTIES
  EventsInOrder
  PollsKept
  TimersKept
  TimersFire
