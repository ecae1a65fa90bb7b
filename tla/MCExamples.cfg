SPECIFICATION FairSpec

CONSTANTS
  Pollers = {reader, epoller}
  Epollers = {epoller}
  MaxSysfs = 2

  Apps = {app1, app2}
  Heirs = {child}
  Nobody = Nobody

  Users = {user1, user2, user3}
  Cells = 3
  Greeting = Greeting
  Nul = Nul
  MaxReads = 2

  c1 = c1
  c2 = c2
  n1 = n1
  n2 = n2
  EchoClients = {c1, c2}
  Nets = {n1, n2}
  InitNet = n1
  NetOf <- MCNetOf

  MaxRoutes = 3
  PerDatagram = 2

  MaxChanges = 5

  QueueMax = 1
  Listeners = {listener}
  Senders = {sender1}

INVARIANTS
  ExamplesTypeOK
  StoreNotForgotten
  PassedOver
  SignalTargets
  MeetingsKnown
  RequestFaultsKnown
  GroupTold

PROPERTIES
  FlagIsTaken
  RequestEnds

CHECK_DEADLOCK FALSE
