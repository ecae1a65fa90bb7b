SPECIFICATION Spec

CONSTANTS
  Pollers = {epoller}
  Epollers = {epoller}
  MaxSysfs = 1

  Apps = {app1}
  Heirs = {child}
  Nobody = Nobody

  Users = {user1}
  Cells = 1
  Greeting = Greeting
  Nul = Nul
  MaxReads = 1

  c1 = c1
  c2 = c2
  n1 = n1
  n2 = n2
  EchoClients = {c1, c2}
  Nets = {n1, n2}
  InitNet = n1
  NetOf <- MCNetOf

  MaxRoutes = 1
  PerDatagram = 1

  MaxChanges = 1

  QueueMax = 1
  Listeners = {listener}
  Senders = {}

INVARIANTS
  StoreIsAnnounced

CHECK_DEADLOCK FALSE
