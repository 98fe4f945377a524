SPECIFICATION Spec
CONSTANTS
  p1 = p1
  p2 = p2
  u1 = u1
  r1 = r1
  r2 = r2
  s1 = s1
  s2 = s2
  mine = mine
  yard = yard
  tech1 = tech1
  Planets = {p1}
  Users = {u1}
  Owner <- MCOwner
  Keys = {mine,tech1}
  QueueType <- MCQueueType
  Cost <- MCCost
  Duration <- MCDuration
  Rate = 1
  Storage = 2
  StartMetal = 1
  Cap = 2
  BatchSize = 2
  Requests = {r1,r2}
  Sweepers = {s1,s2}
  NoTx = NoTx
  MaxItems = 3
  Horizon = 2
INVARIANTS
  TypeOK
  QueueCapped
  QueueIsSerial
  TargetsDistinct
  OneResearchPerPlanet
  NoFreeResources
PROPERTY GainsAreOrders
SYMMETRY Symmetry
