SPECIFICATION FairSpec
CONSTANTS
  p1 = p1
  p2 = p2
  u1 = u1
  u2 = u2
  r1 = r1
  r2 = r2
  s1 = s1
  s2 = s2
  Planets = {p1,p2}
  Owner <- MCOwner
  Missions = {"transport","colonize"}
  NoPlanet = NoPlanet
  Untouched = Untouched
  Flights = {1}
  Fuel = 0
  Capacity = 1
  Rate = 0
  Storage = 2
  StartMetal = 0
  StartShips = 1
  BatchSize = 2
  Requests = {r1}
  Sweepers = {s1}
  MaxFleets = 2
  Horizon = 2
PROPERTY OthersArrive
