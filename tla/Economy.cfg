CONSTANTS
  Orders = {"metal_mine", "crystal_mine", "deuterium_synthesizer", "solar_plant"}
  MaxLevel = 2
  Horizon = 5
  Moments = 0
  Speed = 1
  AvgTemp = 20
  PositionBonus <- MCPositionBonus
SPECIFICATION Spec
INVARIANT WindowsAtTheirRate
\* The clock is bounded.
CHECK_DEADLOCK FALSE
