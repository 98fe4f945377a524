---------------------------- MODULE PlanetSettings ----------------------------
(* What the production of a planet depends on beside its levels, and what its  *)
(* player orders.  Economy has the state and the steps.                        *)
EXTENDS Catalog

CONSTANTS
  Orders,          \* the buildings and technologies somebody orders
  MaxLevel,        \* bound on their levels
  Speed,           \* universes.speed_economy
  AvgTemp,         \* of the planet's temperature range
  PositionBonus    \* <<metal, crystal>> of the planet's slot, in percent

\* The table of StorageCapacity goes to thirteen; at 340 degrees and more a
\* synthesizer would produce less than nothing (no slot is that hot).
ASSUME SettingsOK ==
  /\ Orders \subseteq Buildings \cup Techs /\ MaxLevel \in 0..13
  /\ Speed \in Nat /\ AvgTemp \in Int /\ AvgTemp <= 340
  /\ PositionBonus \in [1..2 -> Nat]
=============================================================================
