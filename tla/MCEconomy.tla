------------------------------ MODULE MCEconomy ------------------------------
\* The first hours of a homeworld in the eighth slot, at the speed of the
\* default universe.
EXTENDS Economy

MCPositionBonus == <<35, 0>>
=============================================================================
