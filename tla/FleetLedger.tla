---------------------------- MODULE FleetLedger ----------------------------
(***************************************************************************)
(* What the fleets of the game promise of the ships they carry: a ship is  *)
(* docked at a planet, flying with one fleet, or scrapped.  A fleet takes  *)
(* off once, with ships that were docked, and settles once, with all it    *)
(* carries; one transaction may settle a whole batch of fleets.            *)
(***************************************************************************)
EXTENDS Sums

CONSTANTS
  Planets, \* where ships dock
  Ids      \* the fleets, used or not

VARIABLES
  docked,   \* ships at each planet
  flying,   \* ships with each fleet
  launched, \* fleets that have taken off
  scrapped  \* ships lost in combat or caught by counter-espionage

ledger == <<docked, flying, launched, scrapped>>

Init ==
  /\ docked \in [Planets -> Nat]
  /\ flying = [i \in Ids |-> 0]
  /\ launched = {}
  /\ scrapped = 0

\* Fleet i leaves p with n ships.
Launch(i, p, n) ==
  /\ i \notin launched
  /\ n > 0 /\ n <= docked[p]
  /\ docked' = [docked EXCEPT ![p] = @ - n]
  /\ flying' = [flying EXCEPT ![i] = n]
  /\ launched' = launched \cup {i}
  /\ UNCHANGED scrapped

\* The fleets of S end their flight; ships may be scrapped on the way, docked
\* ones too, but none appears and none is forgotten.
Settle(S) ==
  /\ S \subseteq launched
  /\ flying' = [i \in Ids |-> IF i \in S THEN 0 ELSE flying[i]]
  /\ docked' \in [Planets -> Nat]
  /\ scrapped' >= scrapped
  /\ Sum(docked', Planets) + scrapped' =
       Sum(docked, Planets) + scrapped + Sum(flying, S)
  /\ UNCHANGED launched

Next ==
  \/ \E i \in Ids, p \in Planets : Launch(i, p, docked[p] - docked'[p])
  \/ \E S \in SUBSET launched : Settle(S)

Spec == Init /\ [][Next]_ledger
=============================================================================
