------------------------------- MODULE Combat -------------------------------
(***************************************************************************)
(* SimulateCombat (game/fleet.go): one exchange of fire.  Both sides fire  *)
(* with what they came with; the defender's hulls and defences are copied  *)
(* into one pool, the attacker's losses are taken from the units           *)
(* themselves.  Profiles are those of the catalog; a side is a function    *)
(* from the kinds that may take part to how many do.                       *)
(***************************************************************************)
EXTENDS CombatState

Count(side) == Sum(side, DOMAIN side)

None(f) == [k \in DOMAIN f |-> 0]
Minus(f, g) == [k \in DOMAIN f |-> f[k] - g[k]]

\* The share of the damage a kind takes, times the pool of hit points.
WholeDamage(side, k, tech, damage, hp) == damage * hp
Share(side, k, tech, damage, hp) == damage * side[k] * HP(k, tech)

\* Without and with the cap at the units that are there.
Uncapped(n, count) == n
Capped(n, count) == IF n > count THEN count ELSE n

\* applyDamage: how many of a kind its share of the damage kills.  The share is
\* a float: where the exact damage is a whole number it may come out one below
\* (and never above, while damage times hit points stay within its 52 bits).
Kills(side, k, tech, damage, hp) ==
  LET exact == Share(side, k, tech, damage, hp)
      dealt == {exact \div hp} \cup
               (IF exact > 0 /\ exact % hp = 0 THEN {exact \div hp - 1} ELSE {})
  IN {Capped(d \div HP(k, tech), side[k]) : d \in dealt}

applyDamage(side, tech, damage) ==
  LET hp == totalHPPool(side, tech) IN
  IF hp <= 0 THEN {None(side)}
  ELSE {f \in [DOMAIN side -> UNION {Kills(side, k, tech, damage, hp) : k \in DOMAIN side}] :
          \A k \in DOMAIN side : f[k] \in Kills(side, k, tech, damage, hp)}

\* addShipDebris: 30% of the metal and crystal of the hulls; defences leave none.
ShipDebris(destroyed, i) ==
  LET hulls == [k \in DOMAIN destroyed \cap DOMAIN ShipStats |-> destroyed[k]]
  IN Sum([k \in DOMAIN hulls |-> (3 * ShipStats[k].cost[i] * hulls[k]) \div 10], DOMAIN hulls)

TypeOK ==
  /\ stage \in {"attack", "defend", "judge", "done"}
  /\ \A k \in DOMAIN atk : atk[k] \in Nat /\ atk[k] + atkDestroyed[k] = sides.atk[k]
  /\ \A k \in DOMAIN pool : pool[k] \in Nat
  /\ winner \in {"attacker", "defender", "draw"}
  /\ debris[1] \in Nat /\ debris[2] \in Nat

Init ==
  /\ stage = "attack"
  /\ \E a \in Fleets, s \in Garrisons, d \in Batteries, ta, td \in TechLevels :
       /\ sides = [atk |-> a, ships |-> s, defs |-> d, atkTech |-> ta, defTech |-> td]
       /\ atk = a /\ ships = s /\ defs = d
       /\ pool = Join(s, d)
       /\ atkDestroyed = None(a) /\ defDestroyed = None(Join(s, d))
  /\ winner = "draw" /\ debris = <<0, 0>>

\* applyDamage on the copy.
Attack ==
  /\ stage = "attack" /\ stage' = "defend"
  /\ defDestroyed' \in applyDamage(pool, sides.defTech, totalAttack(sides.atk, sides.atkTech))
  /\ pool' = Minus(pool, defDestroyed')
  /\ UNCHANGED <<sides, atk, ships, defs, atkDestroyed, winner, debris>>

\* applyDamage on the attacker's units, with the fire of the whole defence.
Defend ==
  /\ stage = "defend" /\ stage' = "judge"
  /\ atkDestroyed' \in applyDamage(atk, sides.atkTech,
                         totalAttack(Join(sides.ships, sides.defs), sides.defTech))
  /\ atk' = Minus(atk, atkDestroyed')
  /\ UNCHANGED <<sides, ships, defs, pool, defDestroyed, winner, debris>>

\* The winner, from what is left of the arguments, and the debris.
Judge ==
  /\ stage = "judge" /\ stage' = "done"
  /\ winner' = LET atkLeft == Count(atk)
                   defLeft == Count(ships) + Count(defs)
               IN IF atkLeft > 0 /\ defLeft = 0 THEN "attacker"
                  ELSE IF defLeft > 0 /\ atkLeft = 0 THEN "defender" ELSE "draw"
  /\ debris' = [i \in 1..2 |-> ShipDebris(atkDestroyed, i) + ShipDebris(defDestroyed, i)]
  /\ UNCHANGED <<sides, atk, ships, defs, pool, atkDestroyed, defDestroyed>>

Next == Attack \/ Defend \/ Judge

Spec == Init /\ [][Next]_combatVars
=============================================================================
