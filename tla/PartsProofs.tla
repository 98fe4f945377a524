----------------------------- MODULE PartsProofs -----------------------------
(***************************************************************************)
(* The components that share no state with another and have no proof       *)
(* module of their own: a battle, the self-update, homeworlds, roles, the *)
(* technology tree and the economy, for any armies, numbers of updates,    *)
(* requests and players and any settings of a planet.  Combat is extended, *)
(* the others are instantiated, as their initial states and steps have the *)
(* same names.                                                             *)
(***************************************************************************)
EXTENDS Combat, UpdaterState, HomeworldState, RoleState, ProgressState, PlanetSettings,
        TLAPS, FiniteSetTheorems, SumProofs

CONSTANTS Users, Universes, Slots, Horizon, Moments

VARIABLES clock, stock, updated, purse, order, produced   \* the economy's, with level
economyVars == <<clock, level, stock, updated, purse, order, produced>>

Upd == INSTANCE Updater
Home == INSTANCE Homeworlds
Role == INSTANCE Roles
Prog == INSTANCE Progress
Eco == INSTANCE Economy

(***************************************************************************)
(* A battle                                                                *)
(***************************************************************************)

Kinds == DOMAIN ShipStats \cup DOMAIN DefenseStats
Army(f) == IsFiniteSet(DOMAIN f) /\ DOMAIN f \subseteq Kinds /\ f \in [DOMAIN f -> Nat]

\* Every hull and every defence has armour, and no value below zero.
LEMMA ProfilesOK ==
  \A k \in Kinds : /\ Stat(k).weapon \in Nat /\ Stat(k).shield \in Nat
                   /\ Stat(k).armor \in Nat /\ Stat(k).armor > 1
BY DEF Kinds, Stat, ShipStats, DefenseStats, Profile

LEMMA TechModType ==
  ASSUME NEW x \in Nat, NEW tech \in Nat
  PROVE  TechMod(x, tech) \in Nat /\ TechMod(x, tech) + 1 >= x
<1>1. x * (10 + tech) = 10 * x + x * tech
  OBVIOUS
<1>2. x * tech \in Nat
  OBVIOUS
<1> DEFINE y == x * tech
<1>3. TechMod(x, tech) = (10 * x + y) \div 10 - (IF <<x, tech>> \in Short THEN 1 ELSE 0)
  BY <1>1 DEF TechMod
<1>5. <<x, tech>> \in Short => x > 0
  BY CombatConstantsOK
<1> HIDE DEF y
<1>4. y \in Nat
  BY <1>2 DEF y
<1> QED
  BY <1>3, <1>4, <1>5

LEMMA Strengths ==
  ASSUME NEW k \in Kinds, NEW tech \in CombatTechs
  PROVE  Weapon(k, tech) \in Nat /\ HP(k, tech) \in Nat /\ HP(k, tech) > 0
<1> DEFINE w == Stat(k).weapon
           s == Stat(k).shield
           a == Stat(k).armor
<1>1. w \in Nat /\ s \in Nat /\ a \in Nat /\ a > 1
  BY ProfilesOK
<1>2. /\ Weapon(k, tech) = TechMod(w, tech.weapons)
      /\ HP(k, tech) = TechMod(s, tech.shielding) + TechMod(a, tech.armour)
      /\ tech.weapons \in Nat /\ tech.shielding \in Nat /\ tech.armour \in Nat
  BY DEF Weapon, HP, CombatTechs
<1> HIDE DEF w, s, a
<1>3. TechMod(w, tech.weapons) \in Nat /\ TechMod(s, tech.shielding) \in Nat
  BY <1>1, <1>2, TechModType
<1>4. TechMod(a, tech.armour) \in Nat /\ TechMod(a, tech.armour) + 1 >= a
  BY <1>1, <1>2, TechModType
<1> QED
  BY <1>1, <1>2, <1>3, <1>4

\* What a division rounds away.
LEMMA Rounded ==
  ASSUME NEW a \in Nat, NEW b \in Nat, b > 0
  PROVE  /\ a \div b \in Nat
         /\ b * (a \div b) <= a
         /\ a > 0 /\ a % b = 0 => a \div b > 0
OBVIOUS

\* The units of one kind that a share of the damage kills had, together, no
\* more hit points than the share.
LEMMA KillsBounded ==
  ASSUME NEW side, NEW k \in Kinds, side[k] \in Nat, NEW tech \in CombatTechs, NEW damage \in Nat,
         NEW hp \in Nat, hp > 0, NEW n \in Kills(side, k, tech, damage, hp)
  PROVE  /\ n \in Nat /\ n <= side[k]
         /\ hp * (n * HP(k, tech)) <= damage * (side[k] * HP(k, tech))
<1> DEFINE h == HP(k, tech)
           exact == Share(side, k, tech, damage, hp)
<1>1. h \in Nat /\ h > 0
  BY Strengths
<1>2. exact = damage * (side[k] * h) /\ exact \in Nat
  <2>1. side[k] * h \in Nat
    BY <1>1
  <2>2. damage * (side[k] * h) \in Nat
    BY <2>1
  <2>3. exact = (damage * side[k]) * h
    BY DEF Share
  <2> HIDE DEF h, exact
  <2> QED
    BY <1>1, <2>2, <2>3
<1>3. PICK d \in {exact \div hp} \cup
               (IF exact > 0 /\ exact % hp = 0 THEN {exact \div hp - 1} ELSE {}) :
        n = IF d \div h > side[k] THEN side[k] ELSE d \div h
  BY DEF Kills, Capped
<1> HIDE DEF h, exact
<1>4. exact \div hp \in Nat /\ hp * (exact \div hp) <= exact
      /\ (exact > 0 /\ exact % hp = 0 => exact \div hp > 0)
  BY <1>2, Rounded
<1>5. d \in Nat /\ d <= exact \div hp
  BY <1>3, <1>4
<1>6. d \div h \in Nat /\ h * (d \div h) <= d
  BY <1>1, <1>5, Rounded
<1>7. n \in Nat /\ n <= side[k] /\ n <= d \div h
  BY <1>3, <1>6
<1>8. n * h \in Nat /\ n * h <= d
  <2>1. n * h \in Nat /\ (d \div h) * h \in Nat /\ n * h <= (d \div h) * h
    BY <1>1, <1>6, <1>7, ProductGrows
  <2>2. h * (d \div h) = (d \div h) * h
    BY <1>1, <1>6
  <2> QED
    BY <1>5, <1>6, <2>1, <2>2
<1>9. n * h <= exact \div hp
  BY <1>4, <1>5, <1>8
<1>10. hp * (n * h) <= exact
  <2>1. (n * h) * hp \in Nat /\ (exact \div hp) * hp \in Nat /\ (n * h) * hp <= (exact \div hp) * hp
    BY <1>4, <1>8, <1>9, ProductGrows
  <2>2. hp * (exact \div hp) = (exact \div hp) * hp /\ hp * (n * h) = (n * h) * hp
    BY <1>4, <1>8
  <2> QED
    BY <1>2, <1>4, <2>1, <2>2
<1> QED
  BY <1>2, <1>7, <1>10 DEF h

LEMMA HPPoolType ==
  ASSUME NEW f, Army(f), NEW tech \in CombatTechs
  PROVE  /\ \A k \in DOMAIN f : f[k] * HP(k, tech) \in Nat
         /\ totalHPPool(f, tech) \in Nat
<1>1. ASSUME NEW k \in DOMAIN f
      PROVE  f[k] * HP(k, tech) \in Nat
  <2>1. f[k] \in Nat /\ HP(k, tech) \in Nat
    BY Strengths DEF Army
  <2> QED
    BY <2>1
<1>2. IsFiniteSet(DOMAIN f)
  BY DEF Army
<1>3. totalHPPool(f, tech) \in Nat
  BY <1>1, <1>2, SumType DEF totalHPPool
<1> QED
  BY <1>1, <1>3

LEMMA AttackType ==
  ASSUME NEW f, Army(f), NEW tech \in CombatTechs
  PROVE  totalAttack(f, tech) \in Nat
<1>1. ASSUME NEW k \in DOMAIN f
      PROVE  f[k] * Weapon(k, tech) \in Nat
  <2>1. f[k] \in Nat /\ Weapon(k, tech) \in Nat
    BY Strengths DEF Army
  <2> QED
    BY <2>1
<1>2. IsFiniteSet(DOMAIN f)
  BY DEF Army
<1> QED
  BY <1>1, <1>2, SumType DEF totalAttack

\* applyDamage never takes more hit points from a side than the damage, nor
\* more units than it has.
LEMMA LossesBounded ==
  ASSUME NEW side, Army(side), NEW tech \in CombatTechs, NEW damage \in Nat,
         NEW f \in applyDamage(side, tech, damage)
  PROVE  /\ Army(f) /\ DOMAIN f = DOMAIN side
         /\ \A k \in DOMAIN side : f[k] <= side[k]
         /\ totalHPPool(f, tech) <= damage
<1> DEFINE S == DOMAIN side
           hp == totalHPPool(side, tech)
           lost == totalHPPool(f, tech)
           hpOf == [k \in S |-> side[k] * HP(k, tech)]
           lostOf == [k \in S |-> f[k] * HP(k, tech)]
<1>1. hp \in Nat /\ \A k \in S : hpOf[k] \in Nat
  BY HPPoolType
<1>2. IsFiniteSet(S) /\ S \subseteq Kinds /\ \A k \in S : side[k] \in Nat
  BY DEF Army
<1>3. CASE hp <= 0
  <2>1. f = [k \in S |-> 0]
    BY <1>3 DEF applyDamage, None
  <2>2. Army(f) /\ DOMAIN f = S /\ \A k \in S : f[k] <= side[k]
    BY <1>2, <2>1 DEF Army
  <2>3. \A k \in S : lostOf[k] = 0
    BY <1>2, <2>1, Strengths
  <2>4. Sum(lostOf, S) = 0
    BY <1>2, <2>3, SumZero
  <2>5. lost = 0
    BY <2>2, <2>4 DEF totalHPPool
  <2> QED
    BY <2>2, <2>5
<1>4. CASE hp > 0
  <2>1. /\ f \in [S -> UNION {Kills(side, k, tech, damage, hp) : k \in S}]
        /\ \A k \in S : f[k] \in Kills(side, k, tech, damage, hp)
    BY <1>1, <1>4 DEF applyDamage
  <2>2. ASSUME NEW k \in S
        PROVE  /\ f[k] \in Nat /\ f[k] <= side[k]
               /\ hp * (f[k] * HP(k, tech)) <= damage * (side[k] * HP(k, tech))
    <3>1. k \in Kinds /\ side[k] \in Nat /\ f[k] \in Kills(side, k, tech, damage, hp)
      BY <1>2, <2>1
    <3> HIDE DEF hp
    <3> QED
      BY <1>1, <1>4, <3>1, KillsBounded
  <2>3. Army(f) /\ DOMAIN f = S
    BY <1>2, <2>1, <2>2 DEF Army
  <2>4. \A k \in S : lostOf[k] \in Nat
    BY <2>3, HPPoolType
  <2>5. lost = Sum(lostOf, S) /\ lost \in Nat /\ hp = Sum(hpOf, S)
    BY <2>3, HPPoolType DEF totalHPPool
  <2> DEFINE scaledLost == [k \in S |-> hp * lostOf[k]]
             scaledHP == [k \in S |-> damage * hpOf[k]]
  <2>6. \A k \in S : /\ scaledLost[k] \in Nat /\ scaledHP[k] \in Nat
                     /\ scaledLost[k] <= scaledHP[k]
                     /\ scaledLost[k] = hp * lostOf[k] /\ scaledHP[k] = damage * hpOf[k]
    <3> SUFFICES ASSUME NEW k \in S
                 PROVE  /\ hp * lostOf[k] \in Nat /\ damage * hpOf[k] \in Nat
                        /\ hp * lostOf[k] <= damage * hpOf[k]
      OBVIOUS
    <3>1. lostOf[k] \in Nat /\ hpOf[k] \in Nat /\ hp * lostOf[k] <= damage * hpOf[k]
      BY <1>1, <2>2, <2>4
    <3> HIDE DEF lostOf, hpOf, hp
    <3> QED
      BY <1>1, <3>1
  <2> HIDE DEF scaledLost, scaledHP, lostOf, hpOf, hp, lost
  <2>7. Sum(scaledLost, S) = hp * Sum(lostOf, S)
    BY <1>1, <1>2, <2>4, <2>6, SumScaled
  <2>8. Sum(scaledHP, S) = damage * Sum(hpOf, S)
    BY <1>1, <1>2, <2>6, SumScaled
  <2>9. Sum(scaledLost, S) <= Sum(scaledHP, S)
    BY <1>2, <2>6, SumGrows
  <2>10. hp * lost <= hp * damage
    <3>1. damage * hp = hp * damage
      BY <1>1
    <3> QED
      BY <2>5, <2>7, <2>8, <2>9, <3>1
  <2>11. lost <= damage
    <3>1. SUFFICES ASSUME damage + 1 <= lost PROVE FALSE
      BY <2>5
    <3>2. (damage + 1) * hp <= lost * hp /\ (damage + 1) * hp \in Nat /\ lost * hp \in Nat
      BY <1>1, <2>5, <3>1, ProductGrows
    <3>3. (damage + 1) * hp = hp * damage + hp /\ lost * hp = hp * lost /\ hp * damage \in Nat
      BY <1>1, <2>5
    <3> QED
      BY <1>1, <1>4, <2>10, <3>2, <3>3
  <2> QED
    BY <2>2, <2>3, <2>11 DEF lost
<1> QED
  BY <1>1, <1>3, <1>4

\* What holds at every stage: the arguments stay, each side has lost no more
\* than the fire it has taken.
Defence == Join(sides.ships, sides.defs)
ArgumentsOK ==
  /\ Army(sides.atk) /\ Army(Defence)
  /\ sides.atkTech \in CombatTechs /\ sides.defTech \in CombatTechs
DefenderHit ==
  totalHPPool(defDestroyed, sides.defTech) <= totalAttack(sides.atk, sides.atkTech)
AttackerHit ==
  totalHPPool(atkDestroyed, sides.atkTech) <= totalAttack(Defence, sides.defTech)

BattleInv ==
  /\ ArgumentsOK
  /\ stage = "attack" => pool = Defence
  /\ stage \in {"attack", "defend"} => atk = sides.atk
  /\ stage \in {"defend", "judge", "done"} => DefenderHit
  /\ stage \in {"judge", "done"} => AttackerHit

LEMMA BattleInit == Init => BattleInv
<1> SUFFICES ASSUME Init PROVE BattleInv
  OBVIOUS
<1> PICK a \in Fleets, s \in Garrisons, d \in Batteries, ta \in TechLevels, td \in TechLevels :
      /\ sides = [atk |-> a, ships |-> s, defs |-> d, atkTech |-> ta, defTech |-> td]
      /\ atk = a /\ pool = Join(s, d)
  BY DEF Init
<1>1. Side(a, ShipStats) /\ Side(s, ShipStats) /\ Side(d, DefenseStats) /\ ta \in CombatTechs /\ td \in CombatTechs
  BY CombatConstantsOK
<1>2. Army(a)
  BY <1>1 DEF Side, Army, Kinds
<1>3. Army(Join(s, d))
  <2> DEFINE j == Join(s, d)
  <2>1. DOMAIN j = DOMAIN s \cup DOMAIN d
    BY DEF Join
  <2>2. IsFiniteSet(DOMAIN j)
    <3>1. IsFiniteSet(DOMAIN s) /\ IsFiniteSet(DOMAIN d)
      BY <1>1 DEF Side
    <3>2. IsFiniteSet(DOMAIN s \cup DOMAIN d)
      BY <3>1, FS_Union
    <3> QED
      BY <2>1, <3>2
  <2>3. DOMAIN j \subseteq Kinds
    BY <1>1, <2>1 DEF Side, Kinds
  <2>4. j \in [DOMAIN j -> Nat]
    <3>1. s \in [DOMAIN s -> Nat] /\ d \in [DOMAIN d -> Nat]
      BY <1>1 DEF Side
    <3> QED
      BY <3>1 DEF Join
  <2> QED
    BY <2>2, <2>3, <2>4 DEF Army
<1>4. Defence = Join(s, d)
  BY DEF Defence
<1>5. stage = "attack"
  BY DEF Init
<1> QED
  BY <1>1, <1>2, <1>3, <1>4, <1>5 DEF BattleInv, ArgumentsOK

LEMMA BattleNext == BattleInv /\ [Next]_combatVars => BattleInv'
<1> SUFFICES ASSUME BattleInv, [Next]_combatVars PROVE BattleInv'
  OBVIOUS
<1>1. ArgumentsOK
  BY DEF BattleInv
<1>2. CASE Attack
  <2>1. /\ stage = "attack" /\ stage' = "defend" /\ sides' = sides /\ atk' = atk
        /\ defDestroyed' \in
             applyDamage(Defence, sides.defTech, totalAttack(sides.atk, sides.atkTech))
    BY <1>2 DEF Attack, BattleInv
  <2>2. totalAttack(sides.atk, sides.atkTech) \in Nat
    BY <1>1, AttackType DEF ArgumentsOK
  <2>3. totalHPPool(defDestroyed', sides.defTech) <= totalAttack(sides.atk, sides.atkTech)
    BY <1>1, <2>1, <2>2, LossesBounded DEF ArgumentsOK
  <2>4. totalHPPool(defDestroyed, sides.defTech)' = totalHPPool(defDestroyed', sides.defTech)
        /\ totalAttack(sides.atk, sides.atkTech)' = totalAttack(sides.atk, sides.atkTech)
    BY <2>1
  <2>5. DefenderHit'
    BY <2>3, <2>4 DEF DefenderHit
  <2>6. ArgumentsOK' /\ Defence' = Defence
    BY <1>1, <2>1 DEF ArgumentsOK, Defence
  <2> QED
    BY <2>1, <2>5, <2>6 DEF BattleInv
<1>3. CASE Defend
  <2>1. /\ stage = "defend" /\ stage' = "judge" /\ sides' = sides
        /\ defDestroyed' = defDestroyed /\ atk = sides.atk
        /\ atkDestroyed' \in
             applyDamage(sides.atk, sides.atkTech, totalAttack(Defence, sides.defTech))
    BY <1>3 DEF Defend, BattleInv, Defence
  <2>2. totalAttack(Defence, sides.defTech) \in Nat
    BY <1>1, AttackType DEF ArgumentsOK
  <2>3. totalHPPool(atkDestroyed', sides.atkTech) <= totalAttack(Defence, sides.defTech)
    BY <1>1, <2>1, <2>2, LossesBounded DEF ArgumentsOK
  <2>4. ArgumentsOK' /\ Defence' = Defence
    BY <1>1, <2>1 DEF ArgumentsOK, Defence
  <2>5. AttackerHit'
    BY <2>1, <2>3, <2>4 DEF AttackerHit
  <2>6. DefenderHit'
    BY <2>1 DEF BattleInv, DefenderHit
  <2> QED
    BY <2>1, <2>4, <2>5, <2>6 DEF BattleInv
<1>4. CASE Judge
  <2>1. /\ stage = "judge" /\ stage' = "done"
        /\ UNCHANGED <<sides, atkDestroyed, defDestroyed>>
    BY <1>4 DEF Judge
  <2> QED
    BY <2>1 DEF BattleInv, ArgumentsOK, Defence, DefenderHit, AttackerHit
<1>5. CASE UNCHANGED combatVars
  BY <1>5 DEF combatVars, BattleInv, ArgumentsOK, Defence, DefenderHit, AttackerHit
<1> QED
  BY <1>2, <1>3, <1>4, <1>5 DEF Next

\* However the float shares are rounded and however hulls and defences are
\* mixed, neither side of a battle loses more hit points than the other side
\* fires, for armies of any size and any technology (game/fleet.go:270-417).
THEOREM NoOverkillHolds == Spec => []NoOverkill
<1>1. BattleInv => NoOverkill
  BY DEF BattleInv, NoOverkill, DefenderHit, AttackerHit, Defence
<1> QED
  BY <1>1, BattleInit, BattleNext, PTL DEF Spec

\* Every stage leaves the units of both sides in their types: who is destroyed
\* was there, and who is left was not destroyed.
Accounted(left, lost, all) ==
  /\ Army(lost) /\ DOMAIN left = DOMAIN all /\ DOMAIN lost = DOMAIN all
  /\ \A k \in DOMAIN all : left[k] \in Nat /\ left[k] + lost[k] = all[k]

BattleTypes ==
  /\ stage \in {"attack", "defend", "judge", "done"}
  /\ winner \in {"attacker", "defender", "draw"}
  /\ debris[1] \in Nat /\ debris[2] \in Nat
  /\ Accounted(atk, atkDestroyed, sides.atk) /\ Accounted(pool, defDestroyed, Defence)

LEMMA NobodyLostYet == ASSUME NEW all, Army(all) PROVE Accounted(all, None(all), all)
<1>1. DOMAIN None(all) = DOMAIN all /\ \A k \in DOMAIN all : None(all)[k] = 0 /\ all[k] \in Nat
  BY DEF None, Army
<1>2. Army(None(all))
  BY DEF Army, None
<1> QED
  BY <1>1, <1>2 DEF Accounted

LEMMA LossesAccounted ==
  ASSUME NEW all, Army(all), NEW tech \in CombatTechs, NEW damage \in Nat,
         NEW lost \in applyDamage(all, tech, damage)
  PROVE  Accounted(Minus(all, lost), lost, all)
<1>1. Army(lost) /\ DOMAIN lost = DOMAIN all /\ \A k \in DOMAIN all : lost[k] <= all[k]
  BY LossesBounded
<1>2. \A k \in DOMAIN all : lost[k] \in Nat /\ all[k] \in Nat
  BY <1>1 DEF Army
<1>3. DOMAIN Minus(all, lost) = DOMAIN all
      /\ \A k \in DOMAIN all : Minus(all, lost)[k] = all[k] - lost[k]
  BY DEF Minus
<1> QED
  BY <1>1, <1>2, <1>3 DEF Accounted

LEMMA ShipCosts == \A k \in DOMAIN ShipStats : \A i \in 1..2 : ShipStats[k].cost[i] \in Nat
BY DEF ShipStats, Profile

LEMMA DebrisType ==
  ASSUME NEW f, Army(f), NEW i \in 1..2
  PROVE  ShipDebris(f, i) \in Nat
<1> DEFINE hulls == [k \in DOMAIN f \cap DOMAIN ShipStats |-> f[k]]
           each == [k \in DOMAIN hulls |-> (3 * ShipStats[k].cost[i] * hulls[k]) \div 10]
<1>1. DOMAIN hulls \subseteq DOMAIN f /\ IsFiniteSet(DOMAIN f)
  BY DEF Army
<1>2. IsFiniteSet(DOMAIN hulls)
  BY <1>1, FS_Subset
<1>3. ASSUME NEW k \in DOMAIN hulls PROVE each[k] \in Nat
  <2>1. hulls[k] \in Nat /\ ShipStats[k].cost[i] \in Nat
    BY <1>3, ShipCosts DEF Army
  <2>2. \A a \in Nat, b \in Nat : 3 * a * b \in Nat
    OBVIOUS
  <2>3. 3 * ShipStats[k].cost[i] * hulls[k] \in Nat
    BY <2>1, <2>2
  <2>4. \A a \in Nat : a \div 10 \in Nat
    OBVIOUS
  <2> QED
    BY <2>3, <2>4
<1>4. Sum(each, DOMAIN hulls) \in Nat
  <2> HIDE DEF each, hulls
  <2> QED
    BY <1>2, <1>3, SumType
<1> QED
  BY <1>4 DEF ShipDebris

LEMMA BattleTypesInit == Init => BattleTypes
<1> SUFFICES ASSUME Init PROVE BattleTypes
  OBVIOUS
<1>1. ArgumentsOK
  BY BattleInit DEF BattleInv
<1>2. /\ atk = sides.atk /\ pool = Defence
      /\ atkDestroyed = None(atk) /\ defDestroyed = None(pool)
      /\ stage = "attack" /\ winner = "draw" /\ debris = <<0, 0>>
  BY DEF Init, Defence
<1> QED
  BY <1>1, <1>2, NobodyLostYet DEF BattleTypes, ArgumentsOK

LEMMA BattleTypesNext == BattleInv /\ BattleTypes /\ [Next]_combatVars => BattleTypes'
<1> SUFFICES ASSUME BattleInv, BattleTypes, [Next]_combatVars PROVE BattleTypes'
  OBVIOUS
<1>1. ArgumentsOK
  BY DEF BattleInv
<1>2. CASE Attack
  <2>1. /\ pool = Defence /\ pool' = Minus(pool, defDestroyed')
        /\ defDestroyed' \in applyDamage(pool, sides.defTech, totalAttack(sides.atk, sides.atkTech))
        /\ stage' = "defend"
        /\ UNCHANGED <<sides, atk, atkDestroyed, winner, debris>>
    BY <1>2 DEF Attack, BattleInv
  <2>2. totalAttack(sides.atk, sides.atkTech) \in Nat
    BY <1>1, AttackType DEF ArgumentsOK
  <2>3. Accounted(pool', defDestroyed', Defence)
    BY <1>1, <2>1, <2>2, LossesAccounted DEF ArgumentsOK
  <2>4. Defence' = Defence
    BY <2>1 DEF Defence
  <2> QED
    BY <2>1, <2>3, <2>4 DEF BattleTypes
<1>3. CASE Defend
  <2>1. /\ atk = sides.atk /\ atk' = Minus(atk, atkDestroyed')
        /\ atkDestroyed' \in applyDamage(atk, sides.atkTech, totalAttack(Defence, sides.defTech))
        /\ stage' = "judge"
        /\ UNCHANGED <<sides, pool, defDestroyed, winner, debris>>
    BY <1>3 DEF Defend, BattleInv, Defence
  <2>2. totalAttack(Defence, sides.defTech) \in Nat
    BY <1>1, AttackType DEF ArgumentsOK
  <2>3. Accounted(atk', atkDestroyed', sides.atk)
    BY <1>1, <2>1, <2>2, LossesAccounted DEF ArgumentsOK
  <2>4. Defence' = Defence
    BY <2>1 DEF Defence
  <2> QED
    BY <2>1, <2>3, <2>4 DEF BattleTypes
<1>4. CASE Judge
  <2>1. /\ stage' = "done" /\ winner' \in {"attacker", "defender", "draw"}
        /\ UNCHANGED <<sides, atk, pool, atkDestroyed, defDestroyed>>
    BY <1>4 DEF Judge
  <2>2. debris' = [i \in 1..2 |-> ShipDebris(atkDestroyed, i) + ShipDebris(defDestroyed, i)]
    BY <1>4 DEF Judge
  <2>3. \A i \in 1..2 : debris'[i] \in Nat
    BY <2>2, DebrisType DEF BattleTypes, Accounted
  <2>4. Defence' = Defence
    BY <2>1 DEF Defence
  <2> QED
    BY <2>1, <2>3, <2>4 DEF BattleTypes
<1>5. CASE UNCHANGED combatVars
  BY <1>5 DEF combatVars, BattleTypes, Defence
<1> QED
  BY <1>2, <1>3, <1>4, <1>5 DEF Next

\* At every stage of a battle, who is left and who is lost make up the army that
\* came, no count is negative, and the debris is a natural number, for armies of
\* any size and any rounding (game/fleet.go:387-429).
THEOREM BattleTypeCorrect == Spec => []TypeOK
<1>1. BattleTypes => TypeOK
  BY DEF BattleTypes, Accounted, TypeOK
<1> QED
  BY <1>1, BattleInit, BattleNext, BattleTypesInit, BattleTypesNext, PTL DEF Spec

(***************************************************************************)
(* Who is an administrator                                                 *)
(***************************************************************************)

\* No change under way is a demotion somebody asked for of themselves.
ChangesOK ==
  changes \in [Handlers ->
    {Role!Free} \cup {c \in [by: SUBSET Users, act: {"promote", "demote"}, user: Users] :
                        c.act = "demote" => c.user \notin c.by}]

RoleInv == ChangesOK /\ excused \in BOOLEAN /\ AdminsRemain

LEMMA RoleInit == Role!Init => RoleInv
BY DEF Role!Init, RoleInv, ChangesOK, AdminsRemain

LEMMA RoleNext == RoleInv /\ [Role!Next]_roleVars => RoleInv'
<1> SUFFICES ASSUME RoleInv, [Role!Next]_roleVars PROVE RoleInv'
  OBVIOUS
<1>1. CASE UNCHANGED roleVars
  BY <1>1 DEF roleVars, RoleInv, ChangesOK, AdminsRemain
<1>2. ASSUME NEW h \in Handlers, Role!SetUserRole(h) PROVE RoleInv'
  <2> DEFINE r == changes[h]
  <2>1. /\ r.act \in {"promote", "demote"} /\ r.by \subseteq Users /\ r.user \in Users
        /\ r.act = "demote" => r.user \notin r.by
    BY <1>2 DEF RoleInv, ChangesOK, Role!SetUserRole
  <2>2. /\ admins' = IF r.act = "promote" THEN admins \cup {r.user} ELSE admins \ {r.user}
        /\ excused' = (excused \/ (r.act = "demote" /\ r.by \cap admins = {}))
        /\ changes' = [changes EXCEPT ![h] = Role!Free]
    BY <1>2 DEF Role!SetUserRole
  <2>3. ChangesOK'
    BY <2>2 DEF RoleInv, ChangesOK
  <2>4. excused' \in BOOLEAN
    BY <2>2
  <2>5. AdminsRemain'
    <3>1. CASE r.act = "promote"
      BY <2>2, <3>1 DEF AdminsRemain
    <3>2. CASE r.act = "demote" /\ r.by \cap admins = {}
      BY <2>2, <3>2 DEF AdminsRemain
    <3>3. CASE r.act = "demote" /\ r.by \cap admins # {}
      <4>1. PICK a \in r.by : a \in admins
        BY <3>3
      <4>2. a \in admins'
        BY <2>1, <2>2, <3>3, <4>1
      <4> QED
        BY <4>2 DEF AdminsRemain
    <3> QED
      BY <2>1, <3>1, <3>2, <3>3
  <2> QED
    BY <2>3, <2>4, <2>5 DEF RoleInv
<1>3. ASSUME NEW h \in Handlers, NEW act \in {"promote", "demote"}, NEW u \in Users,
             Role!CommandLine(h, act, u)
      PROVE RoleInv'
  <2>1. /\ changes' = [changes EXCEPT ![h] = [by |-> {}, act |-> act, user |-> u]]
        /\ admins' = admins /\ excused' = excused
    BY <1>3 DEF Role!CommandLine
  <2> QED
    BY <2>1 DEF RoleInv, ChangesOK, AdminsRemain
<1>4. ASSUME NEW h \in Handlers, NEW act \in {"promote", "demote"}, NEW u \in Users,
             NEW by \in Users, Role!AdminPost(h, by, act, u)
      PROVE RoleInv'
  <2>1. /\ changes' = [changes EXCEPT ![h] = [by |-> {by}, act |-> act, user |-> u]]
        /\ admins' = admins /\ excused' = excused
        /\ ~(act = "demote" /\ by = u)
    BY <1>4 DEF Role!AdminPost, Role!SelfDemotion
  <2> QED
    BY <2>1 DEF RoleInv, ChangesOK, AdminsRemain
<1> QED
  BY <1>1, <1>2, <1>3, <1>4 DEF Role!Next

\* With any number of administrators, pages and commands under way, the game
\* runs out of administrators only when a demotion came from the operator or
\* from somebody demoted meanwhile (web/admin_handlers.go:121).
THEOREM AdminsRemainHolds == Role!Spec => []AdminsRemain
<1>1. RoleInv => AdminsRemain
  BY DEF RoleInv
<1>2. Role!Spec => Role!Init /\ [][Role!Next]_roleVars
  BY DEF Role!Spec, Role!roleVars, roleVars
<1> QED
  BY <1>1, <1>2, RoleInit, RoleNext, PTL

RoleTypes == RoleInv /\ admins \subseteq Users

LEMMA RoleTypesInit == Role!Init => RoleTypes
BY RoleInit DEF RoleTypes, Role!Init

LEMMA RoleTypesNext == RoleTypes /\ [Role!Next]_roleVars => RoleTypes'
<1> SUFFICES ASSUME RoleTypes, [Role!Next]_roleVars PROVE admins' \subseteq Users
  BY RoleNext DEF RoleTypes
<1>1. ASSUME NEW h \in Handlers, Role!SetUserRole(h) PROVE admins' \subseteq Users
  <2>1. changes[h].user \in Users
    BY <1>1 DEF RoleTypes, RoleInv, ChangesOK, Role!SetUserRole
  <2> QED
    BY <1>1, <2>1 DEF RoleTypes, Role!SetUserRole
<1> QED
  BY <1>1 DEF RoleTypes, Role!Next, Role!CommandLine, Role!AdminPost, roleVars

\* A role is only ever given to an account, and every change under way names one
\* and who asked for it (web/admin_handlers.go:121, svc/admin/admin.go).
THEOREM RolesTypeCorrect == Role!Spec => []Role!TypeOK
<1>1. RoleTypes => Role!TypeOK
  BY DEF RoleTypes, RoleInv, ChangesOK, Role!TypeOK
<1>2. Role!Spec => Role!Init /\ [][Role!Next]_roleVars
  BY DEF Role!Spec, Role!roleVars, roleVars
<1> QED
  BY <1>1, <1>2, RoleTypesInit, RoleTypesNext, PTL

(***************************************************************************)
(* The self-update                                                         *)
(***************************************************************************)

\* What update u will install: until it is copied, the archive in its own
\* temporary directory; then the file beside the destination.
Carries(u) ==
  /\ run[u].at = "fetch" => ~run[u].compared
  /\ run[u].at \in {"verify", "extract", "stage", "copy"} =>
       /\ work[u] \in Upd!Contents /\ work[u].tag = run[u].tag
       /\ run[u].compared => work[u].intact
  /\ run[u].at = "rename" =>
       /\ aside[u] \in Upd!Contents /\ aside[u].tag = run[u].tag
       /\ aside[u].compared => aside[u].intact

Installs == Upd!BinaryWhole /\ Upd!ComparedIsIntact
UpdInv == Upd!TypeOK /\ Installs /\ \A u \in Updaters : Carries(u)

Others(v) == \A u \in Updaters \ {v} :
  run'[u] = run[u] /\ work'[u] = work[u] /\ aside'[u] = aside[u]

\* The two marks for a missing and a half-written file are no content.
LEMMA MarksAreNoContent ==
  /\ Upd!Torn # Upd!Absent
  /\ Upd!Torn \notin Upd!Contents /\ Upd!Absent \notin Upd!Contents
BY UpdaterConstantsOK DEF Upd!Torn, Upd!Absent, Upd!Contents

LEMMA UpdInit == Upd!Init => UpdInv
<1> SUFFICES ASSUME Upd!Init PROVE UpdInv
  OBVIOUS
<1>1. PICK t \in Tags :
        /\ installed = [d \in Dirs |-> IF d = Exe
                          THEN [tag |-> t, intact |-> TRUE, compared |-> TRUE] ELSE Upd!Absent]
        /\ run = [u \in Updaters |-> [at |-> "new", tag |-> t, dir |-> Exe, compared |-> FALSE]]
  BY DEF Upd!Init
<1>2. [tag |-> t, intact |-> TRUE, compared |-> TRUE] \in Upd!Contents
  BY DEF Upd!Contents
<1>3. writable \subseteq Dirs
  BY DEF Upd!Init
<1>4. work = [u \in Updaters |-> Upd!Absent] /\ aside = [u \in Updaters |-> Upd!Absent]
  BY DEF Upd!Init
<1>5. Exe \in Dirs
  BY UpdaterConstantsOK
<1>6. Upd!TypeOK
  BY <1>1, <1>2, <1>3, <1>4, <1>5 DEF Upd!TypeOK, Upd!Stages
<1>7. Installs
  BY <1>1, <1>2, <1>5, MarksAreNoContent DEF Installs, Upd!BinaryWhole, Upd!ComparedIsIntact
<1> QED
  BY <1>1, <1>6, <1>7 DEF UpdInv, Carries

\* What an action of update v that installs nothing has to leave behind.
LEMMA UpdKept ==
  ASSUME NEW v \in Updaters, UpdInv, Upd!TypeOK', installed' = installed, Others(v), Carries(v)'
  PROVE UpdInv'
<1>1. Installs'
  BY DEF UpdInv, Installs, Upd!BinaryWhole, Upd!ComparedIsIntact
<1>2. ASSUME NEW u \in Updaters, u # v PROVE Carries(u)'
  BY <1>2 DEF UpdInv, Others, Carries
<1> QED
  BY <1>1, <1>2 DEF UpdInv

\* The deferred removals touch nothing of another update.
LEMMA UpdExit ==
  ASSUME NEW v \in Updaters, UpdInv, Upd!Exit(v), writable' = writable
  PROVE UpdInv'
<1>1. /\ run' = [run EXCEPT ![v].at = "done"]
      /\ work' = [work EXCEPT ![v] = Upd!Absent] /\ aside' = [aside EXCEPT ![v] = Upd!Absent]
      /\ installed' = installed
  BY DEF Upd!Exit, Upd!At, Upd!WorkDir, Upd!TempFile
<1>2. Upd!TypeOK
  BY DEF UpdInv
<1>3. Upd!TypeOK'
  BY <1>1, <1>2 DEF Upd!TypeOK, Upd!Stages
<1>4. Others(v) /\ Carries(v)'
  BY <1>1, <1>2 DEF Upd!TypeOK, Others, Carries
<1> QED
  BY <1>1, <1>3, <1>4, UpdKept

LEMMA UpdBegin ==
  ASSUME NEW v \in Updaters, UpdInv, Upd!Begin(v) PROVE UpdInv'
<1>1. installed' = installed /\ writable' = writable /\ work' = work /\ aside' = aside
  BY DEF Upd!Begin
<1>2. Upd!TypeOK
  BY DEF UpdInv
<1>3. CASE run' = [run EXCEPT ![v].at = "done"]
  <2>1. Upd!TypeOK' /\ Others(v) /\ Carries(v)'
    BY <1>1, <1>2, <1>3 DEF Upd!TypeOK, Upd!Stages, Others, Carries
  <2> QED
    BY <1>1, <2>1, UpdKept
<1>4. ASSUME NEW tag \in Tags, NEW dir \in Dirs,
             run' = [run EXCEPT ![v] = [at |-> "fetch", tag |-> tag, dir |-> dir, compared |-> FALSE]]
      PROVE UpdInv'
  <2>1. Upd!TypeOK' /\ Others(v) /\ Carries(v)'
    BY <1>1, <1>2, <1>4 DEF Upd!TypeOK, Upd!Stages, Others, Carries
  <2> QED
    BY <1>1, <2>1, UpdKept
<1>5. Upd!InstallDirs \subseteq Dirs
  BY UpdaterConstantsOK DEF Upd!InstallDirs
<1> QED
  BY <1>3, <1>4, <1>5 DEF Upd!Begin, Upd!At, Upd!Resolvable

LEMMA UpdFetch ==
  ASSUME NEW v \in Updaters, UpdInv, Upd!Fetch(v) PROVE UpdInv'
<1>1. CASE Upd!Exit(v)
  BY <1>1, UpdExit DEF Upd!Fetch
<1>2. ASSUME NEW intact \in BOOLEAN,
             work' = [work EXCEPT ![v] = [tag |-> run[v].tag, intact |-> intact, compared |-> FALSE]],
             run' = [run EXCEPT ![v].at = "verify"], run[v].at = "fetch",
             installed' = installed, aside' = aside, writable' = writable
      PROVE UpdInv'
  <2>1. Upd!TypeOK /\ Carries(v)
    BY DEF UpdInv
  <2>2. [tag |-> run[v].tag, intact |-> intact, compared |-> FALSE] \in Upd!Contents
    BY <2>1 DEF Upd!TypeOK, Upd!Contents
  <2>3. Upd!TypeOK'
    BY <1>2, <2>1, <2>2 DEF Upd!TypeOK, Upd!Stages
  <2>4. Others(v) /\ Carries(v)'
    BY <1>2, <2>1, <2>2 DEF Upd!TypeOK, Others, Carries
  <2> QED
    BY <1>2, <2>3, <2>4, UpdKept
<1> QED
  BY <1>1, <1>2 DEF Upd!Fetch, Upd!At, Upd!WorkDir

LEMMA UpdVerify ==
  ASSUME NEW v \in Updaters, UpdInv, Upd!VerifySkipped(v) \/ Upd!VerifyCompared(v)
  PROVE UpdInv'
<1>1. Upd!TypeOK /\ Carries(v)
  BY DEF UpdInv
<1>2. CASE Upd!VerifySkipped(v)
  <2>1. /\ run[v].at = "verify" /\ run' = [run EXCEPT ![v].at = "extract"]
        /\ installed' = installed /\ writable' = writable /\ work' = work /\ aside' = aside
    BY <1>2 DEF Upd!VerifySkipped, Upd!At
  <2>2. Upd!TypeOK' /\ Others(v) /\ Carries(v)'
    BY <1>1, <2>1 DEF Upd!TypeOK, Upd!Stages, Others, Carries
  <2> QED
    BY <2>1, <2>2, UpdKept
<1>3. CASE Upd!VerifyCompared(v) /\ Upd!Matches(work[v])
  <2>1. /\ run[v].at = "verify" /\ run' = [run EXCEPT ![v].at = "extract", ![v].compared = TRUE]
        /\ installed' = installed /\ writable' = writable /\ work' = work /\ aside' = aside
        /\ work[v].intact
    BY <1>3 DEF Upd!VerifyCompared, Upd!WorkDir, Upd!Matches
  <2>2. Upd!TypeOK' /\ Others(v) /\ Carries(v)'
    BY <1>1, <2>1 DEF Upd!TypeOK, Upd!Stages, Others, Carries
  <2> QED
    BY <2>1, <2>2, UpdKept
<1>4. CASE Upd!VerifyCompared(v) /\ ~Upd!Matches(work[v])
  BY <1>4, UpdExit DEF Upd!VerifyCompared, Upd!WorkDir
<1> QED
  BY <1>2, <1>3, <1>4

LEMMA UpdUnpack ==
  ASSUME NEW v \in Updaters, UpdInv, Upd!Extract(v) \/ Upd!Stage(v) \/ Upd!Copy(v)
  PROVE UpdInv'
<1>1. Upd!TypeOK /\ Carries(v)
  BY DEF UpdInv
<1>2. CASE Upd!Exit(v)
  BY <1>2, UpdExit DEF Upd!Extract, Upd!Stage, Upd!Copy
<1>3. CASE Upd!Extract(v) /\ ~Upd!Exit(v)
  <2>1. /\ run[v].at = "extract" /\ run' = [run EXCEPT ![v].at = "stage"]
        /\ installed' = installed /\ writable' = writable /\ work' = work /\ aside' = aside
    BY <1>3 DEF Upd!Extract, Upd!At
  <2>2. Upd!TypeOK' /\ Others(v) /\ Carries(v)'
    BY <1>1, <2>1 DEF Upd!TypeOK, Upd!Stages, Others, Carries
  <2> QED
    BY <2>1, <2>2, UpdKept
<1>4. CASE Upd!Stage(v) /\ ~Upd!Exit(v)
  <2>1. /\ run[v].at = "stage" /\ run' = [run EXCEPT ![v].at = "copy"]
        /\ aside' = [aside EXCEPT ![v] = Upd!Torn]
        /\ installed' = installed /\ writable' = writable /\ work' = work
    BY <1>4 DEF Upd!Stage, Upd!At, Upd!TempFile
  <2>2. Upd!TypeOK' /\ Others(v) /\ Carries(v)'
    BY <1>1, <2>1 DEF Upd!TypeOK, Upd!Stages, Others, Carries
  <2> QED
    BY <2>1, <2>2, UpdKept
<1>5. CASE Upd!Copy(v) /\ ~Upd!Exit(v)
  <2> DEFINE copy == [work[v] EXCEPT !.compared = run[v].compared]
  <2>1. /\ run[v].at = "copy" /\ run' = [run EXCEPT ![v].at = "rename"]
        /\ aside' = [aside EXCEPT ![v] = copy]
        /\ installed' = installed /\ writable' = writable /\ work' = work
    BY <1>5 DEF Upd!Copy, Upd!At, Upd!TempFile, Upd!WorkDir
  <2>2. work[v] \in Upd!Contents /\ work[v].tag = run[v].tag /\ (run[v].compared => work[v].intact)
    BY <1>1, <2>1 DEF Carries
  <2>3. run[v] \in [at : Upd!Stages, tag : Tags, dir : Dirs, compared : BOOLEAN]
    BY <1>1 DEF Upd!TypeOK
  <2>4. /\ copy \in Upd!Contents /\ copy.tag = run[v].tag
        /\ copy.compared => copy.intact
    BY <2>2, <2>3 DEF Upd!Contents
  <2> HIDE DEF copy
  <2>5. Upd!TypeOK'
    BY <1>1, <2>1, <2>4 DEF Upd!TypeOK, Upd!Stages
  <2>6. Others(v) /\ Carries(v)'
    BY <1>1, <2>1, <2>4 DEF Upd!TypeOK, Others, Carries
  <2> QED
    BY <2>1, <2>5, <2>6, UpdKept
<1> QED
  BY <1>2, <1>3, <1>4, <1>5

LEMMA UpdRename ==
  ASSUME NEW v \in Updaters, UpdInv, Upd!Rename(v) PROVE UpdInv'
<1>1. Upd!TypeOK /\ Carries(v) /\ Installs
  BY DEF UpdInv
<1>2. /\ run[v].at = "rename" /\ run' = [run EXCEPT ![v].at = "done"]
      /\ installed' = [installed EXCEPT ![run[v].dir] = aside[v]]
      /\ aside' = [aside EXCEPT ![v] = Upd!Absent] /\ work' = [work EXCEPT ![v] = Upd!Absent]
      /\ writable' = writable
  BY DEF Upd!Rename, Upd!At, Upd!TempFile, Upd!WorkDir
<1>3. aside[v] \in Upd!Contents /\ (aside[v].compared => aside[v].intact)
  BY <1>1, <1>2 DEF Carries
<1>4. Upd!TypeOK'
  BY <1>1, <1>2, <1>3 DEF Upd!TypeOK, Upd!Stages
<1>5. Installs'
  <2>1. installed \in [Dirs -> Upd!Contents \union {Upd!Absent}]
    BY <1>1 DEF Upd!TypeOK
  <2> QED
    BY <1>1, <1>2, <1>3, <2>1, UpdaterConstantsOK, MarksAreNoContent
    DEF Installs, Upd!BinaryWhole, Upd!ComparedIsIntact
<1>6. ASSUME NEW u \in Updaters PROVE Carries(u)'
  BY <1>1, <1>2 DEF Upd!TypeOK, UpdInv, Carries
<1> QED
  BY <1>4, <1>5, <1>6 DEF UpdInv

LEMMA UpdKill ==
  ASSUME NEW v \in Updaters, UpdInv, Upd!Kill(v) PROVE UpdInv'
<1>1. /\ run' = [run EXCEPT ![v].at = "killed"]
      /\ installed' = installed /\ writable' = writable /\ work' = work /\ aside' = aside
  BY DEF Upd!Kill, Upd!At
<1>2. Upd!TypeOK' /\ Others(v) /\ Carries(v)'
  BY <1>1 DEF UpdInv, Upd!TypeOK, Upd!Stages, Others, Carries
<1> QED
  BY <1>1, <1>2, UpdKept

LEMMA UpdNext == UpdInv /\ [Upd!Next]_updaterVars => UpdInv'
<1> SUFFICES ASSUME UpdInv, [Upd!Next]_updaterVars PROVE UpdInv'
  OBVIOUS
<1>1. CASE UNCHANGED updaterVars
  BY <1>1 DEF updaterVars, UpdInv, Installs, Upd!TypeOK, Carries, Upd!BinaryWhole, Upd!ComparedIsIntact
<1> QED
  BY <1>1, UpdBegin, UpdFetch, UpdVerify, UpdUnpack, UpdRename, UpdKill DEF Upd!Next

\* Only its rename finishes an update that has a file to rename.
LEMMA UpdInstalls ==
  ASSUME UpdInv, Upd!Next, NEW u \in Updaters, run[u].at = "rename", run'[u].at = "done"
  PROVE installed'[run[u].dir].tag = run[u].tag
<1>1. Upd!TypeOK /\ Carries(u)
  BY DEF UpdInv
<1>2. PICK v \in Updaters :
        \/ Upd!Begin(v) \/ Upd!Fetch(v) \/ Upd!VerifySkipped(v) \/ Upd!VerifyCompared(v)
        \/ Upd!Extract(v) \/ Upd!Stage(v) \/ Upd!Copy(v) \/ Upd!Rename(v) \/ Upd!Kill(v)
  BY DEF Upd!Next
<1>3. CASE Upd!Rename(v)
  <2>1. run' = [run EXCEPT ![v].at = "done"] /\ installed' = [installed EXCEPT ![run[v].dir] = aside[v]]
    BY <1>3 DEF Upd!Rename, Upd!At, Upd!TempFile
  <2>2. u = v
    BY <2>1
  <2>3. run[u].dir \in Dirs /\ DOMAIN installed = Dirs
    BY <1>1 DEF Upd!TypeOK
  <2> QED
    BY <1>1, <2>1, <2>2, <2>3 DEF Carries
<1>4. CASE ~Upd!Rename(v)
  <2>1. run[v].at # "rename" \/ Upd!Kill(v)
    BY <1>2, <1>4 DEF Upd!Begin, Upd!Fetch, Upd!VerifySkipped, Upd!VerifyCompared, Upd!Extract,
       Upd!Stage, Upd!Copy
  <2>2. \A w \in Updaters \ {v} : run'[w] = run[w]
    <3>1. run \in [Updaters -> [at : Upd!Stages, tag : Tags, dir : Dirs, compared : BOOLEAN]]
      BY <1>1 DEF Upd!TypeOK
    <3>2. CASE Upd!Begin(v)
      BY <3>1, <3>2 DEF Upd!Begin, Upd!At
    <3>3. CASE Upd!Exit(v)
      BY <3>1, <3>3 DEF Upd!Exit, Upd!At
    <3>4. CASE Upd!VerifyCompared(v) /\ ~Upd!Exit(v)
      BY <3>1, <3>4 DEF Upd!VerifyCompared
    <3>5. CASE \/ Upd!VerifySkipped(v) \/ Upd!Kill(v)
               \/ (Upd!Fetch(v) \/ Upd!Extract(v) \/ Upd!Stage(v) \/ Upd!Copy(v)) /\ ~Upd!Exit(v)
      <4>1. \E next : run' = [run EXCEPT ![v].at = next]
        BY <3>5 DEF Upd!VerifySkipped, Upd!Kill, Upd!Fetch, Upd!Extract, Upd!Stage, Upd!Copy, Upd!At
      <4> QED
        BY <3>1, <4>1
    <3> QED
      BY <1>2, <1>4, <3>2, <3>3, <3>4, <3>5
  <2>3. Upd!Kill(v) => run'[v].at # "done"
    BY <1>1 DEF Upd!Kill, Upd!At, Upd!TypeOK
  <2> QED
    BY <2>1, <2>2, <2>3
<1> QED
  BY <1>3, <1>4

LEMMA UpdAlways == Upd!Spec => []UpdInv /\ [][Upd!Next]_updaterVars
<1>1. Upd!Spec => Upd!Init /\ [][Upd!Next]_updaterVars
  BY DEF Upd!Spec, Upd!updaterVars, updaterVars
<1> QED
  BY <1>1, UpdInit, UpdNext, PTL

\* Whichever updates are killed or overlap, the binary that runs stays whole and
\* no directory ever shows a part of one (cmd/tarmy/update.go:347).
THEOREM BinaryWholeHolds == Upd!Spec => []BinaryWhole
<1>1. UpdInv => BinaryWhole
  BY DEF UpdInv, Installs, Upd!BinaryWhole, BinaryWhole, Upd!Contents, Contents, Upd!Torn, Torn
<1> QED
  BY <1>1, UpdAlways, PTL

\* The bytes compared are the bytes installed, for any number of updates of
\* other releases in between (cmd/tarmy/update.go:131).
THEOREM ComparedIsIntactHolds == Upd!Spec => []ComparedIsIntact
<1>1. UpdInv => ComparedIsIntact
  BY DEF UpdInv, Installs, Upd!ComparedIsIntact, ComparedIsIntact, Upd!Contents, Contents
<1> QED
  BY <1>1, UpdAlways, PTL

\* An update that renames its copy installs the release it resolved and no
\* other's (cmd/tarmy/update.go:377).
THEOREM InstallsItsReleaseHolds == Upd!Spec => InstallsItsRelease
<1>1. UpdInv /\ [Upd!Next]_updaterVars =>
        [\A u \in Updaters :
           run[u].at = "rename" /\ run'[u].at = "done" =>
             installed'[run[u].dir].tag = run[u].tag]_updaterVars
  BY UpdInstalls
<1> QED
  BY <1>1, UpdAlways, PTL DEF InstallsItsRelease

\* At every failing return and every kill, a directory holds a release or nothing
\* and an update's own files are a release, a torn one or none
\* (cmd/tarmy/update.go:131-390).
THEOREM UpdaterTypeCorrect == Upd!Spec => []Upd!TypeOK
<1>1. UpdInv => Upd!TypeOK
  BY DEF UpdInv
<1> QED
  BY <1>1, UpdAlways, PTL

(***************************************************************************)
(* Homeworlds                                                              *)
(***************************************************************************)

JoinOK(r) ==
  /\ r = [user |-> r.user, universe |-> r.universe, left |-> r.left]
  /\ r # Home!Free => r.user \in Users /\ r.universe \in universes

JoinsOK == DOMAIN joins = Handlers /\ \A h \in Handlers : JoinOK(joins[h])
CurrentOK ==
  /\ currentUniverse = [u \in Users |-> currentUniverse[u]]
  /\ \A u \in Users :
       currentUniverse[u] # NoUniverse => Home!Owned(u, currentUniverse[u]) # {}
HomeInv == JoinsOK /\ CurrentOK

LEMMA HomeInit == Home!Init => HomeInv
<1> SUFFICES ASSUME Home!Init PROVE HomeInv
  OBVIOUS
<1>1. JoinsOK /\ CurrentOK
  BY DEF Home!Init, JoinsOK, JoinOK, CurrentOK, Home!Free, NoUniverse, Home!NoUniverse
<1> QED
  BY <1>1 DEF HomeInv

\* A join that is let in.
LEMMA HomeBegin ==
  ASSUME HomeInv, NEW h \in Handlers, NEW u \in Users, NEW v, Home!Begin(h, u, v),
         planets' = planets, universes' = universes, currentUniverse' = currentUniverse
  PROVE  HomeInv'
<1>1. /\ v \in universes /\ Home!Owned(u, v) = {}
      /\ joins' = [joins EXCEPT ![h] = [user |-> u, universe |-> v, left |-> MaxAttempts]]
  BY DEF Home!Begin
<1>2. JoinsOK'
  BY <1>1 DEF HomeInv, JoinsOK, JoinOK
<1>3. CurrentOK'
  BY DEF HomeInv, CurrentOK, Home!Owned
<1> QED
  BY <1>2, <1>3 DEF HomeInv

\* A join that goes on, or ends without a planet.
LEMMA HomeKept ==
  ASSUME HomeInv, universes \subseteq universes', planets' = planets,
         currentUniverse' = currentUniverse, DOMAIN joins' = Handlers,
         \A h \in Handlers :
            \/ joins'[h] = Home!Free
            \/ joins'[h] = [user |-> joins[h].user, universe |-> joins[h].universe,
                            left |-> joins'[h].left]
               /\ joins[h] # Home!Free
  PROVE  HomeInv'
<1>1. JoinsOK'
  <2>1. Home!Free' = Home!Free
    BY DEF Home!Free, Home!NoUniverse
  <2>2. ASSUME NEW h \in Handlers PROVE JoinOK(joins[h])'
    BY <2>1 DEF HomeInv, JoinsOK, JoinOK, Home!Free, Home!NoUniverse
  <2> QED
    BY <2>2 DEF JoinsOK
<1>2. CurrentOK'
  BY DEF HomeInv, CurrentOK, Home!Owned
<1> QED
  BY <1>1, <1>2 DEF HomeInv

\* A join that founds its planet.
LEMMA HomeFounds ==
  ASSUME HomeInv, NEW h \in Handlers, NEW s, joins[h] # Home!Free,
         currentUniverse' = [currentUniverse EXCEPT ![joins[h].user] = joins[h].universe],
         planets' = planets \cup
            {[universe |-> joins[h].universe, slot |-> s, owner |-> joins[h].user]},
         joins' = [joins EXCEPT ![h] = Home!Free], universes' = universes
  PROVE  HomeInv'
<1> DEFINE p == [universe |-> joins[h].universe, slot |-> s, owner |-> joins[h].user]
<1>1. JoinsOK'
  BY DEF HomeInv, JoinsOK, JoinOK, Home!Free, Home!NoUniverse
<1>2. joins[h].user \in Users
  BY DEF HomeInv, JoinsOK, JoinOK
<1>3. ASSUME NEW x, NEW w PROVE Home!Owned(x, w) \subseteq Home!Owned(x, w)'
  BY DEF Home!Owned
<1>4. p \in planets' /\ p.owner = joins[h].user /\ p.universe = joins[h].universe
  OBVIOUS
<1>5. CurrentOK'
  <2>1. currentUniverse' = [u \in Users |-> currentUniverse'[u]]
    BY DEF HomeInv, CurrentOK
  <2>2. ASSUME NEW u \in Users, currentUniverse'[u] # NoUniverse
        PROVE Home!Owned(u, currentUniverse[u])' # {}
    <3>1. CASE u = joins[h].user
      <4>1. currentUniverse'[u] = joins[h].universe
        BY <1>2, <3>1 DEF HomeInv, CurrentOK
      <4> QED
        BY <1>4, <3>1, <4>1 DEF Home!Owned
    <3>2. CASE u # joins[h].user
      <4>1. currentUniverse'[u] = currentUniverse[u]
        BY <3>2 DEF HomeInv, CurrentOK
      <4> QED
        BY <2>2, <4>1 DEF HomeInv, CurrentOK, Home!Owned
    <3> QED
      BY <3>1, <3>2
  <2> QED
    BY <2>1, <2>2 DEF CurrentOK
<1> QED
  BY <1>1, <1>5 DEF HomeInv

LEMMA HomeAttempt ==
  ASSUME HomeInv, NEW h \in Handlers, NEW s, Home!Attempt(h, s) PROVE HomeInv'
<1>1. joins[h] # Home!Free /\ universes' = universes
  BY DEF Home!Attempt
<1>2. DOMAIN joins = Handlers
  BY DEF HomeInv, JoinsOK
<1>3. CASE ~Home!Taken(joins[h].universe, s)
  <2>1. /\ currentUniverse' = [currentUniverse EXCEPT ![joins[h].user] = joins[h].universe]
        /\ planets' = planets \cup
              {[universe |-> joins[h].universe, slot |-> s, owner |-> joins[h].user]}
        /\ joins' = [joins EXCEPT ![h] = Home!Free]
    BY <1>3 DEF Home!Attempt, Home!CurrentAfter, Home!Finish
  <2> QED
    BY <1>1, <2>1, HomeFounds
<1>4. CASE Home!Taken(joins[h].universe, s)
  <2>1. planets' = planets /\ currentUniverse' = currentUniverse
    BY <1>4 DEF Home!Attempt, Home!CurrentAfter
  <2>2. \/ joins' = [joins EXCEPT ![h].left = Home!Counted(@)]
        \/ joins' = [joins EXCEPT ![h] = Home!Free]
    BY <1>4 DEF Home!Attempt, Home!Finish
  <2>3. DOMAIN joins' = Handlers
    BY <1>2, <2>2
  <2>4. \A k \in Handlers : JoinOK(joins[k])
    BY DEF HomeInv, JoinsOK
  <2>5. ASSUME NEW k \in Handlers
        PROVE \/ joins'[k] = Home!Free
              \/ joins'[k] = [user |-> joins[k].user, universe |-> joins[k].universe,
                              left |-> joins'[k].left]
                 /\ joins[k] # Home!Free
    BY <1>1, <1>2, <2>2, <2>4 DEF JoinOK
  <2> QED
    BY <1>1, <2>1, <2>3, <2>5, HomeKept
<1> QED
  BY <1>3, <1>4

LEMMA HomeNext == HomeInv /\ [Home!Next]_homeworldVars => HomeInv'
<1> SUFFICES ASSUME HomeInv, [Home!Next]_homeworldVars PROVE HomeInv'
  OBVIOUS
<1>1. DOMAIN joins = Handlers /\ \A h \in Handlers : JoinOK(joins[h])
  BY DEF HomeInv, JoinsOK
<1>2. ASSUME universes \subseteq universes', planets' = planets,
             currentUniverse' = currentUniverse, joins' = joins
      PROVE HomeInv'
  BY <1>1, <1>2, HomeKept DEF JoinOK
<1>3. CASE UNCHANGED homeworldVars
  BY <1>2, <1>3 DEF homeworldVars
<1>4. ASSUME NEW v \in Universes, Home!EnsureDefaultUniverse(v) PROVE HomeInv'
  BY <1>2, <1>4 DEF Home!EnsureDefaultUniverse
<1>5. ASSUME NEW h \in Handlers, Home!AttemptFailed(h) PROVE HomeInv'
  <2>1. /\ joins' = [joins EXCEPT ![h] = Home!Free]
        /\ universes' = universes /\ planets' = planets /\ currentUniverse' = currentUniverse
    BY <1>5 DEF Home!AttemptFailed, Home!Finish
  <2> QED
    BY <1>1, <2>1, HomeKept DEF JoinOK
<1>6. ASSUME NEW h \in Handlers, NEW u \in Users, NEW v \in Universes,
             Home!JoinStart(h, u, v) \/ Home!TerminalJoin(h, u, v)
      PROVE HomeInv'
  BY <1>6, HomeBegin DEF Home!JoinStart, Home!TerminalJoin
<1>7. ASSUME NEW u \in Users,
             \/ Home!ListPlanets(u) \/ Home!TerminalQuit(u)
             \/ \E v \in Universes : Home!TerminalRefused(u, v)
      PROVE HomeInv'
  BY <1>2, <1>7 DEF Home!ListPlanets, Home!TerminalQuit, Home!TerminalRefused
<1> QED
  BY <1>3, <1>4, <1>5, <1>6, <1>7, HomeAttempt DEF Home!Next, Home!Work, Home!Attempts

LEMMA HomeAlways == Home!Spec => []HomeInv
<1>1. Home!Spec => Home!Init /\ [][Home!Next]_homeworldVars
  BY DEF Home!Spec, Home!homeworldVars, homeworldVars
<1> QED
  BY <1>1, HomeInit, HomeNext, PTL

\* Every player's current universe is one the player has a planet in, with any
\* joins under way or failed (the transaction at svc/universe.go:164).
THEOREM CurrentHasPlanetHolds == Home!Spec => []CurrentHasPlanet
<1>1. HomeInv => CurrentHasPlanet
  BY DEF HomeInv, CurrentOK, CurrentHasPlanet, Home!Owned, Owned
<1> QED
  BY <1>1, HomeAlways, PTL

\* A join is counted down from the limit to its last attempt, and is then over.
HomeTypes == Home!TypeOK /\ DOMAIN joins = Handlers

LEMMA HomeTypesBegin ==
  ASSUME HomeTypes, NEW h \in Handlers, NEW u \in Users, NEW v, Home!Begin(h, u, v),
         UNCHANGED <<universes, planets, currentUniverse>>,
         terminal' \in [Users -> {"off", "listed", "in", "failed"} \cup Handlers]
  PROVE  HomeTypes'
<1> DEFINE begun == [user |-> u, universe |-> v, left |-> MaxAttempts]
<1>1. joins' = [joins EXCEPT ![h] = begun] /\ v \in universes
  BY DEF Home!Begin
<1>2. begun \in [user: Users, universe: universes, left: 1..MaxAttempts]
  BY <1>1, OneAttempt
<1> QED
  BY <1>1, <1>2 DEF HomeTypes, Home!TypeOK, Home!Free, Home!NoUniverse

LEMMA HomeTypesAttempt ==
  ASSUME HomeTypes, NEW h \in Handlers, NEW s \in Slots, Home!Attempt(h, s) PROVE HomeTypes'
<1> DEFINE r == joins[h]
           p == [universe |-> r.universe, slot |-> s, owner |-> r.user]
<1>1. /\ r \in [user: Users, universe: universes, left: 1..MaxAttempts]
      /\ universes' = universes
  BY DEF Home!Attempt, HomeTypes, Home!TypeOK
<1>2. currentUniverse' \in [Users -> Universes \cup {NoUniverse}]
  BY <1>1 DEF Home!Attempt, Home!CurrentAfter, HomeTypes, Home!TypeOK, Home!NoUniverse, NoUniverse
<1>3. terminal' = terminal \/ Home!Answer(h, TRUE) \/ Home!Answer(h, FALSE)
  BY DEF Home!Attempt
<1>4. terminal' \in [Users -> {"off", "listed", "in", "failed"} \cup Handlers]
  BY <1>3 DEF Home!Answer, HomeTypes, Home!TypeOK
<1>5. planets' \subseteq [universe: Universes, slot: Slots, owner: Users]
  <2>1. p \in [universe: Universes, slot: Slots, owner: Users]
    BY <1>1 DEF HomeTypes, Home!TypeOK
  <2>2. planets' = planets \/ planets' = planets \cup {p}
    BY DEF Home!Attempt
  <2> QED
    BY <2>1, <2>2 DEF HomeTypes, Home!TypeOK
<1>6. \/ joins' = [joins EXCEPT ![h] = Home!Free]
      \/ r.left > 1 /\ joins' = [joins EXCEPT ![h].left = @ - 1]
  BY DEF Home!Attempt, Home!Finish, Home!Counted
<1>7. /\ DOMAIN joins' = Handlers
      /\ \A k \in Handlers :
           joins'[k] = Home!Free \/
           joins'[k] \in [user: Users, universe: universes, left: 1..MaxAttempts]
  <2>1. CASE joins' = [joins EXCEPT ![h] = Home!Free]
    BY <2>1 DEF HomeTypes, Home!TypeOK
  <2>2. CASE r.left > 1 /\ joins' = [joins EXCEPT ![h].left = @ - 1]
    <3>1. r.left - 1 \in 1..MaxAttempts
      BY <1>1, <2>2, OneAttempt
    <3>2. [r EXCEPT !.left = r.left - 1] \in [user: Users, universe: universes, left: 1..MaxAttempts]
      BY <1>1, <3>1
    <3>3. joins' = [joins EXCEPT ![h] = [r EXCEPT !.left = r.left - 1]]
      BY <2>2
    <3> QED
      BY <3>2, <3>3 DEF HomeTypes, Home!TypeOK
  <2> QED
    BY <1>6, <2>1, <2>2
<1> QED
  BY <1>1, <1>2, <1>4, <1>5, <1>7 DEF HomeTypes, Home!TypeOK, Home!Free, Home!NoUniverse, NoUniverse

LEMMA HomeTypesInit == Home!Init => HomeTypes
BY DEF Home!Init, HomeTypes, Home!TypeOK

LEMMA HomeTypesNext == HomeTypes /\ [Home!Next]_homeworldVars => HomeTypes'
<1> USE DEF Home!Free, Home!NoUniverse
<1> SUFFICES ASSUME HomeTypes, [Home!Next]_homeworldVars PROVE HomeTypes'
  OBVIOUS
<1>1. CASE UNCHANGED homeworldVars
  BY <1>1 DEF homeworldVars, HomeTypes, Home!TypeOK
<1>2. ASSUME NEW v \in Universes, Home!EnsureDefaultUniverse(v) PROVE HomeTypes'
  BY <1>2 DEF Home!EnsureDefaultUniverse, HomeTypes, Home!TypeOK
<1>3. ASSUME NEW h \in Handlers, Home!AttemptFailed(h) PROVE HomeTypes'
  BY <1>3 DEF Home!AttemptFailed, Home!Answer, Home!Finish, HomeTypes, Home!TypeOK
<1>4. ASSUME NEW h \in Handlers, NEW u \in Users, NEW v \in Universes,
             Home!JoinStart(h, u, v) \/ Home!TerminalJoin(h, u, v)
      PROVE HomeTypes'
  <2>1. terminal' \in [Users -> {"off", "listed", "in", "failed"} \cup Handlers]
    BY <1>4 DEF Home!JoinStart, Home!TerminalJoin, HomeTypes, Home!TypeOK
  <2> QED
    BY <1>4, <2>1, HomeTypesBegin DEF Home!JoinStart, Home!TerminalJoin
<1>5. ASSUME NEW u \in Users,
             \/ Home!ListPlanets(u) \/ Home!TerminalQuit(u)
             \/ \E v \in Universes : Home!TerminalRefused(u, v)
      PROVE HomeTypes'
  <2>1. \E x \in {"off", "listed", "in", "failed"} : terminal' = [terminal EXCEPT ![u] = x]
    BY <1>5 DEF Home!ListPlanets, Home!TerminalQuit, Home!TerminalRefused
  <2>2. UNCHANGED <<universes, planets, currentUniverse, joins>>
    BY <1>5 DEF Home!ListPlanets, Home!TerminalQuit, Home!TerminalRefused
  <2> QED
    BY <2>1, <2>2 DEF HomeTypes, Home!TypeOK
<1> QED
  BY <1>1, <1>2, <1>3, <1>4, <1>5, HomeTypesAttempt DEF Home!Next, Home!Work, Home!Attempts

\* A planet lies in a known universe and belongs to an account, and a join never
\* runs past its limit of attempts (svc/universe.go:99-195).
THEOREM HomeworldsTypeCorrect == Home!Spec => []Home!TypeOK
<1>1. HomeTypes => Home!TypeOK
  BY DEF HomeTypes
<1>2. Home!Spec => Home!Init /\ [][Home!Next]_homeworldVars
  BY DEF Home!Spec, Home!homeworldVars, homeworldVars
<1> QED
  BY <1>1, <1>2, HomeTypesInit, HomeTypesNext, PTL

(***************************************************************************)
(* The technology tree                                                     *)
(***************************************************************************)

\* What anybody asks for, at the highest level anybody asks.
AskedLevel ==
  [research_lab |-> 7, shipyard |-> 9, robotics_factory |-> 10, deuterium_synthesizer |-> 5,
   nanite_factory |-> 1, energy |-> 12, laser |-> 12, ion |-> 5, hyperspace |-> 5,
   plasma |-> 7, computer |-> 10, espionage |-> 4, combustion_drive |-> 6,
   impulse_drive |-> 6, hyperspace_drive |-> 6, weapons |-> 3, shielding |-> 6, armour |-> 2]

Modest(r) == r[1] \in DOMAIN AskedLevel /\ r[2] \in Nat /\ r[2] <= AskedLevel[r[1]]

LEMMA AskedModest == \A r \in Asked : Modest(r)
<1>1. ASSUME NEW y \in Techs, NEW r \in TechPrerequisites[y] PROVE Modest(r)
  BY DEF Techs, ResearchCosts, TechPrerequisites, Modest, AskedLevel
<1>2. ASSUME NEW y \in Buildings, NEW r \in BuildingPrerequisites(y) PROVE Modest(r)
  BY DEF BuildingPrerequisites, Modest, AskedLevel
<1>3. ASSUME NEW y \in DOMAIN ShipPrerequisites, NEW r \in ShipPrerequisites[y] PROVE Modest(r)
  BY DEF ShipPrerequisites, Modest, AskedLevel
<1>4. ASSUME NEW y \in DOMAIN DefensePrerequisites, NEW r \in DefensePrerequisites[y]
      PROVE  Modest(r)
  BY DEF DefensePrerequisites, Modest, AskedLevel
<1> QED
  BY <1>1, <1>2, <1>3, <1>4 DEF Asked, Requires, Items, Producible

\* The highest level anybody asks for of an item that is no store.
Top(x) == IF x \in DOMAIN AskedLevel THEN AskedLevel[x] ELSE 1

LEMMA SoughtBelowTop ==
  ASSUME NEW x \in Items \ Stores, level[x] \in Nat, Sought(x)
  PROVE  level[x] < Top(x)
<1>1. \A y \in DOMAIN AskedLevel : AskedLevel[y] \in Nat /\ AskedLevel[y] > 0
  BY DEF AskedLevel
<1>2. CASE level[x] = 0
  BY <1>1, <1>2 DEF Top
<1>3. ASSUME NEW r \in Asked, r[1] = x, level[x] < r[2] PROVE level[x] < Top(x)
  BY <1>1, <1>3, AskedModest DEF Top, Modest
<1> QED
  BY <1>2, <1>3 DEF Sought

\* The powers that prices are made of, opaque to the provers.
Double(e) == 2^e
One(e) == 1^e

DoubleOK(e) ==
  /\ Double(e) \in Nat /\ One(e) = 1
  /\ e = 0 => Double(e) = 1
  /\ e <= 6 => Double(e) <= 64
  /\ e <= 9 => Double(e) <= 512
  /\ e <= 11 => Double(e) <= 2048

LEMMA Doublings == \A e \in 0..12 : DoubleOK(e)
<1>1. DoubleOK(0) /\ DoubleOK(1) /\ DoubleOK(2) /\ DoubleOK(3)
  BY DEF DoubleOK, Double, One
<1>2. DoubleOK(4) /\ DoubleOK(5) /\ DoubleOK(6) /\ DoubleOK(7)
  BY DEF DoubleOK, Double, One
<1>3. DoubleOK(8) /\ DoubleOK(9) /\ DoubleOK(10) /\ DoubleOK(11) /\ DoubleOK(12)
  BY DEF DoubleOK, Double, One
<1> QED
  BY <1>1, <1>2, <1>3

\* A store's own next level, in units of what the first costs.
LEMMA StoreFits == \A l \in 0..12 : 1000 * Double(l) <= StorageCapacity(l)
<1> DEFINE P(l) == 1000 * Double(l) <= StorageCapacity(l)
<1>1. P(0) /\ P(1) /\ P(2) /\ P(3)
  BY DEF StorageCapacity, Double
<1>2. P(4) /\ P(5) /\ P(6) /\ P(7)
  BY DEF StorageCapacity, Double
<1>3. P(8) /\ P(9) /\ P(10) /\ P(11) /\ P(12)
  BY DEF StorageCapacity, Double
<1> HIDE DEF P
<1>4. \A l \in 0..12 : P(l)
  BY <1>1, <1>2, <1>3
<1> QED
  BY <1>4 DEF P

LEMMA CapacityGrows ==
  /\ \A l \in 0..12 : StorageCapacity(l) \in Nat /\ StorageCapacity(l) <= StorageCapacity(l + 1)
  /\ \A g \in 9..13 : StorageCapacity(g) \in Nat /\ StorageCapacity(g) >= 2920000
                      /\ \A l \in 0..g : StorageCapacity(l) <= StorageCapacity(g)
BY DEF StorageCapacity

\* What a level's price is at most, in units of the first level's.
Multiple(x) == IF Top(x) = 1 THEN 1 ELSE IF Top(x) <= 7 THEN 64 ELSE IF Top(x) <= 10 THEN 512 ELSE 2048
FirstCost(x) == IF x \in Buildings THEN BuildingCosts[x] ELSE ResearchCosts[x]

LEMMA FirstCostsFit ==
  ASSUME NEW x \in Items \ Stores, NEW i \in 1..3
  PROVE  FirstCost(x)[i] \in Nat /\ FirstCost(x)[i] * Multiple(x) <= 2920000
<1>1. CASE x \in Buildings
  BY <1>1 DEF FirstCost, Multiple, Top, AskedLevel, Buildings, BuildingCosts, Stores
<1>2. CASE x \in Techs /\ x \notin Buildings
  BY <1>2 DEF FirstCost, Multiple, Top, AskedLevel, Techs, ResearchCosts
<1> QED
  BY <1>1, <1>2 DEF Items

\* No price asked for passes 584 steps of 5000, the capacity at level 9.
LEMMA PricesFit ==
  ASSUME NEW x \in Items \ Stores, NEW l \in Nat, l < Top(x), NEW i \in 1..3
  PROVE  LevelCost(x, l + 1)[i] \in Int /\ LevelCost(x, l + 1)[i] <= 2920000
<1>0. l \in 0..11 /\ (l + 1) - 1 = l /\ Top(x) \in Nat
  BY DEF Top, AskedLevel
<1>1. FirstCost(x)[i] \in Nat /\ FirstCost(x)[i] * Multiple(x) <= 2920000
  BY FirstCostsFit
<1>2. LevelCost(x, l + 1)[i] = (FirstCost(x)[i] * Factor(x)[1]^l) \div Factor(x)[2]^l
  BY <1>0 DEF LevelCost, FirstCost
<1>3. CASE x \in DOMAIN AskedLevel /\ x # "deuterium_synthesizer"
  <2>1. Factor(x) = <<2, 1>>
    BY <1>3 DEF Factor, AskedLevel
  <2> DEFINE p == Double(l)
             c == FirstCost(x)[i]
             m == Multiple(x)
  <2>2. LevelCost(x, l + 1)[i] = (c * p) \div One(l)
    BY <1>2, <2>1 DEF Double, One
  <2>3. p \in Nat /\ One(l) = 1 /\ p <= m
    <3> DEFINE t == Top(x)
    <3>1. DoubleOK(l) /\ t \in Nat /\ l < t /\ l \in 0..11
      BY <1>0, Doublings
    <3>2. m = IF t = 1 THEN 1 ELSE IF t <= 7 THEN 64 ELSE IF t <= 10 THEN 512 ELSE 2048
      BY DEF Multiple
    <3> HIDE DEF t, m
    <3> QED
      BY <3>1, <3>2 DEF DoubleOK
  <2>4. m \in Nat
    BY DEF Multiple
  <2>5. LevelCost(x, l + 1)[i] = c * p
    <3>1. c * p \in Int
      BY <1>1, <2>3
    <3> HIDE DEF p, c
    <3> QED
      BY <2>2, <2>3, <3>1 DEF p, c
  <2>6. c \in Nat /\ p \in Nat /\ p <= m /\ c * m <= 2920000
    BY <1>1, <2>3
  <2> HIDE DEF p, c, m
  <2>7. c * p \in Int /\ c * m \in Int /\ c * p <= c * m
    BY <2>4, <2>6
  <2> QED
    BY <2>4, <2>5, <2>6, <2>7
<1>4. CASE x = "deuterium_synthesizer"
  <2>1. Factor(x) = <<3, 2>>
    BY <1>4 DEF Factor
  <2>2. l \in 0..4 /\ FirstCost(x)[i] <= 225
    BY <1>4 DEF Top, AskedLevel, FirstCost, Buildings, BuildingCosts
  <2>3. CASE l = 0
    BY <1>1, <1>2, <2>1, <2>2, <2>3
  <2>4. CASE l = 1
    BY <1>1, <1>2, <2>1, <2>2, <2>4
  <2>5. CASE l = 2
    BY <1>1, <1>2, <2>1, <2>2, <2>5
  <2>6. CASE l = 3
    BY <1>1, <1>2, <2>1, <2>2, <2>6
  <2>7. CASE l = 4
    BY <1>1, <1>2, <2>1, <2>2, <2>7
  <2> QED
    BY <2>2, <2>3, <2>4, <2>5, <2>6, <2>7
<1>5. CASE x \notin DOMAIN AskedLevel
  <2>1. l = 0 /\ Multiple(x) = 1
    BY <1>5 DEF Top, Multiple
  <2>2. Factor(x)[1]^l = 1 /\ Factor(x)[2]^l = 1
    <3>1. 1^0 = 1 /\ 2^0 = 1 /\ 3^0 = 1 /\ 4^0 = 1 /\ 5^0 = 1 /\ 7^0 = 1 /\ 8^0 = 1 /\ 9^0 = 1
      OBVIOUS
    <3>2. Factor(x)[1] \in {1, 2, 3, 7, 8, 9} /\ Factor(x)[2] \in {1, 2, 4, 5}
      BY DEF Factor
    <3> QED
      BY <2>1, <3>1, <3>2
  <2> QED
    BY <1>1, <1>2, <2>1, <2>2
<1> QED
  BY <1>3, <1>4, <1>5

\* A state in which nothing can be advanced.
Stuck == \A x \in Items : ~CanAdvance(x)
Levels == level \in [Items -> Nat] /\ \A s \in Stores : level[s] <= StorageGoal

LEMMA StoresReached ==
  ASSUME Levels, Stuck
  PROVE  \A s \in Stores : level[s] = StorageGoal
<1>0. StorageGoal \in 9..13 /\ \A s \in Stores : s \in Items /\ level[s] \in 0..StorageGoal
  BY StorageGoalAssumption DEF Levels, Stores, Items, Buildings, BuildingCosts
<1>1. \A s \in Stores : Unlocked(s) /\ Sought(s) = (level[s] < StorageGoal)
  BY DEF Stores, Unlocked, Requires, Buildings, BuildingCosts, BuildingPrerequisites, Sought
<1> DEFINE cost(s, i) == LevelCost(s, level[s] + 1)[i]
<1>2. ASSUME NEW s \in Stores, level[s] < StorageGoal, NEW i \in 1..3
      PROVE  /\ cost(s, i) <= StorageCapacity(level[s])
             /\ cost(s, i) <= StorageCapacity(StorageGoal)
             /\ BuildingCosts[s][i] = 0 => cost(s, i) = 0
  <2>1. level[s] \in 0..12 /\ (level[s] + 1) - 1 = level[s] /\ Factor(s) = <<2, 1>>
        /\ s \in Buildings
    BY <1>0, <1>2 DEF Stores, Factor, Buildings, BuildingCosts
  <2>2. BuildingCosts[s][i] \in 0..1000
    BY <1>2 DEF Stores, BuildingCosts
  <2> DEFINE p == Double(level[s])
             b == BuildingCosts[s][i]
             c == b * p
  <2>3. p \in Nat /\ One(level[s]) = 1
    BY <2>1, Doublings DEF DoubleOK
  <2>4. cost(s, i) = c \div One(level[s])
    BY <2>1 DEF LevelCost, Double, One
  <2>5. 1000 * p <= StorageCapacity(level[s])
    BY <2>1, StoreFits
  <2>6. StorageCapacity(level[s]) <= StorageCapacity(StorageGoal)
        /\ StorageCapacity(level[s]) \in Nat /\ StorageCapacity(StorageGoal) \in Nat
    BY <1>0, <1>2, <2>1, CapacityGrows
  <2> HIDE DEF p
  <2>7. b \in 0..1000 /\ cost(s, i) = c \div 1
    BY <2>2, <2>3, <2>4
  <2> HIDE DEF b
  <2>8. c \in Nat /\ c <= 1000 * p /\ (b = 0 => c = 0)
    BY <2>3, <2>7
  <2> HIDE DEF c
  <2>9. c \div 1 = c
    BY <2>8
  <2>10. 1000 * p \in Nat
    BY <2>3
  <2> QED
    BY <2>5, <2>6, <2>7, <2>8, <2>9, <2>10 DEF b
<1> HIDE DEF cost
<1>3. ASSUME NEW s \in Stores, level[s] < StorageGoal,
             cost(s, 1) <= StorageCapacity(level["metal_storage"]),
             cost(s, 2) <= StorageCapacity(level["crystal_storage"]),
             cost(s, 3) <= StorageCapacity(level["deuterium_tank"])
      PROVE  FALSE
  <2>1. Fits(LevelCost(s, level[s] + 1))
    BY <1>3 DEF Fits, cost
  <2> QED
    BY <1>0, <1>1, <1>3, <2>1 DEF Stuck, CanAdvance, Buildable
<1>4. \A s \in Stores : StorageCapacity(level[s]) \in Nat
  BY <1>0, CapacityGrows
<1>5. level["metal_storage"] = StorageGoal
  <2> DEFINE s == "metal_storage"
  <2>1. s \in Stores /\ BuildingCosts[s] = <<1000, 0, 0>>
    BY DEF Stores, BuildingCosts
  <2>2. CASE level[s] < StorageGoal
    <3>1. cost(s, 1) <= StorageCapacity(level[s]) /\ cost(s, 2) = 0 /\ cost(s, 3) = 0
      BY <1>2, <2>1, <2>2
    <3>2. StorageCapacity(level["crystal_storage"]) >= 0
          /\ StorageCapacity(level["deuterium_tank"]) >= 0
      BY <1>4 DEF Stores
    <3> QED
      BY <1>3, <2>1, <2>2, <3>1, <3>2
  <2> QED
    BY <1>0, <2>1, <2>2
<1>6. level["crystal_storage"] = StorageGoal
  <2> DEFINE s == "crystal_storage"
  <2>1. s \in Stores /\ BuildingCosts[s] = <<1000, 500, 0>>
    BY DEF Stores, BuildingCosts
  <2>2. CASE level[s] < StorageGoal
    <3>1. /\ cost(s, 1) <= StorageCapacity(StorageGoal)
          /\ cost(s, 2) <= StorageCapacity(level[s])
          /\ cost(s, 3) = 0
      BY <1>2, <2>1, <2>2
    <3>2. StorageCapacity(level["deuterium_tank"]) >= 0
      BY <1>4 DEF Stores
    <3> QED
      BY <1>3, <1>5, <2>1, <2>2, <3>1, <3>2
  <2> QED
    BY <1>0, <2>1, <2>2
<1>7. level["deuterium_tank"] = StorageGoal
  <2> DEFINE s == "deuterium_tank"
  <2>1. s \in Stores
    BY DEF Stores
  <2>2. CASE level[s] < StorageGoal
    <3>1. /\ cost(s, 1) <= StorageCapacity(StorageGoal)
          /\ cost(s, 2) <= StorageCapacity(StorageGoal)
          /\ cost(s, 3) <= StorageCapacity(level[s])
      BY <1>2, <2>1, <2>2
    <3> QED
      BY <1>3, <1>5, <1>6, <2>1, <2>2, <3>1
  <2> QED
    BY <1>0, <2>1, <2>2
<1> QED
  BY <1>5, <1>6, <1>7 DEF Stores

LEMMA AskedAreItems == DOMAIN AskedLevel \subseteq Items \ Stores
<1>1. \A x \in DOMAIN AskedLevel : x \in Buildings \/ x \in Techs
  BY DEF AskedLevel, Buildings, BuildingCosts, Techs, ResearchCosts
<1>2. \A x \in DOMAIN AskedLevel : x \notin Stores
  BY DEF AskedLevel, Stores
<1> QED
  BY <1>1, <1>2 DEF Items

\* What nobody seeks any more is at every level asked of it.
LEMMA Reached ==
  ASSUME Levels, NEW r \in Asked, ~Sought(r[1])
  PROVE  level[r[1]] >= r[2]
<1>1. r[1] \in Items \ Stores /\ r[2] \in Nat
  BY AskedModest, AskedAreItems DEF Modest
<1> QED
  BY <1>1 DEF Levels, Sought

\* Past the stores, only a prerequisite can hold anything back, ...
LEMMA HeldBack ==
  ASSUME Levels, Stuck, NEW x \in Items \ Stores, \A r \in Requires(x) : ~Sought(r[1])
  PROVE  ~Sought(x)
<1> SUFFICES ASSUME Sought(x) PROVE FALSE
  OBVIOUS
<1>1. level[x] \in Nat /\ level[x] < Top(x)
  BY SoughtBelowTop DEF Levels
<1>2. Fits(LevelCost(x, level[x] + 1))
  <2>1. \A i \in 1..3 : LevelCost(x, level[x] + 1)[i] \in Int
                        /\ LevelCost(x, level[x] + 1)[i] <= 2920000
    BY <1>1, PricesFit
  <2>2. StorageCapacity(StorageGoal) >= 2920000 /\ StorageCapacity(StorageGoal) \in Nat
    BY StorageGoalAssumption, CapacityGrows
  <2>3. \A i \in 1..3 : LevelCost(x, level[x] + 1)[i] <= StorageCapacity(StorageGoal)
    BY <2>1, <2>2
  <2> QED
    BY <2>3, StoresReached DEF Fits, Stores
<1>3. Unlocked(x)
  <2>1. Requires(x) \subseteq Asked
    BY DEF Asked
  <2> QED
    BY <2>1, Reached DEF Unlocked
<1> QED
  BY <1>2, <1>3 DEF Stuck, CanAdvance, Buildable

\* ... and along the prerequisites nothing is held back.
LEMMA NothingSought ==
  ASSUME Levels, Stuck
  PROVE  \A x \in Items : ~Sought(x)
<1>1. \A s \in Stores : ~Sought(s)
  <2>1. \A s \in Stores : level[s] = StorageGoal /\ StorageGoal \in 9..13
    BY StoresReached, StorageGoalAssumption
  <2> QED
    BY <2>1 DEF Sought
<1>2. ASSUME NEW x \in Buildings \ Stores,
             x \notin {"fusion_reactor", "shipyard", "missile_silo", "nanite_factory", "terraformer"}
      PROVE  ~Sought(x)
  <2>1. Requires(x) = {}
    BY <1>2 DEF Requires, BuildingPrerequisites
  <2> QED
    BY <2>1, HeldBack DEF Items
<1> DEFINE Settled == {x \in Items : ~Sought(x)}
<1>3. {"research_lab", "robotics_factory", "deuterium_synthesizer"} \subseteq Settled
  BY <1>2 DEF Items, Buildings, BuildingCosts, Stores
\* Each item asks only for items settled before it.
<1>4. ASSUME NEW x \in Items \ Stores, NEW S \in SUBSET Settled, \A r \in Requires(x) : r[1] \in S
      PROVE  x \in Settled
  BY <1>4, HeldBack
<1>5. ASSUME NEW t \in Techs PROVE t \in Items \ Stores /\ Requires(t) = TechPrerequisites[t]
  BY DEF Items, Techs, ResearchCosts, Stores, Requires, Buildings, BuildingCosts
<1> HIDE DEF Settled
<1> DEFINE Ready(t) == \A r \in TechPrerequisites[t] : r[1] \in Settled
<1>5a. ASSUME NEW t \in Techs, Ready(t) PROVE t \in Settled
  BY <1>4, <1>5, <1>5a
<1>5b. Techs = {"energy", "computer", "espionage", "weapons", "armour", "laser",
               "shielding", "astrophysics", "combustion_drive", "impulse_drive",
               "ion", "hyperspace", "plasma", "hyperspace_drive"}
  BY DEF Techs, ResearchCosts
<1>6. "energy" \in Settled /\ "computer" \in Settled
      /\ "espionage" \in Settled /\ "weapons" \in Settled /\ "armour" \in Settled
  <2>1. Ready("energy") /\ Ready("computer")
    BY <1>3, <1>5b DEF TechPrerequisites
  <2>2. Ready("espionage") /\ Ready("weapons") /\ Ready("armour")
    BY <1>3, <1>5b DEF TechPrerequisites
  <2> QED
    BY <2>1, <2>2, <1>5a, <1>5b
<1>7. "laser" \in Settled /\ "shielding" \in Settled /\ "astrophysics" \in Settled
      /\ "combustion_drive" \in Settled /\ "impulse_drive" \in Settled
  <2>1. Ready("laser") /\ Ready("shielding") /\ Ready("astrophysics")
    BY <1>3, <1>6, <1>5b DEF TechPrerequisites
  <2>2. Ready("combustion_drive") /\ Ready("impulse_drive")
    BY <1>3, <1>6, <1>5b DEF TechPrerequisites
  <2> QED
    BY <2>1, <2>2, <1>5a, <1>5b
<1>8. "ion" \in Settled /\ "hyperspace" \in Settled
  <2>1. Ready("ion") /\ Ready("hyperspace")
    BY <1>3, <1>6, <1>7, <1>5b DEF TechPrerequisites
  <2> QED
    BY <2>1, <1>5a, <1>5b
<1>9. "plasma" \in Settled /\ "hyperspace_drive" \in Settled
  <2>1. Ready("plasma") /\ Ready("hyperspace_drive")
    BY <1>3, <1>6, <1>7, <1>8, <1>5b DEF TechPrerequisites
  <2> QED
    BY <2>1, <1>5a, <1>5b
<1>10. Techs \subseteq Settled
  BY <1>6, <1>7, <1>8, <1>9 DEF Techs, ResearchCosts
<1>11. ASSUME NEW x \in Buildings \ Stores
       PROVE  x \in Items \ Stores /\ Requires(x) = BuildingPrerequisites(x)
  BY DEF Items, Requires
<1>12. {"fusion_reactor", "shipyard", "nanite_factory"} \subseteq Settled
  BY <1>3, <1>4, <1>6, <1>11 DEF BuildingPrerequisites, Buildings, BuildingCosts, Stores
<1>13. {"missile_silo", "terraformer"} \subseteq Settled
  BY <1>4, <1>6, <1>11, <1>12 DEF BuildingPrerequisites, Buildings, BuildingCosts, Stores
<1> QED
  BY <1>1, <1>2, <1>10, <1>12, <1>13 DEF Items, Settled

Cheap(c) ==
  /\ c[1] \in Nat /\ c[1] <= 60000
  /\ c[2] \in Nat /\ c[2] <= 60000
  /\ c[3] \in Nat /\ c[3] <= 60000

LEMMA UnitsAreCheap == \A u \in Producible : Cheap(UnitCost(u))
<1>1. DOMAIN ShipPrerequisites \subseteq DOMAIN ShipStats
  BY DEF ShipPrerequisites, ShipStats
<1>2. DOMAIN DefensePrerequisites \subseteq DOMAIN DefenseStats
  BY DEF DefensePrerequisites, DefenseStats
<1>3. ASSUME NEW u \in DOMAIN ShipStats PROVE Cheap(ShipStats[u].cost)
  BY DEF ShipStats, Profile, Cheap
<1>4. ASSUME NEW u \in DOMAIN DefenseStats PROVE Cheap(DefenseStats[u].cost)
  BY DEF DefenseStats, Profile, Cheap
<1> QED
  BY <1>1, <1>2, <1>3, <1>4 DEF Producible, UnitCost

\* A hull or a defence asks for settled items, and costs less than the stores hold.
LEMMA NoDeadEnd == ASSUME Levels PROVE EverythingReachable
<1> SUFFICES ASSUME Stuck
             PROVE  \A u \in Producible : Unlocked(u) /\ Fits(UnitCost(u))
  BY NothingSought DEF EverythingReachable, Stuck
<1> TAKE u \in Producible
<1>1. Unlocked(u)
  <2>1. Requires(u) \subseteq Asked
    BY DEF Asked
  <2>2. \A r \in Asked : ~Sought(r[1])
    BY NothingSought, AskedModest, AskedAreItems DEF Modest
  <2> QED
    BY <2>1, <2>2, Reached DEF Unlocked
<1>2. Cheap(UnitCost(u))
  BY UnitsAreCheap
<1>3. StorageCapacity(StorageGoal) >= 2920000 /\ StorageCapacity(StorageGoal) \in Nat
  BY StorageGoalAssumption, CapacityGrows
<1>4. Fits(UnitCost(u))
  BY <1>2, <1>3, StoresReached DEF Fits, Stores, Cheap
<1> QED
  BY <1>1, <1>4

-----------------------------------------------------------------------------

\* The tables as the instance of Progress sees them.
LEMMA SameTables ==
  /\ Prog!Items = Items /\ Prog!Stores = Stores /\ Prog!Producible = Producible
  /\ \A y : Prog!Requires(y) = Requires(y)
  /\ \A y, n : Prog!LevelCost(y, n) = LevelCost(y, n)
  /\ \A n : Prog!StorageCapacity(n) = StorageCapacity(n)
<1>1. Prog!BuildingCosts = BuildingCosts /\ Prog!ResearchCosts = ResearchCosts
  BY DEF Prog!BuildingCosts, BuildingCosts, Prog!ResearchCosts, ResearchCosts
<1>2. Prog!Buildings = Buildings /\ Prog!Techs = Techs
  BY <1>1 DEF Prog!Buildings, Buildings, Prog!Techs, Techs
<1>3. Prog!TechPrerequisites = TechPrerequisites
      /\ Prog!ShipPrerequisites = ShipPrerequisites
      /\ Prog!DefensePrerequisites = DefensePrerequisites
  BY DEF Prog!TechPrerequisites, TechPrerequisites, Prog!ShipPrerequisites, ShipPrerequisites,
     Prog!DefensePrerequisites, DefensePrerequisites
<1>4. \A y : Prog!BuildingPrerequisites(y) = BuildingPrerequisites(y)
  BY DEF Prog!BuildingPrerequisites, BuildingPrerequisites
<1>5. \A y : Prog!Requires(y) = Requires(y)
  BY <1>2, <1>3, <1>4 DEF Prog!Requires, Requires
<1>6. \A y : Prog!Factor(y) = Factor(y)
  BY DEF Prog!Factor, Factor
<1>7. \A y, n : Prog!LevelCost(y, n) = LevelCost(y, n)
  BY <1>1, <1>2, <1>6 DEF Prog!LevelCost, LevelCost
<1>8. \A n : Prog!StorageCapacity(n) = StorageCapacity(n)
  BY DEF Prog!StorageCapacity, StorageCapacity
<1>9. Prog!Items = Items /\ Prog!Stores = Stores /\ Prog!Producible = Producible
  BY <1>2, <1>3 DEF Prog!Items, Items, Prog!Stores, Stores, Prog!Producible, Producible
<1> QED
  BY <1>5, <1>7, <1>8, <1>9

LEMMA SameBuildable == ASSUME NEW x PROVE Prog!Buildable(x) <=> Buildable(x)
<1>1. Prog!Unlocked(x) <=> Unlocked(x)
  BY SameTables DEF Prog!Unlocked, Unlocked
<1>2. Prog!Fits(LevelCost(x, level[x] + 1)) <=> Fits(LevelCost(x, level[x] + 1))
  BY SameTables DEF Prog!Fits, Fits
<1> QED
  BY <1>1, <1>2, SameTables DEF Prog!Buildable, Buildable

LEMMA SameAdvance == ASSUME NEW x PROVE Prog!CanAdvance(x) <=> CanAdvance(x)
<1>1. Prog!Asked = Asked
  BY SameTables DEF Prog!Asked, Asked
<1>2. Prog!Sought(x) <=> Sought(x)
  BY <1>1, SameTables DEF Prog!Sought, Sought
<1> QED
  BY <1>2, SameBuildable DEF Prog!CanAdvance, CanAdvance

\* In one step some of what can be advanced gains a level.
Raised ==
  /\ level' \in [Items -> Nat]
  /\ \A x \in Items : level'[x] = level[x] \/ (CanAdvance(x) /\ level'[x] = level[x] + 1)

LEMMA DevelopRaises == ASSUME Levels, Prog!Develop PROVE Raised
<1>1. level' = [x \in Items |-> IF x \in Prog!Ready THEN level[x] + 1 ELSE level[x]]
  BY SameTables DEF Prog!Develop
<1>2. \A x \in Prog!Ready : CanAdvance(x)
  BY SameAdvance DEF Prog!Ready
<1> QED
  BY <1>1, <1>2 DEF Raised, Levels

LEMMA AdvanceRaises ==
  ASSUME Levels, NEW x \in Prog!Items, Prog!Advance(x) PROVE Raised
<1>1. x \in Items /\ CanAdvance(x) /\ level' = [level EXCEPT ![x] = @ + 1]
  BY SameTables, SameAdvance DEF Prog!Advance
<1> QED
  BY <1>1 DEF Raised, Levels

\* Every parent of the drawn tree is among what the tables ask for.
LEMMA ParentsAreAsked ==
  \A t \in DOMAIN TechTreeParent :
    /\ t \in Items /\ TechTreeParent[t] \in Items
    /\ \E r \in Requires(t) : r[1] = TechTreeParent[t] /\ r[2] \in Nat /\ r[2] > 0
<1>1. ASSUME NEW t \in DOMAIN TechTreeParent
      PROVE  t \in Techs /\ t \notin Buildings /\ TechTreeParent[t] \in Techs
  BY DEF TechTreeParent, Techs, ResearchCosts, Buildings, BuildingCosts
<1>2. ASSUME NEW t \in DOMAIN TechTreeParent
      PROVE  \E r \in TechPrerequisites[t] :
                r[1] = TechTreeParent[t] /\ r[2] \in Nat /\ r[2] > 0
  <2> DEFINE Asks(p, n) == <<p, n>> \in TechPrerequisites[t] /\ p = TechTreeParent[t]
  <2>1. \/ Asks("energy", 2) \/ Asks("laser", 5) \/ Asks("ion", 5) \/ Asks("energy", 5)
        \/ Asks("energy", 1) \/ Asks("energy", 3) \/ Asks("hyperspace", 3)
        \/ Asks("espionage", 4)
    BY DEF TechTreeParent, TechPrerequisites
  <2> QED
    BY <2>1
<1> QED
  BY <1>1, <1>2 DEF Items, Requires

TreeInv == Levels /\ Prog!TypeOK /\ ParentFirst

LEMMA TreeInit == Prog!Init => TreeInv
<1> SUFFICES ASSUME Prog!Init PROVE TreeInv
  OBVIOUS
<1>1. level = [x \in Items |-> 0]
  BY SameTables DEF Prog!Init
<1>2. \A s \in Stores : level[s] <= StorageGoal
  BY <1>1, StorageGoalAssumption DEF Stores, Items, Buildings, BuildingCosts
<1>3. ParentFirst
  BY <1>1, ParentsAreAsked DEF ParentFirst
<1> QED
  BY <1>1, <1>2, <1>3, SameTables DEF TreeInv, Levels, Prog!TypeOK

LEMMA TreeStep == ASSUME TreeInv, Raised PROVE TreeInv'
<1>1. ASSUME NEW x \in Items
      PROVE  level'[x] \in Nat /\ level'[x] <= 20 /\ (x \in Stores => level'[x] <= StorageGoal)
  <2>1. level[x] \in 0..20
    BY SameTables DEF TreeInv, Prog!TypeOK
  <2>2. Sought(x) /\ x \notin Stores => level[x] < 20
    BY <2>1, SoughtBelowTop DEF Top, AskedLevel
  <2>3. Sought(x) /\ x \in Stores => level[x] < StorageGoal
    BY DEF Sought
  <2> QED
    BY <2>1, <2>2, <2>3, StorageGoalAssumption DEF Raised, CanAdvance, TreeInv, Levels
<1>2. Levels' /\ Prog!TypeOK'
  <2>1. Stores \subseteq Items
    BY DEF Stores, Items, Buildings, BuildingCosts
  <2>2. level' \in [Items -> Nat]
    BY DEF Raised
  <2> QED
    BY <1>1, <2>1, <2>2, SameTables DEF Levels, Prog!TypeOK
<1>3. ASSUME NEW t \in DOMAIN TechTreeParent, level'[t] > 0
      PROVE  level'[TechTreeParent[t]] > 0
  <2> DEFINE p == TechTreeParent[t]
  <2>1. t \in Items /\ p \in Items /\ level \in [Items -> Nat]
    BY ParentsAreAsked DEF TreeInv, Levels
  <2>2. level[p] > 0
    <3>1. CASE level[t] > 0
      BY <3>1 DEF TreeInv, ParentFirst
    <3>2. CASE CanAdvance(t)
      <4>1. PICK r \in Requires(t) : r[1] = p /\ r[2] \in Nat /\ r[2] > 0
        BY ParentsAreAsked
      <4>2. level[r[1]] >= r[2]
        BY <3>2 DEF CanAdvance, Buildable, Unlocked
      <4> QED
        BY <2>1, <4>1, <4>2
    <3> QED
      BY <1>3, <2>1, <3>1, <3>2 DEF Raised
  <2> HIDE DEF p
  <2>3. level'[p] > 0
    BY <2>1, <2>2 DEF Raised
  <2> QED
    BY <2>3 DEF p
<1> QED
  BY <1>2, <1>3 DEF TreeInv, ParentFirst

LEMMA TreeHolds == TreeInv => Prog!TypeOK /\ ParentFirst /\ EverythingReachable
BY NoDeadEnd DEF TreeInv

LEMMA TreeNext == TreeInv /\ [Prog!Next]_level => TreeInv'
<1>1. ASSUME TreeInv, Prog!Next PROVE TreeInv'
  BY <1>1, DevelopRaises, TreeStep DEF Prog!Next, TreeInv
<1>2. ASSUME TreeInv, level' = level PROVE TreeInv'
  BY <1>2 DEF TreeInv, Levels, Prog!TypeOK, ParentFirst
<1> QED
  BY <1>1, <1>2

LEMMA TreeAnyStep == TreeInv /\ [\E x \in Prog!Items : Prog!Advance(x)]_level => TreeInv'
<1>1. ASSUME TreeInv, NEW x \in Prog!Items, Prog!Advance(x) PROVE TreeInv'
  BY <1>1, AdvanceRaises, TreeStep DEF TreeInv
<1>2. ASSUME TreeInv, level' = level PROVE TreeInv'
  BY <1>2 DEF TreeInv, Levels, Prog!TypeOK, ParentFirst
<1> QED
  BY <1>1, <1>2

\* No research is ever begun before the parent the client draws it under
\* (game/tech_tree.go:9), whatever the stores allow.
THEOREM ParentFirstHolds == Prog!Spec => []ParentFirst
BY TreeInit, TreeNext, TreeHolds, PTL DEF Prog!Spec

\* The tables have no dead end (game/constants.go:376): when nothing is left to
\* advance, everything is unlocked and affordable.
THEOREM EverythingReachableHolds == Prog!Spec => []EverythingReachable
BY TreeInit, TreeNext, TreeHolds, PTL DEF Prog!Spec

\* And a player cannot build himself into a dead end: one level at a time, in
\* whatever order he chooses (svc/build.go:92, svc/research.go:48), both stay true.
THEOREM NoOrderIsADeadEnd == Prog!AnyOrder => [](ParentFirst /\ EverythingReachable)
BY TreeInit, TreeAnyStep, TreeHolds, PTL DEF Prog!AnyOrder

\* Nothing is worth a level above twenty, all at once or in any order
\* (game/constants.go:376).
THEOREM LevelsTypeCorrect == Prog!Spec \/ Prog!AnyOrder => []Prog!TypeOK
BY TreeInit, TreeNext, TreeAnyStep, TreeHolds, PTL DEF Prog!Spec, Prog!AnyOrder

(***************************************************************************)
(* The economy                                                             *)
(***************************************************************************)

LEMMA NatSets ==
  ASSUME NEW S, 0 \in S, \A n \in Nat : n \in S => n + 1 \in S
  PROVE  Nat \subseteq S
<1> DEFINE Bad == Nat \ S
<1> SUFFICES ASSUME Bad # {} PROVE FALSE
  OBVIOUS
<1>1. PICK n \in Bad : \A m \in Bad : ~(<<m, n>> \in OpToRel(<, Nat))
  <2>1. Bad \subseteq Nat
    OBVIOUS
  <2> HIDE DEF Bad
  <2> QED
    BY <2>1, WFMin, NatLessThanWellFounded, Zenon
<1>2. \A m \in Bad : ~(m < n)
  <2> SUFFICES ASSUME NEW m \in Bad, m < n PROVE FALSE
    OBVIOUS
  <2>1. m \in Nat /\ n \in Nat
    OBVIOUS
  <2>2. <<m, n>> \in OpToRel(<, Nat)
    BY <2>1, Zenon DEF OpToRel
  <2> QED
    BY <1>1, <2>2
<1>3. n \in Nat /\ n # 0 /\ n - 1 \in Nat /\ n - 1 < n
  OBVIOUS
<1>4. n - 1 \in S /\ (n - 1) + 1 = n
  BY <1>2, <1>3
<1> QED
  BY <1>3, <1>4

\* The first powers of b, up to the n-th.
Steps(b, n) == {g \in [0..n -> Nat] : g[0] = 1 /\ \A k \in 1..n : g[k] = b * g[k - 1]}

LEMMA StepsExist == ASSUME NEW b \in Nat PROVE \A n \in Nat : Steps(b, n) # {}
<1> DEFINE S == {n \in Nat : Steps(b, n) # {}}
<1>1. 0 \in S
  <2>1. [k \in 0..0 |-> 1] \in Steps(b, 0)
    BY DEF Steps
  <2> QED
    BY <2>1
<1>2. ASSUME NEW n \in Nat, n \in S PROVE n + 1 \in S
  <2>1. PICK g : g \in Steps(b, n)
    BY <1>2
  <2> DEFINE h == [k \in 0..(n + 1) |-> IF k = n + 1 THEN b * g[n] ELSE g[k]]
  <2>2. g \in [0..n -> Nat] /\ g[0] = 1 /\ \A k \in 1..n : g[k] = b * g[k - 1]
    BY <2>1 DEF Steps
  <2>3. b * g[n] \in Nat
    BY <2>2
  <2>4. h \in [0..(n + 1) -> Nat]
    BY <2>2, <2>3
  <2>5. h[0] = 1 /\ \A k \in 1..(n + 1) : h[k] = b * h[k - 1]
    BY <2>2
  <2>6. h \in Steps(b, n + 1)
    BY <2>4, <2>5 DEF Steps
  <2> QED
    BY <2>6
<1>3. Nat \subseteq S
  <2> HIDE DEF S
  <2> QED
    BY <1>1, <1>2, NatSets
<1> QED
  BY <1>3

LEMMA StepsAgree ==
  ASSUME NEW b \in Nat, NEW n \in Nat, NEW g \in Steps(b, n), NEW m \in Nat, NEW h \in Steps(b, m)
  PROVE  \A k \in Nat : k <= n /\ k <= m => g[k] = h[k]
<1> DEFINE S == {k \in Nat : k <= n /\ k <= m => g[k] = h[k]}
<1>1. 0 \in S
  BY DEF Steps
<1>2. ASSUME NEW k \in Nat, k \in S PROVE k + 1 \in S
  <2>1. k + 1 <= n /\ k + 1 <= m => g[k + 1] = b * g[k] /\ h[k + 1] = b * h[k]
    BY DEF Steps
  <2> QED
    BY <1>2, <2>1
<1>3. Nat \subseteq S
  <2> HIDE DEF S
  <2> QED
    BY <1>1, <1>2, NatSets
<1> QED
  BY <1>3

\* A recursive function is a CHOOSE: that there is something to choose is shown
\* by gluing the first powers together.
LEMMA PowerUnfolds ==
  ASSUME NEW b \in Nat
  PROVE  Eco!Power(b, 0) = 1 /\ \A n \in Nat : Eco!Power(b, n + 1) = b * Eco!Power(b, n)
<1> DEFINE G(n) == CHOOSE g : g \in Steps(b, n)
           q == [k \in Nat |-> G(k)[k]]
           p == CHOOSE p : p = [k \in Nat |-> IF k = 0 THEN 1 ELSE b * p[k - 1]]
<1>1. \A n \in Nat : G(n) \in Steps(b, n)
  BY StepsExist
<1>2. q[0] = 1
  BY <1>1 DEF Steps
<1>3. ASSUME NEW n \in Nat PROVE q[n + 1] = b * q[n]
  <2> DEFINE g == G(n + 1)
  <2>1. g \in Steps(b, n + 1) /\ G(n) \in Steps(b, n)
    BY <1>1
  <2>2. q[n + 1] = g[n + 1] /\ q[n] = G(n)[n]
    OBVIOUS
  <2> HIDE DEF g, G, q
  <2>3. g[n + 1] = b * g[n]
    BY <2>1 DEF Steps
  <2>4. g[n] = G(n)[n]
    BY <2>1, StepsAgree
  <2> QED
    BY <2>2, <2>3, <2>4
<1>4. q = [k \in Nat |-> IF k = 0 THEN 1 ELSE b * q[k - 1]]
  <2>1. \A k \in Nat : q[k] = IF k = 0 THEN 1 ELSE b * q[k - 1]
    <3> SUFFICES ASSUME NEW k \in Nat, k # 0 PROVE q[k] = b * q[k - 1]
      BY <1>2
    <3>1. k - 1 \in Nat /\ (k - 1) + 1 = k
      OBVIOUS
    <3> HIDE DEF q
    <3> QED
      BY <1>3, <3>1
  <2>2. q = [k \in Nat |-> q[k]]
    OBVIOUS
  <2> HIDE DEF q
  <2> QED
    BY <2>1, <2>2
<1>5. p = [k \in Nat |-> IF k = 0 THEN 1 ELSE b * p[k - 1]]
  <2> HIDE DEF q
  <2> QED
    BY <1>4
<1>6. \A n : Eco!Power(b, n) = p[n]
  BY DEF Eco!Power
<1> HIDE DEF p
<1>7. p[0] = 1
  BY <1>5
<1>8. \A n \in Nat : p[n + 1] = b * p[n]
  BY <1>5
<1> QED
  BY <1>6, <1>7, <1>8

LEMMA PowerType ==
  ASSUME NEW b \in Nat
  PROVE  \A n \in Nat : Eco!Power(b, n) \in Nat /\ (b > 0 => Eco!Power(b, n) > 0)
<1> DEFINE S == {n \in Nat : Eco!Power(b, n) \in Nat /\ (b > 0 => Eco!Power(b, n) > 0)}
<1>1. 0 \in S
  BY PowerUnfolds
<1>2. ASSUME NEW n \in Nat, n \in S PROVE n + 1 \in S
  <2> DEFINE p == Eco!Power(b, n)
  <2>1. Eco!Power(b, n + 1) = b * p
    BY PowerUnfolds
  <2>2. p \in Nat /\ (b > 0 => p > 0)
    BY <1>2
  <2> HIDE DEF p
  <2>3. b * p \in Nat /\ (b > 0 => b * p > 0)
    BY <2>2
  <2> QED
    BY <2>1, <2>3
<1>3. Nat \subseteq S
  <2> HIDE DEF S
  <2> QED
    BY <1>1, <1>2, NatSets
<1> QED
  BY <1>3

LEMMA EconomyTables ==
  /\ Eco!Buildings = Buildings /\ Eco!Techs = Techs
  /\ \A y : Eco!Requires(y) = Requires(y)
  /\ \A y, n : Eco!LevelCost(y, n) = LevelCost(y, n)
  /\ \A n : Eco!StorageCapacity(n) = StorageCapacity(n)
<1>1. Eco!BuildingCosts = BuildingCosts /\ Eco!ResearchCosts = ResearchCosts
  BY DEF Eco!BuildingCosts, BuildingCosts, Eco!ResearchCosts, ResearchCosts
<1>2. Eco!Buildings = Buildings /\ Eco!Techs = Techs
  BY <1>1 DEF Eco!Buildings, Buildings, Eco!Techs, Techs
<1>3. Eco!TechPrerequisites = TechPrerequisites
      /\ Eco!ShipPrerequisites = ShipPrerequisites
      /\ Eco!DefensePrerequisites = DefensePrerequisites
  BY DEF Eco!TechPrerequisites, TechPrerequisites, Eco!ShipPrerequisites, ShipPrerequisites,
     Eco!DefensePrerequisites, DefensePrerequisites
<1>4. \A y : Eco!BuildingPrerequisites(y) = BuildingPrerequisites(y)
  BY DEF Eco!BuildingPrerequisites, BuildingPrerequisites
<1>5. \A y : Eco!Requires(y) = Requires(y)
  BY <1>2, <1>3, <1>4 DEF Eco!Requires, Requires
<1>6. \A y : Eco!Factor(y) = Factor(y)
  BY DEF Eco!Factor, Factor
<1>7. \A y, n : Eco!LevelCost(y, n) = LevelCost(y, n)
  BY <1>1, <1>2, <1>6 DEF Eco!LevelCost, LevelCost
<1>8. \A n : Eco!StorageCapacity(n) = StorageCapacity(n)
  BY DEF Eco!StorageCapacity, StorageCapacity
<1> QED
  BY <1>2, <1>5, <1>7, <1>8

LEMMA CapacityType == \A l \in 0..13 : StorageCapacity(l) \in Nat /\ StorageCapacity(l) >= 10000
BY DEF StorageCapacity

LEMMA ProductType == ASSUME NEW a \in Nat, NEW b \in Nat PROVE a * b \in Nat
OBVIOUS

LEMMA RoundedUp ==
  ASSUME NEW a \in Nat, NEW b \in Nat, b > 0 PROVE -((-a) \div b) \in Nat
OBVIOUS

\* What grows by a tenth with each level is rounded to a whole number, not below zero.
LEMMA GrownType ==
  ASSUME NEW a \in Nat, NEW l \in Nat PROVE Eco!Grown(a, l) \in Nat /\ Eco!GrownUp(a, l) \in Nat
<1> DEFINE n == a * l * Eco!Power(11, l)
           d == Eco!Power(10, l)
<1>1. d \in Nat /\ d > 0 /\ Eco!Power(11, l) \in Nat
  <2>1. \A b \in Nat : Eco!Power(b, l) \in Nat /\ (b > 0 => Eco!Power(b, l) > 0)
    BY PowerType
  <2> QED
    BY <2>1
<1>2. n \in Nat
  BY <1>1, ProductType
<1>3. Eco!Grown(a, l) = n \div d /\ Eco!GrownUp(a, l) = -((-n) \div d)
  BY DEF Eco!Grown, Eco!GrownUp
<1> HIDE DEF n, d
<1> QED
  BY <1>1, <1>2, <1>3, Rounded, RoundedUp

NatLevels == level \in [Items -> Nat]

LEMMA ItemsOfEconomy ==
  ASSUME NatLevels
  PROVE  \A x \in {"metal_mine", "crystal_mine", "deuterium_synthesizer", "solar_plant",
                   "fusion_reactor", "solar_satellite", "crawler", "metal_storage",
                   "crystal_storage", "deuterium_tank", "plasma", "energy"} :
            x \in Items /\ level[x] \in Nat
BY DEF NatLevels, Items, Buildings, BuildingCosts, Techs, ResearchCosts

LEMMA CrawlersType == ASSUME NatLevels PROVE Eco!ActiveCrawlers \in Nat
<1>1. /\ level["metal_mine"] \in Nat /\ level["crystal_mine"] \in Nat
      /\ level["deuterium_synthesizer"] \in Nat /\ level["crawler"] \in Nat
  BY ItemsOfEconomy
<1> QED
  BY <1>1 DEF Eco!ActiveCrawlers, Eco!AtMost

LEMMA EnergyTypes ==
  ASSUME NatLevels PROVE Eco!EnergyConsumed \in Nat /\ Eco!EnergyProduced \in Nat
<1> DEFINE use(m) == Eco!GrownUp(Eco!MineEnergyCoeff[m], level[m])
<1>1. use("metal_mine") \in Nat /\ use("crystal_mine") \in Nat /\ use("deuterium_synthesizer") \in Nat
  BY ItemsOfEconomy, GrownType DEF Eco!MineEnergyCoeff
<1>2. Eco!EnergyConsumed \in Nat
  <2>1. Eco!EnergyConsumed = use("metal_mine") + use("crystal_mine")
                             + use("deuterium_synthesizer") + 50 * Eco!ActiveCrawlers
    BY DEF Eco!EnergyConsumed
  <2> HIDE DEF use
  <2> QED
    BY <1>1, <2>1, CrawlersType
<1>3. Eco!Grown(20, level["solar_plant"]) \in Nat
  BY ItemsOfEconomy, GrownType
<1>4. Eco!SolarSatelliteOutput \in Nat
  <2> DEFINE each == Eco!AtLeast0((AvgTemp + 160) \div 6)
  <2>1. each \in Nat
    BY SettingsOK DEF Eco!AtLeast0
  <2>2. Eco!SolarSatelliteOutput = each * level["solar_satellite"]
    BY DEF Eco!SolarSatelliteOutput
  <2> HIDE DEF each
  <2> QED
    BY <2>1, <2>2, ItemsOfEconomy, ProductType
<1>5. Eco!FusionReactorOutput \in Nat
  <2> DEFINE l == level["fusion_reactor"]
             b == 105 + level["energy"]
             n == 30 * l * Eco!Power(b, l)
             d == Eco!Power(100, l)
  <2>1. l \in Nat /\ b \in Nat
    BY ItemsOfEconomy
  <2>2. Eco!FusionReactorOutput = n \div d
    BY DEF Eco!FusionReactorOutput
  <2> HIDE DEF l, b
  <2>3. \A a \in Nat : Eco!Power(a, l) \in Nat /\ (a > 0 => Eco!Power(a, l) > 0)
    BY <2>1, PowerType
  <2>4. d \in Nat /\ d > 0 /\ Eco!Power(b, l) \in Nat
    BY <2>1, <2>3
  <2>5. n \in Nat
    BY <2>1, <2>4, ProductType
  <2> HIDE DEF n, d
  <2> QED
    BY <2>2, <2>4, <2>5, Rounded
<1> QED
  BY <1>2, <1>3, <1>4, <1>5 DEF Eco!EnergyProduced

LEMMA PoweredType ==
  ASSUME NatLevels, NEW gross \in Nat PROVE Eco!Powered(gross) \in Nat
<1> DEFINE use == Eco!EnergyConsumed
           made == Eco!EnergyProduced
           net == IF use > made THEN (gross * made) \div use ELSE gross
           crawlers == Eco!ActiveCrawlers
<1>1. Eco!Powered(gross) = (net * (5000 + crawlers)) \div 5000
  BY DEF Eco!Powered
<1>2. use \in Nat /\ made \in Nat /\ crawlers \in Nat
  BY EnergyTypes, CrawlersType
<1> HIDE DEF use, made, crawlers
<1>3. net \in Nat
  BY <1>2, ProductType, Rounded
<1> HIDE DEF net
<1>4. net * (5000 + crawlers) \in Nat
  BY <1>2, <1>3
<1> QED
  BY <1>1, <1>4, Rounded

\* A planet never loses by the hour.
LEMMA PerHourType == ASSUME NatLevels PROVE \A r \in 1..3 : Eco!PerHour[r] \in Nat
<1>1. /\ level["metal_mine"] \in Nat /\ level["crystal_mine"] \in Nat /\ level["plasma"] \in Nat
      /\ level["deuterium_synthesizer"] \in Nat /\ level["fusion_reactor"] \in Nat
  BY ItemsOfEconomy
<1>2. Speed \in Nat /\ AvgTemp \in Int /\ AvgTemp <= 340
      /\ PositionBonus[1] \in Nat /\ PositionBonus[2] \in Nat
  BY SettingsOK
<1>3. Eco!MetalMineProduction \in Nat
  <2> DEFINE n == 30 * Speed * (100 + level["plasma"]) * (100 + PositionBonus[1])
             a == n \div 10
  <2>1. n \in Nat
    BY <1>1, <1>2
  <2>2. Eco!MetalMineProduction = Eco!Grown(a, level["metal_mine"])
    BY DEF Eco!MetalMineProduction
  <2> HIDE DEF n
  <2>3. a \in Nat
    BY <2>1, Rounded
  <2> HIDE DEF a
  <2> QED
    BY <1>1, <2>2, <2>3, GrownType
<1>4. Eco!CrystalMineProduction \in Nat
  <2> DEFINE n == 20 * Speed * (10000 + 66 * level["plasma"]) * (100 + PositionBonus[2])
             a == n \div 1000
  <2>1. n \in Nat
    BY <1>1, <1>2
  <2>2. Eco!CrystalMineProduction = Eco!Grown(a, level["crystal_mine"])
    BY DEF Eco!CrystalMineProduction
  <2> HIDE DEF n
  <2>3. a \in Nat
    BY <2>1, Rounded
  <2> HIDE DEF a
  <2> QED
    BY <1>1, <2>2, <2>3, GrownType
<1>5. Eco!DeuteriumSynthesizerProduction \in Nat
  <2>1. 1360 - 4 * AvgTemp \in Nat /\ 10000 + 33 * level["plasma"] \in Nat /\ 10 * Speed \in Nat
    BY <1>1, <1>2
  <2> DEFINE n == 10 * Speed * (10000 + 33 * level["plasma"]) * (1360 - 4 * AvgTemp)
             a == n \div 10000
  <2>2. n \in Nat
    BY <2>1, ProductType
  <2>3. Eco!DeuteriumSynthesizerProduction
          = Eco!Grown(a, level["deuterium_synthesizer"])
    BY DEF Eco!DeuteriumSynthesizerProduction
  <2> HIDE DEF n
  <2>4. a \in Nat
    BY <2>2, Rounded
  <2> HIDE DEF a
  <2> QED
    BY <1>1, <2>3, <2>4, GrownType
<1>6. Eco!FusionDeutConsumption \in Nat
  <2>1. 10 * Speed \in Nat
    BY <1>2
  <2> QED
    BY <1>1, <2>1, GrownType DEF Eco!FusionDeutConsumption
<1>7. /\ Eco!Powered(Eco!MetalMineProduction) \in Nat
      /\ Eco!Powered(Eco!CrystalMineProduction) \in Nat
      /\ Eco!Powered(Eco!DeuteriumSynthesizerProduction) \in Nat
  BY <1>3, <1>4, <1>5, PoweredType
<1> DEFINE metal == Eco!Base[1] + Eco!Powered(Eco!MetalMineProduction)
           crystal == Eco!Base[2] + Eco!Powered(Eco!CrystalMineProduction)
           deut == Eco!Base[3] + Eco!Powered(Eco!DeuteriumSynthesizerProduction)
<1>8. metal \in Nat /\ crystal \in Nat /\ deut \in Nat
  BY <1>2, <1>7 DEF Eco!Base
<1>9. /\ Eco!PerHour[1] = metal \div 1000 /\ Eco!PerHour[2] = crystal \div 1000
      /\ Eco!PerHour[3] = Eco!AtLeast0(deut \div 1000 - Eco!FusionDeutConsumption)
  BY DEF Eco!PerHour
<1> HIDE DEF metal, crystal, deut
<1>10. metal \div 1000 \in Nat /\ crystal \div 1000 \in Nat /\ deut \div 1000 \in Nat
  BY <1>8, Rounded
<1>11. Eco!PerHour[3] \in Nat
  BY <1>6, <1>9, <1>10 DEF Eco!AtLeast0
<1> QED
  BY <1>9, <1>10, <1>11

\* The powers that prices grow by are positive.
GrowthOK(l) ==
  /\ 1^l > 0 /\ 2^l > 0 /\ 3^l > 0 /\ 4^l > 0
  /\ 5^l > 0 /\ 7^l > 0 /\ 8^l > 0 /\ 9^l > 0

LEMMA GrowthPositive == \A l \in 0..12 : GrowthOK(l)
<1>1. GrowthOK(0) /\ GrowthOK(1) /\ GrowthOK(2) /\ GrowthOK(3) /\ GrowthOK(4)
  BY DEF GrowthOK
<1>2. GrowthOK(5) /\ GrowthOK(6) /\ GrowthOK(7) /\ GrowthOK(8)
  BY DEF GrowthOK
<1>3. GrowthOK(9) /\ GrowthOK(10) /\ GrowthOK(11) /\ GrowthOK(12)
  BY DEF GrowthOK
<1> QED
  BY <1>1, <1>2, <1>3

\* Every price is a whole number as far as the table of stores goes.
LEMMA PriceType ==
  ASSUME NEW x \in Items, NEW l \in 0..12
  PROVE  LevelCost(x, l + 1) \in [1..3 -> Nat]
<1> DEFINE n == Factor(x)[1]^l
           d == Factor(x)[2]^l
           base == FirstCost(x)
<1>1. (l + 1) - 1 = l /\ l \in Nat
  OBVIOUS
<1>2. LevelCost(x, l + 1) = [i \in 1..3 |-> (base[i] * n) \div d]
  BY <1>1 DEF LevelCost, FirstCost
<1>3. n \in {1^l, 2^l, 3^l, 7^l, 8^l, 9^l} /\ d \in {1^l, 2^l, 4^l, 5^l}
  BY DEF Factor
<1>4. n \in Nat /\ d \in Nat /\ d > 0
  <2>1. GrowthOK(l)
    BY GrowthPositive
  <2>2. /\ 1^l \in Int /\ 2^l \in Int /\ 3^l \in Int /\ 4^l \in Int
        /\ 5^l \in Int /\ 7^l \in Int /\ 8^l \in Int /\ 9^l \in Int
    BY <1>1
  <2> HIDE DEF n, d
  <2> QED
    BY <1>3, <2>1, <2>2 DEF GrowthOK
<1>5. \A i \in 1..3 : base[i] \in Nat
  <2>1. CASE x \in Buildings
    BY <2>1 DEF FirstCost, Buildings, BuildingCosts
  <2>2. CASE x \in Techs /\ x \notin Buildings
    BY <2>2 DEF FirstCost, Techs, ResearchCosts
  <2> QED
    BY <2>1, <2>2 DEF Items
<1> HIDE DEF n, d, base
<1>6. \A i \in 1..3 : (base[i] * n) \div d \in Nat
  BY <1>4, <1>5, ProductType, Rounded
<1> QED
  BY <1>2, <1>6

\* The stockpile never grows past its stores, nor below nothing.
Stocked == stock \in [1..3 -> Nat] /\ \A r \in 1..3 : stock[r] <= Eco!StoreCapacity[r]
EconomyLevels == NatLevels /\ \A x \in Items : level[x] <= MaxLevel

\* What is under way could be begun, and can still be.
Ordered ==
  order # Eco!None =>
    /\ order.item \in Orders /\ level[order.item] < MaxLevel
    /\ Buildable(order.item)

\* What an order has read of the planet it has locked, and up to when it is reckoned.
Read ==
  purse # Eco!NoPurse =>
    /\ purse.item \in Orders
    /\ purse.stock \in [1..3 -> Nat] /\ \A r \in 1..3 : purse.stock[r] <= Eco!StoreCapacity[r]
    /\ purse.upto \in Nat /\ updated <= purse.upto /\ purse.upto <= clock

EconomyInv ==
  /\ clock \in Nat /\ updated \in Nat /\ updated <= clock
  /\ EconomyLevels /\ Stocked /\ produced \in [1..3 -> Int] /\ Ordered /\ Read

StoreLevel == <<level["metal_storage"], level["crystal_storage"], level["deuterium_tank"]>>

StoresOK ==
  \A r \in 1..3 :
    /\ StoreLevel[r] \in 0..13
    /\ StorageCapacity(StoreLevel[r]) \in Nat /\ StorageCapacity(StoreLevel[r]) >= 10000
    /\ Eco!StoreCapacity[r] = 7200 * StorageCapacity(StoreLevel[r])

LEMMA StoresType == EconomyLevels => StoresOK
<1> SUFFICES ASSUME EconomyLevels PROVE StoresOK
  OBVIOUS
<1>1. \A r \in 1..3 : StoreLevel[r] \in 0..13
  <2>1. \A x \in {"metal_storage", "crystal_storage", "deuterium_tank"} :
           x \in Items /\ level[x] \in Nat
    BY ItemsOfEconomy DEF EconomyLevels
  <2> QED
    BY <2>1, SettingsOK DEF EconomyLevels, StoreLevel
<1>2. \A r \in 1..3 : Eco!StoreCapacity[r] = 7200 * StorageCapacity(StoreLevel[r])
  BY EconomyTables DEF Eco!StoreCapacity, StoreLevel, Eco!Units, Eco!Hour, Eco!Second
<1> QED
  BY <1>1, <1>2, CapacityType DEF StoresOK

LEMMA StoresPrimed == EconomyLevels' => StoresOK'
BY StoresType, PTL

LEMMA FitsStores ==
  ASSUME NEW cost
  PROVE  Fits(cost) <=> \A r \in 1..3 : cost[r] <= StorageCapacity(StoreLevel[r])
BY DEF Fits, StoreLevel

LEMMA AfterType ==
  ASSUME EconomyLevels, NEW s, NEW moments \in Nat
  PROVE  /\ s \in [1..3 -> Int] => Eco!After(s, moments) \in [1..3 -> Int]
         /\ s \in [1..3 -> Nat] =>
              /\ Eco!After(s, moments) \in [1..3 -> Nat]
              /\ \A r \in 1..3 : Eco!After(s, moments)[r] <= Eco!StoreCapacity[r]
<1>1. \A r \in 1..3 : Eco!StoreCapacity[r] \in Nat
  BY StoresType DEF StoresOK
<1>2. \A r \in 1..3 : moments * Eco!PerHour[r] \in Nat
  BY PerHourType, ProductType DEF EconomyLevels
<1> DEFINE gain == [r \in 1..3 |-> moments * Eco!PerHour[r]]
<1>3. Eco!After(s, moments)
        = [r \in 1..3 |-> IF s[r] + gain[r] > Eco!StoreCapacity[r]
                          THEN Eco!StoreCapacity[r] ELSE s[r] + gain[r]]
  BY DEF Eco!After, Eco!AtMost, Eco!Resources
<1>4. gain \in [1..3 -> Nat]
  BY <1>2
<1> HIDE DEF gain
<1> QED
  BY <1>1, <1>3, <1>4

LEMMA EconomyInit == Eco!Init => EconomyInv
<1> SUFFICES ASSUME Eco!Init PROVE EconomyInv
  OBVIOUS
<1>1. level = [x \in Items |-> 0]
  BY EconomyTables DEF Eco!Init, Items
<1>2. EconomyLevels
  BY <1>1, SettingsOK DEF EconomyLevels, NatLevels
<1>3. stock = <<3600000, 3600000, 0>> /\ produced = <<3600000, 3600000, 0>>
  BY DEF Eco!Init, Eco!Units, Eco!Hour, Eco!Second
<1>4. Stocked
  <2>1. stock \in [1..3 -> Nat] /\ \A r \in 1..3 : stock[r] <= 3600000
    BY <1>3
  <2>2. \A r \in 1..3 : Eco!StoreCapacity[r] >= 3600000 /\ Eco!StoreCapacity[r] \in Nat
    BY <1>2, StoresType DEF StoresOK
  <2> QED
    BY <2>1, <2>2 DEF Stocked
<1>5. produced \in [1..3 -> Int]
  BY <1>3
<1> QED
  BY <1>2, <1>4, <1>5 DEF Eco!Init, EconomyInv, Ordered, Read

\* A refresh, and whoever looks at the stockpile first.
LEMMA RefreshedType ==
  ASSUME EconomyInv
  PROVE  /\ Eco!Refreshed \in [1..3 -> Nat]
         /\ \A r \in 1..3 : Eco!Refreshed[r] <= Eco!StoreCapacity[r]
<1>1. clock - updated \in Nat
  BY DEF EconomyInv
<1> QED
  BY <1>1, AfterType DEF EconomyInv, Stocked, Eco!Refreshed

\* A step that leaves the levels and the rows alone.
LEMMA RowsKept ==
  ASSUME EconomyInv, UNCHANGED <<level, stock, updated, order>>, clock' \in Nat, clock <= clock',
         produced' \in [1..3 -> Int], purse' = purse \/ purse' = Eco!NoPurse
  PROVE  EconomyInv'
<1>1. Eco!StoreCapacity' = Eco!StoreCapacity /\ Eco!None' = Eco!None /\ Eco!NoPurse' = Eco!NoPurse
  BY DEF Eco!StoreCapacity, Eco!None, Eco!NoPurse
<1>2. EconomyLevels' /\ Stocked' /\ Ordered'
  BY <1>1 DEF EconomyInv, Stocked, EconomyLevels, NatLevels, Ordered, Buildable, Unlocked, Fits
<1>3. Read'
  BY <1>1 DEF EconomyInv, Read
<1> QED
  BY <1>2, <1>3 DEF EconomyInv

LEMMA TickInv == ASSUME EconomyInv, Eco!Tick PROVE EconomyInv'
<1>1. PICK moments \in {1, Eco!Hour} :
        clock' = clock + moments /\ produced' = Eco!After(produced, moments)
  BY DEF Eco!Tick
<1>2. moments \in Nat
  BY DEF Eco!Hour, Eco!Second
<1>3. produced' \in [1..3 -> Int]
  BY <1>1, <1>2, AfterType DEF EconomyInv
<1>4. UNCHANGED <<level, stock, updated, purse, order>> /\ clock' \in Nat /\ clock <= clock'
  BY <1>1, <1>2 DEF Eco!Tick, EconomyInv
<1> QED
  BY <1>3, <1>4, RowsKept

LEMMA RefreshInv == ASSUME EconomyInv, Eco!Refresh PROVE EconomyInv'
<1>1. /\ UNCHANGED <<clock, level, purse, order, produced>> /\ purse = Eco!NoPurse
      /\ updated' = clock /\ stock' = Eco!Refreshed
  BY DEF Eco!Refresh
<1>2. Eco!StoreCapacity' = Eco!StoreCapacity
  BY <1>1 DEF Eco!StoreCapacity
<1>3. Stocked'
  BY <1>1, <1>2, RefreshedType DEF Stocked
<1>4. EconomyLevels' /\ Ordered'
  BY <1>1 DEF EconomyInv, EconomyLevels, NatLevels, Ordered, Buildable, Unlocked, Fits, Eco!None
<1>5. Read'
  BY <1>1 DEF Read, Eco!NoPurse
<1> QED
  BY <1>1, <1>3, <1>4, <1>5 DEF EconomyInv

LEMMA OrderBeginInv == ASSUME EconomyInv, NEW x \in Orders, Eco!OrderBegin(x) PROVE EconomyInv'
<1>1. /\ UNCHANGED <<clock, level, stock, updated, order, produced>>
      /\ purse'.item = x /\ purse'.stock = Eco!Refreshed
      /\ purse'.upto = updated \/ purse'.upto = clock
  BY DEF Eco!OrderBegin
<1>2. Eco!StoreCapacity' = Eco!StoreCapacity
  BY <1>1 DEF Eco!StoreCapacity
<1>3. EconomyLevels' /\ Ordered' /\ Stocked'
  BY <1>1, <1>2 DEF EconomyInv, EconomyLevels, NatLevels, Ordered, Stocked, Buildable, Unlocked,
     Fits, Eco!None
<1>4. Read'
  BY <1>1, <1>2, RefreshedType DEF EconomyInv, Read
<1> QED
  BY <1>1, <1>3, <1>4 DEF EconomyInv

\* What is paid is what the table says, or all the metal a blacked-out planet has.
LEMMA PriceFits ==
  ASSUME EconomyInv, Eco!OrderPay
  PROVE  \E price \in [1..3 -> Nat] :
           /\ \A r \in 1..3 : 7200 * price[r] <= purse.stock[r]
           /\ stock' = [r \in 1..3 |-> purse.stock[r] - 7200 * price[r]]
           /\ produced' = [r \in 1..3 |-> produced[r] - 7200 * price[r]]
           /\ Fits(LevelCost(purse.item, level[purse.item] + 1))
<1> DEFINE x == purse.item
           held == [r \in 1..3 |-> purse.stock[r] \div 7200]
           price == Eco!Price(x, held)
           cost == LevelCost(x, level[x] + 1)
<1>0. /\ x \in Orders /\ purse.stock \in [1..3 -> Nat]
      /\ \A r \in 1..3 : purse.stock[r] <= Eco!StoreCapacity[r]
  BY DEF Eco!OrderPay, EconomyInv, Read
<1>1. x \in Items /\ level[x] < MaxLevel /\ level[x] \in Nat
  BY <1>0, SettingsOK DEF Items, Eco!OrderPay, EconomyInv, EconomyLevels, NatLevels
<1>2. level[x] \in 0..12
  BY <1>1, SettingsOK
<1>3. cost \in [1..3 -> Nat]
  BY <1>1, <1>2, PriceType
<1>4. /\ \A r \in 1..3 : price[r] <= held[r]
      /\ stock' = [r \in 1..3 |-> purse.stock[r] - 7200 * price[r]]
      /\ produced' = [r \in 1..3 |-> produced[r] - 7200 * price[r]]
  <2>1. Eco!Hour = 7200
    BY DEF Eco!Hour, Eco!Second
  <2> QED
    BY <2>1 DEF Eco!OrderPay, Eco!Resources, Eco!Units
<1>5. \/ price = cost
      \/ price = [cost EXCEPT ![1] = held[1]] /\ x = "solar_plant" /\ level[x] = 0
  BY EconomyTables DEF Eco!Price
<1>6. \A r \in 1..3 : /\ held[r] \in Nat /\ 7200 * held[r] <= purse.stock[r]
                      /\ held[r] <= StorageCapacity(StoreLevel[r])
  <2> SUFFICES ASSUME NEW r \in 1..3
               PROVE  /\ held[r] \in Nat /\ 7200 * held[r] <= purse.stock[r]
                      /\ held[r] <= StorageCapacity(StoreLevel[r])
    OBVIOUS
  <2> DEFINE s == purse.stock[r]
             c == StorageCapacity(StoreLevel[r])
  <2>1. s \in Nat /\ c \in Nat /\ s <= 7200 * c
    BY <1>0, StoresType DEF EconomyInv, StoresOK
  <2>2. held[r] = s \div 7200
    OBVIOUS
  <2> HIDE DEF s, c, held
  <2>3. held[r] \in Nat /\ 7200 * held[r] <= s /\ held[r] <= c
    BY <2>1, <2>2
  <2> QED
    BY <2>3 DEF s, c
<1> HIDE DEF held, price, cost, x
<1>7. price \in [1..3 -> Nat]
  BY <1>3, <1>5, <1>6
<1>8. \A r \in 1..3 : 7200 * price[r] <= purse.stock[r]
  <2>1. \A r \in 1..3 : purse.stock[r] \in Nat
    BY <1>0
  <2> QED
    BY <1>4, <1>6, <1>7, <2>1
<1>9. \A r \in 1..3 : cost[r] <= StorageCapacity(StoreLevel[r])
  <2>1. \A r \in 1..3 : StorageCapacity(StoreLevel[r]) \in Nat /\ StorageCapacity(StoreLevel[r]) >= 10000
    BY StoresType DEF EconomyInv, StoresOK
  <2>2. CASE price = cost
    BY <1>3, <1>4, <1>6, <2>1, <2>2
  <2>3. CASE price = [cost EXCEPT ![1] = held[1]] /\ x = "solar_plant" /\ level[x] = 0
    <3>1. cost[1] = 75
      <4>1. cost[1] = (75 * 3^0) \div 2^0
        BY <2>3 DEF cost, LevelCost, Buildings, BuildingCosts, Factor
      <4> QED
        BY <4>1
    <3>2. \A r \in 2..3 : cost[r] = price[r]
      BY <1>3, <2>3
    <3>3. \A r \in 1..3 : r = 1 \/ r \in 2..3
      OBVIOUS
    <3> QED
      BY <1>3, <1>4, <1>6, <2>1, <3>1, <3>2, <3>3
  <2> QED
    BY <1>5, <2>2, <2>3
<1>10. Fits(cost)
  BY <1>9, FitsStores
<1> QED
  BY <1>4, <1>7, <1>8, <1>10 DEF cost, x

LEMMA OrderPayInv == ASSUME EconomyInv, Eco!OrderPay PROVE EconomyInv'
<1> DEFINE x == purse.item
<1>1. PICK price \in [1..3 -> Nat] :
        /\ \A r \in 1..3 : 7200 * price[r] <= purse.stock[r]
        /\ stock' = [r \in 1..3 |-> purse.stock[r] - 7200 * price[r]]
        /\ produced' = [r \in 1..3 |-> produced[r] - 7200 * price[r]]
        /\ Fits(LevelCost(x, level[x] + 1))
  BY PriceFits
<1>2. /\ UNCHANGED <<clock, level>> /\ updated' = clock /\ purse' = Eco!NoPurse
      /\ order'.item = x /\ purse # Eco!NoPurse
      /\ level[x] < MaxLevel /\ \A r \in Requires(x) : level[r[1]] >= r[2]
  BY EconomyTables DEF Eco!OrderPay
<1>3. produced' \in [1..3 -> Int]
  BY <1>1 DEF EconomyInv
<1>4. Stocked'
  <2>1. Eco!StoreCapacity' = Eco!StoreCapacity
    BY <1>2 DEF Eco!StoreCapacity
  <2>2. \A r \in 1..3 : Eco!StoreCapacity[r] \in Nat
    BY StoresType DEF EconomyInv, StoresOK
  <2>3. ASSUME NEW r \in 1..3
        PROVE  stock'[r] \in Nat /\ stock'[r] <= Eco!StoreCapacity[r]
    <3> DEFINE held == purse.stock[r]
               paid == price[r]
    <3>1. held \in Nat /\ held <= Eco!StoreCapacity[r]
      BY <1>2 DEF EconomyInv, Read
    <3>2. paid \in Nat /\ 7200 * paid <= held /\ stock'[r] = held - 7200 * paid
      BY <1>1
    <3> HIDE DEF held, paid
    <3> QED
      BY <2>2, <3>1, <3>2
  <2> QED
    BY <1>1, <2>1, <2>3 DEF Stocked
<1>5. Ordered'
  <2>1. x \in Orders
    BY <1>2 DEF EconomyInv, Read
  <2> QED
    BY <1>1, <1>2, <2>1 DEF Ordered, Buildable, Unlocked, Fits
<1>6. Read'
  BY <1>2 DEF Read, Eco!NoPurse
<1> QED
  BY <1>2, <1>3, <1>4, <1>5, <1>6 DEF EconomyInv, EconomyLevels, NatLevels

\* The sweep raises one level, and no store shrinks.
LEMMA SweepBuilds ==
  ASSUME EconomyInv, Eco!Sweep
  PROVE  /\ order.item \in Items /\ level[order.item] < MaxLevel /\ Buildable(order.item)
         /\ level' = [level EXCEPT ![order.item] = @ + 1]
BY SettingsOK DEF EconomyInv, Ordered, Eco!Sweep, Items

LEMMA SweepInv == ASSUME EconomyInv, Eco!Sweep PROVE EconomyInv'
<1> DEFINE x == order.item
<1>1. x \in Items /\ level[x] < MaxLevel /\ level' = [level EXCEPT ![x] = @ + 1]
  BY SweepBuilds
<1>2. order' = Eco!None /\ UNCHANGED <<clock, stock, updated, purse, produced>>
  BY DEF Eco!Sweep
<1> HIDE DEF x
<1>3. EconomyLevels'
  BY <1>1, SettingsOK DEF EconomyInv, EconomyLevels, NatLevels
<1>4. \A r \in 1..3 : /\ StoreLevel'[r] \in 0..13
                      /\ StoreLevel'[r] = StoreLevel[r] \/ StoreLevel'[r] = StoreLevel[r] + 1
  <2>1. \A r \in 1..3 : StoreLevel'[r] \in 0..13
    BY <1>3, StoresPrimed DEF StoresOK
  <2>2. \A y \in Items : level'[y] = level[y] \/ level'[y] = level[y] + 1
    BY <1>1 DEF EconomyInv, EconomyLevels, NatLevels
  <2>3. "metal_storage" \in Items /\ "crystal_storage" \in Items /\ "deuterium_tank" \in Items
    BY DEF Items, Buildings, BuildingCosts
  <2> QED
    BY <2>1, <2>2, <2>3 DEF StoreLevel
<1>5. \A r \in 1..3 : Eco!StoreCapacity[r] <= Eco!StoreCapacity'[r]
  <2> SUFFICES ASSUME NEW r \in 1..3 PROVE Eco!StoreCapacity[r] <= Eco!StoreCapacity'[r]
    OBVIOUS
  <2>1. StoreLevel[r] \in 0..13 /\ Eco!StoreCapacity[r] = 7200 * StorageCapacity(StoreLevel[r])
    BY StoresType DEF EconomyInv, StoresOK
  <2>2. Eco!StoreCapacity'[r] = 7200 * StorageCapacity(StoreLevel'[r])
    BY <1>3, StoresPrimed DEF StoresOK
  <2>3. StorageCapacity(StoreLevel[r]) \in Nat /\ StorageCapacity(StoreLevel'[r]) \in Nat
        /\ StorageCapacity(StoreLevel[r]) <= StorageCapacity(StoreLevel'[r])
    BY <1>4, <2>1, CapacityType, CapacityGrows
  <2> QED
    BY <2>1, <2>2, <2>3
<1>6. \A r \in 1..3 : Eco!StoreCapacity[r] \in Nat /\ Eco!StoreCapacity'[r] \in Nat
  BY <1>3, StoresType, StoresPrimed DEF EconomyInv, StoresOK
<1>7. Stocked'
  BY <1>2, <1>5, <1>6 DEF EconomyInv, Stocked
<1>8. Read'
  <2>1. Eco!NoPurse' = Eco!NoPurse
    BY DEF Eco!NoPurse
  <2> QED
    BY <1>2, <1>5, <1>6, <2>1 DEF EconomyInv, Read
<1>9. Ordered'
  BY <1>2 DEF Ordered, Eco!None
<1> QED
  BY <1>2, <1>3, <1>7, <1>8, <1>9 DEF EconomyInv

LEMMA EconomyNext == EconomyInv /\ [Eco!Next]_economyVars => EconomyInv'
<1>1. ASSUME EconomyInv, Eco!Next PROVE EconomyInv'
  <2>1. CASE Eco!OrderFail
    <3>1. UNCHANGED <<clock, level, stock, updated, order, produced>> /\ purse' = Eco!NoPurse
      BY <2>1 DEF Eco!OrderFail
    <3> QED
      BY <1>1, <3>1, RowsKept DEF EconomyInv
  <2> QED
    BY <1>1, <2>1, TickInv, RefreshInv, SweepInv, OrderBeginInv, OrderPayInv DEF Eco!Next
<1>2. ASSUME EconomyInv, UNCHANGED economyVars PROVE EconomyInv'
  <2>1. UNCHANGED <<clock, level, stock, updated, purse, order, produced>>
    BY <1>2 DEF economyVars
  <2> QED
    BY <1>2, <2>1, RowsKept DEF EconomyInv
<1> QED
  BY <1>1, <1>2

LEMMA EconomyAlways == Eco!Spec => []EconomyInv /\ [][Eco!Next]_economyVars
<1>1. Eco!Spec => Eco!Init /\ [][Eco!Next]_economyVars
  BY DEF Eco!Spec, Eco!vars, economyVars
<1> QED
  BY <1>1, EconomyInit, EconomyNext, PTL

\* Whatever is ordered and however seldom anybody looks, no stockpile becomes
\* negative (svc/build.go:116, svc/resources.go:94).
THEOREM EconomyTypeCorrect == Eco!Spec => []Eco!TypeOK
<1>1. EconomyInv => Eco!TypeOK
  BY EconomyTables DEF EconomyInv, EconomyLevels, NatLevels, Stocked, Ordered, Read, Items,
     Eco!TypeOK, Eco!Resources
<1> QED
  BY <1>1, EconomyAlways, PTL

\* And none grows past its stores, though levels rise between the credit of a
\* window and its hours (svc/resources.go:71).
THEOREM StoresHold ==
  Eco!Spec => [](\A r \in 1..3 : stock[r] <= Eco!StoreCapacity[r])
<1>1. EconomyInv => \A r \in 1..3 : stock[r] <= Eco!StoreCapacity[r]
  BY DEF EconomyInv, Stocked
<1> QED
  BY <1>1, EconomyAlways, PTL

\* What the tables let a player begin is what the economy of a planet can begin: its
\* steps are steps of Progress (svc/build.go:99, svc/resources.go:76).
THEOREM EconomyFollowsTables == Eco!Spec => Prog!AnyLevel
<1>1. Eco!Init => Prog!Init
  BY EconomyTables, SameTables DEF Eco!Init, Prog!Init, Items
<1>2. EconomyInv /\ [Eco!Next]_economyVars => [\E x \in Prog!Items : Prog!Build(x)]_level
  <2>1. ASSUME EconomyInv, Eco!Sweep PROVE \E x \in Prog!Items : Prog!Build(x)
    BY <2>1, SweepBuilds, SameTables, SameBuildable DEF Prog!Build
  <2>2. Eco!Next => Eco!Sweep \/ level' = level
    BY DEF Eco!Next, Eco!Tick, Eco!Refresh, Eco!OrderBegin, Eco!OrderPay, Eco!OrderFail
  <2> QED
    BY <2>1, <2>2 DEF economyVars
<1>3. Eco!Spec => Eco!Init
  BY DEF Eco!Spec
<1> QED
  BY <1>1, <1>2, <1>3, EconomyAlways, PTL DEF Prog!AnyLevel

LEMMA BuildKeepsParents ==
  ASSUME NatLevels, ParentFirst, NEW x \in Items, Buildable(x), level' = [level EXCEPT ![x] = @ + 1]
  PROVE  (NatLevels /\ ParentFirst)'
<1>1. NatLevels' /\ \A y \in Items : level'[y] >= level[y] /\ (y # x => level'[y] = level[y])
  BY DEF NatLevels
<1>2. ASSUME NEW t \in DOMAIN TechTreeParent, level'[t] > 0
      PROVE  level'[TechTreeParent[t]] > 0
  <2> DEFINE p == TechTreeParent[t]
  <2>1. t \in Items /\ p \in Items
    BY ParentsAreAsked
  <2>2. level[p] \in Nat /\ level'[p] \in Nat /\ level'[p] >= level[p]
    BY <1>1, <2>1 DEF NatLevels
  <2>3. level[p] > 0
    <3>1. CASE t # x
      BY <1>1, <1>2, <2>1, <3>1 DEF ParentFirst
    <3>2. CASE t = x
      <4>1. PICK r \in Requires(t) : r[1] = p /\ r[2] \in Nat /\ r[2] > 0
        BY ParentsAreAsked
      <4>2. level[r[1]] >= r[2]
        BY <3>2 DEF Buildable, Unlocked
      <4> QED
        BY <2>2, <4>1, <4>2
    <3> QED
      BY <3>1, <3>2
  <2> HIDE DEF p
  <2>4. level'[p] > 0
    BY <2>2, <2>3
  <2> QED
    BY <2>4 DEF p
<1> QED
  BY <1>1, <1>2 DEF ParentFirst

\* So no research begins before its parent in the drawn tree there either
\* (game/tech_tree.go:9).
THEOREM EconomyParentFirst == Eco!Spec => []ParentFirst
<1>1. Prog!Init => NatLevels /\ ParentFirst
  BY TreeInit DEF TreeInv, Levels, NatLevels
<1>2. NatLevels /\ ParentFirst /\ [\E x \in Prog!Items : Prog!Build(x)]_level
        => (NatLevels /\ ParentFirst)'
  <2>1. ASSUME NatLevels, ParentFirst, NEW x \in Prog!Items, Prog!Build(x)
        PROVE  (NatLevels /\ ParentFirst)'
    BY <2>1, SameTables, SameBuildable, BuildKeepsParents DEF Prog!Build
  <2>2. ASSUME NatLevels, ParentFirst, level' = level PROVE (NatLevels /\ ParentFirst)'
    BY <2>2 DEF NatLevels, ParentFirst
  <2> QED
    BY <2>1, <2>2
<1>3. Prog!AnyLevel => []ParentFirst
  BY <1>1, <1>2, PTL DEF Prog!AnyLevel
<1> QED
  BY <1>3, EconomyFollowsTables, PTL

\* While the levels stay, two windows credited one after the other are one window:
\* how often somebody looks at a planet makes no difference.
LEMMA WindowsCompose ==
  ASSUME EconomyLevels, NEW s \in [1..3 -> Nat], NEW m \in Nat, NEW n \in Nat
  PROVE  Eco!After(Eco!After(s, m), n) = Eco!After(s, m + n)
<1> DEFINE cap(r) == Eco!StoreCapacity[r]
           rate(r) == Eco!PerHour[r]
           upTo(b, x) == IF x > b THEN b ELSE x
<1>1. \A t, h : Eco!After(t, h) = [r \in 1..3 |-> upTo(cap(r), t[r] + h * rate(r))]
  BY DEF Eco!After, Eco!AtMost, Eco!Resources
<1>2. \A r \in 1..3 : cap(r) \in Nat /\ rate(r) \in Nat
  BY StoresType, PerHourType DEF EconomyLevels, StoresOK
<1> HIDE DEF cap, rate
<1>3. ASSUME NEW r \in 1..3
      PROVE  upTo(cap(r), upTo(cap(r), s[r] + m * rate(r)) + n * rate(r))
               = upTo(cap(r), s[r] + (m + n) * rate(r))
  <2> DEFINE x == m * rate(r)
             y == n * rate(r)
  <2>1. x \in Nat /\ y \in Nat
    BY <1>2, ProductType
  <2>2. (m + n) * rate(r) = x + y
    BY <1>2
  <2>3. s[r] \in Nat /\ cap(r) \in Nat
    BY <1>2
  <2> HIDE DEF x, y
  <2>4. upTo(cap(r), upTo(cap(r), s[r] + x) + y) = upTo(cap(r), s[r] + (x + y))
    BY <2>1, <2>3
  <2> QED
    BY <2>2, <2>4 DEF x, y
<1> QED
  BY <1>1, <1>3

LEMMA NoTime ==
  ASSUME EconomyLevels, NEW s \in [1..3 -> Nat], \A r \in 1..3 : s[r] <= Eco!StoreCapacity[r]
  PROVE  Eco!After(s, 0) = s
<1>1. Eco!After(s, 0)
        = [r \in 1..3 |-> IF s[r] + 0 * Eco!PerHour[r] > Eco!StoreCapacity[r]
                          THEN Eco!StoreCapacity[r] ELSE s[r] + 0 * Eco!PerHour[r]]
  BY DEF Eco!After, Eco!AtMost, Eco!Resources
<1>2. \A r \in 1..3 : Eco!PerHour[r] \in Nat /\ Eco!StoreCapacity[r] \in Nat
  BY StoresType, PerHourType DEF EconomyLevels, StoresOK
<1> QED
  BY <1>1, <1>2

\* The stores and the rates are the levels' alone.
LEMMA SameRates ==
  ASSUME level' = level PROVE Eco!StoreCapacity' = Eco!StoreCapacity /\ Eco!PerHour' = Eco!PerHour
<1>1. Eco!ActiveCrawlers' = Eco!ActiveCrawlers
  BY DEF Eco!ActiveCrawlers
<1>2. Eco!EnergyConsumed' = Eco!EnergyConsumed /\ Eco!EnergyProduced' = Eco!EnergyProduced
  BY <1>1 DEF Eco!EnergyConsumed, Eco!EnergyProduced, Eco!SolarSatelliteOutput, Eco!FusionReactorOutput
<1>3. /\ Eco!MetalMineProduction' = Eco!MetalMineProduction
      /\ Eco!CrystalMineProduction' = Eco!CrystalMineProduction
      /\ Eco!DeuteriumSynthesizerProduction' = Eco!DeuteriumSynthesizerProduction
      /\ Eco!FusionDeutConsumption' = Eco!FusionDeutConsumption
  BY DEF Eco!MetalMineProduction, Eco!CrystalMineProduction, Eco!DeuteriumSynthesizerProduction,
     Eco!FusionDeutConsumption
<1>4. /\ Eco!Powered(Eco!MetalMineProduction)' = Eco!Powered(Eco!MetalMineProduction)
      /\ Eco!Powered(Eco!CrystalMineProduction)' = Eco!Powered(Eco!CrystalMineProduction)
      /\ Eco!Powered(Eco!DeuteriumSynthesizerProduction)'
           = Eco!Powered(Eco!DeuteriumSynthesizerProduction)
  BY <1>1, <1>2, <1>3 DEF Eco!Powered
<1>5. Eco!PerHour' = Eco!PerHour
  BY <1>3, <1>4 DEF Eco!PerHour
<1> QED
  BY <1>5 DEF Eco!StoreCapacity

\* Neither the time since the last update nor that of an order is less than none.
LEMMA Windows ==
  ASSUME EconomyInv
  PROVE  /\ clock - updated \in Nat
         /\ purse # Eco!NoPurse => clock - purse.upto \in Nat
BY DEF EconomyInv, Read

\* Time passes over a stock of s that was reckoned a while ago.
LEMMA TickComposes ==
  ASSUME EconomyInv, Eco!Tick, NEW s \in [1..3 -> Nat], NEW then \in Nat, clock - then \in Nat
  PROVE  \E moments \in Nat :
           /\ produced' = Eco!After(produced, moments)
           /\ Eco!After(s, clock' - then) = Eco!After(Eco!After(s, clock - then), moments)
<1>1. PICK moments \in {1, Eco!Hour} :
        clock' = clock + moments /\ produced' = Eco!After(produced, moments)
  BY DEF Eco!Tick
<1>2. moments \in Nat
  BY DEF Eco!Hour, Eco!Second
<1> DEFINE m == clock - then
<1>3. clock' - then = m + moments
  BY <1>1, <1>2 DEF EconomyInv
<1> HIDE DEF m
<1>4. m \in Nat
  BY DEF m
<1>5. Eco!After(Eco!After(s, m), moments) = Eco!After(s, m + moments)
  BY <1>2, <1>4, WindowsCompose DEF EconomyInv
<1> QED
  BY <1>1, <1>2, <1>3, <1>5 DEF m

\* Time lets nobody's stock shrink, nor one stock overtake another.
LEMMA AfterMonotone ==
  ASSUME EconomyLevels, NEW s \in [1..3 -> Int], NEW t \in [1..3 -> Int], NEW n \in Nat,
         NEW r \in 1..3
  PROVE  /\ s[r] <= t[r] => Eco!After(s, n)[r] <= Eco!After(t, n)[r]
         /\ s[r] <= Eco!StoreCapacity[r] => s[r] <= Eco!After(s, n)[r]
         /\ Eco!After(s, n)[r] <= s[r] + n * Eco!PerHour[r]
<1> DEFINE cap == Eco!StoreCapacity[r]
           gain == n * Eco!PerHour[r]
           upTo(x) == IF x > cap THEN cap ELSE x
<1>1. \A u : Eco!After(u, n)[r] = upTo(u[r] + gain)
  BY DEF Eco!After, Eco!AtMost, Eco!Resources
<1>2. cap \in Nat /\ gain \in Nat
  BY StoresType, PerHourType, ProductType DEF EconomyLevels, StoresOK
<1> HIDE DEF cap, gain
<1>3. /\ s[r] <= t[r] => upTo(s[r] + gain) <= upTo(t[r] + gain)
      /\ s[r] <= cap => s[r] <= upTo(s[r] + gain)
      /\ upTo(s[r] + gain) <= s[r] + gain
  BY <1>2
<1> HIDE DEF upTo
<1> QED
  BY <1>1, <1>3 DEF cap, gain

\* What the order under way would hold if the time it took were credited too.
Carried == Eco!After(purse.stock, clock - purse.upto)

LEMMA SameAfter ==
  ASSUME level' = level
  PROVE  /\ Eco!Owed' = Eco!After(stock', clock' - updated')
         /\ Carried' = Eco!After(purse'.stock, clock' - purse'.upto)
<1>1. Eco!StoreCapacity' = Eco!StoreCapacity /\ Eco!PerHour' = Eco!PerHour
  BY SameRates
<1> QED
  BY <1>1 DEF Eco!After, Eco!Owed, Carried

\* A sweep raises a level.
LEMMA SweepRaises == ASSUME EconomyInv, Eco!Sweep PROVE level' # level
<1> DEFINE x == order.item
<1>1. x \in Items /\ level' = [level EXCEPT ![x] = @ + 1]
  BY SweepBuilds
<1> HIDE DEF x
<1>2. level[x] \in Nat /\ level'[x] = level[x] + 1
  BY <1>1 DEF EconomyInv, EconomyLevels, NatLevels
<1> QED
  BY <1>2

\* A step that leaves an update without an open window owes the stock itself.
LEMMA OwesStock ==
  ASSUME EconomyInv, EconomyInv', level' = level, updated' = clock'
  PROVE  Eco!Owed' = stock'
<1>1. clock' - updated' = 0
  <2>1. \A x \in Nat : x - x = 0
    OBVIOUS
  <2>2. clock' \in Nat
    BY DEF EconomyInv
  <2>3. clock' - clock' = 0
    BY <2>1, <2>2, Zenon
  <2> QED
    BY <2>3
<1>2. stock' \in [1..3 -> Nat] /\ \A r \in 1..3 : stock'[r] <= Eco!StoreCapacity[r]
  BY SameRates DEF EconomyInv, Stocked
<1> QED
  BY <1>1, <1>2, SameAfter, NoTime DEF EconomyInv

\* What an order reads is no more than what the planet would hold, and is that
\* much if the window is credited up to the order's own time.
LEMMA ReadsOwed ==
  ASSUME EconomyInv, NEW x \in Orders, Eco!OrderBegin(x)
  PROVE  /\ \A r \in 1..3 : purse'.stock[r] <= Eco!Owed[r]
         /\ Carried' = Eco!Owed
         /\ Eco!Owed' = Eco!Owed
<1>1. /\ UNCHANGED <<clock, level, stock, updated, order, produced>>
      /\ purse' = [item |-> x, stock |-> Eco!Refreshed,
                   upto |-> IF Eco!Fresh THEN updated ELSE clock]
  BY DEF Eco!OrderBegin
<1>2. clock - updated \in Nat /\ clock - clock = 0
  BY DEF EconomyInv
<1>3. /\ EconomyLevels /\ stock \in [1..3 -> Nat]
      /\ \A r \in 1..3 : stock[r] <= Eco!StoreCapacity[r]
  BY DEF EconomyInv, Stocked
<1>4. Eco!Owed' = Eco!Owed
  BY <1>1, SameAfter DEF Eco!Owed
<1>5. CASE Eco!Fresh
  <2>1. purse'.stock = stock /\ purse'.upto = updated
    BY <1>1, <1>5 DEF Eco!Refreshed
  <2>2. Carried' = Eco!Owed
    BY <1>1, <2>1, SameAfter DEF Eco!Owed
  <2>3. ASSUME NEW r \in 1..3 PROVE stock[r] <= Eco!Owed[r]
    BY <1>2, <1>3, AfterMonotone DEF Eco!Owed
  <2> QED
    BY <1>4, <2>1, <2>2, <2>3
<1>6. CASE ~Eco!Fresh
  <2>1. purse'.stock = Eco!Owed /\ purse'.upto = clock
    BY <1>1, <1>6 DEF Eco!Refreshed, Eco!Owed
  <2>2. Eco!Owed \in [1..3 -> Nat] /\ \A r \in 1..3 : Eco!Owed[r] <= Eco!StoreCapacity[r]
    BY <1>2, <1>3, AfterType DEF Eco!Owed
  <2>3. Carried' = Eco!After(Eco!Owed, 0)
    BY <1>1, <1>2, <2>1, SameAfter
  <2>4. Carried' = Eco!Owed
    BY <1>3, <2>2, <2>3, NoTime
  <2> QED
    BY <1>4, <2>1, <2>2, <2>4
<1> QED
  BY <1>5, <1>6

\* No window is credited twice (svc/resources.go:24): with any orders, looks and
\* moments between them, nobody comes to hold more than the levels in force yielded
\* but in a step that raises a level.
THEOREM NobodyOvercreditedHolds == Eco!Spec => Eco!NobodyOvercredited
<1>1. ASSUME EconomyInv, EconomyInv', Eco!Next, Eco!NotMore, level' = level PROVE Eco!NotMore'
  <2>1. /\ \A r \in 1..3 : Eco!Owed[r] <= produced[r]
        /\ purse # Eco!NoPurse => \A r \in 1..3 : purse.stock[r] <= produced[r]
    BY <1>1 DEF Eco!NotMore, Eco!Resources
  <2> SUFFICES /\ \A r \in 1..3 : Eco!Owed'[r] <= produced'[r]
               /\ purse' # Eco!NoPurse => \A r \in 1..3 : purse'.stock[r] <= produced'[r]
    BY DEF Eco!NotMore, Eco!Resources, Eco!NoPurse
  <2>2. /\ Eco!Owed \in [1..3 -> Nat] /\ produced \in [1..3 -> Int] /\ EconomyLevels
        /\ stock \in [1..3 -> Nat]
    BY <1>1, Windows, AfterType DEF EconomyInv, Stocked, Eco!Owed
  <2>3. CASE Eco!Tick
    <3>1. UNCHANGED <<level, stock, updated, purse, order>>
      BY <2>3 DEF Eco!Tick
    <3>2. PICK moments \in Nat :
            /\ produced' = Eco!After(produced, moments)
            /\ Eco!After(stock, clock' - updated) = Eco!After(Eco!Owed, moments)
      BY <1>1, <2>2, <2>3, Windows, TickComposes DEF EconomyInv, Eco!Owed
    <3>3. Eco!Owed' = Eco!After(Eco!Owed, moments)
      BY <3>1, <3>2, SameAfter
    <3>4. ASSUME NEW r \in 1..3 PROVE Eco!Owed'[r] <= produced'[r]
      BY <2>1, <2>2, <3>2, <3>3, AfterMonotone
    <3>5. ASSUME purse # Eco!NoPurse, NEW r \in 1..3 PROVE purse.stock[r] <= produced'[r]
      <4>1. /\ purse.stock \in [1..3 -> Nat] /\ purse.stock[r] <= Eco!StoreCapacity[r]
            /\ purse.stock[r] <= produced[r]
        BY <1>1, <2>1, <3>5 DEF EconomyInv, Read
      <4>2. /\ purse.stock[r] <= Eco!After(purse.stock, moments)[r]
            /\ Eco!After(purse.stock, moments)[r] <= produced'[r]
        BY <2>2, <3>2, <4>1, AfterMonotone
      <4>3. Eco!After(purse.stock, moments) \in [1..3 -> Nat] /\ produced' \in [1..3 -> Int]
        BY <1>1, <2>2, <4>1, AfterType DEF EconomyInv
      <4> QED
        BY <4>1, <4>2, <4>3
    <3> QED
      BY <3>1, <3>4, <3>5
  <2>4. CASE Eco!Refresh
    <3>1. Eco!Owed' = stock' /\ stock' = Eco!Owed
      BY <1>1, <2>4, OwesStock DEF Eco!Refresh, Eco!Refreshed, Eco!Owed
    <3> QED
      BY <2>1, <2>4, <3>1 DEF Eco!Refresh
  <2>5. ASSUME NEW x \in Orders, Eco!OrderBegin(x)
        PROVE  /\ \A r \in 1..3 : Eco!Owed'[r] <= produced'[r]
               /\ \A r \in 1..3 : purse'.stock[r] <= produced'[r]
    <3>1. produced' = produced
      BY <2>5 DEF Eco!OrderBegin
    <3>2. /\ \A r \in 1..3 : purse'.stock[r] <= Eco!Owed[r]
          /\ Eco!Owed' = Eco!Owed
      BY <1>1, <2>5, ReadsOwed
    <3>3. purse'.stock \in [1..3 -> Nat]
      BY <1>1, <2>5, RefreshedType DEF Eco!OrderBegin
    <3> QED
      BY <2>1, <2>2, <3>1, <3>2, <3>3
  <2>6. CASE Eco!OrderPay
    <3>1. PICK price \in [1..3 -> Nat] :
            /\ stock' = [r \in 1..3 |-> purse.stock[r] - 7200 * price[r]]
            /\ produced' = [r \in 1..3 |-> produced[r] - 7200 * price[r]]
      BY <1>1, <2>6, PriceFits
    <3>2. Eco!Owed' = stock' /\ purse # Eco!NoPurse /\ purse' = Eco!NoPurse
      BY <1>1, <2>6, OwesStock DEF Eco!OrderPay
    <3>3. purse.stock \in [1..3 -> Nat]
      BY <1>1, <3>2 DEF EconomyInv, Read
    <3> QED
      BY <2>1, <2>2, <3>1, <3>2, <3>3
  <2>7. CASE Eco!OrderFail
    <3>1. UNCHANGED <<clock, level, stock, updated, order, produced>> /\ purse' = Eco!NoPurse
      BY <2>7 DEF Eco!OrderFail
    <3>2. Eco!Owed' = Eco!Owed
      BY <3>1, SameAfter DEF Eco!Owed
    <3> QED
      BY <2>1, <3>1, <3>2
  <2>8. ~Eco!Sweep
    BY <1>1, SweepRaises
  <2> QED
    BY <1>1, <2>3, <2>4, <2>5, <2>6, <2>7, <2>8 DEF Eco!Next
<1>2. EconomyInv /\ EconomyInv' /\ [Eco!Next]_economyVars => [~Eco!Overcredits]_economyVars
  BY <1>1 DEF Eco!Overcredits
<1>3. Eco!Spec => [][~Eco!Overcredits]_economyVars
  BY <1>2, EconomyAlways, PTL
<1> QED
  BY <1>3 DEF Eco!NobodyOvercredited, Eco!vars, economyVars

\* The planet, and the order that holds its lock, will have been credited exactly
\* what the levels in force yielded.
Exact ==
  /\ Eco!Owed = produced
  /\ purse # Eco!NoPurse => Carried = produced

\* An order is paid that credited nothing from purse.upto on: the planet loses at
\* most the yield of that time.
Forfeits ==
  /\ Eco!OrderPay /\ purse.upto < clock
  /\ \A r \in 1..3 :
       produced'[r] - Eco!Owed'[r] \in 0..((clock - purse.upto) * Eco!PerHour[r])

LEMMA PayForfeits ==
  ASSUME EconomyInv, EconomyInv', Eco!OrderPay, Exact PROVE Exact' \/ Forfeits
<1>1. PICK price \in [1..3 -> Nat] :
        /\ stock' = [r \in 1..3 |-> purse.stock[r] - 7200 * price[r]]
        /\ produced' = [r \in 1..3 |-> produced[r] - 7200 * price[r]]
  BY PriceFits
<1>2. /\ purse # Eco!NoPurse /\ purse' = Eco!NoPurse /\ Eco!Owed' = stock'
      /\ produced = Eco!After(purse.stock, clock - purse.upto)
  BY OwesStock DEF Eco!OrderPay, Exact, Carried
<1>3. /\ purse.stock \in [1..3 -> Nat] /\ clock \in Nat /\ purse.upto \in Nat
      /\ purse.upto <= clock
      /\ \A r \in 1..3 : purse.stock[r] <= Eco!StoreCapacity[r]
  BY <1>2 DEF EconomyInv, Read
<1>4. CASE purse.upto = clock
  <2>1. clock - purse.upto = 0
    BY <1>3, <1>4
  <2>2. produced = purse.stock
    BY <1>2, <1>3, <2>1, NoTime DEF EconomyInv
  <2> QED
    BY <1>1, <1>2, <2>2 DEF Exact
<1>5. CASE purse.upto # clock
  <2>1. purse.upto < clock /\ clock - purse.upto \in Nat
    BY <1>3, <1>5
  <2>2. ASSUME NEW r \in 1..3
        PROVE  produced'[r] - Eco!Owed'[r] \in 0..((clock - purse.upto) * Eco!PerHour[r])
    <3> DEFINE most == (clock - purse.upto) * Eco!PerHour[r]
    <3>1. most \in Nat
      BY <2>1, PerHourType, ProductType DEF EconomyInv, EconomyLevels
    <3>2. purse.stock[r] <= produced[r] /\ produced[r] <= purse.stock[r] + most
      BY <1>2, <1>3, <2>1, AfterMonotone DEF EconomyInv
    <3>3. produced[r] \in Int /\ purse.stock[r] \in Nat /\ price[r] \in Nat
      BY <1>3 DEF EconomyInv
    <3>4. produced'[r] = produced[r] - 7200 * price[r]
          /\ Eco!Owed'[r] = purse.stock[r] - 7200 * price[r]
      BY <1>1, <1>2
    <3> HIDE DEF most
    <3>5. produced'[r] - Eco!Owed'[r] \in 0..most
      BY <3>1, <3>2, <3>3, <3>4
    <3> QED
      BY <3>5 DEF most
  <2> QED
    BY <2>1, <2>2 DEF Forfeits
<1> QED
  BY <1>4, <1>5

\* While a planet is exact, what it holds after an update is what the levels in
\* force yielded (svc/resources.go:13-16).  But for raising a level, the only step
\* that ends it is the payment of an order that was refreshed within a second of
\* the last update, or earlier than it pays (svc/build.go:112,129 and
\* svc/resources.go:53-56), and the planet loses that time's yield and no more.
THEOREM OnlyLevelsAndOrdersMisprice ==
  Eco!Spec => /\ Exact /\ [](Exact => Eco!WindowsAtTheirRate)
              /\ [][Exact /\ level' = level => Exact' \/ Forfeits]_economyVars
<1>1. Eco!Init => Exact
  <2> SUFFICES ASSUME Eco!Init PROVE Exact
    OBVIOUS
  <2>1. EconomyInv /\ clock - updated = 0
    BY EconomyInit DEF Eco!Init
  <2>2. Eco!Owed = stock
    BY <2>1, NoTime DEF EconomyInv, Stocked, Eco!Owed
  <2> QED
    BY <2>2 DEF Eco!Init, Exact
<1>2. EconomyInv => (Exact => Eco!WindowsAtTheirRate)
  <2> SUFFICES ASSUME EconomyInv, Exact, updated = clock PROVE stock = produced
    BY DEF Eco!WindowsAtTheirRate
  <2>1. clock - updated = 0
    BY DEF EconomyInv
  <2>2. Eco!Owed = stock
    BY <2>1, NoTime DEF EconomyInv, Stocked, Eco!Owed
  <2> QED
    BY <2>2 DEF Exact
<1>3. ASSUME EconomyInv, EconomyInv', Eco!Next, Exact, level' = level PROVE Exact' \/ Forfeits
  <2>1. /\ stock \in [1..3 -> Nat] /\ updated \in Nat /\ clock - updated \in Nat
    BY <1>3, Windows DEF EconomyInv, Stocked
  <2>2. CASE Eco!Tick
    <3>1. UNCHANGED <<level, stock, updated, purse, order>>
      BY <2>2 DEF Eco!Tick
    <3>2. Eco!Owed' = produced'
      <4>1. PICK moments \in Nat :
              /\ produced' = Eco!After(produced, moments)
              /\ Eco!After(stock, clock' - updated) = Eco!After(Eco!Owed, moments)
        BY <1>3, <2>1, <2>2, TickComposes DEF Eco!Owed
      <4> QED
        BY <1>3, <3>1, <4>1, SameAfter DEF Exact
    <3>3. ASSUME purse' # Eco!NoPurse PROVE Carried' = produced'
      <4>1. /\ purse # Eco!NoPurse /\ purse.stock \in [1..3 -> Nat]
            /\ purse.upto \in Nat /\ clock - purse.upto \in Nat
        BY <1>3, <3>1, <3>3, Windows DEF EconomyInv, Read
      <4>2. PICK moments \in Nat :
              /\ produced' = Eco!After(produced, moments)
              /\ Eco!After(purse.stock, clock' - purse.upto) = Eco!After(Carried, moments)
        BY <1>3, <2>2, <4>1, TickComposes DEF Carried
      <4> QED
        BY <1>3, <3>1, <4>1, <4>2, SameAfter DEF Exact
    <3> QED
      BY <3>2, <3>3 DEF Exact, Eco!NoPurse
  <2>3. CASE Eco!Refresh
    <3>1. Eco!Owed' = stock' /\ stock' = Eco!Owed
      BY <1>3, <2>3, OwesStock DEF Eco!Refresh, Eco!Refreshed, Eco!Owed
    <3>2. purse' = Eco!NoPurse /\ produced' = produced
      BY <2>3 DEF Eco!Refresh
    <3> QED
      BY <1>3, <3>1, <3>2 DEF Exact, Eco!NoPurse
  <2>4. ASSUME NEW x \in Orders, Eco!OrderBegin(x) PROVE Exact'
    <3>1. produced' = produced
      BY <2>4 DEF Eco!OrderBegin
    <3>2. Carried' = Eco!Owed /\ Eco!Owed' = Eco!Owed
      BY <1>3, <2>4, ReadsOwed
    <3> QED
      BY <1>3, <3>1, <3>2 DEF Exact
  <2>5. CASE Eco!OrderPay
    BY <1>3, <2>5, PayForfeits
  <2>6. CASE Eco!OrderFail
    <3>1. UNCHANGED <<clock, level, stock, updated, order, produced>> /\ purse' = Eco!NoPurse
      BY <2>6 DEF Eco!OrderFail
    <3>2. Eco!Owed' = Eco!Owed
      BY <3>1, SameAfter DEF Eco!Owed
    <3> QED
      BY <1>3, <3>1, <3>2 DEF Exact, Eco!NoPurse
  <2>7. ~Eco!Sweep
    BY <1>3, SweepRaises
  <2> QED
    BY <1>3, <2>2, <2>3, <2>4, <2>5, <2>6, <2>7 DEF Eco!Next
<1>4. ASSUME UNCHANGED economyVars, Exact, level' = level PROVE Exact'
  <2>1. UNCHANGED <<clock, level, stock, updated, purse, order, produced>>
    BY <1>4 DEF economyVars
  <2>2. Eco!Owed' = Eco!Owed /\ Carried' = Carried
    BY <2>1, SameAfter DEF Eco!Owed, Carried
  <2> QED
    BY <1>4, <2>1, <2>2 DEF Exact, Eco!NoPurse
<1>5. EconomyInv /\ EconomyInv' /\ [Eco!Next]_economyVars
        => [Exact /\ level' = level => Exact' \/ Forfeits]_economyVars
  BY <1>3, <1>4
<1> QED
  BY <1>1, <1>2, <1>5, EconomyAlways, PTL DEF Eco!Spec
=============================================================================
