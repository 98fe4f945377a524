---------------------------- MODULE FleetsProofs ----------------------------
(***************************************************************************)
(* What TLAPS proves of Fleets for every set of planets, every number of   *)
(* handlers, schedulers and fleets, and every price, speed and capacity.   *)
(***************************************************************************)
EXTENDS Fleets, TLAPS, FiniteSetTheorems, SequenceTheorems, SumProofs

(***************************************************************************)
(* The inductive invariant: what the rows are, what a transaction of each  *)
(* kind holds, and how what it holds relates to the committed rows.        *)
(***************************************************************************)
FleetHeld(t, i) == draft[t].fleets[i] # Untouched
PlanetHeld(t, p) == draft[t].planets[p] # Untouched
Sweeping(t) == pc[t] \in {"arrivals", "returns"}

\* A fleet with this row still has its ships and cargo aboard.
Aloft(f) == f.status \in {"outbound", "returning"} /\ ~f.home

\* What no handler of a sweep changes of a fleet.
SameFleet(f, g) ==
  /\ f.origin = g.origin /\ f.target = g.target /\ f.mission = g.mission
  /\ f.departure = g.departure /\ f.ships = g.ships

\* Every row was written in the past; a status goes with its flags.
RowsSound ==
  \A i \in DOMAIN fleet :
    /\ fleet[i].departure <= clock
    /\ fleet[i].status = "outbound" => ~fleet[i].home /\ ~fleet[i].arrived
    /\ fleet[i].status = "returned" => fleet[i].home

PlanetsPast ==
  \A p \in Planets :
    /\ planet[p].updated <= clock
    /\ \A t \in Txs : PlanetHeld(t, p) => draft[t].planets[p].updated <= clock

RecallsPast ==
  \A t \in Txs : pc[t] = "recalling" =>
    /\ job[t].fleet \in DOMAIN fleet
    /\ fleet[job[t].fleet].departure <= job[t].now

\* A row has one writer at a time.
Locks ==
  \A t, u \in Txs : t # u =>
    /\ \A i \in Ids : ~(FleetHeld(t, i) /\ FleetHeld(u, i))
    /\ \A p \in Planets : ~(PlanetHeld(t, p) /\ PlanetHeld(u, p))

\* Who has not locked anything holds nothing.
Quiet ==
  \A t \in Txs : pc[t] \in {"idle", "recalling"} => draft[t] = Blank /\ todo[t] = {}

\* A dispatch holds planets only, refreshed: nothing came from nowhere.
Dispatching ==
  \A t \in Txs : pc[t] = "dispatching" =>
    /\ todo[t] = {} /\ draft[t].lost = 0
    /\ \A i \in Ids : ~FleetHeld(t, i)
    /\ \A p \in Planets : PlanetHeld(t, p) =>
         /\ draft[t].planets[p].ships = planet[p].ships
         /\ draft[t].planets[p].metal + Rate * planet[p].updated
              <= planet[p].metal + Rate * draft[t].planets[p].updated

\* A fleet in the hands of a sweep: as it was committed until it is handled,
\* still in the state the sweep claimed it for in the table.
HeldFleet(t, i) ==
  /\ i \in DOMAIN fleet
  /\ SameFleet(draft[t].fleets[i], fleet[i])
  /\ i \in todo[t] => draft[t].fleets[i] = fleet[i]
  /\ pc[t] = "arrivals" =>
       /\ fleet[i].status = "outbound"
       /\ i \notin todo[t] => /\ draft[t].fleets[i].status \in {"returning", "deleted"}
                              /\ ~draft[t].fleets[i].home
  /\ pc[t] = "returns" =>
       /\ fleet[i].status = "returning" /\ ~fleet[i].home
       /\ draft[t].fleets[i].arrived = fleet[i].arrived
       /\ i \notin todo[t] => draft[t].fleets[i].status = "returned" /\ draft[t].fleets[i].home

Held ==
  \A t \in Txs, i \in Ids :
    /\ i \in todo[t] => FleetHeld(t, i)
    /\ FleetHeld(t, i) => HeldFleet(t, i)

Inv ==
  /\ TypeOK /\ RowsSound /\ PlanetsPast /\ RecallsPast
  /\ Locks /\ Quiet /\ Dispatching /\ Held

-----------------------------------------------------------------------------
(* Types of the rows the actions compute.                                  *)

LEMMA Constants ==
  /\ IsFiniteSet(Planets)
  /\ Rate \in Nat /\ Storage \in Nat /\ Horizon \in Nat /\ MaxFleets \in Nat
  /\ StartMetal \in Nat /\ StartShips \in Nat /\ Capacity \in Nat /\ Fuel \in Nat
  /\ Untouched \notin PlanetRow /\ Untouched \notin FleetRow
BY FleetConstantsOK, UntouchedIsNoRow

\* Production never moves a ship, and yields at most Rate a second.
LEMMA RefreshedFacts ==
  ASSUME clock \in 0..Horizon, NEW row \in PlanetRow, row.updated <= clock
  PROVE  /\ Refreshed(row) \in PlanetRow
         /\ Refreshed(row).ships = row.ships
         /\ row.updated <= Refreshed(row).updated
         /\ Refreshed(row).updated <= clock
         /\ Refreshed(row).metal + Rate * row.updated
              <= row.metal + Rate * Refreshed(row).updated
<1> DEFINE full == row.metal + Rate * (clock - row.updated)
           stock == IF full > Storage THEN Storage ELSE full
           new == [row EXCEPT !.metal = stock, !.updated = clock]
<1>1. /\ row.metal \in Nat /\ row.updated \in 0..Horizon /\ row.ships \in Nat
      /\ row.updated \in Nat /\ clock \in Nat /\ Rate \in Nat /\ Storage \in Nat
      /\ Horizon \in Nat
  BY Constants DEF PlanetRow
<1>2. CASE clock - row.updated < 1
  <2>1. Refreshed(row) = row
    BY <1>2 DEF Refreshed
  <2>2. Rate * row.updated \in Nat
    BY <1>1
  <2> QED
    BY <1>1, <2>1, <2>2
<1>3. CASE ~(clock - row.updated < 1)
  <2>1. Refreshed(row) = new
    BY <1>3 DEF Refreshed
  <2>2. Rate * (clock - row.updated) \in Nat
    BY <1>1
  <2>3. full \in Nat /\ stock \in Nat /\ stock <= full
    BY <1>1, <2>2
  <2>4. Rate * (clock - row.updated) + Rate * row.updated = Rate * clock
    BY <1>1
  <2>5. Rate * row.updated \in Nat /\ Rate * clock \in Nat
    BY <1>1
  <2> HIDE DEF stock
  <2>6. /\ new \in PlanetRow /\ new.metal = stock /\ new.updated = clock
        /\ new.ships = row.ships
    BY <1>1, <2>3 DEF PlanetRow
  <2>7. stock + Rate * row.updated <= row.metal + Rate * clock
    BY <1>1, <2>2, <2>3, <2>4, <2>5
  <2> HIDE DEF new
  <2> QED
    BY <1>1, <2>1, <2>6, <2>7
<1> QED
  BY <1>2, <1>3

LEMMA CreditFacts ==
  ASSUME clock \in 0..Horizon, NEW row \in PlanetRow, row.updated <= clock, NEW n \in Nat
  PROVE  /\ Credit(row, n) \in PlanetRow
         /\ Credit(row, n).ships = row.ships
         /\ Credit(row, n).updated <= clock
         /\ Credit(row, n).metal + Rate * row.updated
              <= row.metal + n + Rate * Credit(row, n).updated
<1>1. /\ row.metal \in Nat /\ row.updated \in Nat /\ row.ships \in Nat
      /\ clock \in Nat /\ Rate \in Nat /\ Horizon \in Nat
  BY Constants DEF PlanetRow
<1>2. Rate * row.updated \in Nat /\ Rate * clock \in Nat
  BY <1>1
<1>3. CASE n > 0
  <2> DEFINE stock == row.metal + n
             new == [row EXCEPT !.metal = stock, !.updated = clock]
  <2>0. stock \in Nat
    BY <1>1
  <2>1. /\ new \in PlanetRow /\ new.metal = stock /\ new.updated = clock
        /\ new.ships = row.ships
    <3> HIDE DEF stock
    <3> QED
      BY <1>1, <2>0 DEF PlanetRow
  <2>2. Credit(row, n) = new
    BY <1>3 DEF Credit
  <2>3. Rate * row.updated <= Rate * clock
    <3>1. Rate * (clock - row.updated) \in Nat
      BY <1>1
    <3>2. Rate * (clock - row.updated) = Rate * clock - Rate * row.updated
      BY <1>1
    <3> QED
      BY <1>2, <3>1, <3>2
  <2> HIDE DEF new
  <2> QED
    BY <1>1, <1>2, <2>1, <2>2, <2>3
<1>4. CASE ~(n > 0)
  <2>1. Credit(row, n) = row /\ n = 0
    BY <1>4 DEF Credit
  <2> QED
    BY <1>1, <1>2, <2>1
<1> QED
  BY <1>3, <1>4

LEMMA TurnedAroundFacts ==
  ASSUME clock \in 0..Horizon, NEW f \in FleetRow, f.departure <= clock
  PROVE  /\ TurnedAround(f) \in FleetRow
         /\ SameFleet(TurnedAround(f), f)
         /\ TurnedAround(f).status = "returning"
         /\ TurnedAround(f).home = f.home
         /\ TurnedAround(f).cargo = f.cargo
<1>1. clock + (clock - f.departure) \in Nat
  BY Constants DEF FleetRow
<1> QED
  BY <1>1 DEF TurnedAround, SameFleet, FleetRow

LEMMA DeletedFacts ==
  ASSUME NEW f \in FleetRow
  PROVE  /\ Deleted(f) \in FleetRow
         /\ SameFleet(Deleted(f), f)
         /\ Deleted(f).status = "deleted"
         /\ Deleted(f).home = f.home
BY DEF Deleted, SameFleet, FleetRow

\* What a transaction sees of a planet.
LEMMA SeenFacts ==
  ASSUME TypeOK, PlanetsPast, NEW t \in Txs, NEW p \in Planets
  PROVE  PlanetSeen(t, p) \in PlanetRow /\ PlanetSeen(t, p).updated <= clock
BY DEF TypeOK, PlanetsPast, PlanetHeld, PlanetSeen

-----------------------------------------------------------------------------
(* The handlers of the sweeps, whatever the mission: the fleet leaves todo *)
(* with a row its sweep may write, and what it no longer carries is at the *)
(* planet or destroyed.                                                    *)

Outcome(s, i, f) ==
  /\ Sweeping(s) /\ i \in todo[s]
  /\ f \in FleetRow /\ SameFleet(f, draft[s].fleets[i])
  /\ pc[s] = "arrivals" => f.status \in {"returning", "deleted"} /\ ~f.home
  /\ pc[s] = "returns" =>
       f.status = "returned" /\ f.home /\ f.arrived = draft[s].fleets[i].arrived

ShipsAboard(f) == IF Aloft(f) THEN f.ships ELSE 0
CargoAboard(f) == IF Aloft(f) THEN f.cargo ELSE 0

HandledAway(s, i, f) ==
  /\ Outcome(s, i, f) /\ Handle(s, i, f)
  /\ Aloft(f) /\ f.cargo = draft[s].fleets[i].cargo

Conserves(seen, row, n, d, f) ==
  /\ row.ships + n + ShipsAboard(f) = seen.ships + d.ships
  /\ row.metal + CargoAboard(f) + Rate * seen.updated
       <= seen.metal + d.cargo + Rate * row.updated

HandledAt(s, i, f, p, row, n) ==
  /\ Outcome(s, i, f) /\ HandleAt(s, i, f, p, row, n)
  /\ p \in Planets /\ row \in PlanetRow /\ row.updated <= clock /\ n \in Nat
  /\ Conserves(PlanetSeen(s, p), row, n, draft[s].fleets[i], f)

Handled(s) ==
  \E i \in Ids, f \in FleetRow :
    \/ HandledAway(s, i, f)
    \/ \E p \in Planets, row \in PlanetRow, n \in Nat : HandledAt(s, i, f, p, row, n)

\* A fleet in todo is drafted as it was committed.
LEMMA TodoFacts ==
  ASSUME Inv, NEW s \in Txs, NEW i \in todo[s]
  PROVE  /\ i \in Ids /\ i \in DOMAIN fleet
         /\ draft[s].fleets[i] \in FleetRow
         /\ draft[s].fleets[i] = fleet[i]
         /\ draft[s].fleets[i].departure <= clock
         /\ pc[s] = "arrivals" => draft[s].fleets[i].status = "outbound" /\ ~draft[s].fleets[i].home
         /\ pc[s] = "returns" => draft[s].fleets[i].status = "returning" /\ ~draft[s].fleets[i].home
<1>1. i \in Ids
  BY DEF Inv, TypeOK
<1>2. FleetHeld(s, i) /\ HeldFleet(s, i)
  BY <1>1 DEF Inv, Held
<1>3. i \in DOMAIN fleet /\ draft[s].fleets[i] = fleet[i]
  BY <1>2 DEF HeldFleet
<1>4. fleet[i] \in FleetRow
  BY <1>3 DEF Inv, TypeOK
<1> QED
  BY <1>1, <1>2, <1>3, <1>4 DEF Inv, RowsSound, HeldFleet

LEMMA TurnAroundIs ==
  ASSUME Inv, NEW s \in Txs, NEW i \in Ids, TurnAround(s, i)
  PROVE  \E f \in FleetRow : HandledAway(s, i, f)
<1> DEFINE d == draft[s].fleets[i]
<1>1. pc[s] = "arrivals" /\ i \in todo[s] /\ Handle(s, i, TurnedAround(d))
  BY DEF TurnAround, IsNext
<1>2. d \in FleetRow /\ d.departure <= clock /\ d.status = "outbound" /\ ~d.home
  BY <1>1, TodoFacts
<1>3. clock \in 0..Horizon
  BY DEF Inv, TypeOK
<1> HIDE DEF d
<1>4. /\ TurnedAround(d) \in FleetRow /\ SameFleet(TurnedAround(d), d)
      /\ TurnedAround(d).status = "returning" /\ TurnedAround(d).home = d.home
      /\ TurnedAround(d).cargo = d.cargo
  BY <1>2, <1>3, TurnedAroundFacts
<1>5. HandledAway(s, i, TurnedAround(d))
  BY <1>1, <1>2, <1>4 DEF HandledAway, Outcome, Sweeping, Aloft, d
<1> QED
  BY <1>4, <1>5

\* A fleet turned around at a planet that becomes row, with cargo c aboard.
LEMMA TurnedAt ==
  ASSUME Inv, NEW s \in Txs, NEW i \in todo[s], pc[s] = "arrivals",
         NEW c \in Nat, NEW p \in Planets, NEW row \in PlanetRow, NEW n \in Nat,
         NEW f, f = [TurnedAround(draft[s].fleets[i]) EXCEPT !.cargo = c],
         HandleAt(s, i, f, p, row, n), row.updated <= clock,
         row.ships + n = PlanetSeen(s, p).ships,
         row.metal + c + Rate * PlanetSeen(s, p).updated
           <= PlanetSeen(s, p).metal + draft[s].fleets[i].cargo + Rate * row.updated
  PROVE  f \in FleetRow /\ HandledAt(s, i, f, p, row, n)
<1> DEFINE d == draft[s].fleets[i]
<1>2. d \in FleetRow /\ d.departure <= clock /\ d.status = "outbound" /\ ~d.home
  BY TodoFacts
<1>3. clock \in 0..Horizon
  BY DEF Inv, TypeOK
<1>4. /\ TurnedAround(d) \in FleetRow /\ SameFleet(TurnedAround(d), d)
      /\ TurnedAround(d).status = "returning" /\ TurnedAround(d).home = d.home
  BY <1>2, <1>3, TurnedAroundFacts
<1>5. f \in FleetRow /\ SameFleet(f, d) /\ f.status = "returning" /\ ~f.home /\ f.cargo = c
  <2> DEFINE g == TurnedAround(d)
  <2>1. f = [g EXCEPT !.cargo = c]
    OBVIOUS
  <2> HIDE DEF g
  <2>2. f \in FleetRow /\ f.cargo = c
    BY <1>4, <2>1 DEF g, FleetRow
  <2>3. /\ f.origin = g.origin /\ f.target = g.target /\ f.mission = g.mission
        /\ f.departure = g.departure /\ f.ships = g.ships
        /\ f.status = g.status /\ f.home = g.home
    BY <1>4, <2>1 DEF g, FleetRow
  <2> QED
    BY <1>2, <1>4, <2>2, <2>3 DEF SameFleet, g
<1>6. Outcome(s, i, f)
  BY <1>5 DEF Outcome, Sweeping
<1>7. ShipsAboard(f) = d.ships /\ CargoAboard(f) = c
  BY <1>5 DEF ShipsAboard, CargoAboard, Aloft, SameFleet
<1>8. Conserves(PlanetSeen(s, p), row, n, d, f)
  BY <1>7 DEF Conserves
<1> QED
  BY <1>5, <1>6, <1>8 DEF HandledAt

\* The row of the target a sweep works on: as it sees it, refreshed.
LEMMA TargetFacts ==
  ASSUME Inv, NEW s \in Txs, NEW p \in Planets
  PROVE  LET seen == PlanetSeen(s, p)
             row == Refreshed(seen)
         IN /\ seen \in PlanetRow /\ row \in PlanetRow
            /\ row.updated <= clock /\ row.ships = seen.ships
            /\ row.metal + Rate * seen.updated <= seen.metal + Rate * row.updated
BY SeenFacts, RefreshedFacts DEF Inv, TypeOK

LEMMA PlanetOfFleet ==
  ASSUME Inv, NEW s \in Txs, NEW i \in todo[s]
  PROVE  /\ draft[s].fleets[i].origin \in Planets
         /\ draft[s].fleets[i].target # NoPlanet => draft[s].fleets[i].target \in Planets
         /\ draft[s].fleets[i].ships \in Nat /\ draft[s].fleets[i].cargo \in Nat
BY TodoFacts DEF FleetRow

\* The loot fits into the fleet and is there.
LEMMA LootFacts ==
  ASSUME NEW f \in FleetRow, NEW row \in PlanetRow
  PROVE  /\ Loot(f, row) \in Int
         /\ f.cargo + Loot(f, row) \in Nat
         /\ row.metal - Loot(f, row) \in Nat
<1> DEFINE hold == f.ships * Capacity
           half == row.metal \div 2
<1>1. f.ships \in Nat /\ f.cargo \in Nat /\ Capacity \in Nat /\ row.metal \in Nat
  BY Constants DEF FleetRow, PlanetRow
<1>2. hold \in Nat
  BY <1>1
<1>3. half \in Nat /\ half <= row.metal
  BY <1>1
<1>4. Loot(f, row) = IF hold - f.cargo < half THEN hold - f.cargo ELSE half
  BY DEF Loot
<1> HIDE DEF hold, half
<1>5. f.cargo + (hold - f.cargo) = hold
  BY <1>1, <1>2
<1> QED
  BY <1>1, <1>2, <1>3, <1>4, <1>5

LEMMA AttackIs ==
  ASSUME Inv, NEW s \in Txs, NEW i \in Ids, Attack(s, i)
  PROVE  Handled(s)
<1> DEFINE d == draft[s].fleets[i]
           p == d.target
           seen == PlanetSeen(s, p)
           row == Refreshed(seen)
<1>1. pc[s] = "arrivals" /\ i \in todo[s] /\ p # NoPlanet
  BY DEF Attack, IsNext
<1>2. d \in FleetRow /\ d.departure <= clock /\ p \in Planets
  BY <1>1, TodoFacts, PlanetOfFleet
<1>3. /\ seen \in PlanetRow /\ row \in PlanetRow
      /\ row.updated <= clock /\ row.ships = seen.ships
      /\ row.metal + Rate * seen.updated <= seen.metal + Rate * row.updated
  BY <1>2, TargetFacts
<1>4. clock \in 0..Horizon /\ clock \in Nat /\ Rate \in Nat
  BY Constants DEF Inv, TypeOK
<1>5. TurnedAround(d) \in FleetRow /\ TurnedAround(d).cargo = d.cargo
  BY <1>2, <1>4, TurnedAroundFacts
<1>6. CASE /\ row.ships = 0
           /\ HandleAt(s, i, [TurnedAround(d) EXCEPT !.cargo = d.cargo + Loot(d, row)], p,
                       [row EXCEPT !.metal = @ - Loot(d, row), !.updated = clock], 0)
  <2> DEFINE loot == Loot(d, row)
             left == row.metal - loot
             new == [row EXCEPT !.metal = left, !.updated = clock]
             f == [TurnedAround(d) EXCEPT !.cargo = d.cargo + loot]
  <2>1. loot \in Int /\ d.cargo + loot \in Nat /\ left \in Nat
    BY <1>2, <1>3, LootFacts
  <2>2. /\ new \in PlanetRow /\ new.metal = left /\ new.updated = clock
        /\ new.ships = row.ships
    <3> HIDE DEF row, left
    <3> QED
      BY <1>3, <1>4, <2>1 DEF PlanetRow
  <2>3. HandleAt(s, i, f, p, new, 0)
    BY <1>6
  <2>4. new.metal + (d.cargo + loot) + Rate * seen.updated
          <= seen.metal + d.cargo + Rate * new.updated
    <3>1. /\ row.updated \in Nat /\ seen.updated \in Nat /\ row.metal \in Nat /\ seen.metal \in Nat
          /\ d.cargo \in Nat
      BY <1>2, <1>3, Constants DEF PlanetRow, FleetRow
    <3>2. Rate * row.updated \in Nat /\ Rate * seen.updated \in Nat /\ Rate * clock \in Nat
      BY <1>4, <3>1
    <3>3. Rate * row.updated <= Rate * clock
      <4>1. Rate * (clock - row.updated) \in Nat
        BY <1>3, <1>4, <3>1
      <4>2. Rate * (clock - row.updated) = Rate * clock - Rate * row.updated
        BY <1>4, <3>1
      <4> QED
        BY <3>2, <4>1, <4>2
    <3> HIDE DEF row, loot, seen, d, new
    <3> QED
      BY <1>3, <2>1, <2>2, <3>1, <3>2, <3>3
  <2>5. new.ships + 0 = seen.ships
    <3>1. seen.ships \in Nat
      BY <1>3 DEF PlanetRow
    <3> QED
      BY <1>3, <2>2, <3>1
  <2>6. new.updated <= clock
    BY <1>4, <2>2
  <2> HIDE DEF new
  <2>7. f \in FleetRow /\ HandledAt(s, i, f, p, new, 0)
    BY <1>1, <1>2, <2>1, <2>2, <2>3, <2>4, <2>5, <2>6, TurnedAt
  <2> QED
    BY <1>2, <2>2, <2>7 DEF Handled
<1>7. CASE \E killed \in 0..row.ships :
             HandleAt(s, i, TurnedAround(d), p, [row EXCEPT !.ships = @ - killed], killed)
  <2> PICK killed \in 0..row.ships :
             HandleAt(s, i, TurnedAround(d), p, [row EXCEPT !.ships = @ - killed], killed)
    BY <1>7
  <2> DEFINE left == row.ships - killed
             new == [row EXCEPT !.ships = left]
             f == [TurnedAround(d) EXCEPT !.cargo = d.cargo]
  <2>1. row.ships \in Nat /\ killed \in Nat /\ left \in Nat
    BY <1>3 DEF PlanetRow
  <2>2. /\ new \in PlanetRow /\ new.metal = row.metal /\ new.updated = row.updated
        /\ new.ships = left
    <3> HIDE DEF row, left
    <3> QED
      BY <1>3, <2>1 DEF PlanetRow
  <2>3. HandleAt(s, i, TurnedAround(d), p, new, killed)
    OBVIOUS
  <2>4. f = TurnedAround(d)
    <3> DEFINE g == TurnedAround(d)
    <3>1. g \in FleetRow /\ g.cargo = d.cargo
      BY <1>5
    <3> HIDE DEF g
    <3>2. [g EXCEPT !.cargo = g.cargo] = g
      BY <3>1 DEF FleetRow
    <3> QED
      BY <3>1, <3>2 DEF g
  <2>5. new.metal + d.cargo + Rate * seen.updated
          <= seen.metal + d.cargo + Rate * new.updated
    <3>1. /\ row.updated \in Nat /\ seen.updated \in Nat /\ row.metal \in Nat /\ seen.metal \in Nat
          /\ d.cargo \in Nat
      BY <1>2, <1>3, Constants DEF PlanetRow, FleetRow
    <3>2. Rate * row.updated \in Nat /\ Rate * seen.updated \in Nat
      BY <1>4, <3>1
    <3> HIDE DEF row, seen, d, new
    <3> QED
      BY <1>3, <2>2, <3>1, <3>2
  <2>6. new.ships + killed = seen.ships
    <3> HIDE DEF new, row
    <3> QED
      BY <1>3, <2>1, <2>2
  <2>7. new.updated <= clock
    BY <1>3, <2>2
  <2>8. d.cargo \in Nat
    BY <1>2 DEF FleetRow
  <2> HIDE DEF new
  <2>9. f \in FleetRow /\ HandledAt(s, i, f, p, new, killed)
    BY <1>1, <1>2, <2>1, <2>2, <2>3, <2>4, <2>5, <2>6, <2>7, <2>8, TurnedAt
  <2> QED
    BY <1>2, <2>1, <2>2, <2>9 DEF Handled
<1> QED
  BY <1>6, <1>7 DEF Attack

LEMMA TransportIs ==
  ASSUME Inv, NEW s \in Txs, NEW i \in Ids, Transport(s, i)
  PROVE  Handled(s)
<1> DEFINE d == draft[s].fleets[i]
           p == d.target
           seen == PlanetSeen(s, p)
           row == Refreshed(seen)
           new == Credit(row, d.cargo)
           f == [TurnedAround(d) EXCEPT !.cargo = 0]
<1>1. /\ pc[s] = "arrivals" /\ i \in todo[s] /\ p # NoPlanet
      /\ HandleAt(s, i, f, p, new, 0)
  BY DEF Transport, IsNext
<1>2. p \in Planets /\ d.cargo \in Nat
  BY <1>1, PlanetOfFleet
<1>3. /\ seen \in PlanetRow /\ row \in PlanetRow
      /\ row.updated <= clock /\ row.ships = seen.ships
      /\ row.metal + Rate * seen.updated <= seen.metal + Rate * row.updated
  BY <1>2, TargetFacts
<1>4. clock \in 0..Horizon /\ clock \in Nat /\ Rate \in Nat
  BY Constants DEF Inv, TypeOK
<1>5. /\ new \in PlanetRow /\ new.ships = row.ships /\ new.updated <= clock
      /\ new.metal + Rate * row.updated <= row.metal + d.cargo + Rate * new.updated
  <2> HIDE DEF row, d
  <2> QED
    BY <1>2, <1>3, <1>4, CreditFacts
<1>6. new.ships + 0 = seen.ships
  <2>1. seen.ships \in Nat
    BY <1>3 DEF PlanetRow
  <2> QED
    BY <1>3, <1>5, <2>1
<1>7. new.metal + 0 + Rate * seen.updated <= seen.metal + d.cargo + Rate * new.updated
  <2>1. /\ row.updated \in Nat /\ seen.updated \in Nat /\ row.metal \in Nat /\ seen.metal \in Nat
        /\ new.updated \in Nat /\ new.metal \in Nat
    BY <1>3, <1>5, Constants DEF PlanetRow
  <2>2. Rate * row.updated \in Nat /\ Rate * seen.updated \in Nat /\ Rate * new.updated \in Nat
    BY <1>4, <2>1
  <2> HIDE DEF row, seen, d, new
  <2> QED
    BY <1>2, <1>3, <1>5, <2>1, <2>2
<1> HIDE DEF new
<1>8. f \in FleetRow /\ HandledAt(s, i, f, p, new, 0)
  BY <1>1, <1>2, <1>5, <1>6, <1>7, TurnedAt
<1> QED
  BY <1>2, <1>5, <1>8 DEF Handled

\* A fleet that ends: it lands, is caught or is home.
LEMMA EndedAt ==
  ASSUME Inv, NEW s \in Txs, NEW i \in todo[s], NEW f \in FleetRow,
         SameFleet(f, draft[s].fleets[i]), Sweeping(s),
         pc[s] = "arrivals" => f.status = "deleted" /\ ~f.home,
         pc[s] = "returns" =>
           f.status = "returned" /\ f.home /\ f.arrived = draft[s].fleets[i].arrived,
         NEW p \in Planets, NEW row \in PlanetRow, NEW n \in Nat,
         HandleAt(s, i, f, p, row, n), row.updated <= clock,
         row.ships + n = PlanetSeen(s, p).ships + draft[s].fleets[i].ships,
         row.metal + Rate * PlanetSeen(s, p).updated
           <= PlanetSeen(s, p).metal + draft[s].fleets[i].cargo + Rate * row.updated
  PROVE  Handled(s)
<1>1. Outcome(s, i, f)
  BY DEF Outcome, Sweeping
<1>2. ~Aloft(f)
  BY DEF Aloft, Sweeping
<1>3. ShipsAboard(f) = 0 /\ CargoAboard(f) = 0
  BY <1>2 DEF ShipsAboard, CargoAboard
<1>4. row.ships \in Nat /\ row.metal \in Nat
  BY DEF PlanetRow
<1>5. row.ships + n + 0 = row.ships + n /\ row.metal + 0 = row.metal
  BY <1>4
<1>6. Conserves(PlanetSeen(s, p), row, n, draft[s].fleets[i], f)
  BY <1>3, <1>5 DEF Conserves
<1>7. HandledAt(s, i, f, p, row, n) /\ i \in Ids
  BY <1>1, <1>6, TodoFacts DEF HandledAt
<1> QED
  BY <1>7 DEF Handled

\* A landing: cargo and ships go to the planet.
LEMMA LandedAt ==
  ASSUME Inv, NEW s \in Txs, NEW i \in todo[s], NEW p \in Planets
  PROVE  LET d == draft[s].fleets[i]
             seen == PlanetSeen(s, p)
             row == [Credit(Refreshed(seen), d.cargo) EXCEPT !.ships = @ + d.ships]
         IN /\ row \in PlanetRow /\ row.updated <= clock
            /\ row.ships = seen.ships + d.ships
            /\ row.metal + Rate * seen.updated <= seen.metal + d.cargo + Rate * row.updated
<1> DEFINE d == draft[s].fleets[i]
           seen == PlanetSeen(s, p)
           row == Refreshed(seen)
           cr == Credit(row, d.cargo)
           sum == cr.ships + d.ships
           new == [cr EXCEPT !.ships = sum]
<1>1. d.cargo \in Nat /\ d.ships \in Nat
  BY PlanetOfFleet
<1>2. /\ seen \in PlanetRow /\ row \in PlanetRow
      /\ row.updated <= clock /\ row.ships = seen.ships
      /\ row.metal + Rate * seen.updated <= seen.metal + Rate * row.updated
  BY TargetFacts
<1>3. clock \in 0..Horizon /\ clock \in Nat /\ Rate \in Nat
  BY Constants DEF Inv, TypeOK
<1>4. /\ cr \in PlanetRow /\ cr.ships = row.ships /\ cr.updated <= clock
      /\ cr.metal + Rate * row.updated <= row.metal + d.cargo + Rate * cr.updated
  <2> HIDE DEF row, d
  <2> QED
    BY <1>1, <1>2, <1>3, CreditFacts
<1>5. sum \in Nat /\ sum = seen.ships + d.ships
  BY <1>1, <1>2, <1>4 DEF PlanetRow
<1>6. /\ new \in PlanetRow /\ new.metal = cr.metal /\ new.updated = cr.updated
      /\ new.ships = sum
  <2> HIDE DEF cr, sum
  <2> QED
    BY <1>4, <1>5 DEF PlanetRow
<1>7. cr.metal + Rate * seen.updated <= seen.metal + d.cargo + Rate * cr.updated
  <2>1. /\ row.updated \in Nat /\ seen.updated \in Nat /\ row.metal \in Nat /\ seen.metal \in Nat
        /\ cr.updated \in Nat /\ cr.metal \in Nat
    BY <1>2, <1>4, Constants DEF PlanetRow
  <2>2. Rate * row.updated \in Nat /\ Rate * seen.updated \in Nat /\ Rate * cr.updated \in Nat
    BY <1>3, <2>1
  <2> HIDE DEF row, seen, d, cr
  <2> QED
    BY <1>1, <1>2, <1>4, <2>1, <2>2
<1> HIDE DEF sum
<1>8. /\ new \in PlanetRow /\ new.updated <= clock
      /\ new.ships = seen.ships + d.ships
      /\ new.metal + Rate * seen.updated <= seen.metal + d.cargo + Rate * new.updated
  <2> HIDE DEF new, cr, seen, d
  <2> QED
    BY <1>4, <1>5, <1>6, <1>7
<1> QED
  BY <1>8 DEF sum

LEMMA DeployIs ==
  ASSUME Inv, NEW s \in Txs, NEW i \in Ids, Deploy(s, i)
  PROVE  Handled(s)
<1> DEFINE d == draft[s].fleets[i]
           p == d.target
           seen == PlanetSeen(s, p)
           new == [Credit(Refreshed(seen), d.cargo) EXCEPT !.ships = @ + d.ships]
           f == Deleted(d)
<1>1. /\ pc[s] = "arrivals" /\ i \in todo[s] /\ p # NoPlanet
      /\ HandleAt(s, i, f, p, new, 0)
  BY DEF Deploy, IsNext
<1>2. d \in FleetRow /\ ~d.home /\ p \in Planets
  BY <1>1, TodoFacts, PlanetOfFleet
<1>3. f \in FleetRow /\ SameFleet(f, d) /\ f.status = "deleted" /\ ~f.home
  <2> HIDE DEF d
  <2> QED
    BY <1>2, DeletedFacts
<1>4. /\ new \in PlanetRow /\ new.updated <= clock
      /\ new.ships = seen.ships + d.ships
      /\ new.metal + Rate * seen.updated <= seen.metal + d.cargo + Rate * new.updated
  BY <1>1, <1>2, LandedAt
<1>5. new.ships + 0 = new.ships
  BY <1>4 DEF PlanetRow
<1> HIDE DEF new, f
<1> QED
  BY <1>1, <1>2, <1>3, <1>4, <1>5, EndedAt DEF Sweeping

LEMMA ReturnIs ==
  ASSUME Inv, NEW s \in Txs, NEW i \in Ids, Return(s, i)
  PROVE  Handled(s)
<1> DEFINE d == draft[s].fleets[i]
           p == d.origin
           seen == PlanetSeen(s, p)
           new == [Credit(Refreshed(seen), d.cargo) EXCEPT !.ships = @ + d.ships]
           f == [d EXCEPT !.home = TRUE, !.status = "returned"]
<1>1. /\ pc[s] = "returns" /\ i \in todo[s]
      /\ HandleAt(s, i, f, p, new, 0)
  BY DEF Return, IsNext
<1>2. d \in FleetRow /\ p \in Planets
  BY <1>1, TodoFacts, PlanetOfFleet
<1>3. /\ f \in FleetRow /\ SameFleet(f, d) /\ f.status = "returned" /\ f.home
      /\ f.arrived = d.arrived
  <2> HIDE DEF d
  <2> QED
    BY <1>2 DEF FleetRow, SameFleet
<1>4. /\ new \in PlanetRow /\ new.updated <= clock
      /\ new.ships = seen.ships + d.ships
      /\ new.metal + Rate * seen.updated <= seen.metal + d.cargo + Rate * new.updated
  BY <1>1, <1>2, LandedAt
<1>5. new.ships + 0 = new.ships
  BY <1>4 DEF PlanetRow
<1> HIDE DEF new, f
<1> QED
  BY <1>1, <1>2, <1>3, <1>4, <1>5, EndedAt DEF Sweeping

LEMMA EspionageIs ==
  ASSUME Inv, NEW s \in Txs, NEW i \in Ids, Espionage(s, i)
  PROVE  Handled(s)
<1> DEFINE d == draft[s].fleets[i]
           p == d.target
           seen == PlanetSeen(s, p)
           row == Refreshed(seen)
<1>1. /\ pc[s] = "arrivals" /\ i \in todo[s] /\ p # NoPlanet
      /\ \/ HandleAt(s, i, TurnedAround(d), p, row, 0)
         \/ HandleAt(s, i, Deleted(d), p, row, d.ships)
  BY DEF Espionage, IsNext
<1>2. /\ d \in FleetRow /\ d.departure <= clock /\ ~d.home /\ p \in Planets
      /\ d.ships \in Nat /\ d.cargo \in Nat
  BY <1>1, TodoFacts, PlanetOfFleet
<1>3. /\ seen \in PlanetRow /\ row \in PlanetRow
      /\ row.updated <= clock /\ row.ships = seen.ships
      /\ row.metal + Rate * seen.updated <= seen.metal + Rate * row.updated
  BY <1>2, TargetFacts
<1>4. clock \in 0..Horizon /\ clock \in Nat /\ Rate \in Nat
  BY Constants DEF Inv, TypeOK
<1>5. row.ships \in Nat /\ row.ships + 0 = seen.ships
  BY <1>3 DEF PlanetRow
<1>6. /\ row.metal + d.cargo + Rate * seen.updated <= seen.metal + d.cargo + Rate * row.updated
      /\ row.metal + Rate * seen.updated <= seen.metal + d.cargo + Rate * row.updated
  <2>1. /\ row.updated \in Nat /\ seen.updated \in Nat /\ row.metal \in Nat /\ seen.metal \in Nat
    BY <1>3, Constants DEF PlanetRow
  <2>2. Rate * row.updated \in Nat /\ Rate * seen.updated \in Nat
    BY <1>4, <2>1
  <2> HIDE DEF row, seen, d
  <2> QED
    BY <1>2, <1>3, <2>1, <2>2
<1>7. CASE HandleAt(s, i, TurnedAround(d), p, row, 0)
  <2> DEFINE f == [TurnedAround(d) EXCEPT !.cargo = d.cargo]
  <2>1. f = TurnedAround(d)
    <3> DEFINE g == TurnedAround(d)
    <3>1. g \in FleetRow /\ g.cargo = d.cargo
      BY <1>2, <1>4, TurnedAroundFacts
    <3> HIDE DEF g
    <3>2. [g EXCEPT !.cargo = g.cargo] = g
      BY <3>1 DEF FleetRow
    <3> QED
      BY <3>1, <3>2 DEF g
  <2>2. HandleAt(s, i, f, p, row, 0)
    BY <1>7, <2>1
  <2> HIDE DEF row
  <2>3. f \in FleetRow /\ HandledAt(s, i, f, p, row, 0)
    BY <1>1, <1>2, <1>3, <1>5, <1>6, <2>2, TurnedAt
  <2> QED
    BY <1>2, <1>3, <2>3 DEF Handled
<1>8. CASE HandleAt(s, i, Deleted(d), p, row, d.ships)
  <2> DEFINE f == Deleted(d)
  <2>1. f \in FleetRow /\ SameFleet(f, d) /\ f.status = "deleted" /\ ~f.home
    <3> HIDE DEF d
    <3> QED
      BY <1>2, DeletedFacts
  <2>2. row.ships + d.ships = seen.ships + d.ships
    BY <1>3
  <2> HIDE DEF row, f
  <2> QED
    BY <1>1, <1>2, <1>3, <1>6, <1>8, <2>1, <2>2, EndedAt DEF Sweeping, f
<1> QED
  BY <1>1, <1>7, <1>8

LEMMA HandleOneIs ==
  ASSUME Inv, NEW s \in Txs, HandleOne(s)
  PROVE  Handled(s)
<1>1. PICK i \in Ids : \/ TurnAround(s, i) \/ Attack(s, i) \/ Transport(s, i)
                       \/ Deploy(s, i) \/ Espionage(s, i) \/ Return(s, i)
  BY DEF HandleOne
<1>2. CASE TurnAround(s, i)
  BY <1>2, TurnAroundIs DEF Handled
<1> QED
  BY <1>1, <1>2, AttackIs, TransportIs, DeployIs, EspionageIs, ReturnIs

-----------------------------------------------------------------------------
(* What the steps do to the drafts.                                        *)

Draft == [planets : [Planets -> PlanetRow \cup {Untouched}],
          fleets : [Ids -> FleetRow \cup {Untouched}],
          lost : Nat]

LEMMA BlankFacts ==
  /\ Blank \in Draft /\ Blank.lost = 0
  /\ \A p \in Planets : Blank.planets[p] = Untouched
  /\ \A i \in Ids : Blank.fleets[i] = Untouched
BY DEF Blank, Draft

LEMMA RowFacts ==
  ASSUME TypeOK
  PROVE  /\ Len(fleet) \in Nat /\ DOMAIN fleet = 1..Len(fleet)
         /\ DOMAIN fleet \subseteq Ids /\ IsFiniteSet(Ids)
         /\ \A i \in DOMAIN fleet : fleet[i] \in FleetRow
<1>1. fleet \in Seq(FleetRow) /\ Len(fleet) <= MaxFleets /\ MaxFleets \in Nat
  BY Constants DEF TypeOK
<1>2. Len(fleet) \in Nat /\ DOMAIN fleet = 1..Len(fleet)
  BY <1>1
<1>3. IsFiniteSet(1..MaxFleets)
  BY <1>1, FS_Interval
<1> QED
  BY <1>1, <1>2, <1>3 DEF Ids

\* The part of TypeOK about the transactions.
TxTypes ==
  /\ pc \in [Txs -> {"idle", "dispatching", "recalling", "arrivals", "returns", "aborted"}]
  /\ draft \in [Txs -> Draft]
  /\ todo \in [Txs -> SUBSET Ids]
  /\ job \in [Txs -> [fleet : Ids \cup {0}, now : 0..Horizon]]

\* The transactions other than t go on as they were.
OthersStill(t) ==
  \A u \in Txs \ {t} : /\ pc'[u] = pc[u] /\ draft'[u] = draft[u]
                       /\ todo'[u] = todo[u] /\ job'[u] = job[u]

LEMMA FinishFacts ==
  ASSUME TypeOK, NEW t \in Txs, Finish(t)
  PROVE  /\ pc'[t] = "idle" /\ draft'[t] = Blank /\ todo'[t] = {} /\ job'[t] = NoJob
         /\ OthersStill(t) /\ TxTypes'
<1>1. NoJob \in [fleet : Ids \cup {0}, now : 0..Horizon] /\ Blank \in Draft
  BY BlankFacts, Constants DEF NoJob
<1>2. TxTypes
  BY DEF TypeOK, TxTypes, Draft
<1> QED
  BY <1>1, <1>2 DEF Finish, OthersStill, TxTypes

LEMMA DispatchLockFacts ==
  ASSUME TypeOK, PlanetsPast, NEW t \in Txs, NEW p \in Planets, DispatchLock(t, p)
  PROVE  /\ pc'[t] = "dispatching" /\ todo'[t] = todo[t] /\ job'[t] = job[t]
         /\ draft'[t] \in Draft
         /\ draft'[t].fleets = draft[t].fleets /\ draft'[t].lost = draft[t].lost
         /\ draft'[t].planets[p] = Refreshed(planet[p])
         /\ \A q \in Planets \ {p} : draft'[t].planets[q] = draft[t].planets[q]
         /\ OthersStill(t) /\ TxTypes'
<1>1. planet[p] \in PlanetRow /\ planet[p].updated <= clock /\ clock \in 0..Horizon
  BY DEF TypeOK, PlanetsPast
<1>2. Refreshed(planet[p]) \in PlanetRow
  BY <1>1, RefreshedFacts
<1>3. draft \in [Txs -> Draft]
  BY DEF TypeOK, Draft
<1>4. draft' = [draft EXCEPT ![t].planets[p] = Refreshed(planet[p])]
  BY DEF DispatchLock
<1>5. /\ draft'[t] \in Draft /\ draft' \in [Txs -> Draft]
      /\ draft'[t].fleets = draft[t].fleets /\ draft'[t].lost = draft[t].lost
      /\ draft'[t].planets[p] = Refreshed(planet[p])
      /\ \A q \in Planets \ {p} : draft'[t].planets[q] = draft[t].planets[q]
      /\ \A u \in Txs \ {t} : draft'[u] = draft[u]
  BY <1>2, <1>3, <1>4 DEF Draft
<1> QED
  BY <1>5 DEF TypeOK, OthersStill, DispatchLock, TxTypes

LEMMA ClaimFacts ==
  ASSUME TypeOK, NEW s \in Txs, NEW sweep \in {"arrivals", "returns"},
         NEW due, due \subseteq DOMAIN fleet,
         Claim(s, sweep, due)
  PROVE  \E batch \in SUBSET due :
           /\ pc[s] = "idle" /\ \A i \in batch : FleetFree(s, i)
           /\ pc'[s] = sweep /\ todo'[s] = batch /\ job'[s] = job[s]
           /\ draft'[s] \in Draft
           /\ draft'[s].planets = draft[s].planets /\ draft'[s].lost = draft[s].lost
           /\ \A i \in Ids : draft'[s].fleets[i] = IF i \in batch THEN fleet[i] ELSE Untouched
           /\ batch \subseteq Ids
           /\ OthersStill(s) /\ TxTypes'
<1>1. PICK batch \in SUBSET {i \in due : FleetFree(s, i)} :
        /\ todo' = [todo EXCEPT ![s] = batch]
        /\ draft' = [draft EXCEPT ![s].fleets =
                       [i \in Ids |-> IF i \in batch THEN fleet[i] ELSE Untouched]]
  BY DEF Claim
<1>2. draft \in [Txs -> Draft]
  BY DEF TypeOK, Draft
<1>3. \A i \in batch : i \in Ids /\ fleet[i] \in FleetRow
  BY RowFacts
<1> DEFINE rows == [i \in Ids |-> IF i \in batch THEN fleet[i] ELSE Untouched]
<1>4. rows \in [Ids -> FleetRow \cup {Untouched}]
  BY <1>3
<1>5. \A i \in Ids : rows[i] = IF i \in batch THEN fleet[i] ELSE Untouched
  OBVIOUS
<1>6. draft' = [draft EXCEPT ![s].fleets = rows]
  BY <1>1
<1> HIDE DEF rows
<1>7. /\ draft'[s] \in Draft /\ draft'[s].fleets = rows /\ draft' \in [Txs -> Draft]
      /\ draft'[s].planets = draft[s].planets /\ draft'[s].lost = draft[s].lost
      /\ \A u \in Txs \ {s} : draft'[u] = draft[u]
  BY <1>2, <1>4, <1>6 DEF Draft
<1>8. pc[s] = "idle" /\ pc' = [pc EXCEPT ![s] = sweep] /\ job' = job
  BY DEF Claim
<1>9. /\ pc[s] = "idle" /\ \A i \in batch : FleetFree(s, i)
      /\ pc'[s] = sweep /\ todo'[s] = batch /\ job'[s] = job[s]
      /\ OthersStill(s) /\ TxTypes'
  BY <1>1, <1>3, <1>7, <1>8 DEF TypeOK, OthersStill, TxTypes
<1> QED
  BY <1>3, <1>5, <1>7, <1>9

LEMMA HandleFacts ==
  ASSUME TypeOK, NEW s \in Txs, NEW i \in Ids, NEW f \in FleetRow, Handle(s, i, f)
  PROVE  /\ pc'[s] = pc[s] /\ todo'[s] = todo[s] \ {i} /\ job'[s] = job[s]
         /\ draft'[s] \in Draft
         /\ draft'[s].planets = draft[s].planets /\ draft'[s].lost = draft[s].lost
         /\ draft'[s].fleets[i] = f
         /\ \A j \in Ids \ {i} : draft'[s].fleets[j] = draft[s].fleets[j]
         /\ OthersStill(s) /\ TxTypes'
<1>1. draft \in [Txs -> Draft] /\ draft' = [draft EXCEPT ![s].fleets[i] = f]
  BY DEF TypeOK, Draft, Handle
<1>2. /\ draft'[s] \in Draft /\ draft' \in [Txs -> Draft]
      /\ draft'[s].planets = draft[s].planets /\ draft'[s].lost = draft[s].lost
      /\ draft'[s].fleets[i] = f
      /\ \A j \in Ids \ {i} : draft'[s].fleets[j] = draft[s].fleets[j]
      /\ \A u \in Txs \ {s} : draft'[u] = draft[u]
  BY <1>1 DEF Draft
<1> QED
  BY <1>2 DEF TypeOK, Handle, OthersStill, TxTypes

LEMMA HandleAtFacts ==
  ASSUME TypeOK, NEW s \in Txs, NEW i \in Ids, NEW f \in FleetRow,
         NEW p \in Planets, NEW row \in PlanetRow, NEW n \in Nat,
         HandleAt(s, i, f, p, row, n)
  PROVE  /\ pc'[s] = pc[s] /\ todo'[s] = todo[s] \ {i} /\ job'[s] = job[s]
         /\ draft'[s] \in Draft
         /\ draft'[s].lost = draft[s].lost + n
         /\ draft'[s].fleets[i] = f
         /\ \A j \in Ids \ {i} : draft'[s].fleets[j] = draft[s].fleets[j]
         /\ draft'[s].planets[p] = row
         /\ \A q \in Planets \ {p} : draft'[s].planets[q] = draft[s].planets[q]
         /\ OthersStill(s) /\ TxTypes'
<1>1. draft \in [Txs -> Draft]
  BY DEF TypeOK, Draft
<1>2. draft' = [draft EXCEPT ![s].fleets[i] = f,
                             ![s].planets[p] = row,
                             ![s].lost = @ + n]
  BY DEF HandleAt
<1>3. draft[s].lost + n \in Nat
  BY <1>1 DEF Draft
<1>4. /\ draft'[s] \in Draft /\ draft' \in [Txs -> Draft]
      /\ draft'[s].lost = draft[s].lost + n
      /\ draft'[s].fleets[i] = f
      /\ \A j \in Ids \ {i} : draft'[s].fleets[j] = draft[s].fleets[j]
      /\ draft'[s].planets[p] = row
      /\ \A q \in Planets \ {p} : draft'[s].planets[q] = draft[s].planets[q]
      /\ \A u \in Txs \ {s} : draft'[u] = draft[u]
  BY <1>1, <1>2, <1>3 DEF Draft
<1> QED
  BY <1>4 DEF TypeOK, HandleAt, OthersStill, TxTypes

-----------------------------------------------------------------------------
(* What the steps do to the tables.                                        *)

LEMMA DispatchFacts ==
  ASSUME TypeOK, NEW t \in Txs, DispatchCommit(t)
  PROVE  \E p \in Planets, row \in PlanetRow, f \in FleetRow :
           /\ pc[t] = "dispatching" /\ PlanetHeld(t, p)
           /\ f.origin = p /\ f.status = "outbound" /\ ~f.home /\ ~f.arrived
           /\ f.ships > 0 /\ f.ships <= draft[t].planets[p].ships
           /\ row.ships = draft[t].planets[p].ships - f.ships
           /\ row.metal + f.cargo + Fuel = draft[t].planets[p].metal
           /\ draft[t].planets[p].updated <= row.updated /\ row.updated <= clock
           /\ f.departure <= clock
           /\ planet' = [planet EXCEPT ![p] = row]
           /\ fleet' = Append(fleet, f) /\ Len(fleet) + 1 \in Ids
           /\ clock' = clock /\ lost' = lost /\ Finish(t)
<1>1. PICK p \in Planets, target \in Planets \cup {NoPlanet}, mission \in Missions,
        ships \in 1..StartShips, cargo \in 0..StartMetal, flight \in Flights :
       LET row == draft[t].planets[p]
       IN row # Untouched /\ \E now \in row.updated..clock :
          /\ target # p
          /\ target \in Planets => PlanetFree(t, target)
          /\ Affords(row, ships, cargo)
          /\ planet' = [planet EXCEPT ![p] =
               [metal |-> row.metal - cargo - Fuel, updated |-> now,
                ships |-> row.ships - ships]]
          /\ fleet' = Append(fleet,
               [origin |-> p, target |-> target, mission |-> mission,
                status |-> "outbound", departure |-> now,
                arrival |-> now + flight, return |-> 0, cargo |-> cargo,
                ships |-> ships, arrived |-> FALSE, home |-> FALSE])
  BY DEF DispatchCommit
<1> DEFINE old == draft[t].planets[p]
<1>2. PICK now \in old.updated..clock :
          /\ Affords(old, ships, cargo)
          /\ planet' = [planet EXCEPT ![p] =
               [metal |-> old.metal - cargo - Fuel, updated |-> now,
                ships |-> old.ships - ships]]
          /\ fleet' = Append(fleet,
               [origin |-> p, target |-> target, mission |-> mission,
                status |-> "outbound", departure |-> now,
                arrival |-> now + flight, return |-> 0, cargo |-> cargo,
                ships |-> ships, arrived |-> FALSE, home |-> FALSE])
  BY <1>1
<1> DEFINE row == [metal |-> old.metal - cargo - Fuel, updated |-> now,
                   ships |-> old.ships - ships]
           f == [origin |-> p, target |-> target, mission |-> mission,
                 status |-> "outbound", departure |-> now,
                 arrival |-> now + flight, return |-> 0, cargo |-> cargo,
                 ships |-> ships, arrived |-> FALSE, home |-> FALSE]
<1>3. old # Untouched /\ old \in PlanetRow
  BY <1>1 DEF TypeOK
<1>4. /\ old.metal \in Nat /\ old.ships \in Nat /\ old.updated \in 0..Horizon
      /\ clock \in 0..Horizon /\ Horizon \in Nat /\ Fuel \in Nat
      /\ ships \in Nat /\ ships > 0 /\ cargo \in Nat /\ flight \in Nat /\ mission \in AllMissions
  BY <1>3, Constants, FleetConstantsOK DEF PlanetRow, TypeOK
<1>5. now \in 0..Horizon /\ now \in Nat /\ old.updated <= now /\ now <= clock
  BY <1>2, <1>4
<1>6. ships <= old.ships /\ cargo + Fuel <= old.metal
  BY <1>2 DEF Affords
<1> HIDE DEF old
<1>7. row \in PlanetRow
  BY <1>4, <1>5, <1>6 DEF PlanetRow
<1>8. f \in FleetRow
  BY <1>4, <1>5 DEF FleetRow
<1>9. Len(fleet) + 1 \in Ids
  BY RowFacts, Constants DEF DispatchCommit, Ids
<1>10. row.metal + f.cargo + Fuel = old.metal
  BY <1>4
<1>11. /\ pc[t] = "dispatching" /\ clock' = clock /\ lost' = lost /\ Finish(t)
       /\ PlanetHeld(t, p)
  BY <1>3 DEF DispatchCommit, PlanetHeld, old
<1>12. /\ planet' = [planet EXCEPT ![p] = row] /\ fleet' = Append(fleet, f)
  BY <1>2
<1>13. /\ f.origin = p /\ f.status = "outbound" /\ ~f.home /\ ~f.arrived
       /\ f.ships > 0 /\ f.ships <= old.ships /\ row.ships = old.ships - f.ships
       /\ old.updated <= row.updated /\ row.updated <= clock /\ f.departure <= clock
  BY <1>4, <1>5, <1>6
<1> HIDE DEF row, f
<1> QED
  BY <1>7, <1>8, <1>9, <1>10, <1>11, <1>12, <1>13 DEF old

\* The rows of the table after one more fleet.
LEMMA AppendFacts ==
  ASSUME TypeOK, NEW f \in FleetRow, fleet' = Append(fleet, f), Len(fleet) + 1 \in Ids
  PROVE  /\ fleet' \in Seq(FleetRow) /\ Len(fleet') <= MaxFleets
         /\ DOMAIN fleet' = DOMAIN fleet \cup {Len(fleet) + 1}
         /\ Len(fleet) + 1 \notin DOMAIN fleet
         /\ fleet'[Len(fleet) + 1] = f
         /\ \A i \in DOMAIN fleet : fleet'[i] = fleet[i]
<1>1. fleet \in Seq(FleetRow) /\ Len(fleet) \in Nat /\ DOMAIN fleet = 1..Len(fleet)
  BY RowFacts DEF TypeOK
<1>2. /\ fleet' \in Seq(FleetRow) /\ Len(fleet') = Len(fleet) + 1
      /\ \A i \in 1..Len(fleet) : fleet'[i] = fleet[i]
      /\ fleet'[Len(fleet) + 1] = f
  BY <1>1, AppendProperties
<1>3. DOMAIN fleet' = 1..Len(fleet')
  BY <1>2
<1> QED
  BY <1>1, <1>2, <1>3, Constants DEF Ids

LEMMA RecallFacts ==
  ASSUME TypeOK, RowsSound, RecallsPast, NEW t \in Txs, RecallCommit(t)
  PROVE  LET i == job[t].fleet
         IN /\ pc[t] = "recalling" /\ i \in DOMAIN fleet /\ i \in Ids /\ FleetFree(t, i)
            /\ fleet' \in Seq(FleetRow) /\ Len(fleet') = Len(fleet)
            /\ DOMAIN fleet' = DOMAIN fleet
            /\ \A j \in DOMAIN fleet \ {i} : fleet'[j] = fleet[j]
            /\ SameFleet(fleet'[i], fleet[i]) /\ fleet'[i].cargo = fleet[i].cargo
            /\ fleet[i].status # "deleted" /\ fleet'[i].status = "returning"
            /\ fleet'[i].arrived = fleet[i].arrived /\ fleet'[i].home = fleet[i].home
            /\ clock' = clock /\ planet' = planet /\ lost' = lost /\ Finish(t)
<1> DEFINE i == job[t].fleet
           now == job[t].now
           back == now + (now - fleet[i].departure)
           g == [fleet[i] EXCEPT !.status = "returning", !.return = back]
<1>1. pc[t] = "recalling"
  BY DEF RecallCommit
<1>2. i \in DOMAIN fleet /\ fleet[i].departure <= now /\ fleet[i] \in FleetRow /\ i \in Ids
  BY <1>1, RowFacts DEF RecallsPast
<1>3. back \in Nat
  <2>1. job[t] \in [fleet : Ids \cup {0}, now : 0..Horizon]
    BY DEF TypeOK
  <2>2. now \in Nat
    BY <2>1, Constants
  <2>3. fleet[i].departure \in Nat
    BY <1>2 DEF FleetRow
  <2> HIDE DEF now, i
  <2> QED
    BY <1>2, <2>2, <2>3
<1>4. fleet' = [fleet EXCEPT ![i].status = "returning", ![i].return = back]
  BY DEF RecallCommit
<1> HIDE DEF back
<1>5. fleet' = [fleet EXCEPT ![i] = g]
  BY <1>2, <1>4
<1>6. /\ g \in FleetRow /\ SameFleet(g, fleet[i]) /\ g.cargo = fleet[i].cargo
      /\ g.status = "returning" /\ g.arrived = fleet[i].arrived /\ g.home = fleet[i].home
  BY <1>2, <1>3 DEF FleetRow, SameFleet
<1> HIDE DEF g
<1>7. /\ fleet' \in Seq(FleetRow) /\ Len(fleet') = Len(fleet)
      /\ DOMAIN fleet' = DOMAIN fleet
      /\ \A j \in DOMAIN fleet \ {i} : fleet'[j] = fleet[j]
      /\ fleet'[i] = g
  BY <1>2, <1>5, <1>6 DEF TypeOK
<1> QED
  BY <1>1, <1>2, <1>6, <1>7 DEF RecallCommit

LEMMA CommitFacts ==
  ASSUME TypeOK, NEW t \in Txs, SweepCommit(t)
  PROVE  /\ Sweeping(t) /\ todo[t] = {}
         /\ planet' \in [Planets -> PlanetRow]
         /\ \A p \in Planets :
              planet'[p] = IF PlanetHeld(t, p) THEN draft[t].planets[p] ELSE planet[p]
         /\ fleet' \in Seq(FleetRow) /\ Len(fleet') = Len(fleet)
         /\ DOMAIN fleet' = DOMAIN fleet
         /\ \A i \in DOMAIN fleet :
              fleet'[i] = IF FleetHeld(t, i) THEN draft[t].fleets[i] ELSE fleet[i]
         /\ clock' = clock /\ lost' = lost + draft[t].lost /\ lost' \in Nat /\ Finish(t)
<1>1. draft[t] \in Draft
  BY DEF TypeOK, Draft
<1>2. planet' = [p \in Planets |->
         IF draft[t].planets[p] = Untouched THEN planet[p] ELSE draft[t].planets[p]]
  BY DEF SweepCommit
<1>3. fleet' = [i \in DOMAIN fleet |->
         IF draft[t].fleets[i] = Untouched THEN fleet[i] ELSE draft[t].fleets[i]]
  BY DEF SweepCommit
<1>4. \A i \in DOMAIN fleet : fleet'[i] \in FleetRow
  BY <1>1, <1>3, RowFacts DEF Draft
<1>5. fleet' \in Seq(FleetRow) /\ Len(fleet') = Len(fleet) /\ DOMAIN fleet' = DOMAIN fleet
  <2>1. fleet' = [i \in 1..Len(fleet) |-> fleet'[i]] /\ Len(fleet) \in Nat
    BY <1>3, RowFacts
  <2>2. \A i \in 1..Len(fleet) : fleet'[i] \in FleetRow
    BY <1>4, RowFacts
  <2> QED
    BY <2>1, <2>2, RowFacts
<1>6. planet' \in [Planets -> PlanetRow]
  BY <1>1, <1>2 DEF TypeOK, Draft
<1>7. draft[t].lost \in Nat /\ lost \in Nat
  BY <1>1 DEF Draft, TypeOK
<1> QED
  BY <1>2, <1>3, <1>5, <1>6, <1>7 DEF SweepCommit, PlanetHeld, FleetHeld, Sweeping

-----------------------------------------------------------------------------
(* The steps, one disjunct for each kind of thing a transaction does.      *)

Claims(t) == ClaimArrivals(t) \/ ClaimReturns(t)

\* The steps that write the tables, and those that only write a draft.
Writes(t) == DispatchCommit(t) \/ RecallCommit(t) \/ SweepCommit(t)
Drafts(t) ==
  \/ \E p \in Planets : DispatchLock(t, p)
  \/ \E i \in Ids : RecallRead(t, i)
  \/ Claims(t) \/ Handled(t) \/ SweepFail(t) \/ Rollback(t)

LEMMA StepIs ==
  ASSUME Inv, [Next]_vars
  PROVE  \/ \E t \in Txs : Writes(t) \/ Drafts(t)
         \/ \E p \in Planets : RefreshPlanet(p)
         \/ Tick
         \/ UNCHANGED vars
<1>1. CASE \E r \in Requests : Request(r)
  BY <1>1 DEF Request, Txs, Writes, Drafts
<1>2. CASE \E s \in Sweepers : Sweep(s)
  BY <1>2, HandleOneIs DEF Sweep, SweepAbort, Txs, Writes, Drafts, Claims
<1>3. CASE \E t \in Txs : Rollback(t)
  BY <1>3 DEF Drafts
<1> QED
  BY <1>1, <1>2, <1>3 DEF Next

LEMMA DraftsLeaveTables ==
  ASSUME NEW t \in Txs, Drafts(t)
  PROVE  UNCHANGED <<clock, planet, fleet, lost>>
<1>1. CASE \E p \in Planets : DispatchLock(t, p)
  BY <1>1 DEF DispatchLock
<1>2. CASE \E i \in Ids : RecallRead(t, i)
  BY <1>2 DEF RecallRead
<1>3. CASE Claims(t)
  BY <1>3 DEF Claims, ClaimArrivals, ClaimReturns, Claim
<1>4. CASE Handled(t)
  <2>1. PICK i \in Ids, f \in FleetRow :
          \/ HandledAway(t, i, f)
          \/ \E p \in Planets, row \in PlanetRow, n \in Nat : HandledAt(t, i, f, p, row, n)
    BY <1>4 DEF Handled
  <2>2. CASE HandledAway(t, i, f)
    BY <2>2 DEF HandledAway, Handle
  <2>3. CASE \E p \in Planets, row \in PlanetRow, n \in Nat : HandledAt(t, i, f, p, row, n)
    BY <2>3 DEF HandledAt, HandleAt
  <2> QED
    BY <2>1, <2>2, <2>3
<1>5. CASE SweepFail(t) \/ Rollback(t)
  BY <1>5 DEF SweepFail, Rollback
<1> QED
  BY <1>1, <1>2, <1>3, <1>4, <1>5 DEF Drafts

LEMMA ClaimsFacts ==
  ASSUME Inv, NEW s \in Txs, Claims(s)
  PROVE  \E sweep \in {"arrivals", "returns"}, batch \in SUBSET Ids :
           /\ pc[s] = "idle" /\ \A i \in batch : i \in DOMAIN fleet /\ FleetFree(s, i)
           /\ \A i \in batch : ~fleet[i].home
           /\ sweep = "arrivals" => \A i \in batch : fleet[i].status = "outbound"
           /\ sweep = "returns" => \A i \in batch : fleet[i].status = "returning"
           /\ pc'[s] = sweep /\ todo'[s] = batch /\ job'[s] = job[s]
           /\ draft'[s] \in Draft
           /\ draft'[s].planets = draft[s].planets /\ draft'[s].lost = draft[s].lost
           /\ \A i \in Ids : draft'[s].fleets[i] = IF i \in batch THEN fleet[i] ELSE Untouched
           /\ OthersStill(s) /\ TxTypes'
<1>1. CASE ClaimArrivals(s)
  <2>1. \A i \in DueArrivals : i \in DOMAIN fleet /\ fleet[i].status = "outbound" /\ ~fleet[i].home
    BY DEF DueArrivals, Inv, RowsSound
  <2>2. Claim(s, "arrivals", DueArrivals) /\ DueArrivals \subseteq DOMAIN fleet
    BY <1>1, <2>1 DEF ClaimArrivals
  <2> QED
    BY <2>1, <2>2, ClaimFacts DEF Inv
<1>2. CASE ClaimReturns(s)
  <2>1. \A i \in DueReturns : i \in DOMAIN fleet /\ fleet[i].status = "returning" /\ ~fleet[i].home
    BY DEF DueReturns
  <2>2. Claim(s, "returns", DueReturns) /\ DueReturns \subseteq DOMAIN fleet
    BY <1>2, <2>1 DEF ClaimReturns
  <2> QED
    BY <2>1, <2>2, ClaimFacts DEF Inv
<1> QED
  BY <1>1, <1>2 DEF Claims

\* What a handler does, whether or not it touches a planet.
LEMMA HandledFacts ==
  ASSUME Inv, NEW s \in Txs, Handled(s)
  PROVE  \E i \in Ids, f \in FleetRow :
           /\ Outcome(s, i, f)
           /\ pc'[s] = pc[s] /\ todo'[s] = todo[s] \ {i} /\ job'[s] = job[s]
           /\ draft'[s].fleets[i] = f
           /\ \A j \in Ids \ {i} : draft'[s].fleets[j] = draft[s].fleets[j]
           /\ \A q \in Planets : \/ draft'[s].planets[q] = draft[s].planets[q]
                                 \/ /\ PlanetFree(s, q)
                                    /\ draft'[s].planets[q].updated <= clock
           /\ OthersStill(s) /\ TxTypes'
<1>1. PICK i \in Ids, f \in FleetRow :
        \/ HandledAway(s, i, f)
        \/ \E p \in Planets, row \in PlanetRow, n \in Nat : HandledAt(s, i, f, p, row, n)
  BY DEF Handled
<1>2. CASE HandledAway(s, i, f)
  BY <1>2, HandleFacts DEF HandledAway, Inv
<1>3. CASE \E p \in Planets, row \in PlanetRow, n \in Nat : HandledAt(s, i, f, p, row, n)
  <2>1. PICK p \in Planets, row \in PlanetRow, n \in Nat : HandledAt(s, i, f, p, row, n)
    BY <1>3
  <2>2. /\ Outcome(s, i, f) /\ HandleAt(s, i, f, p, row, n)
        /\ PlanetFree(s, p) /\ row.updated <= clock
    BY <2>1 DEF HandledAt, HandleAt
  <2>3. /\ pc'[s] = pc[s] /\ todo'[s] = todo[s] \ {i} /\ job'[s] = job[s]
        /\ draft'[s].fleets[i] = f
        /\ \A j \in Ids \ {i} : draft'[s].fleets[j] = draft[s].fleets[j]
        /\ draft'[s].planets[p] = row
        /\ \A q \in Planets \ {p} : draft'[s].planets[q] = draft[s].planets[q]
        /\ OthersStill(s) /\ TxTypes'
    BY <2>2, HandleAtFacts DEF Inv
  <2> QED
    BY <2>2, <2>3
<1> QED
  BY <1>1, <1>2, <1>3

\* A transaction that others step around finds its rows as it left them.
Frame(u) ==
  /\ pc'[u] = pc[u] /\ draft'[u] = draft[u] /\ todo'[u] = todo[u] /\ job'[u] = job[u]
  /\ \A i \in Ids : FleetHeld(u, i) => fleet'[i] = fleet[i]
  /\ \A p \in Planets : PlanetHeld(u, p) => planet'[p] = planet[p]

LEMMA StillOthers ==
  ASSUME Inv, NEW t \in Txs, Writes(t) \/ Drafts(t)
  PROVE  OthersStill(t) /\ TxTypes'
<1>0. TypeOK /\ PlanetsPast
  BY DEF Inv
<1>1. CASE Writes(t)
  <2>1. Finish(t)
    BY <1>1 DEF Writes, DispatchCommit, RecallCommit, SweepCommit
  <2> QED
    BY <1>0, <2>1, FinishFacts
<1>2. CASE \E p \in Planets : DispatchLock(t, p)
  BY <1>0, <1>2, DispatchLockFacts
<1>3. CASE \E i \in Ids : RecallRead(t, i)
  <2>1. TxTypes
    BY <1>0 DEF TypeOK, TxTypes, Draft
  <2>2. clock \in 0..Horizon
    BY <1>0 DEF TypeOK
  <2> QED
    BY <1>3, <2>1, <2>2 DEF RecallRead, OthersStill, TxTypes
<1>4. CASE Claims(t)
  BY <1>4, ClaimsFacts
<1>5. CASE Handled(t)
  BY <1>5, HandledFacts
<1>6. CASE SweepFail(t)
  <2>1. TxTypes
    BY <1>0 DEF TypeOK, TxTypes, Draft
  <2> QED
    BY <1>6, <2>1 DEF SweepFail, OthersStill, TxTypes
<1>7. CASE Rollback(t)
  BY <1>0, <1>7, FinishFacts DEF Rollback
<1> QED
  BY <1>1, <1>2, <1>3, <1>4, <1>5, <1>6, <1>7 DEF Drafts

LEMMA Frames ==
  ASSUME Inv, NEW t \in Txs, Writes(t) \/ Drafts(t), NEW u \in Txs \ {t}
  PROVE  Frame(u)
<1>0. TypeOK /\ RowsSound /\ RecallsPast /\ Locks /\ Held
  BY DEF Inv
<1>1. pc'[u] = pc[u] /\ draft'[u] = draft[u] /\ todo'[u] = todo[u] /\ job'[u] = job[u]
  BY StillOthers DEF OthersStill
<1>2. \A i \in Ids : FleetHeld(u, i) => i \in DOMAIN fleet
  BY <1>0 DEF Held, HeldFleet
<1>3. CASE Drafts(t)
  BY <1>1, <1>3, DraftsLeaveTables DEF Frame
<1>4. CASE DispatchCommit(t)
  <2>1. PICK p \in Planets, row \in PlanetRow, f \in FleetRow :
           /\ PlanetHeld(t, p)
           /\ planet' = [planet EXCEPT ![p] = row]
           /\ fleet' = Append(fleet, f) /\ Len(fleet) + 1 \in Ids
    BY <1>0, <1>4, DispatchFacts
  <2>2. \A i \in DOMAIN fleet : fleet'[i] = fleet[i]
    BY <1>0, <2>1, AppendFacts
  <2>3. \A q \in Planets : PlanetHeld(u, q) => planet'[q] = planet[q]
    BY <1>0, <2>1 DEF Locks, TypeOK
  <2> QED
    BY <1>1, <1>2, <2>2, <2>3 DEF Frame
<1>5. CASE RecallCommit(t)
  <2> DEFINE k == job[t].fleet
  <2>1. /\ FleetFree(t, k) /\ planet' = planet
        /\ \A j \in DOMAIN fleet \ {k} : fleet'[j] = fleet[j]
    BY <1>0, <1>5, RecallFacts
  <2>2. ~FleetHeld(u, k)
    BY <2>1 DEF FleetFree, FleetHeld
  <2> QED
    BY <1>1, <1>2, <2>1, <2>2 DEF Frame
<1>6. CASE SweepCommit(t)
  BY <1>0, <1>1, <1>2, <1>6, CommitFacts DEF Frame, Locks
<1> QED
  BY <1>3, <1>4, <1>5, <1>6 DEF Writes

LEMMA FramesAll ==
  ASSUME Inv, (\E p \in Planets : RefreshPlanet(p)) \/ Tick \/ UNCHANGED vars, NEW u \in Txs
  PROVE  Frame(u)
<1>1. CASE \E p \in Planets : RefreshPlanet(p)
  BY <1>1 DEF RefreshPlanet, Frame, PlanetHeld, Inv, TypeOK
<1>2. CASE Tick
  BY <1>2 DEF Tick, Frame
<1>3. CASE UNCHANGED vars
  BY <1>3 DEF vars, Frame
<1> QED
  BY <1>1, <1>2, <1>3

\* The table only grows; a fleet keeps what it was sent with; time passes.
LEMMA TablesGrow ==
  ASSUME Inv, [Next]_vars
  PROVE  /\ clock' \in 0..Horizon /\ clock <= clock'
         /\ fleet' \in Seq(FleetRow) /\ Len(fleet') <= MaxFleets
         /\ planet' \in [Planets -> PlanetRow] /\ lost' \in Nat
         /\ DOMAIN fleet \subseteq DOMAIN fleet'
         /\ \A i \in DOMAIN fleet : SameFleet(fleet'[i], fleet[i])
<1>0. /\ TypeOK /\ RowsSound /\ PlanetsPast /\ RecallsPast /\ Held
      /\ clock \in 0..Horizon /\ Horizon \in Nat /\ clock \in Nat
      /\ fleet \in Seq(FleetRow) /\ Len(fleet) <= MaxFleets
      /\ planet \in [Planets -> PlanetRow] /\ lost \in Nat
  BY Constants DEF Inv, TypeOK
<1>1. CASE UNCHANGED <<clock, planet, fleet, lost>>
  BY <1>0, <1>1 DEF SameFleet
<1>2. ASSUME NEW t \in Txs, DispatchCommit(t)
      PROVE  /\ clock' = clock /\ lost' = lost
             /\ fleet' \in Seq(FleetRow) /\ Len(fleet') <= MaxFleets
             /\ planet' \in [Planets -> PlanetRow]
             /\ DOMAIN fleet \subseteq DOMAIN fleet'
             /\ \A i \in DOMAIN fleet : SameFleet(fleet'[i], fleet[i])
  <2>1. PICK p \in Planets, row \in PlanetRow, f \in FleetRow :
           /\ planet' = [planet EXCEPT ![p] = row]
           /\ fleet' = Append(fleet, f) /\ Len(fleet) + 1 \in Ids
           /\ clock' = clock /\ lost' = lost
    BY <1>0, <1>2, DispatchFacts
  <2>2. /\ fleet' \in Seq(FleetRow) /\ Len(fleet') <= MaxFleets
        /\ DOMAIN fleet \subseteq DOMAIN fleet'
        /\ \A i \in DOMAIN fleet : fleet'[i] = fleet[i]
    BY <1>0, <2>1, AppendFacts
  <2> QED
    BY <1>0, <2>1, <2>2 DEF SameFleet
<1>3. ASSUME NEW t \in Txs, RecallCommit(t)
      PROVE  /\ clock' = clock /\ lost' = lost /\ planet' = planet
             /\ fleet' \in Seq(FleetRow) /\ Len(fleet') = Len(fleet)
             /\ DOMAIN fleet' = DOMAIN fleet
             /\ \A i \in DOMAIN fleet : SameFleet(fleet'[i], fleet[i])
  <2>1. /\ clock' = clock /\ lost' = lost /\ planet' = planet
        /\ fleet' \in Seq(FleetRow) /\ Len(fleet') = Len(fleet)
        /\ DOMAIN fleet' = DOMAIN fleet
        /\ \A j \in DOMAIN fleet \ {job[t].fleet} : fleet'[j] = fleet[j]
        /\ SameFleet(fleet'[job[t].fleet], fleet[job[t].fleet])
    BY <1>0, <1>3, RecallFacts
  <2> QED
    BY <2>1 DEF SameFleet
<1>4. ASSUME NEW t \in Txs, SweepCommit(t)
      PROVE  /\ clock' = clock /\ lost' \in Nat
             /\ planet' \in [Planets -> PlanetRow]
             /\ fleet' \in Seq(FleetRow) /\ Len(fleet') = Len(fleet)
             /\ DOMAIN fleet' = DOMAIN fleet
             /\ \A i \in DOMAIN fleet : SameFleet(fleet'[i], fleet[i])
  <2>1. /\ clock' = clock /\ lost' \in Nat
        /\ planet' \in [Planets -> PlanetRow]
        /\ fleet' \in Seq(FleetRow) /\ Len(fleet') = Len(fleet)
        /\ DOMAIN fleet' = DOMAIN fleet
        /\ \A i \in DOMAIN fleet :
              fleet'[i] = IF FleetHeld(t, i) THEN draft[t].fleets[i] ELSE fleet[i]
    BY <1>0, <1>4, CommitFacts
  <2>2. \A i \in DOMAIN fleet : FleetHeld(t, i) => SameFleet(draft[t].fleets[i], fleet[i])
    BY <1>0, RowFacts DEF Held, HeldFleet
  <2> QED
    BY <2>1, <2>2 DEF SameFleet
<1>5. CASE \E p \in Planets : RefreshPlanet(p)
  <2>1. PICK p \in Planets : RefreshPlanet(p)
    BY <1>5
  <2>2. Refreshed(planet[p]) \in PlanetRow
    BY <1>0, RefreshedFacts DEF PlanetsPast
  <2>3. planet' = [planet EXCEPT ![p] = Refreshed(planet[p])] /\ UNCHANGED <<clock, fleet, lost>>
    BY <2>1 DEF RefreshPlanet
  <2> QED
    BY <1>0, <2>2, <2>3 DEF SameFleet
<1>6. CASE Tick
  <2>1. clock' = clock + 1 /\ clock < Horizon /\ UNCHANGED <<planet, fleet, lost>>
    BY <1>6 DEF Tick
  <2> QED
    BY <1>0, <2>1 DEF SameFleet
<1>7. CASE \E t \in Txs : Drafts(t)
  BY <1>1, <1>7, DraftsLeaveTables
<1>8. CASE UNCHANGED vars
  BY <1>1, <1>8 DEF vars
<1> QED
  BY <1>0, <1>2, <1>3, <1>4, <1>5, <1>6, <1>7, <1>8, StepIs DEF Writes

-----------------------------------------------------------------------------
(* Each part of the invariant is preserved.                                *)

LEMMA TypeNext ==
  ASSUME Inv, [Next]_vars
  PROVE  TypeOK'
<1>1. TxTypes
  BY DEF Inv, TypeOK, TxTypes, Draft
<1>2. TxTypes'
  <2>1. CASE \E t \in Txs : Writes(t) \/ Drafts(t)
    BY <2>1, StillOthers
  <2>2. CASE (\E p \in Planets : RefreshPlanet(p)) \/ Tick \/ UNCHANGED vars
    BY <1>1, <2>2 DEF RefreshPlanet, Tick, vars, TxTypes
  <2> QED
    BY <2>1, <2>2, StepIs
<1> QED
  BY <1>2, TablesGrow DEF TypeOK, TxTypes, Draft

LEMMA RowsSoundNext ==
  ASSUME Inv, [Next]_vars
  PROVE  RowsSound'
<1>0. TypeOK /\ RowsSound /\ RecallsPast /\ Held /\ clock \in Nat /\ clock' \in Nat /\ clock <= clock'
  BY TablesGrow, Constants DEF Inv, TypeOK
<1> DEFINE Sound(f) == /\ f.departure <= clock'
                       /\ f.status = "outbound" => ~f.home /\ ~f.arrived
                       /\ f.status = "returned" => f.home
<1>1. \A i \in DOMAIN fleet : fleet[i] \in FleetRow /\ Sound(fleet[i])
  <2>1. \A i \in DOMAIN fleet : fleet[i] \in FleetRow /\ fleet[i].departure \in Nat
    BY <1>0, RowFacts DEF FleetRow
  <2> QED
    BY <1>0, <2>1 DEF RowsSound
<1> SUFFICES \A i \in DOMAIN fleet' : Sound(fleet'[i])
  BY DEF RowsSound
<1>2. CASE fleet' = fleet
  BY <1>1, <1>2
<1>3. ASSUME NEW t \in Txs, DispatchCommit(t)
      PROVE  \A i \in DOMAIN fleet' : Sound(fleet'[i])
  <2>1. PICK f \in FleetRow :
          /\ f.status = "outbound" /\ ~f.home /\ ~f.arrived /\ f.departure <= clock
          /\ fleet' = Append(fleet, f) /\ Len(fleet) + 1 \in Ids
    BY <1>0, <1>3, DispatchFacts
  <2>2. Sound(f)
    <3>1. f.departure \in Nat
      BY DEF FleetRow
    <3> QED
      BY <1>0, <2>1, <3>1
  <2> HIDE DEF Sound
  <2> QED
    BY <1>0, <1>1, <2>1, <2>2, AppendFacts
<1>4. ASSUME NEW t \in Txs, RecallCommit(t)
      PROVE  \A i \in DOMAIN fleet' : Sound(fleet'[i])
  <2> DEFINE k == job[t].fleet
  <2>1. /\ DOMAIN fleet' = DOMAIN fleet /\ k \in DOMAIN fleet
        /\ \A j \in DOMAIN fleet \ {k} : fleet'[j] = fleet[j]
        /\ SameFleet(fleet'[k], fleet[k]) /\ fleet'[k].status = "returning"
    BY <1>0, <1>4, RecallFacts
  <2>2. Sound(fleet'[k])
    BY <1>1, <2>1 DEF SameFleet
  <2> HIDE DEF Sound
  <2> QED
    BY <1>1, <2>1, <2>2
<1>5. ASSUME NEW t \in Txs, SweepCommit(t)
      PROVE  \A i \in DOMAIN fleet' : Sound(fleet'[i])
  <2>1. /\ Sweeping(t) /\ todo[t] = {} /\ DOMAIN fleet' = DOMAIN fleet
        /\ \A i \in DOMAIN fleet :
              fleet'[i] = IF FleetHeld(t, i) THEN draft[t].fleets[i] ELSE fleet[i]
    BY <1>0, <1>5, CommitFacts
  <2>2. ASSUME NEW i \in DOMAIN fleet, FleetHeld(t, i)
        PROVE  Sound(draft[t].fleets[i])
    <3>1. HeldFleet(t, i)
      BY <1>0, <2>2, RowFacts DEF Held
    <3>2. \/ draft[t].fleets[i].status \in {"returning", "deleted"}
          \/ draft[t].fleets[i].status = "returned" /\ draft[t].fleets[i].home
      BY <2>1, <3>1 DEF HeldFleet, Sweeping
    <3> QED
      BY <1>1, <3>1, <3>2 DEF HeldFleet, SameFleet
  <2> HIDE DEF Sound
  <2> QED
    BY <1>1, <2>1, <2>2
<1>6. CASE \E t \in Txs : Drafts(t)
  BY <1>2, <1>6, DraftsLeaveTables
<1>7. CASE (\E p \in Planets : RefreshPlanet(p)) \/ Tick \/ UNCHANGED vars
  BY <1>2, <1>7 DEF RefreshPlanet, Tick, vars
<1> QED
  BY <1>3, <1>4, <1>5, <1>6, <1>7, StepIs DEF Writes

LEMMA PlanetsPastNext ==
  ASSUME Inv, [Next]_vars
  PROVE  PlanetsPast'
<1>0. /\ TypeOK /\ RowsSound /\ RecallsPast /\ PlanetsPast
      /\ clock \in 0..Horizon /\ clock \in Nat /\ clock' \in Nat /\ clock <= clock'
      /\ \A p \in Planets : planet[p] \in PlanetRow
  BY TablesGrow, Constants DEF Inv, TypeOK
<1>1. \A p \in Planets : planet[p].updated \in Nat /\ planet[p].updated <= clock'
  BY <1>0 DEF PlanetsPast, PlanetRow
<1>2. \A p \in Planets, t \in Txs : PlanetHeld(t, p) =>
        draft[t].planets[p].updated \in Nat /\ draft[t].planets[p].updated <= clock'
  <2>1. \A p \in Planets, t \in Txs : PlanetHeld(t, p) => draft[t].planets[p] \in PlanetRow
    BY <1>0 DEF TypeOK, PlanetHeld
  <2> QED
    BY <1>0, <2>1 DEF PlanetsPast, PlanetRow
\* The rows of the table.
<1>3. ASSUME NEW p \in Planets
      PROVE  planet'[p].updated <= clock'
  <2>1. CASE planet' = planet
    BY <1>1, <2>1
  <2>2. ASSUME NEW t \in Txs, DispatchCommit(t)
        PROVE  planet'[p].updated <= clock'
    <3>1. PICK q \in Planets, row \in PlanetRow :
             row.updated <= clock /\ planet' = [planet EXCEPT ![q] = row] /\ clock' = clock
      BY <1>0, <2>2, DispatchFacts
    <3> QED
      BY <1>0, <1>1, <3>1 DEF TypeOK
  <2>3. ASSUME NEW t \in Txs, SweepCommit(t)
        PROVE  planet'[p].updated <= clock'
    <3>1. planet'[p] = IF PlanetHeld(t, p) THEN draft[t].planets[p] ELSE planet[p]
      BY <1>0, <2>3, CommitFacts
    <3> QED
      BY <1>1, <1>2, <3>1
  <2>4. CASE \E q \in Planets : RefreshPlanet(q)
    <3>1. PICK q \in Planets : RefreshPlanet(q)
      BY <2>4
    <3>2. planet' = [planet EXCEPT ![q] = Refreshed(planet[q])] /\ clock' = clock
      BY <3>1 DEF RefreshPlanet
    <3>3. Refreshed(planet[q]).updated <= clock
      BY <1>0, RefreshedFacts DEF PlanetsPast
    <3> QED
      BY <1>0, <1>1, <3>2, <3>3 DEF TypeOK
  <2>5. CASE \E t \in Txs : RecallCommit(t) \/ Drafts(t)
    BY <2>1, <2>5, DraftsLeaveTables DEF RecallCommit
  <2>6. CASE Tick \/ UNCHANGED vars
    BY <2>1, <2>6 DEF Tick, vars
  <2> QED
    BY <2>2, <2>3, <2>4, <2>5, <2>6, StepIs DEF Writes
\* The rows of the drafts.
<1>4. ASSUME NEW p \in Planets, NEW t \in Txs, Writes(t) \/ Drafts(t),
             draft'[t].planets[p] # Untouched
      PROVE  draft'[t].planets[p].updated <= clock'
  <2>1. CASE draft'[t].planets[p] = draft[t].planets[p]
    BY <1>2, <1>4, <2>1 DEF PlanetHeld
  <2>2. CASE Writes(t) \/ Rollback(t)
    <3>1. Finish(t)
      BY <2>2 DEF Writes, DispatchCommit, RecallCommit, SweepCommit, Rollback
    <3>2. draft'[t] = Blank
      BY <1>0, <3>1, FinishFacts
    <3> QED
      BY <1>4, <3>2, BlankFacts
  <2>3. CASE \E q \in Planets : DispatchLock(t, q)
    <3>1. PICK q \in Planets : DispatchLock(t, q)
      BY <2>3
    <3>2. p # q => draft'[t].planets[p] = draft[t].planets[p]
      BY <1>0, <3>1, DispatchLockFacts
    <3>3. p = q => draft'[t].planets[p] = Refreshed(planet[p])
      BY <1>0, <3>1, DispatchLockFacts
    <3>4. Refreshed(planet[p]).updated <= clock /\ Refreshed(planet[p]) \in PlanetRow
      BY <1>0, RefreshedFacts DEF PlanetsPast
    <3>5. clock' = clock
      BY <3>1 DEF DispatchLock
    <3> QED
      BY <2>1, <3>2, <3>3, <3>4, <3>5
  <2>4. CASE Claims(t)
    <3>1. draft'[t].planets = draft[t].planets
      BY <2>4, ClaimsFacts
    <3> QED
      BY <2>1, <3>1
  <2>5. CASE Handled(t)
    <3>1. \/ draft'[t].planets[p] = draft[t].planets[p]
          \/ draft'[t].planets[p].updated <= clock
      BY <2>5, HandledFacts
    <3>2. clock' = clock
      BY <2>5, DraftsLeaveTables DEF Drafts
    <3> QED
      BY <2>1, <3>1, <3>2
  <2>6. CASE SweepFail(t) \/ \E i \in Ids : RecallRead(t, i)
    BY <2>1, <2>6 DEF SweepFail, RecallRead
  <2> QED
    BY <1>4, <2>2, <2>3, <2>4, <2>5, <2>6 DEF Drafts
<1>5. ASSUME NEW p \in Planets, NEW u \in Txs, Frame(u), draft'[u].planets[p] # Untouched
      PROVE  draft'[u].planets[p].updated <= clock'
  BY <1>2, <1>5 DEF Frame, PlanetHeld
<1>6. ASSUME NEW p \in Planets, NEW u \in Txs, draft'[u].planets[p] # Untouched
      PROVE  draft'[u].planets[p].updated <= clock'
  <2>1. CASE Frame(u)
    BY <1>5, <1>6, <2>1
  <2>2. CASE Writes(u) \/ Drafts(u)
    BY <1>4, <1>6, <2>2
  <2> QED
    BY <2>1, <2>2, StepIs, Frames, FramesAll
<1> QED
  BY <1>3, <1>6 DEF PlanetsPast, PlanetHeld

LEMMA RecallsPastNext ==
  ASSUME Inv, [Next]_vars
  PROVE  RecallsPast'
<1>0. TypeOK /\ RowsSound /\ RecallsPast /\ PlanetsPast
  BY DEF Inv
<1> SUFFICES ASSUME NEW t \in Txs, pc'[t] = "recalling"
             PROVE  /\ job'[t].fleet \in DOMAIN fleet'
                    /\ fleet'[job'[t].fleet].departure <= job'[t].now
  BY DEF RecallsPast
<1>1. CASE pc[t] = "recalling" /\ job'[t] = job[t]
  BY <1>0, <1>1, TablesGrow DEF RecallsPast, SameFleet
<1>2. CASE Frame(t)
  BY <1>1, <1>2 DEF Frame
<1>3. CASE \E i \in Ids : RecallRead(t, i)
  <2>1. PICK i \in Ids : RecallRead(t, i)
    BY <1>3
  <2>2. /\ i \in DOMAIN fleet /\ fleet' = fleet
        /\ job' = [job EXCEPT ![t] = [fleet |-> i, now |-> clock]]
    BY <2>1 DEF RecallRead
  <2>3. job'[t].fleet = i /\ job'[t].now = clock
    BY <1>0, <2>2 DEF TypeOK
  <2> QED
    BY <1>0, <2>2, <2>3 DEF RowsSound
<1>4. CASE Writes(t) \/ Rollback(t)
  <2>1. Finish(t)
    BY <1>4 DEF Writes, DispatchCommit, RecallCommit, SweepCommit, Rollback
  <2> QED
    BY <1>0, <2>1, FinishFacts
<1>5. CASE \E p \in Planets : DispatchLock(t, p)
  BY <1>0, <1>5, DispatchLockFacts
<1>6. CASE Claims(t)
  BY <1>6, ClaimsFacts
<1>7. CASE Handled(t)
  BY <1>7, HandledFacts DEF Outcome, Sweeping
<1>8. CASE SweepFail(t)
  BY <1>0, <1>8 DEF SweepFail, TypeOK
<1>9. CASE Drafts(t)
  BY <1>3, <1>4, <1>5, <1>6, <1>7, <1>8, <1>9 DEF Drafts
<1> QED
  BY <1>2, <1>4, <1>9, StepIs, Frames, FramesAll

\* A transaction locks only what nobody else has locked.
LEMMA NewLocks ==
  ASSUME Inv, NEW t \in Txs, Writes(t) \/ Drafts(t)
  PROVE  /\ \A i \in Ids : draft'[t].fleets[i] # Untouched =>
              FleetHeld(t, i) \/ FleetFree(t, i)
         /\ \A p \in Planets : draft'[t].planets[p] # Untouched =>
              PlanetHeld(t, p) \/ PlanetFree(t, p)
<1>0. TypeOK /\ PlanetsPast /\ Held
  BY DEF Inv
<1>1. CASE draft'[t] = draft[t]
  BY <1>1 DEF FleetHeld, PlanetHeld
<1>2. CASE Writes(t) \/ Rollback(t)
  <2>1. Finish(t)
    BY <1>2 DEF Writes, DispatchCommit, RecallCommit, SweepCommit, Rollback
  <2>2. draft'[t] = Blank
    BY <1>0, <2>1, FinishFacts
  <2> QED
    BY <2>2, BlankFacts
<1>3. CASE \E p \in Planets : DispatchLock(t, p)
  <2>1. PICK p \in Planets : DispatchLock(t, p)
    BY <1>3
  <2>2. PlanetFree(t, p)
    BY <2>1 DEF DispatchLock
  <2>3. /\ draft'[t].fleets = draft[t].fleets
        /\ \A q \in Planets \ {p} : draft'[t].planets[q] = draft[t].planets[q]
    BY <1>0, <2>1, DispatchLockFacts
  <2> QED
    BY <2>2, <2>3 DEF FleetHeld, PlanetHeld
<1>4. CASE Claims(t)
  BY <1>4, ClaimsFacts DEF FleetHeld, PlanetHeld
<1>5. CASE Handled(t)
  <2>1. PICK i \in Ids, f \in FleetRow :
           /\ Outcome(t, i, f)
           /\ \A j \in Ids \ {i} : draft'[t].fleets[j] = draft[t].fleets[j]
           /\ \A q \in Planets : \/ draft'[t].planets[q] = draft[t].planets[q]
                                 \/ PlanetFree(t, q)
    BY <1>5, HandledFacts
  <2>2. FleetHeld(t, i)
    BY <1>0, <2>1 DEF Outcome, Held
  <2> QED
    BY <2>1, <2>2 DEF FleetHeld, PlanetHeld
<1>6. CASE SweepFail(t) \/ \E i \in Ids : RecallRead(t, i)
  BY <1>1, <1>6 DEF SweepFail, RecallRead
<1> QED
  BY <1>2, <1>3, <1>4, <1>5, <1>6 DEF Drafts

LEMMA LocksNext ==
  ASSUME Inv, [Next]_vars
  PROVE  Locks'
<1>1. ASSUME NEW t \in Txs, NEW u \in Txs, t # u, Writes(t) \/ Drafts(t)
      PROVE  /\ \A i \in Ids : ~(draft'[t].fleets[i] # Untouched /\ draft'[u].fleets[i] # Untouched)
             /\ \A p \in Planets : ~(draft'[t].planets[p] # Untouched /\ draft'[u].planets[p] # Untouched)
  <2>1. draft'[u] = draft[u]
    BY <1>1, Frames DEF Frame
  <2>2. ASSUME NEW i \in Ids, draft'[t].fleets[i] # Untouched
        PROVE  draft[u].fleets[i] = Untouched
    BY <1>1, <2>2, NewLocks DEF Inv, Locks, FleetHeld, FleetFree
  <2>3. ASSUME NEW p \in Planets, draft'[t].planets[p] # Untouched
        PROVE  draft[u].planets[p] = Untouched
    BY <1>1, <2>3, NewLocks DEF Inv, Locks, PlanetHeld, PlanetFree
  <2> QED
    BY <2>1, <2>2, <2>3
<1>2. ASSUME NEW t \in Txs, NEW u \in Txs, t # u, Frame(t), Frame(u)
      PROVE  /\ \A i \in Ids : ~(draft'[t].fleets[i] # Untouched /\ draft'[u].fleets[i] # Untouched)
             /\ \A p \in Planets : ~(draft'[t].planets[p] # Untouched /\ draft'[u].planets[p] # Untouched)
  BY <1>2 DEF Frame, Inv, Locks, FleetHeld, PlanetHeld
<1>3. ASSUME NEW t \in Txs, NEW u \in Txs, t # u
      PROVE  /\ \A i \in Ids : ~(draft'[t].fleets[i] # Untouched /\ draft'[u].fleets[i] # Untouched)
             /\ \A p \in Planets : ~(draft'[t].planets[p] # Untouched /\ draft'[u].planets[p] # Untouched)
  <2>1. CASE Writes(t) \/ Drafts(t)
    BY <1>1, <1>3, <2>1
  <2>2. CASE Writes(u) \/ Drafts(u)
    BY <1>1, <1>3, <2>2
  <2>3. CASE Frame(t) /\ Frame(u)
    BY <1>2, <1>3, <2>3
  <2> QED
    BY <2>1, <2>2, <2>3, StepIs, Frames, FramesAll
<1> QED
  BY <1>3 DEF Locks, FleetHeld, PlanetHeld

LEMMA QuietNext ==
  ASSUME Inv, [Next]_vars
  PROVE  Quiet'
<1>0. TypeOK /\ Quiet /\ PlanetsPast
  BY DEF Inv
<1> SUFFICES ASSUME NEW t \in Txs, pc'[t] \in {"idle", "recalling"}
             PROVE  draft'[t] = Blank /\ todo'[t] = {}
  BY DEF Quiet, Blank
<1>1. CASE Frame(t)
  BY <1>0, <1>1 DEF Frame, Quiet
<1>2. CASE Writes(t) \/ Rollback(t)
  <2>1. Finish(t)
    BY <1>2 DEF Writes, DispatchCommit, RecallCommit, SweepCommit, Rollback
  <2> QED
    BY <1>0, <2>1, FinishFacts
<1>3. CASE \E i \in Ids : RecallRead(t, i)
  BY <1>0, <1>3 DEF RecallRead, Quiet
<1>4. CASE \E p \in Planets : DispatchLock(t, p)
  BY <1>0, <1>4, DispatchLockFacts
<1>5. CASE Claims(t)
  BY <1>5, ClaimsFacts
<1>6. CASE Handled(t)
  BY <1>6, HandledFacts DEF Outcome, Sweeping
<1>7. CASE SweepFail(t)
  BY <1>0, <1>7 DEF SweepFail, TypeOK
<1> QED
  BY <1>1, <1>2, <1>3, <1>4, <1>5, <1>6, <1>7, StepIs, Frames, FramesAll DEF Drafts

LEMMA DispatchingNext ==
  ASSUME Inv, [Next]_vars
  PROVE  Dispatching'
<1>0. TypeOK /\ Quiet /\ Dispatching /\ PlanetsPast
  BY DEF Inv
<1> SUFFICES ASSUME NEW t \in Txs, pc'[t] = "dispatching"
             PROVE  /\ todo'[t] = {} /\ draft'[t].lost = 0
                    /\ \A i \in Ids : draft'[t].fleets[i] = Untouched
                    /\ \A p \in Planets : draft'[t].planets[p] # Untouched =>
                         /\ draft'[t].planets[p].ships = planet'[p].ships
                         /\ draft'[t].planets[p].metal + Rate * planet'[p].updated
                              <= planet'[p].metal + Rate * draft'[t].planets[p].updated
  BY DEF Dispatching, FleetHeld, PlanetHeld
<1>1. CASE Frame(t)
  BY <1>0, <1>1 DEF Frame, Dispatching, FleetHeld, PlanetHeld
<1>2. CASE Writes(t) \/ Rollback(t)
  <2>1. Finish(t)
    BY <1>2 DEF Writes, DispatchCommit, RecallCommit, SweepCommit, Rollback
  <2> QED
    BY <1>0, <2>1, FinishFacts
<1>3. CASE \E i \in Ids : RecallRead(t, i)
  BY <1>0, <1>3 DEF RecallRead, TypeOK
<1>4. CASE \E p \in Planets : DispatchLock(t, p)
  <2>1. PICK p \in Planets : DispatchLock(t, p)
    BY <1>4
  <2>2. /\ todo'[t] = todo[t] /\ draft'[t].fleets = draft[t].fleets
        /\ draft'[t].lost = draft[t].lost
        /\ draft'[t].planets[p] = Refreshed(planet[p])
        /\ \A q \in Planets \ {p} : draft'[t].planets[q] = draft[t].planets[q]
    BY <1>0, <2>1, DispatchLockFacts
  <2>3. draft[t] = Blank /\ todo[t] = {} /\ planet' = planet
    BY <1>0, <2>1 DEF DispatchLock, Quiet
  <2>4. /\ Refreshed(planet[p]).ships = planet[p].ships
        /\ Refreshed(planet[p]).metal + Rate * planet[p].updated
             <= planet[p].metal + Rate * Refreshed(planet[p]).updated
    BY <1>0, RefreshedFacts DEF TypeOK, PlanetsPast
  <2> QED
    BY <2>2, <2>3, <2>4, BlankFacts
<1>5. CASE Claims(t)
  BY <1>5, ClaimsFacts
<1>6. CASE Handled(t)
  BY <1>6, HandledFacts DEF Outcome, Sweeping
<1>7. CASE SweepFail(t)
  BY <1>0, <1>7 DEF SweepFail, TypeOK
<1> QED
  BY <1>1, <1>2, <1>3, <1>4, <1>5, <1>6, <1>7, StepIs, Frames, FramesAll DEF Drafts

LEMMA HeldNext ==
  ASSUME Inv, [Next]_vars
  PROVE  Held'
<1>0. TypeOK /\ Quiet /\ Dispatching /\ PlanetsPast /\ Held /\ RowsSound
  BY DEF Inv
<1> SUFFICES ASSUME NEW t \in Txs, NEW i \in Ids
             PROVE  /\ i \in todo'[t] => FleetHeld(t, i)'
                    /\ FleetHeld(t, i)' => HeldFleet(t, i)'
  BY DEF Held, HeldFleet, FleetHeld
<1>1. CASE Frame(t)
  <2>1. FleetHeld(t, i)' <=> FleetHeld(t, i)
    BY <1>1 DEF Frame, FleetHeld
  <2>2. ASSUME FleetHeld(t, i) PROVE HeldFleet(t, i)'
    <3>1. HeldFleet(t, i)
      BY <1>0, <2>2 DEF Held
    <3>2. fleet'[i] = fleet[i] /\ i \in DOMAIN fleet'
      BY <1>1, <2>2, <3>1, TablesGrow DEF Frame, HeldFleet
    <3> QED
      BY <1>1, <3>1, <3>2 DEF Frame, HeldFleet, SameFleet
  <2>3. i \in todo'[t] => FleetHeld(t, i)
    BY <1>0, <1>1 DEF Frame, Held
  <2> QED
    BY <2>1, <2>2, <2>3
<1>2. CASE todo'[t] = {} /\ draft'[t].fleets[i] = Untouched
  BY <1>2 DEF FleetHeld
<1>3. CASE Writes(t) \/ Rollback(t)
  <2>1. Finish(t)
    BY <1>3 DEF Writes, DispatchCommit, RecallCommit, SweepCommit, Rollback
  <2> QED
    BY <1>0, <1>2, <2>1, FinishFacts, BlankFacts
<1>4. CASE \E j \in Ids : RecallRead(t, j)
  <2>1. todo'[t] = todo[t] /\ draft'[t] = draft[t] /\ pc[t] = "idle"
    BY <1>4 DEF RecallRead
  <2> QED
    BY <1>0, <1>2, <2>1, BlankFacts DEF Quiet
<1>5. CASE \E p \in Planets : DispatchLock(t, p)
  <2>1. PICK p \in Planets : DispatchLock(t, p)
    BY <1>5
  <2>2. todo'[t] = todo[t] /\ draft'[t].fleets = draft[t].fleets
    BY <1>0, <2>1, DispatchLockFacts
  <2>3. draft[t] = Blank /\ todo[t] = {}
    BY <1>0, <2>1 DEF DispatchLock, Quiet
  <2> QED
    BY <1>2, <2>2, <2>3, BlankFacts
<1>6. CASE Claims(t)
  <2>1. PICK sweep \in {"arrivals", "returns"}, batch \in SUBSET Ids :
           /\ \A j \in batch : j \in DOMAIN fleet /\ ~fleet[j].home
           /\ sweep = "arrivals" => \A j \in batch : fleet[j].status = "outbound"
           /\ sweep = "returns" => \A j \in batch : fleet[j].status = "returning"
           /\ pc'[t] = sweep /\ todo'[t] = batch
           /\ \A j \in Ids : draft'[t].fleets[j] = IF j \in batch THEN fleet[j] ELSE Untouched
    BY <1>6, ClaimsFacts
  <2>2. fleet' = fleet
    BY <1>6, DraftsLeaveTables DEF Drafts
  <2>3. CASE i \notin batch
    BY <2>1, <2>3 DEF FleetHeld
  <2>4. CASE i \in batch
    <3>1. fleet[i] \in FleetRow /\ fleet[i] # Untouched
      BY <1>0, <2>1, <2>4, RowFacts, Constants
    <3>2. draft'[t].fleets[i] = fleet[i]
      BY <2>1, <2>4
    <3> QED
      BY <2>1, <2>2, <2>4, <3>1, <3>2 DEF FleetHeld, HeldFleet, SameFleet
  <2> QED
    BY <2>3, <2>4
<1>7. CASE Handled(t)
  <2>1. PICK k \in Ids, f \in FleetRow :
           /\ Outcome(t, k, f)
           /\ pc'[t] = pc[t] /\ todo'[t] = todo[t] \ {k}
           /\ draft'[t].fleets[k] = f
           /\ \A j \in Ids \ {k} : draft'[t].fleets[j] = draft[t].fleets[j]
    BY <1>7, HandledFacts
  <2>2. fleet' = fleet
    BY <1>7, DraftsLeaveTables DEF Drafts
  <2>3. CASE i # k
    <3>1. /\ draft'[t].fleets[i] = draft[t].fleets[i]
          /\ i \in todo'[t] <=> i \in todo[t]
      BY <2>1, <2>3
    <3> QED
      BY <1>0, <2>1, <2>2, <3>1 DEF Held, HeldFleet, FleetHeld, SameFleet
  <2>4. CASE i = k
    <3>1. FleetHeld(t, k) /\ HeldFleet(t, k) /\ k \in todo[t]
      BY <1>0, <2>1 DEF Outcome, Held
    <3>2. f # Untouched
      BY Constants
    <3>3. /\ SameFleet(f, draft[t].fleets[k])
          /\ pc[t] = "arrivals" => f.status \in {"returning", "deleted"} /\ ~f.home
          /\ pc[t] = "returns" =>
               f.status = "returned" /\ f.home /\ f.arrived = draft[t].fleets[k].arrived
      BY <2>1 DEF Outcome
    <3>4. draft'[t].fleets[i] = f /\ i \notin todo'[t] /\ pc'[t] = pc[t]
      BY <2>1, <2>4
    <3>5. HeldFleet(t, i)'
      BY <2>2, <2>4, <3>1, <3>3, <3>4 DEF HeldFleet, SameFleet
    <3> QED
      BY <3>4, <3>5
  <2> QED
    BY <2>3, <2>4
<1>8. CASE SweepFail(t)
  <2>1. /\ todo'[t] = todo[t] /\ draft'[t] = draft[t] /\ fleet' = fleet
        /\ pc'[t] = "aborted"
    BY <1>0, <1>8 DEF SweepFail, TypeOK
  <2> QED
    BY <1>0, <2>1 DEF Held, HeldFleet, FleetHeld, SameFleet
<1> QED
  BY <1>1, <1>3, <1>4, <1>5, <1>6, <1>7, <1>8, StepIs, Frames, FramesAll DEF Drafts

-----------------------------------------------------------------------------
(* Theorems.                                                               *)

LEMMA InvInit == Init => Inv
<1> SUFFICES ASSUME Init PROVE Inv
  OBVIOUS
<1> USE DEF Init
<1>1. \A t \in Txs : /\ draft[t] = Blank /\ todo[t] = {} /\ pc[t] = "idle"
                     /\ \A i \in Ids : ~FleetHeld(t, i)
                     /\ \A p \in Planets : ~PlanetHeld(t, p)
  BY BlankFacts DEF FleetHeld, PlanetHeld
<1>2. clock \in 0..Horizon /\ clock = 0 /\ lost \in Nat /\ MaxFleets \in Nat
  BY Constants
<1>3. fleet \in Seq(FleetRow) /\ Len(fleet) = 0 /\ DOMAIN fleet = {}
  OBVIOUS
<1>4. planet \in [Planets -> PlanetRow] /\ \A p \in Planets : planet[p].updated = 0
  BY Constants DEF PlanetRow
<1>5. NoJob \in [fleet : Ids \cup {0}, now : 0..Horizon]
  BY Constants DEF NoJob
<1>6. TypeOK
  BY <1>2, <1>3, <1>4, <1>5, BlankFacts DEF TypeOK, Draft
<1> QED
  BY <1>1, <1>2, <1>3, <1>4, <1>6
     DEF Inv, RowsSound, PlanetsPast, RecallsPast, Locks, Quiet, Dispatching, Held

LEMMA InvNext == Inv /\ [Next]_vars => Inv'
BY TypeNext, RowsSoundNext, PlanetsPastNext, RecallsPastNext, LocksNext, QuietNext,
   DispatchingNext, HeldNext DEF Inv

LEMMA InvHolds == Spec => []Inv
BY InvInit, InvNext, PTL DEF Spec

\* The tables and every transaction keep their types: no stock, ship count or
\* date ever becomes negative (migrations and models of planets and fleets).
THEOREM TypeCorrect == Spec => []TypeOK
<1>1. Inv => TypeOK
  BY DEF Inv
<1> QED
  BY <1>1, InvHolds, PTL

\* Dispatches, recalls and sweeps of any number of processes never have one
\* row in two transactions (FOR UPDATE and SKIP LOCKED in store/fleets.go).
THEOREM LocksKept == Spec => []Locks
<1>1. Inv => Locks
  BY DEF Inv
<1> QED
  BY <1>1, InvHolds, PTL

\* A recalled fleet never carries its mission out, whatever the batches that
\* were claimed before the recall (svc/fleet.go:288-290).
THEOREM RecalledHolds == Spec => RecalledNeverArrives
<1> DEFINE Kept == \A i \in DOMAIN fleet :
                     fleet[i].status # "outbound" => fleet'[i].arrived = fleet[i].arrived
<1>1. ASSUME Inv, [Next]_vars
      PROVE  Kept
  <2>0. TypeOK /\ RowsSound /\ RecallsPast /\ Held
    BY <1>1 DEF Inv
  <2>1. CASE fleet' = fleet
    BY <2>1
  <2>2. ASSUME NEW t \in Txs, DispatchCommit(t)
        PROVE  Kept
    BY <2>0, <2>2, DispatchFacts, AppendFacts
  <2>3. ASSUME NEW t \in Txs, RecallCommit(t)
        PROVE  Kept
    BY <2>0, <2>3, RecallFacts
  <2>4. ASSUME NEW t \in Txs, SweepCommit(t)
        PROVE  Kept
    <3>1. /\ Sweeping(t)
          /\ \A i \in DOMAIN fleet :
               fleet'[i] = IF FleetHeld(t, i) THEN draft[t].fleets[i] ELSE fleet[i]
      BY <2>0, <2>4, CommitFacts
    <3>2. \A i \in DOMAIN fleet : FleetHeld(t, i) => HeldFleet(t, i)
      BY <2>0, RowFacts DEF Held
    <3> QED
      BY <3>1, <3>2 DEF Sweeping, HeldFleet
  <2>5. CASE \E t \in Txs : Drafts(t)
    BY <2>1, <2>5, DraftsLeaveTables
  <2>6. CASE (\E p \in Planets : RefreshPlanet(p)) \/ Tick \/ UNCHANGED vars
    BY <2>1, <2>6 DEF RefreshPlanet, Tick, vars
  <2> HIDE DEF Kept
  <2> QED
    BY <1>1, <2>2, <2>3, <2>4, <2>5, <2>6, StepIs DEF Writes
<1>2. Inv /\ [Next]_vars => [Kept]_vars
  BY <1>1
<1> QED
  BY <1>2, InvHolds, PTL DEF Spec, RecalledNeverArrives

-----------------------------------------------------------------------------
(* Conservation.  While a sweep works, what it has drafted and what it has *)
(* found destroyed make up what the table still says of the same rows.     *)

HeldShips(t) ==
  [p \in Planets |-> IF PlanetHeld(t, p) THEN draft[t].planets[p].ships ELSE 0]
TableShips(t) ==
  [p \in Planets |-> IF PlanetHeld(t, p) THEN planet[p].ships ELSE 0]
EndedShips(t) ==
  [i \in Ids |-> IF FleetHeld(t, i) /\ ~Aloft(draft[t].fleets[i]) THEN fleet[i].ships ELSE 0]

ShipsBalanced(t) ==
  Sum(HeldShips(t), Planets) + draft[t].lost
    = Sum(TableShips(t), Planets) + Sum(EndedShips(t), Ids)

HeldMetal(t) ==
  [p \in Planets |-> IF PlanetHeld(t, p) THEN draft[t].planets[p].metal ELSE 0]
TableMetal(t) ==
  [p \in Planets |-> IF PlanetHeld(t, p) THEN planet[p].metal ELSE 0]
HeldYield(t) ==
  [p \in Planets |-> IF PlanetHeld(t, p) THEN Rate * draft[t].planets[p].updated ELSE 0]
TableYield(t) ==
  [p \in Planets |-> IF PlanetHeld(t, p) THEN Rate * planet[p].updated ELSE 0]
HeldCargo(t) ==
  [i \in Ids |-> IF FleetHeld(t, i) THEN CargoAboard(draft[t].fleets[i]) ELSE 0]
TableCargo(t) ==
  [i \in Ids |-> IF FleetHeld(t, i) THEN fleet[i].cargo ELSE 0]

CargoBalanced(t) ==
  Sum(HeldMetal(t), Planets) + Sum(HeldCargo(t), Ids) + Sum(TableYield(t), Planets)
    <= Sum(TableMetal(t), Planets) + Sum(TableCargo(t), Ids) + Sum(HeldYield(t), Planets)

Balance == \A t \in Txs : Sweeping(t) => ShipsBalanced(t) /\ CargoBalanced(t)

Balanced == Inv /\ Balance

LEMMA Finite == IsFiniteSet(Planets) /\ IsFiniteSet(Ids)
BY Constants, FS_Interval DEF Ids

Naturals(t) ==
  /\ \A p \in Planets :
       /\ HeldShips(t)[p] \in Nat /\ TableShips(t)[p] \in Nat
       /\ HeldMetal(t)[p] \in Nat /\ TableMetal(t)[p] \in Nat
       /\ HeldYield(t)[p] \in Nat /\ TableYield(t)[p] \in Nat
  /\ \A i \in Ids :
       /\ EndedShips(t)[i] \in Nat
       /\ HeldCargo(t)[i] \in Nat /\ TableCargo(t)[i] \in Nat

LEMMA HeldTypes ==
  ASSUME Inv, NEW t \in Txs
  PROVE  Naturals(t)
<1>1. TypeOK /\ Held
  BY DEF Inv
<1>2. ASSUME NEW p \in Planets
      PROVE  /\ planet[p].ships \in Nat /\ planet[p].metal \in Nat
             /\ Rate * planet[p].updated \in Nat
             /\ PlanetHeld(t, p) => /\ draft[t].planets[p].ships \in Nat
                                    /\ draft[t].planets[p].metal \in Nat
                                    /\ Rate * draft[t].planets[p].updated \in Nat
  <2>1. planet[p] \in PlanetRow /\ (PlanetHeld(t, p) => draft[t].planets[p] \in PlanetRow)
    BY <1>1 DEF TypeOK, PlanetHeld
  <2>2. \A row \in PlanetRow : row.ships \in Nat /\ row.metal \in Nat /\ Rate * row.updated \in Nat
    <3>1. \A row \in PlanetRow : row.ships \in Nat /\ row.metal \in Nat /\ row.updated \in Nat
      BY Constants DEF PlanetRow
    <3> QED
      BY <3>1, Constants
  <2> QED
    BY <2>1, <2>2
<1>3. ASSUME NEW i \in Ids, FleetHeld(t, i)
      PROVE  /\ fleet[i].ships \in Nat /\ fleet[i].cargo \in Nat
             /\ draft[t].fleets[i].cargo \in Nat
  <2>1. i \in DOMAIN fleet /\ draft[t].fleets[i] \in FleetRow
    BY <1>1, <1>3 DEF Held, HeldFleet, TypeOK, FleetHeld
  <2> QED
    BY <1>1, <2>1, RowFacts DEF FleetRow
<1> QED
  BY <1>2, <1>3 DEF Naturals, HeldShips, TableShips, HeldMetal, TableMetal, HeldYield,
                    TableYield, EndedShips, HeldCargo, TableCargo, CargoAboard

AllNaturals == \A t \in Txs : Naturals(t)

LEMMA HeldTypesNext == Inv' => AllNaturals'
<1>1. Inv => AllNaturals
  BY HeldTypes DEF AllNaturals
<1> QED
  BY <1>1, PTL

\* What Frame says, for the sums.
LEMMA FrameSums ==
  ASSUME NEW t \in Txs, Frame(t)
  PROVE  /\ HeldShips(t)' = HeldShips(t) /\ TableShips(t)' = TableShips(t)
         /\ HeldMetal(t)' = HeldMetal(t) /\ TableMetal(t)' = TableMetal(t)
         /\ HeldYield(t)' = HeldYield(t) /\ TableYield(t)' = TableYield(t)
         /\ EndedShips(t)' = EndedShips(t)
         /\ HeldCargo(t)' = HeldCargo(t) /\ TableCargo(t)' = TableCargo(t)
<1>1. /\ \A p \in Planets : PlanetHeld(t, p)' <=> PlanetHeld(t, p)
      /\ \A i \in Ids : FleetHeld(t, i)' <=> FleetHeld(t, i)
      /\ draft'[t] = draft[t]
  BY DEF Frame, PlanetHeld, FleetHeld
<1>2. /\ \A p \in Planets : PlanetHeld(t, p) => planet'[p] = planet[p]
      /\ \A i \in Ids : FleetHeld(t, i) => fleet'[i] = fleet[i]
  BY DEF Frame
<1>3. HeldShips(t)' = HeldShips(t) /\ TableShips(t)' = TableShips(t)
  BY <1>1, <1>2 DEF HeldShips, TableShips
<1>4. HeldMetal(t)' = HeldMetal(t) /\ TableMetal(t)' = TableMetal(t)
  BY <1>1, <1>2 DEF HeldMetal, TableMetal
<1>5. HeldYield(t)' = HeldYield(t) /\ TableYield(t)' = TableYield(t)
  BY <1>1, <1>2 DEF HeldYield, TableYield
<1>6. EndedShips(t)' = EndedShips(t)
  BY <1>1, <1>2 DEF EndedShips, Aloft
<1>7. HeldCargo(t)' = HeldCargo(t) /\ TableCargo(t)' = TableCargo(t)
  BY <1>1, <1>2 DEF HeldCargo, TableCargo, CargoAboard, Aloft
<1> QED
  BY <1>3, <1>4, <1>5, <1>6, <1>7

\* A sweep begins with the fleets as the table has them.
LEMMA ClaimBalanced ==
  ASSUME Inv, NEW t \in Txs, Claims(t)
  PROVE  ShipsBalanced(t)' /\ CargoBalanced(t)'
<1>1. PICK batch \in SUBSET Ids :
           /\ pc[t] = "idle"
           /\ \A i \in batch : /\ i \in DOMAIN fleet /\ ~fleet[i].home
                               /\ fleet[i].status \in {"outbound", "returning"}
           /\ draft'[t].planets = draft[t].planets /\ draft'[t].lost = draft[t].lost
           /\ \A i \in Ids : draft'[t].fleets[i] = IF i \in batch THEN fleet[i] ELSE Untouched
  BY ClaimsFacts
<1>2. draft[t] = Blank
  BY <1>1 DEF Inv, Quiet
<1>3. /\ draft'[t].lost = 0
      /\ \A p \in Planets : ~(PlanetHeld(t, p)')
  BY <1>1, <1>2, BlankFacts DEF PlanetHeld
<1>4. \A i \in Ids : FleetHeld(t, i)' => draft'[t].fleets[i] = fleet[i] /\ Aloft(fleet[i])
  BY <1>1 DEF FleetHeld, Aloft
<1>5. fleet' = fleet
  BY DraftsLeaveTables DEF Drafts
<1>6. \A p \in Planets : /\ HeldShips(t)'[p] = 0 /\ TableShips(t)'[p] = 0
                         /\ HeldMetal(t)'[p] = 0 /\ TableMetal(t)'[p] = 0
                         /\ HeldYield(t)'[p] = 0 /\ TableYield(t)'[p] = 0
  BY <1>3 DEF HeldShips, TableShips, HeldMetal, TableMetal, HeldYield, TableYield
<1>7. \A i \in Ids : EndedShips(t)'[i] = 0
  BY <1>4, <1>5 DEF EndedShips, Aloft
<1>8. HeldCargo(t)' = TableCargo(t)'
  BY <1>4, <1>5 DEF HeldCargo, TableCargo, CargoAboard, Aloft
<1>9. /\ Sum(HeldShips(t)', Planets) = 0 /\ Sum(TableShips(t)', Planets) = 0
      /\ Sum(HeldMetal(t)', Planets) = 0 /\ Sum(TableMetal(t)', Planets) = 0
      /\ Sum(HeldYield(t)', Planets) = 0 /\ Sum(TableYield(t)', Planets) = 0
  BY <1>6, Finite, SumZero
<1>10. Sum(EndedShips(t)', Ids) = 0
  BY <1>7, Finite, SumZero
<1>11. Sum(HeldCargo(t)', Ids) \in Nat
  <2>1. \A i \in Ids : HeldCargo(t)'[i] \in Nat
    <3>1. \A i \in Ids : FleetHeld(t, i)' => fleet[i].cargo \in Nat
      BY <1>1, <1>4, RowFacts DEF Inv, FleetRow, FleetHeld
    <3> QED
      BY <1>5, <1>8, <3>1 DEF TableCargo
  <2> QED
    BY <2>1, Finite, SumType
<1>12. Sum(TableCargo(t)', Ids) = Sum(HeldCargo(t)', Ids)
  BY <1>8
<1>13. 0 + 0 = 0 /\ \A n \in Nat : 0 + n + 0 = n /\ n <= n
  OBVIOUS
<1>14. Sum(HeldShips(t)', Planets) + draft'[t].lost
         = Sum(TableShips(t)', Planets) + Sum(EndedShips(t)', Ids)
  BY <1>3, <1>9, <1>10, <1>13
<1>15. Sum(HeldMetal(t)', Planets) + Sum(HeldCargo(t)', Ids) + Sum(TableYield(t)', Planets)
         <= Sum(TableMetal(t)', Planets) + Sum(TableCargo(t)', Ids) + Sum(HeldYield(t)', Planets)
  BY <1>9, <1>11, <1>12, <1>13
<1> QED
  BY <1>14, <1>15 DEF ShipsBalanced, CargoBalanced

\* Six sums over what a transaction holds, each a natural number.
LEMMA HeldSums ==
  ASSUME NEW t \in Txs, Naturals(t)
  PROVE  /\ Sum(HeldShips(t), Planets) \in Nat /\ Sum(TableShips(t), Planets) \in Nat
         /\ Sum(HeldMetal(t), Planets) \in Nat /\ Sum(TableMetal(t), Planets) \in Nat
         /\ Sum(HeldYield(t), Planets) \in Nat /\ Sum(TableYield(t), Planets) \in Nat
         /\ Sum(EndedShips(t), Ids) \in Nat
         /\ Sum(HeldCargo(t), Ids) \in Nat /\ Sum(TableCargo(t), Ids) \in Nat
BY Finite, SumType DEF Naturals

\* A handler that leaves the planets alone.
LEMMA AwayBalanced ==
  ASSUME Balanced, NEW t \in Txs, NEW i \in Ids, NEW f \in FleetRow, HandledAway(t, i, f)
  PROVE  /\ HeldShips(t)' = HeldShips(t) /\ TableShips(t)' = TableShips(t)
         /\ HeldMetal(t)' = HeldMetal(t) /\ TableMetal(t)' = TableMetal(t)
         /\ HeldYield(t)' = HeldYield(t) /\ TableYield(t)' = TableYield(t)
         /\ EndedShips(t)' = EndedShips(t)
         /\ HeldCargo(t)' = HeldCargo(t) /\ TableCargo(t)' = TableCargo(t)
         /\ draft'[t].lost = draft[t].lost
<1>0. Inv /\ TypeOK
  BY DEF Balanced, Inv
<1>1. /\ Outcome(t, i, f) /\ Handle(t, i, f) /\ Aloft(f)
      /\ f.cargo = draft[t].fleets[i].cargo /\ i \in todo[t]
  BY DEF HandledAway, Outcome
<1>2. /\ draft'[t].planets = draft[t].planets /\ draft'[t].lost = draft[t].lost
      /\ draft'[t].fleets[i] = f
      /\ \A j \in Ids \ {i} : draft'[t].fleets[j] = draft[t].fleets[j]
  BY <1>0, <1>1, HandleFacts
<1>t. planet' = planet /\ fleet' = fleet
  BY <1>1 DEF Handle
<1>3. draft[t].fleets[i] # Untouched /\ Aloft(draft[t].fleets[i])
  BY <1>0, <1>1, TodoFacts, Constants DEF Outcome, Sweeping, Aloft
<1>4. f # Untouched
  BY Constants
<1>5. \A p \in Planets : PlanetHeld(t, p)' <=> PlanetHeld(t, p)
  BY <1>2, <1>t DEF PlanetHeld
<1>6. HeldShips(t)' = HeldShips(t) /\ TableShips(t)' = TableShips(t)
  BY <1>2, <1>t, <1>5 DEF HeldShips, TableShips
<1>7. HeldMetal(t)' = HeldMetal(t) /\ TableMetal(t)' = TableMetal(t)
  BY <1>2, <1>t, <1>5 DEF HeldMetal, TableMetal
<1>8. HeldYield(t)' = HeldYield(t) /\ TableYield(t)' = TableYield(t)
  BY <1>2, <1>t, <1>5 DEF HeldYield, TableYield
<1>9. \A j \in Ids : /\ FleetHeld(t, j)' <=> FleetHeld(t, j)
                     /\ FleetHeld(t, j) => /\ Aloft(draft'[t].fleets[j]) <=> Aloft(draft[t].fleets[j])
                                           /\ draft'[t].fleets[j].cargo = draft[t].fleets[j].cargo
  BY <1>1, <1>2, <1>t, <1>3, <1>4 DEF FleetHeld
<1>10. EndedShips(t)' = EndedShips(t)
  BY <1>2, <1>t, <1>9 DEF EndedShips, Aloft
<1>11. HeldCargo(t)' = HeldCargo(t) /\ TableCargo(t)' = TableCargo(t)
  BY <1>2, <1>t, <1>9 DEF HeldCargo, TableCargo, CargoAboard, Aloft
<1> QED
  BY <1>2, <1>t, <1>6, <1>7, <1>8, <1>10, <1>11

\* A handler that drafts planet p as row: where its sums differ, and by what.
LEMMA AtChanges ==
  ASSUME Balanced, NEW t \in Txs, NEW i \in Ids, NEW f \in FleetRow, NEW p \in Planets,
         NEW row \in PlanetRow, NEW n \in Nat, HandledAt(t, i, f, p, row, n)
  PROVE  /\ \A q \in Planets \ {p} :
              /\ HeldShips(t)'[q] = HeldShips(t)[q] /\ TableShips(t)'[q] = TableShips(t)[q]
              /\ HeldMetal(t)'[q] = HeldMetal(t)[q] /\ TableMetal(t)'[q] = TableMetal(t)[q]
              /\ HeldYield(t)'[q] = HeldYield(t)[q] /\ TableYield(t)'[q] = TableYield(t)[q]
         /\ \A j \in Ids \ {i} : /\ EndedShips(t)'[j] = EndedShips(t)[j]
                                 /\ HeldCargo(t)'[j] = HeldCargo(t)[j]
         /\ TableCargo(t)' = TableCargo(t)
         /\ draft'[t].lost = draft[t].lost + n
         /\ EndedShips(t)[i] = 0
         /\ HeldShips(t)'[p] + n + TableShips(t)[p]
              = HeldShips(t)[p] + TableShips(t)'[p] + EndedShips(t)'[i]
         /\ HeldMetal(t)'[p] + HeldCargo(t)'[i] + TableYield(t)'[p]
                + TableMetal(t)[p] + HeldYield(t)[p]
              <= HeldMetal(t)[p] + HeldCargo(t)[i] + TableYield(t)[p]
                + TableMetal(t)'[p] + HeldYield(t)'[p]
<1> DEFINE d == draft[t].fleets[i]
           seen == PlanetSeen(t, p)
<1>0. Inv /\ TypeOK /\ PlanetsPast
  BY DEF Balanced, Inv
<1>1. /\ Outcome(t, i, f) /\ HandleAt(t, i, f, p, row, n) /\ i \in todo[t]
      /\ Conserves(seen, row, n, d, f)
  BY DEF HandledAt, Outcome
<1>2. /\ draft'[t].lost = draft[t].lost + n
      /\ draft'[t].fleets[i] = f
      /\ \A j \in Ids \ {i} : draft'[t].fleets[j] = draft[t].fleets[j]
      /\ draft'[t].planets[p] = row
      /\ \A q \in Planets \ {p} : draft'[t].planets[q] = draft[t].planets[q]
  BY <1>0, <1>1, HandleAtFacts
<1>t. planet' = planet /\ fleet' = fleet
  BY <1>1 DEF HandleAt
<1>3. /\ d # Untouched /\ Aloft(d) /\ d = fleet[i] /\ d \in FleetRow
      /\ f # Untouched /\ row # Untouched /\ f.ships = d.ships
  BY <1>0, <1>1, TodoFacts, Constants DEF Outcome, Sweeping, Aloft, SameFleet
<1>4. \A q \in Planets \ {p} :
              /\ HeldShips(t)'[q] = HeldShips(t)[q] /\ TableShips(t)'[q] = TableShips(t)[q]
              /\ HeldMetal(t)'[q] = HeldMetal(t)[q] /\ TableMetal(t)'[q] = TableMetal(t)[q]
              /\ HeldYield(t)'[q] = HeldYield(t)[q] /\ TableYield(t)'[q] = TableYield(t)[q]
  BY <1>2, <1>t DEF HeldShips, TableShips, HeldMetal, TableMetal, HeldYield, TableYield, PlanetHeld
<1>5. \A j \in Ids \ {i} : /\ EndedShips(t)'[j] = EndedShips(t)[j]
                           /\ HeldCargo(t)'[j] = HeldCargo(t)[j]
  BY <1>2, <1>t DEF EndedShips, HeldCargo, FleetHeld, Aloft, CargoAboard
<1>6. \A j \in Ids : FleetHeld(t, j)' <=> FleetHeld(t, j)
  BY <1>2, <1>t, <1>3 DEF FleetHeld
<1>7. TableCargo(t)' = TableCargo(t)
  BY <1>2, <1>t, <1>6 DEF TableCargo
<1>8. /\ HeldShips(t)'[p] = row.ships /\ TableShips(t)'[p] = planet[p].ships
      /\ HeldMetal(t)'[p] = row.metal /\ TableMetal(t)'[p] = planet[p].metal
      /\ HeldYield(t)'[p] = Rate * row.updated /\ TableYield(t)'[p] = Rate * planet[p].updated
  BY <1>2, <1>t, <1>3 DEF HeldShips, TableShips, HeldMetal, TableMetal, HeldYield, TableYield, PlanetHeld
<1>9. /\ EndedShips(t)[i] = 0
      /\ EndedShips(t)'[i] = IF Aloft(f) THEN 0 ELSE f.ships
      /\ HeldCargo(t)'[i] = CargoAboard(f) /\ HeldCargo(t)[i] = d.cargo
  BY <1>2, <1>t, <1>3 DEF EndedShips, HeldCargo, FleetHeld, Aloft, CargoAboard
<1>10. f.ships \in Nat /\ f.cargo \in Nat /\ d.cargo \in Nat
  BY <1>3 DEF FleetRow
<1>11. EndedShips(t)'[i] \in Nat /\ EndedShips(t)'[i] + ShipsAboard(f) = f.ships
  BY <1>9, <1>10 DEF ShipsAboard
<1>12. /\ row.ships + n + ShipsAboard(f) = seen.ships + f.ships
       /\ row.metal + CargoAboard(f) + Rate * seen.updated
            <= seen.metal + d.cargo + Rate * row.updated
  BY <1>1, <1>3 DEF Conserves
<1>13. seen \in PlanetRow /\ planet[p] \in PlanetRow
  BY <1>0, SeenFacts DEF TypeOK
<1>14. /\ row.ships \in Nat /\ seen.ships \in Nat /\ planet[p].ships \in Nat
       /\ row.metal \in Nat /\ seen.metal \in Nat /\ planet[p].metal \in Nat
       /\ Rate * row.updated \in Nat /\ Rate * seen.updated \in Nat
       /\ Rate * planet[p].updated \in Nat
  <2>1. \A r \in PlanetRow : r.ships \in Nat /\ r.metal \in Nat /\ Rate * r.updated \in Nat
    <3>1. \A r \in PlanetRow : r.ships \in Nat /\ r.metal \in Nat /\ r.updated \in Nat
      BY Constants DEF PlanetRow
    <3> QED
      BY <3>1, Constants
  <2> QED
    BY <1>13, <2>1
<1>15. ShipsAboard(f) \in Nat /\ CargoAboard(f) \in Nat
  BY <1>10 DEF ShipsAboard, CargoAboard
\* The planet was drafted before, or it is now.
<1>16. \/ /\ seen = draft[t].planets[p]
          /\ HeldShips(t)[p] = seen.ships /\ TableShips(t)[p] = planet[p].ships
          /\ HeldMetal(t)[p] = seen.metal /\ TableMetal(t)[p] = planet[p].metal
          /\ HeldYield(t)[p] = Rate * seen.updated /\ TableYield(t)[p] = Rate * planet[p].updated
       \/ /\ seen = planet[p]
          /\ HeldShips(t)[p] = 0 /\ TableShips(t)[p] = 0
          /\ HeldMetal(t)[p] = 0 /\ TableMetal(t)[p] = 0
          /\ HeldYield(t)[p] = 0 /\ TableYield(t)[p] = 0
  BY DEF PlanetSeen, PlanetHeld, HeldShips, TableShips, HeldMetal, TableMetal, HeldYield, TableYield
<1> HIDE DEF d, seen
<1>17. HeldShips(t)'[p] + n + TableShips(t)[p]
         = HeldShips(t)[p] + TableShips(t)'[p] + EndedShips(t)'[i]
  <2>1. row.ships + n = seen.ships + EndedShips(t)'[i]
    <3>1. /\ row.ships \in Nat /\ seen.ships \in Nat /\ f.ships \in Nat
          /\ ShipsAboard(f) \in Nat /\ EndedShips(t)'[i] \in Nat
      BY <1>10, <1>11, <1>14, <1>15
    <3>2. /\ EndedShips(t)'[i] + ShipsAboard(f) = f.ships
          /\ row.ships + n + ShipsAboard(f) = seen.ships + f.ships
      BY <1>11, <1>12
    <3> QED
      BY <3>1, <3>2
  <2> QED
    BY <1>8, <1>11, <1>14, <1>16, <2>1
<1>18. HeldMetal(t)'[p] + HeldCargo(t)'[i] + TableYield(t)'[p]
           + TableMetal(t)[p] + HeldYield(t)[p]
         <= HeldMetal(t)[p] + HeldCargo(t)[i] + TableYield(t)[p]
           + TableMetal(t)'[p] + HeldYield(t)'[p]
  BY <1>8, <1>9, <1>10, <1>12, <1>14, <1>15, <1>16
<1> QED
  BY <1>2, <1>t, <1>4, <1>5, <1>7, <1>9, <1>11, <1>17, <1>18

\* Whatever a handler does, the balance of its sweep is kept.
LEMMA HandledBalanced ==
  ASSUME Balanced, Inv', NEW t \in Txs, Handled(t)
  PROVE  ShipsBalanced(t)' /\ CargoBalanced(t)'
<1>1. PICK i \in Ids, f \in FleetRow :
        \/ HandledAway(t, i, f)
        \/ \E p \in Planets, row \in PlanetRow, n \in Nat : HandledAt(t, i, f, p, row, n)
  BY DEF Handled
<1>2. Inv /\ Sweeping(t) /\ ShipsBalanced(t) /\ CargoBalanced(t)
  BY <1>1 DEF Balanced, Balance, HandledAway, HandledAt, Outcome
<1>3. Naturals(t) /\ Naturals(t)'
  BY <1>2, HeldTypes, HeldTypesNext DEF AllNaturals
<1>4. CASE HandledAway(t, i, f)
  BY <1>2, <1>4, AwayBalanced DEF ShipsBalanced, CargoBalanced
<1>5. ASSUME NEW p \in Planets, NEW row \in PlanetRow, NEW n \in Nat, HandledAt(t, i, f, p, row, n)
      PROVE  ShipsBalanced(t)' /\ CargoBalanced(t)'
  <2>1. \A q \in Planets \ {p} :
          /\ HeldShips(t)'[q] = HeldShips(t)[q] /\ TableShips(t)'[q] = TableShips(t)[q]
          /\ HeldMetal(t)'[q] = HeldMetal(t)[q] /\ TableMetal(t)'[q] = TableMetal(t)[q]
          /\ HeldYield(t)'[q] = HeldYield(t)[q] /\ TableYield(t)'[q] = TableYield(t)[q]
    BY <1>5, AtChanges
  <2>2. \A j \in Ids \ {i} : /\ EndedShips(t)'[j] = EndedShips(t)[j]
                             /\ HeldCargo(t)'[j] = HeldCargo(t)[j]
    BY <1>5, AtChanges
  <2>3. /\ TableCargo(t)' = TableCargo(t)
        /\ draft'[t].lost = draft[t].lost + n
        /\ EndedShips(t)[i] = 0
        /\ HeldShips(t)'[p] + n + TableShips(t)[p]
              = HeldShips(t)[p] + TableShips(t)'[p] + EndedShips(t)'[i]
        /\ HeldMetal(t)'[p] + HeldCargo(t)'[i] + TableYield(t)'[p]
                + TableMetal(t)[p] + HeldYield(t)[p]
              <= HeldMetal(t)[p] + HeldCargo(t)[i] + TableYield(t)[p]
                + TableMetal(t)'[p] + HeldYield(t)'[p]
    BY <1>5, AtChanges
  <2>HeldShips. Sum(HeldShips(t)', Planets) + HeldShips(t)[p]
                 = Sum(HeldShips(t), Planets) + HeldShips(t)'[p]
    BY <1>3, <2>1, Finite, SumChange DEF Naturals
  <2>TableShips. Sum(TableShips(t)', Planets) + TableShips(t)[p]
                 = Sum(TableShips(t), Planets) + TableShips(t)'[p]
    BY <1>3, <2>1, Finite, SumChange DEF Naturals
  <2>HeldMetal. Sum(HeldMetal(t)', Planets) + HeldMetal(t)[p]
                 = Sum(HeldMetal(t), Planets) + HeldMetal(t)'[p]
    BY <1>3, <2>1, Finite, SumChange DEF Naturals
  <2>TableMetal. Sum(TableMetal(t)', Planets) + TableMetal(t)[p]
                 = Sum(TableMetal(t), Planets) + TableMetal(t)'[p]
    BY <1>3, <2>1, Finite, SumChange DEF Naturals
  <2>HeldYield. Sum(HeldYield(t)', Planets) + HeldYield(t)[p]
                 = Sum(HeldYield(t), Planets) + HeldYield(t)'[p]
    BY <1>3, <2>1, Finite, SumChange DEF Naturals
  <2>TableYield. Sum(TableYield(t)', Planets) + TableYield(t)[p]
                 = Sum(TableYield(t), Planets) + TableYield(t)'[p]
    BY <1>3, <2>1, Finite, SumChange DEF Naturals
  <2>7. Sum(EndedShips(t)', Ids) + EndedShips(t)[i] = Sum(EndedShips(t), Ids) + EndedShips(t)'[i]
    BY <1>3, <2>2, Finite, SumChange DEF Naturals
  <2>8. Sum(HeldCargo(t)', Ids) + HeldCargo(t)[i] = Sum(HeldCargo(t), Ids) + HeldCargo(t)'[i]
    BY <1>3, <2>2, Finite, SumChange DEF Naturals
  <2>9. /\ Sum(HeldShips(t), Planets) \in Nat /\ Sum(TableShips(t), Planets) \in Nat
        /\ Sum(HeldMetal(t), Planets) \in Nat /\ Sum(TableMetal(t), Planets) \in Nat
        /\ Sum(HeldYield(t), Planets) \in Nat /\ Sum(TableYield(t), Planets) \in Nat
        /\ Sum(EndedShips(t), Ids) \in Nat
        /\ Sum(HeldCargo(t), Ids) \in Nat /\ Sum(TableCargo(t), Ids) \in Nat
    BY <1>3, HeldSums
  <2>10. /\ Sum(HeldShips(t)', Planets) \in Nat /\ Sum(TableShips(t)', Planets) \in Nat
         /\ Sum(HeldMetal(t)', Planets) \in Nat /\ Sum(TableMetal(t)', Planets) \in Nat
         /\ Sum(HeldYield(t)', Planets) \in Nat /\ Sum(TableYield(t)', Planets) \in Nat
         /\ Sum(EndedShips(t)', Ids) \in Nat /\ Sum(HeldCargo(t)', Ids) \in Nat
    BY <1>3, Finite, SumType DEF Naturals
  <2>11. /\ HeldShips(t)[p] \in Nat /\ HeldShips(t)'[p] \in Nat
         /\ TableShips(t)[p] \in Nat /\ TableShips(t)'[p] \in Nat
         /\ HeldMetal(t)[p] \in Nat /\ HeldMetal(t)'[p] \in Nat
         /\ TableMetal(t)[p] \in Nat /\ TableMetal(t)'[p] \in Nat
         /\ HeldYield(t)[p] \in Nat /\ HeldYield(t)'[p] \in Nat
         /\ TableYield(t)[p] \in Nat /\ TableYield(t)'[p] \in Nat
         /\ EndedShips(t)'[i] \in Nat
         /\ HeldCargo(t)[i] \in Nat /\ HeldCargo(t)'[i] \in Nat
    BY <1>3 DEF Naturals
  <2>12. draft[t].lost \in Nat
    BY <1>2 DEF Inv, TypeOK
  <2>13. ShipsBalanced(t)'
    <3>1. Sum(EndedShips(t)', Ids) = Sum(EndedShips(t), Ids) + EndedShips(t)'[i]
      BY <2>3, <2>7, <2>9, <2>10, <2>11
    <3>2. Sum(HeldShips(t)', Planets) + n + Sum(TableShips(t), Planets)
            = Sum(HeldShips(t), Planets) + Sum(TableShips(t)', Planets) + EndedShips(t)'[i]
      <4>1. /\ Sum(HeldShips(t)', Planets) + HeldShips(t)[p]
                 = Sum(HeldShips(t), Planets) + HeldShips(t)'[p]
            /\ Sum(TableShips(t)', Planets) + TableShips(t)[p]
                 = Sum(TableShips(t), Planets) + TableShips(t)'[p]
            /\ HeldShips(t)'[p] + n + TableShips(t)[p]
                 = HeldShips(t)[p] + TableShips(t)'[p] + EndedShips(t)'[i]
        BY <2>3, <2>HeldShips, <2>TableShips
      <4>2. /\ Sum(HeldShips(t)', Planets) \in Nat /\ Sum(HeldShips(t), Planets) \in Nat
            /\ Sum(TableShips(t)', Planets) \in Nat /\ Sum(TableShips(t), Planets) \in Nat
            /\ HeldShips(t)'[p] \in Nat /\ HeldShips(t)[p] \in Nat
            /\ TableShips(t)'[p] \in Nat /\ TableShips(t)[p] \in Nat
            /\ EndedShips(t)'[i] \in Nat
        BY <2>9, <2>10, <2>11
      <4> QED
        BY <4>1, <4>2
    <3>3. Sum(HeldShips(t), Planets) + draft[t].lost
            = Sum(TableShips(t), Planets) + Sum(EndedShips(t), Ids)
      BY <1>2 DEF ShipsBalanced
    <3>4. Sum(HeldShips(t)', Planets) + (draft[t].lost + n)
            = Sum(TableShips(t)', Planets) + Sum(EndedShips(t)', Ids)
      BY <2>9, <2>10, <2>11, <2>12, <3>1, <3>2, <3>3
    <3> QED
      BY <2>3, <3>4 DEF ShipsBalanced
  <2>14. CargoBalanced(t)'
    BY <1>2, <2>3, <2>HeldMetal, <2>TableMetal, <2>HeldYield, <2>TableYield,
       <2>8, <2>9, <2>10, <2>11 DEF CargoBalanced
  <2> QED
    BY <2>13, <2>14
<1> QED
  BY <1>1, <1>4, <1>5

LEMMA BalanceNext ==
  ASSUME Balanced, [Next]_vars
  PROVE  Balance'
<1>0. Inv /\ TypeOK /\ PlanetsPast /\ Inv'
  BY InvNext DEF Balanced, Inv
<1> SUFFICES ASSUME NEW t \in Txs, pc'[t] \in {"arrivals", "returns"}
             PROVE  ShipsBalanced(t)' /\ CargoBalanced(t)'
  BY DEF Balance, Sweeping
<1>1. CASE Frame(t)
  <2>1. /\ ShipsBalanced(t) /\ CargoBalanced(t)
        /\ draft'[t] = draft[t]
    BY <1>1 DEF Balanced, Balance, Sweeping, Frame
  <2> QED
    BY <1>1, <2>1, FrameSums DEF ShipsBalanced, CargoBalanced
<1>2. CASE Writes(t) \/ Rollback(t)
  <2>1. Finish(t)
    BY <1>2 DEF Writes, DispatchCommit, RecallCommit, SweepCommit, Rollback
  <2> QED
    BY <1>0, <2>1, FinishFacts
<1>3. CASE \E i \in Ids : RecallRead(t, i)
  BY <1>0, <1>3 DEF RecallRead, TypeOK
<1>4. CASE \E p \in Planets : DispatchLock(t, p)
  BY <1>0, <1>4, DispatchLockFacts
<1>5. CASE Claims(t)
  BY <1>0, <1>5, ClaimBalanced
<1>6. CASE Handled(t)
  BY <1>0, <1>6, HandledBalanced
<1>7. CASE SweepFail(t)
  BY <1>0, <1>7 DEF SweepFail, TypeOK
<1> QED
  BY <1>0, <1>1, <1>2, <1>3, <1>4, <1>5, <1>6, <1>7, StepIs, Frames, FramesAll DEF Drafts

LEMMA BalancedHolds == Spec => []Balanced
<1>1. Init => Balance
  BY DEF Init, Balance, Sweeping
<1>2. Balanced /\ [Next]_vars => Balanced'
  BY InvNext, BalanceNext DEF Balanced
<1>3. Init => Balanced
  BY <1>1, InvInit DEF Balanced
<1> QED
  BY <1>2, <1>3, PTL DEF Spec

-----------------------------------------------------------------------------
(* The refinement of the ledger.                                           *)

Docked == [p \in Planets |-> planet[p].ships]
FlyingShips == [i \in Ids |-> IF Flying(i) THEN fleet[i].ships ELSE 0]

LEMMA LedgerSum == \A f, S : Ledger!Sum(f, S) = Sum(f, S)
BY DEF Ledger!Sum, Ledger!MapThenSumSet, Ledger!MapThenFoldSet, Sum, MapThenSumSet, MapThenFoldSet

LEMMA LedgerInit == Init => Ledger!Init
<1> SUFFICES ASSUME Init PROVE Ledger!Init
  OBVIOUS
<1>1. /\ DOMAIN fleet = {} /\ lost = 0
      /\ planet = [p \in Planets |-> [metal |-> StartMetal, updated |-> 0, ships |-> StartShips]]
  BY DEF Init
<1>2. \A i \in Ids : ~Flying(i)
  BY <1>1 DEF Flying
<1>3. Docked \in [Planets -> Nat]
  BY <1>1, Constants DEF Docked
<1>4. FlyingShips = [i \in Ids |-> 0]
  BY <1>2 DEF FlyingShips
<1> QED
  BY <1>1, <1>3, <1>4 DEF Ledger!Init, Docked, FlyingShips

\* In the air is: committed as aloft.
LEMMA FlyingIs ==
  ASSUME Inv, NEW i \in DOMAIN fleet
  PROVE  Flying(i) <=> Aloft(fleet[i])
BY DEF Flying, Aloft

\* A dispatch is a launch of the ledger.
LEMMA LaunchStep ==
  ASSUME Inv, NEW t \in Txs, DispatchCommit(t)
  PROVE  \E i \in Ids, p \in Planets : Ledger!Launch(i, p, Docked[p] - Docked'[p])
<1>0. TypeOK /\ Dispatching
  BY DEF Inv
<1>1. PICK p \in Planets, row \in PlanetRow, f \in FleetRow :
           /\ pc[t] = "dispatching" /\ PlanetHeld(t, p)
           /\ f.status = "outbound" /\ ~f.home
           /\ f.ships > 0 /\ f.ships <= draft[t].planets[p].ships
           /\ row.ships = draft[t].planets[p].ships - f.ships
           /\ planet' = [planet EXCEPT ![p] = row]
           /\ fleet' = Append(fleet, f) /\ Len(fleet) + 1 \in Ids
           /\ lost' = lost
  BY <1>0, DispatchFacts
<1> DEFINE k == Len(fleet) + 1
           n == Docked[p] - Docked'[p]
<1>2. /\ DOMAIN fleet' = DOMAIN fleet \cup {k}
      /\ k \notin DOMAIN fleet /\ k \in Ids
      /\ fleet'[k] = f
      /\ \A i \in DOMAIN fleet : fleet'[i] = fleet[i]
  BY <1>0, <1>1, AppendFacts
<1>3. /\ draft[t].planets[p].ships = planet[p].ships
      /\ f.ships \in Nat /\ planet[p].ships \in Nat /\ row.ships \in Nat
  BY <1>0, <1>1 DEF Dispatching, FleetRow, PlanetRow, TypeOK
<1>4. /\ planet'[p] = row
      /\ \A q \in Planets \ {p} : planet'[q] = planet[q]
  BY <1>0, <1>1 DEF TypeOK
<1>5. n = f.ships /\ Docked[p] - n = row.ships
  BY <1>1, <1>3, <1>4 DEF Docked
<1>6. n > 0 /\ n <= Docked[p]
  BY <1>1, <1>3, <1>5 DEF Docked
<1>7. Docked' = [Docked EXCEPT ![p] = @ - n]
  BY <1>4, <1>5 DEF Docked
<1>8. FlyingShips' = [FlyingShips EXCEPT ![k] = n]
  BY <1>1, <1>2, <1>5 DEF FlyingShips, Flying
<1> HIDE DEF n, k
<1>9. Ledger!Launch(k, p, n)
  BY <1>1, <1>2, <1>6, <1>7, <1>8 DEF Ledger!Launch, Docked, FlyingShips
<1> QED
  BY <1>2, <1>9 DEF n

LEMMA FlyingShipsTypes ==
  ASSUME Inv
  PROVE  /\ \A p \in Planets : Docked[p] \in Nat
         /\ \A i \in Ids : FlyingShips[i] \in Nat
<1>1. \A p \in Planets : planet[p].ships \in Nat
  BY DEF Inv, TypeOK, PlanetRow
<1>2. \A i \in DOMAIN fleet : fleet[i].ships \in Nat
  BY RowFacts DEF Inv, FleetRow
<1> QED
  BY <1>1, <1>2 DEF Docked, FlyingShips, Flying

\* What a sweep holds is in the air, and lands if the draft says so.
LEMMA SweptFlights ==
  ASSUME Inv, NEW t \in Txs, SweepCommit(t)
  PROVE  /\ \A i \in Ids : FleetHeld(t, i) =>
              /\ i \in DOMAIN fleet /\ Flying(i)
              /\ draft[t].fleets[i].ships = fleet[i].ships
         /\ \A i \in Ids :
              Flying(i)' <=> Flying(i) /\ (FleetHeld(t, i) => Aloft(draft[t].fleets[i]))
<1>0. TypeOK /\ RowsSound /\ Held
  BY DEF Inv
<1>1. /\ Sweeping(t) /\ DOMAIN fleet' = DOMAIN fleet
      /\ \A i \in DOMAIN fleet :
           fleet'[i] = IF FleetHeld(t, i) THEN draft[t].fleets[i] ELSE fleet[i]
  BY <1>0, CommitFacts
<1>2. \A i \in Ids : FleetHeld(t, i) =>
        /\ i \in DOMAIN fleet /\ Flying(i)
        /\ draft[t].fleets[i].ships = fleet[i].ships
  BY <1>0, <1>1 DEF Held, HeldFleet, SameFleet, Flying, RowsSound, Sweeping
<1>3. \A i \in Ids :
        Flying(i)' <=> Flying(i) /\ (FleetHeld(t, i) => Aloft(draft[t].fleets[i]))
  BY <1>1, <1>2 DEF Flying, Aloft
<1> QED
  BY <1>2, <1>3

\* The commit of a sweep settles the fleets that are no longer aloft.
LEMMA SettleStep ==
  ASSUME Balanced, Inv', NEW t \in Txs, SweepCommit(t)
  PROVE  \E S \in SUBSET DOMAIN fleet : Ledger!Settle(S)
<1> DEFINE S == {i \in DOMAIN fleet : FleetHeld(t, i) /\ ~Aloft(draft[t].fleets[i])}
<1>0. Inv /\ TypeOK
  BY DEF Balanced, Inv
<1>1. /\ Sweeping(t) /\ DOMAIN fleet' = DOMAIN fleet
      /\ \A p \in Planets :
           planet'[p] = IF PlanetHeld(t, p) THEN draft[t].planets[p] ELSE planet[p]
      /\ \A i \in DOMAIN fleet :
           fleet'[i] = IF FleetHeld(t, i) THEN draft[t].fleets[i] ELSE fleet[i]
      /\ lost' = lost + draft[t].lost
  BY <1>0, CommitFacts
<1>2. DOMAIN fleet \subseteq Ids
  BY <1>0, RowFacts
<1>3. \A i \in Ids : FleetHeld(t, i) =>
        /\ i \in DOMAIN fleet /\ Flying(i)
        /\ draft[t].fleets[i].ships = fleet[i].ships
  BY <1>0, SweptFlights
<1>4. \A i \in Ids : Flying(i)' <=> Flying(i) /\ i \notin S
  BY <1>0, <1>3, SweptFlights
<1>5. \A i \in Ids : FlyingShips'[i] = IF i \in S THEN 0 ELSE FlyingShips[i]
  BY <1>1, <1>3, <1>4 DEF FlyingShips, Flying
<1>6. FlyingShips' = [i \in Ids |-> IF i \in S THEN 0 ELSE FlyingShips[i]]
  BY <1>5 DEF FlyingShips
<1>7. Naturals(t) /\ draft[t].lost \in Nat /\ lost \in Nat
  BY <1>0, HeldTypes DEF TypeOK
<1>8. /\ \A p \in Planets : Docked[p] \in Nat
      /\ \A i \in Ids : FlyingShips[i] \in Nat
      /\ \A p \in Planets : Docked'[p] \in Nat
  <2>1. Inv => \A p \in Planets : Docked[p] \in Nat
    BY FlyingShipsTypes
  <2>2. \A p \in Planets : planet'[p].ships \in Nat
    BY DEF Inv, TypeOK, PlanetRow
  <2> QED
    BY <1>0, <2>2, FlyingShipsTypes DEF Docked
<1>9. Sum(Docked', Planets) + Sum(TableShips(t), Planets)
        = Sum(Docked, Planets) + Sum(HeldShips(t), Planets)
  <2>1. \A p \in Planets : Docked'[p] + TableShips(t)[p] = Docked[p] + HeldShips(t)[p]
    <3>1. \A p \in Planets : /\ TableShips(t)[p] \in Nat /\ HeldShips(t)[p] \in Nat
                             /\ Docked[p] \in Nat /\ Docked'[p] \in Nat
      BY <1>7, <1>8 DEF Naturals
    <3> QED
      BY <1>1, <3>1 DEF Docked, TableShips, HeldShips
  <2> QED
    BY <1>7, <1>8, <2>1, Finite, SumEqual DEF Naturals
<1>10. Sum(FlyingShips, S) = Sum(EndedShips(t), Ids)
  <2>1. S \in SUBSET Ids
    BY <1>2
  <2>2. \A i \in S : FlyingShips[i] \in Nat /\ EndedShips(t)[i] = FlyingShips[i]
    BY <1>3, <1>8, <2>1 DEF EndedShips, FlyingShips
  <2>3. \A i \in Ids \ S : EndedShips(t)[i] = 0
    BY <1>3 DEF EndedShips
  <2> HIDE DEF S
  <2> QED
    BY <2>1, <2>2, <2>3, Finite, SumWithin
<1>11. Sum(HeldShips(t), Planets) + draft[t].lost
         = Sum(TableShips(t), Planets) + Sum(EndedShips(t), Ids)
  BY <1>1 DEF Balanced, Balance, ShipsBalanced
<1>12. /\ Sum(Docked', Planets) \in Nat /\ Sum(Docked, Planets) \in Nat
       /\ Sum(TableShips(t), Planets) \in Nat /\ Sum(HeldShips(t), Planets) \in Nat
       /\ Sum(EndedShips(t), Ids) \in Nat
  <2>1. Sum(Docked', Planets) \in Nat
    BY <1>8, Finite, SumType
  <2>2. Sum(Docked, Planets) \in Nat
    BY <1>8, Finite, SumType
  <2> QED
    BY <1>7, <2>1, <2>2, HeldSums
<1>13. Sum(Docked', Planets) + lost' = Sum(Docked, Planets) + lost + Sum(FlyingShips, S)
  <2> HIDE DEF S
  <2>1. Sum(Docked', Planets) + draft[t].lost = Sum(Docked, Planets) + Sum(EndedShips(t), Ids)
    BY <1>7, <1>9, <1>11, <1>12
  <2>2. lost' = lost + draft[t].lost
    BY <1>1
  <2>3. Sum(Docked', Planets) + lost' = Sum(Docked, Planets) + lost + Sum(EndedShips(t), Ids)
    BY <1>7, <1>12, <2>1, <2>2
  <2> QED
    BY <1>10, <2>3
<1>14. lost' >= lost
  BY <1>1, <1>7
<1>15. Docked' \in [Planets -> Nat]
  BY <1>8 DEF Docked
<1>16. PICK batch \in SUBSET DOMAIN fleet : batch = S
  OBVIOUS
<1> HIDE DEF S
<1>17. Ledger!Settle(batch)
  <2>1. DOMAIN fleet' = DOMAIN fleet
    BY <1>1
  <2>2. Ledger!Sum(Docked', Planets) + lost'
          = Ledger!Sum(Docked, Planets) + lost + Ledger!Sum(FlyingShips, batch)
    BY <1>13, <1>16, LedgerSum
  <2> QED
    BY <1>6, <1>14, <1>15, <1>16, <2>1, <2>2 DEF Ledger!Settle, Docked, FlyingShips
<1> QED
  BY <1>17

\* A recall turns a fleet around and lands none.
LEMMA RecallKeeps ==
  ASSUME Inv, NEW t \in Txs, RecallCommit(t)
  PROVE  /\ planet' = planet /\ lost' = lost /\ DOMAIN fleet' = DOMAIN fleet
         /\ \A i \in Ids : Flying(i)' <=> Flying(i)
         /\ \A i \in DOMAIN fleet : /\ fleet'[i].ships = fleet[i].ships
                                    /\ fleet'[i].cargo = fleet[i].cargo
<1> DEFINE k == job[t].fleet
<1>0. TypeOK /\ RowsSound /\ RecallsPast
  BY DEF Inv
<1>1. /\ k \in DOMAIN fleet /\ DOMAIN fleet' = DOMAIN fleet
      /\ \A j \in DOMAIN fleet \ {k} : fleet'[j] = fleet[j]
      /\ fleet'[k].ships = fleet[k].ships /\ fleet'[k].cargo = fleet[k].cargo
      /\ fleet[k].status # "deleted" /\ fleet'[k].status = "returning"
      /\ fleet'[k].home = fleet[k].home
      /\ planet' = planet /\ lost' = lost
  BY <1>0, RecallFacts DEF SameFleet
<1>2. fleet[k] \in FleetRow
  BY <1>0, <1>1, RowFacts
<1>3. Flying(k) <=> ~fleet[k].home
  BY <1>0, <1>1, <1>2 DEF Flying, RowsSound, FleetRow
<1> HIDE DEF k
<1>4. \A i \in Ids : Flying(i)' <=> Flying(i)
  BY <1>1, <1>3 DEF Flying
<1> QED
  BY <1>1, <1>4

\* Every other step leaves the ledger alone.
LEMMA LedgerStutters ==
  ASSUME Inv,
         \/ \E t \in Txs : RecallCommit(t) \/ Drafts(t)
         \/ \E p \in Planets : RefreshPlanet(p)
         \/ Tick \/ UNCHANGED vars
  PROVE  /\ Docked' = Docked /\ FlyingShips' = FlyingShips
         /\ DOMAIN fleet' = DOMAIN fleet /\ lost' = lost
<1>0. TypeOK /\ PlanetsPast
  BY DEF Inv
<1>1. CASE \E t \in Txs : RecallCommit(t)
  BY <1>1, RecallKeeps DEF Docked, FlyingShips, Flying
<1>2. CASE planet' = planet /\ fleet' = fleet /\ lost' = lost
  BY <1>2 DEF Docked, FlyingShips, Flying
<1>3. CASE \E p \in Planets : RefreshPlanet(p)
  <2>1. PICK p \in Planets : /\ planet' = [planet EXCEPT ![p] = Refreshed(@)]
                             /\ fleet' = fleet /\ lost' = lost
    BY <1>3 DEF RefreshPlanet
  <2>2. Refreshed(planet[p]).ships = planet[p].ships
    BY <1>0, RefreshedFacts DEF TypeOK, PlanetsPast
  <2>3. \A q \in Planets : planet'[q].ships = planet[q].ships
    BY <1>0, <2>1, <2>2 DEF TypeOK
  <2> QED
    BY <2>1, <2>3 DEF Docked, FlyingShips, Flying
<1>4. CASE \E t \in Txs : Drafts(t)
  BY <1>2, <1>4, DraftsLeaveTables
<1>5. CASE Tick \/ UNCHANGED vars
  BY <1>2, <1>5 DEF Tick, vars
<1> QED
  BY <1>1, <1>3, <1>4, <1>5

\* The dispatches, recalls and sweeps implement the ledger: a fleet takes off
\* once and settles once, and of every batch of every sweep no ship is
\* duplicated or forgotten (svc/fleet.go, scheduler/fleet.go).
THEOREM LedgerImplemented == Spec => LedgerSpec
<1>1. Init => Ledger!Init
  BY LedgerInit
<1>2. Balanced /\ [Next]_vars => [Ledger!Next]_(Ledger!ledger)
  <2> SUFFICES ASSUME Balanced, [Next]_vars
               PROVE  [Ledger!Next]_(Ledger!ledger)
    OBVIOUS
  <2>0. Inv /\ Inv'
    BY InvNext DEF Balanced
  <2>1. ASSUME NEW t \in Txs, DispatchCommit(t)
        PROVE  Ledger!Next
    BY <2>0, <2>1, LaunchStep DEF Ledger!Next, Docked
  <2>2. ASSUME NEW t \in Txs, SweepCommit(t)
        PROVE  Ledger!Next
    BY <2>0, <2>2, SettleStep DEF Ledger!Next
  <2>3. ASSUME Docked' = Docked, FlyingShips' = FlyingShips,
               DOMAIN fleet' = DOMAIN fleet, lost' = lost
        PROVE  UNCHANGED Ledger!ledger
    BY <2>3 DEF Ledger!ledger, Docked, FlyingShips
  <2>4. CASE \/ \E t \in Txs : RecallCommit(t) \/ Drafts(t)
             \/ \E p \in Planets : RefreshPlanet(p)
             \/ Tick \/ UNCHANGED vars
    BY <2>0, <2>3, <2>4, LedgerStutters
  <2> QED
    BY <2>0, <2>1, <2>2, <2>4, StepIs DEF Writes
<1> QED
  BY <1>1, <1>2, BalancedHolds, PTL DEF Spec, LedgerSpec, Ledger!Spec

-----------------------------------------------------------------------------
(* Flights create no resources.                                            *)

Stock == [p \in Planets |-> planet[p].metal]
FlyingCargo == [i \in Ids |-> IF Flying(i) THEN fleet[i].cargo ELSE 0]
Yielded == [p \in Planets |-> StartMetal + Rate * planet[p].updated]

LEMMA CargoTypes ==
  ASSUME Inv
  PROVE  /\ \A p \in Planets : /\ Stock[p] \in Nat /\ Yielded[p] \in Nat
                               /\ Rate * planet[p].updated \in Nat
         /\ \A i \in Ids : FlyingCargo[i] \in Nat
<1>1. \A p \in Planets : planet[p].metal \in Nat /\ planet[p].updated \in Nat
  BY Constants DEF Inv, TypeOK, PlanetRow
<1>2. \A i \in DOMAIN fleet : fleet[i].cargo \in Nat
  BY RowFacts DEF Inv, FleetRow
<1>3. \A p \in Planets : Rate * planet[p].updated \in Nat
  BY <1>1, Constants
<1>4. \A p \in Planets : Stock[p] \in Nat /\ Yielded[p] \in Nat
  BY <1>1, <1>3, Constants DEF Stock, Yielded
<1> QED
  BY <1>2, <1>3, <1>4 DEF FlyingCargo, Flying

CargoNaturals ==
  /\ \A p \in Planets : Stock[p] \in Nat /\ Yielded[p] \in Nat
  /\ \A i \in Ids : FlyingCargo[i] \in Nat

LEMMA CargoTypesNext == Inv' => CargoNaturals'
<1>1. Inv => CargoNaturals
  BY CargoTypes DEF CargoNaturals
<1> QED
  BY <1>1, PTL

LEMMA CargoIs ==
  NoFreeCargo <=> Sum(Stock, Planets) + Sum(FlyingCargo, Ids) <= Sum(Yielded, Planets)
BY DEF NoFreeCargo, Stock, FlyingCargo, Yielded

\* What holds when planet p changes and the cargo in the air goes from c to d.
LEMMA CargoMoved ==
  ASSUME Inv, Inv', NoFreeCargo, NEW p \in Planets, NEW c \in Nat, NEW d \in Nat,
         \A q \in Planets \ {p} : planet'[q] = planet[q],
         Sum(FlyingCargo', Ids) + c = Sum(FlyingCargo, Ids) + d,
         planet'[p].metal + d + Rate * planet[p].updated
           <= planet[p].metal + c + Rate * planet'[p].updated
  PROVE  NoFreeCargo'
<1>1. CargoNaturals /\ CargoNaturals'
  BY CargoTypes, CargoTypesNext DEF CargoNaturals
<1>2. \A q \in Planets \ {p} : Stock'[q] = Stock[q] /\ Yielded'[q] = Yielded[q]
  BY DEF Stock, Yielded
<1>3. Sum(Stock', Planets) + Stock[p] = Sum(Stock, Planets) + Stock'[p]
  <2>1. \A q \in Planets : Stock[q] \in Nat /\ Stock'[q] \in Nat
    BY <1>1 DEF CargoNaturals
  <2>2. \A q \in Planets \ {p} : Stock'[q] = Stock[q]
    BY <1>2
  <2> QED
    BY <2>1, <2>2, Finite, SumChange
<1>4. Sum(Yielded', Planets) + Yielded[p] = Sum(Yielded, Planets) + Yielded'[p]
  <2>1. \A q \in Planets : Yielded[q] \in Nat /\ Yielded'[q] \in Nat
    BY <1>1 DEF CargoNaturals
  <2>2. \A q \in Planets \ {p} : Yielded'[q] = Yielded[q]
    BY <1>2
  <2> QED
    BY <2>1, <2>2, Finite, SumChange
<1>5. Sum(FlyingCargo', Ids) + c = Sum(FlyingCargo, Ids) + d
  OBVIOUS
<1>6. Sum(Stock, Planets) \in Nat /\ Sum(Yielded, Planets) \in Nat /\ Sum(FlyingCargo, Ids) \in Nat
  BY <1>1, Finite, SumType DEF CargoNaturals
<1>7. Sum(Stock', Planets) \in Nat /\ Sum(Yielded', Planets) \in Nat /\ Sum(FlyingCargo', Ids) \in Nat
  BY <1>1, Finite, SumType DEF CargoNaturals
<1>8. Sum(Stock, Planets) + Sum(FlyingCargo, Ids) <= Sum(Yielded, Planets)
  BY CargoIs
<1>9. /\ Stock[p] \in Nat /\ Stock'[p] \in Nat /\ Yielded[p] \in Nat /\ Yielded'[p] \in Nat
  BY <1>1 DEF CargoNaturals
<1>10. Stock'[p] + d + Yielded[p] <= Stock[p] + c + Yielded'[p]
  <2>1. /\ Stock[p] = planet[p].metal /\ Stock'[p] = planet'[p].metal
        /\ Yielded[p] = StartMetal + Rate * planet[p].updated
        /\ Yielded'[p] = StartMetal + Rate * planet'[p].updated
    BY DEF Stock, Yielded
  <2>2. Rate * planet[p].updated \in Nat /\ Rate * planet'[p].updated \in Nat
    <3>1. planet[p].updated \in Nat /\ planet'[p].updated \in Nat
      BY Constants DEF Inv, TypeOK, PlanetRow
    <3> QED
      BY <3>1, Constants
  <2> QED
    BY <1>9, <2>1, <2>2, Constants
<1>11. Sum(Stock', Planets) + Sum(FlyingCargo', Ids) <= Sum(Yielded', Planets)
  BY <1>3, <1>4, <1>5, <1>6, <1>7, <1>8, <1>9, <1>10
<1> QED
  BY <1>11 DEF NoFreeCargo, Stock, FlyingCargo, Yielded

LEMMA RateGrows ==
  ASSUME NEW a \in Nat, NEW b \in Nat, a <= b
  PROVE  Rate * a \in Nat /\ Rate * b \in Nat /\ Rate * a <= Rate * b
<1>1. Rate \in Nat
  BY Constants
<1>2. PICK c \in Nat : b = a + c
  <2>1. b - a \in Nat /\ b = a + (b - a)
    OBVIOUS
  <2> QED
    BY <2>1
<1>3. Rate * b = Rate * a + Rate * c
  BY <1>1, <1>2
<1>4. Rate * a \in Nat /\ Rate * c \in Nat
  BY <1>1
<1> QED
  BY <1>3, <1>4

LEMMA CargoDispatched ==
  ASSUME Inv, Inv', NoFreeCargo, NEW t \in Txs, DispatchCommit(t)
  PROVE  NoFreeCargo'
<1>0. TypeOK /\ Dispatching
  BY DEF Inv
<1>1. PICK p \in Planets, row \in PlanetRow, f \in FleetRow :
           /\ pc[t] = "dispatching" /\ PlanetHeld(t, p)
           /\ f.status = "outbound" /\ ~f.home
           /\ row.metal + f.cargo + Fuel = draft[t].planets[p].metal
           /\ draft[t].planets[p].updated <= row.updated
           /\ planet' = [planet EXCEPT ![p] = row]
           /\ fleet' = Append(fleet, f) /\ Len(fleet) + 1 \in Ids
  BY <1>0, DispatchFacts
<1> DEFINE k == Len(fleet) + 1
           old == draft[t].planets[p]
<1>2. /\ DOMAIN fleet' = DOMAIN fleet \cup {k}
      /\ k \notin DOMAIN fleet /\ k \in Ids
      /\ fleet'[k] = f
      /\ \A i \in DOMAIN fleet : fleet'[i] = fleet[i]
  BY <1>0, <1>1, AppendFacts
<1>3. /\ planet'[p] = row
      /\ \A q \in Planets \ {p} : planet'[q] = planet[q]
  BY <1>0, <1>1 DEF TypeOK
<1>4. /\ old \in PlanetRow /\ planet[p] \in PlanetRow
      /\ old.metal + Rate * planet[p].updated <= planet[p].metal + Rate * old.updated
  BY <1>0, <1>1 DEF Dispatching, PlanetHeld, TypeOK
<1> HIDE DEF old
<1>5. /\ old.metal \in Nat /\ old.updated \in Nat /\ planet[p].metal \in Nat
      /\ planet[p].updated \in Nat /\ row.metal \in Nat /\ row.updated \in Nat
      /\ f.cargo \in Nat /\ Fuel \in Nat
  BY <1>4, Constants DEF PlanetRow, FleetRow
<1>6. /\ Rate * old.updated \in Nat /\ Rate * row.updated \in Nat
      /\ Rate * planet[p].updated \in Nat /\ Rate * old.updated <= Rate * row.updated
  <2>1. old.updated <= row.updated
    BY <1>1 DEF old
  <2>2. Rate * planet[p].updated \in Nat
    BY <1>5, RateGrows
  <2> QED
    BY <1>5, <2>1, <2>2, RateGrows
<1>7. row.metal + f.cargo + Fuel = old.metal
  BY <1>1 DEF old
<1>8. row.metal + f.cargo + Rate * planet[p].updated <= planet[p].metal + 0 + Rate * row.updated
  BY <1>4, <1>5, <1>6, <1>7
<1>9. /\ \A i \in Ids \ {k} : FlyingCargo'[i] = FlyingCargo[i]
      /\ FlyingCargo[k] = 0 /\ FlyingCargo'[k] = f.cargo
  BY <1>1, <1>2 DEF FlyingCargo, Flying
<1> HIDE DEF k
<1>10. CargoNaturals /\ CargoNaturals'
  BY CargoTypes, CargoTypesNext DEF CargoNaturals
<1>11. Sum(FlyingCargo', Ids) + 0 = Sum(FlyingCargo, Ids) + f.cargo
  BY <1>2, <1>9, <1>10, Finite, SumChange DEF CargoNaturals
<1>12. planet'[p].metal + f.cargo + Rate * planet[p].updated
         <= planet[p].metal + 0 + Rate * planet'[p].updated
  BY <1>3, <1>8
<1> QED
  BY <1>3, <1>5, <1>11, <1>12, CargoMoved

LEMMA CargoRefreshed ==
  ASSUME Inv, Inv', NoFreeCargo, NEW p \in Planets, RefreshPlanet(p)
  PROVE  NoFreeCargo'
<1>0. TypeOK /\ PlanetsPast
  BY DEF Inv
<1>1. planet' = [planet EXCEPT ![p] = Refreshed(@)] /\ fleet' = fleet
  BY DEF RefreshPlanet
<1>2. /\ planet'[p] = Refreshed(planet[p])
      /\ \A q \in Planets \ {p} : planet'[q] = planet[q]
      /\ planet[p] \in PlanetRow /\ planet[p].updated <= clock /\ clock \in 0..Horizon
  BY <1>0, <1>1 DEF TypeOK, PlanetsPast
<1>3. /\ Refreshed(planet[p]) \in PlanetRow
      /\ Refreshed(planet[p]).metal + Rate * planet[p].updated
           <= planet[p].metal + Rate * Refreshed(planet[p]).updated
  BY <1>2, RefreshedFacts
<1>4. planet'[p].metal + 0 + Rate * planet[p].updated
        <= planet[p].metal + 0 + Rate * planet'[p].updated
  <2>1. planet'[p].metal \in Nat /\ planet[p].metal \in Nat
    BY <1>2, <1>3 DEF PlanetRow
  <2> QED
    BY <1>2, <1>3, <2>1
<1>5. FlyingCargo' = FlyingCargo
  BY <1>1 DEF FlyingCargo, Flying
<1>6. Sum(FlyingCargo', Ids) + 0 = Sum(FlyingCargo, Ids) + 0
  BY <1>5
<1> QED
  BY <1>2, <1>4, <1>6, CargoMoved

LEMMA CargoRecalled ==
  ASSUME Inv, NoFreeCargo, NEW t \in Txs, RecallCommit(t)
  PROVE  NoFreeCargo'
<1>1. /\ planet' = planet /\ DOMAIN fleet' = DOMAIN fleet
      /\ \A i \in Ids : Flying(i)' <=> Flying(i)
      /\ \A i \in DOMAIN fleet : fleet'[i].cargo = fleet[i].cargo
  BY RecallKeeps
<1>2. FlyingCargo' = FlyingCargo
  BY <1>1 DEF FlyingCargo, Flying
<1>3. Stock' = Stock /\ Yielded' = Yielded
  BY <1>1 DEF Stock, Yielded
<1>4. Sum(Stock', Planets) + Sum(FlyingCargo', Ids) <= Sum(Yielded', Planets)
  BY <1>2, <1>3, CargoIs
<1> QED
  BY <1>4 DEF NoFreeCargo, Stock, FlyingCargo, Yielded

\* A commit exchanges what the table says of the rows it holds for the draft.
LEMMA CargoSwept ==
  ASSUME Balanced, Inv', NoFreeCargo, NEW t \in Txs, SweepCommit(t)
  PROVE  NoFreeCargo'
<1>0. Inv /\ TypeOK
  BY DEF Balanced, Inv
<1>1. /\ Sweeping(t) /\ DOMAIN fleet' = DOMAIN fleet
      /\ \A p \in Planets :
           planet'[p] = IF PlanetHeld(t, p) THEN draft[t].planets[p] ELSE planet[p]
      /\ \A i \in DOMAIN fleet :
           fleet'[i] = IF FleetHeld(t, i) THEN draft[t].fleets[i] ELSE fleet[i]
  BY <1>0, CommitFacts
<1>2. /\ \A i \in Ids : FleetHeld(t, i) => i \in DOMAIN fleet /\ Flying(i)
      /\ \A i \in Ids :
           Flying(i)' <=> Flying(i) /\ (FleetHeld(t, i) => Aloft(draft[t].fleets[i]))
  BY <1>0, SweptFlights
<1>3. Naturals(t) /\ CargoNaturals /\ CargoNaturals'
  BY <1>0, HeldTypes, CargoTypes, CargoTypesNext DEF CargoNaturals
<1>4. Sum(Stock', Planets) + Sum(TableMetal(t), Planets)
        = Sum(Stock, Planets) + Sum(HeldMetal(t), Planets)
  <2>1. \A p \in Planets : Stock'[p] + TableMetal(t)[p] = Stock[p] + HeldMetal(t)[p]
    <3>1. \A p \in Planets : planet[p].metal \in Nat /\ planet'[p].metal \in Nat
      BY <1>3 DEF CargoNaturals, Stock
    <3> QED
      BY <1>1, <3>1 DEF Stock, TableMetal, HeldMetal
  <2> QED
    BY <1>3, <2>1, Finite, SumEqual DEF Naturals, CargoNaturals
<1>5. Sum(FlyingCargo', Ids) + Sum(TableCargo(t), Ids)
        = Sum(FlyingCargo, Ids) + Sum(HeldCargo(t), Ids)
  <2>1. \A i \in Ids : FlyingCargo'[i] + TableCargo(t)[i] = FlyingCargo[i] + HeldCargo(t)[i]
    <3>1. \A i \in Ids : FleetHeld(t, i) =>
            /\ TableCargo(t)[i] = FlyingCargo[i] /\ HeldCargo(t)[i] = FlyingCargo'[i]
      BY <1>1, <1>2 DEF TableCargo, HeldCargo, CargoAboard, FlyingCargo
    <3>2. \A i \in Ids : ~FleetHeld(t, i) =>
            /\ TableCargo(t)[i] = 0 /\ HeldCargo(t)[i] = 0 /\ FlyingCargo'[i] = FlyingCargo[i]
      BY <1>1, <1>2 DEF TableCargo, HeldCargo, FlyingCargo, Flying
    <3>3. \A i \in Ids : FlyingCargo[i] \in Nat /\ FlyingCargo'[i] \in Nat
      BY <1>3 DEF CargoNaturals
    <3> QED
      BY <3>1, <3>2, <3>3
  <2> QED
    BY <1>3, <2>1, Finite, SumEqual DEF Naturals, CargoNaturals
<1>6. Sum(Yielded', Planets) + Sum(TableYield(t), Planets)
        = Sum(Yielded, Planets) + Sum(HeldYield(t), Planets)
  <2>1. \A p \in Planets : Yielded'[p] + TableYield(t)[p] = Yielded[p] + HeldYield(t)[p]
    <3>1. \A p \in Planets : PlanetHeld(t, p) =>
            /\ Yielded'[p] = StartMetal + HeldYield(t)[p]
            /\ Yielded[p] = StartMetal + TableYield(t)[p]
      BY <1>1 DEF Yielded, TableYield, HeldYield
    <3>2. \A p \in Planets : ~PlanetHeld(t, p) =>
            /\ Yielded'[p] = Yielded[p] /\ TableYield(t)[p] = 0 /\ HeldYield(t)[p] = 0
      BY <1>1 DEF Yielded, TableYield, HeldYield
    <3>3. \A p \in Planets : /\ Yielded[p] \in Nat /\ Yielded'[p] \in Nat
                             /\ TableYield(t)[p] \in Nat /\ HeldYield(t)[p] \in Nat
      BY <1>3 DEF CargoNaturals, Naturals
    <3> QED
      BY <3>1, <3>2, <3>3, Constants
  <2> QED
    BY <1>3, <2>1, Finite, SumEqual DEF Naturals, CargoNaturals
<1>7. /\ Sum(Stock, Planets) \in Nat /\ Sum(Yielded, Planets) \in Nat /\ Sum(FlyingCargo, Ids) \in Nat
      /\ Sum(HeldMetal(t), Planets) \in Nat /\ Sum(TableMetal(t), Planets) \in Nat
      /\ Sum(HeldYield(t), Planets) \in Nat /\ Sum(TableYield(t), Planets) \in Nat
      /\ Sum(HeldCargo(t), Ids) \in Nat /\ Sum(TableCargo(t), Ids) \in Nat
  BY <1>3, HeldSums, Finite, SumType DEF CargoNaturals
<1>8. Sum(Stock', Planets) \in Nat /\ Sum(Yielded', Planets) \in Nat /\ Sum(FlyingCargo', Ids) \in Nat
  BY <1>3, Finite, SumType DEF CargoNaturals
<1>9. Sum(Stock, Planets) + Sum(FlyingCargo, Ids) <= Sum(Yielded, Planets)
  BY CargoIs
<1>10. Sum(HeldMetal(t), Planets) + Sum(HeldCargo(t), Ids) + Sum(TableYield(t), Planets)
         <= Sum(TableMetal(t), Planets) + Sum(TableCargo(t), Ids) + Sum(HeldYield(t), Planets)
  BY <1>1 DEF Balanced, Balance, CargoBalanced
<1>11. Sum(Stock', Planets) + Sum(FlyingCargo', Ids) <= Sum(Yielded', Planets)
  BY <1>4, <1>5, <1>6, <1>7, <1>8, <1>9, <1>10
<1> QED
  BY <1>11 DEF NoFreeCargo, Stock, FlyingCargo, Yielded

\* Whatever players order and however sweeps, recalls and rollbacks interleave,
\* stocks and cargo in the air never exceed what the planets began with and
\* produced (the handlers of scheduler/fleet.go, Dispatch of svc/fleet.go).
THEOREM NothingFromNothing == Spec => []NoFreeCargo
<1>1. Init => NoFreeCargo
  <2> SUFFICES ASSUME Init PROVE NoFreeCargo
    OBVIOUS
  <2>1. /\ \A p \in Planets : Stock[p] \in Nat /\ Yielded[p] = Stock[p]
        /\ \A i \in Ids : FlyingCargo[i] = 0
    BY Constants DEF Init, Stock, Yielded, FlyingCargo, Flying
  <2>2. Sum(Yielded, Planets) = Sum(Stock, Planets)
    BY <2>1, Finite, SumSame
  <2>3. Sum(FlyingCargo, Ids) = 0
    BY <2>1, Finite, SumZero
  <2>4. Sum(Stock, Planets) \in Nat
    BY <2>1, Finite, SumType
  <2> QED
    BY <2>2, <2>3, <2>4, CargoIs
<1>2. Balanced /\ NoFreeCargo /\ [Next]_vars => NoFreeCargo'
  <2> SUFFICES ASSUME Balanced, NoFreeCargo, [Next]_vars
               PROVE  NoFreeCargo'
    OBVIOUS
  <2>0. Inv /\ Inv'
    BY InvNext DEF Balanced
  <2>1. CASE \E t \in Txs : Writes(t)
    BY <2>0, <2>1, CargoDispatched, CargoRecalled, CargoSwept DEF Writes
  <2>2. CASE \E p \in Planets : RefreshPlanet(p)
    BY <2>0, <2>2, CargoRefreshed
  <2>3. CASE planet' = planet /\ fleet' = fleet
    BY <2>3 DEF NoFreeCargo, Flying
  <2>4. CASE \E t \in Txs : Drafts(t)
    BY <2>3, <2>4, DraftsLeaveTables
  <2>5. CASE Tick \/ UNCHANGED vars
    BY <2>3, <2>5 DEF Tick, vars
  <2> QED
    BY <2>0, <2>1, <2>2, <2>4, <2>5, StepIs
<1> QED
  BY <1>1, <1>2, BalancedHolds, PTL DEF Spec
=============================================================================
