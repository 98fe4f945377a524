------------------------------ MODULE MCParts ------------------------------
(***************************************************************************)
(* One instance of every component that keeps no state with another: the   *)
(* rate limiter, sign-up and device login, homeworlds, alliances, roles,   *)
(* the terminal's event loop, the technology tree, an economy, a battle,   *)
(* the updater.                                                            *)
(* As they share no variable, an interleaving of two of them shows nothing *)
(* that each does not show alone: a behaviour picks one part and runs it,  *)
(* the variables of the others keep their initial values.  The properties  *)
(* of the state modules that are extended here are checked as they stand.  *)
(***************************************************************************)
EXTENDS Limiter, LoginState, AllianceState, ConsoleState, HomeworldState, RoleState,
        CombatState, UpdaterState, ProgressState, PlanetSettings, FiniteSets

VARIABLES
  part,                                                         \* the part that runs
  lclock, lbucket, cookie, page,                                \* Login
  spawned, history, cmdAt,                                      \* Console
  hour, built, stock, updated, purse, order, produced           \* Economy

Users == {"u1", "u2"}
Browsers == {"b1", "b2"}
Terminals == {"t1"}

\* The last tokens of the limiter are spent within the device code's life.
LG == INSTANCE Login WITH
  Capacity <- 3, Cost <- 2, Names <- {"n1"}, Emails <- {"e1"}, Horizon <- 2,
  clock <- lclock, bucket <- lbucket

\* The same tables, with names and addresses to fight for.
SU == INSTANCE Login WITH
  Capacity <- 3, Cost <- 2, Names <- {"n1", "n2"}, Emails <- {"e1", "e2"}, Horizon <- 2,
  clock <- lclock, bucket <- lbucket

HW == INSTANCE Homeworlds WITH
  Universes <- {"milky way"}, Slots <- 1..3

AL == INSTANCE Alliances WITH
  Tags <- {"A", "B"}, Titles <- {"N", "M"}, MaxAlliances <- 2

RO == INSTANCE Roles

CO == INSTANCE Console

PR == INSTANCE Progress

EC == INSTANCE Economy WITH
  Horizon <- 3, Moments <- 2, clock <- hour, level <- built

\* The eighth slot's bonus.
MCPositionBonus == <<35, 0>>

\* Values of Combat's constants.
Attackers == [destroyer: {0, 1, 4}, light_fighter: {0, 2}]
Hulls == [light_fighter: 0..2, cruiser: {0, 1}]
Launchers == [rocket_launcher: {0, 1, 3}]
Untrained == [weapons |-> 0, shielding |-> 0, armour |-> 0]
Levels == {Untrained, [weapons |-> 13, shielding |-> 2, armour |-> 1]}
\* 1 + 0.1 * 13 is a little less than 2.3: a light fighter's 50 become 114.
ShortProducts == {<<50, 13>>, <<400, 13>>}
CB == INSTANCE Combat

UP == INSTANCE Updater

loginVars == <<lclock, users, sessions, issued, codes, lbucket, cookie, page, term, creds,
               approved, loggedOut, overlapped>>
allianceVars == <<alliances, members, req, departed>>
consoleVars == <<active, shown, current, out, running, busy, loads, spawned, history, cmdAt>>
economyVars == <<hour, built, stock, updated, purse, order, produced>>
partsVars == <<part, vars, loginVars, homeworldVars, allianceVars, roleVars, consoleVars, level,
               economyVars, combatVars, updaterVars>>

Parts == {"limiter", "signup", "login", "homeworlds", "alliances", "roles", "console",
          "progress", "economy", "combat", "updater"}
On(p) == part = p

\* Every part's own initial states; one of them for a part that does not run.
PartsInit ==
  /\ part \in Parts
  /\ Init /\ LG!Init /\ HW!Init /\ AL!Init /\ CO!Init /\ PR!Init /\ EC!Init
  /\ RO!Init /\ (On("roles") \/ admins = Users)
  /\ CB!Init
  /\ \/ On("combat")
     \/ CB!Count(pool) + CB!Count(atk) = 0 /\ {sides.atkTech, sides.defTech} = {Untrained}
  /\ UP!Init /\ (On("updater") \/ ("system" \in writable /\ run["u1"].tag = "v1"))

Runs(p) ==
  /\ On(p) /\ part' = part
  /\ IF p = "limiter" THEN TRUE ELSE UNCHANGED vars
  /\ IF p \in {"signup", "login"} THEN TRUE ELSE UNCHANGED loginVars
  /\ IF p = "homeworlds" THEN TRUE ELSE UNCHANGED homeworldVars
  /\ IF p = "alliances" THEN TRUE ELSE UNCHANGED allianceVars
  /\ IF p = "roles" THEN TRUE ELSE UNCHANGED roleVars
  /\ IF p = "console" THEN TRUE ELSE UNCHANGED consoleVars
  /\ IF p = "progress" THEN TRUE ELSE UNCHANGED level
  /\ IF p = "economy" THEN TRUE ELSE UNCHANGED economyVars
  /\ IF p = "combat" THEN TRUE ELSE UNCHANGED combatVars
  /\ IF p = "updater" THEN TRUE ELSE UNCHANGED updaterVars

\* The browsers' part of Login, without device codes.
Signup(b) ==
  \/ \E n \in {"n1", "n2"}, e \in {"e1", "e2"} : SU!SignupCheck(b, n, e)
  \/ SU!SignupCreate(b) \/ SU!SignupIssue(b) \/ SU!SignupLost(b)
  \/ \E u \in users : SU!LogIn(b, u)
  \/ SU!LogOut(b)

PartsNext ==
  \/ Runs("limiter") /\ Next
  \/ Runs("signup") /\ \E b \in Browsers : Signup(b)
  \/ Runs("login") /\ LG!Next
  \/ Runs("homeworlds") /\ HW!Next
  \/ Runs("alliances") /\ AL!Next
  \/ Runs("roles") /\ RO!Next
  \/ Runs("console") /\ CO!Next
  \/ Runs("progress") /\ PR!Next
  \/ Runs("economy") /\ EC!Next
  \/ Runs("combat") /\ CB!Next
  \/ Runs("updater") /\ UP!Next

\* The fairness of the components, of the one that runs.
PartsFairness ==
  /\ WF_(loginVars)(On("login") /\ LG!Tick)
  /\ WF_(loginVars)(On("login") /\ LG!LoginStep("t1"))
  /\ \A h \in Handlers : WF_(homeworldVars)(On("homeworlds") /\ HW!Attempts(h))

PartsSpec == PartsInit /\ [][PartsNext]_partsVars /\ PartsFairness

(***************************************************************************)
(* The properties, stated in the components' modules                       *)
(***************************************************************************)

\* Every component's tables and messages stay in their types; in a battle nobody
\* loses units he does not have.
TypesOK ==
  /\ TypeOK /\ SU!TypeOK /\ HW!TypeOK /\ AL!TypeOK /\ RO!TypeOK /\ CO!TypeOK
  /\ PR!TypeOK /\ EC!TypeOK /\ CB!TypeOK /\ UP!TypeOK

\* The login loop of a terminal ends (tui/repl.go:122).
LoginEnds == LG!LoginEnds

\* A join ends in a full universe too (svc/universe.go:188).
JoinEnds == HW!JoinEnds

\* No window of a planet's production is credited twice (svc/resources.go:24).
NobodyOvercredited == [][On("economy") => ~EC!Overcredits]_economyVars
=============================================================================
