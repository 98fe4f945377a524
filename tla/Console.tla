------------------------------- MODULE Console -------------------------------
(***************************************************************************)
(* The interactive terminal (tui/app.go): an event loop that answers keys, *)
(* clicks and messages one at a time, and the goroutines it starts, one    *)
(* for a command and one for every load of a view.  They share the session *)
(* (tui/repl.go): its writer "out", which a command borrows while it runs, *)
(* and its current planet, which a load reads when it is issued and a      *)
(* /switch changes while older loads may still be on their way.            *)
(*                                                                         *)
(* The right rail is loaded as the centre column is, and left out with     *)
(* scrolling, suggestions, colours, layout, and ctrl+c, after which        *)
(* nothing of all this exists.                                             *)
(***************************************************************************)
EXTENDS ConsoleState, FiniteSets

VARIABLES
  spawned,   \* number of commands run so far
  history,   \* length of cmdHist, and cmdAt
  cmdAt

vars == <<active, shown, current, out, running, busy, loads, spawned, history, cmdAt>>

Planets == 1..PlanetCount
NoView == ""
NoPlanet == 0

\* Commands as far as the console tells them apart: those that go to a view,
\* /switch, and all others, /quit and /logout among them: the console shows the
\* error "quit" they return and goes on.
Commands == [to: Views, planet: {NoPlanet}] \cup [to: {NoView}, planet: 0..PlanetCount]

Phases == {"spawned", "writing", "executed", "done"}

TypeOK ==
  /\ active \in Views /\ current \in Planets
  /\ shown \in [view: Views \cup {NoView}, planet: 0..PlanetCount, late: BOOLEAN]
  /\ running \subseteq [id: 1..MaxCommands, cmd: Commands, old: 0..MaxCommands, pc: Phases]
  /\ busy \in BOOLEAN
  /\ out \in 0..MaxCommands
  /\ loads \subseteq [view: Views, planet: Planets, late: BOOLEAN]
  /\ spawned \in 0..MaxCommands
  /\ history \in 0..spawned /\ cmdAt \in -1..(history - 1)

\* loadView reads the current planet at once; the answer carries the view only.
Load(v) == [view |-> v, planet |-> current, late |-> FALSE]

Init ==
  /\ active = Overview /\ current = 1
  /\ shown = [view |-> NoView, planet |-> NoPlanet, late |-> FALSE]
  /\ out = Stdout /\ running = {} /\ busy = FALSE
  /\ loads = {Load(active)}
  /\ spawned = 0 /\ history = 0 /\ cmdAt = -1

\* runCommand: the goroutine is started.
Spawn(c) ==
  /\ spawned < MaxCommands
  /\ spawned' = spawned + 1
  /\ busy' = TRUE
  /\ running' = running \cup
       {[id |-> spawned + 1, cmd |-> c, old |-> Stdout, pc |-> "spawned"]}

\* handleKey, "enter": the line goes into the history; a command of a view moves
\* there at once, its rows are loaded when the command is done.
Enter(c) ==
  /\ ~busy
  /\ history' = history + 1 /\ cmdAt' = -1
  /\ active' = IF c.to = NoView THEN active ELSE c.to
  /\ Spawn(c)
  /\ UNCHANGED <<shown, current, out, loads>>

\* handleMouse on the menu or a tab.
ClickMenu(v) ==
  /\ v # active
  /\ active' = v
  /\ loads' = loads \cup {Load(v)}
  /\ UNCHANGED <<shown, current, out, running, busy, spawned, history, cmdAt>>

Always == TRUE
Prompting == ~busy

\* handleMouse on a row, the rail or the footer: a command of a view loads it,
\* any other is run, and not entered in the history.
ClickRow(c) ==
  /\ Prompting
  /\ IF c.to # NoView
     THEN /\ active' = c.to
          /\ loads' = loads \cup {Load(c.to)}
          /\ UNCHANGED <<busy, running, spawned>>
     ELSE Spawn(c) /\ UNCHANGED <<active, loads>>
  /\ UNCHANGED <<shown, current, out, history, cmdAt>>

Advance(r, pc) == (running \ {r}) \cup {[r EXCEPT !.pc = pc]}

\* The command's goroutine: the writer is borrowed, ...
Borrow(r) ==
  /\ r.pc = "spawned"
  /\ running' = (running \ {r}) \cup {[r EXCEPT !.pc = "writing", !.old = out]}
  /\ out' = r.id
  /\ UNCHANGED <<active, shown, current, busy, loads, spawned, history, cmdAt>>

\* switchPlanet: the current planet changes under the loads in flight.
Switch(r) ==
  /\ r.cmd.planet # NoPlanet
  /\ current' = r.cmd.planet
  /\ loads' = {[l EXCEPT !.late = TRUE] : l \in loads}

\* ... exec runs, and may fail, ...
Exec(r) ==
  /\ r.pc = "writing"
  /\ running' = Advance(r, "executed")
  /\ UNCHANGED <<current, loads>> \/ Switch(r)
  /\ UNCHANGED <<active, shown, out, busy, spawned, history, cmdAt>>

\* ... and the writer is given back.
GiveBack(r) ==
  /\ r.pc = "executed"
  /\ running' = Advance(r, "done")
  /\ out' = r.old
  /\ UNCHANGED <<active, shown, current, busy, loads, spawned, history, cmdAt>>

\* The rows cmdDoneMsg asks for.
NotReloaded == loads
Reloaded == loads \cup {Load(active)}

CmdDoneBusy(r) ==
  /\ r.pc = "done"
  /\ running' = running \ {r}
  /\ loads' = Reloaded
  /\ UNCHANGED <<active, shown, current, out, busy, spawned, history, cmdAt>>

\* cmdDoneMsg, with or without an error.
CmdDone(r) ==
  /\ r.pc = "done"
  /\ running' = running \ {r}
  /\ busy' = FALSE
  /\ loads' = Reloaded
  /\ UNCHANGED <<active, shown, current, out, spawned, history, cmdAt>>

AnyView(l) == TRUE
Wanted(l) == l.view = active

\* viewLoadedMsg: kept if its view is the active one.
ViewLoaded(l) ==
  /\ loads' = loads \ {l}
  /\ shown' = IF Wanted(l) THEN l ELSE shown
  /\ UNCHANGED <<active, current, out, running, busy, spawned, history, cmdAt>>

\* historyPrev and historyNext: the arrows, when no suggestion is open.
HistoryPrev ==
  /\ history > 0
  /\ cmdAt' = IF cmdAt = -1 THEN history - 1 ELSE IF cmdAt > 0 THEN cmdAt - 1 ELSE cmdAt
  /\ UNCHANGED <<active, shown, current, out, running, busy, loads, spawned, history>>

HistoryNext ==
  /\ history > 0 /\ cmdAt # -1
  /\ cmdAt' = IF cmdAt < history - 1 THEN cmdAt + 1 ELSE -1
  /\ UNCHANGED <<active, shown, current, out, running, busy, loads, spawned, history>>

Progress(r) == Borrow(r) \/ Exec(r) \/ GiveBack(r) \/ CmdDone(r)

Next ==
  \/ \E c \in Commands : Enter(c) \/ ClickRow(c)
  \/ \E v \in Views : ClickMenu(v)
  \/ \E r \in running : Progress(r)
  \/ \E l \in loads : ViewLoaded(l)
  \/ HistoryPrev \/ HistoryNext

Spec == Init /\ [][Next]_vars
=============================================================================
