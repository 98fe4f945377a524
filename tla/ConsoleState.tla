---------------------------- MODULE ConsoleState -----------------------------
(***************************************************************************)
(* The state of the interactive terminal between two events, and what the  *)
(* player may rely on (tui/app.go).  Console has the events and the        *)
(* goroutines that change it.                                              *)
(***************************************************************************)
EXTENDS Integers

CONSTANTS
  Views,        \* views of the centre column that show one planet
  Overview,     \* the first of them
  PlanetCount,  \* the player's planets
  MaxCommands   \* bound on the commands entered

ASSUME ConsoleConstantsOK ==
  /\ Overview \in Views
  /\ PlanetCount \in Nat \ {0} /\ MaxCommands \in Nat

VARIABLES
  active,    \* the view the player looks at
  shown,     \* what the centre column shows: [view, planet, late]
  current,   \* session.currentIndex
  out,       \* session.out: 0 is the terminal, n the buffer of command n
  running,   \* the commands in flight: [id, cmd, old, pc]
  busy,
  loads      \* the loads in flight: [view, planet, late]

Stdout == 0

Settled == ~busy /\ loads = {}

\* Nothing under way: the centre column shows the view that is selected,
\* whatever the order in which clicks, commands and answers came (app.go:154).
ShowsActiveView == Settled => shown.view = active

\* And it shows the current planet, unless the rows had been asked for before a
\* /switch and arrived after it: the answer does not say whose rows it carries.
ShowsCurrentPlanet == Settled /\ ~shown.late => shown.planet = current

\* The writer a command borrows is back when no command runs (app.go:354): two
\* commands at once would leave the buffer of one behind.
WriterReturned == running = {} => out = Stdout

\* The prompt is only taken while a command runs that will give it back, failed
\* or not (its requests carry a timeout each): it is never locked for ever.
PromptOwed == busy => running # {}
=============================================================================
