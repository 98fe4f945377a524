---------------------------- MODULE ConsoleProofs ----------------------------
(***************************************************************************)
(* The console for any number of views, planets and commands: what it      *)
(* shows at rest, and that the prompt and the writer are given back.       *)
(***************************************************************************)
EXTENDS Console, TLAPS

-----------------------------------------------------------------------------
(* Types, as wide as the steps need them. *)

AllViews == Views \cup {Overview, NoView}
CommandTypes == [id : Nat, cmd : Commands, old : Nat, pc : Phases]
LoadTypes == [view : AllViews, planet : Int, late : BOOLEAN]

TypeInv ==
  /\ active \in AllViews /\ current \in Int
  /\ out \in Nat /\ spawned \in Nat
  /\ running \subseteq CommandTypes
  /\ loads \subseteq LoadTypes

LEMMA CommandFields ==
  ASSUME NEW c \in Commands
  PROVE  c.to \in AllViews /\ c.planet \in Int
  BY DEF Commands, AllViews, NoPlanet

LEMMA LoadTyped == ASSUME TypeInv, NEW v \in AllViews PROVE Load(v) \in LoadTypes
  BY DEF TypeInv, Load, LoadTypes

LEMMA SpawnTyped ==
  ASSUME TypeInv, NEW c \in Commands, Spawn(c)
  PROVE  spawned' \in Nat /\ running' \subseteq CommandTypes
  BY DEF TypeInv, Spawn, CommandTypes, Phases, Stdout

\* What Borrow makes of its command, and Exec and GiveBack of theirs.
LEMMA Borrowed ==
  ASSUME NEW r \in CommandTypes, NEW q \in Nat
  PROVE  LET s == [r EXCEPT !.pc = "writing", !.old = q] IN
         s \in CommandTypes /\ s.pc = "writing" /\ s.old = q
  <1>1. /\ [r EXCEPT !.pc = "writing", !.old = q] \in CommandTypes
        /\ [r EXCEPT !.pc = "writing", !.old = q].pc = "writing"
        /\ [r EXCEPT !.pc = "writing", !.old = q].old = q
    BY DEF CommandTypes, Phases
  <1> QED
    BY <1>1, Zenon

LEMMA Advanced ==
  ASSUME NEW r \in CommandTypes, NEW p \in Phases
  PROVE  LET s == [r EXCEPT !.pc = p] IN
         s \in CommandTypes /\ s.pc = p /\ s.old = r.old
  <1>1. /\ [r EXCEPT !.pc = p] \in CommandTypes
        /\ [r EXCEPT !.pc = p].pc = p
        /\ [r EXCEPT !.pc = p].old = r.old
    BY DEF CommandTypes
  <1> QED
    BY <1>1, Zenon

\* A /switch marks every load late.
LEMMA Overtaken ==
  ASSUME loads \subseteq LoadTypes, NEW r, Switch(r)
  PROVE  loads' \subseteq LoadTypes /\ \A l \in loads' : l.late
  BY DEF Switch, LoadTypes

LEMMA TypeProgress ==
  ASSUME TypeInv, NEW r \in running, Progress(r)
  PROVE  TypeInv'
  <1>1. r \in CommandTypes
    BY DEF TypeInv
  <1>2. CASE Borrow(r)
    BY <1>1, <1>2, Borrowed DEF Borrow, TypeInv, CommandTypes
  <1>3. CASE Exec(r)
    <2>1. running' \subseteq CommandTypes
      BY <1>1, <1>3, Advanced DEF Exec, Advance, TypeInv, Phases
    <2>2. current' \in Int /\ loads' \subseteq LoadTypes
      <3>1. r.cmd.planet \in Int
        BY <1>1, CommandFields DEF CommandTypes
      <3> QED
        BY <1>3, <3>1, Overtaken DEF Exec, Switch, TypeInv
    <2> QED
      BY <1>3, <2>1, <2>2 DEF Exec, TypeInv
  <1>4. CASE GiveBack(r)
    <2>1. running' \subseteq CommandTypes
      BY <1>1, <1>4, Advanced DEF GiveBack, Advance, TypeInv, Phases
    <2>2. out' \in Nat
      BY <1>1, <1>4 DEF GiveBack, CommandTypes
    <2> QED
      BY <1>4, <2>1, <2>2 DEF GiveBack, TypeInv
  <1>5. CASE CmdDone(r)
    BY <1>5, LoadTyped DEF CmdDone, Reloaded, TypeInv
  <1> QED
    BY <1>2, <1>3, <1>4, <1>5 DEF Progress

LEMMA TypeNext == TypeInv /\ [Next]_vars => TypeInv'
  <1> SUFFICES ASSUME TypeInv, [Next]_vars PROVE TypeInv'
    OBVIOUS
  <1>1. CASE UNCHANGED vars \/ HistoryPrev \/ HistoryNext
    BY <1>1 DEF vars, HistoryPrev, HistoryNext, TypeInv
  <1>2. ASSUME NEW c \in Commands, Enter(c) PROVE TypeInv'
    BY <1>2, CommandFields, SpawnTyped DEF Enter, TypeInv
  <1>3. ASSUME NEW c \in Commands, ClickRow(c) PROVE TypeInv'
    BY <1>3, CommandFields, SpawnTyped, LoadTyped DEF ClickRow, TypeInv
  <1>4. ASSUME NEW v \in Views, ClickMenu(v) PROVE TypeInv'
    BY <1>4, LoadTyped DEF ClickMenu, TypeInv, AllViews
  <1>5. ASSUME NEW l \in loads, ViewLoaded(l) PROVE TypeInv'
    BY <1>5 DEF ViewLoaded, TypeInv
  <1> QED
    BY <1>1, <1>2, <1>3, <1>4, <1>5, TypeProgress DEF Next

LEMMA TypeAlways == Spec => []TypeInv
  <1>1. Init => TypeInv
    BY DEF Init, TypeInv, Load, LoadTypes, AllViews, Stdout
  <1> QED
    BY <1>1, TypeNext, PTL DEF Spec

-----------------------------------------------------------------------------
(* The prompt is free exactly when no command runs, commands run one at a  *)
(* time, and the one that runs has the writer from Borrow to GiveBack.     *)

OneCommand == \A r, s \in running : r = s
PromptFree == busy <=> running # {}
WriterOf ==
  /\ running = {} => out = Stdout
  /\ \A r \in running :
       CASE r.pc = "spawned" -> out = Stdout
         [] r.pc \in {"writing", "executed"} -> r.old = Stdout
         [] OTHER -> out = Stdout

CommandInv == OneCommand /\ PromptFree /\ WriterOf

LEMMA CommandInit == Init => CommandInv
  BY DEF Init, CommandInv, OneCommand, PromptFree, WriterOf

\* Spawn, the only way to begin a command, needs a free prompt in every caller.
LEMMA SpawnInv ==
  ASSUME CommandInv, ~busy, NEW c, Spawn(c), out' = out
  PROVE  CommandInv'
  <1> DEFINE r == [id |-> spawned + 1, cmd |-> c, old |-> Stdout, pc |-> "spawned"]
  <1>1. running' = {r} /\ busy' = TRUE /\ out' = Stdout
    BY DEF CommandInv, PromptFree, WriterOf, Spawn
  <1>2. r.pc = "spawned"
    OBVIOUS
  <1> HIDE DEF r
  <1> QED
    BY <1>1, <1>2 DEF CommandInv, OneCommand, PromptFree, WriterOf

\* The command that runs becomes s: the writer is its own, or given back.
LEMMA MoveInv ==
  ASSUME CommandInv, NEW r \in running, busy' = busy, NEW s, running' = {s},
         \/ s.pc \in {"writing", "executed"} /\ s.old = Stdout
         \/ s.pc = "done" /\ out' = Stdout
  PROVE  CommandInv'
  <1>1. busy'
    BY DEF CommandInv, PromptFree
  <1> QED
    BY <1>1 DEF CommandInv, OneCommand, PromptFree, WriterOf

\* The four steps of a command's goroutine.
LEMMA ProgressInv ==
  ASSUME TypeInv, CommandInv, NEW r \in running, Progress(r)
  PROVE  CommandInv'
  <1>1. running = {r} /\ r \in CommandTypes
    BY DEF TypeInv, CommandInv, OneCommand
  <1>2. CASE Borrow(r)
    <2> DEFINE s == [r EXCEPT !.pc = "writing", !.old = out]
    <2>1. running' = {s} /\ busy' = busy
      BY <1>1, <1>2 DEF Borrow
    <2>2. s.pc = "writing" /\ s.old = Stdout
      BY <1>1, <1>2, Borrowed DEF Borrow, TypeInv, CommandInv, WriterOf
    <2> HIDE DEF s
    <2> QED
      BY <2>1, <2>2, MoveInv
  <1>3. CASE Exec(r)
    <2> DEFINE s == [r EXCEPT !.pc = "executed"]
    <2>1. running' = {s} /\ busy' = busy
      BY <1>1, <1>3 DEF Exec, Advance
    <2>2. s.pc = "executed" /\ s.old = r.old
      BY <1>1, Advanced DEF Phases
    <2>3. r.old = Stdout
      BY <1>3 DEF Exec, CommandInv, WriterOf
    <2> HIDE DEF s
    <2> QED
      BY <2>1, <2>2, <2>3, MoveInv
  <1>4. CASE GiveBack(r)
    <2> DEFINE s == [r EXCEPT !.pc = "done"]
    <2>1. running' = {s} /\ busy' = busy
      BY <1>1, <1>4 DEF GiveBack, Advance
    <2>2. s.pc = "done"
      BY <1>1, Advanced DEF Phases
    <2>3. out' = Stdout
      BY <1>4 DEF GiveBack, CommandInv, WriterOf
    <2> HIDE DEF s
    <2> QED
      BY <2>1, <2>2, <2>3, MoveInv
  <1>5. CASE CmdDone(r)
    <2>1. running' = {} /\ out' = Stdout /\ ~busy'
      BY <1>1, <1>5 DEF CmdDone, CommandInv, WriterOf
    <2> QED
      BY <2>1 DEF CommandInv, OneCommand, PromptFree, WriterOf
  <1> QED
    BY <1>2, <1>3, <1>4, <1>5 DEF Progress

LEMMA CommandNext == TypeInv /\ CommandInv /\ [Next]_vars => CommandInv'
  <1> SUFFICES ASSUME TypeInv, CommandInv, [Next]_vars PROVE CommandInv'
    OBVIOUS
  <1>1. CASE UNCHANGED <<running, busy, out>>
    BY <1>1 DEF CommandInv, OneCommand, PromptFree, WriterOf
  <1>2. ASSUME NEW c \in Commands, Enter(c) PROVE CommandInv'
    BY <1>2, SpawnInv DEF Enter
  <1>3. ASSUME NEW c \in Commands, ClickRow(c) PROVE CommandInv'
    BY <1>1, <1>3, SpawnInv DEF ClickRow, Prompting
  <1> QED
    BY <1>1, <1>2, <1>3, ProgressInv
    DEF Next, ClickMenu, ViewLoaded, HistoryPrev, HistoryNext, vars

LEMMA CommandAlways == Spec => []CommandInv
  BY CommandInit, CommandNext, TypeAlways, PTL DEF Spec

\* The writer a command borrows is back whenever no command runs.
THEOREM WriterReturnedHolds == Spec => []WriterReturned
  <1>1. CommandInv => WriterReturned
    BY DEF CommandInv, WriterOf, WriterReturned
  <1> QED
    BY <1>1, CommandAlways, PTL

\* The prompt is only taken while a command runs that will give it back.
THEOREM PromptOwedHolds == Spec => []PromptOwed
  <1>1. CommandInv => PromptOwed
    BY DEF CommandInv, PromptFree, PromptOwed
  <1> QED
    BY <1>1, CommandAlways, PTL

-----------------------------------------------------------------------------
(* What is shown.  A command may leave anything on the screen while it     *)
(* runs; without one, either the active view is on its way or it is here,  *)
(* with the current planet unless a /switch came between.                  *)

OnItsWay == \E l \in loads : l.view = active
Here == shown.view = active /\ (shown.late \/ shown.planet = current)

ShownInv ==
  /\ CommandInv
  /\ \A l \in loads : l.late \/ l.planet = current
  /\ busy \/ OnItsWay \/ Here

LEMMA ShownInit == Init => ShownInv
  BY CommandInit DEF Init, ShownInv, OnItsWay, Load

\* The answer for view v is asked for, and v is the view selected.
LEMMA AskedFor ==
  ASSUME ShownInv, CommandInv', NEW v, active' = v, current' = current,
         loads' = loads \cup {Load(v)}
  PROVE  ShownInv'
  <1> DEFINE new == Load(v)
  <1>1. new.view = v /\ new.planet = current
    BY DEF Load
  <1>2. loads' = loads \cup {new}
    OBVIOUS
  <1> HIDE DEF new
  <1> QED
    BY <1>1, <1>2 DEF ShownInv, OnItsWay

LEMMA ShownNext == TypeInv /\ ShownInv /\ [Next]_vars => ShownInv'
  <1> SUFFICES ASSUME TypeInv, ShownInv, [Next]_vars PROVE ShownInv'
    OBVIOUS
  <1>0. CommandInv'
    BY CommandNext DEF ShownInv
  <1>1. CASE UNCHANGED <<active, shown, current, busy, loads>>
    BY <1>0, <1>1 DEF ShownInv, OnItsWay, Here
  <1>2. ASSUME NEW c \in Commands, Enter(c) PROVE ShownInv'
    BY <1>0, <1>2 DEF Enter, Spawn, ShownInv
  <1>3. ASSUME NEW c \in Commands, ClickRow(c) PROVE ShownInv'
    <2>1. CASE c.to # NoView
      BY <1>0, <1>3, <2>1, AskedFor DEF ClickRow
    <2>2. CASE c.to = NoView
      BY <1>0, <1>3, <2>2 DEF ClickRow, Spawn, ShownInv
    <2> QED
      BY <2>1, <2>2
  <1>4. ASSUME NEW v \in Views, ClickMenu(v) PROVE ShownInv'
    BY <1>0, <1>4, AskedFor DEF ClickMenu
  <1>5. ASSUME NEW r \in running, Progress(r) PROVE ShownInv'
    <2>1. busy
      BY DEF ShownInv, CommandInv, PromptFree
    <2>2. CASE Borrow(r)
      BY <1>0, <2>1, <2>2 DEF Borrow, ShownInv
    <2>3. CASE Exec(r)
      <3>1. busy'
        BY <2>1, <2>3 DEF Exec
      <3>2. CASE UNCHANGED <<current, loads>>
        BY <1>0, <3>1, <3>2 DEF ShownInv
      <3>3. CASE Switch(r)
        <4>1. \A l \in loads' : l.late
          BY <3>3, Overtaken DEF TypeInv
        <4> QED
          BY <1>0, <3>1, <4>1 DEF ShownInv
      <3> QED
        BY <2>3, <3>2, <3>3 DEF Exec
    <2>4. CASE GiveBack(r)
      BY <1>0, <2>1, <2>4 DEF GiveBack, ShownInv
    <2>5. CASE CmdDone(r)
      BY <1>0, <2>5, AskedFor DEF CmdDone, Reloaded
    <2> QED
      BY <1>5, <2>2, <2>3, <2>4, <2>5 DEF Progress
  <1>6. ASSUME NEW l \in loads, ViewLoaded(l) PROVE ShownInv'
    <2>1. CASE l.view = active
      BY <1>0, <1>6, <2>1 DEF ViewLoaded, Wanted, ShownInv, Here
    <2>2. CASE l.view # active
      BY <1>0, <1>6, <2>2 DEF ViewLoaded, Wanted, ShownInv, OnItsWay, Here
    <2> QED
      BY <2>1, <2>2
  <1> QED
    BY <1>1, <1>2, <1>3, <1>4, <1>5, <1>6 DEF Next, HistoryPrev, HistoryNext, vars

LEMMA ShownAlways == Spec => []ShownInv
  BY ShownInit, ShownNext, TypeAlways, PTL DEF Spec

\* At rest the centre column shows the selected view, in whatever order clicks,
\* commands and answers came.
THEOREM ShowsActiveViewHolds == Spec => []ShowsActiveView
  <1>1. ShownInv => ShowsActiveView
    BY DEF ShownInv, OnItsWay, Here, ShowsActiveView, Settled
  <1> QED
    BY <1>1, ShownAlways, PTL

\* And the current planet's, unless it was asked for before a /switch.
THEOREM ShowsCurrentPlanetHolds == Spec => []ShowsCurrentPlanet
  <1>1. ShownInv => ShowsCurrentPlanet
    BY DEF ShownInv, OnItsWay, Here, ShowsCurrentPlanet, Settled
  <1> QED
    BY <1>1, ShownAlways, PTL

-----------------------------------------------------------------------------
(* The bounds of TypeOK: an index into the history stays inside it, a      *)
(* writer belongs to a command that was run, and only views and planets    *)
(* that exist are asked for.                                               *)

CommandRecords == [id: 1..MaxCommands, cmd: Commands, old: 0..MaxCommands, pc: Phases]
LoadRecords == [view: Views, planet: Planets, late: BOOLEAN]

LEMMA CommandPlaces ==
  ASSUME NEW c \in Commands
  PROVE  c.to \in Views \cup {NoView} /\ c.planet \in 0..PlanetCount
  BY ConsoleConstantsOK DEF Commands, NoPlanet

LEMMA LoadOfPlanet == ASSUME TypeOK, NEW v \in Views PROVE Load(v) \in LoadRecords
  BY DEF TypeOK, Load, LoadRecords

LEMMA SpawnBounded ==
  ASSUME TypeOK, NEW c \in Commands, Spawn(c)
  PROVE  /\ spawned' \in 0..MaxCommands /\ spawned' = spawned + 1 /\ busy' \in BOOLEAN
         /\ running' \subseteq CommandRecords
  <1> DEFINE r == [id |-> spawned + 1, cmd |-> c, old |-> Stdout, pc |-> "spawned"]
  <1>1. spawned + 1 \in 1..MaxCommands /\ spawned' = spawned + 1
    BY ConsoleConstantsOK DEF TypeOK, Spawn
  <1>2. Stdout \in 0..MaxCommands
    BY ConsoleConstantsOK DEF Stdout
  <1>3. r \in CommandRecords
    BY <1>1, <1>2 DEF CommandRecords, Phases
  <1>4. running' = running \cup {r}
    BY DEF Spawn
  <1> HIDE DEF r
  <1> QED
    BY <1>1, <1>3, <1>4 DEF TypeOK, Spawn, CommandRecords

LEMMA MovedBounded ==
  ASSUME NEW r \in CommandRecords
  PROVE  /\ \A p \in Phases : [r EXCEPT !.pc = p] \in CommandRecords
         /\ \A q \in 0..MaxCommands : [r EXCEPT !.pc = "writing", !.old = q] \in CommandRecords
  BY DEF CommandRecords, Phases

LEMMA BoundedProgress ==
  ASSUME TypeOK, NEW r \in running, Progress(r)
  PROVE  TypeOK'
  <1>1. r \in CommandRecords
    BY DEF TypeOK, CommandRecords
  <1>2. r.id \in 0..MaxCommands /\ r.old \in 0..MaxCommands /\ r.cmd \in Commands
    BY <1>1 DEF CommandRecords
  <1>3. CASE Borrow(r)
    <2>1. running' \subseteq CommandRecords
      BY <1>1, <1>3, MovedBounded DEF Borrow, TypeOK, CommandRecords
    <2> QED
      BY <1>2, <1>3, <2>1 DEF Borrow, TypeOK, CommandRecords
  <1>4. CASE Exec(r)
    <2>1. running' \subseteq CommandRecords
      <3>1. [r EXCEPT !.pc = "executed"] \in CommandRecords
        BY <1>1, MovedBounded DEF Phases
      <3>2. running' = (running \ {r}) \cup {[r EXCEPT !.pc = "executed"]}
        BY <1>4 DEF Exec, Advance
      <3> QED
        BY <3>1, <3>2 DEF TypeOK, CommandRecords
    <2>2. current' \in Planets /\ loads' \subseteq LoadRecords
      <3>1. CASE Switch(r)
        <4>1. current' \in Planets
          BY <1>2, <3>1, CommandPlaces DEF Switch, Planets, NoPlanet
        <4>2. \A l \in LoadRecords : [l EXCEPT !.late = TRUE] \in LoadRecords
          BY DEF LoadRecords
        <4>3. loads \subseteq LoadRecords
          BY DEF TypeOK, LoadRecords
        <4> QED
          BY <3>1, <4>1, <4>2, <4>3 DEF Switch
      <3>2. CASE UNCHANGED <<current, loads>>
        BY <3>2 DEF TypeOK, LoadRecords
      <3> QED
        BY <1>4, <3>1, <3>2 DEF Exec
    <2> QED
      BY <1>4, <2>1, <2>2 DEF Exec, TypeOK, CommandRecords, LoadRecords
  <1>5. CASE GiveBack(r)
    <2>1. [r EXCEPT !.pc = "done"] \in CommandRecords
      BY <1>1, MovedBounded DEF Phases
    <2>2. running' = (running \ {r}) \cup {[r EXCEPT !.pc = "done"]}
      BY <1>5 DEF GiveBack, Advance
    <2>3. running' \subseteq CommandRecords
      BY <2>1, <2>2 DEF TypeOK, CommandRecords
    <2> QED
      BY <1>2, <1>5, <2>3 DEF GiveBack, TypeOK, CommandRecords
  <1>6. CASE CmdDone(r)
    <2>1. Load(active) \in LoadRecords
      BY LoadOfPlanet DEF TypeOK
    <2>2. loads' \subseteq LoadRecords
      BY <1>6, <2>1 DEF CmdDone, Reloaded, TypeOK, LoadRecords
    <2> QED
      BY <1>6, <2>2 DEF CmdDone, TypeOK, LoadRecords
  <1> QED
    BY <1>3, <1>4, <1>5, <1>6 DEF Progress

LEMMA BoundedNext == TypeOK /\ [Next]_vars => TypeOK'
  <1> SUFFICES ASSUME TypeOK, [Next]_vars PROVE TypeOK'
    OBVIOUS
  <1>0. spawned \in 0..MaxCommands /\ history \in 0..spawned /\ cmdAt \in -1..(history - 1)
    BY DEF TypeOK
  <1>1. CASE UNCHANGED vars
    BY <1>1 DEF vars, TypeOK
  <1>2. CASE HistoryPrev \/ HistoryNext
    <2>1. cmdAt' \in -1..(history - 1)
      BY <1>0, <1>2, ConsoleConstantsOK DEF HistoryPrev, HistoryNext
    <2> QED
      BY <1>2, <2>1 DEF HistoryPrev, HistoryNext, TypeOK
  <1>3. ASSUME NEW c \in Commands, Enter(c) PROVE TypeOK'
    <2>1. active' \in Views
      BY <1>3, CommandPlaces DEF Enter, TypeOK
    <2>2. /\ spawned' \in 0..MaxCommands /\ spawned' = spawned + 1 /\ busy' \in BOOLEAN
          /\ running' \subseteq CommandRecords
      BY <1>3, SpawnBounded DEF Enter
    <2>3. history' \in 0..spawned' /\ cmdAt' \in -1..(history' - 1)
      BY <1>0, <1>3, <2>2, ConsoleConstantsOK DEF Enter
    <2> QED
      BY <1>3, <2>1, <2>2, <2>3 DEF Enter, TypeOK, CommandRecords
  <1>4. ASSUME NEW c \in Commands, ClickRow(c) PROVE TypeOK'
    <2>1. CASE c.to # NoView
      <3>1. c.to \in Views
        BY <2>1, CommandPlaces
      <3>2. loads' \subseteq LoadRecords
        BY <1>4, <2>1, <3>1, LoadOfPlanet DEF ClickRow, TypeOK, LoadRecords
      <3> QED
        BY <1>4, <2>1, <3>1, <3>2 DEF ClickRow, TypeOK, LoadRecords
    <2>2. CASE c.to = NoView
      <3>1. /\ spawned' \in 0..MaxCommands /\ spawned' = spawned + 1 /\ busy' \in BOOLEAN
            /\ running' \subseteq CommandRecords
        BY <1>4, <2>2, SpawnBounded DEF ClickRow
      <3>2. history \in 0..spawned'
        BY <1>0, <3>1, ConsoleConstantsOK
      <3> QED
        BY <1>4, <2>2, <3>1, <3>2 DEF ClickRow, TypeOK, CommandRecords
    <2> QED
      BY <2>1, <2>2
  <1>5. ASSUME NEW v \in Views, ClickMenu(v) PROVE TypeOK'
    <2>1. loads' \subseteq LoadRecords
      BY <1>5, LoadOfPlanet DEF ClickMenu, TypeOK, LoadRecords
    <2> QED
      BY <1>5, <2>1 DEF ClickMenu, TypeOK, LoadRecords
  <1>6. ASSUME NEW l \in loads, ViewLoaded(l) PROVE TypeOK'
    <2>1. l \in [view: Views \cup {NoView}, planet: 0..PlanetCount, late: BOOLEAN]
      BY DEF TypeOK, Planets
    <2> QED
      BY <1>6, <2>1 DEF ViewLoaded, TypeOK
  <1> QED
    BY <1>1, <1>2, <1>3, <1>4, <1>5, <1>6, BoundedProgress DEF Next

\* However the arrows, clicks, commands and answers alternate, the place in the
\* command history is inside it (app.go:322-347), the writer is the terminal's or
\* that of a command that was run, and rows are asked for planets that exist.
THEOREM TypeCorrect == Spec => []TypeOK
  <1>1. Init => TypeOK
    <2> SUFFICES ASSUME Init PROVE TypeOK
      OBVIOUS
    <2>1. current = 1 /\ current \in Planets /\ active \in Views
      BY ConsoleConstantsOK DEF Init, Planets
    <2>2. Load(active) \in [view: Views, planet: Planets, late: BOOLEAN]
      BY <2>1 DEF Load
    <2>3. shown \in [view: Views \cup {NoView}, planet: 0..PlanetCount, late: BOOLEAN]
      BY ConsoleConstantsOK DEF Init, NoPlanet
    <2>4. out \in 0..MaxCommands /\ spawned \in 0..MaxCommands
      BY ConsoleConstantsOK DEF Init, Stdout
    <2>5. history \in 0..spawned /\ cmdAt \in -1..(history - 1)
      BY DEF Init
    <2> QED
      BY <2>1, <2>2, <2>3, <2>4, <2>5 DEF Init, TypeOK
  <1> QED
    BY <1>1, BoundedNext, PTL DEF Spec
=============================================================================
