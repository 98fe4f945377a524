--------------------------- MODULE HomeworldState ---------------------------
(* The tables of universes and planets with the joins under way, and what    *)
(* the service promises of them (svc/universe.go).  Homeworlds has the steps.*)
EXTENDS Integers, FiniteSets

CONSTANTS
  Handlers,     \* requests the server works on at a time
  MaxAttempts   \* maxAttempts, 60

ASSUME OneAttempt == MaxAttempts \in Nat \ {0}

VARIABLES
  universes,        \* table universes: names, UNIQUE
  planets,          \* table planets: [universe, slot, owner]
  currentUniverse,  \* users.current_universe_id
  joins,            \* the join each handler works on
  terminal          \* per user: the client's start, or the handler it waits for

homeworldVars == <<universes, planets, currentUniverse, joins, terminal>>

NoUniverse == "none"

Owned(u, v) == {p \in planets : p.owner = u /\ p.universe = v}

\* A player has one homeworld in a universe: a second join gets
\* ErrAlreadyInUniverse "rather than a duplicate" (svc/universe.go:102), as "the
\* DB unique constraint is the real guard" (svc/universe.go:113-114).
OneHomeworld ==
  \A u \in DOMAIN currentUniverse, v \in universes : Cardinality(Owned(u, v)) <= 1

\* The current universe of a player is one the player has a planet in, at every
\* crash and failed attempt (the transaction at svc/universe.go:164).
CurrentHasPlanet ==
  \A u \in DOMAIN currentUniverse :
    currentUniverse[u] # NoUniverse => Owned(u, currentUniverse[u]) # {}
=============================================================================
