-------------------------------- MODULE Roles --------------------------------
(***************************************************************************)
(* Who is an administrator (web/admin_handlers.go, svc/admin/admin.go).    *)
(* A page reads the requester's role with the session, when the request    *)
(* comes in, and writes the target's role later; the command line reads a  *)
(* role and writes it.  Neither locks anything.                            *)
(***************************************************************************)
EXTENDS RoleState

CONSTANTS Users, Handlers

\* A change is made by an administrator, or by nobody: the command line.
Free == [by |-> {}, act |-> "none", user |-> "nobody"]

TypeOK ==
  /\ admins \subseteq Users
  /\ \A h \in Handlers : changes[h] = Free \/
       changes[h] \in [by: SUBSET Users, act: {"promote", "demote"}, user: Users]

\* A server somebody has already been promoted on.
Init ==
  /\ admins \in (SUBSET Users) \ {{}}
  /\ changes = [h \in Handlers |-> Free]
  /\ excused = FALSE

IsAdmin(by) == by \in admins

Unchecked(by, act, u) == FALSE
SelfDemotion(by, act, u) == act = "demote" /\ by = u

\* requireAdmin on the session's role, then the self-demotion check.
AdminPost(h, by, act, u) ==
  /\ changes[h] = Free
  /\ IsAdmin(by)
  /\ ~SelfDemotion(by, act, u)
  /\ changes' = [changes EXCEPT ![h] = [by |-> {by}, act |-> act, user |-> u]]
  /\ UNCHANGED <<admins, excused>>

\* setRole of the command line: a no-op when the role is already there.
CommandLine(h, act, u) ==
  /\ changes[h] = Free
  /\ (u \in admins) # (act = "promote")
  /\ changes' = [changes EXCEPT ![h] = [by |-> {}, act |-> act, user |-> u]]
  /\ UNCHANGED <<admins, excused>>

\* SetUserRole.
SetUserRole(h) ==
  LET r == changes[h] IN
  /\ r # Free
  /\ admins' = IF r.act = "promote" THEN admins \cup {r.user} ELSE admins \ {r.user}
  /\ excused' = (excused \/ (r.act = "demote" /\ r.by \cap admins = {}))
  /\ changes' = [changes EXCEPT ![h] = Free]

Next ==
  \E h \in Handlers :
    \/ SetUserRole(h)
    \/ \E act \in {"promote", "demote"}, u \in Users :
         CommandLine(h, act, u) \/ \E by \in Users : AdminPost(h, by, act, u)

Spec == Init /\ [][Next]_roleVars
=============================================================================
