------------------------------ MODULE RoleState ------------------------------
(* The role of every account with the changes under way, and what the pages  *)
(* of the administration promise of it.  Roles has the steps.                *)
VARIABLES
  admins,   \* users.role = "admin"
  changes,  \* the role change each handler or command is about to write
  excused   \* history: a demotion by the operator, or by somebody demoted meanwhile

roleVars == <<admins, changes, excused>>

\* The pages alone never leave the game without an administrator
\* (web/admin_handlers.go:121): two administrators who demote each other need
\* requests that overlap, one role check being older than the other's write.
AdminsRemain == admins # {} \/ excused
=============================================================================
