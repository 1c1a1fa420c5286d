-------------------------------- MODULE Roles --------------------------------
(***************************************************************************)
(* Workspace roles (internal/auth/workspace.go) and how a token's          *)
(* memberships in one workspace, in the order the token lists them, become *)
(* the role a request acts with and the role the user directory records.   *)
(***************************************************************************)
EXTENDS Naturals, Sequences

Roles == {"viewer", "editor", "owner"}

\* The role "": none, or one core does not know.
NoRole == "none"

AnyRole == Roles \cup {NoRole}

RoleRank(r) ==
  CASE r = "owner" -> 3 [] r = "editor" -> 2 [] r = "viewer" -> 1 [] OTHER -> 0

LesserRole(a, b) ==
  IF RoleRank(a) = 0 \/ RoleRank(b) = 0 THEN NoRole
  ELSE IF RoleRank(a) <= RoleRank(b) THEN a ELSE b

\* auth.RoleFor: the first membership listed for the workspace.
RoleFor(memberships) == IF memberships = << >> THEN NoRole ELSE memberships[1]

\* Mutant: the most privileged role is recorded.
RolesOfGreatest(memberships) ==
  IF memberships = << >> THEN NoRole
  ELSE LET listed == {memberships[i] : i \in 1 .. Len(memberships)}
       IN  CHOOSE r \in listed : \A s \in listed : RoleRank(r) >= RoleRank(s)

\* directory.rolesOf: the least privileged one.
RolesOf(memberships) ==
  IF memberships = << >> THEN NoRole
  ELSE LET listed == {memberships[i] : i \in 1 .. Len(memberships)}
       IN  CHOOSE r \in listed : \A s \in listed : RoleRank(r) <= RoleRank(s)
=============================================================================
