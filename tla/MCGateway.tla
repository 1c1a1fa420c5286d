----------------------------- MODULE MCGateway -------------------------------
(* Two pages, two modules, memberships in two workspaces.                  *)
EXTENDS Gateway

CONSTANTS A, B, w1, w2

MCMemberships == {[workspace |-> w1, role |-> "owner"], [workspace |-> w2, role |-> "viewer"]}

\* One module in two workspaces, another in one.
MCOpenings ==
  {o \in [mod : {A, B}, as : MCMemberships] : o.mod = A \/ o.as.role = "owner"}

Prefix(name) == <<Slash, Token(name, 0), Slash>>

MCDeclared == [m \in {A, B} |-> IF m = A THEN {Prefix("v1"), Prefix("v2")} ELSE {}]

\* "/v1/" or "/x/", then dots, a name, a slash or a backslash that is encoded up
\* to twice, a slash that is encoded up to twice or doubled, and a last name.
MCPaths ==
  {Prefix(first) \o <<Token(second, i), Token("/", j), Token("x", 0)>> :
     first \in {"v1", "x"}, second \in {".", "..", "x", "/", "backslash"}, i \in 0 .. 2, j \in 0 .. 2}
  \cup {Prefix("v1"), Prefix("x") \o <<DotDot, Slash, Token("v1", 0), Slash>>,
        Prefix("v1") \o <<Token("NUL", 1)>>}
=============================================================================
