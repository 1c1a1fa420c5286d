------------------------------ MODULE Gateway --------------------------------
(***************************************************************************)
(* Requests on their way through core to a module (internal/gateway, with  *)
(* the auth.Middleware in front of it and the routes of api.NewRouter):    *)
(* the gateway route, the public routes, and the iframe session - a        *)
(* navigation token in a URL, exchanged for the one cookie that every page *)
(* of the browser shares and that names the module requests go to.         *)
(*                                                                         *)
(* One person is modelled, with one browser. Time passes in ticks: a token *)
(* counts down and is gone in the tick after it has reached zero. Charts   *)
(* come and go at any moment (module Registry), and so does the verifier   *)
(* (module Startup): what a request meets is chosen when it is served.     *)
(***************************************************************************)
EXTENDS Roles, PublicRoutes, Integers

CONSTANTS
  Memberships,  \* [workspace, role] pairs the person may hold
  Mods,         \* module ids
  Openings,     \* [mod, as]: the modules the shell opens, and in which workspace
  Pages,        \* iframes open in the browser
  Declared,     \* publicRoutes.pathPrefixes of each module
  Paths,        \* what public requests ask for
  JWTLife,      \* lifetime the OIDC provider gives a token
  NavTTL,       \* navigationTokenTTL
  CookieTTL,
  None

ASSUME GatewayConstants ==
  /\ \A m \in Memberships : m.role \in Roles
  /\ Openings \subseteq [mod : Mods, as : Memberships]
  /\ DOMAIN Declared = Mods
  /\ \A m \in Mods : \A prefix \in Declared[m] :  \* the CRD's pattern, ^/.*/$
       prefix \in Texts /\ prefix # << >> /\ Last(prefix) = Slash
  /\ Paths \subseteq Texts
  /\ {JWTLife, NavTTL, CookieTTL} \subseteq Nat
  /\ None \notin Mods

VARIABLES
  held,       \* memberships the person has at the provider
  age,        \* ticks since each was held, up to Forgotten
  jwt,        \* the shell's token
  pages,      \* each iframe: the URL in its src, and what it shows
  latest,     \* the page that entered last
  cookie,     \* booth_iframe_session
  last        \* the request core has just answered

vars == <<held, age, jwt, pages, latest, cookie, last>>

\* As long ago as any bound looks back, and one tick more.
Forgotten == JWTLife + NavTTL + CookieTTL + 1

Tokens(ttl) == [claims : Openings, left : 0 .. ttl]

Requests ==
  [route : {"iframe", "fallback"}, page : Pages, to : Mods \cup {None}, as : Memberships \cup {None},
   aud : Mods \cup {None}, found : BOOLEAN]
  \cup [route : {"gateway", "admin"}, by : {"person", "run"}, as : Memberships]

TypeOK ==
  /\ held \subseteq Memberships
  /\ age \in [Memberships -> 0 .. Forgotten]
  /\ jwt = None \/ jwt \in [groups : SUBSET Memberships, left : 0 .. JWTLife]
  /\ pages \in [Pages -> [src : Tokens(NavTTL) \cup {None}, shows : Openings \cup {None}]]
  /\ latest \in Pages \cup {None}
  /\ cookie \in Tokens(CookieTTL) \cup {None}
  /\ \/ last = None
     \/ last \in Requests
     \/ last.route = "public" /\ last.to \in Mods

Init ==
  /\ held \in SUBSET Memberships
  /\ age = [m \in Memberships |-> IF m \in held THEN 0 ELSE Forgotten]
  /\ jwt = None
  /\ pages = [p \in Pages |-> [src |-> None, shows |-> None]]
  /\ latest = None
  /\ cookie = None
  /\ last = None

----------------------------------------------------------------------------
(* Around core.                                                            *)

\* An administrator changes the person's groups.
ChangeGroups(m) ==
  /\ held' = IF m \in held THEN held \ {m} ELSE held \cup {m}
  /\ age' = [age EXCEPT ![m] = 0]
  /\ last' = None
  /\ UNCHANGED <<jwt, pages, latest, cookie>>

\* The person signs in, or the shell refreshes its token.
SignIn ==
  /\ jwt' = [groups |-> held, left |-> JWTLife]
  /\ last' = None
  /\ UNCHANGED <<held, age, pages, latest, cookie>>

Older(token) == IF token = None \/ token.left = 0 THEN None ELSE [token EXCEPT !.left = @ - 1]

Tick ==
  /\ age' = [m \in Memberships |-> IF m \in held \/ age[m] = Forgotten THEN age[m] ELSE age[m] + 1]
  /\ jwt' = Older(jwt)
  /\ pages' = [p \in Pages |-> [pages[p] EXCEPT !.src = Older(@)]]
  /\ cookie' = Older(cookie)
  /\ last' = None
  /\ UNCHANGED <<held, latest>>

----------------------------------------------------------------------------
(* auth.Middleware.                                                        *)

\* The memberships a request can show: a run's (module ServiceAccounts) only on
\* routes that trust core's own issuer, a person's from their token. The request
\* names the workspace of one of them; without a verifier, or a workspace, it is
\* refused and nothing happens.
Proven(by, trustsRuns) ==
  CASE by = "run" -> IF trustsRuns THEN Memberships ELSE {}
    [] OTHER -> IF jwt = None THEN {} ELSE jwt.groups

\* The routes behind requireAdmin: modules, service accounts, projects.
Admin(by, as) ==
  /\ as \in Proven(by, FALSE)
  /\ as.role = "owner"
  /\ last' = [route |-> "admin", by |-> by, as |-> as]
  /\ UNCHANGED <<held, age, jwt, pages, latest, cookie>>

\* Gateway.Handler, for a module that is there.
ModuleRequest(by, as) ==
  /\ as \in Proven(by, TRUE)
  /\ last' = [route |-> "gateway", by |-> by, as |-> as]
  /\ UNCHANGED <<held, age, jwt, pages, latest, cookie>>

\* The paths core makes of what is asked for and would forward.
ForwardPaths == {PublicPath(wire) : wire \in Paths} \ {NoPath}

\* Gateway.PublicHandler: no middleware, and no identity attached.
PublicRequest(mod, path) ==
  /\ MatchesPublicRoute(Declared[mod], path)
  /\ last' = [route |-> "public", to |-> mod, path |-> path]
  /\ UNCHANGED <<held, age, jwt, pages, latest, cookie>>

----------------------------------------------------------------------------
(* The iframe session.                                                     *)

\* handleIframeURL and URLFor: the shell points a page at a module. Whether
\* there is such a module is not asked.
IframeURL(p, opening) ==
  /\ opening.as \in Proven("person", FALSE)
  /\ pages' = [pages EXCEPT ![p].src = [claims |-> opening, left |-> NavTTL]]
  /\ last' = None
  /\ UNCHANGED <<held, age, jwt, latest, cookie>>

\* IframeTokenIssuer.Verify: what has expired is gone.
Verifies(token) == token # None

\* IframeTokenIssuer.Issue of the claims in a token that was verified.
Reissue(token) == [token EXCEPT !.left = CookieTTL]

\* Mutant: a browser with a live session keeps it.
EnterOnce(p) ==
  /\ Verifies(pages[p].src)
  /\ cookie' = IF Verifies(cookie) THEN cookie ELSE Reissue(pages[p].src)
  /\ pages' = [pages EXCEPT ![p].shows = pages[p].src.claims]
  /\ latest' = p
  /\ last' = None
  /\ UNCHANGED <<held, age, jwt>>

\* IframeEntryHandler with the token, once or, while it lasts, again: the cookie
\* of whatever page entered before is replaced.
Enter(p) ==
  /\ Verifies(pages[p].src)
  /\ cookie' = Reissue(pages[p].src)
  /\ pages' = [pages EXCEPT ![p].shows = pages[p].src.claims]
  /\ latest' = p
  /\ last' = None
  /\ UNCHANGED <<held, age, jwt>>

Refused(route, p) == [route |-> route, page |-> p, to |-> None, as |-> None, aud |-> None, found |-> TRUE]

\* iframeidentity.Mint: the audience of the assertion, none for an unknown role.
Mint(claims) == IF RoleRank(claims.as.role) = 0 THEN None ELSE claims.mod

\* proxyIframeRequest: the module is found in the registry or not.
Proxied(route, p, claims, found) ==
  IF found THEN [Refused(route, p) EXCEPT !.to = claims.mod, !.as = claims.as, !.aud = Mint(claims)]
  ELSE [Refused(route, p) EXCEPT !.found = FALSE]

\* Mutant: a session in use is extended.
FollowUpExtends(p, found) ==
  /\ pages[p].shows # None
  /\ last' = IF Verifies(cookie) /\ cookie.claims.mod = pages[p].shows.mod
             THEN Proxied("iframe", p, cookie.claims, found) ELSE Refused("iframe", p)
  /\ cookie' = IF Verifies(cookie) THEN Reissue(cookie) ELSE cookie
  /\ UNCHANGED <<held, age, jwt, pages, latest>>

\* IframeEntryHandler without a token: the redirect after Enter, and whatever
\* the page asks for below its own path.
FollowUp(p, found) ==
  /\ pages[p].shows # None
  /\ last' = IF Verifies(cookie) /\ cookie.claims.mod = pages[p].shows.mod
             THEN Proxied("iframe", p, cookie.claims, found) ELSE Refused("iframe", p)
  /\ UNCHANGED <<held, age, jwt, pages, latest, cookie>>

\* IframeFallbackHandler: a root-relative call of the page goes where the cookie
\* says; a top-level navigation (Sec-Fetch-Dest: document) goes nowhere.
Escaped(p, document, found) ==
  /\ pages[p].shows # None
  /\ last' = IF Verifies(cookie) /\ ~document
             THEN Proxied("fallback", p, cookie.claims, found) ELSE Refused("fallback", p)
  /\ UNCHANGED <<held, age, jwt, pages, latest, cookie>>

----------------------------------------------------------------------------

Next ==
  \/ \E m \in Memberships : ChangeGroups(m)
  \/ SignIn
  \/ Tick
  \/ \E as \in Memberships, by \in {"person", "run"} :
       Admin(by, as) \/ ModuleRequest(by, as)
  \/ \E mod \in Mods, path \in ForwardPaths : PublicRequest(mod, path)
  \/ \E p \in Pages :
       \/ \E opening \in Openings : IframeURL(p, opening)
       \/ Enter(p)
       \/ \E found \in BOOLEAN :
            FollowUp(p, found) \/ \E document \in BOOLEAN : Escaped(p, document, found)

Spec == Init /\ [][Next]_vars

----------------------------------------------------------------------------
(* Properties.                                                             *)

\* CookieTTL "bounds how long an embedded module session lasts before the shell
\* needs to re-request an iframe URL (which re-validates the caller's current
\* workspace membership from a fresh JWT)": a membership a person acts with was
\* theirs at most the life of one provider token ago, and through an iframe at
\* most that, a navigation token and a cookie ago, however pages and renewals
\* interleave. Core's own owner routes know no caller but a person.
MembershipIsRecent ==
  /\ last # None /\ last.route \in {"iframe", "fallback"} /\ last.as # None
       => age[last.as] <= JWTLife + NavTTL + CookieTTL
  /\ last # None /\ last.route \in {"gateway", "admin"} /\ last.by = "person" => age[last.as] <= JWTLife
  /\ last # None /\ last.route = "admin" => last.by = "person"

\* "the browser attaches it to exactly these escaped root-relative calls too, so
\* they still reach the right module backend", for the page that entered last: it
\* is served by no module but its own and in the workspace it was opened in, path
\* or no path, and below its path it is served for as long as its session lives
\* and the module is there. An earlier page is
\* refused, or served with the session of the page that entered last: below its
\* own path only where that is a session of its own module, and from the root by
\* that session's module, whichever it is (EscapedReachTheirOwn). What a module
\* is told is asserted to it and to no other.
LatestPageIsServedItsOwn ==
  last # None /\ last.route \in {"iframe", "fallback"} =>
    /\ last.to \in {None, pages[latest].shows.mod}
    /\ last.to # None => last.aud = last.to /\ last.as = pages[latest].shows.as
    /\ last.route = "iframe" => last.to \in {None, pages[last.page].shows.mod}
    /\ last.page = latest /\ last.route = "iframe" /\ cookie # None /\ last.to = None => ~last.found

\* The same sentence for every page that is open, as the comment of
\* IframeFallbackHandler says it. It does not hold, and no run checks it: the one
\* cookie names the module of the page that entered last (README, Findings).
EscapedReachTheirOwn ==
  last # None /\ last.route = "fallback" /\ last.to # None => last.to = pages[last.page].shows.mod

\* PublicHandler: "a declared prefix must bound what's actually requested of the
\* module, not just what the path starts with textually": whatever was encoded
\* how often, the path a module is sent without a login resolves to a place under
\* a prefix it declared.
PublicStaysUnderPrefix ==
  last # None /\ last.route = "public" => Under(Declared[last.to], last.path)
=============================================================================
