----------------------------- MODULE GatewayProofs ----------------------------
(***************************************************************************)
(* For any memberships, modules, pages and token lifetimes: a membership a *)
(* request acts with was held recently, and pages are served their own     *)
(* module with their own identity. For paths of any length: what a public  *)
(* request is forwarded as stays under a declared prefix.                  *)
(***************************************************************************)
EXTENDS Gateway, WellFoundedInduction, TLAPS

----------------------------------------------------------------------------
(* The inductive invariant.                                                *)

\* What the tokens are. The record of the last request is left to its two parts.
Typed ==
  /\ held \subseteq Memberships
  /\ age \in [Memberships -> 0 .. Forgotten]
  /\ jwt # None => jwt \in [groups : SUBSET Memberships, left : Nat]
  /\ pages \in [Pages -> [src : [claims : Openings, left : Nat] \cup {None}, shows : Openings \cup {None}]]
  /\ cookie # None => cookie \in [claims : Openings, left : Nat]

\* What is held was held now.
HeldIsNew == \A m \in held : age[m] = 0

\* What a token proves was held when the provider made it, or when the token it
\* was made from was.
ShownBy(token, life, m) == age[m] + token.left <= life

JWTRecent == jwt # None => \A m \in jwt.groups : ShownBy(jwt, JWTLife, m)

PagesRecent ==
  \A p \in Pages : pages[p].src # None => ShownBy(pages[p].src, JWTLife + NavTTL, pages[p].src.claims.as)

CookieRecent == cookie # None => ShownBy(cookie, JWTLife + NavTTL + CookieTTL, cookie.claims.as)

\* The cookie is the session of the page that entered last.
CookieIsLatest == cookie # None => latest \in Pages /\ pages[latest].shows = cookie.claims

IInv ==
  /\ Typed
  /\ HeldIsNew
  /\ JWTRecent
  /\ PagesRecent
  /\ CookieRecent
  /\ CookieIsLatest
  /\ MembershipIsRecent
  /\ LatestPageIsServedItsOwn

----------------------------------------------------------------------------
(* Operators.                                                              *)

\* The lifetimes and the furthest age, as numbers.
LEMMA Lifetimes ==
  /\ JWTLife \in Nat /\ NavTTL \in Nat /\ CookieTTL \in Nat
  /\ Forgotten \in Nat /\ Forgotten = JWTLife + NavTTL + CookieTTL + 1
BY GatewayConstants DEF Forgotten

\* An opening names a module and a membership core knows the role of.
LEMMA Opened ==
  ASSUME NEW o \in Openings
  PROVE  o.mod \in Mods /\ o.as \in Memberships /\ Mint(o) = o.mod /\ o.mod # None
<1>1. o.mod \in Mods /\ o.as \in Memberships /\ o.mod # None
  BY GatewayConstants
<1>2. o.as.role \in Roles
  BY <1>1, GatewayConstants
<1>3. RoleRank(o.as.role) # 0
  BY <1>2 DEF RoleRank, Roles
<1> QED BY <1>1, <1>3 DEF Mint

\* A token that is not gone has one tick less to live.
LEMMA OlderToken ==
  ASSUME NEW C, NEW token, token # None => token \in [claims : C, left : Nat], Older(token) # None
  PROVE  /\ token # None
         /\ Older(token) \in [claims : C, left : Nat]
         /\ Older(token).claims = token.claims
         /\ Older(token).left = token.left - 1
<1>1. token # None /\ token.left # 0 /\ Older(token) = [token EXCEPT !.left = @ - 1]
  BY DEF Older
<1>2. token \in [claims : C, left : Nat] /\ token.left - 1 \in Nat
  BY <1>1
<1> QED BY <1>1, <1>2

\* The same for the provider's token.
LEMMA OlderJWT ==
  ASSUME NEW G, NEW token, token # None => token \in [groups : G, left : Nat], Older(token) # None
  PROVE  /\ token # None
         /\ Older(token) \in [groups : G, left : Nat]
         /\ Older(token).groups = token.groups
         /\ Older(token).left = token.left - 1
<1>1. token # None /\ token.left # 0 /\ Older(token) = [token EXCEPT !.left = @ - 1]
  BY DEF Older
<1>2. token \in [groups : G, left : Nat] /\ token.left - 1 \in Nat
  BY <1>1
<1> QED BY <1>1, <1>2

\* A step that answers no request.
LEMMA NothingAnswered ==
  ASSUME last' = None
  PROVE  MembershipIsRecent' /\ LatestPageIsServedItsOwn'
BY DEF MembershipIsRecent, LatestPageIsServedItsOwn

----------------------------------------------------------------------------
(* Steps around core.                                                      *)

\* A group that changes was held now.
LEMMA ChangeKeeps ==
  ASSUME IInv, NEW m \in Memberships, ChangeGroups(m)
  PROVE  IInv'
<1> USE DEF IInv
<1>1. /\ UNCHANGED <<jwt, pages, latest, cookie>> /\ last' = None
      /\ held' \subseteq Memberships
      /\ age' = [age EXCEPT ![m] = 0]
      /\ held' \subseteq held \cup {m}
  BY DEF ChangeGroups, Typed
<1>2. /\ age' \in [Memberships -> 0 .. Forgotten]
      /\ age'[m] = 0
      /\ \A k \in Memberships : age'[k] \in Nat /\ age[k] \in Nat /\ age'[k] <= age[k]
      /\ \A k \in Memberships \ {m} : age'[k] = age[k]
  BY <1>1, Lifetimes DEF Typed
<1>3. Typed'
  BY <1>1, <1>2 DEF Typed
<1>4. HeldIsNew'
  BY <1>1, <1>2 DEF HeldIsNew, Typed
<1>5. JWTRecent'
  <2> SUFFICES ASSUME jwt # None, NEW k \in jwt.groups PROVE age'[k] + jwt.left <= JWTLife
    BY <1>1 DEF JWTRecent, ShownBy
  <2>1. k \in Memberships /\ jwt.left \in Nat
    BY DEF Typed
  <2>2. age[k] + jwt.left <= JWTLife
    BY DEF JWTRecent, ShownBy
  <2> QED BY <1>2, <2>1, <2>2, Lifetimes
<1>6. PagesRecent'
  <2> SUFFICES ASSUME NEW p \in Pages, pages[p].src # None
               PROVE  age'[pages[p].src.claims.as] + pages[p].src.left <= JWTLife + NavTTL
    BY <1>1 DEF PagesRecent, ShownBy
  <2>1. pages[p].src.claims \in Openings /\ pages[p].src.left \in Nat
    BY DEF Typed
  <2>2. age[pages[p].src.claims.as] + pages[p].src.left <= JWTLife + NavTTL
    BY DEF PagesRecent, ShownBy
  <2> QED BY <1>2, <2>1, <2>2, Opened, Lifetimes
<1>7. CookieRecent'
  <2> SUFFICES ASSUME cookie # None
               PROVE  age'[cookie.claims.as] + cookie.left <= JWTLife + NavTTL + CookieTTL
    BY <1>1 DEF CookieRecent, ShownBy
  <2>1. cookie.claims \in Openings /\ cookie.left \in Nat
    BY DEF Typed
  <2>2. age[cookie.claims.as] + cookie.left <= JWTLife + NavTTL + CookieTTL
    BY DEF CookieRecent, ShownBy
  <2> QED BY <1>2, <2>1, <2>2, Opened, Lifetimes
<1>8. CookieIsLatest'
  BY <1>1 DEF CookieIsLatest
<1> QED BY <1>1, <1>3, <1>4, <1>5, <1>6, <1>7, <1>8, NothingAnswered

\* A new token lists what is held now.
LEMMA SignInKeeps ==
  ASSUME IInv, SignIn
  PROVE  IInv'
<1> USE DEF IInv
<1>1. UNCHANGED <<held, age, pages, latest, cookie>> /\ last' = None
      /\ jwt' = [groups |-> held, left |-> JWTLife]
  BY DEF SignIn
<1>2. Typed' /\ HeldIsNew' /\ PagesRecent' /\ CookieRecent' /\ CookieIsLatest'
  BY <1>1, Lifetimes DEF Typed, HeldIsNew, PagesRecent, CookieRecent, CookieIsLatest, ShownBy
<1>3. JWTRecent'
  BY <1>1, Lifetimes DEF HeldIsNew, JWTRecent, ShownBy
<1> QED BY <1>1, <1>2, <1>3, NothingAnswered

\* What is not held is a tick older, and so is every token.
LEMMA TickKeeps ==
  ASSUME IInv, Tick
  PROVE  IInv'
<1> USE DEF IInv
<1>1. UNCHANGED <<held, latest>> /\ last' = None
      /\ jwt' = Older(jwt) /\ cookie' = Older(cookie)
  BY DEF Tick
<1>2. \A m \in Memberships : /\ age'[m] = IF m \in held \/ age[m] = Forgotten THEN age[m] ELSE age[m] + 1
                             /\ age[m] \in 0 .. Forgotten
  BY DEF Tick, Typed
<1>3. age' \in [Memberships -> 0 .. Forgotten]
  <2>1. \A m \in Memberships : age'[m] \in 0 .. Forgotten
    BY <1>2, Lifetimes
  <2> QED BY <2>1 DEF Tick
<1>4. \A m \in Memberships : age[m] \in Nat /\ age'[m] \in Nat /\ age'[m] <= age[m] + 1
  BY <1>2, <1>3, Lifetimes
<1>5. jwt' # None => /\ jwt # None /\ jwt' \in [groups : SUBSET Memberships, left : Nat]
                     /\ jwt'.groups = jwt.groups /\ jwt'.left = jwt.left - 1
  BY <1>1, OlderJWT DEF Typed
<1>6. cookie' # None => /\ cookie # None /\ cookie' \in [claims : Openings, left : Nat]
                        /\ cookie'.claims = cookie.claims /\ cookie'.left = cookie.left - 1
  BY <1>1, OlderToken DEF Typed
<1>7. \A p \in Pages : pages'[p].src = Older(pages[p].src) /\ pages'[p].shows = pages[p].shows
  BY DEF Tick, Typed
<1>8. \A p \in Pages : pages'[p].src # None =>
        /\ pages[p].src # None /\ pages'[p].src \in [claims : Openings, left : Nat]
        /\ pages'[p].src.claims = pages[p].src.claims /\ pages'[p].src.left = pages[p].src.left - 1
  <2> SUFFICES ASSUME NEW p \in Pages, pages'[p].src # None
               PROVE  /\ pages[p].src # None /\ pages'[p].src \in [claims : Openings, left : Nat]
                      /\ pages'[p].src.claims = pages[p].src.claims
                      /\ pages'[p].src.left = pages[p].src.left - 1
    OBVIOUS
  <2>1. PICK token : token = pages[p].src
    OBVIOUS
  <2>2. token # None => token \in [claims : Openings, left : Nat]
    BY <2>1 DEF Typed
  <2>3. pages'[p].src = Older(token) /\ Older(token) # None
    BY <1>7, <2>1
  <2> QED BY <2>1, <2>2, <2>3, OlderToken
<1>9. pages' \in [Pages -> [src : [claims : Openings, left : Nat] \cup {None}, shows : Openings \cup {None}]]
  BY <1>8 DEF Tick, Typed
<1>10. Typed'
  BY <1>1, <1>3, <1>5, <1>6, <1>9 DEF Typed
<1>11. HeldIsNew'
  BY <1>1, <1>2 DEF HeldIsNew, Typed
<1>12. JWTRecent'
  <2> SUFFICES ASSUME jwt' # None, NEW k \in jwt'.groups PROVE age'[k] + jwt'.left <= JWTLife
    BY DEF JWTRecent, ShownBy
  <2>1. k \in Memberships /\ jwt.left \in Nat /\ k \in jwt.groups
    BY <1>5 DEF Typed
  <2>2. age[k] + jwt.left <= JWTLife
    BY <1>5, <2>1 DEF JWTRecent, ShownBy
  <2> QED BY <1>4, <1>5, <2>1, <2>2, Lifetimes
<1>13. PagesRecent'
  <2> SUFFICES ASSUME NEW p \in Pages, pages'[p].src # None
               PROVE  age'[pages'[p].src.claims.as] + pages'[p].src.left <= JWTLife + NavTTL
    BY DEF PagesRecent, ShownBy
  <2>1. pages[p].src.claims \in Openings /\ pages[p].src.left \in Nat /\ pages[p].src # None
    BY <1>8 DEF Typed
  <2>2. age[pages[p].src.claims.as] + pages[p].src.left <= JWTLife + NavTTL
    BY <2>1 DEF PagesRecent, ShownBy
  <2> QED BY <1>4, <1>8, <2>1, <2>2, Opened, Lifetimes
<1>14. CookieRecent'
  <2> SUFFICES ASSUME cookie' # None
               PROVE  age'[cookie'.claims.as] + cookie'.left <= JWTLife + NavTTL + CookieTTL
    BY DEF CookieRecent, ShownBy
  <2>1. cookie.claims \in Openings /\ cookie.left \in Nat /\ cookie # None
    BY <1>6 DEF Typed
  <2>2. age[cookie.claims.as] + cookie.left <= JWTLife + NavTTL + CookieTTL
    BY <2>1 DEF CookieRecent, ShownBy
  <2> QED BY <1>4, <1>6, <2>1, <2>2, Opened, Lifetimes
<1>15. CookieIsLatest'
  BY <1>1, <1>6, <1>7 DEF CookieIsLatest
<1> QED BY <1>1, <1>10, <1>11, <1>12, <1>13, <1>14, <1>15, NothingAnswered

----------------------------------------------------------------------------
(* Requests.                                                               *)

\* What a request can disturb is only what it leaves in last.
LEMMA RequestKeeps ==
  ASSUME IInv, UNCHANGED <<held, age, jwt, pages, latest, cookie>>,
         MembershipIsRecent', LatestPageIsServedItsOwn'
  PROVE  IInv'
BY DEF IInv, Typed, HeldIsNew, JWTRecent, PagesRecent, CookieRecent, CookieIsLatest, ShownBy

\* A provider token that is accepted shows what was held in its lifetime.
LEMMA ShownByJWT ==
  ASSUME IInv, NEW m \in Memberships, jwt # None, m \in jwt.groups
  PROVE  age[m] <= JWTLife
<1>1. age[m] + jwt.left <= JWTLife
  BY DEF IInv, JWTRecent, ShownBy
<1>2. jwt.left \in Nat /\ age[m] \in Nat
  BY Lifetimes DEF IInv, Typed
<1> QED BY <1>1, <1>2, Lifetimes

\* The gateway route, the owner routes and the public routes.
LEMMA RoutedKeeps ==
  ASSUME IInv,
         \/ \E m \in Memberships, by \in {"person", "run"} : Admin(by, m) \/ ModuleRequest(by, m)
         \/ \E d \in Mods, path \in ForwardPaths : PublicRequest(d, path)
  PROVE  IInv'
<1> USE DEF IInv
<1>2. CASE \E m \in Memberships, by \in {"person", "run"} : Admin(by, m) \/ ModuleRequest(by, m)
  <2>1. PICK m \in Memberships, by \in {"person", "run"} : Admin(by, m) \/ ModuleRequest(by, m)
    BY <1>2
  <2>2. UNCHANGED <<held, age, jwt, pages, latest, cookie>>
    BY <2>1 DEF Admin, ModuleRequest
  <2>3. /\ last'.route \in {"gateway", "admin"} /\ last'.by = by /\ last'.as = m
        /\ last'.route = "admin" => by = "person"
        /\ by = "person" => jwt # None /\ m \in jwt.groups
    <3>1. by = "person" => m \in (IF jwt = None THEN {} ELSE jwt.groups)
      BY <2>1 DEF Admin, ModuleRequest, Proven
    <3>2. Admin(by, m) => by = "person"
      BY DEF Admin, Proven
    <3>3. CASE Admin(by, m)
      <4>1. last' = [route |-> "admin", by |-> by, as |-> m]
        BY <3>3 DEF Admin
      <4>2. last'.route = "admin" /\ last'.by = by /\ last'.as = m
        BY <4>1
      <4> QED BY <3>1, <3>2, <3>3, <4>2
    <3>4. CASE ModuleRequest(by, m)
      <4>1. last' = [route |-> "gateway", by |-> by, as |-> m]
        BY <3>4 DEF ModuleRequest
      <4>2. last'.route = "gateway" /\ last'.by = by /\ last'.as = m
        BY <4>1
      <4> QED BY <3>1, <4>2
    <3> QED BY <2>1, <3>3, <3>4
  <2>4. MembershipIsRecent'
    BY <2>2, <2>3, ShownByJWT DEF MembershipIsRecent
  <2>5. LatestPageIsServedItsOwn'
    BY <2>3 DEF LatestPageIsServedItsOwn
  <2> QED BY <2>2, <2>4, <2>5, RequestKeeps
<1>3. CASE \E d \in Mods, path \in ForwardPaths : PublicRequest(d, path)
  <2>1. UNCHANGED <<held, age, jwt, pages, latest, cookie>> /\ last'.route = "public"
    BY <1>3 DEF PublicRequest
  <2>2. MembershipIsRecent' /\ LatestPageIsServedItsOwn'
    BY <2>1 DEF MembershipIsRecent, LatestPageIsServedItsOwn
  <2> QED BY <2>1, <2>2, RequestKeeps
<1> QED BY <1>2, <1>3

\* The requests of a page, below its own path and beside it.
LEMMA PageRequestKeeps ==
  ASSUME IInv, NEW p \in Pages, NEW found \in BOOLEAN, NEW document \in BOOLEAN,
         FollowUp(p, found) \/ Escaped(p, document, found)
  PROVE  IInv'
<1> USE DEF IInv
<1>1. UNCHANGED <<held, age, jwt, pages, latest, cookie>>
  BY DEF FollowUp, Escaped
<1>2. PICK route \in {"iframe", "fallback"} :
        \/ /\ last' = Proxied(route, p, cookie.claims, found) /\ cookie # None
           /\ route = "iframe" => cookie.claims.mod = pages[p].shows.mod
        \/ /\ last' = Refused(route, p)
           /\ route = "iframe" /\ cookie # None => cookie.claims.mod # pages[p].shows.mod
  BY DEF FollowUp, Escaped, Verifies
<1>3. cookie # None => /\ cookie.claims \in Openings /\ latest \in Pages
                       /\ pages[latest].shows = cookie.claims
                       /\ age[cookie.claims.as] <= JWTLife + NavTTL + CookieTTL
  <2> SUFFICES ASSUME cookie # None
               PROVE  /\ cookie.claims \in Openings /\ latest \in Pages
                      /\ pages[latest].shows = cookie.claims
                      /\ age[cookie.claims.as] <= JWTLife + NavTTL + CookieTTL
    OBVIOUS
  <2>1. cookie.claims \in Openings /\ cookie.left \in Nat
    BY DEF Typed
  <2>2. age[cookie.claims.as] \in Nat
    BY <2>1, Opened, Lifetimes DEF Typed
  <2>3. age[cookie.claims.as] + cookie.left <= JWTLife + NavTTL + CookieTTL
    BY DEF CookieRecent, ShownBy
  <2> QED BY <2>1, <2>2, <2>3, Lifetimes DEF CookieIsLatest
<1>4. CASE last' = Refused(route, p) /\ (route = "iframe" /\ cookie # None => cookie.claims.mod # pages[p].shows.mod)
  <2>1. /\ last'.route = route /\ last'.page = p /\ last'.to = None /\ last'.as = None
    BY <1>4 DEF Refused
  <2>2. MembershipIsRecent'
    BY <2>1 DEF MembershipIsRecent
  <2>3. LatestPageIsServedItsOwn'
    BY <1>1, <1>3, <1>4, <2>1 DEF LatestPageIsServedItsOwn
  <2> QED BY <1>1, <2>2, <2>3, RequestKeeps
<1>5. CASE /\ last' = Proxied(route, p, cookie.claims, found) /\ cookie # None
           /\ route = "iframe" => cookie.claims.mod = pages[p].shows.mod
  <2>1. /\ last'.route = route /\ last'.page = p
        /\ found => /\ last'.to = cookie.claims.mod /\ last'.as = cookie.claims.as
                    /\ last'.aud = Mint(cookie.claims)
        /\ ~found => last'.to = None /\ last'.as = None /\ last'.found = FALSE
    BY <1>5 DEF Proxied, Refused
  <2>2. Mint(cookie.claims) = cookie.claims.mod /\ cookie.claims.mod # None
    BY <1>3, <1>5, Opened
  <2>3. MembershipIsRecent'
    BY <1>1, <1>3, <1>5, <2>1 DEF MembershipIsRecent
  <2>4. LatestPageIsServedItsOwn'
    BY <1>1, <1>3, <1>5, <2>1, <2>2 DEF LatestPageIsServedItsOwn
  <2> QED BY <1>1, <2>3, <2>4, RequestKeeps
<1> QED BY <1>2, <1>4, <1>5

----------------------------------------------------------------------------
(* The iframe session.                                                     *)

\* A navigation token is made from a token that shows the membership.
LEMMA IframeURLKeeps ==
  ASSUME IInv, NEW p \in Pages, NEW opening \in Openings, IframeURL(p, opening)
  PROVE  IInv'
<1> USE DEF IInv
<1>1. /\ UNCHANGED <<held, age, jwt, latest, cookie>> /\ last' = None
      /\ jwt # None /\ opening.as \in jwt.groups
      /\ pages' = [pages EXCEPT ![p].src = [claims |-> opening, left |-> NavTTL]]
  BY DEF IframeURL, Proven
<1>2. /\ pages'[p].src = [claims |-> opening, left |-> NavTTL]
      /\ \A q \in Pages : pages'[q].shows = pages[q].shows /\ (q # p => pages'[q].src = pages[q].src)
  BY <1>1 DEF Typed
<1>3. pages' \in [Pages -> [src : [claims : Openings, left : Nat] \cup {None}, shows : Openings \cup {None}]]
  <2>1. [claims |-> opening, left |-> NavTTL] \in [claims : Openings, left : Nat]
    BY Lifetimes
  <2> QED BY <1>1, <2>1 DEF Typed
<1>4. Typed'
  BY <1>1, <1>3 DEF Typed
<1>5. HeldIsNew' /\ JWTRecent' /\ CookieRecent' /\ CookieIsLatest'
  BY <1>1, <1>2 DEF HeldIsNew, JWTRecent, CookieRecent, CookieIsLatest, ShownBy
<1>6. age[opening.as] + NavTTL <= JWTLife + NavTTL
  <2>1. age[opening.as] + jwt.left <= JWTLife
    BY <1>1 DEF JWTRecent, ShownBy
  <2>2. jwt.left \in Nat /\ age[opening.as] \in Nat
    BY <1>1, Opened, Lifetimes DEF Typed
  <2> QED BY <2>1, <2>2, Lifetimes
<1>7. PagesRecent'
  <2> SUFFICES ASSUME NEW q \in Pages, pages'[q].src # None
               PROVE  age[pages'[q].src.claims.as] + pages'[q].src.left <= JWTLife + NavTTL
    BY <1>1 DEF PagesRecent, ShownBy
  <2>1. CASE q = p
    BY <1>2, <1>6, <2>1
  <2>2. CASE q # p
    BY <1>2, <2>2 DEF PagesRecent, ShownBy
  <2> QED BY <2>1, <2>2
<1> QED BY <1>1, <1>4, <1>5, <1>7, NothingAnswered

\* The cookie takes over the claims of the navigation token it was made from.
LEMMA EnterKeeps ==
  ASSUME IInv, NEW p \in Pages, Enter(p)
  PROVE  IInv'
<1> USE DEF IInv
<1>1. /\ UNCHANGED <<held, age, jwt>> /\ last' = None /\ latest' = p
      /\ pages[p].src # None
      /\ cookie' = [pages[p].src EXCEPT !.left = CookieTTL]
      /\ pages' = [pages EXCEPT ![p].shows = pages[p].src.claims]
  BY DEF Enter, Verifies, Reissue
<1>2. pages[p].src \in [claims : Openings, left : Nat]
  BY <1>1 DEF Typed
<1>3. /\ cookie' \in [claims : Openings, left : Nat]
      /\ cookie'.claims = pages[p].src.claims /\ cookie'.left = CookieTTL
  BY <1>1, <1>2, Lifetimes
<1>4. /\ pages' \in [Pages -> [src : [claims : Openings, left : Nat] \cup {None}, shows : Openings \cup {None}]]
      /\ pages'[p].shows = pages[p].src.claims
      /\ \A q \in Pages : pages'[q].src = pages[q].src
  BY <1>1, <1>2 DEF Typed
<1>5. Typed'
  BY <1>1, <1>3, <1>4 DEF Typed
<1>6. HeldIsNew' /\ JWTRecent' /\ PagesRecent'
  BY <1>1, <1>4 DEF HeldIsNew, JWTRecent, PagesRecent, ShownBy
<1>7. CookieRecent'
  <2>1. age[pages[p].src.claims.as] + pages[p].src.left <= JWTLife + NavTTL
    BY <1>1 DEF PagesRecent, ShownBy
  <2>2. age[pages[p].src.claims.as] \in Nat /\ pages[p].src.left \in Nat
    BY <1>2, Opened, Lifetimes DEF Typed
  <2>3. age[pages[p].src.claims.as] + CookieTTL <= JWTLife + NavTTL + CookieTTL
    BY <2>1, <2>2, Lifetimes
  <2> QED BY <1>1, <1>3, <2>3 DEF CookieRecent, ShownBy
<1>8. CookieIsLatest'
  BY <1>1, <1>3, <1>4 DEF CookieIsLatest
<1> QED BY <1>1, <1>5, <1>6, <1>7, <1>8, NothingAnswered

----------------------------------------------------------------------------
(* Induction over the positions of a path. The provers take no operator as *)
(* a parameter, so both principles speak of sets: the positions a claim    *)
(* holds of, and the values a recursive function takes.                    *)

\* A set with m in it, and with every position up to n whose predecessor is in it,
\* has all of them: of those it lacked, the least would have such a predecessor.
LEMMA Positions ==
  ASSUME NEW m \in Nat, NEW n \in Nat, NEW S,
         m \in S, \A i \in (m + 1) .. n : i - 1 \in S => i \in S
  PROVE  \A i \in m .. n : i \in S
<1> DEFINE Missed == {i \in m .. n : i \notin S}
           Less == OpToRel(<, Nat)
<1> SUFFICES ASSUME Missed # {} PROVE FALSE
  OBVIOUS
<1>1. IsWellFoundedOn(Less, Nat)
  BY NatLessThanWellFounded
<1>2. \A i, j \in Nat : <<j, i>> \in Less <=> j < i
  BY DEF OpToRel
<1>3. Missed \subseteq Nat
  OBVIOUS
<1> HIDE DEF Less
<1>4. \E i \in Missed : \A j \in Missed : ~ (<<j, i>> \in Less)
  <2> HIDE DEF Missed
  <2> QED BY <1>1, <1>3, WFMin
<1>5. PICK i \in Missed : \A j \in Missed : ~ (j < i)
  BY <1>2, <1>3, <1>4
<1>6. i \in (m + 1) .. n /\ i \notin S
  OBVIOUS
<1>7. i - 1 \in m .. n /\ i - 1 < i
  BY <1>6
<1>8. i - 1 \in S
  BY <1>5, <1>7
<1> QED BY <1>6, <1>8

\* Each value of g comes out of the one before.
Steps(g, n, start, step) == g[0] = start /\ \A i \in 1 .. n : g[i] = step[<<g[i - 1], i>>]

\* A function given by its first value and by each next one out of the last exists.
LEMMA Recursion ==
  ASSUME NEW n \in Nat, NEW V, NEW start \in V, NEW step \in [V \X (1 .. n) -> V]
  PROVE  \E g \in [0 .. n -> V] : Steps(g, n, start, step)
<1> DEFINE S == {k \in 0 .. n : \E g \in [0 .. k -> V] : Steps(g, k, start, step)}
<1>1. 0 \in S
  <2>1. [i \in 0 .. 0 |-> start] \in [0 .. 0 -> V] /\ Steps([i \in 0 .. 0 |-> start], 0, start, step)
    BY DEF Steps
  <2> QED BY <2>1
<1>2. ASSUME NEW k \in (0 + 1) .. n, k - 1 \in S
      PROVE  k \in S
  <2>1. PICK g \in [0 .. k - 1 -> V] : Steps(g, k - 1, start, step)
    BY <1>2
  <2> DEFINE h == [i \in 0 .. k |-> IF i = k THEN step[<<g[k - 1], k>>] ELSE g[i]]
  <2>2. g[k - 1] \in V /\ k \in 1 .. n
    BY <2>1
  <2>3. step[<<g[k - 1], k>>] \in V
    BY <2>2
  <2>4. h \in [0 .. k -> V]
    BY <2>1, <2>3
  <2>5. h[0] = start
    BY <2>1 DEF Steps
  <2>6. ASSUME NEW i \in 1 .. k
        PROVE  h[i] = step[<<h[i - 1], i>>]
    <3>1. i - 1 \in 0 .. k /\ i - 1 # k /\ h[i - 1] = g[i - 1]
      OBVIOUS
    <3>2. CASE i = k
      BY <3>1, <3>2
    <3>3. CASE i # k
      <4>1. i \in 1 .. k - 1 /\ h[i] = g[i]
        BY <3>3
      <4> QED BY <2>1, <3>1, <4>1 DEF Steps
    <3> QED BY <3>2, <3>3
  <2>7. Steps(h, k, start, step)
    BY <2>5, <2>6 DEF Steps
  <2> HIDE DEF h
  <2> QED BY <2>4, <2>7
<1>3. \A k \in 0 .. n : k \in S
  <2> HIDE DEF S
  <2> QED BY <1>1, <1>2, Positions
<1>4. n \in S
  BY <1>3
<1> QED BY <1>4

----------------------------------------------------------------------------
(* The functions over a path, unfolded.                                    *)

\* A slash is no "..".
LEMMA TwoTokens == Slash # DotDot
BY DEF Slash, DotDot, Token

\* What is kept of a path, token by token.
LEMMA KeptUnfolds ==
  ASSUME NEW path \in Texts
  PROVE  /\ Kept(path) \in [0 .. Len(path) -> Texts]
         /\ Kept(path)[0] = << >>
         /\ \A i \in 1 .. Len(path) :
              Kept(path)[i] = IF i > 1 /\ path[i] = Slash /\ path[i - 1] = Slash THEN Kept(path)[i - 1]
                              ELSE Append(Kept(path)[i - 1], path[i])
<1> DEFINE n == Len(path)
           Keep(s, i) == IF i > 1 /\ path[i] = Slash /\ path[i - 1] = Slash THEN s ELSE Append(s, path[i])
           step == [x \in Texts \X (1 .. n) |-> Keep(x[1], x[2])]
           Def(g) == g = [i \in 0 .. n |-> IF i = 0 THEN << >> ELSE Keep(g[i - 1], i)]
<1>1. n \in Nat /\ << >> \in Texts
  BY DEF Texts
<1>2. \A s \in Texts, i \in 1 .. n : Keep(s, i) \in Texts
  BY DEF Texts
<1>3. step \in [Texts \X (1 .. n) -> Texts]
  <2> HIDE DEF Keep
  <2> QED BY <1>2
<1>4. \A s \in Texts, i \in 1 .. n : step[<<s, i>>] = Keep(s, i)
  <2> HIDE DEF Keep
  <2> QED BY <1>2
<1>5. PICK g \in [0 .. n -> Texts] : Steps(g, n, << >>, step)
  <2> HIDE DEF step, n
  <2> QED BY <1>1, <1>3, Recursion
<1>6. g[0] = << >> /\ \A i \in 1 .. n : g[i] = step[<<g[i - 1], i>>]
  <2> HIDE DEF step
  <2> QED BY <1>5 DEF Steps
<1>7. \A i \in 1 .. n : g[i] = Keep(g[i - 1], i)
  <2> HIDE DEF step, Keep
  <2>1. \A i \in 1 .. n : g[i - 1] \in Texts
    BY <1>1, <1>6
  <2> QED BY <1>4, <1>6, <2>1
<1>8. Def(g)
  <2> HIDE DEF Keep
  <2> QED BY <1>1, <1>6, <1>7
<1>9. Kept(path) = CHOOSE f : Def(f)
  BY DEF Kept
<1>10. PICK f : f = Kept(path)
  OBVIOUS
<1>11. Def(f)
  <2> HIDE DEF Def
  <2> QED BY <1>8, <1>9, <1>10
<1>12. f[0] = << >> /\ \A i \in 1 .. n : f[i] = Keep(f[i - 1], i)
  <2> HIDE DEF Keep
  <2> QED BY <1>1, <1>11
<1>13. \A i \in 0 .. n : f[i] \in Texts
  <2> DEFINE S == {i \in 0 .. n : f[i] \in Texts}
  <2>1. 0 \in S
    BY <1>1, <1>12
  <2>2. \A i \in (0 + 1) .. n : i - 1 \in S => i \in S
    <3> HIDE DEF Keep
    <3> QED BY <1>1, <1>2, <1>12
  <2>3. \A i \in 0 .. n : i \in S
    <3> HIDE DEF S, n
    <3> QED BY <1>1, <2>1, <2>2, Positions
  <2> QED BY <2>3
<1>14. f \in [0 .. n -> Texts]
  <2> HIDE DEF Keep
  <2> QED BY <1>11, <1>13
<1> QED BY <1>10, <1>12, <1>14

\* The empty text, and one token more.
LEMMA Texting ==
  /\ << >> \in Texts
  /\ \A s, path \in Texts : \A i \in 1 .. Len(path) : Append(s, path[i]) \in Texts
<1>1. PICK T : Texts = Seq(T)
  BY DEF Texts
<1> QED BY <1>1

\* What a text with one token more is not.
LEMMA Appended ==
  ASSUME NEW s \in Texts, NEW path \in Texts, NEW i \in 1 .. Len(path)
  PROVE  /\ Append(s, path[i]) # << >>
         /\ \A token : Append(s, path[i]) = <<token>> => s = << >> /\ path[i] = token
<1>1. PICK T : Texts = Seq(T)
  BY DEF Texts
<1>2. PICK e \in T : e = path[i]
  BY <1>1
<1>3. Len(Append(s, e)) = Len(s) + 1 /\ Append(s, e)[Len(s) + 1] = e /\ Len(s) \in Nat
  BY <1>1
<1>4. Append(s, e) # << >>
  BY <1>3
<1>5. ASSUME NEW token, Append(s, e) = <<token>>
      PROVE  s = << >> /\ e = token
  <2>1. Len(<<token>>) = 1 /\ <<token>>[1] = token
    OBVIOUS
  <2>2. Len(s) = 0
    BY <1>3, <1>5, <2>1
  <2>3. s = << >>
    BY <1>1, <2>2
  <2> QED BY <1>3, <1>5, <2>1, <2>2, <2>3
<1> QED BY <1>2, <1>4, <1>5

\* Where a walk can be, and where it starts.
Places == [at : Seq(Texts), open : Texts]

Start == [at |-> << >>, open |-> << >>]

\* A segment leads from a place to a place.
LEMMA IntoTyped ==
  ASSUME NEW at \in Seq(Texts), NEW segment \in Texts
  PROVE  Into(at, segment) \in Seq(Texts)
<1>1. CASE segment \in {<< >>, <<Dot>>}
  BY <1>1 DEF Into
<1>2. CASE segment \notin {<< >>, <<Dot>>} /\ segment = <<DotDot>>
  <2>1. CASE at = << >>
    BY <1>2, <2>1 DEF Into
  <2>2. CASE at # << >>
    <3>1. SubSeq(at, 1, Len(at) - 1) \in Seq(Texts)
      BY <2>2
    <3> QED BY <1>2, <2>2, <3>1 DEF Into, Front
  <2> QED BY <2>1, <2>2
<1>3. CASE segment \notin {<< >>, <<Dot>>} /\ segment # <<DotDot>>
  BY <1>3 DEF Into
<1> QED BY <1>1, <1>2, <1>3

\* So does a token.
LEMMA ReadTyped ==
  ASSUME NEW path \in Texts, NEW i \in 1 .. Len(path), NEW place \in Places
  PROVE  Read(place, path[i]) \in Places
<1>1. place.at \in Seq(Texts) /\ place.open \in Texts
  BY DEF Places
<1>2. << >> \in Texts /\ Append(place.open, path[i]) \in Texts
  BY <1>1, Texting
<1>3. Into(place.at, place.open) \in Seq(Texts)
  BY <1>1, IntoTyped
<1>4. CASE path[i] = Slash
  <2>1. Read(place, path[i]) = [at |-> Into(place.at, place.open), open |-> << >>]
    BY <1>4 DEF Read
  <2> QED BY <1>2, <1>3, <2>1 DEF Places
<1>5. CASE path[i] # Slash
  <2>1. Read(place, path[i]) = [at |-> place.at, open |-> Append(place.open, path[i])]
    BY <1>5 DEF Read
  <2> QED BY <1>1, <1>2, <2>1 DEF Places
<1> QED BY <1>4, <1>5

\* A path is read token by token.
LEMMA WalkUnfolds ==
  ASSUME NEW path \in Texts
  PROVE  /\ Walk(path) \in [0 .. Len(path) -> Places]
         /\ Walk(path)[0] = Start
         /\ \A i \in 1 .. Len(path) : Walk(path)[i] = Read(Walk(path)[i - 1], path[i])
<1> DEFINE n == Len(path)
           step == [x \in Places \X (1 .. n) |-> Read(x[1], path[x[2]])]
           Def(g) == g = [i \in 0 .. n |-> IF i = 0 THEN Start ELSE Read(g[i - 1], path[i])]
<1>1. n \in Nat /\ Start \in Places
  BY DEF Texts, Places, Start
<1>2. \A p \in Places, i \in 1 .. n : Read(p, path[i]) \in Places
  BY ReadTyped
<1>3. step \in [Places \X (1 .. n) -> Places]
  BY <1>2
<1>4. \A p \in Places, i \in 1 .. n : step[<<p, i>>] = Read(p, path[i])
  OBVIOUS
<1>5. PICK g \in [0 .. n -> Places] : Steps(g, n, Start, step)
  <2> HIDE DEF step, n
  <2> QED BY <1>1, <1>3, Recursion
<1>6. g[0] = Start /\ \A i \in 1 .. n : g[i] = step[<<g[i - 1], i>>]
  <2> HIDE DEF step
  <2> QED BY <1>5 DEF Steps
<1>7. \A i \in 1 .. n : g[i] = Read(g[i - 1], path[i])
  <2> HIDE DEF step
  <2>1. \A i \in 1 .. n : g[i - 1] \in Places
    BY <1>1, <1>5
  <2> QED BY <1>4, <1>6, <2>1
<1>8. Def(g)
  BY <1>1, <1>5, <1>6, <1>7
<1>9. Walk(path) = CHOOSE f : Def(f)
  BY DEF Walk, Start
<1>10. PICK f : f = Walk(path)
  OBVIOUS
<1>11. Def(f)
  <2> HIDE DEF Def
  <2> QED BY <1>8, <1>9, <1>10
<1>12. f[0] = Start /\ \A i \in 1 .. n : f[i] = Read(f[i - 1], path[i])
  BY <1>1, <1>11
<1>13. \A i \in 0 .. n : f[i] \in Places
  <2> DEFINE S == {i \in 0 .. n : f[i] \in Places}
  <2>1. 0 \in S
    BY <1>1, <1>12
  <2>2. \A i \in (0 + 1) .. n : i - 1 \in S => i \in S
    BY <1>1, <1>2, <1>12
  <2>3. \A i \in 0 .. n : i \in S
    <3> HIDE DEF S, n
    <3> QED BY <1>1, <2>1, <2>2, Positions
  <2> QED BY <2>3
<1>14. f \in [0 .. n -> Places]
  BY <1>11, <1>13
<1> QED BY <1>10, <1>12, <1>14

----------------------------------------------------------------------------
(* Where a path leads.                                                     *)

\* Prefixes, position by position.
LEMMA Prefixed ==
  ASSUME NEW T, NEW s \in Seq(T), NEW t \in Seq(T)
  PROVE  IsPrefix(s, t) <=> Len(s) <= Len(t) /\ \A i \in 1 .. Len(s) : s[i] = t[i]
<1>1. Len(s) \in Nat /\ Len(t) \in Nat
  OBVIOUS
<1>2. ASSUME Len(s) <= Len(t)
      PROVE  SubSeq(s, 1, Len(s)) = SubSeq(t, 1, Len(s)) <=> \A i \in 1 .. Len(s) : s[i] = t[i]
  <2>1. /\ SubSeq(s, 1, Len(s)) \in Seq(T) /\ Len(SubSeq(s, 1, Len(s))) = Len(s)
        /\ \A i \in 1 .. Len(s) : SubSeq(s, 1, Len(s))[i] = s[i]
    BY <1>1
  <2>2. /\ SubSeq(t, 1, Len(s)) \in Seq(T) /\ Len(SubSeq(t, 1, Len(s))) = Len(s)
        /\ \A i \in 1 .. Len(s) : SubSeq(t, 1, Len(s))[i] = t[i]
    BY <1>1, <1>2
  <2> QED BY <2>1, <2>2
<1> QED BY <1>2 DEF IsPrefix

\* A longer path is read like the shorter one it starts with.
LEMMA WalksAgree ==
  ASSUME NEW p \in Texts, NEW q \in Texts, Len(p) <= Len(q), \A i \in 1 .. Len(p) : p[i] = q[i]
  PROVE  \A i \in 0 .. Len(p) : Walk(p)[i] = Walk(q)[i]
<1> DEFINE S == {i \in 0 .. Len(p) : Walk(p)[i] = Walk(q)[i]}
<1>1. Len(p) \in Nat /\ Len(q) \in Nat
  BY DEF Texts
<1>2. 0 \in S
  BY <1>1, WalkUnfolds
<1>3. ASSUME NEW i \in (0 + 1) .. Len(p), i - 1 \in S
      PROVE  i \in S
  <2>1. i \in 1 .. Len(p) /\ i \in 1 .. Len(q) /\ p[i] = q[i] /\ Walk(p)[i - 1] = Walk(q)[i - 1]
    BY <1>1, <1>3
  <2>2. Walk(p)[i] = Read(Walk(p)[i - 1], p[i])
    BY <2>1, WalkUnfolds
  <2>3. Walk(q)[i] = Read(Walk(q)[i - 1], q[i])
    BY <2>1, WalkUnfolds
  <2> QED BY <2>1, <2>2, <2>3
<1> HIDE DEF S
<1>4. \A i \in 0 .. Len(p) : i \in S
  BY <1>1, <1>2, <1>3, Positions
<1> QED BY <1>4 DEF S

\* One step of the walk: a slash closes the segment, anything else adds to it.
LEMMA OneStep ==
  ASSUME NEW path \in Texts, NEW i \in 1 .. Len(path)
  PROVE  /\ i - 1 \in 0 .. Len(path) /\ i \in 0 .. Len(path)
         /\ Walk(path)[i - 1].at \in Seq(Texts) /\ Walk(path)[i - 1].open \in Texts
         /\ path[i] = Slash => /\ Walk(path)[i].at = Into(Walk(path)[i - 1].at, Walk(path)[i - 1].open)
                               /\ Walk(path)[i].open = << >>
         /\ path[i] # Slash => /\ Walk(path)[i].at = Walk(path)[i - 1].at
                               /\ Walk(path)[i].open = Append(Walk(path)[i - 1].open, path[i])
<1>1. Len(path) \in Nat
  BY DEF Texts
<1>2. i - 1 \in 0 .. Len(path) /\ i \in 0 .. Len(path)
  BY <1>1
<1>3. Walk(path)[i - 1] \in Places
  BY <1>2, WalkUnfolds
<1>4. Walk(path)[i] = Read(Walk(path)[i - 1], path[i])
  BY WalkUnfolds
<1>5. path[i] = Slash => Walk(path)[i] = [at |-> Into(Walk(path)[i - 1].at, Walk(path)[i - 1].open), open |-> << >>]
  BY <1>4 DEF Read
<1>6. path[i] # Slash => Walk(path)[i] = [at |-> Walk(path)[i - 1].at, open |-> Append(Walk(path)[i - 1].open, path[i])]
  BY <1>4 DEF Read
<1>7. Walk(path)[i - 1].at \in Seq(Texts) /\ Walk(path)[i - 1].open \in Texts
  BY <1>3 DEF Places
<1> QED BY <1>2, <1>5, <1>6, <1>7

\* A segment is empty at the start and after a slash only.
LEMMA NothingOpen ==
  ASSUME NEW path \in Texts, NEW i \in 1 .. Len(path), Walk(path)[i].open = << >>
  PROVE  path[i] = Slash
<1> SUFFICES ASSUME path[i] # Slash PROVE FALSE
  OBVIOUS
<1>1. PICK open \in Texts : open = Walk(path)[i - 1].open
  BY OneStep
<1>2. Append(open, path[i]) = << >>
  BY <1>1, OneStep
<1> QED BY <1>2, Appended

\* A segment is "..": the last token is, and it stands behind a slash or first.
LEMMA DotDotOpen ==
  ASSUME NEW path \in Texts, NEW i \in 1 .. Len(path), Walk(path)[i].open = <<DotDot>>
  PROVE  path[i] = DotDot /\ (i = 1 \/ path[i - 1] = Slash)
<1>1. path[i] # Slash
  <2>1. <<DotDot>> # << >>
    OBVIOUS
  <2> QED BY <2>1, OneStep
<1>2. PICK open \in Texts : open = Walk(path)[i - 1].open
  BY OneStep
<1>3. Append(open, path[i]) = <<DotDot>>
  BY <1>1, <1>2, OneStep
<1>4. open = << >> /\ path[i] = DotDot
  BY <1>3, Appended
<1>5. i # 1 => i - 1 \in 1 .. Len(path)
  BY DEF Texts
<1>6. i # 1 => path[i - 1] = Slash
  BY <1>2, <1>4, <1>5, NothingOpen
<1> QED BY <1>4, <1>6

\* Only ".." leads out of a place.
LEMMA IntoStays ==
  ASSUME NEW base \in Seq(Texts), NEW at \in Seq(Texts), NEW segment \in Texts,
         IsPrefix(base, at), segment # <<DotDot>>
  PROVE  IsPrefix(base, Into(at, segment))
<1>1. CASE segment \in {<< >>, <<Dot>>}
  BY <1>1 DEF Into
<1>2. CASE segment \notin {<< >>, <<Dot>>}
  <2>1. Into(at, segment) = Append(at, segment)
    BY <1>2 DEF Into
  <2>2. Append(at, segment) \in Seq(Texts) /\ Len(Append(at, segment)) = Len(at) + 1
    OBVIOUS
  <2>3. Len(base) <= Len(at) /\ \A i \in 1 .. Len(base) : base[i] = at[i]
    BY Prefixed
  <2>4. \A i \in 1 .. Len(base) : base[i] = Append(at, segment)[i]
    BY <2>3
  <2>5. Len(base) <= Len(Append(at, segment))
    BY <2>2, <2>3
  <2> QED BY <2>1, <2>2, <2>4, <2>5, Prefixed
<1> QED BY <1>1, <1>2

\* What the proofs need of PublicPathIsSafe: no ".." makes a segment alone.
NeverUp(path) == \A i \in DOMAIN path : path[i] = DotDot => ~AloneInSegment(path, i)

\* No segment of such a path that is closed, or at its end, is "..".
LEMMA SafeSegments ==
  ASSUME NEW path \in Texts, NeverUp(path), NEW i \in 0 .. Len(path),
         i = Len(path) \/ path[i + 1] = Slash
  PROVE  Walk(path)[i].open # <<DotDot>>
<1> SUFFICES ASSUME Walk(path)[i].open = <<DotDot>> PROVE FALSE
  OBVIOUS
<1>1. i # 0
  <2>1. Walk(path)[0].open = << >>
    BY WalkUnfolds DEF Start
  <2>2. <<DotDot>> # << >>
    OBVIOUS
  <2> QED BY <2>1, <2>2
<1>2. i \in 1 .. Len(path)
  BY <1>1 DEF Texts
<1>3. path[i] = DotDot /\ (i = 1 \/ path[i - 1] = Slash)
  BY <1>2, DotDotOpen
<1>4. AloneInSegment(path, i)
  BY <1>3 DEF AloneInSegment
<1>5. DOMAIN path = 1 .. Len(path)
  BY DEF Texts
<1> QED BY <1>2, <1>3, <1>4, <1>5 DEF NeverUp

\* Such a path never leaves a place it has been in.
LEMMA SafePathStays ==
  ASSUME NEW path \in Texts, NeverUp(path), NEW m \in 0 .. Len(path)
  PROVE  IsPrefix(Walk(path)[m].at, Resolved(path))
<1> DEFINE n == Len(path)
           S == {i \in m .. n : IsPrefix(Walk(path)[m].at, Walk(path)[i].at)}
<1>1. n \in Nat /\ m \in Nat /\ m <= n
  BY DEF Texts
<1>2. \A i \in 0 .. n : Walk(path)[i].at \in Seq(Texts) /\ Walk(path)[i].open \in Texts
  <2>1. \A i \in 0 .. n : Walk(path)[i] \in Places
    BY WalkUnfolds
  <2> QED BY <2>1 DEF Places
<1>3. PICK base \in Seq(Texts) : base = Walk(path)[m].at
  BY <1>2
<1>4. m \in S
  <2>1. IsPrefix(base, base)
    BY Prefixed
  <2> QED BY <1>1, <1>3, <2>1
<1>5. ASSUME NEW i \in (m + 1) .. n, i - 1 \in S
      PROVE  i \in S
  <2>1. i \in 1 .. n /\ i - 1 \in 0 .. n /\ i \in m .. n /\ (i - 1) + 1 = i
    BY <1>1
  <2>2. IsPrefix(base, Walk(path)[i - 1].at)
    BY <1>3, <1>5
  <2>3. CASE path[i] = Slash
    <3>1. Walk(path)[i].at = Into(Walk(path)[i - 1].at, Walk(path)[i - 1].open)
      BY <2>1, <2>3, OneStep
    <3>2. Walk(path)[i - 1].open # <<DotDot>>
      BY <2>1, <2>3, SafeSegments
    <3>3. IsPrefix(base, Into(Walk(path)[i - 1].at, Walk(path)[i - 1].open))
      BY <1>2, <2>1, <2>2, <3>2, IntoStays
    <3> QED BY <1>3, <2>1, <3>1, <3>3
  <2>4. CASE path[i] # Slash
    <3>1. Walk(path)[i].at = Walk(path)[i - 1].at
      BY <2>1, <2>4, OneStep
    <3> QED BY <1>3, <2>1, <2>2, <3>1
  <2> QED BY <2>3, <2>4
<1>6. \A i \in m .. n : i \in S
  <2> HIDE DEF S, n
  <2> QED BY <1>1, <1>4, <1>5, Positions
<1>7. n \in 0 .. n /\ IsPrefix(base, Walk(path)[n].at)
  BY <1>1, <1>3, <1>6
<1>8. Walk(path)[n].open # <<DotDot>>
  BY <1>7, SafeSegments
<1>9. IsPrefix(base, Into(Walk(path)[n].at, Walk(path)[n].open))
  BY <1>2, <1>7, <1>8, IntoStays
<1> QED BY <1>3, <1>9 DEF Resolved

\* One that starts with a prefix that ends in a slash leads to a place
\* under the one the prefix leads to.
LEMMA StaysUnder ==
  ASSUME NEW path \in Texts, NeverUp(path),
         NEW prefix \in Texts, prefix # << >>, Last(prefix) = Slash, IsPrefix(prefix, path)
  PROVE  IsPrefix(Resolved(prefix), Resolved(path))
<1> DEFINE m == Len(prefix)
<1>1. m \in Nat /\ m # 0 /\ Len(path) \in Nat
  BY DEF Texts
<1>2. m <= Len(path) /\ \A i \in 1 .. m : prefix[i] = path[i]
  BY Prefixed DEF Texts
<1>3. m \in 1 .. m /\ m \in 0 .. m /\ m \in 0 .. Len(path) /\ prefix[m] = Slash
  BY <1>1, <1>2 DEF Last
<1>4. Walk(prefix)[m] = Walk(path)[m]
  BY <1>2, <1>3, WalksAgree
<1>5. Walk(prefix)[m].open = << >>
  BY <1>3, OneStep
<1>6. Resolved(prefix) = Walk(path)[m].at
  BY <1>4, <1>5 DEF Resolved, Into
<1> QED BY <1>3, <1>6, SafePathStays

----------------------------------------------------------------------------
(* Cleaning a path.                                                        *)

\* What is kept of the first i tokens ends in the i-th, and has a ".." alone in a
\* segment only where the path has.
KeptSafely(path, kept, i) ==
  /\ kept = << >> <=> i = 0
  /\ i > 0 => kept[Len(kept)] = path[i]
  /\ i > 0 /\ kept[Len(kept)] = DotDot /\ (Len(kept) = 1 \/ kept[Len(kept) - 1] = Slash)
       => i = 1 \/ path[i - 1] = Slash
  /\ \A j \in 1 .. Len(kept) - 1 :
       kept[j] = DotDot /\ (j = 1 \/ kept[j - 1] = Slash) => kept[j + 1] # Slash

\* So it is after each token of a path that never goes up.
LEMMA KeepsSafely ==
  ASSUME NEW path \in Texts, NeverUp(path), NEW i \in 0 .. Len(path)
  PROVE  KeptSafely(path, Kept(path)[i], i)
<1> DEFINE n == Len(path)
           S == {j \in 0 .. n : KeptSafely(path, Kept(path)[j], j)}
<1>1. n \in Nat /\ DOMAIN path = 1 .. n
  BY DEF Texts
<1>2. 0 \in S
  BY <1>1, KeptUnfolds DEF KeptSafely
<1>3. ASSUME NEW k \in (0 + 1) .. n, k - 1 \in S
      PROVE  k \in S
  <2>1. k \in 1 .. n /\ k - 1 \in 0 .. n
    BY <1>1
  <2>2. PICK old \in Texts : old = Kept(path)[k - 1]
    BY <2>1, KeptUnfolds
  <2>3. PICK new : new = Kept(path)[k]
    OBVIOUS
  <2>4. new = IF k > 1 /\ path[k] = Slash /\ path[k - 1] = Slash THEN old ELSE Append(old, path[k])
    BY <2>1, <2>2, <2>3, KeptUnfolds
  <2>5. KeptSafely(path, old, k - 1)
    BY <1>3, <2>2
  <2>6. CASE k > 1 /\ path[k] = Slash /\ path[k - 1] = Slash
    <3>1. new = old
      BY <2>4, <2>6
    <3>2. old # << >> /\ old[Len(old)] = Slash /\ path[k] # DotDot
      BY <2>1, <2>5, <2>6, TwoTokens DEF KeptSafely
    <3>3. KeptSafely(path, old, k)
      BY <2>1, <2>5, <2>6, <3>2, TwoTokens DEF KeptSafely
    <3>4. KeptSafely(path, Kept(path)[k], k)
      BY <2>3, <3>1, <3>3
    <3> QED BY <2>1, <3>4
  <2>7. CASE ~(k > 1 /\ path[k] = Slash /\ path[k - 1] = Slash)
    <3> DEFINE m == Len(old)
    <3>1. new = Append(old, path[k])
      BY <2>4, <2>7
    <3>2. /\ m \in Nat /\ new # << >> /\ Len(new) = m + 1 /\ new[m + 1] = path[k]
          /\ \A j \in 1 .. m : new[j] = old[j]
      <4>1. PICK T : Texts = Seq(T)
        BY DEF Texts
      <4>2. PICK e \in T : e = path[k]
        BY <2>1, <4>1
      <4>3. new = Append(old, e)
        BY <3>1, <4>2
      <4> QED BY <2>1, <4>1, <4>2, <4>3, <3>1, Appended
    <3>3. m = 0 <=> k = 1
      <4>1. m = 0 <=> old = << >>
        BY DEF Texts
      <4> QED BY <2>1, <2>5, <4>1 DEF KeptSafely
    <3>4. k # 1 => old[m] = path[k - 1]
      BY <2>1, <2>5 DEF KeptSafely
    <3>5. ASSUME new[m + 1] = DotDot, m + 1 = 1 \/ new[m] = Slash
          PROVE  k = 1 \/ path[k - 1] = Slash
      <4>1. CASE m = 0
        BY <3>3, <4>1
      <4>2. CASE m # 0
        <5>1. m \in 1 .. m /\ new[m] = Slash
          BY <3>2, <3>5, <4>2
        <5> QED BY <3>2, <3>3, <3>4, <4>2, <5>1
      <4> QED BY <4>1, <4>2
    <3>6. ASSUME NEW j \in 1 .. m, new[j] = DotDot, j = 1 \/ new[j - 1] = Slash, new[j + 1] = Slash
          PROVE  FALSE
      <4>1. old[j] = DotDot /\ (j = 1 \/ old[j - 1] = Slash)
        BY <3>2, <3>6
      <4>2. CASE j # m
        <5>1. j \in 1 .. m - 1 /\ j + 1 \in 1 .. m
          BY <3>2, <4>2
        <5>2. old[j + 1] = Slash
          BY <3>2, <3>6, <5>1
        <5> QED BY <2>5, <4>1, <5>1, <5>2 DEF KeptSafely
      <4>3. CASE j = m
        <5>1. m # 0 /\ k # 1 /\ k - 1 > 0 /\ k - 1 \in 1 .. n
          BY <2>1, <3>2, <3>3, <4>3
        <5>2. path[k - 1] = DotDot
          BY <3>4, <4>1, <4>3, <5>1
        <5>3. k - 1 = 1 \/ path[(k - 1) - 1] = Slash
          BY <2>5, <4>1, <4>3, <5>1 DEF KeptSafely
        <5>4. path[(k - 1) + 1] = Slash
          BY <2>1, <3>2, <3>6, <4>3
        <5>5. AloneInSegment(path, k - 1)
          BY <5>3, <5>4 DEF AloneInSegment
        <5> QED BY <1>1, <5>1, <5>2, <5>5 DEF NeverUp
      <4> QED BY <4>2, <4>3
    <3>7. KeptSafely(path, new, k)
      <4>1. Len(new) - 1 = m /\ k > 0
        BY <2>1, <3>2
      <4>2. new[Len(new)] = path[k]
        BY <3>2
      <4>3. new[Len(new)] = DotDot /\ (Len(new) = 1 \/ new[Len(new) - 1] = Slash) => k = 1 \/ path[k - 1] = Slash
        BY <3>2, <3>5, <4>1
      <4>4. \A j \in 1 .. Len(new) - 1 : new[j] = DotDot /\ (j = 1 \/ new[j - 1] = Slash) => new[j + 1] # Slash
        BY <3>6, <4>1
      <4> HIDE DEF m
      <4> QED BY <3>2, <4>1, <4>2, <4>3, <4>4 DEF KeptSafely
    <3> QED BY <2>1, <2>3, <3>7
  <2> QED BY <2>6, <2>7
<1>4. \A j \in 0 .. n : j \in S
  <2> HIDE DEF S, n
  <2> QED BY <1>1, <1>2, <1>3, Positions
<1> QED BY <1>4

\* Cleaning does not make such a path go up: joining what stood apart brings no
\* ".." between two slashes.
LEMMA CleanIsSafe ==
  ASSUME NEW path \in Texts, NeverUp(path)
  PROVE  CleanPublicPath(path) \in Texts /\ NeverUp(CleanPublicPath(path))
<1> DEFINE n == Len(path)
<1>1. n \in Nat /\ n \in 0 .. n /\ DOMAIN path = 1 .. n
  BY DEF Texts
<1>2. PICK clean \in Texts : clean = CleanPublicPath(path)
  BY <1>1, KeptUnfolds DEF CleanPublicPath
<1>3. KeptSafely(path, clean, n)
  BY <1>1, <1>2, KeepsSafely DEF CleanPublicPath
<1>4. Len(clean) \in Nat /\ DOMAIN clean = 1 .. Len(clean) /\ (Len(clean) = 0 <=> clean = << >>)
  BY DEF Texts
<1>5. ASSUME NEW i \in DOMAIN clean, clean[i] = DotDot, AloneInSegment(clean, i)
      PROVE  FALSE
  <2>1. i \in 1 .. Len(clean) /\ (i = 1 \/ clean[i - 1] = Slash)
    BY <1>4, <1>5 DEF AloneInSegment
  <2>2. CASE i # Len(clean)
    <3>1. clean[i + 1] = Slash /\ i \in 1 .. Len(clean) - 1
      BY <1>4, <1>5, <2>1, <2>2 DEF AloneInSegment
    <3> QED BY <1>3, <1>5, <2>1, <3>1 DEF KeptSafely
  <2>3. CASE i = Len(clean)
    <3>1. n # 0 /\ n > 0 /\ n \in 1 .. n
      BY <1>1, <1>3, <1>4, <2>1 DEF KeptSafely
    <3>2. path[n] = DotDot /\ (n = 1 \/ path[n - 1] = Slash)
      BY <1>3, <1>5, <2>1, <2>3, <3>1 DEF KeptSafely
    <3>3. AloneInSegment(path, n)
      BY <3>2 DEF AloneInSegment
    <3> QED BY <1>1, <3>1, <3>2, <3>3 DEF NeverUp
  <2> QED BY <2>2, <2>3
<1> QED BY <1>2, <1>5 DEF NeverUp

\* Cleaning changes the words, not the place: the path a module is sent leads where
\* the path that was asked for leads.
THEOREM CleanLeadsThere ==
  ASSUME NEW path \in Texts
  PROVE  Resolved(CleanPublicPath(path)) = Resolved(path)
<1> DEFINE n == Len(path)
           S == {j \in 0 .. n : Walk(Kept(path)[j])[Len(Kept(path)[j])] = Walk(path)[j]}
<1>1. n \in Nat /\ n \in 0 .. n
  BY DEF Texts
<1>2. 0 \in S
  <2>1. Kept(path)[0] = << >> /\ Len(<< >>) = 0 /\ << >> \in Texts
    BY KeptUnfolds, Texting
  <2>2. Walk(<< >>)[0] = Start /\ Walk(path)[0] = Start
    BY <2>1, WalkUnfolds
  <2> QED BY <1>1, <2>1, <2>2
<1>3. ASSUME NEW k \in (0 + 1) .. n, k - 1 \in S
      PROVE  k \in S
  <2>1. k \in 1 .. n /\ k - 1 \in 0 .. n
    BY <1>1
  <2>2. PICK old \in Texts : old = Kept(path)[k - 1]
    BY <2>1, KeptUnfolds
  <2>3. PICK new : new = Kept(path)[k]
    OBVIOUS
  <2>4. new = IF k > 1 /\ path[k] = Slash /\ path[k - 1] = Slash THEN old ELSE Append(old, path[k])
    BY <2>1, <2>2, <2>3, KeptUnfolds
  <2>5. Walk(old)[Len(old)] = Walk(path)[k - 1]
    BY <1>3, <2>2
  <2>6. CASE k > 1 /\ path[k] = Slash /\ path[k - 1] = Slash
    <3>1. new = old
      BY <2>4, <2>6
    <3>2. k - 1 \in 1 .. n
      BY <2>1, <2>6
    <3>3. Walk(path)[k - 1].open = << >>
      BY <2>6, <3>2, OneStep
    <3>4. PICK place \in Places : place = Walk(path)[k - 1]
      BY <2>1, WalkUnfolds
    <3>5. Walk(path)[k] = [at |-> place.at, open |-> << >>]
      <4>1. Walk(path)[k] = Read(place, Slash)
        BY <2>1, <2>6, <3>4, WalkUnfolds
      <4> QED BY <3>3, <3>4, <4>1 DEF Read, Into
    <3>6. place = [at |-> place.at, open |-> << >>]
      BY <3>3, <3>4 DEF Places
    <3>7. Walk(path)[k] = Walk(old)[Len(old)]
      BY <2>5, <3>4, <3>5, <3>6
    <3>8. old = Kept(path)[k]
      BY <2>3, <3>1
    <3> QED BY <2>1, <3>7, <3>8
  <2>7. CASE ~(k > 1 /\ path[k] = Slash /\ path[k - 1] = Slash)
    <3> DEFINE m == Len(old)
    <3>1. new = Append(old, path[k]) /\ new \in Texts
      BY <2>1, <2>4, <2>7, Texting
    <3>2. /\ m \in Nat /\ Len(new) = m + 1 /\ new[m + 1] = path[k]
          /\ \A j \in 1 .. m : old[j] = new[j]
      <4>1. PICK T : Texts = Seq(T)
        BY DEF Texts
      <4>2. PICK e \in T : e = path[k]
        BY <2>1, <4>1
      <4>3. new = Append(old, e)
        BY <3>1, <4>2
      <4> QED BY <4>1, <4>2, <4>3
    <3>3. Walk(old)[m] = Walk(new)[m]
      <4>1. m <= Len(new) /\ m \in 0 .. m
        BY <3>2
      <4> QED BY <3>1, <3>2, <4>1, WalksAgree
    <3>4. m + 1 \in 1 .. Len(new) /\ (m + 1) - 1 = m
      BY <3>2
    <3>5. Walk(new)[m + 1] = Read(Walk(new)[m], path[k])
      BY <3>1, <3>2, <3>4, WalkUnfolds
    <3>6. Walk(path)[k] = Read(Walk(path)[k - 1], path[k])
      BY <2>1, WalkUnfolds
    <3>7. Walk(new)[Len(new)] = Walk(path)[k]
      BY <2>5, <3>2, <3>3, <3>5, <3>6
    <3> QED BY <2>1, <2>3, <3>7
  <2> QED BY <2>6, <2>7
<1>4. \A j \in 0 .. n : j \in S
  <2> HIDE DEF S, n
  <2> QED BY <1>1, <1>2, <1>3, Positions
<1>5. Walk(CleanPublicPath(path))[Len(CleanPublicPath(path))] = Walk(path)[n]
  BY <1>1, <1>4 DEF CleanPublicPath
<1> QED BY <1>5 DEF Resolved

----------------------------------------------------------------------------
(* Public requests.                                                        *)

\* url.PathUnescape, and what the router does with a path, give paths.
LEMMA Decoded ==
  ASSUME NEW wire \in Texts
  PROVE  Decode(wire) \in Texts /\ Wildcard(wire) \in Texts
<1>1. ASSUME NEW token \in [text : STRING, enc : Nat]
      PROVE  [token EXCEPT !.enc = IF @ = 0 THEN 0 ELSE @ - 1] \in [text : STRING, enc : Nat]
  <2>1. (IF token.enc = 0 THEN 0 ELSE token.enc - 1) \in Nat
    OBVIOUS
  <2> QED BY <2>1
<1>2. PICK T : T = [text : STRING, enc : Nat]
  OBVIOUS
<1>3. Texts = Seq(T)
  BY <1>2 DEF Texts
<1>4. Len(wire) \in Nat /\ DOMAIN wire = 1 .. Len(wire) /\ \A i \in 1 .. Len(wire) : wire[i] \in T
  BY <1>3
<1>5. \A i \in DOMAIN wire : [wire[i] EXCEPT !.enc = IF @ = 0 THEN 0 ELSE @ - 1] \in T
  BY <1>1, <1>2, <1>4
<1>6. Decode(wire) \in [1 .. Len(wire) -> T]
  BY <1>4, <1>5 DEF Decode
<1>7. Decode(wire) \in Texts
  BY <1>3, <1>4, <1>6
<1> QED BY <1>7 DEF Wildcard

\* What is forwarded has been checked after the last decoding, and still goes up
\* nowhere once it has been cleaned.
LEMMA ForwardedIsSafe ==
  ASSUME NEW path \in ForwardPaths
  PROVE  path \in Texts /\ NeverUp(path)
<1>1. PICK wire \in Paths : path = PublicPath(wire) /\ path # NoPath
  BY DEF ForwardPaths
<1>2. PICK decoded \in Texts : decoded = Decode(Wildcard(wire))
  BY GatewayConstants, Decoded
<1>3. PublicPathIsSafe(decoded) /\ path = CleanPublicPath(decoded)
  BY <1>1, <1>2 DEF PublicPath
<1>4. NeverUp(decoded)
  BY <1>3 DEF PublicPathIsSafe, NeverUp
<1> QED BY <1>3, <1>4, CleanIsSafe

\* Core decides about the request that is made: the path it matches and forwards
\* leads where the path that was asked for leads, decoded and not yet cleaned.
THEOREM ForwardedIsMeant ==
  ASSUME NEW wire \in Paths, PublicPath(wire) # NoPath
  PROVE  Resolved(PublicPath(wire)) = Resolved(Decode(Wildcard(wire)))
<1>1. PICK decoded \in Texts : decoded = Decode(Wildcard(wire))
  BY GatewayConstants, Decoded
<1>2. PublicPath(wire) = CleanPublicPath(decoded)
  BY <1>1 DEF PublicPath
<1> QED BY <1>1, <1>2, CleanLeadsThere

\* A path that matches a declared prefix leads to a place under it.
LEMMA MatchedIsUnder ==
  ASSUME NEW mod \in Mods, NEW path \in ForwardPaths, MatchesPublicRoute(Declared[mod], path)
  PROVE  Under(Declared[mod], path)
<1>1. PICK prefix \in Declared[mod] : IsPrefix(prefix, path)
  BY DEF MatchesPublicRoute
<1>2. prefix \in Texts /\ prefix # << >> /\ Last(prefix) = Slash
  BY GatewayConstants
<1>3. IsPrefix(Resolved(prefix), Resolved(path))
  BY <1>1, <1>2, ForwardedIsSafe, StaysUnder
<1> QED BY <1>3 DEF Under

----------------------------------------------------------------------------
(* The theorems.                                                           *)

\* Nobody has signed in.
LEMMA InitInv == Init => IInv
<1> SUFFICES ASSUME Init PROVE IInv
  OBVIOUS
<1>1. Typed
  BY Lifetimes DEF Init, Typed
<1>2. HeldIsNew /\ JWTRecent /\ PagesRecent /\ CookieRecent /\ CookieIsLatest
  BY DEF Init, HeldIsNew, JWTRecent, PagesRecent, CookieRecent, CookieIsLatest
<1>3. MembershipIsRecent /\ LatestPageIsServedItsOwn
  BY DEF Init, MembershipIsRecent, LatestPageIsServedItsOwn
<1> QED BY <1>1, <1>2, <1>3 DEF IInv

\* Every step of the person, the browser, the provider and core keeps it.
LEMMA NextInv == IInv /\ [Next]_vars => IInv'
<1> SUFFICES ASSUME IInv, [Next]_vars PROVE IInv'
  OBVIOUS
<1>1. CASE \E m \in Memberships : ChangeGroups(m)
  BY <1>1, ChangeKeeps
<1>2. CASE SignIn
  BY <1>2, SignInKeeps
<1>3. CASE Tick
  BY <1>3, TickKeeps
<1>4. CASE \/ \E m \in Memberships, by \in {"person", "run"} : Admin(by, m) \/ ModuleRequest(by, m)
           \/ \E d \in Mods, path \in ForwardPaths : PublicRequest(d, path)
  BY <1>4, RoutedKeeps
<1>5. CASE \E p \in Pages : \E opening \in Openings : IframeURL(p, opening)
  BY <1>5, IframeURLKeeps
<1>6. CASE \E p \in Pages : Enter(p)
  BY <1>6, EnterKeeps
<1>7. CASE \E p \in Pages : \E found \in BOOLEAN :
             FollowUp(p, found) \/ \E document \in BOOLEAN : Escaped(p, document, found)
  BY <1>7, PageRequestKeeps
<1>8. CASE UNCHANGED vars
  BY <1>8, RequestKeeps DEF vars, IInv, MembershipIsRecent, LatestPageIsServedItsOwn
<1> QED BY <1>1, <1>2, <1>3, <1>4, <1>5, <1>6, <1>7, <1>8 DEF Next

\* The invariant holds throughout, however pages, tokens, group changes and
\* requests interleave.
THEOREM Invariance == Spec => []IInv
BY InitInv, NextInv, PTL DEF Spec

\* A membership a person's request acts with was theirs at most one provider
\* token ago, and through an iframe at most that, a navigation token and a cookie
\* ago: re-entering with the same URL never stretches it. A run is never let into
\* core's owner routes.
THEOREM MembershipsAreRecent == Spec => []MembershipIsRecent
<1>1. IInv => MembershipIsRecent
  BY DEF IInv
<1> QED BY <1>1, Invariance, PTL

\* Whatever cookies replace one another, the page that entered last is served by
\* its own module in its own workspace, or refused; an earlier page's request is
\* refused or goes with the session of the page that entered last, below its own
\* path to its own module, from the root to that session's module; and no module
\* is told another one's audience or another workspace's membership.
THEOREM LatestPageGetsItsOwn == Spec => []LatestPageIsServedItsOwn
<1>1. IInv => LatestPageIsServedItsOwn
  BY DEF IInv
<1> QED BY <1>1, Invariance, PTL

\* Whatever is asked for without a login, encoded however often, with doubled
\* slashes, dots or dot-dots anywhere, of any length: a module is sent it only if it
\* leads to a place under a prefix the module declared.
THEOREM PublicPathsStay == Spec => []PublicStaysUnderPrefix
<1>1. Init => PublicStaysUnderPrefix
  BY DEF Init, PublicStaysUnderPrefix
<1>2. PublicStaysUnderPrefix /\ [Next]_vars => PublicStaysUnderPrefix'
  <2> SUFFICES ASSUME PublicStaysUnderPrefix, [Next]_vars PROVE PublicStaysUnderPrefix'
    OBVIOUS
  <2>1. ASSUME NEW mod \in Mods, NEW path \in ForwardPaths, PublicRequest(mod, path)
        PROVE  PublicStaysUnderPrefix'
    <3>1. last' = [route |-> "public", to |-> mod, path |-> path] /\ Under(Declared[mod], path)
      BY <2>1, MatchedIsUnder DEF PublicRequest
    <3>2. last'.to = mod /\ last'.path = path
      BY <3>1
    <3> QED BY <3>1, <3>2 DEF PublicStaysUnderPrefix
  <2>2. CASE \/ \E m \in Memberships : ChangeGroups(m)
             \/ SignIn
             \/ Tick
             \/ \E p \in Pages : Enter(p) \/ \E opening \in Openings : IframeURL(p, opening)
    <3>1. last' = None
      BY <2>2 DEF ChangeGroups, SignIn, Tick, Enter, IframeURL
    <3> QED BY <3>1 DEF PublicStaysUnderPrefix
  <2>3. CASE \E as \in Memberships, by \in {"person", "run"} : Admin(by, as) \/ ModuleRequest(by, as)
    <3>1. PICK as \in Memberships, by \in {"person", "run"}, route \in {"admin", "gateway"} :
            last' = [route |-> route, by |-> by, as |-> as]
      BY <2>3 DEF Admin, ModuleRequest
    <3>2. last'.route = route
      BY <3>1
    <3>3. last'.route # "public"
      BY <3>2
    <3> QED BY <3>3 DEF PublicStaysUnderPrefix
  <2>4. CASE \E p \in Pages : \E found \in BOOLEAN :
               FollowUp(p, found) \/ \E document \in BOOLEAN : Escaped(p, document, found)
    <3>1. PICK p \in Pages, found \in BOOLEAN, route \in {"iframe", "fallback"} :
            last' = Refused(route, p) \/ last' = Proxied(route, p, cookie.claims, found)
      BY <2>4 DEF FollowUp, Escaped
    <3>2. Refused(route, p).route = route
      BY DEF Refused
    <3>3. Proxied(route, p, cookie.claims, found).route = route
      BY DEF Proxied, Refused
    <3>4. last'.route # "public"
      BY <3>1, <3>2, <3>3
    <3> QED BY <3>4 DEF PublicStaysUnderPrefix
  <2>5. CASE UNCHANGED vars
    BY <2>5 DEF vars, PublicStaysUnderPrefix
  <2> QED BY <2>1, <2>2, <2>3, <2>4, <2>5 DEF Next
<1> QED BY <1>1, <1>2, PTL DEF Spec
=============================================================================
