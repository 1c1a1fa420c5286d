---------------------------- MODULE PublicRoutes -----------------------------
(***************************************************************************)
(* What Gateway.PublicHandler (internal/gateway/proxy.go) makes of the path *)
(* of an unauthenticated request. A path is a sequence of tokens: a slash, *)
(* a name, a whole run of dots, a backslash or a NUL, each with the number *)
(* of decodings after which it reads as that text: a dot-dot of which only *)
(* one dot is encoded is a dot-dot encoded once. A segment is what stands  *)
(* between two slashes that are literal.                                   *)
(***************************************************************************)
EXTENDS Naturals, Sequences, SequencesExt

Token(text, enc) == [text |-> text, enc |-> enc]

Texts == Seq([text : STRING, enc : Nat])

Slash == Token("/", 0)
Dot == Token(".", 0)
DotDot == Token("..", 0)

\* What may stand nowhere in a public path.
Barred == {Token("backslash", 0), Token("NUL", 0)}

\* The path the handler refuses to have.
NoPath == << >>

\* url.PathUnescape.
Decode(path) == [i \in DOMAIN path |-> [path[i] EXCEPT !.enc = IF @ = 0 THEN 0 ELSE @ - 1]]

\* chi matches on URL.RawPath where net/url has kept it, which it does when
\* encoding the decoded path would not give back what was sent: an escape that
\* was not needed, as that of a backslash or a NUL is. Otherwise the router's
\* wildcard has been decoded once.
Wildcard(wire) ==
  IF \E i \in DOMAIN wire : wire[i].enc = 1 /\ Decode(wire)[i] \notin Barred THEN wire ELSE Decode(wire)

\* What strings.Split(path, "/") cuts out: the i-th token makes a segment alone.
AloneInSegment(path, i) ==
  /\ i = 1 \/ path[i - 1] = Slash
  /\ i = Len(path) \/ path[i + 1] = Slash

PublicPathIsSafe(path) ==
  \A i \in DOMAIN path :
    /\ path[i] \notin Barred
    /\ path[i] \in {Dot, DotDot} => ~AloneInSegment(path, i)

\* path.Clean on a safe path: what is kept of the first i tokens, for each i.
Kept(path) ==
  LET kept[i \in 0 .. Len(path)] ==
        IF i = 0 THEN << >>
        ELSE IF i > 1 /\ path[i] = Slash /\ path[i - 1] = Slash THEN kept[i - 1]
        ELSE Append(kept[i - 1], path[i])
  IN  kept

\* The same with the trailing slash restored.
CleanPublicPath(path) == Kept(path)[Len(path)]

\* Mutant: the path is checked as the router hands it over.
PublicPathCheckedEarly(wire) ==
  IF PublicPathIsSafe(Wildcard(wire)) THEN CleanPublicPath(Decode(Wildcard(wire))) ELSE NoPath

\* The one path that is matched and forwarded, or none.
PublicPath(wire) ==
  LET decoded == Decode(Wildcard(wire))
  IN  IF PublicPathIsSafe(decoded) THEN CleanPublicPath(decoded) ELSE NoPath

MatchesPublicRoute(prefixes, path) == \E prefix \in prefixes : IsPrefix(prefix, path)

----------------------------------------------------------------------------
(* The reference: where a server that resolves "." and "..", and takes     *)
(* several slashes for one, ends up.                                       *)

\* One segment further.
Into(at, segment) ==
  IF segment \in {<< >>, <<Dot>>} THEN at
  ELSE IF segment = <<DotDot>> THEN IF at = << >> THEN at ELSE Front(at)
  ELSE Append(at, segment)

\* Reading a path: where the segments that are closed lead, and the open one.
Read(place, token) ==
  IF token = Slash THEN [at |-> Into(place.at, place.open), open |-> << >>]
  ELSE [at |-> place.at, open |-> Append(place.open, token)]

Walk(path) ==
  LET walk[i \in 0 .. Len(path)] ==
        IF i = 0 THEN [at |-> << >>, open |-> << >>] ELSE Read(walk[i - 1], path[i])
  IN  walk

Resolved(path) == LET end == Walk(path)[Len(path)] IN Into(end.at, end.open)

Under(prefixes, path) == \E prefix \in prefixes : IsPrefix(Resolved(prefix), Resolved(path))
=============================================================================
