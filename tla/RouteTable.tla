----------------------------- MODULE RouteTable -----------------------------
(***************************************************************************)
(* Which page a URL gets, decided twice: by the client's router over its   *)
(* sorted table (src/src/client/routing/match.ts and Router.tsx,           *)
(* compiler/routes.ts), and by the server over the documents that the      *)
(* build bakes for the same table (compiler/prerender.ts, resolveDynamic-  *)
(* Walk of devserver/http/runtime.ts, production.ts).                      *)
(*                                                                         *)
(* A segment of a pattern is a kind and a name; names are numbers in the   *)
(* order in which the files of a directory are compared.  Routes with      *)
(* their own server rendering, parallel slots and interception have no     *)
(* document and are left out.                                              *)
(***************************************************************************)
EXTENDS Naturals, Sequences, FiniteSets

CONSTANTS
  Patterns,   (* sequences of <<kind, name>>, the kind being "static",     *)
              (* "single" ([x]), "rest" ([...x]) or "optional" ([[...x]])  *)
  Paths,      (* sequences of names                                        *)
  MaxRoutes   (* bound: routes of a table                                  *)

ASSUME RouteAssumption == MaxRoutes \in Nat /\ Paths # {}

VARIABLES
  routes,     (* the patterns of the application                           *)
  asked,      (* the path of the last request                              *)
  document,   (* the route whose document the server sent; {}: the shell   *)
  matched     (* the route the client's router takes; {}: not found        *)

routeVars == <<routes, asked, document, matched>>

Kind(p, i) == p[i][1]
Rest == {"rest", "optional"}
Static(p)  == \A i \in 1..Len(p) : Kind(p, i) = "static"
Dynamic(p) == ~Static(p)
Prefix(p, n) == SubSeq(p, 1, n)

(***************************************************************************)
(* The client's router: the first pattern of the table that matches.       *)
(***************************************************************************)
MatchRoute(p, path) ==
  LET n == IF p # <<>> /\ Kind(p, Len(p)) \in Rest THEN Len(p) - 1 ELSE Len(p)
      left == Len(path) - n
  IN /\ left >= 0
     /\ \A i \in 1..n : Kind(p, i) = "single" \/ p[i] = <<"static", path[i]>>
     /\ \/ n = Len(p) /\ left = 0
        \/ n < Len(p) /\ (Kind(p, Len(p)) = "optional" \/ left > 0)

Of(p, kinds) == Cardinality({i \in 1..Len(p) : Kind(p, i) \in kinds})

Specificity(p) == 10 * Len(p) + 5 * Of(p, {"static"}) - 5 * Of(p, Rest)

(* The routes it may take: the sort is stable and directories are listed   *)
(* in any order, so ties may go either way.                                *)
Matching(path) ==
  LET hits == {p \in routes : MatchRoute(p, path)}
      first == {p \in hits : \A q \in hits : Specificity(q) <= Specificity(p)}
  IN IF hits = {} THEN {{}} ELSE {{p} : p \in first}

(***************************************************************************)
(* The server: the baked page of exactly this path, or a walk over the     *)
(* directories of the bracket documents.                                   *)
(***************************************************************************)
Baked == {p \in routes : Dynamic(p)}

Directories ==
  {<<>>} \cup UNION {{Prefix(p, n) : n \in 0..(Len(p) - 1)} : p \in Baked} \cup
  UNION {{Prefix(p, n) : n \in 0..Len(p)} : p \in routes \ Baked}

(* The one of a kind in a directory, of files or of directories: the least *)
(* name.                                                                   *)
Scan(entries, dir, kind) ==
  LET here == {e \in entries : Len(e) = Len(dir) + 1 /\ Prefix(e, Len(dir)) = dir
                               /\ Kind(e, Len(e)) = kind}
  IN {e \in here : \A f \in here : e[Len(e)][2] <= f[Len(f)][2]}

Else(a, b) == IF a # {} THEN a ELSE b

(* Mutant: a directory of the path's own name is never left.               *)
WalkNoReturn(path) ==
  LET walk[d \in Directories, i \in 1..(Len(path) + 1)] ==
        LET into(dirs) == UNION {walk[e, i + 1] : e \in dirs}
            child == Append(d, <<"static", path[i]>>)
        IN IF i > Len(path) THEN Scan(Baked, d, "optional")
           ELSE IF child \in Directories THEN walk[child, i + 1]
           ELSE Else(IF i = Len(path) THEN Scan(Baked, d, "single") ELSE {},
                Else(into(Scan(Directories, d, "single")),
                Else(Scan(Baked, d, "rest"), Scan(Baked, d, "optional"))))
  IN walk[<<>>, 1]

(* The walk under a directory with the segments from i on; it comes back   *)
(* from a directory that has nothing for them.                             *)
ResolveDynamicWalk(path) ==
  LET walk[d \in Directories, i \in 1..(Len(path) + 1)] ==
        LET into(dirs) == UNION {walk[e, i + 1] : e \in dirs}
            child == Append(d, <<"static", path[i]>>)
        IN IF i > Len(path) THEN Scan(Baked, d, "optional")
           ELSE Else(into({child} \cap Directories),
                Else(IF i = Len(path) THEN Scan(Baked, d, "single") ELSE {},
                Else(into(Scan(Directories, d, "single")),
                Else(Scan(Baked, d, "rest"), Scan(Baked, d, "optional")))))
  IN walk[<<>>, 1]

(* The root has an index.html whatever the routes are, the shell if no     *)
(* page is there: nothing is looked for behind it.                         *)
Document(path) ==
  Else({p \in routes \ Baked : MatchRoute(p, path)},
       IF path = <<>> THEN {} ELSE ResolveDynamicWalk(path))

RouteInit ==
  /\ routes \in {t \in SUBSET Patterns : Cardinality(t) <= MaxRoutes}
  /\ asked \in Paths /\ document = Document(asked)
  /\ matched \in Matching(asked)

Visit ==
  /\ asked' \in Paths
  /\ document' = Document(asked')
  /\ matched' \in Matching(asked')
  /\ UNCHANGED routes

RouteNext == Visit

RouteSpec == RouteInit /\ [][RouteNext]_routeVars

(***************************************************************************)
(* What either decision should come to, without scores or directories: the *)
(* kind of segment that takes each name of the path.                       *)
(***************************************************************************)
Rank(kind) == CASE kind = "static" -> 1 [] kind = "single" -> 2 [] kind \in Rest -> 3

Taker(p, i) == Rank(Kind(p, IF i < Len(p) THEN i ELSE Len(p)))

(* p takes each name at least as specifically as q, and one more so; a     *)
(* pattern whose optional end takes nothing is not compared.               *)
MoreSpecific(p, q) ==
  /\ Len(p) <= Len(asked) /\ Len(q) <= Len(asked) /\ p # <<>> /\ q # <<>>
  /\ \A i \in 1..Len(asked) : Taker(p, i) <= Taker(q, i)
  /\ \E i \in 1..Len(asked) : Taker(p, i) < Taker(q, i)

(* The document can be reached: the pattern is static, or ends in brackets *)
(* and no other bracket file or directory of a kind comes before its own,  *)
(* nor, at the root, the shell.                                            *)
Reachable(p) ==
  \/ Static(p)
  \/ /\ asked # <<>> /\ Kind(p, Len(p)) # "static"
     /\ p \in Scan(Baked, Prefix(p, Len(p) - 1), Kind(p, Len(p)))
     /\ \A n \in 1..(Len(p) - 1) : Kind(p, n) = "single" =>
          Prefix(p, n) \in Scan(Directories, Prefix(p, n - 1), "single")

(* What the server sends is a document of a route that matches the URL,    *)
(* and it sends one when there is one that can be reached (never that of   *)
(* an optional catch-all for the root, production.ts 463); and where one   *)
(* route is more specific than every other that matches, at each segment,  *)
(* the server and the client both take it (docs/frontend/routing.md,       *)
(* "toiljs picks the most specific one"; http/runtime.ts, "using the       *)
(* client router's precedence").                                           *)
RoutesAgree ==
  LET hits == {p \in routes : MatchRoute(p, asked)}
      best == {p \in hits : \A q \in hits \ {p} : MoreSpecific(p, q)}
  IN /\ document \subseteq hits
     /\ document = {} => \A p \in hits : ~Reachable(p)
     /\ \A p \in best : matched = {p} /\ (Reachable(p) => document = {p})
=============================================================================
