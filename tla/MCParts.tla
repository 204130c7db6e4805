------------------------------ MODULE MCParts ------------------------------
(***************************************************************************)
(* Small instances for TLC of the parts that share no state with another:  *)
(* PageData, Channel, Streams, RouteTable, BlobDisk, Limits, DaemonTimers  *)
(* and CompilerBuild.  One behaviour explores one of them and the others   *)
(* keep their first state: `part' says which.                              *)
(***************************************************************************)
EXTENDS PageData, Channel, Streams, RouteTable, BlobDisk, Limits,
        MCDaemonTimers, CompilerBuild, TLC

CONSTANTS c1, c2, c3, c4, c5, dev, shell, other

VARIABLE part

(* A page fetched at each navigation and one fetched after some seconds.   *)
SmallPolicy == ("home" :> "each") @@ ("list" :> "timed")

(* Three builds of dev and one of each of two shells; a source that both   *)
(* tiers read; a document that one release of the client has.              *)
SmallHome  == (c1 :> dev) @@ (c2 :> dev) @@ (c3 :> dev) @@ (c4 :> shell) @@ (c5 :> other)
SmallTiers == <<"cold", "request">>
SmallReads == ("cold" :> {"shared.ts"}) @@ ("request" :> {"shared.ts", "main.ts"})
SmallDocuments == ("r1" :> {"index.html", "about.html"}) @@ ("r2" :> {"index.html"})
SmallAssets    == ("r1" :> {"a1.js"}) @@ ("r2" :> {"a2.js"})

(* Pairs of a limit and a window in seconds, or of a burst and a refill.   *)
SmallRules == {<<1, 2>>, <<2, 1>>, <<2, 2>>, <<3, 2>>}

(* Pages, brackets, catch-alls and directories that shadow one another; a   *)
(* is the name of a static segment, o of a bracket.                        *)
Fixed(a)  == <<"static", a>>
Single(o) == <<"single", o>>
SmallPatterns ==
  LET star == <<"rest", 1>>
      some == <<"optional", 1>>
  IN {<<>>, <<Fixed(1)>>, <<Fixed(1), Fixed(2)>>, <<Single(1)>>, <<Single(1), Single(1)>>,
      <<Single(2), Single(1)>>, <<Fixed(1), Single(1)>>, <<Single(1), Fixed(2)>>, <<star>>, <<some>>,
      <<Fixed(1), star>>, <<Fixed(1), some>>, <<Single(1), some>>, <<Single(2), star>>,
      <<Fixed(1), Fixed(2), Single(1)>>, <<Fixed(1), Single(1), Single(1)>>}
SmallPaths == {<<>>, <<1>>, <<2>>, <<1, 2>>, <<2, 2>>, <<1, 1>>, <<1, 2, 1>>, <<1, 1, 1>>, <<2, 2, 2>>}

AtWork == {c \in Calls : step[c] \notin {"idle", "ended"} /\ process[Home[c]] = "up"}
Down == {p \in Processes : process[p] # "up"}
Unused(cs) == \A c \in cs : step'[c] = "idle"

OneAtATime ==
  /\ Cardinality(AtWork') <= 1 /\ faults' = 0
  /\ \A p \in Processes : process'[p] # "reused"

(* The builds in three parts: the lock, under builds that all fail at      *)
(* once; the tiers, built by dev, and by a shell when dev died in its      *)
(* first two builds; and the client, by two shells one after another.      *)
LockPart   == Unused({c3}) /\ source' = source /\ \A c \in DOMAIN work' : \A t \in TierSet : work'[c].read[t] = Nothing
TiersPart  == /\ OneAtATime /\ site' = site /\ edits' + hands' <= 2 /\ (Down' # {} => Unused({c3}))
              /\ Unused({c5}) /\ (dev \notin Down => Unused({c4}))
              /\ \A c \in Calls : step'[c] # "client"
ClientPart == OneAtATime /\ UNCHANGED <<source, hands>> /\ Unused({c1, c2, c3})

BuildParts == {"lock", "tiers", "client"}

PartsInit ==
  /\ part \in {"pages", "channel", "stream", "routes", "blobs", "rates", "mail", "timers"} \cup BuildParts
  /\ RouteInit /\ asked = <<>>
  /\ part # "routes" => routes = {}
  /\ PageInit /\ ChannelInit /\ StreamInit /\ BlobInit
  /\ RateInit /\ MailInit /\ TimersInit /\ LockInit /\ BuildInit
  /\ part # "rates" => limiter.strategy = "fixed" /\ limiter.limit = 1

(* The one part that a step changes.                                       *)
Only(name) ==
  /\ part = name /\ part' = part
  /\ name # "pages" => UNCHANGED pageVars
  /\ name # "channel" => UNCHANGED useChannelVars
  /\ name # "routes" => UNCHANGED routeVars
  /\ name # "stream" => UNCHANGED streamVars
  /\ name # "blobs" => UNCHANGED blobVars
  /\ name # "rates" => UNCHANGED rateVars
  /\ name # "mail" => UNCHANGED mailVars
  /\ name # "timers" => UNCHANGED timerVars
  /\ name \notin BuildParts => UNCHANGED buildVars

PartsNext ==
  \/ Only("pages") /\ PageNext
  \/ Only("channel") /\ ChannelNext
  \/ Only("routes") /\ RouteNext
  \/ Only("stream") /\ StreamNext
  \/ Only("blobs") /\ BlobNext
  \/ Only("rates") /\ RateNext
  \/ Only("mail") /\ MailNext
  \/ Only("timers") /\ TimersNext
  \/ Only("lock") /\ BuildNext /\ LockPart
  \/ Only("tiers") /\ BuildNext /\ TiersPart
  \/ Only("client") /\ BuildNext /\ ClientPart

PartsSpec ==
  PartsInit /\ [][PartsNext]_<<pageVars, useChannelVars, routeVars, streamVars,
                               blobVars, rateVars, mailVars, timerVars, buildVars, part>>
=============================================================================
