----------------------------- MODULE MemoryProofs -----------------------------
(***************************************************************************)
(* Proofs about what is kept in memory, by a server between requests and   *)
(* by a page between renders, for any visitors, keys, lifetimes, pages and *)
(* sizes: a shared answer was meant to be shared and is not too old, a key *)
(* that was taken away soon verifies nothing, a page has one socket to its *)
(* channel, what it shows is of its navigation and of the last action, the *)
(* two ends of a stream are told the same conversation, the timers of the  *)
(* daemon tick when their tasks are due, and no limit on requests or mails *)
(* lets more through than it promises.                                     *)
(***************************************************************************)
EXTENDS Caches, Channel, PageData, Streams, DaemonTimers, Limits, FiniteSetTheorems, SequenceTheorems,
        WellFoundedInduction, TLAPS

-----------------------------------------------------------------------------
(* The inductive invariants                                                *)

(* How long an answer may be given to others.                              *)
Allowed(answer) == Shorter(answer.minutes, MaxMinutes) + MaxGuest

(* What may lie in the cache: it was eligible, and its expiry keeps the    *)
(* time the guest took in mind.                                            *)
EntryOK(e) ==
  /\ Eligible(e.answer)
  /\ e.answer.since \in Nat /\ e.answer.minutes \in Minutes
  /\ e.answer.since <= moment
  /\ e.expiry \in Nat /\ e.expiry <= e.answer.since + Allowed(e.answer)

StoreOK ==
  /\ IsFiniteSet(store) /\ Cardinality(store) <= MaxStored
  /\ \A e, f \in store : e.key = f.key => e = f
  /\ \A e \in store : EntryOK(e)

ViewingOK == \A q \in viewing : q.since \in Nat /\ q.since <= moment /\ moment <= q.since + MaxGuest

ReplyOK ==
  ~reply.own => /\ Eligible(reply.of)
                /\ reply.age <= Allowed(reply.of)

CacheInv == moment \in Nat /\ StoreOK /\ ViewingOK /\ ReplyOK

KeysTypeOK ==
  /\ second \in Nat /\ published \subseteq Kids /\ gone \in [Kids -> Nat]
  /\ known \in [keys : SUBSET Kids, expires : Nat, after : Nat, need : BOOLEAN]
  /\ fetch \in [phase : {"none", "asked", "answered"}, since : Nat, body : SUBSET Kids]
  /\ late \in Nat /\ spacing \in Nat

(* Since when the keys that are kept, and those under way, may be gone.    *)
KeysInv ==
  /\ KeysTypeOK
  /\ \A k \in Kids : gone[k] <= second
  /\ fetch # NoFetch => fetch.since <= second /\ second <= fetch.since + FetchLimit
  /\ fetch.phase = "answered" => \A k \in fetch.body \ published : fetch.since <= gone[k]
  /\ known.expires <= second + MaxLifetime
  /\ \A k \in known.keys \ published : known.expires <= gone[k] + FetchLimit + MaxLifetime
  /\ KeysHonest

-----------------------------------------------------------------------------
(* The cache of responses                                                  *)

LEMMA ShorterLeast ==
  ASSUME NEW a \in Nat, NEW b \in Nat
  PROVE  Shorter(a, b) \in Nat /\ Shorter(a, b) <= a /\ Shorter(a, b) <= b
BY DEF Shorter

LEMMA CacheInitially == CacheAssumption /\ CacheInit => CacheInv
BY FS_EmptySet DEF CacheAssumption, CacheInit, CacheInv, StoreOK, ViewingOK, ReplyOK, Own

(* What is left of the cache when an entry comes is small enough.          *)
LEMMA KeptSmall ==
  ASSUME CacheAssumption, CacheInv
  PROVE  /\ Kept \subseteq store /\ IsFiniteSet(Kept)
         /\ Cardinality(Kept) < MaxStored
<1> DEFINE left == {e \in store : e.expiry > moment}
<1>1. /\ left \subseteq store /\ IsFiniteSet(left) /\ Cardinality(left) \in Nat
      /\ IsFiniteSet(store) /\ Cardinality(store) \in Nat
  BY FS_Subset, FS_CardinalityType DEF CacheInv, StoreOK
<1>2. CASE Cardinality(store) < MaxStored
  BY <1>1, <1>2 DEF Kept
<1>3. CASE ~(Cardinality(store) < MaxStored) /\ Cardinality(left) < MaxStored
  BY <1>1, <1>3 DEF Kept
<1>4. CASE ~(Cardinality(store) < MaxStored) /\ ~(Cardinality(left) < MaxStored)
  BY <1>4, FS_EmptySet DEF Kept, CacheAssumption
<1>5. QED
  BY <1>2, <1>3, <1>4

LEMMA ViewKeeps ==
  ASSUME CacheAssumption, CacheInv, NEW v, View(v)
  PROVE  CacheInv'
<1>1. PICK k \in Viewed, who \in Visitors \cup {Anyone} :
        LET fresh == {e \in Keyed(k) : e.expiry > moment}
        IN \/ \E e \in fresh : reply' = FromCache(e.answer) /\ UNCHANGED <<store, viewing>>
           \/ /\ store' = store \ Keyed(k)
              /\ viewing' = viewing \cup {[by |-> v, key |-> k, who |-> who, since |-> moment]}
              /\ UNCHANGED reply
  BY DEF View
<1>2. moment' = moment /\ moment \in Nat
  BY DEF View, CacheInv
<1>3. ASSUME NEW e \in Keyed(k), e.expiry > moment, reply' = FromCache(e.answer),
             UNCHANGED <<store, viewing>>
      PROVE  CacheInv'
  <2>1. EntryOK(e)
    BY <1>3 DEF Keyed, CacheInv, StoreOK
  <2>2. Allowed(e.answer) \in Nat
    <3>1. e.answer.minutes \in Nat /\ MaxMinutes \in Nat /\ MaxGuest \in Nat
      BY <2>1 DEF EntryOK, CacheAssumption
    <3>2. Shorter(e.answer.minutes, MaxMinutes) \in Nat
      BY <3>1, ShorterLeast
    <3>3. QED
      BY <3>1, <3>2 DEF Allowed
  <2>3. reply'.of = e.answer /\ reply'.age = moment - e.answer.since
    BY <1>3 DEF FromCache
  <2>4. ReplyOK'
    BY <1>2, <1>3, <2>1, <2>2, <2>3 DEF ReplyOK, EntryOK, Eligible, Allowed
  <2>5. QED
    BY <1>2, <1>3, <2>4 DEF CacheInv, StoreOK, ViewingOK, EntryOK
<1>4. ASSUME store' = store \ Keyed(k), UNCHANGED reply,
             viewing' = viewing \cup {[by |-> v, key |-> k, who |-> who, since |-> moment]}
      PROVE  CacheInv'
  <2>1. StoreOK'
    <3>1. IsFiniteSet(store') /\ Cardinality(store') <= Cardinality(store)
      BY <1>4, FS_Subset DEF CacheInv, StoreOK
    <3>2. Cardinality(store) \in Nat /\ Cardinality(store') \in Nat
      BY <3>1, FS_CardinalityType DEF CacheInv, StoreOK
    <3>3. QED
      BY <1>2, <1>4, <3>1, <3>2 DEF CacheInv, StoreOK, EntryOK, CacheAssumption
  <2>2. ViewingOK'
    BY <1>2, <1>4 DEF CacheInv, ViewingOK, CacheAssumption
  <2>3. QED
    BY <1>2, <1>4, <2>1, <2>2 DEF CacheInv, ReplyOK, Allowed, Eligible
<1>5. QED
  BY <1>1, <1>3, <1>4

LEMMA RuleKeeps ==
  ASSUME CacheAssumption, CacheInv, NEW v, ApplyCacheRule(v)
  PROVE  CacheInv'
<1>1. PICK q \in viewing : \E answer \in Answers(q) :
        /\ reply' = Own
        /\ store' = IF Eligible(answer) THEN {e \in Kept : e.key # q.key} \cup {Entry(q, answer)}
                    ELSE store
        /\ viewing' = viewing \ {q}
  BY DEF ApplyCacheRule
<1>1a. PICK answer \in Answers(q) :
        /\ reply' = Own
        /\ store' = IF Eligible(answer) THEN {e \in Kept : e.key # q.key} \cup {Entry(q, answer)}
                    ELSE store
        /\ viewing' = viewing \ {q}
  BY <1>1
<1> DEFINE entry  == Entry(q, answer)
           others == {e \in Kept : e.key # q.key}
<1>2. moment' = moment /\ moment \in Nat
  BY DEF ApplyCacheRule, CacheInv
<1>3. ViewingOK'
  BY <1>1a, <1>2 DEF CacheInv, ViewingOK
<1>4. ReplyOK'
  BY <1>1a DEF ReplyOK, Own
<1>5. CASE ~Eligible(answer)
  BY <1>1a, <1>2, <1>3, <1>4, <1>5 DEF CacheInv, StoreOK, EntryOK
<1>6. CASE Eligible(answer)
  <2>1. others \subseteq store /\ IsFiniteSet(others) /\ Cardinality(others) <= Cardinality(Kept)
    BY KeptSmall, FS_Subset
  <2>2. Cardinality(others) \in Nat /\ Cardinality(Kept) \in Nat /\ Cardinality(Kept) < MaxStored
    BY <2>1, KeptSmall, FS_CardinalityType
  <2>3. IsFiniteSet(others \cup {entry}) /\ Cardinality(others \cup {entry}) <= MaxStored
    <3>1. /\ IsFiniteSet(others \cup {entry})
          /\ \/ Cardinality(others \cup {entry}) = Cardinality(others)
             \/ Cardinality(others \cup {entry}) = Cardinality(others) + 1
      BY ONLY <2>1, FS_AddElement
    <3>2. QED
      BY <2>1, <2>2, <3>1 DEF CacheAssumption
  <2>4. store' = others \cup {entry}
    BY <1>1a, <1>6
  <2>5. ASSUME NEW x, x = entry PROVE EntryOK(x)'
    <3>1. q.since \in Nat /\ q.since <= moment /\ moment <= q.since + MaxGuest
      BY DEF CacheInv, ViewingOK
    <3>2. /\ answer.minutes \in Minutes /\ answer.minutes \in Nat /\ answer.since = q.since
          /\ Shorter(answer.minutes, MaxMinutes) \in Nat
      BY ShorterLeast DEF CacheAssumption, Answers
    <3>3. QED
      BY <1>2, <1>6, <2>5, <3>1, <3>2 DEF Entry, EntryOK, Allowed, Eligible, CacheAssumption
  <2>6. \A e \in others : EntryOK(e)'
    BY <1>2, <2>1 DEF CacheInv, StoreOK, EntryOK
  <2>7. \A e, f \in store' : e.key = f.key => e = f
    BY <2>1, <2>4 DEF CacheInv, StoreOK, Entry
  <2>8. StoreOK'
    <3>1. \A x \in store' : EntryOK(x)'
      BY <2>4, <2>5, <2>6
    <3>2. QED
      BY <2>3, <2>4, <2>7, <3>1 DEF StoreOK
  <2>9. QED
    BY <1>2, <1>3, <1>4, <2>8 DEF CacheInv
<1>7. QED
  BY <1>5, <1>6

LEMMA CacheInductive ==
  ASSUME CacheAssumption, CacheInv, [CacheNext]_cacheVars
  PROVE  CacheInv'
<1>1. ASSUME NEW v \in Viewers, View(v) PROVE CacheInv'
  BY <1>1, ViewKeeps
<1>2. ASSUME NEW v \in Viewers, ApplyCacheRule(v) PROVE CacheInv'
  BY <1>2, RuleKeeps
<1>3. ASSUME NEW v \in Viewers, GuestFails(v) PROVE CacheInv'
  BY <1>3 DEF GuestFails, CacheInv, StoreOK, EntryOK, ViewingOK, ReplyOK, Eligible, Allowed
<1>4. CASE MinutePasses
  <2>1. ViewingOK'
    BY <1>4 DEF MinutePasses, CacheInv, ViewingOK, CacheAssumption
  <2>2. \A e \in store : EntryOK(e)'
    BY <1>4 DEF MinutePasses, CacheInv, StoreOK, EntryOK, Eligible, Allowed
  <2>3. QED
    BY <1>4, <2>1, <2>2 DEF MinutePasses, CacheInv, StoreOK, ReplyOK, Eligible, Allowed
<1>5. CASE UNCHANGED cacheVars
  BY <1>5 DEF cacheVars, CacheInv, StoreOK, EntryOK, ViewingOK, ReplyOK, Eligible, Allowed
<1>6. QED
  BY <1>1, <1>2, <1>3, <1>4, <1>5 DEF CacheNext

LEMMA CacheInvHolds == CacheInv => SharedRightly
BY DEF CacheInv, StoreOK, ReplyOK, SharedRightly, Eligible, Allowed

-----------------------------------------------------------------------------
(* The keys of Google                                                      *)

LEMMA LeastOfTwo ==
  ASSUME NEW a \in Nat, NEW b \in Nat
  PROVE  Least(a, b) \in Nat /\ Least(a, b) <= a /\ Least(a, b) <= b /\ (Least(a, b) = a \/ Least(a, b) = b)
BY DEF Least

LEMMA KeysInitially == KeysAssumption /\ KeysInit => KeysInv
BY DEF KeysAssumption, KeysInit, KeysInv, KeysTypeOK, KeysHonest, NoFetch

LEMMA KeysInductive ==
  ASSUME KeysAssumption, KeysInv, [KeysNext]_keyVars
  PROVE  KeysInv'
<1> USE DEF KeysAssumption
<1>1. CASE PrepareGoogleKeys
  <2>1. spacing' \in Nat /\ Cooldown <= spacing'
    <3>1. Cooldown + second - known.after \in Nat /\ Cooldown <= Cooldown + second - known.after
      BY <1>1 DEF PrepareGoogleKeys, KeysInv, KeysTypeOK
    <3>2. QED
      BY <1>1, <3>1, LeastOfTwo DEF PrepareGoogleKeys, KeysInv, KeysTypeOK, KeysHonest
  <2>2. KeysTypeOK'
    BY <1>1, <2>1 DEF PrepareGoogleKeys, KeysInv, KeysTypeOK
  <2>3. QED
    BY <1>1, <2>1, <2>2 DEF PrepareGoogleKeys, KeysInv, KeysTypeOK, KeysHonest
<1>2. CASE GoogleAnswers
  <2>1. KeysTypeOK'
    BY <1>2 DEF GoogleAnswers, KeysInv, KeysTypeOK
  <2>2. QED
    BY <1>2, <2>1 DEF GoogleAnswers, KeysInv, KeysTypeOK, KeysHonest, NoFetch
<1>3. CASE KeysArrive
  <2>1. PICK ttl \in Lifetimes :
          known' = [known EXCEPT !.keys = fetch.body, !.need = FALSE,
                                 !.expires = second + Least(ttl, MaxLifetime)]
    BY <1>3 DEF KeysArrive
  <2>2. Least(ttl, MaxLifetime) \in Nat /\ Least(ttl, MaxLifetime) <= MaxLifetime
    BY LeastOfTwo
  <2>3. fetch.since \in Nat /\ second <= fetch.since + FetchLimit
    BY <1>3 DEF KeysArrive, KeysInv, KeysTypeOK, NoFetch
  <2>4. KeysTypeOK'
    <3>1. second + Least(ttl, MaxLifetime) \in Nat /\ fetch.body \in SUBSET Kids
      BY <2>2 DEF KeysInv, KeysTypeOK
    <3>2. known' \in [keys : SUBSET Kids, expires : Nat, after : Nat, need : BOOLEAN]
      BY <2>1, <3>1 DEF KeysInv, KeysTypeOK
    <3>3. QED
      BY <1>3, <3>2 DEF KeysArrive, KeysInv, KeysTypeOK, NoFetch
  <2>5. known'.keys = fetch.body /\ known'.expires = second + Least(ttl, MaxLifetime)
    BY <2>1 DEF KeysInv, KeysTypeOK
  <2>6. \A k \in known'.keys \ published : known'.expires <= gone[k] + FetchLimit + MaxLifetime
    BY <1>3, <2>2, <2>3, <2>5 DEF KeysArrive, KeysInv, KeysTypeOK
  <2>7. QED
    BY <1>3, <2>2, <2>4, <2>5, <2>6 DEF KeysArrive, KeysInv, KeysTypeOK, KeysHonest, NoFetch
<1>4. CASE FetchFails
  BY <1>4 DEF FetchFails, KeysInv, KeysTypeOK, KeysHonest, NoFetch
<1>5. CASE VerifyGoogleToken
  <2>1. PICK k \in Kids :
          /\ second < known.expires
          /\ IF k \in known.keys
             THEN late' = Lateness(k) /\ UNCHANGED known
             ELSE known' = [known EXCEPT !.need = TRUE] /\ UNCHANGED late
          /\ UNCHANGED <<second, published, gone, fetch, spacing>>
    BY <1>5 DEF VerifyGoogleToken
  <2>2. CASE k \in known.keys
    <3>1. late' \in Nat /\ late' < MaxLifetime + FetchLimit
      BY <2>1, <2>2 DEF Lateness, KeysInv, KeysTypeOK
    <3>2. QED
      BY <2>1, <2>2, <3>1 DEF KeysInv, KeysTypeOK, KeysHonest
  <2>3. CASE k \notin known.keys
    BY <2>1, <2>3 DEF KeysInv, KeysTypeOK, KeysHonest
  <2>4. QED
    BY <2>2, <2>3
<1>6. CASE Rotate
  <2>1. PICK k \in Kids :
          \/ k \in published /\ published' = published \ {k} /\ gone' = [gone EXCEPT ![k] = second]
          \/ k \notin published /\ published' = published \cup {k} /\ gone' = [gone EXCEPT ![k] = 0]
    BY <1>6 DEF Rotate
  <2>2. UNCHANGED <<second, known, fetch, late, spacing>>
    BY <1>6 DEF Rotate
  <2>3. KeysTypeOK' /\ \A l \in Kids : gone'[l] = IF l = k THEN gone'[k] ELSE gone[l]
    BY <2>1, <2>2 DEF KeysInv, KeysTypeOK
  <2>4. CASE k \in published /\ published' = published \ {k} /\ gone' = [gone EXCEPT ![k] = second]
    <3>1. gone'[k] = second
      BY <2>4 DEF KeysInv, KeysTypeOK
    <3>2. fetch.phase = "answered" => \A l \in fetch.body \ published' : fetch.since <= gone'[l]
      BY <2>3, <2>4, <3>1 DEF KeysInv, KeysTypeOK, NoFetch
    <3>3. \A l \in known.keys \ published' : known.expires <= gone'[l] + FetchLimit + MaxLifetime
      BY <2>3, <2>4, <3>1 DEF KeysInv, KeysTypeOK
    <3>4. QED
      BY <2>2, <2>3, <3>1, <3>2, <3>3 DEF KeysInv, KeysTypeOK, KeysHonest
  <2>5. CASE k \notin published /\ published' = published \cup {k} /\ gone' = [gone EXCEPT ![k] = 0]
    <3>1. gone'[k] = 0
      BY <2>5 DEF KeysInv, KeysTypeOK
    <3>2. QED
      BY <2>2, <2>3, <2>5, <3>1 DEF KeysInv, KeysTypeOK, KeysHonest
  <2>6. QED
    BY <2>1, <2>4, <2>5
<1>7. CASE SecondPasses
  BY <1>7 DEF SecondPasses, KeysInv, KeysTypeOK, KeysHonest
<1>8. CASE UNCHANGED keyVars
  BY <1>8 DEF keyVars, KeysInv, KeysTypeOK, KeysHonest
<1>9. QED
  BY <1>1, <1>2, <1>3, <1>4, <1>5, <1>6, <1>7, <1>8 DEF KeysNext

-----------------------------------------------------------------------------
(* Both together                                                           *)

(* Whoever asks, however the guest's answers overtake one another and      *)
(* whatever Google publishes or fails to answer: what is kept is shared    *)
(* with those it was meant for, and for no longer than it was meant        *)
(* (cache.ts, google.ts).                                                  *)
THEOREM NothingKeptTooLong ==
  ASSUME CacheAssumption, KeysAssumption
  PROVE  CachesSpec => []CachesHold
<1>1. CachesInit => CacheInv /\ KeysInv
  BY CacheInitially, KeysInitially DEF CachesInit
<1>2. (CacheInv /\ KeysInv) /\ [CachesNext]_cachesVars => (CacheInv /\ KeysInv)'
  <2>1. [CachesNext]_cachesVars => [CacheNext]_cacheVars /\ [KeysNext]_keyVars
    BY DEF CachesNext, cachesVars
  <2>2. QED
    BY <2>1, CacheInductive, KeysInductive
<1>3. CacheInv /\ KeysInv => CachesHold
  BY CacheInvHolds DEF KeysInv, CachesHold
<1>4. QED
  BY <1>1, <1>2, <1>3, PTL DEF CachesSpec

-----------------------------------------------------------------------------
(* useChannel                                                              *)

Events == {"open", "message", "close"}

ChannelTypeOK ==
  /\ turn \in 1..MaxTurns /\ mounted \in BOOLEAN /\ socketRef \in 1..MaxSockets
  /\ turnOf \in [1..MaxSockets -> 0..MaxTurns]
  /\ sockets \in [1..MaxSockets -> {"none", "connecting", "open", "closing", "closed"}]
  /\ events \subseteq (1..MaxSockets) \X Events
  /\ reconnects \subseteq {turn} /\ connected \in BOOLEAN

(* Nothing is known of a socket before it is opened, or while it opens;    *)
(* its close is the last it tells.                                         *)
Quiet(s) == \A kind \in Events : <<s, kind>> \notin events

Sequence(s) ==
  /\ s > socketRef => sockets[s] = "none"
  /\ sockets[s] \in {"none", "connecting"} => Quiet(s)
  /\ <<s, "close">> \in events => sockets[s] = "closed"
  /\ sockets[s] = "closed" /\ <<s, "close">> \notin events => Quiet(s)

(* Every socket but the last is on its way out, and one of this turn has   *)
(* told all it had to.                                                     *)
Left(s) ==
  s < socketRef => /\ sockets[s] \in {"closing", "closed"}
                   /\ turnOf[s] = turn => Quiet(s) /\ sockets[s] = "closed"

(* The last socket, while the component is there: what it has told is      *)
(* shown, and the timer runs only when it told that it closed.             *)
LastSocket ==
  IF mounted
  THEN /\ turnOf[socketRef] = turn
       /\ sockets[socketRef] \in {"connecting", "open", "closed"}
       /\ sockets[socketRef] = "open" /\ ~connected => <<socketRef, "open">> \in events
       /\ sockets[socketRef] = "closed" /\ connected => <<socketRef, "close">> \in events
       /\ reconnects # {} => Quiet(socketRef) /\ sockets[socketRef] = "closed"
  ELSE sockets[socketRef] \in {"closing", "closed"} /\ reconnects = {}

ChannelInv ==
  /\ ChannelTypeOK
  /\ \A s \in 1..MaxSockets : Sequence(s) /\ Left(s) /\ turnOf[s] <= turn
  /\ LastSocket

LEMMA ChannelInitially == ChannelAssumption /\ ChannelInit => ChannelInv
<1>1. SUFFICES ASSUME ChannelAssumption, ChannelInit PROVE ChannelInv
  OBVIOUS
<1>2. 1 \in 1..MaxSockets /\ 1 \in 1..MaxTurns /\ sockets[1] = "connecting" /\ turnOf[1] = 1
  BY <1>1 DEF ChannelAssumption, ChannelInit
<1>3. ChannelTypeOK
  <2>1. turnOf \in [1..MaxSockets -> 0..MaxTurns]
    BY <1>1, <1>2 DEF ChannelInit
  <2>2. sockets \in [1..MaxSockets -> {"none", "connecting", "open", "closing", "closed"}]
    BY <1>1 DEF ChannelInit
  <2>3. QED
    BY <1>1, <1>2, <2>1, <2>2 DEF ChannelInit, ChannelTypeOK
<1>4. LastSocket
  BY <1>1, <1>2 DEF ChannelInit, LastSocket
<1>5. \A s \in 1..MaxSockets : Sequence(s) /\ Left(s) /\ turnOf[s] <= turn
  BY <1>1 DEF ChannelInit, Sequence, Left, Quiet
<1>6. QED
  BY <1>3, <1>4, <1>5 DEF ChannelInv

(* What the network does to a socket.                                      *)
LEMMA SocketKeeps ==
  ASSUME ChannelInv, NEW s \in 1..MaxSockets, SocketOpens(s) \/ FrameComes(s) \/ SocketCloses(s)
  PROVE  ChannelInv'
<1>1. ChannelTypeOK /\ Sequence(s) /\ Left(s) /\ LastSocket
  BY DEF ChannelInv
<1>2. /\ UNCHANGED <<turn, mounted, socketRef, turnOf, reconnects, connected>>
      /\ \A r \in 1..MaxSockets \ {s} : sockets'[r] = sockets[r]
      /\ \A r \in 1..MaxSockets \ {s}, kind \in Events : <<r, kind>> \in events' <=> <<r, kind>> \in events
  BY <1>1 DEF SocketOpens, FrameComes, SocketCloses, ChannelTypeOK
<1>3. sockets[s] \in {"connecting", "open", "closing"} /\ s <= socketRef /\ <<s, "close">> \notin events
  BY <1>1 DEF SocketOpens, FrameComes, SocketCloses, Sequence, ChannelTypeOK
<1>4. \/ /\ sockets[s] = "connecting" /\ sockets'[s] = "open" /\ <<s, "open">> \in events'
         /\ <<s, "close">> \notin events'
      \/ /\ sockets[s] = "open" /\ sockets'[s] = "open" /\ <<s, "close">> \notin events'
         /\ <<s, "open">> \in events <=> <<s, "open">> \in events'
      \/ sockets'[s] = "closed" /\ <<s, "close">> \in events'
  <2>1. sockets \in [1..MaxSockets -> {"none", "connecting", "open", "closing", "closed"}]
    BY <1>1 DEF ChannelTypeOK
  <2>2. CASE SocketOpens(s)
    BY <1>3, <2>1, <2>2 DEF SocketOpens
  <2>3. CASE FrameComes(s)
    BY <1>3, <2>1, <2>3 DEF FrameComes
  <2>4. CASE SocketCloses(s)
    BY <1>3, <2>1, <2>4 DEF SocketCloses
  <2>5. QED
    BY <2>2, <2>3, <2>4
<1>5. ChannelTypeOK'
  <2>1. events' \subseteq (1..MaxSockets) \X Events
    BY <1>1 DEF SocketOpens, FrameComes, SocketCloses, ChannelTypeOK, Events
  <2>2. sockets' \in [1..MaxSockets -> {"none", "connecting", "open", "closing", "closed"}]
    BY <1>1 DEF SocketOpens, FrameComes, SocketCloses, ChannelTypeOK
  <2>3. QED
    BY <1>1, <1>2, <2>1, <2>2 DEF ChannelTypeOK
<1>6. ASSUME NEW r \in 1..MaxSockets PROVE Sequence(r)' /\ Left(r)' /\ turnOf'[r] <= turn'
  <2>1. CASE r = s
    <3>1. ~(s < socketRef /\ turnOf[s] = turn)
      BY <1>1, <1>3 DEF Left
    <3>2. s < socketRef => sockets[s] = "closing"
      BY <1>1, <1>3 DEF Left
    <3>3. QED
      BY <1>1, <1>2, <1>3, <1>4, <2>1, <3>1, <3>2 DEF ChannelInv, Sequence, Left, ChannelTypeOK
  <2>2. CASE r # s
    <3>1. Sequence(r) /\ Left(r) /\ turnOf[r] <= turn
      BY DEF ChannelInv
    <3>2. Quiet(r)' <=> Quiet(r)
      BY <1>2, <2>2 DEF Quiet
    <3>3. <<r, "close">> \in events' <=> <<r, "close">> \in events
      BY <1>2, <2>2 DEF Events
    <3>4. QED
      BY <1>2, <2>2, <3>1, <3>2, <3>3 DEF Sequence, Left
  <2>3. QED
    BY <2>1, <2>2
<1>7. LastSocket'
  <2>1. CASE s = socketRef
    BY <1>1, <1>2, <1>3, <1>4, <2>1 DEF LastSocket
  <2>2. CASE s # socketRef
    <3>1. socketRef \in 1..MaxSockets \ {s} /\ {"open", "close"} \subseteq Events
      BY <1>1, <2>2 DEF ChannelTypeOK, Events
    <3>2. Quiet(socketRef)' <=> Quiet(socketRef)
      BY <1>2, <3>1 DEF Quiet
    <3>3. QED
      BY <1>1, <1>2, <3>1, <3>2 DEF LastSocket
  <2>3. QED
    BY <2>1, <2>2
<1>8. QED
  BY <1>5, <1>6, <1>7 DEF ChannelInv

(* A listener runs: only those of this turn change what is shown.          *)
LEMMA HearKeeps ==
  ASSUME ChannelInv, NEW s \in 1..MaxSockets, NEW kind \in Events, Hear(s, kind)
  PROVE  ChannelInv'
<1>1. ChannelTypeOK /\ Sequence(s) /\ Left(s) /\ LastSocket /\ turnOf[s] \in 0..MaxTurns
  BY DEF ChannelInv, ChannelTypeOK
<1>2. /\ UNCHANGED <<turn, mounted, socketRef, turnOf, sockets>>
      /\ <<s, kind>> \in events /\ events' = events \ {<<s, kind>>}
      /\ \A k \in Earlier(kind) : <<s, k>> \notin events
      /\ connected' = IF Stopped(turnOf[s]) \/ kind = "message" THEN connected ELSE kind = "open"
      /\ reconnects' = IF kind = "close" /\ ~Stopped(turnOf[s]) THEN reconnects \cup {turnOf[s]} ELSE reconnects
  BY DEF Hear
<1>3. ~Quiet(s) /\ s <= socketRef
  BY <1>1, <1>2 DEF Quiet, Sequence, ChannelTypeOK
<1>4. ~Stopped(turnOf[s]) => mounted /\ turnOf[s] = turn /\ s = socketRef
  BY <1>1, <1>3 DEF Stopped, Left, ChannelTypeOK
<1>5. kind = "close" => Quiet(s)' /\ sockets[s] = "closed"
  <2>1. SUFFICES ASSUME kind = "close" PROVE Quiet(s)' /\ sockets[s] = "closed"
    OBVIOUS
  <2>2. \A k \in Events : <<s, k>> \notin events'
    BY <1>2, <2>1 DEF Events, Earlier
  <2>3. QED
    BY <1>1, <1>2, <2>1, <2>2 DEF Quiet, Sequence
<1>6. ChannelTypeOK'
  <2>1. events' \subseteq (1..MaxSockets) \X Events /\ reconnects' \subseteq {turn} /\ connected' \in BOOLEAN
    BY <1>1, <1>2, <1>4 DEF ChannelTypeOK
  <2>2. QED
    BY <1>1, <1>2, <2>1 DEF ChannelTypeOK
<1>7. \A r \in 1..MaxSockets : Quiet(r) => Quiet(r)'
  BY <1>2 DEF Quiet
<1>8. ASSUME NEW r \in 1..MaxSockets PROVE Sequence(r)' /\ Left(r)' /\ turnOf'[r] <= turn'
  <2>1. Sequence(r) /\ Left(r) /\ turnOf[r] <= turn
    BY DEF ChannelInv
  <2>2. Left(r)' /\ turnOf'[r] <= turn'
    BY <1>2, <1>7, <2>1 DEF Left
  <2>3. <<r, "close">> \in events' => <<r, "close">> \in events
    BY <1>2
  <2>4. sockets[r] = "closed" /\ <<r, "close">> \notin events' => Quiet(r)'
    <3>1. CASE r = s /\ kind = "close"
      BY <1>5, <3>1
    <3>2. CASE ~(r = s /\ kind = "close")
      BY <1>2, <1>7, <2>1, <3>2 DEF Sequence
    <3>3. QED
      BY <3>1, <3>2
  <2>5. QED
    BY <1>2, <1>7, <2>1, <2>2, <2>3, <2>4 DEF Sequence
<1>9. LastSocket'
  <2>1. CASE Stopped(turnOf[s]) \/ kind = "message"
    <3>1. UNCHANGED <<connected, reconnects>>
      BY <1>2, <2>1
    <3>2. mounted => \A k \in {"open", "close"} : <<socketRef, k>> \in events' <=> <<socketRef, k>> \in events
      BY <1>1, <1>2, <2>1 DEF Stopped, LastSocket
    <3>3. Quiet(socketRef) => Quiet(socketRef)'
      BY <1>1, <1>2, <1>7 DEF ChannelTypeOK
    <3>4. QED
      BY <1>1, <1>2, <3>1, <3>2, <3>3 DEF LastSocket
  <2>2. CASE ~Stopped(turnOf[s]) /\ kind = "open"
    <3>1. connected' = TRUE /\ reconnects' = reconnects /\ mounted /\ s = socketRef
      BY <1>2, <1>4, <2>2
    <3>2. sockets[s] = "closed" => <<s, "close">> \in events'
      BY <1>1, <1>2, <1>3, <2>2 DEF Sequence
    <3>3. reconnects = {}
      BY <1>1, <1>3, <3>1 DEF LastSocket
    <3>4. QED
      BY <1>1, <1>2, <3>1, <3>2, <3>3 DEF LastSocket
  <2>3. CASE ~Stopped(turnOf[s]) /\ kind = "close"
    <3>1. connected' = FALSE /\ mounted /\ s = socketRef
      BY <1>2, <1>4, <2>3
    <3>2. QED
      BY <1>1, <1>2, <1>5, <2>3, <3>1 DEF LastSocket
  <2>4. QED
    BY <2>1, <2>2, <2>3 DEF Events
<1>10. QED
  BY <1>6, <1>8, <1>9 DEF ChannelInv

(* Nobody has news of a socket that is yet to be opened.                   *)
LEMMA NextIsQuiet ==
  ASSUME ChannelInv, socketRef < MaxSockets
  PROVE  /\ socketRef + 1 \in 1..MaxSockets /\ Quiet(socketRef + 1) /\ socketRef \in Nat
         /\ \A s \in 1..MaxSockets : s < socketRef + 1 => s <= socketRef
         /\ \A s \in 1..MaxSockets : s > socketRef + 1 => s > socketRef
<1>1. ChannelAssumption /\ ChannelTypeOK
  BY ChannelAssumption DEF ChannelInv
<1>2. socketRef + 1 \in 1..MaxSockets /\ socketRef + 1 > socketRef
  BY <1>1 DEF ChannelAssumption, ChannelTypeOK
<1>3. Quiet(socketRef + 1)
  BY <1>2 DEF ChannelInv, Sequence
<1>4. QED
  BY <1>1, <1>2, <1>3 DEF ChannelAssumption, ChannelTypeOK

(* The timer opens the next socket of its turn.                            *)
LEMMA TimerKeeps == ASSUME ChannelInv, NEW t \in 1..MaxTurns, TimerOpens(t) PROVE ChannelInv'
<1>1. ChannelTypeOK /\ LastSocket
  BY DEF ChannelInv
<1>2. /\ t = turn /\ mounted /\ Quiet(socketRef) /\ sockets[socketRef] = "closed"
      /\ socketRef < MaxSockets
  BY <1>1 DEF TimerOpens, OpenSocket, ChannelTypeOK, LastSocket
<1> DEFINE next == socketRef + 1
<1>3. /\ next \in 1..MaxSockets /\ Quiet(next) /\ socketRef \in Nat
      /\ \A s \in 1..MaxSockets : s < next => s <= socketRef
      /\ \A s \in 1..MaxSockets : s > next => s > socketRef
  BY <1>2, NextIsQuiet
<1>4. /\ socketRef' = next /\ turnOf' = [turnOf EXCEPT ![next] = turn]
      /\ sockets' = [sockets EXCEPT ![next] = "connecting"] /\ reconnects' = {}
      /\ UNCHANGED <<turn, mounted, events, connected>>
  BY <1>1, <1>2 DEF TimerOpens, OpenSocket, ChannelTypeOK
<1>5. /\ turnOf'[next] = turn /\ sockets'[next] = "connecting"
      /\ \A s \in 1..MaxSockets \ {next} : turnOf'[s] = turnOf[s] /\ sockets'[s] = sockets[s]
  BY <1>1, <1>3, <1>4 DEF ChannelTypeOK
<1>6. ChannelTypeOK'
  BY <1>1, <1>3, <1>4 DEF ChannelTypeOK
<1>7. \A s \in 1..MaxSockets : Quiet(s)' <=> Quiet(s)
  BY <1>4 DEF Quiet
<1>8. ASSUME NEW s \in 1..MaxSockets PROVE Sequence(s)' /\ Left(s)' /\ turnOf'[s] <= turn'
  <2>1. Sequence(s) /\ Left(s) /\ turnOf[s] <= turn
    BY DEF ChannelInv
  <2>2. CASE s = next
    <3>1. <<s, "close">> \notin events
      BY <1>3, <2>2 DEF Quiet, Events
    <3>2. QED
      BY <1>1, <1>3, <1>4, <1>5, <1>7, <2>2, <3>1 DEF Sequence, Left, ChannelTypeOK
  <2>3. CASE s # next
    BY <1>1, <1>2, <1>3, <1>4, <1>5, <1>7, <2>1, <2>3 DEF Sequence, Left, ChannelTypeOK
  <2>4. QED
    BY <2>2, <2>3
<1>9. LastSocket'
  BY <1>2, <1>4, <1>5 DEF LastSocket
<1>10. QED
  BY <1>6, <1>8, <1>9 DEF ChannelInv

(* The cleanup leaves every socket on its way out and no timer.            *)
LEMMA Cleaned ==
  ASSUME ChannelInv, mounted
  PROVE  /\ CloseLast \in [1..MaxSockets -> {"none", "connecting", "open", "closing", "closed"}]
         /\ CloseLast[socketRef] \in {"closing", "closed"}
         /\ CloseLast[socketRef] = "closed" <=> sockets[socketRef] = "closed"
         /\ \A s \in 1..MaxSockets \ {socketRef} : CloseLast[s] = sockets[s]
         /\ WithoutTimer(turn) = {}
BY DEF ChannelInv, ChannelTypeOK, LastSocket, CloseLast, WithoutTimer

LEMMA UnmountKeeps == ASSUME ChannelInv, Unmount PROVE ChannelInv'
<1>1. ChannelTypeOK /\ LastSocket /\ mounted
  BY DEF ChannelInv, Unmount
<1>2. /\ mounted' = FALSE /\ reconnects' = {} /\ sockets' = CloseLast
      /\ UNCHANGED <<turn, socketRef, turnOf, events, connected>>
  BY <1>1, Cleaned DEF Unmount
<1>3. /\ sockets' \in [1..MaxSockets -> {"none", "connecting", "open", "closing", "closed"}]
      /\ sockets'[socketRef] \in {"closing", "closed"}
      /\ sockets'[socketRef] = "closed" <=> sockets[socketRef] = "closed"
      /\ \A s \in 1..MaxSockets \ {socketRef} : sockets'[s] = sockets[s]
  BY <1>1, <1>2, Cleaned
<1>4. ChannelTypeOK' /\ LastSocket'
  BY <1>1, <1>2, <1>3 DEF ChannelTypeOK, LastSocket
<1>5. ASSUME NEW s \in 1..MaxSockets PROVE Sequence(s)' /\ Left(s)' /\ turnOf'[s] <= turn'
  <2>1. Sequence(s) /\ Left(s) /\ turnOf[s] <= turn
    BY DEF ChannelInv
  <2>2. Quiet(s)' <=> Quiet(s)
    BY <1>2 DEF Quiet
  <2>3. QED
    BY <1>1, <1>2, <1>3, <2>1, <2>2 DEF Sequence, Left, ChannelTypeOK
<1>6. QED
  BY <1>4, <1>5 DEF ChannelInv

LEMMA ChangeKeeps == ASSUME ChannelInv, ChangeOptions PROVE ChannelInv'
<1>1. ChannelTypeOK /\ LastSocket /\ mounted /\ socketRef < MaxSockets /\ turn < MaxTurns
  BY DEF ChannelInv, ChangeOptions, OpenSocket
<1> DEFINE next == socketRef + 1
<1>2. /\ next \in 1..MaxSockets /\ Quiet(next) /\ socketRef \in Nat
      /\ \A s \in 1..MaxSockets : s < next => s <= socketRef
      /\ \A s \in 1..MaxSockets : s > next => s > socketRef
  BY <1>1, NextIsQuiet
<1>3. /\ socketRef' = next /\ turnOf' = [turnOf EXCEPT ![next] = turn + 1] /\ turn' = turn + 1
      /\ sockets' = [CloseLast EXCEPT ![next] = "connecting"] /\ reconnects' = {}
      /\ UNCHANGED <<mounted, events, connected>>
  BY <1>1, Cleaned DEF ChangeOptions, OpenSocket
<1>4. /\ turnOf'[next] = turn + 1 /\ sockets'[next] = "connecting"
      /\ \A s \in 1..MaxSockets \ {next} : turnOf'[s] = turnOf[s]
      /\ sockets'[socketRef] \in {"closing", "closed"}
      /\ sockets'[socketRef] = "closed" <=> sockets[socketRef] = "closed"
      /\ \A s \in 1..MaxSockets \ {next, socketRef} : sockets'[s] = sockets[s]
  BY <1>1, <1>2, <1>3, Cleaned DEF ChannelTypeOK
<1>5. turn + 1 \in 1..MaxTurns
  BY <1>1, ChannelAssumption DEF ChannelAssumption, ChannelTypeOK
<1>6. ChannelTypeOK'
  <2>1. turnOf' \in [1..MaxSockets -> 0..MaxTurns]
    BY <1>1, <1>2, <1>3, <1>5 DEF ChannelTypeOK
  <2>2. sockets' \in [1..MaxSockets -> {"none", "connecting", "open", "closing", "closed"}]
    BY <1>1, <1>3, Cleaned
  <2>3. QED
    BY <1>1, <1>2, <1>3, <1>5, <2>1, <2>2 DEF ChannelTypeOK
<1>7. \A s \in 1..MaxSockets : Quiet(s)' <=> Quiet(s)
  BY <1>3 DEF Quiet
<1>8. ASSUME NEW s \in 1..MaxSockets PROVE Sequence(s)' /\ Left(s)' /\ turnOf'[s] <= turn'
  <2>1. Sequence(s) /\ Left(s) /\ turnOf[s] <= turn /\ turn \in Nat /\ turnOf[s] \in Nat
    BY <1>1 DEF ChannelInv, ChannelTypeOK
  <2>2. CASE s = next
    <3>1. <<s, "close">> \notin events
      BY <1>2, <2>2 DEF Quiet, Events
    <3>2. QED
      BY <1>1, <1>2, <1>3, <1>4, <1>7, <2>1, <2>2, <3>1 DEF Sequence, Left, ChannelTypeOK
  <2>3. CASE s # next
    <3>1. turnOf'[s] = turnOf[s] /\ turnOf'[s] # turn' /\ turnOf'[s] <= turn'
      BY <1>3, <1>4, <2>1, <2>3
    <3>2. Left(s)'
      BY <1>2, <1>3, <1>4, <2>1, <2>3, <3>1 DEF Left, ChannelTypeOK
    <3>3. Sequence(s)'
      BY <1>1, <1>2, <1>3, <1>4, <1>7, <2>1, <2>3 DEF Sequence, ChannelTypeOK, LastSocket
    <3>4. QED
      BY <3>1, <3>2, <3>3
  <2>4. QED
    BY <2>2, <2>3
<1>9. LastSocket'
  BY <1>1, <1>3, <1>4 DEF LastSocket
<1>10. QED
  BY <1>6, <1>8, <1>9 DEF ChannelInv

LEMMA ChannelInductive == ChannelInv /\ [ChannelNext]_useChannelVars => ChannelInv'
<1>1. CASE ChannelInv /\ ChannelNext
  BY <1>1, SocketKeeps, HearKeeps, TimerKeeps, ChangeKeeps, UnmountKeeps DEF ChannelNext, Events
<1>2. CASE ChannelInv /\ UNCHANGED useChannelVars
  BY <1>2 DEF useChannelVars, ChannelInv, ChannelTypeOK, Sequence, Quiet, Left, LastSocket
<1>3. QED
  BY <1>1, <1>2

LEMMA ChannelInvHolds == ChannelInv => OneSocket
<1>1. SUFFICES ASSUME ChannelInv PROVE OneSocket
  OBVIOUS
<1>2. ChannelTypeOK /\ LastSocket
  BY <1>1 DEF ChannelInv
<1>3. ASSUME NEW s \in OpenOrOpening PROVE s = socketRef /\ mounted
  <2>1. s \in 1..MaxSockets /\ sockets[s] \in {"connecting", "open"} /\ Sequence(s) /\ Left(s)
    BY <1>1, <1>3 DEF OpenOrOpening, ChannelInv
  <2>2. s = socketRef
    BY <1>2, <2>1 DEF Sequence, Left, ChannelTypeOK
  <2>3. QED
    BY <1>2, <2>1, <2>2 DEF LastSocket
<1>4. /\ OpenOrOpening \in {{}, {socketRef}} /\ reconnects \in {{}, {turn}}
      /\ OpenOrOpening # {} => mounted /\ reconnects = {}
      /\ reconnects # {} => mounted
  <2>1. OpenOrOpening # {} => mounted /\ socketRef \in OpenOrOpening
    BY <1>3
  <2>2. reconnects # {} => mounted /\ sockets[socketRef] = "closed"
    BY <1>2 DEF LastSocket
  <2>3. socketRef \in OpenOrOpening => sockets[socketRef] # "closed"
    BY DEF OpenOrOpening
  <2>4. OpenOrOpening \in {{}, {socketRef}} /\ reconnects \in {{}, {turn}}
    BY <1>2, <1>3 DEF ChannelTypeOK
  <2>5. QED
    BY <2>1, <2>2, <2>3, <2>4
<1>5. Cardinality({}) = 0 /\ Cardinality({socketRef}) = 1 /\ Cardinality({turn}) = 1
  BY FS_EmptySet, FS_Singleton
<1>6. Cardinality(OpenOrOpening) + Cardinality(reconnects) <= IF mounted THEN 1 ELSE 0
  BY <1>4, <1>5
<1>7. \A s \in OpenOrOpening : turnOf[s] = turn
  BY <1>2, <1>3 DEF LastSocket
<1>8. Untold = {} => <<socketRef, "open">> \notin events /\ <<socketRef, "close">> \notin events
  BY DEF Untold
<1>9. mounted /\ Untold = {} /\ connected => sockets[socketRef] \in {"open", "connecting"}
  BY <1>2, <1>8 DEF LastSocket
<1>10. mounted /\ Untold = {} /\ ~connected => sockets[socketRef] # "open"
  BY <1>2, <1>8 DEF LastSocket
<1>11. QED
  BY <1>6, <1>7, <1>9, <1>10 DEF OneSocket

(* However often the options change, sockets are lost and timers go off, a *)
(* component has one socket or one timer, of its options, and none when it *)
(* is gone; and it shows what its socket told (useChannel).                *)
THEOREM OneSocketAtATime == ChannelSpec => []OneSocket
<1>1. ChannelInit => ChannelInv
  BY ChannelInitially, ChannelAssumption
<1>2. QED
  BY <1>1, ChannelInductive, ChannelInvHolds, PTL DEF ChannelSpec

-----------------------------------------------------------------------------
(* The loader cache                                                        *)

PageEntry == [key : Pages, status : {"pending", "done", "error", "gone"}, epoch : Nat,
              prefetched : BOOLEAN, loads : BOOLEAN, data : 0..NotRead, used : SUBSET Nat]

PageTypeOK ==
  /\ served \in [Pages -> 0..MaxWrites] /\ owed \in [Pages -> 0..MaxWrites]
  /\ location \in Pages /\ epoch \in Nat
  /\ cache \subseteq [key : Pages, entry : 1..Len(fetches), since : Nat]
  /\ fetches \in Seq(PageEntry)
  /\ shown \in [data : 0..NotRead, owed : 0..MaxWrites]
  /\ runs \in [Runs -> [at : {"idle", "sent", "written"}, key : Pages, targets : SUBSET Pages,
                        wrote : 0..MaxWrites]]

(* A key has one entry, of its own and not gone, and what the entry's      *)
(* loader has read is no older than what the page is owed.                 *)
CacheSound ==
  /\ \A c, d \in cache : c.key = d.key => c = d
  /\ \A c \in cache :
       /\ fetches[c.entry].key = c.key /\ fetches[c.entry].status # "gone"
       /\ fetches[c.entry].data >= owed[c.key]

(* The server has what a page is owed, and what an action wrote.           *)
Behind ==
  /\ \A k \in Pages : owed[k] <= served[k]
  /\ \A r \in Runs : runs[r].wrote <= served[runs[r].key]

(* An entry of a page without a policy: of one navigation; what is no      *)
(* longer cached has settled in an earlier one, and before the next began. *)
Each(i) == fetches[i].status # "gone" /\ Policy[fetches[i].key] = "each"

Once(i) ==
  LET f == fetches[i]
  IN /\ f.epoch <= epoch /\ f.loads
     /\ f.used \subseteq IF f.prefetched THEN {} ELSE {f.epoch}
     /\ i \in Cached(f.key) \/ (f.status # "pending" /\ f.epoch < epoch)
     /\ \A j \in 1..Len(fetches) : i < j /\ Each(j) /\ fetches[j].key = f.key
          => i \notin Cached(f.key) /\ f.epoch < fetches[j].epoch

PageInv ==
  /\ PageTypeOK /\ CacheSound /\ Behind /\ FreshAfterAction
  /\ \A i \in 1..Len(fetches) : fetches[i].status = "gone" => fetches[i] = Gone
  /\ \A i \in 1..Len(fetches) : Each(i) => Once(i)

LEMMA PageInitially == PageAssumption /\ PageInit => PageInv
<1>1. SUFFICES ASSUME PageAssumption, PageInit PROVE PageInv
  OBVIOUS
<1> DEFINE f == [key |-> Start, status |-> "pending", epoch |-> 0, prefetched |-> TRUE,
                 loads |-> TRUE, data |-> 0, used |-> {}]
<1>2. fetches = <<f>> /\ fetches[1] = f /\ Len(fetches) = 1 /\ f \in PageEntry /\ Start \in Pages /\ MaxWrites \in Nat
  BY <1>1 DEF PageAssumption, PageInit, PageEntry, NotRead
<1>3. cache = {[key |-> Start, entry |-> 1, since |-> 1]}
  BY <1>1 DEF PageInit
<1>4. Idle \in [at : {"idle", "sent", "written"}, key : Pages, targets : SUBSET Pages, wrote : 0..MaxWrites]
  BY <1>2 DEF Idle
<1>5. PageTypeOK
  BY <1>1, <1>2, <1>3, <1>4 DEF PageInit, PageTypeOK, NotRead
<1>6. CacheSound /\ Behind /\ FreshAfterAction
  BY <1>1, <1>2, <1>3 DEF PageInit, CacheSound, Behind, FreshAfterAction, Idle
<1>7. Once(1)
  <2>1. 1 \in Cached(Start)
    <3>1. PICK c \in cache : c.key = Start /\ c.entry = 1
      BY <1>3
    <3>2. c \in Under(Start)
      BY <3>1 DEF Under
    <3>3. QED
      BY <3>1, <3>2 DEF Cached
  <2>2. epoch = 0 /\ f.key = Start /\ f.epoch = 0 /\ f.loads /\ f.used = {}
    BY <1>1 DEF PageInit
  <2>3. ~\E j \in 1..Len(fetches) : 1 < j
    BY <1>2
  <2>4. QED
    BY <1>2, <2>1, <2>2, <2>3 DEF Once
<1>8. \A i \in 1..Len(fetches) : i = 1
  BY <1>2
<1>9. QED
  BY <1>2, <1>5, <1>6, <1>7, <1>8 DEF PageInv

(* One entry changes and stays what it is.                                 *)
LEMMA EntryChanges ==
  ASSUME PageInv, NEW i \in 1..Len(fetches), NEW f \in PageEntry, fetches' = [fetches EXCEPT ![i] = f],
         fetches[i].status # "gone", f.status # "gone", f.key = fetches[i].key,
         f.data = fetches[i].data \/ f.data >= owed[f.key],
         f.status = "pending" => fetches[i].status = "pending",
         Policy[f.key] = "each" =>
           \/ f.epoch = fetches[i].epoch
           \/ f.epoch = epoch /\ i \in Cached(f.key),
         Policy[f.key] = "each" =>
            f.loads /\ f.used \subseteq IF f.prefetched THEN {} ELSE {f.epoch},
         UNCHANGED <<cache, epoch, served, owed, runs, location>>, FreshAfterAction',
         shown' \in [data : 0..NotRead, owed : 0..MaxWrites]
  PROVE  PageInv'
<1>1. PageTypeOK /\ CacheSound /\ Behind
  BY DEF PageInv
<1>2. /\ fetches' \in Seq(PageEntry) /\ Len(fetches') = Len(fetches) /\ fetches'[i] = f
      /\ \A j \in 1..Len(fetches) \ {i} : fetches'[j] = fetches[j]
      /\ \A j \in 1..Len(fetches) : fetches[j] \in PageEntry
  BY <1>1 DEF PageTypeOK
<1>3. PageTypeOK'
  BY <1>1, <1>2 DEF PageTypeOK
<1>4. CacheSound'
  <2>1. \A c \in cache : c.entry \in 1..Len(fetches)
    BY <1>1 DEF PageTypeOK
  <2>2. ASSUME NEW c \in cache
        PROVE  /\ fetches'[c.entry].key = c.key /\ fetches'[c.entry].status # "gone"
               /\ fetches'[c.entry].data >= owed[c.key]
    <3>1. /\ fetches[c.entry].key = c.key /\ fetches[c.entry].status # "gone"
          /\ fetches[c.entry].data >= owed[c.key] /\ c.entry \in 1..Len(fetches)
      BY <1>1, <2>1 DEF CacheSound
    <3>2. CASE c.entry = i
      BY <1>2, <3>1, <3>2
    <3>3. CASE c.entry # i
      BY <1>2, <3>1, <3>3
    <3>4. QED
      BY <3>2, <3>3
  <2>3. QED
    BY <1>1, <2>2 DEF CacheSound
<1>5. Behind'
  BY <1>1 DEF Behind
<1>6. \A j \in 1..Len(fetches) : fetches'[j].status = "gone" => fetches'[j] = Gone
  BY <1>2 DEF PageInv
<1>7. \A j \in 1..Len(fetches) : Each(j)' => Each(j)
  BY <1>2 DEF Each
<1>8. \A k : Cached(k)' = Cached(k)
  BY DEF Cached, Under
<1>9. ASSUME NEW j \in 1..Len(fetches), Each(j)' PROVE Once(j)'
  <2>1. Once(j) /\ Each(j) /\ fetches'[j].key = fetches[j].key
    BY <1>2, <1>7, <1>9 DEF PageInv
  <2>2. \A m \in 1..Len(fetches) : fetches'[m].key = fetches[m].key
    BY <1>2
  <2>3. /\ fetches'[j].epoch <= epoch /\ fetches'[j].loads
        /\ fetches'[j].used \subseteq IF fetches'[j].prefetched THEN {} ELSE {fetches'[j].epoch}
    <3>1. CASE j = i
      BY <1>1, <1>2, <1>9, <2>1, <3>1 DEF Once, Each, PageTypeOK
    <3>2. CASE j # i
      BY <1>2, <2>1, <3>2 DEF Once
    <3>3. QED
      BY <3>1, <3>2
  <2>4. j \in Cached(fetches[j].key) \/ (fetches'[j].status # "pending" /\ fetches'[j].epoch < epoch)
    <3>1. CASE j = i
      BY <1>2, <1>9, <2>1, <3>1 DEF Once, Each
    <3>2. CASE j # i
      BY <1>2, <2>1, <3>2 DEF Once
    <3>3. QED
      BY <3>1, <3>2
  <2>5. ASSUME NEW m \in 1..Len(fetches), j < m, Each(m)', fetches[m].key = fetches[j].key
        PROVE  j \notin Cached(fetches[j].key) /\ fetches'[j].epoch < fetches'[m].epoch
    <3>1. j \notin Cached(fetches[j].key) /\ fetches[j].epoch < fetches[m].epoch /\ fetches[j].epoch < epoch
      BY <1>7, <2>1, <2>5 DEF Once
    <3>2. fetches'[j].epoch = fetches[j].epoch
      BY <1>2, <1>9, <3>1 DEF Each
    <3>3. fetches'[m].epoch = fetches[m].epoch \/ fetches'[m].epoch = epoch
      BY <1>2, <2>5 DEF Each
    <3>4. QED
      BY <3>1, <3>2, <3>3
  <2>6. QED
    BY <1>2, <1>8, <2>2, <2>3, <2>4, <2>5 DEF Once
<1>10. QED
  BY <1>2, <1>3, <1>4, <1>5, <1>6, <1>9 DEF PageInv

LEMMA LoaderReadsKeeps == ASSUME PageInv, LoaderReads PROVE PageInv'
<1>1. PICK i \in 1..Len(fetches) :
        /\ fetches[i].status = "pending" /\ fetches[i].data = NotRead
        /\ fetches' = [fetches EXCEPT ![i].data = served[fetches[i].key]]
  BY DEF LoaderReads
<1>2. UNCHANGED <<served, cache, warmed, location, epoch, shown, runs, owed>>
  BY DEF LoaderReads
<1>3. fetches[i] \in PageEntry /\ PageTypeOK /\ Behind
  BY <1>1 DEF PageInv, PageTypeOK
<1>4. PICK f : f = [fetches[i] EXCEPT !.data = served[fetches[i].key]]
  OBVIOUS
<1>5. /\ served[fetches[i].key] \in 0..NotRead /\ served[fetches[i].key] >= owed[fetches[i].key]
  <2>1. MaxWrites \in Nat /\ fetches[i].key \in Pages
    BY <1>3, PageAssumption DEF PageAssumption, PageEntry
  <2>2. served[fetches[i].key] \in 0..MaxWrites /\ owed[fetches[i].key] <= served[fetches[i].key]
    BY <1>3, <2>1 DEF PageTypeOK, Behind
  <2>3. owed[fetches[i].key] \in 0..MaxWrites
    BY <1>3, <2>1 DEF PageTypeOK
  <2>4. QED
    BY <2>1, <2>2, <2>3 DEF NotRead
<1>6. /\ f \in PageEntry /\ f.status = "pending" /\ f.key = fetches[i].key /\ f.data >= owed[f.key]
      /\ f.epoch = fetches[i].epoch /\ f.loads = fetches[i].loads
      /\ f.prefetched = fetches[i].prefetched /\ f.used = fetches[i].used
  BY <1>1, <1>3, <1>4, <1>5 DEF PageEntry
<1>7. fetches' = [fetches EXCEPT ![i] = f]
  BY <1>1, <1>4
<1>8. Policy[f.key] = "each" =>
        f.loads /\ f.used \subseteq IF f.prefetched THEN {} ELSE {f.epoch}
  BY <1>1, <1>6 DEF PageInv, Each, Once
<1>9. FreshAfterAction' /\ shown' \in [data : 0..NotRead, owed : 0..MaxWrites]
  BY <1>2, <1>3 DEF PageInv, PageTypeOK, FreshAfterAction
<1>10. QED
  BY <1>1, <1>2, <1>6, <1>7, <1>8, <1>9, EntryChanges

LEMMA SettleKeeps == ASSUME PageInv, Settle PROVE PageInv'
<1>1. PICK i \in 1..Len(fetches), status \in {"done", "error"} :
        /\ fetches[i].status = "pending"
        /\ fetches' = [fetches EXCEPT ![i].status = status]
  BY DEF Settle
<1>2. UNCHANGED <<served, cache, warmed, location, epoch, shown, runs, owed>>
  BY DEF Settle
<1>3. fetches[i] \in PageEntry /\ PageTypeOK
  BY <1>1 DEF PageInv, PageTypeOK
<1>4. PICK f : f = [fetches[i] EXCEPT !.status = status]
  OBVIOUS
<1>5. /\ f \in PageEntry /\ f.status = status /\ f.key = fetches[i].key /\ f.data = fetches[i].data
      /\ f.epoch = fetches[i].epoch /\ f.loads = fetches[i].loads
      /\ f.prefetched = fetches[i].prefetched /\ f.used = fetches[i].used
  BY <1>1, <1>3, <1>4 DEF PageEntry
<1>6. fetches' = [fetches EXCEPT ![i] = f]
  BY <1>1, <1>4
<1>7. Policy[f.key] = "each" =>
        f.loads /\ f.used \subseteq IF f.prefetched THEN {} ELSE {f.epoch}
  BY <1>1, <1>5 DEF PageInv, Each, Once
<1>8. FreshAfterAction' /\ shown' \in [data : 0..NotRead, owed : 0..MaxWrites]
  BY <1>2, <1>3 DEF PageInv, PageTypeOK, FreshAfterAction
<1>9. QED
  BY <1>1, <1>2, <1>5, <1>6, <1>7, <1>8, EntryChanges

(* A render shows the entry that is cached and claims it.                  *)
LEMMA ShowKeeps == ASSUME PageInv, Show PROVE PageInv'
<1>1. PICK i \in Cached(location) :
        /\ fetches[i].status = "done" /\ ~Stale(fetches[i])
        /\ fetches' = [fetches EXCEPT ![i] = Claim(fetches[i])]
        /\ shown' = [data |-> fetches[i].data, owed |-> owed[location]]
  BY DEF Show
<1>2. UNCHANGED <<served, cache, warmed, location, epoch, runs, owed>>
  BY DEF Show
<1>3. PageTypeOK /\ CacheSound
  BY DEF PageInv
<1>4. /\ i \in 1..Len(fetches) /\ fetches[i].key = location /\ fetches[i].data >= owed[location]
      /\ fetches[i] \in PageEntry
  BY <1>1, <1>3 DEF Cached, Under, CacheSound, PageTypeOK
<1>5. PICK g : g = fetches[i]
  OBVIOUS
<1>6. PICK f : f = Claim(g)
  OBVIOUS
<1>7. /\ f \in PageEntry /\ f.status = "done" /\ f.key = location /\ f.data = g.data /\ f.loads = g.loads
      /\ f.used = g.used \cup {epoch} /\ ~f.prefetched
      /\ f.epoch = IF g.prefetched THEN epoch ELSE g.epoch
  BY <1>1, <1>3, <1>4, <1>5, <1>6 DEF Claim, PageEntry, PageTypeOK
<1>8. fetches' = [fetches EXCEPT ![i] = f]
  BY <1>1, <1>5, <1>6
<1>9. Policy[location] = "each" => /\ f.loads /\ f.used \subseteq {f.epoch}
                                   /\ f.epoch = g.epoch \/ f.epoch = epoch
  <2>1. SUFFICES ASSUME Policy[location] = "each"
                 PROVE  f.loads /\ f.used \subseteq {f.epoch} /\ (f.epoch = g.epoch \/ f.epoch = epoch)
    OBVIOUS
  <2>2. g.loads /\ g.used \subseteq IF g.prefetched THEN {} ELSE {g.epoch}
    BY <1>1, <1>4, <1>5, <2>1 DEF PageInv, Each, Once
  <2>3. g.prefetched \/ g.epoch = epoch
    BY <1>1, <1>4, <1>5, <2>1, <2>2 DEF Stale
  <2>4. QED
    BY <1>7, <2>2, <2>3
<1>10. FreshAfterAction' /\ shown' \in [data : 0..NotRead, owed : 0..MaxWrites]
  BY <1>1, <1>3, <1>4 DEF FreshAfterAction, PageEntry, PageTypeOK
<1>11. QED
  BY <1>1, <1>2, <1>4, <1>5, <1>7, <1>8, <1>9, <1>10, EntryChanges

(* Steps that leave the entries alone.                                     *)
LEMMA NothingFetched ==
  ASSUME PageInv, UNCHANGED <<cache, fetches, owed, shown>>, epoch' \in Nat, epoch' >= epoch,
         PageTypeOK', Behind'
  PROVE  PageInv'
<1>1. CacheSound' /\ FreshAfterAction'
  BY DEF PageInv, CacheSound, FreshAfterAction
<1>2. \A i \in 1..Len(fetches) : fetches[i] \in PageEntry
  BY DEF PageInv, PageTypeOK
<1>3. epoch \in Nat
  BY DEF PageInv, PageTypeOK
<1>4. \A k : Cached(k)' = Cached(k)
  BY DEF Cached, Under
<1>5. ASSUME NEW i \in 1..Len(fetches), Each(i) PROVE Once(i)'
  <2>1. Once(i) /\ fetches[i].epoch \in Nat
    BY <1>2, <1>5 DEF PageInv, PageEntry
  <2>2. fetches[i].epoch <= epoch' /\ (fetches[i].epoch < epoch => fetches[i].epoch < epoch')
    BY <1>3, <2>1 DEF Once
  <2>3. \A j \in 1..Len(fetches) : Each(j)' => Each(j)
    BY DEF Each
  <2>4. QED
    BY <1>4, <2>1, <2>2, <2>3 DEF Once
<1>6. QED
  BY <1>1, <1>5 DEF PageInv, Each

(* startFetch: what it puts in, and what it drops.                         *)
Started(n, dropped, entries, k, f) ==
  /\ Len(fetches') = n + 1 /\ fetches'[n + 1] = f /\ fetches' \in Seq(PageEntry)
  /\ \A i \in 1..n : fetches'[i] = IF i \in dropped THEN Gone ELSE fetches[i]
  /\ \A c \in entries : c \in [key : Pages, entry : 1..(n + 1), since : Nat]
  /\ \A c \in entries :
       \/ c.key = k /\ c.entry = n + 1
       \/ c \in cache /\ c.key # k /\ c.entry \notin dropped
  /\ \A c \in cache : c.key # k => c \in entries \/ c.entry \in dropped
  /\ \E c \in entries : c.key = k /\ c.entry = n + 1
  /\ \A c, d \in entries : c.key = d.key => c = d

LEMMA GoneIsEntry == PageAssumption => Gone \in PageEntry
BY DEF Gone, PageEntry, PageAssumption, NotRead

LEMMA FetchStarts ==
  ASSUME PageInv, NEW k \in Pages, NEW ahead \in BOOLEAN, StartFetch(k, ahead)
  PROVE  \E dropped : Started(Len(fetches), dropped, cache', k, Fetch(k, ahead))
<1>1. PageTypeOK /\ CacheSound
  BY DEF PageInv
<1>2. PICK n \in Nat : n = Len(fetches)
  BY <1>1 DEF PageTypeOK
<1>3. PICK places : places = IF Under(k) = {} THEN {n + 1} ELSE {c.since : c \in Under(k)}
  OBVIOUS
<1>4. PICK next : next = (cache \ Under(k)) \cup {[key |-> k, entry |-> n + 1, since |-> p] : p \in places}
  OBVIOUS
<1>5. PICK over : over = {c \in next : /\ c.key # k
                                      /\ Cardinality({d \in next : d.since > c.since}) >= MaxEntries}
  OBVIOUS
<1>6. PICK dropped : dropped = {c.entry : c \in over}
  OBVIOUS
<1>7. cache' = next \ over /\ fetches' = Append(Drop(fetches, dropped), Fetch(k, ahead))
  BY <1>2, <1>3, <1>4, <1>5, <1>6 DEF StartFetch
<1>8. \A c \in Under(k) : c \in cache /\ c.key = k
  BY DEF Under
<1>9. \A c \in cache : c.key # k => c \notin Under(k)
  BY <1>8
<1>10. places # {} /\ (\A p \in places : p \in Nat) /\ (\A p, q \in places : p = q)
  <2>1. CASE Under(k) = {}
    BY <1>2, <1>3, <2>1
  <2>2. CASE Under(k) # {}
    <3>1. \A c, d \in Under(k) : c = d /\ c.since \in Nat
      BY <1>1, <1>8 DEF CacheSound, PageTypeOK
    <3>2. QED
      BY <1>3, <2>2, <3>1
  <2>3. QED
    BY <2>1, <2>2
<1>11. \A c \in next : \/ c \in cache /\ c.key # k
                       \/ \E p \in places : c = [key |-> k, entry |-> n + 1, since |-> p]
  BY <1>4 DEF Under
<1>12. over \subseteq next /\ \A c \in over : c \in cache /\ c.key # k
  BY <1>5, <1>11
<1>13. Fetch(k, ahead) \in PageEntry
  BY <1>1, PageAssumption DEF Fetch, PageEntry, NotRead, PageAssumption, PageTypeOK
<1>14. /\ Drop(fetches, dropped) \in Seq(PageEntry) /\ Len(Drop(fetches, dropped)) = n
       /\ \A i \in 1..n : Drop(fetches, dropped)[i] = IF i \in dropped THEN Gone ELSE fetches[i]
  <2>1. \A i \in 1..n : (IF i \in dropped THEN Gone ELSE fetches[i]) \in PageEntry
    BY <1>1, <1>2, GoneIsEntry, PageAssumption DEF PageTypeOK
  <2>2. Drop(fetches, dropped) = [i \in 1..n |-> IF i \in dropped THEN Gone ELSE fetches[i]]
    BY <1>2 DEF Drop
  <2>3. QED
    BY <1>2, <2>1, <2>2
<1>15. /\ Len(fetches') = n + 1 /\ fetches'[n + 1] = Fetch(k, ahead) /\ fetches' \in Seq(PageEntry)
       /\ \A i \in 1..n : fetches'[i] = IF i \in dropped THEN Gone ELSE fetches[i]
  BY <1>2, <1>7, <1>13, <1>14
<1>16. \A c \in cache' : \/ c.key = k /\ c.entry = n + 1
                         \/ c \in cache /\ c.key # k /\ c.entry \notin dropped
  <2>1. SUFFICES ASSUME NEW c \in cache', c \in cache, c.key # k, c.entry \in dropped PROVE FALSE
    BY <1>7, <1>11
  <2>2. PICK d \in over : d.entry = c.entry
    BY <1>6, <2>1
  <2>3. d = c
    BY <1>1, <1>12, <2>1, <2>2 DEF CacheSound
  <2>4. QED
    BY <1>7, <2>1, <2>2, <2>3
<1>17. \A c \in cache' : c \in [key : Pages, entry : 1..(n + 1), since : Nat]
  BY <1>1, <1>2, <1>7, <1>10, <1>11 DEF PageTypeOK
<1>18. \A c \in cache : c.key # k => c \in cache' \/ c.entry \in dropped
  BY <1>4, <1>6, <1>7, <1>9
<1>19. \E c \in cache' : c.key = k /\ c.entry = n + 1
  <2>1. PICK p \in places : TRUE
    BY <1>10
  <2>2. PICK c : c = [key |-> k, entry |-> n + 1, since |-> p]
    OBVIOUS
  <2>3. c \in next /\ c.key = k /\ c.entry = n + 1
    BY <1>4, <2>1, <2>2
  <2>4. QED
    BY <1>7, <1>12, <2>3
<1>20. \A c, d \in cache' : c.key = d.key => c = d
  BY <1>1, <1>7, <1>10, <1>11 DEF CacheSound
<1>21. Started(n, dropped, cache', k, Fetch(k, ahead))
  BY <1>15, <1>16, <1>17, <1>18, <1>19, <1>20 DEF Started
<1>22. QED
  BY <1>2, <1>21

LEMMA StartKeeps ==
  ASSUME PageInv, NEW k \in Pages, NEW ahead \in BOOLEAN, StartFetch(k, ahead),
         UNCHANGED <<served, location, epoch, shown, runs, owed>>,
         Policy[k] = "each" =>
           \A i \in Cached(k) : fetches[i].status # "pending" /\ fetches[i].epoch < epoch
  PROVE  PageInv'
<1>1. PageTypeOK /\ CacheSound /\ Behind /\ MaxWrites \in Nat
  BY PageAssumption DEF PageInv, PageAssumption
<1>2. PICK n \in Nat : n = Len(fetches)
  BY <1>1 DEF PageTypeOK
<1>3. PICK f : f = Fetch(k, ahead)
  OBVIOUS
<1>4. PICK dropped : Started(n, dropped, cache', k, f)
  BY <1>2, <1>3, FetchStarts
<1>5. /\ Len(fetches') = n + 1 /\ fetches'[n + 1] = f /\ fetches' \in Seq(PageEntry)
      /\ \A i \in 1..n : fetches'[i] = IF i \in dropped THEN Gone ELSE fetches[i]
  BY <1>4 DEF Started
<1>6. /\ \A c \in cache' : c \in [key : Pages, entry : 1..(n + 1), since : Nat]
      /\ \A c \in cache' : \/ c.key = k /\ c.entry = n + 1
                           \/ c \in cache /\ c.key # k /\ c.entry \notin dropped
      /\ \A c \in cache : c.key # k => c \in cache' \/ c.entry \in dropped
      /\ \E c \in cache' : c.key = k /\ c.entry = n + 1
      /\ \A c, d \in cache' : c.key = d.key => c = d
  BY <1>4 DEF Started
<1>7. /\ f.key = k /\ f.status = "pending" /\ f.epoch = epoch /\ (Policy[k] = "each" => f.loads)
      /\ f.data = NotRead /\ f.used = {}
  BY <1>3 DEF Fetch
<1>8. PageTypeOK'
  BY <1>1, <1>5, <1>6 DEF PageTypeOK
<1>9. Behind' /\ FreshAfterAction'
  BY <1>1 DEF PageInv, Behind, FreshAfterAction
<1>10. CacheSound'
  <2>1. ASSUME NEW c \in cache'
        PROVE  /\ fetches'[c.entry].key = c.key /\ fetches'[c.entry].status # "gone"
               /\ fetches'[c.entry].data >= owed[c.key]
    <3>1. CASE c.key = k /\ c.entry = n + 1
      <4>1. owed[k] \in 0..MaxWrites
        BY <1>1 DEF PageTypeOK
      <4>2. QED
        BY <1>1, <1>5, <1>7, <3>1, <4>1 DEF NotRead
    <3>2. CASE c \in cache /\ c.key # k /\ c.entry \notin dropped
      <4>1. c.entry \in 1..n
        BY <1>1, <1>2, <3>2 DEF PageTypeOK
      <4>2. fetches'[c.entry] = fetches[c.entry]
        BY <1>5, <3>2, <4>1
      <4>3. QED
        BY <1>1, <3>2, <4>2 DEF CacheSound
    <3>3. QED
      BY <1>6, <2>1, <3>1, <3>2
  <2>2. QED
    BY <1>6, <2>1 DEF CacheSound
<1>11. ASSUME NEW i \in 1..(n + 1), fetches'[i].status = "gone" PROVE fetches'[i] = Gone
  <2>1. i \in 1..n
    BY <1>2, <1>5, <1>7, <1>11
  <2>2. QED
    BY <1>2, <1>5, <1>11, <2>1 DEF PageInv
<1>12. ASSUME NEW i \in 1..n, Each(i)'
       PROVE  Each(i) /\ fetches'[i] = fetches[i] /\ i \notin dropped
  BY <1>5, <1>12 DEF Each, Gone
<1>13. n + 1 \in Cached(k)'
  <2>1. PICK c \in cache' : c.key = k /\ c.entry = n + 1
    BY <1>6
  <2>2. QED
    BY <2>1 DEF Cached, Under
<1>14. \A i \in 1..n : i \notin Cached(k)'
  BY <1>2, <1>6 DEF Cached, Under
<1>15. ASSUME NEW i \in 1..n, NEW q \in Pages, q # k, i \notin dropped
       PROVE  i \in Cached(q) <=> i \in Cached(q)'
  <2>1. ASSUME i \in Cached(q) PROVE i \in Cached(q)'
    <3>1. PICK c \in cache : c.key = q /\ c.entry = i
      BY <2>1 DEF Cached, Under
    <3>2. c \in cache'
      BY <1>6, <1>15, <3>1
    <3>3. QED
      BY <3>1, <3>2 DEF Cached, Under
  <2>2. ASSUME i \in Cached(q)' PROVE i \in Cached(q)
    <3>1. PICK c \in cache' : c.key = q /\ c.entry = i
      BY <2>2 DEF Cached, Under
    <3>2. c \in cache
      BY <1>6, <1>15, <3>1
    <3>3. QED
      BY <3>1, <3>2 DEF Cached, Under
  <2>3. QED
    BY <2>1, <2>2
<1>16. ASSUME NEW i \in 1..(n + 1), Each(i)' PROVE Once(i)'
  <2>1. CASE i = n + 1
    <3>1. epoch \in Nat /\ Policy[k] = "each"
      BY <1>1, <1>5, <1>7, <1>16, <2>1 DEF PageTypeOK, Each
    <3>2. ~\E j \in 1..(n + 1) : i < j
      BY <1>2, <2>1
    <3>3. fetches'[i] = f /\ i \in Cached(k)'
      BY <1>5, <1>13, <2>1
    <3>4. f.epoch <= epoch /\ f.loads /\ f.used = {}
      BY <1>7, <3>1
    <3>5. QED
      BY <1>5, <1>7, <3>2, <3>3, <3>4 DEF Once
  <2>2. CASE i \in 1..n
    <3>1. Each(i) /\ fetches'[i] = fetches[i] /\ i \notin dropped /\ Once(i) /\ fetches[i] \in PageEntry
      BY <1>1, <1>2, <1>12, <1>16, <2>2 DEF PageInv, PageTypeOK
    <3>2. PICK q \in Pages : q = fetches[i].key
      BY <3>1 DEF PageEntry
    <3>3. \A j \in 1..n : Each(j)' => Each(j) /\ fetches'[j] = fetches[j]
      BY <1>12
    <3>4. /\ fetches[i].epoch <= epoch /\ fetches[i].loads
          /\ fetches[i].used \subseteq IF fetches[i].prefetched THEN {} ELSE {fetches[i].epoch}
      BY <3>1 DEF Once
    <3>5. CASE q = k
      <4>1. fetches[i].status # "pending" /\ fetches[i].epoch < epoch
        BY <3>1, <3>2, <3>5 DEF Once, Each
      <4>2. i \notin Cached(q)'
        BY <1>14, <2>2, <3>5
      <4>3. \A j \in 1..(n + 1) : i < j /\ Each(j)' /\ fetches'[j].key = q
              => fetches[i].epoch < fetches'[j].epoch
        BY <1>2, <1>5, <1>7, <3>1, <3>2, <3>3, <4>1 DEF Once
      <4>4. QED
        BY <1>5, <3>1, <3>2, <3>4, <4>1, <4>2, <4>3 DEF Once
    <3>6. CASE q # k
      <4>1. i \in Cached(q) <=> i \in Cached(q)'
        BY <1>15, <2>2, <3>1, <3>6
      <4>2. \A j \in 1..(n + 1) : i < j /\ Each(j)' /\ fetches'[j].key = q
              => i \notin Cached(q) /\ fetches[i].epoch < fetches'[j].epoch
        BY <1>2, <1>5, <1>7, <3>1, <3>2, <3>3, <3>6 DEF Once
      <4>3. i \in Cached(q) \/ (fetches[i].status # "pending" /\ fetches[i].epoch < epoch)
        BY <3>1, <3>2 DEF Once
      <4>4. QED
        BY <1>5, <3>1, <3>2, <3>4, <4>1, <4>2, <4>3 DEF Once
    <3>7. QED
      BY <3>5, <3>6
  <2>3. QED
    BY <1>2, <1>16, <2>1, <2>2
<1>17. QED
  BY <1>5, <1>8, <1>9, <1>10, <1>11, <1>16 DEF PageInv

LEMMA RefetchKeeps == ASSUME PageInv, Refetch PROVE PageInv'
<1>1. /\ \A i \in Cached(location) : Stale(fetches[i]) \/ Expired(fetches[i])
      /\ StartFetch(location, FALSE) /\ UNCHANGED <<served, warmed, location, epoch, shown, runs, owed>>
  BY DEF Refetch
<1>2. PageTypeOK /\ CacheSound /\ location \in Pages
  BY DEF PageInv, PageTypeOK
<1>3. ASSUME Policy[location] = "each", NEW i \in Cached(location)
      PROVE  fetches[i].status # "pending" /\ fetches[i].epoch < epoch
  <2>1. /\ i \in 1..Len(fetches) /\ fetches[i] \in PageEntry /\ fetches[i].key = location
        /\ fetches[i].status # "gone"
    BY <1>2, <1>3 DEF Cached, Under, PageTypeOK, CacheSound
  <2>2. fetches[i].epoch <= epoch
    BY <1>3, <2>1 DEF PageInv, Each, Once
  <2>3. fetches[i].status # "pending" /\ fetches[i].epoch # epoch
    BY <1>1, <1>3, <2>1 DEF Stale, Expired, FailedBefore
  <2>4. fetches[i].epoch \in Nat /\ epoch \in Nat
    BY <1>2, <2>1 DEF PageEntry, PageTypeOK
  <2>5. QED
    BY <2>2, <2>3, <2>4
<1>4. QED
  BY <1>1, <1>2, <1>3, StartKeeps

LEMMA PrefetchKeeps == ASSUME PageInv, PrefetchData PROVE PageInv'
<1>1. PICK k \in Pages \ warmed :
        /\ warmed' = warmed \cup {k}
        /\ IF \A i \in Cached(k) : FailedBefore(fetches[i])
           THEN StartFetch(k, TRUE) ELSE UNCHANGED <<cache, fetches>>
        /\ UNCHANGED <<served, location, epoch, shown, runs, owed>>
  BY DEF PrefetchData
<1>2. PageTypeOK /\ CacheSound
  BY DEF PageInv
<1>3. CASE \A i \in Cached(k) : FailedBefore(fetches[i])
  <2>1. ASSUME Policy[k] = "each", NEW i \in Cached(k)
        PROVE  fetches[i].status # "pending" /\ fetches[i].epoch < epoch
    <3>1. /\ i \in 1..Len(fetches) /\ fetches[i] \in PageEntry /\ fetches[i].key = k
          /\ fetches[i].status # "gone"
      BY <1>2, <2>1 DEF Cached, Under, PageTypeOK, CacheSound
    <3>2. fetches[i].epoch <= epoch
      BY <2>1, <3>1 DEF PageInv, Each, Once
    <3>3. fetches[i].status # "pending" /\ fetches[i].epoch # epoch
      BY <1>3, <2>1 DEF FailedBefore
    <3>4. fetches[i].epoch \in Nat /\ epoch \in Nat
      BY <1>2, <3>1 DEF PageEntry, PageTypeOK
    <3>5. QED
      BY <3>2, <3>3, <3>4
  <2>2. StartFetch(k, TRUE)
    BY <1>1, <1>3
  <2>3. QED
    BY <1>1, <2>1, <2>2, StartKeeps
<1>4. CASE ~\A i \in Cached(k) : FailedBefore(fetches[i])
  <2>1. UNCHANGED <<served, cache, fetches, location, epoch, shown, runs, owed>>
    BY <1>1, <1>4
  <2>2. PageTypeOK' /\ Behind' /\ epoch \in Nat
    BY <1>2, <2>1 DEF PageInv, PageTypeOK, Behind
  <2>3. QED
    BY <2>1, <2>2, NothingFetched
<1>5. QED
  BY <1>3, <1>4

LEMMA NavigateKeeps == ASSUME PageInv, Navigate PROVE PageInv'
<1>1. /\ epoch' = epoch + 1 /\ location' \in Pages
      /\ UNCHANGED <<served, cache, fetches, warmed, shown, runs, owed>>
  BY DEF Navigate
<1>2. PageTypeOK' /\ Behind' /\ epoch \in Nat
  BY <1>1 DEF PageInv, PageTypeOK, Behind
<1>3. QED
  BY <1>1, <1>2, NothingFetched

(* The steps of an action.                                                 *)
LEMMA IdleRun ==
  PageAssumption => Idle \in [at : {"idle", "sent", "written"}, key : Pages, targets : SUBSET Pages,
                              wrote : 0..MaxWrites]
BY DEF Idle, PageAssumption

LEMMA RunActionKeeps == ASSUME PageInv, NEW r \in Runs, RunAction(r) PROVE PageInv'
<1>1. PICK k \in Pages : \E targets \in SUBSET Pages :
        runs' = [runs EXCEPT ![r] = [at |-> "sent", key |-> k, targets |-> targets, wrote |-> 0]]
  BY DEF RunAction
<1>2. PICK targets \in SUBSET Pages :
         runs' = [runs EXCEPT ![r] = [at |-> "sent", key |-> k, targets |-> targets, wrote |-> 0]]
  BY <1>1
<1>3. UNCHANGED <<served, cache, fetches, warmed, location, epoch, shown, owed>>
  BY DEF RunAction
<1>4. PageTypeOK /\ Behind /\ MaxWrites \in Nat
  BY PageAssumption DEF PageInv, PageAssumption
<1>5. PICK q : q = [at |-> "sent", key |-> k, targets |-> targets, wrote |-> 0]
  OBVIOUS
<1>6. /\ q \in [at : {"idle", "sent", "written"}, key : Pages, targets : SUBSET Pages,
                wrote : 0..MaxWrites]
      /\ q.wrote = 0 /\ q.key = k
  BY <1>1, <1>2, <1>4, <1>5
<1>7. runs'[r] = q /\ \A s \in Runs \ {r} : runs'[s] = runs[s]
  BY <1>1, <1>2, <1>4, <1>5 DEF PageTypeOK
<1>8. runs' \in [Runs -> [at : {"idle", "sent", "written"}, key : Pages, targets : SUBSET Pages,
                          wrote : 0..MaxWrites]]
  BY <1>1, <1>2, <1>4, <1>5, <1>6 DEF PageTypeOK
<1>9. PageTypeOK' /\ epoch \in Nat
  BY <1>3, <1>4, <1>8 DEF PageTypeOK
<1>10. 0 <= served[k]
  BY <1>1, <1>4 DEF PageTypeOK
<1>11. Behind'
  BY <1>3, <1>4, <1>6, <1>7, <1>10 DEF Behind
<1>12. QED
  BY <1>3, <1>9, <1>11, NothingFetched

LEMMA WriteKeeps == ASSUME PageInv, NEW r \in Runs, Write(r) PROVE PageInv'
<1>1. PICK k : k = runs[r].key
  OBVIOUS
<1>2. /\ served[k] < MaxWrites /\ served' = [served EXCEPT ![k] = @ + 1]
      /\ runs' = [runs EXCEPT ![r].at = "written", ![r].wrote = served[k] + 1]
      /\ UNCHANGED <<cache, fetches, warmed, location, epoch, shown, owed>>
  BY <1>1 DEF Write
<1>3. PageTypeOK /\ Behind /\ MaxWrites \in Nat
  BY PageAssumption DEF PageInv, PageAssumption
<1>4. PICK w : w = served[k]
  OBVIOUS
<1>5. k \in Pages /\ w \in 0..MaxWrites /\ w < MaxWrites
  BY <1>1, <1>2, <1>3, <1>4 DEF PageTypeOK
<1>6. /\ served \in [Pages -> 0..MaxWrites] /\ w + 1 \in 0..MaxWrites
      /\ served' = [served EXCEPT ![k] = w + 1]
  <2>1. served \in [Pages -> 0..MaxWrites]
    BY <1>3 DEF PageTypeOK
  <2>2. w + 1 \in 0..MaxWrites
    BY <1>3, <1>5
  <2>3. served' = [served EXCEPT ![k] = w + 1]
    BY <1>2, <1>4
  <2>4. QED
    BY <2>1, <2>2, <2>3
<1>7. served'[k] = w + 1 /\ \A q \in Pages \ {k} : served'[q] = served[q]
  <2>1. served'[k] = w + 1
    BY <1>5, <1>6
  <2>2. ASSUME NEW q \in Pages \ {k} PROVE served'[q] = served[q]
    BY <1>6
  <2>3. QED
    BY <2>1, <2>2
<1>8. served' \in [Pages -> 0..MaxWrites]
  BY <1>5, <1>6
<1>9. PICK g : g = [runs[r] EXCEPT !.at = "written", !.wrote = w + 1]
  OBVIOUS
<1>10. /\ g \in [at : {"idle", "sent", "written"}, key : Pages, targets : SUBSET Pages,
                wrote : 0..MaxWrites]
      /\ g.wrote = w + 1 /\ g.key = k
  <2>1. runs[r] \in [at : {"idle", "sent", "written"}, key : Pages, targets : SUBSET Pages,
                     wrote : 0..MaxWrites]
    BY <1>3 DEF PageTypeOK
  <2>2. PICK v : v = w + 1
    OBVIOUS
  <2>3. v \in 0..MaxWrites
    BY <1>3, <1>5, <2>2
  <2>4. g = [runs[r] EXCEPT !.at = "written", !.wrote = v]
    BY <1>9, <2>2
  <2>5. /\ g \in [at : {"idle", "sent", "written"}, key : Pages, targets : SUBSET Pages,
                  wrote : 0..MaxWrites]
        /\ g.wrote = v /\ g.key = runs[r].key
    BY <2>1, <2>3, <2>4
  <2>6. QED
    BY <1>1, <2>2, <2>5
<1>11. runs' = [runs EXCEPT ![r] = g]
  BY <1>2, <1>4, <1>9
<1>12. runs'[r] = g /\ \A s \in Runs \ {r} : runs'[s] = runs[s]
  BY <1>3, <1>11 DEF PageTypeOK
<1>13. runs' \in [Runs -> [at : {"idle", "sent", "written"}, key : Pages, targets : SUBSET Pages,
                           wrote : 0..MaxWrites]]
  BY <1>3, <1>10, <1>11 DEF PageTypeOK
<1>14. PageTypeOK' /\ epoch \in Nat
  BY <1>2, <1>3, <1>8, <1>13 DEF PageTypeOK
<1>15. \A q \in Pages : served[q] \in Nat /\ served'[q] \in Nat /\ served[q] <= served'[q]
  <2>1. \A q \in Pages : served[q] \in Nat /\ served'[q] \in Nat
    BY <1>3, <1>8 DEF PageTypeOK
  <2>2. served[k] <= served'[k]
    BY <1>4, <1>5, <1>7
  <2>3. \A q \in Pages \ {k} : served[q] <= served'[q]
    BY <1>7, <2>1
  <2>4. QED
    BY <2>1, <2>2, <2>3
<1>16. /\ \A q \in Pages : owed[q] \in Nat
       /\ \A s \in Runs : runs[s].wrote \in Nat /\ runs[s].key \in Pages
  BY <1>3 DEF PageTypeOK
<1>17. \A q \in Pages : owed'[q] <= served'[q]
  BY <1>2, <1>3, <1>15, <1>16 DEF Behind
<1>18. \A s \in Runs : runs'[s].wrote <= served'[runs'[s].key]
  <2>1. ASSUME NEW s \in Runs \ {r} PROVE runs'[s].wrote <= served'[runs'[s].key]
    BY <1>3, <1>12, <1>15, <1>16 DEF Behind
  <2>2. runs'[r].wrote <= served'[runs'[r].key]
    BY <1>5, <1>7, <1>10, <1>12
  <2>3. QED
    BY <2>1, <2>2
<1>19. Behind'
  BY <1>17, <1>18 DEF Behind
<1>20. QED
  BY <1>2, <1>14, <1>19, NothingFetched

LEMMA ActionFailsKeeps == ASSUME PageInv, NEW r \in Runs, ActionFails(r) PROVE PageInv'
<1>1. /\ runs' = [runs EXCEPT ![r] = Idle]
      /\ UNCHANGED <<served, cache, fetches, warmed, location, epoch, shown, owed>>
  BY DEF ActionFails
<1>2. PageTypeOK /\ Behind /\ PageAssumption
  BY PageAssumption DEF PageInv
<1>3. runs' \in [Runs -> [at : {"idle", "sent", "written"}, key : Pages, targets : SUBSET Pages,
                          wrote : 0..MaxWrites]]
  BY <1>1, <1>2, IdleRun DEF PageTypeOK
<1>4. runs'[r] = Idle /\ \A s \in Runs \ {r} : runs'[s] = runs[s]
  BY <1>1, <1>2 DEF PageTypeOK
<1>5. PageTypeOK' /\ epoch \in Nat
  BY <1>1, <1>2, <1>3 DEF PageTypeOK
<1>6. 0 <= served[Start]
  BY <1>2 DEF PageTypeOK, PageAssumption
<1>7. Behind'
  BY <1>1, <1>2, <1>4, <1>6 DEF Behind, Idle
<1>8. QED
  BY <1>1, <1>5, <1>7, NothingFetched

LEMMA ActionDoneKeeps == ASSUME PageInv, NEW r \in Runs, ActionDone(r) PROVE PageInv'
<1>1. PICK q : q = runs[r]
  OBVIOUS
<1>2. PICK dropped : dropped = {c.entry : c \in Invalidated(q.targets)}
  OBVIOUS
<1>3. /\ cache' = cache \ Invalidated(q.targets)
      /\ fetches' = Drop(fetches, dropped)
      /\ epoch' = IF q.targets = {} THEN epoch ELSE epoch + 1
      /\ owed' = IF q.key \in q.targets /\ q.wrote > owed[q.key]
                 THEN [owed EXCEPT ![q.key] = q.wrote] ELSE owed
      /\ runs' = [runs EXCEPT ![r] = Idle]
      /\ UNCHANGED <<served, warmed, location, shown>>
  BY <1>1, <1>2 DEF ActionDone
<1>4. PageTypeOK /\ CacheSound /\ Behind /\ PageAssumption
  BY PageAssumption DEF PageInv
<1>5. PICK n \in Nat : n = Len(fetches)
  BY <1>4 DEF PageTypeOK
<1>6. /\ q \in [at : {"idle", "sent", "written"}, key : Pages, targets : SUBSET Pages, wrote : 0..MaxWrites]
      /\ q.wrote <= served[q.key] /\ q.key \in Pages /\ q.wrote \in 0..MaxWrites
  BY <1>1, <1>4 DEF PageTypeOK, Behind
<1>7. /\ fetches' \in Seq(PageEntry) /\ Len(fetches') = n
      /\ \A i \in 1..n : fetches'[i] = IF i \in dropped THEN Gone ELSE fetches[i]
  <2>1. \A i \in 1..n : (IF i \in dropped THEN Gone ELSE fetches[i]) \in PageEntry
    BY <1>4, <1>5, GoneIsEntry DEF PageTypeOK
  <2>2. fetches' = [i \in 1..n |-> IF i \in dropped THEN Gone ELSE fetches[i]]
    BY <1>3, <1>5 DEF Drop
  <2>3. QED
    BY <1>5, <2>1, <2>2
<1>8. /\ owed' \in [Pages -> 0..MaxWrites]
      /\ \A k \in Pages \ q.targets : owed'[k] = owed[k]
      /\ \A k \in Pages : owed'[k] <= served[k]
  <2>1. CASE q.key \in q.targets /\ q.wrote > owed[q.key]
    <3>1. owed' = [owed EXCEPT ![q.key] = q.wrote]
      BY <1>3, <2>1
    <3>2. owed'[q.key] = q.wrote /\ \A k \in Pages \ {q.key} : owed'[k] = owed[k]
      BY <1>4, <1>6, <3>1 DEF PageTypeOK
    <3>3. owed' \in [Pages -> 0..MaxWrites]
      BY <1>4, <1>6, <3>1 DEF PageTypeOK
    <3>4. \A k \in Pages : owed[k] <= served[k]
      BY <1>4 DEF Behind
    <3>5. \A k \in Pages : owed'[k] <= served[k]
      BY <1>6, <3>2, <3>4
    <3>6. QED
      BY <2>1, <3>2, <3>3, <3>5
  <2>2. CASE ~(q.key \in q.targets /\ q.wrote > owed[q.key])
    <3>1. owed' = owed
      BY <1>3, <2>2
    <3>2. QED
      BY <1>4, <3>1 DEF PageTypeOK, Behind
  <2>3. QED
    BY <2>1, <2>2
<1>9. epoch \in Nat /\ epoch' \in Nat /\ epoch' >= epoch
  <2>1. epoch \in Nat
    BY <1>4 DEF PageTypeOK
  <2>2. epoch' = epoch \/ epoch' = epoch + 1
    BY <1>3
  <2>3. QED
    BY <2>1, <2>2
<1>10. runs' \in [Runs -> [at : {"idle", "sent", "written"}, key : Pages, targets : SUBSET Pages,
                           wrote : 0..MaxWrites]]
  BY <1>3, <1>4, IdleRun DEF PageTypeOK
<1>11. runs'[r] = Idle /\ \A s \in Runs \ {r} : runs'[s] = runs[s]
  BY <1>3, <1>4 DEF PageTypeOK
<1>12. PageTypeOK'
  BY <1>3, <1>4, <1>5, <1>7, <1>8, <1>9, <1>10 DEF PageTypeOK
<1>13. Behind'
  <2>1. 0 <= served[Start]
    BY <1>4 DEF PageTypeOK, PageAssumption
  <2>2. \A s \in Runs : runs'[s].wrote <= served[runs'[s].key]
    BY <1>4, <1>11, <2>1 DEF Behind, Idle
  <2>3. QED
    BY <1>3, <1>8, <2>2 DEF Behind
<1>14. FreshAfterAction'
  BY <1>3 DEF PageInv, FreshAfterAction
<1>15. \A c \in cache : c \in cache' <=> c.key \notin q.targets
  BY <1>3 DEF Invalidated
<1>16. \A c \in cache : c.entry \in dropped => c.key \in q.targets
  <2>1. SUFFICES ASSUME NEW c \in cache, c.entry \in dropped PROVE c.key \in q.targets
    OBVIOUS
  <2>2. PICK d \in cache : d.key \in q.targets /\ d.entry = c.entry
    BY <1>2, <2>1 DEF Invalidated
  <2>3. QED
    BY <1>4, <2>2 DEF CacheSound
<1>17. CacheSound'
  <2>1. ASSUME NEW c \in cache'
        PROVE  /\ fetches'[c.entry].key = c.key /\ fetches'[c.entry].status # "gone"
               /\ fetches'[c.entry].data >= owed'[c.key]
    <3>1. c \in cache /\ c.key \in Pages \ q.targets /\ c.entry \in 1..n /\ c.entry \notin dropped
      BY <1>3, <1>4, <1>5, <1>15, <1>16, <2>1 DEF PageTypeOK
    <3>2. fetches'[c.entry] = fetches[c.entry] /\ owed'[c.key] = owed[c.key]
      BY <1>7, <1>8, <3>1
    <3>3. QED
      BY <1>4, <3>1, <3>2 DEF CacheSound
  <2>2. QED
    BY <1>3, <1>4, <2>1 DEF CacheSound
<1>18. \A i \in 1..n : fetches'[i].status = "gone" => fetches'[i] = Gone
  BY <1>5, <1>7 DEF PageInv
<1>19. ASSUME NEW i \in 1..n, Each(i)'
       PROVE  Each(i) /\ fetches'[i] = fetches[i] /\ i \notin dropped
  BY <1>7, <1>19 DEF Each, Gone
<1>20. ASSUME NEW i \in 1..n, NEW k \in Pages, i \notin dropped
       PROVE  i \in Cached(k) <=> i \in Cached(k)'
  <2>1. ASSUME i \in Cached(k) PROVE i \in Cached(k)'
    <3>1. PICK c \in cache : c.key = k /\ c.entry = i
      BY <2>1 DEF Cached, Under
    <3>2. c \in cache'
      BY <1>2, <1>3, <1>20, <3>1
    <3>3. QED
      BY <3>1, <3>2 DEF Cached, Under
  <2>2. ASSUME i \in Cached(k)' PROVE i \in Cached(k)
    BY <1>3, <2>2 DEF Cached, Under
  <2>3. QED
    BY <2>1, <2>2
<1>21. ASSUME NEW i \in 1..n, Each(i)' PROVE Once(i)'
  <2>1. Each(i) /\ fetches'[i] = fetches[i] /\ i \notin dropped /\ Once(i) /\ fetches[i] \in PageEntry
    BY <1>4, <1>5, <1>19, <1>21 DEF PageInv, PageTypeOK
  <2>2. PICK k \in Pages : k = fetches[i].key
    BY <2>1 DEF PageEntry
  <2>3. i \in Cached(k) <=> i \in Cached(k)'
    BY <1>20, <2>1
  <2>4. /\ fetches[i].epoch <= epoch' /\ fetches[i].loads
        /\ fetches[i].used \subseteq IF fetches[i].prefetched THEN {} ELSE {fetches[i].epoch}
    BY <1>9, <2>1 DEF Once, PageEntry
  <2>5. i \in Cached(k)' \/ (fetches[i].status # "pending" /\ fetches[i].epoch < epoch')
    BY <1>9, <2>1, <2>2, <2>3 DEF Once, PageEntry
  <2>6. \A j \in 1..n : i < j /\ Each(j)' /\ fetches'[j].key = k
          => i \notin Cached(k) /\ fetches[i].epoch < fetches'[j].epoch
    BY <1>5, <1>19, <2>1, <2>2 DEF Once
  <2>7. QED
    BY <1>7, <2>1, <2>2, <2>3, <2>4, <2>5, <2>6 DEF Once
<1>22. QED
  BY <1>7, <1>12, <1>13, <1>14, <1>17, <1>18, <1>21 DEF PageInv

LEMMA PageSteps == PageInv /\ [PageNext]_pageVars => PageInv'
<1>1. SUFFICES ASSUME PageInv, [PageNext]_pageVars PROVE PageInv'
  OBVIOUS
<1>2. CASE LoaderReads
  BY <1>1, <1>2, LoaderReadsKeeps
<1>3. CASE Settle
  BY <1>1, <1>3, SettleKeeps
<1>4. CASE Refetch
  BY <1>1, <1>4, RefetchKeeps
<1>5. CASE Show
  BY <1>1, <1>5, ShowKeeps
<1>6. CASE Navigate
  BY <1>1, <1>6, NavigateKeeps
<1>7. CASE PrefetchData
  BY <1>1, <1>7, PrefetchKeeps
<1>8. CASE \E r \in Runs : RunAction(r) \/ Write(r) \/ ActionFails(r) \/ ActionDone(r)
  BY <1>1, <1>8, RunActionKeeps, WriteKeeps, ActionFailsKeeps, ActionDoneKeeps
<1>9. CASE UNCHANGED pageVars
  <2>1. UNCHANGED <<served, cache, fetches, location, epoch, shown, runs, owed>>
    BY <1>9 DEF pageVars
  <2>2. PageTypeOK' /\ Behind' /\ epoch \in Nat
    BY <1>1, <2>1 DEF PageInv, PageTypeOK, Behind
  <2>3. QED
    BY <1>1, <2>1, <2>2, NothingFetched
<1>10. QED
  BY <1>1, <1>2, <1>3, <1>4, <1>5, <1>6, <1>7, <1>8, <1>9 DEF PageNext

LEMMA AtMostOne == ASSUME NEW x, NEW S \in SUBSET {x} PROVE Cardinality(S) <= 1
<1>1. Cardinality({}) = 0 /\ Cardinality({x}) = 1
  BY FS_EmptySet, FS_Singleton
<1>2. CASE S = {}
  BY <1>1, <1>2
<1>3. CASE S # {}
  <2>1. S = {x}
    BY <1>3
  <2>2. QED
    BY <1>1, <2>1
<1>4. QED
  BY <1>2, <1>3

LEMMA PagesFollow == PageInv => PagesCurrent
<1>1. SUFFICES ASSUME PageInv PROVE OncePerNavigation
  BY DEF PageInv, PagesCurrent
<1>2. \A i \in 1..Len(fetches) : fetches[i] \in PageEntry
  BY <1>1 DEF PageInv, PageTypeOK
<1>3. ASSUME NEW i \in 1..Len(fetches) PROVE Policy[fetches[i].key] = "each" => Cardinality(fetches[i].used) <= 1
  <2>1. CASE fetches[i].status = "gone"
    <3>1. fetches[i].used = {}
      BY <1>1, <2>1 DEF PageInv, Gone
    <3>2. QED
      BY <3>1, FS_EmptySet
  <2>2. CASE Each(i)
    <3>1. fetches[i].used \subseteq {fetches[i].epoch}
      BY <1>1, <2>2 DEF PageInv, Once
    <3>2. QED
      BY <3>1, AtMostOne
  <2>3. QED
    BY <2>1, <2>2 DEF Each
<1>4. ASSUME NEW i \in 1..Len(fetches), NEW j \in 1..Len(fetches), Policy[fetches[i].key] = "each",
             i < j, fetches[j].key = fetches[i].key,
             {fetches[i].status, fetches[j].status} \subseteq {"done", "error"}
      PROVE  fetches[j].epoch # fetches[i].epoch
  <2>1. Each(i) /\ Each(j)
    BY <1>4 DEF Each
  <2>2. fetches[i].epoch < fetches[j].epoch
    BY <1>1, <1>4, <2>1 DEF PageInv, Once
  <2>3. QED
    BY <1>2, <2>2 DEF PageEntry
<1>5. QED
  BY <1>3, <1>4 DEF OncePerNavigation

(* Whatever pages, policies and sizes of the cache there are: after an     *)
(* action the page shows what it wrote, and under revalidate = 0 a         *)
(* navigation fetches its page once and shows nothing twice (useAction,    *)
(* readRouteData, startFetch, prefetchData, invalidateLoaderData).         *)
THEOREM PagesStayCurrent == PageSpec => []PagesCurrent
<1>1. PageInit => PageInv
  BY PageAssumption, PageInitially
<1>2. QED
  BY <1>1, PageSteps, PagesFollow, PTL DEF PageSpec
-----------------------------------------------------------------------------
(* Streams                                                                 *)

Frame == [n : Nat, size : Nat] \ {Bye}
Wire  == Seq(Frame \cup {Bye})
Hook  == [hook : {"connect", "message", "close"}, said : {"ok", "refused", "trapped"}]

(* The frames of a ring are the last of what was ever put in it; Passed    *)
(* counts those its reader has gone past.                                  *)
LastOf(f, g) == Len(f) <= Len(g) /\ \A i \in 1..Len(f) : f[i] = g[Len(g) - Len(f) + i]

RingOK(ring) ==
  /\ ring = [frames |-> ring.frames, read |-> ring.read, write |-> ring.write, log |-> ring.log]
  /\ ring.frames \in Seq(Frame) /\ ring.log \in Seq(Frame)
  /\ ring.read \in 0..Len(ring.frames) /\ LastOf(ring.frames, ring.log)

Passed(ring) == Len(ring.log) - Len(ring.frames) + ring.read

(* The ends of the socket, and what is on the way.                         *)
StreamTypeOK ==
  /\ RingOK(ingress) /\ RingOK(egress)
  /\ toServer \in Wire /\ toClient \in Wire
  /\ heard \in Seq(Frame) /\ sent \in Seq(Frame) /\ told \in Seq(Frame) /\ pending \in Seq(Frame)
  /\ hooks \in Seq(Hook)
  /\ resident \in BOOLEAN /\ open \in BOOLEAN /\ listening \in BOOLEAN
  /\ server \in {"upgrade", "up", "closing", "closed"}
  /\ page \in {"connecting", "open", "closing", "closed"}

(* The first frames of a log, from a place on; those before a queue's end. *)
Agrees(s, g, k) == \A i \in 1..Len(s) : s[i] = g[k + i]

Follows(q, g, k, n) ==
  \A i \in 1..Len(q) : (\A j \in 1..i : q[j] # Bye) => k + i <= n /\ q[i] = g[k + i]

Whole(q, k, n) == ~Ends(q) => k + Len(q) = n

(* What the guest read is what it passed, what it was given is what was    *)
(* sent, and while it listens, what comes is what was sent next.           *)
ReadFrom(h, in, s) ==
  /\ Len(h) = Passed(in) /\ Agrees(h, in.log, 0)
  /\ Len(in.log) <= Len(s) /\ Agrees(in.log, s, 0)

Hearing ==
  /\ ReadFrom(heard, ingress, sent)
  /\ open \/ server = "upgrade" =>
       /\ Follows(toServer, sent, Len(ingress.log), Len(sent))
       /\ Whole(toServer, Len(ingress.log), Len(sent))

(* What the page was given, and what comes while it listens, are the first *)
(* frames of what was drained; all of it while the server may send more.   *)
GaveFrom(t, p, out) ==
  /\ Len(t) + Len(p) <= Passed(out)
  /\ Agrees(t, out.log, 0) /\ Agrees(p, out.log, Len(t))

Given == Len(told) + Len(pending)

Giving ==
  /\ GaveFrom(told, pending, egress)
  /\ page \in {"connecting", "open"} =>
       /\ Follows(toClient, egress.log, Given, Passed(egress))
       /\ server \in {"upgrade", "up"} => Whole(toClient, Given, Passed(egress))
  /\ listening => pending = <<>>
  /\ server = "upgrade" => page = "connecting" /\ toClient = <<>>

(* A box that is there has begun and neither trapped nor closed.           *)
Hooked ==
  /\ HooksFollow
  /\ server = "upgrade" => hooks = <<>> /\ ~resident
  /\ open => resident /\ server = "up"
  /\ server = "closed" => ~resident
  /\ resident =>
       /\ hooks # <<>> /\ hooks[Len(hooks)].hook # "close" /\ hooks[Len(hooks)].said # "trapped"
       /\ hooks[Len(hooks)].said = "refused" => hooks[Len(hooks)].hook = "message" /\ ~open

StreamInv == StreamTypeOK /\ Hearing /\ Giving /\ Hooked


(* The least element, by the finite sets below each number.                *)
LEMMA LeastNatural ==
  ASSUME NEW T, T \subseteq Nat, T # {}
  PROVE  \E m \in T : \A k \in T : m <= k
<1> DEFINE Below == {1..n : n \in T}
<1>1. Below \subseteq FiniteSubsetsOf(Nat) /\ Below # {}
  <2>1. \A n \in Nat : 1..n \in SUBSET Nat /\ IsFiniteSet(1..n)
    BY FS_Interval
  <2>2. QED
    BY <2>1 DEF FiniteSubsetsOf
<1>2. PICK b \in Below : \A c \in Below : <<c, b>> \notin StrictSubsetOrdering(Nat)
  BY <1>1, FS_StrictSubsetOrderingWellFounded, WFMin
<1>3. PICK m \in T : b = 1..m
  OBVIOUS
<1>4. ASSUME NEW k \in T, k < m PROVE FALSE
  <2>1. /\ 1..k \in Below /\ 1..k \subseteq 1..m /\ m \in 1..m /\ m \notin 1..k
        /\ 1..m \in SUBSET Nat /\ 1..k \in SUBSET Nat
    BY <1>4
  <2>2. QED
    BY <1>2, <1>3, <2>1 DEF StrictSubsetOrdering
<1>5. \A k \in T : m <= k
  BY <1>4
<1>6. QED
  BY <1>5

LEMMA MinIsLeast ==
  ASSUME NEW T, T \subseteq Nat, T # {}
  PROVE  Min(T) \in T /\ \A k \in T : Min(T) <= k
BY LeastNatural DEF Min

(* Putting frames at the end of a ring, and of all it ever had.            *)
LEMMA TailGrows ==
  ASSUME NEW f \in Seq(Frame), NEW g \in Seq(Frame), NEW new \in Seq(Frame), LastOf(f, g)
  PROVE  LastOf(f \o new, g \o new)
<1>1. PICK a \in Nat, b \in Nat, c \in Nat : a = Len(f) /\ b = Len(g) /\ c = Len(new)
  OBVIOUS
<1>2. /\ Len(f \o new) = a + c /\ Len(g \o new) = b + c
      /\ \A i \in 1..(a + c) : (f \o new)[i] = IF i <= a THEN f[i] ELSE new[i - a]
      /\ \A i \in 1..(b + c) : (g \o new)[i] = IF i <= b THEN g[i] ELSE new[i - b]
  BY <1>1, ConcatProperties
<1>3. a <= b /\ \A i \in 1..a : f[i] = g[b - a + i]
  BY <1>1 DEF LastOf
<1>4. ASSUME NEW i \in 1..(a + c) PROVE (f \o new)[i] = (g \o new)[b - a + i]
  <2>1. b - a + i \in 1..(b + c)
    BY <1>1, <1>3, <1>4
  <2>2. CASE i <= a
    <3>1. i \in 1..a /\ b - a + i <= b
      BY <1>1, <1>3, <1>4, <2>2
    <3>2. QED
      BY <1>2, <1>3, <1>4, <2>1, <2>2, <3>1
  <2>3. CASE ~(i <= a)
    <3>1. ~(b - a + i <= b) /\ (b - a + i) - b = i - a
      BY <1>1, <1>3, <1>4, <2>3
    <3>2. QED
      BY <1>2, <1>4, <2>1, <2>3, <3>1
  <2>4. QED
    BY <2>2, <2>3
<1>5. \A i \in 1..(a + c) : (b + c) - (a + c) + i = b - a + i
  BY <1>1
<1>6. a + c <= b + c
  BY <1>1, <1>3
<1>7. QED
  BY <1>2, <1>4, <1>5, <1>6 DEF LastOf

LEMMA RingGrows ==
  ASSUME NEW ring, RingOK(ring), NEW new \in Seq(Frame), NEW w,
         NEW r, r = [frames |-> ring.frames \o new, read |-> ring.read, write |-> w, log |-> ring.log \o new]
  PROVE  RingOK(r) /\ Passed(r) = Passed(ring)
<1>1. PICK f \in Seq(Frame), g \in Seq(Frame) : f = ring.frames /\ g = ring.log
  BY DEF RingOK
<1>2. PICK a \in Nat, b \in Nat, c \in Nat : a = Len(f) /\ b = Len(g) /\ c = Len(new)
  BY <1>1
<1>3. r.frames = f \o new /\ r.log = g \o new /\ r.read = ring.read
  BY <1>1
<1>4. /\ f \o new \in Seq(Frame) /\ g \o new \in Seq(Frame)
      /\ Len(f \o new) = a + c /\ Len(g \o new) = b + c
  BY <1>1, <1>2, ConcatProperties
<1>5. LastOf(f, g) /\ ring.read \in 0..a
  BY <1>1, <1>2 DEF RingOK
<1>6. LastOf(f \o new, g \o new)
  BY <1>1, <1>5, TailGrows
<1>7. r = [frames |-> r.frames, read |-> r.read, write |-> r.write, log |-> r.log]
  OBVIOUS
<1>8. ring.read \in 0..(a + c)
  BY <1>2, <1>5
<1>9. RingOK(r)
  BY <1>3, <1>4, <1>6, <1>7, <1>8 DEF RingOK
<1>10. Passed(r) = (b + c) - (a + c) + ring.read /\ Passed(ring) = b - a + ring.read
  BY <1>1, <1>2, <1>3, <1>4 DEF Passed
<1>11. QED
  BY <1>2, <1>5, <1>9, <1>10

LEMMA ResetSame ==
  ASSUME NEW ring, RingOK(ring)
  PROVE  /\ RingOK(Reset(ring)) /\ Passed(Reset(ring)) = Passed(ring) /\ Reset(ring).log = ring.log
<1>1. CASE ring.read = Len(ring.frames)
  <2>1. Reset(ring) = [frames |-> <<>>, read |-> 0, write |-> 0, log |-> ring.log]
    BY <1>1 DEF Reset, RingOK
  <2>2. <<>> \in Seq(Frame) /\ Len(<<>>) = 0 /\ Len(ring.log) \in Nat
    BY DEF RingOK
  <2>3. LastOf(<<>>, ring.log)
    BY <2>2 DEF LastOf
  <2>4. RingOK(Reset(ring))
    BY <2>1, <2>2, <2>3 DEF RingOK
  <2>5. QED
    BY <1>1, <2>1, <2>2, <2>4 DEF Passed, RingOK
<1>2. CASE ring.read # Len(ring.frames)
  BY <1>2 DEF Reset
<1>3. QED
  BY <1>1, <1>2

LEMMA OneFrame == ASSUME NEW frame \in Frame PROVE <<frame>> \in Seq(Frame)
OBVIOUS

LEMMA PutPuts ==
  ASSUME NEW ring, RingOK(ring), NEW frame \in Frame
  PROVE  /\ RingOK(Put(ring, frame)) /\ Passed(Put(ring, frame)) = Passed(ring)
         /\ Put(ring, frame).log = ring.log \o <<frame>>
<1>1. PICK start : start = Reset(ring)
  OBVIOUS
<1>2. RingOK(start) /\ Passed(start) = Passed(ring) /\ start.log = ring.log
  BY <1>1, ResetSame
<1>3. start = [frames |-> start.frames, read |-> start.read, write |-> start.write, log |-> start.log]
      /\ start.frames \in Seq(Frame) /\ start.log \in Seq(Frame)
  BY <1>2 DEF RingOK
<1>4. PICK w : w = start.write + frame.size
  OBVIOUS
<1>5. Put(ring, frame) = [frames |-> Append(start.frames, frame), read |-> start.read, write |-> w,
                          log |-> Append(start.log, frame)]
  <2>1. Put(ring, frame) = [start EXCEPT !.frames = Append(@, frame), !.write = @ + frame.size,
                                         !.log = Append(@, frame)]
    BY <1>1 DEF Put
  <2>2. QED
    BY <1>3, <1>4, <2>1
<1>6. Append(start.frames, frame) = start.frames \o <<frame>> /\ Append(start.log, frame) = start.log \o <<frame>>
  BY <1>3
<1>7. PICK new \in Seq(Frame) : new = <<frame>>
  BY OneFrame
<1>8. PICK r : r = [frames |-> start.frames \o new, read |-> start.read, write |-> w,
                    log |-> start.log \o new]
  OBVIOUS
<1>9. RingOK(r) /\ Passed(r) = Passed(start)
  BY <1>2, <1>8, RingGrows
<1>10. r = Put(ring, frame) /\ r.log = ring.log \o <<frame>>
  <2>1. r = Put(ring, frame)
    BY <1>5, <1>6, <1>7, <1>8
  <2>2. r.log = start.log \o new
    BY <1>8
  <2>3. QED
    BY <1>2, <1>7, <2>1, <2>2
<1>11. QED
  BY <1>2, <1>9, <1>10

(* A ring's reader has passed a number of frames.                          *)
LEMMA RingCounts ==
  ASSUME NEW ring, RingOK(ring)
  PROVE  /\ Len(ring.frames) \in Nat /\ Len(ring.log) \in Nat /\ ring.read \in Nat
         /\ ring.read <= Len(ring.frames) /\ Len(ring.frames) <= Len(ring.log)
         /\ Passed(ring) \in Nat /\ Passed(ring) <= Len(ring.log)
<1>1. Len(ring.frames) \in Nat /\ Len(ring.log) \in Nat
  BY DEF RingOK
<1>2. ring.read \in 0..Len(ring.frames) /\ Len(ring.frames) <= Len(ring.log)
  BY DEF RingOK, LastOf
<1>3. PICK a, b, p : a = Len(ring.frames) /\ b = Len(ring.log) /\ p = ring.read
  BY <1>1
<1>4. a \in Nat /\ b \in Nat /\ p \in 0..a /\ a <= b /\ Passed(ring) = b - a + p
  BY <1>1, <1>2, <1>3 DEF Passed
<1>5. p \in Nat /\ p <= a /\ b - a + p \in Nat /\ b - a + p <= b
  BY <1>4
<1>6. QED
  BY <1>3, <1>4, <1>5

(* What a drain takes are the frames the reader had not passed, up to the  *)
(* first that is too long.                                                 *)
LEMMA DrainStops ==
  ASSUME NEW ring, RingOK(ring)
  PROVE  Drained(ring) \in ring.read..Len(ring.frames)
<1>1. PICK a \in Nat, p \in Nat : a = Len(ring.frames) /\ p = ring.read /\ p <= a
  BY RingCounts
<1>2. PICK long : long = {i \in p + 1 .. a : ring.frames[i].size > MaxFrame}
  OBVIOUS
<1>3. Drained(ring) = IF long = {} THEN a ELSE Min(long) - 1
  BY <1>1, <1>2 DEF Drained
<1>4. long \subseteq p + 1 .. a /\ long \subseteq Nat
  BY <1>1, <1>2
<1>5. CASE long = {}
  BY <1>1, <1>3, <1>5
<1>6. CASE long # {}
  <2>1. Min(long) \in p + 1 .. a
    BY <1>4, <1>6, MinIsLeast
  <2>2. QED
    BY <1>1, <1>3, <1>6, <2>1
<1>7. QED
  BY <1>5, <1>6

LEMMA ShiftedPlace ==
  ASSUME NEW a \in Nat, NEW b \in Nat, NEW p \in Nat, NEW d \in Nat, p <= d, d <= a, NEW i \in 1..(d - p)
  PROVE  p + i \in 1..a /\ b - a + (p + i) = (b - a + p) + i
OBVIOUS

(* The frames of a queue between two places are the log's from the first   *)
(* of these places on.                                                     *)
LEMMA CutBetween ==
  ASSUME NEW f \in Seq(Frame), NEW p \in Nat, NEW d \in Nat, p <= d, d <= Len(f)
  PROVE  /\ SubSeq(f, p + 1, d) \in Seq(Frame) /\ Len(SubSeq(f, p + 1, d)) = d - p
         /\ \A i \in 1..(d - p) : SubSeq(f, p + 1, d)[i] = f[p + i]
<1>1. \A i \in p + 1 .. d : f[i] \in Frame
  OBVIOUS
<1>2. \A i \in 1..(d - p) : (p + 1) + i - 1 = p + i
  OBVIOUS
<1>3. d - (p + 1) + 1 = d - p
  OBVIOUS
<1>4. p + 1 \in Int /\ d \in Int /\ (p + 1 <= d => 1 <= p + 1 /\ d <= Len(f))
  OBVIOUS
<1>5. QED
  BY <1>1, <1>2, <1>3, <1>4

LEMMA CutAgrees ==
  ASSUME NEW f \in Seq(Frame), NEW g \in Seq(Frame), LastOf(f, g),
         NEW p \in Nat, NEW d \in Nat, p <= d, d <= Len(f)
  PROVE  Agrees(SubSeq(f, p + 1, d), g, Len(g) - Len(f) + p)
<1>1. PICK got \in Seq(Frame) : /\ got = SubSeq(f, p + 1, d) /\ Len(got) = d - p
                                /\ \A i \in 1..(d - p) : got[i] = f[p + i]
  BY CutBetween
<1>2. PICK a \in Nat, b \in Nat : a = Len(f) /\ b = Len(g)
  OBVIOUS
<1>3. \A i \in 1..a : f[i] = g[b - a + i]
  BY <1>2 DEF LastOf
<1>4. ASSUME NEW i \in 1..(d - p) PROVE got[i] = g[(b - a + p) + i]
  <2>1. p + i \in 1..a /\ b - a + (p + i) = (b - a + p) + i
    BY <1>2, ShiftedPlace
  <2>2. QED
    BY <1>1, <1>3, <2>1
<1>5. Agrees(got, g, b - a + p)
  BY <1>1, <1>4 DEF Agrees
<1>6. QED
  BY <1>1, <1>2, <1>5

LEMMA RingFields ==
  ASSUME NEW ring, RingOK(ring)
  PROVE  \E f \in Seq(Frame), g \in Seq(Frame), p \in Nat :
           /\ f = ring.frames /\ g = ring.log /\ p = ring.read
           /\ p <= Len(f) /\ LastOf(f, g) /\ Passed(ring) = Len(g) - Len(f) + p
           /\ ring = [frames |-> f, read |-> p, write |-> ring.write, log |-> g]
<1>1. PICK f \in Seq(Frame), g \in Seq(Frame) : f = ring.frames /\ g = ring.log
  BY DEF RingOK
<1>2. ring.read \in 0..Len(ring.frames)
  BY DEF RingOK
<1>3. PICK p \in Nat : p = ring.read /\ p <= Len(f)
  BY <1>1, <1>2
<1>4. LastOf(f, g) /\ ring = [frames |-> f, read |-> p, write |-> ring.write, log |-> g]
  BY <1>1, <1>3 DEF RingOK
<1>5. Passed(ring) = Len(g) - Len(f) + p
  BY <1>1, <1>3 DEF Passed
<1>6. QED
  BY <1>1, <1>3, <1>4, <1>5

LEMMA FieldsRing ==
  ASSUME NEW f \in Seq(Frame), NEW g \in Seq(Frame), NEW p \in 0..Len(f), NEW w, LastOf(f, g)
  PROVE  /\ RingOK([frames |-> f, read |-> p, write |-> w, log |-> g])
         /\ Passed([frames |-> f, read |-> p, write |-> w, log |-> g]) = Len(g) - Len(f) + p
BY DEF RingOK, Passed

LEMMA PlacesAdd ==
  ASSUME NEW a \in Nat, NEW b \in Nat, NEW p \in Nat, NEW d \in Nat, a <= b, p <= d, d <= a
  PROVE  /\ d \in 0..a /\ b - a + d = (b - a + p) + (d - p) /\ b - a + d <= b
OBVIOUS

LEMMA MovesOn ==
  ASSUME NEW f \in Seq(Frame), NEW g \in Seq(Frame), LastOf(f, g),
         NEW p \in Nat, NEW d \in Nat, p <= d, d <= Len(f), NEW w
  PROVE  /\ RingOK([frames |-> f, read |-> d, write |-> w, log |-> g])
         /\ Passed([frames |-> f, read |-> d, write |-> w, log |-> g])
              = (Len(g) - Len(f) + p) + Len(SubSeq(f, p + 1, d))
         /\ Passed([frames |-> f, read |-> d, write |-> w, log |-> g]) <= Len(g)
<1>1. PICK a \in Nat, b \in Nat : a = Len(f) /\ b = Len(g)
  OBVIOUS
<1>2. a <= b
  BY <1>1 DEF LastOf
<1>3. d \in 0..a /\ b - a + d = (b - a + p) + (d - p) /\ b - a + d <= b
  BY <1>1, <1>2, PlacesAdd
<1>4. d \in 0..Len(f)
  BY <1>1, <1>3
<1>5. /\ RingOK([frames |-> f, read |-> d, write |-> w, log |-> g])
      /\ Passed([frames |-> f, read |-> d, write |-> w, log |-> g]) = Len(g) - Len(f) + d
  BY <1>4, FieldsRing
<1>6. Len(SubSeq(f, p + 1, d)) = d - p
  BY CutBetween
<1>7. QED
  BY <1>1, <1>3, <1>5, <1>6

(* Reading on in a ring: what is read are the next frames of its log.      *)
LEMMA ReadingOn ==
  ASSUME NEW ring, RingOK(ring), NEW d \in ring.read..Len(ring.frames)
  PROVE  /\ RingOK([ring EXCEPT !.read = d]) /\ [ring EXCEPT !.read = d].log = ring.log
         /\ SubSeq(ring.frames, ring.read + 1, d) \in Seq(Frame)
         /\ Passed([ring EXCEPT !.read = d])
              = Passed(ring) + Len(SubSeq(ring.frames, ring.read + 1, d))
         /\ Passed([ring EXCEPT !.read = d]) <= Len(ring.log)
         /\ Agrees(SubSeq(ring.frames, ring.read + 1, d), ring.log, Passed(ring))
<1>1. PICK f \in Seq(Frame), g \in Seq(Frame), p \in Nat :
        /\ f = ring.frames /\ g = ring.log /\ p = ring.read
        /\ p <= Len(f) /\ LastOf(f, g) /\ Passed(ring) = Len(g) - Len(f) + p
        /\ ring = [frames |-> f, read |-> p, write |-> ring.write, log |-> g]
  BY RingFields
<1>2. PICK w : w = ring.write
  OBVIOUS
<1>3. d \in Nat /\ p <= d /\ d <= Len(f)
  <2>1. d \in p..Len(f) /\ Len(f) \in Nat
    BY <1>1
  <2>2. QED
    BY <2>1
<1>4. [ring EXCEPT !.read = d] = [frames |-> f, read |-> d, write |-> w, log |-> g]
  BY <1>1, <1>2
<1>5. /\ RingOK([frames |-> f, read |-> d, write |-> w, log |-> g])
      /\ Passed([frames |-> f, read |-> d, write |-> w, log |-> g])
           = Passed(ring) + Len(SubSeq(f, p + 1, d))
      /\ Passed([frames |-> f, read |-> d, write |-> w, log |-> g]) <= Len(g)
  BY <1>1, <1>3, MovesOn
<1>6. SubSeq(f, p + 1, d) \in Seq(Frame) /\ Agrees(SubSeq(f, p + 1, d), g, Passed(ring))
  BY <1>1, <1>3, CutBetween, CutAgrees
<1>7. [ring EXCEPT !.read = d].log = g
  BY <1>1, <1>2
<1>8. QED
  BY <1>1, <1>4, <1>5, <1>6, <1>7

LEMMA DrainFacts ==
  ASSUME NEW ring, RingOK(ring)
  PROVE  /\ RingOK(Advance(ring)) /\ Advance(ring).log = ring.log /\ Egress(ring) \in Seq(Frame)
         /\ Passed(Advance(ring)) = Passed(ring) + Len(Egress(ring))
         /\ Passed(Advance(ring)) <= Len(ring.log)
         /\ Agrees(Egress(ring), ring.log, Passed(ring))
<1>1. PICK d \in ring.read..Len(ring.frames) : d = Drained(ring)
  BY DrainStops
<1>2. Advance(ring) = [ring EXCEPT !.read = d] /\ Egress(ring) = SubSeq(ring.frames, ring.read + 1, d)
  BY <1>1 DEF Advance, Egress
<1>3. QED
  BY <1>2, ReadingOn

(* What a hook stages are frames, at the end of the log.                   *)
LEMMA StageFacts ==
  ASSUME StreamAssumption, NEW ring, RingOK(ring), NEW sizes \in SeqOf(Sizes, MaxStage)
  PROVE  /\ RingOK(Stage(ring, sizes)) /\ Passed(Stage(ring, sizes)) = Passed(ring)
         /\ \E new \in Seq(Frame) : Stage(ring, sizes).log = ring.log \o new
<1>1. sizes \in Seq(Sizes)
  <2>1. PICK k \in 0..MaxStage : sizes \in [1..k -> Sizes]
    BY DEF SeqOf
  <2>2. k \in Nat
    BY <2>1 DEF StreamAssumption
  <2>3. QED
    BY <2>1, <2>2
<1>2. CASE sizes = <<>>
  <2>1. Stage(ring, sizes) = ring
    BY <1>2 DEF Stage
  <2>2. <<>> \in Seq(Frame) /\ ring.log \o <<>> = ring.log
    BY DEF RingOK
  <2>3. QED
    BY <2>1, <2>2
<1>3. CASE sizes # <<>>
  <2>1. PICK n \in Nat, b \in Nat : n = Len(sizes) /\ b = Len(ring.log)
    BY <1>1, RingCounts
  <2>2. PICK new : new = [i \in 1..n |-> [n |-> b + i, size |-> sizes[i]]]
    OBVIOUS
  <2>3. \A i \in 1..n : [n |-> b + i, size |-> sizes[i]] \in Frame
    <3>1. ASSUME NEW i \in 1..n PROVE [n |-> b + i, size |-> sizes[i]] \in Frame
      <4>1. sizes[i] \in Nat \ {0} /\ b + i \in Nat
        <5>1. sizes[i] \in Sizes
          BY <1>1, <2>1, <3>1
        <5>2. sizes[i] \in Nat \ {0}
          BY <5>1 DEF StreamAssumption
        <5>3. i \in Nat
          BY <2>1, <3>1
        <5>4. QED
          BY <2>1, <5>2, <5>3
      <4>2. [n |-> b + i, size |-> sizes[i]].size = sizes[i] /\ Bye.size = 0
        BY DEF Bye
      <4>3. [n |-> b + i, size |-> sizes[i]] # Bye
        BY <4>1, <4>2
      <4>4. QED
        BY <4>1, <4>3 DEF Frame
    <3>2. QED
      BY <3>1
  <2>4. new \in Seq(Frame)
    <3>1. new \in [1..n -> Frame]
      BY <2>2, <2>3
    <3>2. QED
      BY <2>1, <3>1
  <2>5. PICK start : start = Reset(ring)
    OBVIOUS
  <2>6. RingOK(start) /\ Passed(start) = Passed(ring) /\ start.log = ring.log
    BY <2>5, ResetSame
  <2>7. PICK w : w = start.write + Total(sizes)
    OBVIOUS
  <2>8. PICK r : r = [frames |-> start.frames \o new, read |-> start.read, write |-> w,
                      log |-> start.log \o new]
    OBVIOUS
  <2>9. RingOK(r) /\ Passed(r) = Passed(start)
    BY <2>4, <2>6, <2>8, RingGrows
  <2>10. Stage(ring, sizes) = [start EXCEPT !.frames = @ \o new, !.write = @ + Total(sizes), !.log = @ \o new]
    BY <1>3, <2>1, <2>2, <2>5 DEF Stage
  <2>11. Stage(ring, sizes) = r
    BY <2>6, <2>7, <2>8, <2>10 DEF RingOK
  <2>12. Stage(ring, sizes).log = ring.log \o new
    BY <2>6, <2>8, <2>11
  <2>13. QED
    BY <2>4, <2>6, <2>9, <2>11, <2>12
<1>4. QED
  BY <1>2, <1>3

(* A hook reads on in what came and adds to what goes.                     *)
LEMMA HookFacts ==
  ASSUME StreamAssumption, NEW in, RingOK(in), NEW out, RingOK(out), NEW r \in HookOutcomes(in, out)
  PROVE  /\ RingOK(r.in) /\ r.in.log = in.log /\ r.got \in Seq(Frame)
         /\ Passed(r.in) = Passed(in) + Len(r.got) /\ Agrees(r.got, in.log, Passed(in))
         /\ RingOK(r.out) /\ Passed(r.out) = Passed(out)
         /\ \E new \in Seq(Frame) : r.out.log = out.log \o new
         /\ r.said \in {"ok", "refused", "trapped"}
<1>1. PICK k \in 0 .. Len(in.frames) - in.read, sizes \in SeqOf(Sizes, MaxStage),
           said \in {"ok", "refused", "trapped"} :
        r = [in |-> [in EXCEPT !.read = @ + k], got |-> SubSeq(in.frames, in.read + 1, in.read + k),
             out |-> Stage(out, sizes), said |-> said]
  BY DEF HookOutcomes
<1>2. /\ RingOK(r.out) /\ Passed(r.out) = Passed(out)
      /\ \E new \in Seq(Frame) : r.out.log = out.log \o new
  <2>1. r.out = Stage(out, sizes)
    BY <1>1
  <2>2. QED
    BY <1>1, <2>1, StageFacts
<1>3. PICK d \in in.read..Len(in.frames) : d = in.read + k
  <2>1. PICK a \in Nat, p \in Nat : a = Len(in.frames) /\ p = in.read /\ p <= a
    BY RingCounts
  <2>2. k \in 0 .. a - p
    BY <1>1, <2>1
  <2>3. p + k \in p..a
    BY <2>1, <2>2
  <2>4. QED
    BY <2>1, <2>3
<1>4. r.in = [in EXCEPT !.read = d] /\ r.got = SubSeq(in.frames, in.read + 1, d) /\ r.said = said
  BY <1>1, <1>3
<1>5. PICK ri, rg : ri = r.in /\ rg = r.got
  OBVIOUS
<1>6. /\ RingOK(ri) /\ ri.log = in.log /\ rg \in Seq(Frame)
      /\ Passed(ri) = Passed(in) + Len(rg) /\ Agrees(rg, in.log, Passed(in))
  <2>1. /\ ri = [in EXCEPT !.read = d]
        /\ rg = SubSeq(in.frames, in.read + 1, d)
    BY <1>4, <1>5
  <2>2. QED
    BY <1>3, <2>1, ReadingOn
<1>7. QED
  BY <1>1, <1>2, <1>4, <1>5, <1>6

(* Agreement with a log: of two pieces, of a single frame, and with what a *)
(* longer log begins with.                                                 *)
LEMMA AgreesBoth ==
  ASSUME NEW s \in Seq(Frame), NEW t \in Seq(Frame), NEW g, NEW k \in Nat,
         Agrees(s, g, k), Agrees(t, g, k + Len(s))
  PROVE  Agrees(s \o t, g, k)
<1>1. PICK a \in Nat, b \in Nat : a = Len(s) /\ b = Len(t)
  OBVIOUS
<1>2. /\ Len(s \o t) = a + b
      /\ \A i \in 1..(a + b) : (s \o t)[i] = IF i <= a THEN s[i] ELSE t[i - a]
  BY <1>1, ConcatProperties
<1>3. (\A i \in 1..a : s[i] = g[k + i]) /\ \A i \in 1..b : t[i] = g[(k + a) + i]
  BY <1>1 DEF Agrees
<1>4. ASSUME NEW i \in 1..(a + b) PROVE (s \o t)[i] = g[k + i]
  <2>1. CASE i <= a
    <3>1. i \in 1..a
      BY <1>4, <2>1
    <3>2. QED
      BY <1>2, <1>3, <2>1, <3>1
  <2>2. CASE ~(i <= a)
    <3>1. i - a \in 1..b /\ (k + a) + (i - a) = k + i
      BY <1>4, <2>2
    <3>2. QED
      BY <1>2, <1>3, <2>2, <3>1
  <2>3. QED
    BY <2>1, <2>2
<1>5. QED
  BY <1>2, <1>4 DEF Agrees

LEMMA AgreesOne ==
  ASSUME NEW x, NEW g, NEW k \in Nat, g[k + 1] = x
  PROVE  Agrees(<<x>>, g, k)
<1>1. Len(<<x>>) = 1 /\ <<x>>[1] = x
  OBVIOUS
<1>2. \A i \in 1..1 : i = 1
  OBVIOUS
<1>3. QED
  BY <1>1, <1>2 DEF Agrees

LEMMA LogGrows ==
  ASSUME NEW g \in Seq(Frame), NEW new \in Seq(Frame)
  PROVE  /\ g \o new \in Seq(Frame) /\ Len(g \o new) = Len(g) + Len(new)
         /\ \A i \in 1..Len(g) : (g \o new)[i] = g[i]
         /\ Agrees(new, g \o new, Len(g))
<1>1. PICK a \in Nat, b \in Nat : a = Len(g) /\ b = Len(new)
  OBVIOUS
<1>2. /\ g \o new \in Seq(Frame) /\ Len(g \o new) = a + b
      /\ \A i \in 1..(a + b) : (g \o new)[i] = IF i <= a THEN g[i] ELSE new[i - a]
  BY <1>1, ConcatProperties
<1>3. \A i \in 1..a : i \in 1..(a + b) /\ i <= a
  OBVIOUS
<1>4. \A i \in 1..b : a + i \in 1..(a + b) /\ ~(a + i <= a) /\ (a + i) - a = i
  OBVIOUS
<1>5. \A i \in 1..a : (g \o new)[i] = g[i]
  BY <1>2, <1>3
<1>6. \A i \in 1..b : new[i] = (g \o new)[a + i]
  BY <1>2, <1>4
<1>7. QED
  BY <1>1, <1>2, <1>5, <1>6 DEF Agrees

LEMMA AgreesLonger ==
  ASSUME NEW s \in Seq(Frame), NEW g \in Seq(Frame), NEW new \in Seq(Frame), NEW k \in Nat,
         k + Len(s) <= Len(g), Agrees(s, g, k)
  PROVE  Agrees(s, g \o new, k)
<1>1. PICK a \in Nat, b \in Nat : a = Len(s) /\ b = Len(g)
  OBVIOUS
<1>2. \A i \in 1..b : (g \o new)[i] = g[i]
  BY <1>1, LogGrows
<1>3. \A i \in 1..a : k + i \in 1..b
  BY <1>1
<1>4. QED
  BY <1>1, <1>2, <1>3 DEF Agrees

(* A queue that follows a log: of two pieces, after its head, cut short,   *)
(* and of a longer log.                                                    *)
LEMMA FollowsBoth ==
  ASSUME NEW q \in Wire, NEW s \in Wire, NEW g, NEW k \in Nat, NEW n \in Nat, NEW m \in Nat, n <= m,
         Follows(q, g, k, n), ~Ends(q) => Follows(s, g, k + Len(q), m)
  PROVE  /\ q \o s \in Wire /\ Len(q \o s) = Len(q) + Len(s)
         /\ Follows(q \o s, g, k, m) /\ (Ends(q) \/ Ends(s) => Ends(q \o s))
<1>1. PICK a \in Nat, b \in Nat : a = Len(q) /\ b = Len(s)
  BY DEF Wire
<1>2. /\ q \o s \in Wire /\ Len(q \o s) = a + b
      /\ \A i \in 1..(a + b) : (q \o s)[i] = IF i <= a THEN q[i] ELSE s[i - a]
  BY <1>1, ConcatProperties DEF Wire
<1>3. \A i \in 1..a : i \in 1..(a + b) /\ (q \o s)[i] = q[i]
  BY <1>2
<1>4. \A i \in 1..b : a + i \in 1..(a + b) /\ (q \o s)[a + i] = s[i]
  <2>1. \A i \in 1..b : a + i \in 1..(a + b) /\ ~(a + i <= a) /\ (a + i) - a = i
    OBVIOUS
  <2>2. QED
    BY <1>2, <2>1
<1>5. ASSUME NEW i \in 1..(a + b), \A j \in 1..i : (q \o s)[j] # Bye
      PROVE  k + i <= m /\ (q \o s)[i] = g[k + i]
  <2>1. CASE i <= a
    <3>1. i \in 1..a /\ \A j \in 1..i : j \in 1..a
      BY <1>5, <2>1
    <3>2. \A j \in 1..i : q[j] # Bye
      BY <1>3, <1>5, <3>1
    <3>3. k + i <= n /\ q[i] = g[k + i]
      BY <1>1, <3>1, <3>2 DEF Follows
    <3>4. k + i <= m
      BY <3>1, <3>3
    <3>5. QED
      BY <1>3, <3>1, <3>3, <3>4
  <2>2. CASE ~(i <= a)
    <3>1. PICK l \in Nat : i = a + l /\ l \in 1..b
      BY <1>5, <2>2
    <3>2. \A j \in 1..a : j \in 1..i
      BY <2>2, <3>1
    <3>3. ~Ends(q)
      BY <1>1, <1>3, <1>5, <3>2 DEF Ends
    <3>4. \A j \in 1..l : j \in 1..b /\ a + j \in 1..i
      BY <3>1
    <3>5. \A j \in 1..l : s[j] # Bye
      BY <1>4, <1>5, <3>4
    <3>6. Follows(s, g, k + a, m)
      BY <1>1, <3>3
    <3>7. (k + a) + l <= m /\ s[l] = g[(k + a) + l]
      BY <1>1, <3>1, <3>5, <3>6 DEF Follows
    <3>8. (k + a) + l = k + i
      BY <3>1
    <3>9. QED
      BY <1>4, <3>1, <3>7, <3>8
  <2>3. QED
    BY <2>1, <2>2
<1>6. Ends(q) \/ Ends(s) => Ends(q \o s)
  <2>1. ASSUME NEW i \in 1..a, q[i] = Bye PROVE \E j \in 1..(a + b) : (q \o s)[j] = Bye
    BY <1>3, <2>1
  <2>2. ASSUME NEW i \in 1..b, s[i] = Bye PROVE \E j \in 1..(a + b) : (q \o s)[j] = Bye
    BY <1>4, <2>2
  <2>3. QED
    BY <1>1, <1>2, <2>1, <2>2 DEF Ends
<1>7. QED
  BY <1>1, <1>2, <1>5, <1>6 DEF Follows

LEMMA FollowsBye ==
  ASSUME NEW g, NEW k \in Nat, NEW m \in Nat
  PROVE  <<Bye>> \in Wire /\ Ends(<<Bye>>) /\ Follows(<<Bye>>, g, k, m)
<1>1. <<Bye>> \in Wire /\ Len(<<Bye>>) = 1 /\ <<Bye>>[1] = Bye
  BY DEF Wire
<1>2. \A i \in 1..1 : 1 \in 1..i
  OBVIOUS
<1>3. QED
  BY <1>1, <1>2 DEF Ends, Follows

LEMMA FollowsEnded ==
  ASSUME NEW q \in Wire, NEW g, NEW k \in Nat, NEW n \in Nat, Follows(q, g, k, n)
  PROVE  Append(q, Bye) \in Wire /\ Follows(Append(q, Bye), g, k, n) /\ Ends(Append(q, Bye))
<1>1. k + Len(q) \in Nat
  BY DEF Wire
<1>2. <<Bye>> \in Wire /\ Ends(<<Bye>>) /\ Follows(<<Bye>>, g, k + Len(q), n)
  BY <1>1, FollowsBye
<1>3. PICK s \in Wire : s = <<Bye>> /\ Ends(s) /\ Follows(s, g, k + Len(q), n)
  BY <1>2
<1>4. q \o s \in Wire /\ Follows(q \o s, g, k, n) /\ Ends(q \o s)
  <2>1. n <= n /\ (~Ends(q) => Follows(s, g, k + Len(q), n))
    BY <1>3
  <2>2. QED
    BY <1>3, <2>1, FollowsBoth
<1>5. Append(q, Bye) = q \o s
  BY <1>3, AppendIsConcat DEF Wire
<1>6. QED
  BY <1>4, <1>5

LEMMA WireCut ==
  ASSUME NEW q \in Wire, NEW l \in 0..Len(q)
  PROVE  SubSeq(q, 1, l) \in Wire /\ Len(SubSeq(q, 1, l)) = l /\ \A i \in 1..l : SubSeq(q, 1, l)[i] = q[i]
<1>1. PICK a \in Nat : a = Len(q)
  BY DEF Wire
<1>2. QED
  BY <1>1 DEF Wire

LEMMA FollowsCut ==
  ASSUME NEW q \in Wire, NEW g, NEW k \in Nat, NEW n \in Nat, Follows(q, g, k, n), NEW l \in 0..Len(q)
  PROVE  SubSeq(q, 1, l) \in Wire /\ Follows(SubSeq(q, 1, l), g, k, n)
<1>1. PICK a \in Nat : a = Len(q)
  BY DEF Wire
<1>2. SubSeq(q, 1, l) \in Wire /\ Len(SubSeq(q, 1, l)) = l /\ \A i \in 1..l : SubSeq(q, 1, l)[i] = q[i]
  BY WireCut
<1>3. \A i \in 1..l : i \in 1..a /\ \A j \in 1..i : j \in 1..l
  BY <1>1
<1>4. QED
  BY <1>1, <1>2, <1>3 DEF Follows

LEMMA AgreesFollow ==
  ASSUME NEW s \in Seq(Frame), NEW g, NEW k \in Nat, NEW n \in Nat, k + Len(s) <= n, Agrees(s, g, k)
  PROVE  s \in Wire /\ Follows(s, g, k, n) /\ ~Ends(s)
<1>1. s \in Wire
  BY SeqMonotonic DEF Wire
<1>2. PICK a \in Nat : a = Len(s)
  OBVIOUS
<1>3. \A i \in 1..a : k + i <= n
  BY <1>2
<1>4. \A i \in 1..a : s[i] # Bye
  BY <1>2 DEF Frame
<1>5. QED
  BY <1>1, <1>2, <1>3, <1>4 DEF Follows, Agrees, Ends

LEMMA FollowsTail ==
  ASSUME NEW q \in Wire, q # <<>>, Head(q) # Bye, NEW g, NEW k \in Nat, NEW n \in Nat
  PROVE  /\ Head(q) \in Frame /\ Tail(q) \in Wire /\ Len(Tail(q)) = Len(q) - 1 /\ Len(q) \in Nat \ {0}
         /\ Ends(q) => Ends(Tail(q))
         /\ Follows(q, g, k, n) => k + 1 <= n /\ g[k + 1] = Head(q) /\ Follows(Tail(q), g, k + 1, n)
<1>1. PICK a \in Nat : a = Len(q) /\ a > 0
  BY DEF Wire
<1>2. /\ Tail(q) \in Wire /\ Len(Tail(q)) = a - 1 /\ Head(q) = q[1] /\ q[1] \in Frame \cup {Bye}
      /\ \A i \in 1..(a - 1) : Tail(q)[i] = q[i + 1]
  BY <1>1, HeadTailProperties DEF Wire
<1>3. Ends(q) => Ends(Tail(q))
  <2>1. SUFFICES ASSUME NEW i \in 1..a, q[i] = Bye PROVE Ends(Tail(q))
    BY <1>1 DEF Ends
  <2>2. i # 1
    BY <1>2, <2>1
  <2>3. i - 1 \in 1..(a - 1) /\ (i - 1) + 1 = i
    BY <2>1, <2>2
  <2>4. QED
    BY <1>2, <2>1, <2>3 DEF Ends
<1>4. ASSUME Follows(q, g, k, n)
      PROVE  k + 1 <= n /\ g[k + 1] = Head(q) /\ Follows(Tail(q), g, k + 1, n)
  <2>1. k + 1 <= n /\ q[1] = g[k + 1]
    <3>1. 1 \in 1..a /\ \A j \in 1..1 : j = 1
      BY <1>1
    <3>2. QED
      BY <1>1, <1>2, <1>4, <3>1 DEF Follows
  <2>2. ASSUME NEW i \in 1..(a - 1), \A j \in 1..i : Tail(q)[j] # Bye
        PROVE  (k + 1) + i <= n /\ Tail(q)[i] = g[(k + 1) + i]
    <3>1. i + 1 \in 1..a /\ k + (i + 1) = (k + 1) + i
      BY <2>2
    <3>2. ASSUME NEW j \in 1..(i + 1) PROVE q[j] # Bye
      <4>1. CASE j = 1
        BY <1>2, <4>1
      <4>2. CASE j # 1
        <5>1. j - 1 \in 1..i /\ j - 1 \in 1..(a - 1) /\ (j - 1) + 1 = j
          BY <2>2, <3>2, <4>2
        <5>2. QED
          BY <1>2, <2>2, <5>1
      <4>3. QED
        BY <4>1, <4>2
    <3>3. k + (i + 1) <= n /\ q[i + 1] = g[k + (i + 1)]
      BY <1>1, <1>4, <3>1, <3>2 DEF Follows
    <3>4. QED
      BY <1>2, <2>2, <3>1, <3>3
  <2>3. QED
    BY <1>2, <2>1, <2>2 DEF Follows
<1>5. QED
  BY <1>1, <1>2, <1>3, <1>4

LEMMA FollowsLonger ==
  ASSUME NEW q \in Wire, NEW g \in Seq(Frame), NEW new \in Seq(Frame), NEW k \in Nat, NEW n \in Nat,
         n <= Len(g), Follows(q, g, k, n)
  PROVE  Follows(q, g \o new, k, n)
<1>1. PICK a \in Nat, b \in Nat : a = Len(q) /\ b = Len(g)
  BY DEF Wire
<1>2. \A i \in 1..b : (g \o new)[i] = g[i]
  BY <1>1, LogGrows
<1>3. ASSUME NEW i \in 1..a, \A j \in 1..i : q[j] # Bye
      PROVE  k + i <= n /\ q[i] = (g \o new)[k + i]
  <2>1. k + i <= n /\ q[i] = g[k + i]
    BY <1>1, <1>3 DEF Follows
  <2>2. k + i \in 1..b
    BY <1>1, <1>3, <2>1
  <2>3. QED
    BY <1>2, <2>1, <2>2
<1>4. QED
  BY <1>1, <1>3 DEF Follows

(* Reading on, and more sent.                                              *)
LEMMA ReadMore ==
  ASSUME NEW h \in Seq(Frame), NEW in, RingOK(in), NEW s, ReadFrom(h, in, s),
         NEW ri, RingOK(ri), ri.log = in.log, NEW got \in Seq(Frame),
         Passed(ri) = Passed(in) + Len(got), Agrees(got, in.log, Passed(in))
  PROVE  h \o got \in Seq(Frame) /\ ReadFrom(h \o got, ri, s)
<1>1. Len(h) = Passed(in) /\ Agrees(h, in.log, 0)
  BY DEF ReadFrom
<1>2. h \o got \in Seq(Frame) /\ Len(h \o got) = Len(h) + Len(got)
  BY ConcatProperties
<1>3. 0 + Len(h) = Len(h)
  OBVIOUS
<1>4. Agrees(h \o got, in.log, 0)
  BY <1>1, <1>3, AgreesBoth
<1>5. QED
  BY <1>1, <1>2, <1>4 DEF ReadFrom

LEMMA SentMore ==
  ASSUME NEW h, NEW in, RingOK(in), NEW s \in Seq(Frame), NEW new \in Seq(Frame), ReadFrom(h, in, s)
  PROVE  ReadFrom(h, in, s \o new)
<1>1. Len(s \o new) = Len(s) + Len(new) /\ Len(s) \in Nat /\ Len(new) \in Nat /\ Len(in.log) \in Nat
  BY LogGrows, RingCounts
<1>2. Len(in.log) <= Len(s) /\ Agrees(in.log, s, 0)
  BY DEF ReadFrom
<1>3. in.log \in Seq(Frame) /\ 0 + Len(in.log) <= Len(s)
  BY <1>1, <1>2 DEF RingOK
<1>4. Agrees(in.log, s \o new, 0)
  BY <1>2, <1>3, AgreesLonger
<1>5. Len(in.log) <= Len(s \o new)
  BY <1>1, <1>2
<1>6. QED
  BY <1>4, <1>5 DEF ReadFrom

(* A frame that comes in is the next of those sent.                        *)
LEMMA HeardNext ==
  ASSUME NEW h, NEW in, RingOK(in), NEW s \in Seq(Frame), ReadFrom(h, in, s),
         NEW x \in Frame, Len(in.log) + 1 <= Len(s), s[Len(in.log) + 1] = x
  PROVE  ReadFrom(h, Put(in, x), s) /\ Len(Put(in, x).log) = Len(in.log) + 1
<1>1. PICK p : p = Put(in, x)
  OBVIOUS
<1>2. RingOK(p) /\ Passed(p) = Passed(in) /\ p.log = in.log \o <<x>>
  BY <1>1, PutPuts
<1>3. PICK new \in Seq(Frame) : new = <<x>> /\ Len(new) = 1
  <2>1. <<x>> \in Seq(Frame) /\ Len(<<x>>) = 1
    OBVIOUS
  <2>2. QED
    BY <2>1
<1>4. in.log \in Seq(Frame) /\ Len(in.log) \in Nat /\ 0 + Len(in.log) = Len(in.log)
  BY RingCounts DEF RingOK
<1>5. p.log = in.log \o new /\ Len(p.log) = Len(in.log) + 1
  BY <1>2, <1>3, <1>4, LogGrows
<1>6. Agrees(new, s, Len(in.log))
  BY <1>3, <1>4, AgreesOne
<1>7. Len(h) = Passed(in) /\ Agrees(h, in.log, 0) /\ Agrees(in.log, s, 0)
  BY DEF ReadFrom
<1>8. Agrees(p.log, s, 0)
  BY <1>4, <1>5, <1>6, <1>7, AgreesBoth
<1>9. Agrees(h, p.log, 0)
  <2>1. PICK n \in Nat : n = Len(in.log)
    BY <1>4
  <2>2. \A i \in 1..n : p.log[i] = in.log[i]
    BY <1>4, <1>5, <2>1, LogGrows
  <2>3. Len(h) \in Nat /\ Len(h) <= n
    BY <1>7, <2>1, RingCounts
  <2>4. \A i \in 1..Len(h) : i \in 1..n
    BY <2>3
  <2>5. QED
    BY <1>7, <2>2, <2>4 DEF Agrees
<1>10. QED
  BY <1>1, <1>2, <1>5, <1>7, <1>8, <1>9 DEF ReadFrom

(* What was given, and what comes, when more is staged and when the ring   *)
(* is drained.                                                             *)
LEMMA StagedMore ==
  ASSUME NEW t \in Seq(Frame), NEW p \in Seq(Frame), NEW out, RingOK(out), GaveFrom(t, p, out),
         NEW r, RingOK(r), Passed(r) = Passed(out), NEW new \in Seq(Frame), r.log = out.log \o new
  PROVE  /\ GaveFrom(t, p, r)
         /\ \A q \in Wire, k \in Nat : Follows(q, out.log, k, Passed(out)) => Follows(q, r.log, k, Passed(r))
<1>1. /\ out.log \in Seq(Frame) /\ Passed(out) \in Nat /\ Passed(out) <= Len(out.log)
      /\ Len(out.log) \in Nat /\ Len(t) \in Nat /\ Len(p) \in Nat
  <2>1. Len(t) \in Nat /\ Len(p) \in Nat
    OBVIOUS
  <2>2. QED
    BY <2>1, RingCounts DEF RingOK
<1>2. Len(t) + Len(p) <= Passed(out) /\ Agrees(t, out.log, 0) /\ Agrees(p, out.log, Len(t))
  BY DEF GaveFrom
<1>3. 0 + Len(t) <= Len(out.log) /\ Len(t) + Len(p) <= Len(out.log)
  BY <1>1, <1>2
<1>4. Agrees(t, r.log, 0)
  BY <1>1, <1>2, <1>3, AgreesLonger
<1>5. Agrees(p, r.log, Len(t))
  BY <1>1, <1>2, <1>3, AgreesLonger
<1>6. \A q \in Wire, k \in Nat : Follows(q, out.log, k, Passed(out)) => Follows(q, r.log, k, Passed(r))
  BY <1>1, FollowsLonger
<1>7. QED
  BY <1>2, <1>4, <1>5, <1>6 DEF GaveFrom

LEMMA DrainedOn ==
  ASSUME NEW t \in Seq(Frame), NEW p \in Seq(Frame), NEW out, RingOK(out), GaveFrom(t, p, out),
         NEW q \in Wire, NEW k \in Nat
  PROVE  /\ GaveFrom(t, p, Advance(out)) /\ q \o Egress(out) \in Wire
         /\ Follows(q, out.log, k, Passed(out)) /\ Whole(q, k, Passed(out)) =>
              /\ Follows(q \o Egress(out), out.log, k, Passed(Advance(out)))
              /\ Whole(q \o Egress(out), k, Passed(Advance(out)))
<1>1. PICK s \in Seq(Frame) : s = Egress(out)
  BY DrainFacts
<1>2. PICK n \in Nat, m \in Nat : n = Passed(out) /\ m = Passed(Advance(out))
  BY RingCounts, DrainFacts
<1>3. /\ Advance(out).log = out.log /\ m = n + Len(s) /\ n <= m /\ Agrees(s, out.log, n)
  <2>1. m = n + Len(s) /\ Advance(out).log = out.log /\ Agrees(s, out.log, n)
    BY <1>1, <1>2, DrainFacts
  <2>2. Len(s) \in Nat
    OBVIOUS
  <2>3. QED
    BY <1>2, <2>1, <2>2
<1>4. s \in Wire /\ Follows(s, out.log, n, m) /\ ~Ends(s)
  BY <1>2, <1>3, AgreesFollow
<1>5. GaveFrom(t, p, Advance(out))
  <2>1. Len(t) + Len(p) <= n /\ Len(t) \in Nat /\ Len(p) \in Nat
    BY <1>2 DEF GaveFrom
  <2>2. Len(t) + Len(p) <= m
    BY <1>2, <1>3, <2>1
  <2>3. QED
    BY <1>2, <1>3, <2>2 DEF GaveFrom
<1>6. q \o s \in Wire /\ Len(q) \in Nat /\ Len(s) \in Nat /\ Len(q \o s) = Len(q) + Len(s)
  BY <1>4, ConcatProperties DEF Wire
<1>7. ASSUME Follows(q, out.log, k, n), Whole(q, k, n)
      PROVE  Follows(q \o s, out.log, k, m) /\ Whole(q \o s, k, m)
  <2>1. ~Ends(q) => Follows(s, out.log, k + Len(q), m)
    BY <1>4, <1>7 DEF Whole
  <2>2. Follows(q \o s, out.log, k, m) /\ (Ends(q) => Ends(q \o s))
    BY <1>2, <1>3, <1>4, <1>7, <2>1, FollowsBoth
  <2>3. ~Ends(q) => k + Len(q \o s) = m
    BY <1>3, <1>6, <1>7 DEF Whole
  <2>4. QED
    BY <2>2, <2>3 DEF Whole
<1>8. QED
  BY <1>1, <1>2, <1>5, <1>6, <1>7

-----------------------------------------------------------------------------
(* A hook that runs where one may.                                         *)
LEMMA HookMore ==
  ASSUME hooks \in Seq(Hook), HooksFollow, NEW e \in Hook, hooks' = Append(hooks, e),
         e.hook = "connect" <=> hooks = <<>>,
         hooks # <<>> =>
           /\ hooks[Len(hooks)].hook # "close" /\ hooks[Len(hooks)].said # "trapped"
           /\ hooks[Len(hooks)].said = "refused" => hooks[Len(hooks)].hook = "message" /\ e.hook = "close"
  PROVE  /\ hooks' \in Seq(Hook) /\ hooks' # <<>> /\ hooks'[Len(hooks')] = e /\ HooksFollow'
<1>1. PICK n \in Nat : n = Len(hooks)
  OBVIOUS
<1>2. /\ hooks' \in Seq(Hook) /\ Len(hooks') = n + 1 /\ hooks'[n + 1] = e
      /\ \A i \in 1..n : hooks'[i] = hooks[i]
  BY <1>1, AppendProperties
<1>3. hooks' # <<>> /\ hooks'[Len(hooks')] = e
  BY <1>2
<1>4. ASSUME NEW i \in 1..(n + 1)
      PROVE  /\ (hooks'[i].hook = "connect") <=> (i = 1)
             /\ i < n + 1 =>
                  /\ hooks'[i].hook # "close" /\ hooks'[i].said # "trapped"
                  /\ hooks'[i].said = "refused" => hooks'[i].hook = "message" /\ hooks'[i + 1].hook = "close"
  <2>1. CASE i = n + 1
    <3>1. hooks = <<>> <=> n = 0
      BY <1>1
    <3>2. QED
      BY <1>2, <2>1, <3>1
  <2>2. CASE i = n /\ i # n + 1
    <3>1. i \in 1..n /\ hooks # <<>>
      BY <1>1, <1>4, <2>2
    <3>2. (hooks[i].hook = "connect") <=> (i = 1)
      BY <1>1, <3>1 DEF HooksFollow
    <3>3. QED
      BY <1>1, <1>2, <2>2, <3>1, <3>2
  <2>3. CASE i < n
    <3>1. i \in 1..n /\ i + 1 \in 1..n
      BY <1>4, <2>3
    <3>2. /\ (hooks[i].hook = "connect") <=> (i = 1)
          /\ hooks[i].hook # "close" /\ hooks[i].said # "trapped"
          /\ hooks[i].said = "refused" => hooks[i].hook = "message" /\ hooks[i + 1].hook = "close"
      BY <1>1, <2>3, <3>1 DEF HooksFollow
    <3>3. QED
      BY <1>2, <3>1, <3>2
  <2>4. QED
    BY <1>1, <1>4, <2>1, <2>2, <2>3
<1>5. HooksFollow'
  BY <1>2, <1>4 DEF HooksFollow
<1>6. QED
  BY <1>2, <1>3, <1>5

LEMMA StreamInitially == StreamInit => StreamInv
<1>1. SUFFICES ASSUME StreamInit PROVE StreamInv
  OBVIOUS
<1>2. <<>> \in Seq(Frame) /\ <<>> \in Wire /\ Len(<<>>) = 0 /\ <<>> \in Seq(Hook)
  BY DEF Wire
<1>3. RingOK(EmptyRing) /\ Passed(EmptyRing) = 0 /\ EmptyRing.log = <<>>
  BY <1>2 DEF RingOK, EmptyRing, LastOf, Passed
<1>4. \A g, k, n : Agrees(<<>>, g, k) /\ Follows(<<>>, g, k, n)
  BY <1>2 DEF Agrees, Follows
<1>5. StreamTypeOK
  BY <1>1, <1>2, <1>3 DEF StreamInit, StreamTypeOK, Hook
<1>6. Hearing
  BY <1>1, <1>2, <1>3, <1>4 DEF StreamInit, Hearing, ReadFrom, Whole
<1>7. Giving
  BY <1>1, <1>2, <1>3, <1>4 DEF StreamInit, Giving, GaveFrom, Given, Whole
<1>8. Hooked
  BY <1>1, <1>2 DEF StreamInit, Hooked, HooksFollow
<1>9. QED
  BY <1>5, <1>6, <1>7, <1>8 DEF StreamInv

(* What the steps of the server and of the page rely on.                   *)
LEMMA StreamFacts ==
  ASSUME StreamInv
  PROVE  /\ RingOK(ingress) /\ RingOK(egress)
         /\ toServer \in Wire /\ toClient \in Wire
         /\ heard \in Seq(Frame) /\ sent \in Seq(Frame) /\ told \in Seq(Frame) /\ pending \in Seq(Frame)
         /\ ReadFrom(heard, ingress, sent) /\ GaveFrom(told, pending, egress)
         /\ Given \in Nat /\ Passed(egress) \in Nat /\ Len(ingress.log) \in Nat /\ Len(sent) \in Nat
<1>1. told \in Seq(Frame) /\ pending \in Seq(Frame) /\ sent \in Seq(Frame)
  BY DEF StreamInv, StreamTypeOK
<1>2. Given \in Nat /\ Len(sent) \in Nat
  BY <1>1 DEF Given
<1>3. RingOK(ingress) /\ RingOK(egress)
  BY DEF StreamInv, StreamTypeOK
<1>4. Passed(egress) \in Nat /\ Len(ingress.log) \in Nat
  BY <1>3, RingCounts
<1>5. QED
  BY <1>1, <1>2, <1>3, <1>4 DEF StreamInv, StreamTypeOK, Hearing, Giving

LEMMA WireEnds ==
  ASSUME NEW q \in Wire
  PROVE  Append(q, Bye) \in Wire /\ Ends(Append(q, Bye))
<1>1. PICK n \in Nat : n = Len(q)
  BY DEF Wire
<1>2. Append(q, Bye) \in Wire /\ Len(Append(q, Bye)) = n + 1 /\ Append(q, Bye)[n + 1] = Bye
  BY <1>1, AppendProperties DEF Wire
<1>3. QED
  BY <1>1, <1>2 DEF Ends

(* What the page is given when it is closed on.                            *)
LEMMA ClosedOn ==
  ASSUME StreamInv
  PROVE  /\ Append(toClient, Bye) \in Wire /\ Ends(Append(toClient, Bye))
         /\ page \in {"connecting", "open"} =>
              Follows(Append(toClient, Bye), egress.log, Given, Passed(egress))
<1>1. toClient \in Wire /\ Given \in Nat /\ Passed(egress) \in Nat
  BY StreamFacts
<1>2. Append(toClient, Bye) \in Wire /\ Ends(Append(toClient, Bye))
  BY <1>1, WireEnds
<1>3. ASSUME page \in {"connecting", "open"}
      PROVE  Follows(Append(toClient, Bye), egress.log, Given, Passed(egress))
  <2>1. Follows(toClient, egress.log, Given, Passed(egress))
    BY <1>3 DEF StreamInv, Giving
  <2>2. QED
    BY <1>1, <2>1, FollowsEnded
<1>4. QED
  BY <1>2, <1>3

LEMMA UpgradeFailsKeeps ==
  ASSUME StreamInv, UpgradeFails
  PROVE  StreamInv'
<1>1. /\ server = "upgrade" /\ server' = "closed" /\ toClient' = <<Bye>>
      /\ UNCHANGED <<resident, open, ingress, egress, heard, hooks, toServer>>
      /\ UNCHANGED <<page, listening, pending, sent, told>>
  BY DEF UpgradeFails, channelVars
<1>2. <<Bye>> \in Wire /\ Ends(<<Bye>>) /\ Follows(<<Bye>>, egress.log, Given, Passed(egress))
  BY StreamFacts, FollowsBye
<1>3. ~open /\ ~resident
  BY <1>1 DEF StreamInv, Hooked
<1>4. StreamTypeOK'
  BY <1>1, <1>2 DEF StreamInv, StreamTypeOK
<1>5. Hearing'
  BY <1>1, <1>3 DEF StreamInv, Hearing
<1>6. Giving'
  BY <1>1, <1>2 DEF StreamInv, Giving, Given, Whole
<1>7. Hooked'
  BY <1>1, <1>3 DEF StreamInv, Hooked, HooksFollow
<1>8. QED
  BY <1>4, <1>5, <1>6, <1>7 DEF StreamInv

(* The hook that runs, for the frames and for the hooks.                   *)
LEMMA HookSteps ==
  ASSUME StreamAssumption, StreamInv, NEW kind \in {"connect", "message", "close"},
         NEW in, RingOK(in), ReadFrom(heard, in, sent), in.log \in Seq(Frame),
         NEW r \in HookOutcomes(in, egress), HookRan(kind, r),
         kind = "connect" <=> hooks = <<>>,
         hooks # <<>> =>
           /\ hooks[Len(hooks)].hook # "close" /\ hooks[Len(hooks)].said # "trapped"
           /\ hooks[Len(hooks)].said = "refused" => hooks[Len(hooks)].hook = "message" /\ kind = "close"
  PROVE  /\ RingOK(ingress') /\ ingress'.log = in.log /\ heard' \in Seq(Frame)
         /\ ReadFrom(heard', ingress', sent)
         /\ RingOK(r.out) /\ Passed(r.out) = Passed(egress) /\ GaveFrom(told, pending, r.out)
         /\ \A q \in Wire, k \in Nat : Follows(q, egress.log, k, Passed(egress)) => Follows(q, r.out.log, k, Passed(r.out))
         /\ r.said \in {"ok", "refused", "trapped"}
         /\ hooks' \in Seq(Hook) /\ hooks' # <<>> /\ HooksFollow'
         /\ hooks'[Len(hooks')] = [hook |-> kind, said |-> r.said]
<1>1. /\ RingOK(egress) /\ heard \in Seq(Frame) /\ told \in Seq(Frame) /\ pending \in Seq(Frame)
      /\ GaveFrom(told, pending, egress)
  BY StreamFacts
<1>2. /\ ingress' = r.in /\ heard' = heard \o r.got
      /\ hooks' = Append(hooks, [hook |-> kind, said |-> r.said])
  BY DEF HookRan
<1>3. /\ RingOK(r.in) /\ r.in.log = in.log /\ r.got \in Seq(Frame)
      /\ Passed(r.in) = Passed(in) + Len(r.got) /\ Agrees(r.got, in.log, Passed(in))
      /\ RingOK(r.out) /\ Passed(r.out) = Passed(egress)
      /\ \E new \in Seq(Frame) : r.out.log = egress.log \o new
      /\ r.said \in {"ok", "refused", "trapped"}
  BY <1>1, HookFacts
<1>4. PICK ri, got, ro : ri = r.in /\ got = r.got /\ ro = r.out
  OBVIOUS
<1>5. PICK new \in Seq(Frame) : ro.log = egress.log \o new
  BY <1>3, <1>4
<1>6. heard \o got \in Seq(Frame) /\ ReadFrom(heard \o got, ri, sent)
  <2>1. /\ RingOK(ri) /\ ri.log = in.log /\ got \in Seq(Frame)
        /\ Passed(ri) = Passed(in) + Len(got) /\ Agrees(got, in.log, Passed(in))
    BY <1>3, <1>4
  <2>2. QED
    BY <1>1, <2>1, ReadMore
<1>7. /\ GaveFrom(told, pending, ro)
      /\ \A q \in Wire, k \in Nat : Follows(q, egress.log, k, Passed(egress)) => Follows(q, ro.log, k, Passed(ro))
  <2>1. RingOK(ro) /\ Passed(ro) = Passed(egress)
    BY <1>3, <1>4
  <2>2. QED
    BY <1>1, <1>5, <2>1, StagedMore
<1>8. PICK e \in Hook : e = [hook |-> kind, said |-> r.said]
  BY <1>3 DEF Hook
<1>9. hooks \in Seq(Hook) /\ HooksFollow /\ hooks' = Append(hooks, e) /\ e.hook = kind
  BY <1>2, <1>8 DEF StreamInv, StreamTypeOK, Hooked
<1>10. hooks' \in Seq(Hook) /\ hooks' # <<>> /\ hooks'[Len(hooks')] = e /\ HooksFollow'
  BY <1>9, HookMore
<1>11. QED
  BY <1>2, <1>3, <1>4, <1>6, <1>7, <1>8, <1>10

LEMMA UpgradeKeeps ==
  ASSUME StreamAssumption, StreamInv, Upgrade
  PROVE  StreamInv'
<1>1. PICK r \in HookOutcomes(ingress, egress) :
        /\ HookRan("connect", r)
        /\ egress' = IF r.said = "trapped" THEN r.out ELSE Advance(r.out)
        /\ toClient' = (IF r.said = "trapped" THEN <<>> ELSE Egress(r.out))
                         \o (IF r.said = "ok" THEN <<>> ELSE <<Bye>>)
        /\ resident' = (r.said = "ok") /\ open' = (r.said = "ok")
        /\ server' = IF r.said = "ok" THEN "up" ELSE "closed"
  BY DEF Upgrade
<1>2. /\ server = "upgrade" /\ UNCHANGED <<toServer, page, listening, pending, sent, told>>
  BY DEF Upgrade, channelVars
<1>3. hooks = <<>> /\ toClient = <<>> /\ page = "connecting"
  BY <1>2 DEF StreamInv, Hooked, Giving
<1>4. /\ RingOK(ingress) /\ ReadFrom(heard, ingress, sent) /\ ingress.log \in Seq(Frame)
      /\ Given \in Nat /\ told \in Seq(Frame) /\ pending \in Seq(Frame)
  BY StreamFacts DEF RingOK
<1>5. /\ RingOK(ingress') /\ ingress'.log = ingress.log /\ heard' \in Seq(Frame)
      /\ ReadFrom(heard', ingress', sent)
      /\ RingOK(r.out) /\ Passed(r.out) = Passed(egress) /\ GaveFrom(told, pending, r.out)
      /\ r.said \in {"ok", "refused", "trapped"}
      /\ hooks' \in Seq(Hook) /\ hooks' # <<>> /\ HooksFollow'
      /\ hooks'[Len(hooks')] = [hook |-> "connect", said |-> r.said]
  BY <1>1, <1>3, <1>4, HookSteps
<1>6. PICK ro, said : ro = r.out /\ said = r.said
  OBVIOUS
<1>7. <<>> \in Wire /\ Len(<<>>) = 0 /\ ~Ends(<<>>) /\ \A g, k, n : Follows(<<>>, g, k, n)
  BY DEF Wire, Ends, Follows
<1>8. Given = Passed(ro) /\ Whole(<<>>, Given, Passed(ro))
  <2>1. Whole(<<>>, Given, Passed(egress))
    BY <1>2, <1>3 DEF StreamInv, Giving
  <2>2. QED
    BY <1>4, <1>5, <1>6, <1>7, <2>1 DEF Whole
<1>9. PICK s \in Seq(Frame) : s = Egress(ro)
  BY <1>5, <1>6, DrainFacts
<1>10. /\ RingOK(Advance(ro)) /\ GaveFrom(told, pending, Advance(ro)) /\ s \in Wire /\ Advance(ro).log = ro.log
       /\ Follows(s, Advance(ro).log, Given, Passed(Advance(ro))) /\ Whole(s, Given, Passed(Advance(ro)))
  <2>1. /\ GaveFrom(told, pending, Advance(ro)) /\ <<>> \o s \in Wire
        /\ Follows(<<>> \o s, ro.log, Given, Passed(Advance(ro))) /\ Whole(<<>> \o s, Given, Passed(Advance(ro)))
    BY <1>4, <1>5, <1>6, <1>7, <1>8, <1>9, DrainedOn
  <2>2. <<>> \o s = s
    BY ConcatEmptySeq
  <2>3. RingOK(Advance(ro)) /\ Advance(ro).log = ro.log
    BY <1>5, <1>6, DrainFacts
  <2>4. QED
    BY <2>1, <2>2, <2>3
<1>11. CASE said = "ok"
  <2>1. /\ egress' = Advance(ro) /\ toClient' = s /\ resident' = TRUE /\ open' = TRUE /\ server' = "up"
    BY <1>1, <1>6, <1>9, <1>11, ConcatEmptySeq
  <2>2. StreamTypeOK'
    BY <1>2, <1>5, <1>10, <2>1 DEF StreamInv, StreamTypeOK
  <2>3. Hearing'
    BY <1>2, <1>5 DEF StreamInv, Hearing
  <2>4. Giving'
    BY <1>2, <1>3, <1>10, <2>1 DEF StreamInv, Giving, Given
  <2>5. Hooked'
    BY <1>5, <1>6, <1>11, <2>1 DEF Hooked
  <2>6. QED
    BY <2>2, <2>3, <2>4, <2>5 DEF StreamInv
<1>12. CASE said # "ok"
  <2>1. PICK q \in Wire : q = IF said = "trapped" THEN <<>> ELSE s
    BY <1>7, <1>10
  <2>2. PICK out : out = IF said = "trapped" THEN ro ELSE Advance(ro)
    OBVIOUS
  <2>3. /\ egress' = out /\ toClient' = q \o <<Bye>>
        /\ resident' = FALSE /\ open' = FALSE /\ server' = "closed"
    BY <1>1, <1>6, <1>9, <1>12, <2>1, <2>2
  <2>4. /\ RingOK(out) /\ GaveFrom(told, pending, out) /\ Follows(q, out.log, Given, Passed(out))
    BY <1>5, <1>6, <1>7, <1>10, <2>1, <2>2
  <2>5. Append(q, Bye) \in Wire /\ Follows(Append(q, Bye), out.log, Given, Passed(out))
    BY <1>4, <2>4, RingCounts, FollowsEnded
  <2>6. toClient' = Append(q, Bye)
    BY <2>3, AppendIsConcat DEF Wire
  <2>7. StreamTypeOK'
    BY <1>2, <1>5, <2>3, <2>4, <2>5, <2>6 DEF StreamInv, StreamTypeOK
  <2>8. Hearing'
    BY <1>2, <1>5, <2>3 DEF Hearing
  <2>9. Giving'
    BY <1>2, <2>3, <2>4, <2>5, <2>6 DEF StreamInv, Giving, Given
  <2>10. Hooked'
    BY <1>5, <2>3 DEF Hooked
  <2>11. QED
    BY <2>7, <2>8, <2>9, <2>10 DEF StreamInv
<1>13. QED
  BY <1>11, <1>12

LEMMA MessageIgnoredKeeps ==
  ASSUME StreamInv, MessageIgnored
  PROVE  StreamInv'
<1>1. /\ server \in {"up", "closing"} /\ toServer # <<>> /\ Head(toServer) # Bye /\ ~open
      /\ toServer' = Tail(toServer)
      /\ UNCHANGED <<resident, open, server, ingress, egress, heard, hooks, toClient>>
      /\ UNCHANGED <<page, listening, pending, sent, told>>
  BY DEF MessageIgnored, Receives, Deaf, serverVars, channelVars
<1>2. Tail(toServer) \in Wire
  BY <1>1, StreamFacts, FollowsTail
<1>3. StreamTypeOK'
  BY <1>1, <1>2 DEF StreamInv, StreamTypeOK
<1>4. Hearing'
  BY <1>1 DEF StreamInv, Hearing
<1>5. Giving'
  BY <1>1 DEF StreamInv, Giving, Given
<1>6. Hooked'
  BY <1>1 DEF StreamInv, Hooked, HooksFollow
<1>7. QED
  BY <1>3, <1>4, <1>5, <1>6 DEF StreamInv

LEMMA MessageTooLongKeeps ==
  ASSUME StreamInv, MessageTooLong
  PROVE  StreamInv'
<1>1. /\ server \in {"up", "closing"} /\ toServer # <<>> /\ Head(toServer) # Bye
      /\ toServer' = Tail(toServer) /\ toClient' = Append(toClient, Bye)
      /\ resident' = FALSE /\ open' = FALSE /\ server' = "closing"
      /\ UNCHANGED <<ingress, egress, heard, hooks>>
      /\ UNCHANGED <<page, listening, pending, sent, told>>
  BY DEF MessageTooLong, Receives, channelVars
<1>2. Tail(toServer) \in Wire
  BY <1>1, StreamFacts, FollowsTail
<1>3. StreamTypeOK'
  BY <1>1, <1>2, ClosedOn DEF StreamInv, StreamTypeOK
<1>4. Hearing'
  BY <1>1 DEF StreamInv, Hearing
<1>5. Giving'
  BY <1>1, ClosedOn DEF StreamInv, Giving, Given
<1>6. Hooked'
  BY <1>1 DEF StreamInv, Hooked, HooksFollow
<1>7. QED
  BY <1>3, <1>4, <1>5, <1>6 DEF StreamInv

LEMMA MessageKeeps ==
  ASSUME StreamAssumption, StreamInv, Message
  PROVE  StreamInv'
<1>1. /\ toServer # <<>> /\ Head(toServer) # Bye /\ open
      /\ toServer' = Tail(toServer)
      /\ UNCHANGED <<page, listening, pending, sent, told>>
  BY DEF Message, Receives, Deaf, channelVars
<1>2. PICK x : x = Head(toServer)
  OBVIOUS
<1>3. PICK r \in HookOutcomes(Put(ingress, x), egress) :
        /\ HookRan("message", r)
        /\ IF r.said = "ok"
           THEN /\ egress' = Advance(r.out)
                /\ toClient' = toClient \o Egress(r.out)
                /\ UNCHANGED <<resident, open, server>>
           ELSE /\ egress' = r.out
                /\ toClient' = Append(toClient, Bye)
                /\ resident' = (resident /\ r.said = "refused")
                /\ open' = FALSE /\ server' = "closing"
  BY <1>2 DEF Message
<1>4. /\ RingOK(ingress) /\ RingOK(egress) /\ ReadFrom(heard, ingress, sent) /\ toServer \in Wire
      /\ toClient \in Wire /\ sent \in Seq(Frame) /\ told \in Seq(Frame) /\ pending \in Seq(Frame)
      /\ Given \in Nat /\ Passed(egress) \in Nat /\ Len(ingress.log) \in Nat /\ Len(sent) \in Nat
  BY StreamFacts
<1>5. resident /\ server = "up"
  BY <1>1 DEF StreamInv, Hooked
<1>6. Follows(toServer, sent, Len(ingress.log), Len(sent)) /\ Whole(toServer, Len(ingress.log), Len(sent))
  BY <1>1 DEF StreamInv, Hearing
<1>7. /\ x \in Frame /\ Tail(toServer) \in Wire /\ Len(Tail(toServer)) = Len(toServer) - 1
      /\ Len(toServer) \in Nat /\ (Ends(toServer) => Ends(Tail(toServer)))
      /\ Len(ingress.log) + 1 <= Len(sent) /\ sent[Len(ingress.log) + 1] = x
      /\ Follows(Tail(toServer), sent, Len(ingress.log) + 1, Len(sent))
  BY <1>1, <1>2, <1>4, <1>6, FollowsTail
<1>8. PICK in : in = Put(ingress, x)
  OBVIOUS
<1>9. RingOK(in) /\ in.log \in Seq(Frame) /\ ReadFrom(heard, in, sent) /\ Len(in.log) = Len(ingress.log) + 1
  <2>1. RingOK(in)
    BY <1>4, <1>7, <1>8, PutPuts
  <2>2. in.log \in Seq(Frame)
    BY <2>1 DEF RingOK
  <2>3. ReadFrom(heard, in, sent) /\ Len(in.log) = Len(ingress.log) + 1
    BY <1>4, <1>7, <1>8, HeardNext
  <2>4. QED
    BY <2>1, <2>2, <2>3
<1>10. Whole(Tail(toServer), Len(in.log), Len(sent))
  <2>1. SUFFICES ASSUME ~Ends(Tail(toServer)) PROVE Len(in.log) + Len(Tail(toServer)) = Len(sent)
    BY DEF Whole
  <2>2. Len(ingress.log) + Len(toServer) = Len(sent)
    BY <1>6, <1>7, <2>1 DEF Whole
  <2>3. PICK a \in Nat, b \in Nat : a = Len(ingress.log) /\ b = Len(toServer)
    BY <1>4, <1>7
  <2>4. (a + 1) + (b - 1) = a + b
    OBVIOUS
  <2>5. QED
    BY <1>7, <1>9, <2>2, <2>3, <2>4
<1>11. /\ hooks # <<>> /\ hooks[Len(hooks)].hook # "close" /\ hooks[Len(hooks)].said # "trapped"
       /\ hooks[Len(hooks)].said # "refused"
  BY <1>1, <1>5 DEF StreamInv, Hooked
<1>12. /\ RingOK(ingress') /\ ingress'.log = in.log /\ heard' \in Seq(Frame)
       /\ ReadFrom(heard', ingress', sent)
       /\ RingOK(r.out) /\ Passed(r.out) = Passed(egress) /\ GaveFrom(told, pending, r.out)
       /\ \A q \in Wire, k \in Nat : Follows(q, egress.log, k, Passed(egress)) => Follows(q, r.out.log, k, Passed(r.out))
       /\ r.said \in {"ok", "refused", "trapped"}
       /\ hooks' \in Seq(Hook) /\ hooks' # <<>> /\ HooksFollow'
       /\ hooks'[Len(hooks')] = [hook |-> "message", said |-> r.said]
  <2>1. r \in HookOutcomes(in, egress) /\ HookRan("message", r)
    BY <1>3, <1>8
  <2>2. QED
    BY <1>9, <1>11, <2>1, HookSteps
<1>13. PICK ro, said : ro = r.out /\ said = r.said
  OBVIOUS
<1>14. Hearing'
  BY <1>1, <1>7, <1>9, <1>10, <1>12 DEF Hearing
<1>15. page \in {"connecting", "open"} =>
         /\ Follows(toClient, egress.log, Given, Passed(egress))
         /\ Whole(toClient, Given, Passed(egress))
  BY <1>5 DEF StreamInv, Giving
<1>16. listening => pending = <<>>
  BY DEF StreamInv, Giving
<1>17. CASE said = "ok"
  <2>1. /\ egress' = Advance(ro) /\ toClient' = toClient \o Egress(ro) /\ UNCHANGED <<resident, open, server>>
    BY <1>3, <1>13, <1>17
  <2>2. /\ GaveFrom(told, pending, Advance(ro)) /\ toClient \o Egress(ro) \in Wire
        /\ Follows(toClient, ro.log, Given, Passed(ro)) /\ Whole(toClient, Given, Passed(ro)) =>
             /\ Follows(toClient \o Egress(ro), ro.log, Given, Passed(Advance(ro)))
             /\ Whole(toClient \o Egress(ro), Given, Passed(Advance(ro)))
    BY <1>4, <1>12, <1>13, DrainedOn
  <2>3. RingOK(Advance(ro)) /\ Advance(ro).log = ro.log
    BY <1>12, <1>13, DrainFacts
  <2>4. page \in {"connecting", "open"} =>
          /\ Follows(toClient', egress'.log, Given, Passed(egress'))
          /\ Whole(toClient', Given, Passed(egress'))
    BY <1>4, <1>12, <1>13, <1>15, <2>1, <2>2, <2>3
  <2>5. StreamTypeOK'
    BY <1>1, <1>7, <1>12, <2>1, <2>2, <2>3 DEF StreamInv, StreamTypeOK
  <2>6. Giving'
    BY <1>1, <1>5, <1>16, <2>1, <2>2, <2>4 DEF Giving, Given
  <2>7. Hooked'
    BY <1>5, <1>12, <1>13, <1>17, <2>1 DEF Hooked
  <2>8. QED
    BY <1>14, <2>5, <2>6, <2>7 DEF StreamInv
<1>18. CASE said # "ok"
  <2>1. /\ egress' = ro /\ toClient' = Append(toClient, Bye) /\ (resident' <=> resident /\ said = "refused")
        /\ resident' \in BOOLEAN /\ open' = FALSE /\ server' = "closing"
    BY <1>3, <1>13, <1>18
  <2>2. Append(toClient, Bye) \in Wire
    BY ClosedOn
  <2>3. page \in {"connecting", "open"} => Follows(toClient', egress'.log, Given, Passed(egress'))
    BY <1>4, <1>12, <1>13, <2>1, <2>2, ClosedOn, FollowsEnded, <1>15
  <2>4. StreamTypeOK'
    BY <1>1, <1>7, <1>12, <1>13, <2>1, <2>2 DEF StreamInv, StreamTypeOK
  <2>5. Giving'
    BY <1>1, <1>12, <1>13, <1>16, <2>1, <2>3 DEF Giving, Given
  <2>6. Hooked'
    BY <1>12, <1>13, <1>18, <2>1 DEF Hooked
  <2>7. QED
    BY <1>14, <2>4, <2>5, <2>6 DEF StreamInv
<1>19. QED
  BY <1>17, <1>18

LEMMA CloseEventKeeps ==
  ASSUME StreamAssumption, StreamInv, CloseEvent
  PROVE  StreamInv'
<1>1. /\ server \in {"up", "closing"}
      /\ server' = "closed" /\ toServer' = <<>> /\ open' = FALSE /\ resident' = FALSE
      /\ toClient' = IF Ends(toClient) THEN toClient ELSE Append(toClient, Bye)
      /\ UNCHANGED <<page, listening, pending, sent, told>>
  BY DEF CloseEvent, channelVars
<1>2. /\ RingOK(ingress) /\ RingOK(egress) /\ ReadFrom(heard, ingress, sent) /\ ingress.log \in Seq(Frame)
      /\ toClient \in Wire /\ Given \in Nat /\ heard \in Seq(Frame) /\ GaveFrom(told, pending, egress)
  BY StreamFacts DEF RingOK
<1>3. /\ RingOK(ingress') /\ RingOK(egress') /\ heard' \in Seq(Frame) /\ ReadFrom(heard', ingress', sent)
      /\ GaveFrom(told, pending, egress')
      /\ \A q \in Wire, k \in Nat :
           Follows(q, egress.log, k, Passed(egress)) => Follows(q, egress'.log, k, Passed(egress'))
      /\ hooks' \in Seq(Hook) /\ HooksFollow'
  <2>1. CASE resident
    <3>1. PICK r \in HookOutcomes(ingress, egress) : HookRan("close", r) /\ egress' = r.out
      BY <2>1 DEF CloseEvent
    <3>2. /\ hooks # <<>> /\ hooks[Len(hooks)].hook # "close" /\ hooks[Len(hooks)].said # "trapped"
          /\ hooks[Len(hooks)].said = "refused" => hooks[Len(hooks)].hook = "message"
      BY <2>1 DEF StreamInv, Hooked
    <3>3. QED
      BY <1>2, <3>1, <3>2, HookSteps
  <2>2. CASE ~resident
    <3>1. UNCHANGED <<ingress, egress, heard, hooks>>
      BY <2>2 DEF CloseEvent
    <3>2. hooks \in Seq(Hook) /\ HooksFollow
      BY DEF StreamInv, StreamTypeOK, Hooked
    <3>3. HooksFollow'
      BY <3>1, <3>2 DEF HooksFollow
    <3>4. QED
      BY <1>2, <3>1, <3>2, <3>3
  <2>3. QED
    BY <2>1, <2>2
<1>4. toClient' \in Wire
  BY <1>1, <1>2, ClosedOn
<1>5. page \in {"connecting", "open"} => Follows(toClient', egress'.log, Given, Passed(egress'))
  <2>1. SUFFICES ASSUME page \in {"connecting", "open"}
                 PROVE  Follows(toClient', egress'.log, Given, Passed(egress'))
    OBVIOUS
  <2>2. Follows(toClient, egress.log, Given, Passed(egress))
    BY <2>1 DEF StreamInv, Giving
  <2>3. Follows(Append(toClient, Bye), egress.log, Given, Passed(egress))
    BY <2>1, ClosedOn
  <2>4. Follows(toClient', egress.log, Given, Passed(egress))
    BY <1>1, <2>2, <2>3
  <2>5. QED
    BY <1>2, <1>3, <1>4, <2>4
<1>6. StreamTypeOK'
  <2>1. <<>> \in Wire
    BY DEF Wire
  <2>2. QED
    BY <1>1, <1>3, <1>4, <2>1 DEF StreamInv, StreamTypeOK
<1>7. Hearing'
  BY <1>1, <1>3 DEF Hearing
<1>8. Giving'
  BY <1>1, <1>3, <1>5 DEF StreamInv, Giving, Given
<1>9. Hooked'
  BY <1>1, <1>3 DEF Hooked
<1>10. QED
  BY <1>6, <1>7, <1>8, <1>9 DEF StreamInv

LEMMA LineDropsKeeps ==
  ASSUME StreamInv, LineDrops
  PROVE  StreamInv'
<1>1. PICK i \in 0..Len(toServer), j \in 0..Len(toClient) :
        /\ toServer' = Append(SubSeq(toServer, 1, i), Bye)
        /\ toClient' = Append(SubSeq(toClient, 1, j), Bye)
  BY DEF LineDrops
<1>2. /\ UNCHANGED <<resident, open, server, ingress, egress, heard, hooks>>
      /\ UNCHANGED <<page, listening, pending, sent, told>> /\ server = "up"
  BY DEF LineDrops, serverVars, channelVars
<1>3. /\ toServer \in Wire /\ toClient \in Wire /\ Len(ingress.log) \in Nat /\ Len(sent) \in Nat
      /\ Given \in Nat /\ Passed(egress) \in Nat
  BY StreamFacts
<1>4. /\ toServer' \in Wire /\ Ends(toServer')
      /\ Follows(toServer, sent, Len(ingress.log), Len(sent)) => Follows(toServer', sent, Len(ingress.log), Len(sent))
  <2>1. PICK q \in Wire : q = SubSeq(toServer, 1, i)
    BY <1>3, WireCut
  <2>2. QED
    BY <1>1, <1>3, <2>1, WireEnds, FollowsCut, FollowsEnded
<1>5. /\ toClient' \in Wire /\ Ends(toClient')
      /\ Follows(toClient, egress.log, Given, Passed(egress)) => Follows(toClient', egress.log, Given, Passed(egress))
  <2>1. PICK q \in Wire : q = SubSeq(toClient, 1, j)
    BY <1>3, WireCut
  <2>2. QED
    BY <1>1, <1>3, <2>1, WireEnds, FollowsCut, FollowsEnded
<1>6. StreamTypeOK'
  BY <1>2, <1>4, <1>5 DEF StreamInv, StreamTypeOK
<1>7. Hearing'
  BY <1>2, <1>4 DEF StreamInv, Hearing, Whole
<1>8. Giving'
  BY <1>2, <1>5 DEF StreamInv, Giving, Given, Whole
<1>9. Hooked'
  BY <1>2 DEF StreamInv, Hooked, HooksFollow
<1>10. QED
  BY <1>6, <1>7, <1>8, <1>9 DEF StreamInv

LEMMA PageOpensKeeps ==
  ASSUME StreamInv, PageOpens
  PROVE  StreamInv'
<1>1. /\ page = "connecting" /\ server # "upgrade" /\ page' = "open"
      /\ UNCHANGED <<resident, open, server, ingress, egress, heard, hooks>>
      /\ UNCHANGED <<toServer, toClient, listening, pending, sent, told>>
  BY DEF PageOpens, serverVars
<1>2. StreamTypeOK'
  BY <1>1 DEF StreamInv, StreamTypeOK
<1>3. Hearing'
  BY <1>1 DEF StreamInv, Hearing
<1>4. Giving'
  BY <1>1 DEF StreamInv, Giving, Given
<1>5. Hooked'
  BY <1>1 DEF StreamInv, Hooked, HooksFollow
<1>6. QED
  BY <1>2, <1>3, <1>4, <1>5 DEF StreamInv

LEMMA ListenKeeps ==
  ASSUME StreamInv, Listen
  PROVE  StreamInv'
<1>1. /\ page # "connecting" /\ listening' = TRUE /\ told' = told \o pending /\ pending' = <<>>
      /\ UNCHANGED <<resident, open, server, ingress, egress, heard, hooks>>
      /\ UNCHANGED <<toServer, toClient, page, sent>>
  BY DEF Listen, serverVars
<1>2. told \in Seq(Frame) /\ pending \in Seq(Frame) /\ GaveFrom(told, pending, egress)
  BY StreamFacts
<1>3. <<>> \in Seq(Frame) /\ Len(<<>>) = 0
  OBVIOUS
<1>4. told' \in Seq(Frame) /\ Len(told') = Len(told) + Len(pending)
  BY <1>1, <1>2, ConcatProperties
<1>5. Given' = Given
  BY <1>1, <1>2, <1>3, <1>4 DEF Given
<1>6. Agrees(told', egress.log, 0)
  <2>1. 0 + Len(told) = Len(told)
    BY <1>2
  <2>2. Agrees(told, egress.log, 0) /\ Agrees(pending, egress.log, 0 + Len(told))
    BY <1>2, <2>1 DEF GaveFrom
  <2>3. QED
    BY <1>1, <1>2, <2>2, AgreesBoth
<1>7. GaveFrom(told', pending', egress)
  <2>1. Agrees(pending', egress.log, Len(told'))
    BY <1>1, <1>3 DEF Agrees
  <2>2. Len(told') + Len(pending') = Len(told) + Len(pending)
    BY <1>1, <1>2, <1>3, <1>4
  <2>3. QED
    BY <1>2, <1>6, <2>1, <2>2 DEF GaveFrom
<1>8. StreamTypeOK'
  BY <1>1, <1>3, <1>4 DEF StreamInv, StreamTypeOK
<1>9. Hearing'
  BY <1>1 DEF StreamInv, Hearing
<1>10. Giving'
  BY <1>1, <1>5, <1>7 DEF StreamInv, Giving
<1>11. Hooked'
  BY <1>1 DEF StreamInv, Hooked, HooksFollow
<1>12. QED
  BY <1>8, <1>9, <1>10, <1>11 DEF StreamInv

LEMMA SendKeeps ==
  ASSUME StreamAssumption, StreamInv, Send
  PROVE  StreamInv'
<1>1. PICK size \in Sizes :
        LET frame == [n |-> Len(sent) + 1, size |-> size]
        IN sent' = Append(sent, frame) /\ toServer' = Append(toServer, frame)
  BY DEF Send
<1>2. /\ page = "open"
      /\ UNCHANGED <<resident, open, server, ingress, egress, heard, hooks>>
      /\ UNCHANGED <<toClient, page, listening, pending, told>>
  BY DEF Send, serverVars
<1>3. /\ RingOK(ingress) /\ ReadFrom(heard, ingress, sent) /\ toServer \in Wire /\ sent \in Seq(Frame)
      /\ Len(ingress.log) \in Nat /\ Len(sent) \in Nat
  BY StreamFacts
<1>4. PICK x : x = [n |-> Len(sent) + 1, size |-> size]
  OBVIOUS
<1>5. x \in Frame
  <2>1. size \in Nat /\ size # 0 /\ Len(sent) + 1 \in Nat
    BY <1>3 DEF StreamAssumption
  <2>2. x.size = size /\ Bye.size = 0
    BY <1>4 DEF Bye
  <2>3. x # Bye
    BY <2>1, <2>2
  <2>4. QED
    BY <1>4, <2>1, <2>3 DEF Frame
<1>6. PICK new \in Seq(Frame) : new = <<x>> /\ Len(new) = 1
  <2>1. <<x>> \in Seq(Frame) /\ Len(<<x>>) = 1
    BY <1>5
  <2>2. QED
    BY <2>1
<1>7. sent' = sent \o new /\ toServer' = toServer \o new
  BY <1>1, <1>3, <1>4, <1>6, AppendIsConcat DEF Wire
<1>8. ReadFrom(heard, ingress, sent') /\ sent' \in Seq(Frame) /\ Len(sent') = Len(sent) + 1
      /\ Agrees(new, sent', Len(sent))
  BY <1>3, <1>6, <1>7, SentMore, LogGrows
<1>9. new \in Wire /\ toServer' \in Wire /\ Len(toServer') = Len(toServer) + 1 /\ Len(toServer) \in Nat
  BY <1>3, <1>6, <1>7, SeqMonotonic, ConcatProperties DEF Wire
<1>10. ASSUME open \/ server = "upgrade"
       PROVE  /\ Follows(toServer', sent', Len(ingress.log), Len(sent'))
              /\ Whole(toServer', Len(ingress.log), Len(sent'))
  <2>1. Follows(toServer, sent, Len(ingress.log), Len(sent)) /\ Whole(toServer, Len(ingress.log), Len(sent))
    BY <1>10 DEF StreamInv, Hearing
  <2>2. Follows(toServer, sent', Len(ingress.log), Len(sent))
    <3>1. Len(sent) <= Len(sent)
      BY <1>3
    <3>2. QED
      BY <1>3, <1>7, <2>1, <3>1, FollowsLonger
  <2>3. Follows(new, sent', Len(sent), Len(sent'))
    <3>1. Len(sent) + Len(new) <= Len(sent') /\ Len(sent') \in Nat
      BY <1>3, <1>6, <1>8
    <3>2. QED
      BY <1>3, <1>8, <3>1, AgreesFollow
  <2>4. ~Ends(toServer) => Follows(new, sent', Len(ingress.log) + Len(toServer), Len(sent'))
    BY <2>1, <2>3 DEF Whole
  <2>5. Len(sent) <= Len(sent') /\ Len(sent') \in Nat
    BY <1>3, <1>8
  <2>6. Follows(toServer', sent', Len(ingress.log), Len(sent')) /\ (Ends(toServer) => Ends(toServer'))
    BY <1>3, <1>7, <1>9, <2>2, <2>4, <2>5, FollowsBoth
  <2>7. ~Ends(toServer') => Len(ingress.log) + Len(toServer') = Len(sent')
    <3>1. SUFFICES ASSUME ~Ends(toServer') PROVE Len(ingress.log) + Len(toServer') = Len(sent')
      OBVIOUS
    <3>2. Len(ingress.log) + Len(toServer) = Len(sent)
      BY <2>1, <2>6, <3>1 DEF Whole
    <3>3. PICK a \in Nat, b \in Nat : a = Len(ingress.log) /\ b = Len(toServer)
      BY <1>3, <1>9
    <3>4. a + (b + 1) = (a + b) + 1
      OBVIOUS
    <3>5. QED
      BY <1>8, <1>9, <3>2, <3>3, <3>4
  <2>8. QED
    BY <2>6, <2>7 DEF Whole
<1>11. StreamTypeOK'
  BY <1>2, <1>8, <1>9 DEF StreamInv, StreamTypeOK
<1>12. Hearing'
  BY <1>2, <1>8, <1>10 DEF Hearing
<1>13. Giving'
  BY <1>2 DEF StreamInv, Giving, Given
<1>14. Hooked'
  BY <1>2 DEF StreamInv, Hooked, HooksFollow
<1>15. QED
  BY <1>11, <1>12, <1>13, <1>14 DEF StreamInv

LEMMA PageMessageKeeps ==
  ASSUME StreamInv, PageMessage
  PROVE  StreamInv'
<1>1. /\ page \in {"open", "closing"} /\ toClient # <<>> /\ Head(toClient) # Bye
      /\ toClient' = Tail(toClient)
      /\ UNCHANGED <<resident, open, server, ingress, egress, heard, hooks>>
      /\ UNCHANGED <<toServer, page, listening, sent>>
  BY DEF PageMessage, serverVars
<1>2. PICK x : x = Head(toClient)
  OBVIOUS
<1>3. \/ page = "closing" /\ UNCHANGED <<told, pending>>
      \/ page = "open" /\ listening /\ told' = Append(told, x) /\ UNCHANGED pending
      \/ page = "open" /\ ~listening /\ pending' = Append(pending, x) /\ UNCHANGED told
  BY <1>2 DEF PageMessage
<1>4. /\ RingOK(egress) /\ toClient \in Wire /\ told \in Seq(Frame) /\ pending \in Seq(Frame)
      /\ GaveFrom(told, pending, egress) /\ Given \in Nat /\ Passed(egress) \in Nat
  BY StreamFacts
<1>5. /\ x \in Frame /\ Tail(toClient) \in Wire /\ Len(Tail(toClient)) = Len(toClient) - 1
      /\ Len(toClient) \in Nat \ {0} /\ (Ends(toClient) => Ends(Tail(toClient)))
      /\ Follows(toClient, egress.log, Given, Passed(egress)) =>
           /\ Given + 1 <= Passed(egress) /\ egress.log[Given + 1] = x
           /\ Follows(Tail(toClient), egress.log, Given + 1, Passed(egress))
  BY <1>1, <1>2, <1>4, FollowsTail
<1>6. server # "upgrade"
  BY <1>1 DEF StreamInv, Giving
<1>7. Hearing'
  BY <1>1 DEF StreamInv, Hearing
<1>8. Hooked'
  BY <1>1 DEF StreamInv, Hooked, HooksFollow
<1>9. CASE page = "closing"
  <2>1. UNCHANGED <<told, pending>>
    BY <1>3, <1>9
  <2>2. StreamTypeOK'
    BY <1>1, <1>5, <2>1 DEF StreamInv, StreamTypeOK
  <2>3. Giving'
    BY <1>1, <1>6, <1>9, <2>1 DEF StreamInv, Giving, Given
  <2>4. QED
    BY <1>7, <1>8, <2>2, <2>3 DEF StreamInv
<1>10. CASE page = "open"
  <2>1. /\ Follows(toClient, egress.log, Given, Passed(egress))
        /\ server \in {"upgrade", "up"} => Whole(toClient, Given, Passed(egress))
        /\ listening => pending = <<>>
    BY <1>10 DEF StreamInv, Giving
  <2>2. PICK t \in Nat, p \in Nat : t = Len(told) /\ p = Len(pending) /\ Given = t + p
    BY <1>4 DEF Given
  <2>3. /\ t + p + 1 <= Passed(egress) /\ egress.log[(t + p) + 1] = x
        /\ Follows(toClient', egress.log, (t + p) + 1, Passed(egress))
    BY <1>1, <1>4, <1>5, <2>1, <2>2
  <2>4. PICK new \in Seq(Frame) : new = <<x>> /\ Len(new) = 1
    <3>1. <<x>> \in Seq(Frame) /\ Len(<<x>>) = 1
      BY <1>5
    <3>2. QED
      BY <3>1
  <2>5. Agrees(new, egress.log, t + p)
    BY <2>2, <2>3, <2>4, AgreesOne
  <2>6. Agrees(told, egress.log, 0) /\ Agrees(pending, egress.log, t)
    BY <1>4, <2>2 DEF GaveFrom
  <2>7. /\ told' \in Seq(Frame) /\ pending' \in Seq(Frame) /\ Len(told') + Len(pending') = (t + p) + 1
        /\ Agrees(told', egress.log, 0) /\ Agrees(pending', egress.log, Len(told'))
        /\ listening => pending' = <<>>
    <3>1. CASE listening
      <4>1. told' = told \o new /\ pending' = <<>> /\ p = 0 /\ pending = <<>>
        <5>1. told' = Append(told, x) /\ pending' = pending /\ pending = <<>>
          BY <1>3, <1>10, <2>1, <3>1
        <5>2. Append(told, x) = told \o <<x>>
          BY <1>4, <1>5, AppendIsConcat
        <5>3. QED
          BY <2>2, <2>4, <5>1, <5>2
      <4>2. told' \in Seq(Frame) /\ Len(told') = t + 1
        BY <1>4, <2>2, <2>4, <4>1, ConcatProperties
      <4>3. Agrees(new, egress.log, 0 + t)
        BY <2>2, <2>5, <4>1
      <4>4. Agrees(told', egress.log, 0)
        BY <1>4, <2>2, <2>6, <4>1, <4>3, AgreesBoth
      <4>5. Agrees(pending', egress.log, Len(told')) /\ Len(pending') = 0 /\ pending' \in Seq(Frame)
        BY <4>1 DEF Agrees
      <4>6. QED
        BY <2>2, <4>1, <4>2, <4>4, <4>5
    <3>2. CASE ~listening
      <4>1. pending' = pending \o new /\ told' = told
        <5>1. pending' = Append(pending, x) /\ told' = told
          BY <1>3, <1>10, <3>2
        <5>2. Append(pending, x) = pending \o <<x>>
          BY <1>4, <1>5, AppendIsConcat
        <5>3. QED
          BY <2>4, <5>1, <5>2
      <4>2. pending' \in Seq(Frame) /\ Len(pending') = p + 1
        BY <1>4, <2>2, <2>4, <4>1, ConcatProperties
      <4>3. Agrees(pending', egress.log, t)
        BY <1>4, <2>2, <2>4, <2>5, <2>6, <4>1, AgreesBoth
      <4>4. QED
        BY <1>4, <2>2, <2>6, <3>2, <4>1, <4>2, <4>3
    <3>3. QED
      BY <3>1, <3>2
  <2>8. Given' = (t + p) + 1
    BY <2>7 DEF Given
  <2>9. GaveFrom(told', pending', egress)
    BY <2>3, <2>7 DEF GaveFrom
  <2>10. server = "up" => Whole(toClient', (t + p) + 1, Passed(egress))
    <3>1. SUFFICES ASSUME server = "up", ~Ends(Tail(toClient))
                   PROVE  ((t + p) + 1) + Len(Tail(toClient)) = Passed(egress)
      BY <1>1 DEF Whole
    <3>2. (t + p) + Len(toClient) = Passed(egress)
      BY <1>5, <2>1, <2>2, <3>1 DEF Whole
    <3>3. PICK l \in Nat : l = Len(toClient)
      BY <1>5
    <3>4. ((t + p) + 1) + (l - 1) = (t + p) + l
      BY <2>2
    <3>5. QED
      BY <1>5, <3>2, <3>3, <3>4
  <2>11. StreamTypeOK'
    BY <1>1, <1>5, <2>7 DEF StreamInv, StreamTypeOK
  <2>12. Giving'
    BY <1>1, <1>6, <2>3, <2>7, <2>8, <2>9, <2>10 DEF Giving
  <2>13. QED
    BY <1>7, <1>8, <2>11, <2>12 DEF StreamInv
<1>11. QED
  BY <1>1, <1>9, <1>10

LEMMA CloseKeeps ==
  ASSUME StreamInv, Close
  PROVE  StreamInv'
<1>1. /\ page = "open" /\ page' = "closing" /\ toServer' = Append(toServer, Bye)
      /\ UNCHANGED <<resident, open, server, ingress, egress, heard, hooks>>
      /\ UNCHANGED <<toClient, listening, pending, sent, told>>
  BY DEF Close, serverVars
<1>2. toServer \in Wire /\ Len(ingress.log) \in Nat /\ Len(sent) \in Nat
  BY StreamFacts
<1>3. /\ toServer' \in Wire /\ Ends(toServer')
      /\ Follows(toServer, sent, Len(ingress.log), Len(sent)) => Follows(toServer', sent, Len(ingress.log), Len(sent))
  BY <1>1, <1>2, WireEnds, FollowsEnded
<1>4. StreamTypeOK'
  BY <1>1, <1>3 DEF StreamInv, StreamTypeOK
<1>5. Hearing'
  BY <1>1, <1>3 DEF StreamInv, Hearing, Whole
<1>6. Giving'
  BY <1>1 DEF StreamInv, Giving, Given
<1>7. Hooked'
  BY <1>1 DEF StreamInv, Hooked, HooksFollow
<1>8. QED
  BY <1>4, <1>5, <1>6, <1>7 DEF StreamInv

LEMMA PageCloseEventKeeps ==
  ASSUME StreamInv, PageCloseEvent
  PROVE  StreamInv'
<1>1. /\ page \in {"open", "closing"} /\ page' = "closed" /\ toClient' = <<>>
      /\ UNCHANGED <<resident, open, server, ingress, egress, heard, hooks>>
      /\ UNCHANGED <<toServer, listening, pending, sent, told>>
  BY DEF PageCloseEvent, serverVars
<1>2. <<>> \in Wire
  BY DEF Wire
<1>3. StreamTypeOK'
  BY <1>1, <1>2 DEF StreamInv, StreamTypeOK
<1>4. Hearing'
  BY <1>1 DEF StreamInv, Hearing
<1>5. Giving'
  BY <1>1 DEF StreamInv, Giving, Given
<1>6. Hooked'
  BY <1>1 DEF StreamInv, Hooked, HooksFollow
<1>7. QED
  BY <1>3, <1>4, <1>5, <1>6 DEF StreamInv

LEMMA StreamSteps == StreamAssumption /\ StreamInv /\ [StreamNext]_streamVars => StreamInv'
<1>1. SUFFICES ASSUME StreamAssumption, StreamInv, [StreamNext]_streamVars PROVE StreamInv'
  OBVIOUS
<1>2. CASE UpgradeFails
  BY <1>1, <1>2, UpgradeFailsKeeps
<1>3. CASE Upgrade
  BY <1>1, <1>3, UpgradeKeeps
<1>4. CASE MessageIgnored
  BY <1>1, <1>4, MessageIgnoredKeeps
<1>5. CASE MessageTooLong
  BY <1>1, <1>5, MessageTooLongKeeps
<1>6. CASE Message
  BY <1>1, <1>6, MessageKeeps
<1>7. CASE CloseEvent
  BY <1>1, <1>7, CloseEventKeeps
<1>8. CASE LineDrops
  BY <1>1, <1>8, LineDropsKeeps
<1>9. CASE PageOpens
  BY <1>1, <1>9, PageOpensKeeps
<1>10. CASE Listen
  BY <1>1, <1>10, ListenKeeps
<1>11. CASE Send
  BY <1>1, <1>11, SendKeeps
<1>12. CASE PageMessage
  BY <1>1, <1>12, PageMessageKeeps
<1>13. CASE Close
  BY <1>1, <1>13, CloseKeeps
<1>14. CASE PageCloseEvent
  BY <1>1, <1>14, PageCloseEventKeeps
<1>15. CASE UNCHANGED streamVars
  <2>1. /\ UNCHANGED <<resident, open, server, ingress, egress, heard, hooks>>
        /\ UNCHANGED <<page, listening, pending, sent, told, toServer, toClient>>
    BY <1>15 DEF streamVars, serverVars, channelVars
  <2>2. StreamTypeOK'
    BY <1>1, <2>1 DEF StreamInv, StreamTypeOK
  <2>3. Hearing'
    BY <1>1, <2>1 DEF StreamInv, Hearing
  <2>4. Giving'
    BY <1>1, <2>1 DEF StreamInv, Giving, Given
  <2>5. Hooked'
    BY <1>1, <2>1 DEF StreamInv, Hooked, HooksFollow
  <2>6. QED
    BY <2>2, <2>3, <2>4, <2>5 DEF StreamInv
<1>16. QED
  BY <1>1, <1>2, <1>3, <1>4, <1>5, <1>6, <1>7, <1>8, <1>9, <1>10, <1>11, <1>12, <1>13, <1>14, <1>15
     DEF StreamNext

(* Agreement from the beginning is being a prefix.                         *)
LEMMA AgreesPrefix ==
  ASSUME NEW s \in Seq(Frame), NEW g \in Seq(Frame), Len(s) <= Len(g), Agrees(s, g, 0)
  PROVE  IsPrefix(s, g)
<1>1. PICK a \in Nat, b \in Nat : a = Len(s) /\ b = Len(g) /\ a <= b
  OBVIOUS
<1>2. \A i \in 1..a : s[i] = g[i] /\ i \in 1..b
  BY <1>1 DEF Agrees
<1>3. SubSeq(s, 1, a) = [i \in 1..a |-> s[i]] /\ SubSeq(g, 1, a) = [i \in 1..a |-> g[i]]
  BY <1>1, <1>2
<1>4. [i \in 1..a |-> s[i]] = [i \in 1..a |-> g[i]]
  BY <1>2
<1>5. QED
  BY <1>1, <1>3, <1>4 DEF IsPrefix

LEMMA StreamInvKeeps == StreamInv => ConversationKept
<1>1. SUFFICES ASSUME StreamInv PROVE ConversationKept
  OBVIOUS
<1>2. /\ RingOK(ingress) /\ RingOK(egress) /\ egress.log \in Seq(Frame) /\ ingress.log \in Seq(Frame)
      /\ heard \in Seq(Frame) /\ sent \in Seq(Frame) /\ told \in Seq(Frame) /\ pending \in Seq(Frame)
      /\ ReadFrom(heard, ingress, sent) /\ GaveFrom(told, pending, egress)
  BY <1>1, StreamFacts DEF RingOK
<1>3. IsPrefix(told \o pending, egress.log)
  <2>1. PICK t \in Nat, p \in Nat : t = Len(told) /\ p = Len(pending)
    BY <1>2
  <2>2. told \o pending \in Seq(Frame) /\ Len(told \o pending) = t + p
    BY <1>2, <2>1, ConcatProperties
  <2>3. t + p <= Len(egress.log)
    <3>1. t + p <= Passed(egress) /\ Passed(egress) <= Len(egress.log)
      BY <1>2, <2>1, RingCounts DEF GaveFrom
    <3>2. Passed(egress) \in Nat /\ Len(egress.log) \in Nat
      BY <1>2, RingCounts
    <3>3. QED
      BY <2>1, <3>1, <3>2
  <2>4. Agrees(told, egress.log, 0) /\ Agrees(pending, egress.log, 0 + t) /\ 0 + t = t
    BY <1>2, <2>1 DEF GaveFrom
  <2>5. Agrees(told \o pending, egress.log, 0)
    BY <1>2, <2>1, <2>4, AgreesBoth
  <2>6. QED
    BY <1>2, <2>2, <2>3, <2>5, AgreesPrefix
<1>4. IsPrefix(heard, sent)
  <2>1. PICK h \in Nat, l \in Nat, n \in Nat : h = Len(heard) /\ l = Len(ingress.log) /\ n = Len(sent)
    BY <1>2
  <2>2. h <= l /\ l <= n
    BY <1>2, <2>1, RingCounts DEF ReadFrom
  <2>3. (\A i \in 1..h : heard[i] = ingress.log[0 + i]) /\ \A i \in 1..l : ingress.log[i] = sent[0 + i]
    BY <1>2, <2>1 DEF ReadFrom, Agrees
  <2>4. \A i \in 1..h : 0 + i = i /\ i \in 1..l
    BY <2>1, <2>2
  <2>5. \A i \in 1..h : heard[i] = sent[0 + i]
    BY <2>3, <2>4
  <2>6. Agrees(heard, sent, 0) /\ Len(heard) <= Len(sent)
    BY <2>1, <2>2, <2>5 DEF Agrees
  <2>7. QED
    BY <1>2, <2>6, AgreesPrefix
<1>5. HooksFollow /\ (server = "closed" => ~resident)
  BY <1>1 DEF StreamInv, Hooked
<1>6. QED
  BY <1>3, <1>4, <1>5 DEF ConversationKept, NoHoles

(* For frames of any sizes, rings of any size and as many frames as one    *)
(* likes: what the page is given is a beginning of what the guest staged,  *)
(* what the guest reads a beginning of what the page sent, the hooks come  *)
(* in their order and a closed connection has no box (ws.ts, index.ts of   *)
(* src/src/devserver/stream/, src/src/client/stream/client.ts).            *)
THEOREM ConversationsKept == StreamSpec => []ConversationKept
<1>1. StreamInit => StreamInv
  BY StreamInitially
<1>2. StreamInv /\ [StreamNext]_streamVars => StreamInv'
  BY StreamAssumption, StreamSteps
<1>3. QED
  BY <1>1, <1>2, StreamInvKeeps, PTL DEF StreamSpec

-----------------------------------------------------------------------------
(* The timers of the daemon: the inductive invariant                       *)

Ran == [task : Tasks, from : Nat, to : Nat, load : Nat]

TimerShapes ==
  /\ now \in Nat /\ running \in BOOLEAN /\ loads \in Nat /\ since \in Nat /\ since <= now
  /\ timers \in [Tasks -> Nat \cup {Never}] /\ ticks \in Seq(Ran)

(* The next minute of a cron is further away than a timer reaches.         *)
Beyond(c, at) == NextCron(c, at) # Never /\ NextCron(c, at) - at > MaxDelay

(* What the timer of a task, set since it ticked, owes to that tick.       *)
TickFits(x, due, at, load) ==
  /\ x.from <= x.to /\ x.to <= at /\ x.load <= load
  /\ x.task \in Crons /\ due[x.task] # Never =>
       MinuteOf(due[x.task]) > MinuteOf(x.from) \/ Beyond(x.task, x.to)
  /\ x.task \in Intervals /\ due[x.task] # Never /\ x.load = load => due[x.task] >= x.from + Period[x.task]

Spaced(x, y) ==
  /\ x.task \in Crons /\ SameMinute(x, y) => Beyond(x.task, x.to)
  /\ x.task \in Intervals /\ x.task = y.task /\ x.load = y.load => y.from - x.from >= Period[x.task]

(* A minute that came since the start was ticked in or run over, or the    *)
(* timer will not be late for it.                                          *)
TickedIn(c, m) == \E i \in 1..Len(ticks) : ticks[i].task = c /\ MinuteOf(ticks[i].from) = m

MinuteKept(c, m) ==
  TickedIn(c, m) \/ During(m * MinuteMs, {c}) \/ During((m + 1) * MinuteMs, Tasks)

InTime(c, m) == timers[c] # Never /\ timers[c] <= m * MinuteMs /\ now < (m + 1) * MinuteMs

TimersInv ==
  /\ TimerShapes
  /\ \A i \in 1..Len(ticks) : TickFits(ticks[i], timers, now, loads)
  /\ \A i, j \in 1..Len(ticks) : i < j => Spaced(ticks[i], ticks[j])
  /\ running => \A c \in Crons : \A m \in Matches[c] : since < m * MinuteMs => MinuteKept(c, m) \/ InTime(c, m)

-----------------------------------------------------------------------------
(* Minutes                                                                 *)

LEMMA TimesGrow == ASSUME NEW M \in Nat, NEW x \in Nat, NEW y \in Nat, x <= y PROVE x * M <= y * M
<1>1. PICK d \in Nat : y = x + d
  <2>1. y - x \in Nat /\ y = x + (y - x)
    OBVIOUS
  <2>2. QED
    BY <2>1
<1>2. (x + d) * M = x * M + d * M /\ d * M \in Nat /\ x * M \in Nat
  OBVIOUS
<1>3. QED
  BY <1>1, <1>2

LEMMA MinuteOfIt ==
  ASSUME TimersAssumption, NEW a \in Nat
  PROVE  /\ MinuteOf(a) \in Nat /\ MinuteOf(a) * MinuteMs \in Nat
         /\ MinuteOf(a) * MinuteMs <= a /\ a < (MinuteOf(a) + 1) * MinuteMs
<1>1. MinuteMs \in Nat /\ MinuteMs > 0
  BY DEF TimersAssumption
<1>2. PICK q : q = a \div MinuteMs
  OBVIOUS
<1>3. q \in Nat /\ a = MinuteMs * q + (a % MinuteMs) /\ a % MinuteMs \in Nat /\ a % MinuteMs < MinuteMs
  BY <1>1, <1>2
<1>4. MinuteMs * q = q * MinuteMs /\ (q + 1) * MinuteMs = q * MinuteMs + MinuteMs /\ q * MinuteMs \in Nat
  BY <1>1, <1>3
<1>5. q * MinuteMs <= a /\ a < (q + 1) * MinuteMs
  BY <1>1, <1>3, <1>4
<1>6. QED
  BY <1>2, <1>3, <1>4, <1>5 DEF MinuteOf

(* Minutes and their first milliseconds.                                   *)
LEMMA MinuteIs ==
  ASSUME TimersAssumption, NEW a \in Nat, NEW m \in Nat
  PROVE  /\ m * MinuteMs \in Nat /\ (m + 1) * MinuteMs = m * MinuteMs + MinuteMs
         /\ a < m * MinuteMs <=> MinuteOf(a) < m
         /\ a = m * MinuteMs => MinuteOf(a) = m
<1>1. MinuteMs \in Nat /\ MinuteMs > 0
  BY DEF TimersAssumption
<1>2. PICK q \in Nat : q = MinuteOf(a) /\ q * MinuteMs <= a /\ a < (q + 1) * MinuteMs
  BY MinuteOfIt
<1>3. m * MinuteMs \in Nat /\ q * MinuteMs \in Nat /\ (q + 1) * MinuteMs \in Nat /\ (m + 1) * MinuteMs = m * MinuteMs + MinuteMs
  BY <1>1
<1>4. m <= q => m * MinuteMs <= q * MinuteMs
  BY <1>1, TimesGrow
<1>5. q + 1 <= m => (q + 1) * MinuteMs <= m * MinuteMs
  BY <1>1, TimesGrow
<1>6. q < m => a < m * MinuteMs
  BY <1>2, <1>3, <1>5
<1>7. ~(q < m) => ~(a < m * MinuteMs)
  BY <1>2, <1>3, <1>4
<1>8. a = m * MinuteMs => q = m
  <2>1. SUFFICES ASSUME a = m * MinuteMs, q < m PROVE FALSE
    BY <1>2, <1>3, <1>7
  <2>2. QED
    BY <1>6, <2>1
<1>9. QED
  BY <1>2, <1>3, <1>6, <1>7, <1>8

LEMMA MinutesGrow ==
  ASSUME TimersAssumption, NEW a \in Nat, NEW b \in Nat, a <= b PROVE MinuteOf(a) <= MinuteOf(b)
<1>1. MinuteOf(a) \in Nat /\ MinuteOf(b) \in Nat /\ MinuteOf(a) * MinuteMs <= a
  BY MinuteOfIt
<1>2. b < MinuteOf(a) * MinuteMs <=> MinuteOf(b) < MinuteOf(a)
  BY <1>1, MinuteIs
<1>3. MinuteOf(a) * MinuteMs \in Nat
  BY MinuteOfIt
<1>4. QED
  BY <1>1, <1>2, <1>3

LEMMA NextCronIs ==
  ASSUME TimersAssumption, NEW c \in Crons, NEW a \in Nat
  PROVE  /\ NextCron(c, a) = Never => \A m \in Matches[c] : ~(m > MinuteOf(a))
         /\ NextCron(c, a) # Never =>
              \E k \in Matches[c] : /\ NextCron(c, a) = k * MinuteMs /\ k \in Nat /\ k > MinuteOf(a)
                                    /\ \A m \in Matches[c] : m > MinuteOf(a) => k <= m
<1>1. Matches[c] \subseteq Nat /\ MinuteMs \in Nat /\ Never \notin Nat /\ MinuteOf(a) \in Nat
  BY MinuteOfIt DEF TimersAssumption
<1>2. PICK later : later = {m \in Matches[c] : m > MinuteOf(a)}
  OBVIOUS
<1>3. NextCron(c, a) = IF later = {} THEN Never ELSE Min(later) * MinuteMs
  BY <1>2 DEF NextCron
<1>4. CASE later = {}
  BY <1>2, <1>3, <1>4
<1>5. CASE later # {}
  <2>1. PICK k \in later : k = Min(later) /\ \A m \in later : k <= m
    BY <1>1, <1>2, <1>5, MinIsLeast
  <2>2. k \in Nat /\ k > MinuteOf(a) /\ k \in Matches[c] /\ k * MinuteMs \in Nat
    BY <1>1, <1>2, <2>1
  <2>3. NextCron(c, a) = k * MinuteMs /\ NextCron(c, a) # Never
    BY <1>1, <1>3, <1>5, <2>1, <2>2
  <2>4. QED
    BY <1>2, <2>1, <2>2, <2>3
<1>6. QED
  BY <1>4, <1>5

LEMMA DelayIs ==
  ASSUME TimersAssumption, NEW ms \in Nat, ms > 0
  PROVE  /\ Delay(ms) \in Nat /\ Delay(ms) > 0 /\ Delay(ms) <= ms
         /\ ms <= MaxDelay => Delay(ms) = ms
BY DEF Delay, TimersAssumption

(* A cron's timer, set at a time: it is not late for a minute to come,     *)
(* and past the minute it is set in, unless the next is out of reach.      *)
LEMMA CronArmed ==
  ASSUME TimersAssumption, NEW c \in Crons, NEW a \in Nat
  PROVE  /\ Armed(c, a) \in Nat \cup {Never}
         /\ Armed(c, a) # Never => Armed(c, a) > a
         /\ \A m \in Matches[c] : a < m * MinuteMs => Armed(c, a) # Never /\ Armed(c, a) <= m * MinuteMs
         /\ Armed(c, a) # Never => MinuteOf(Armed(c, a)) > MinuteOf(a) \/ Beyond(c, a)
<1>1. Never \notin Nat /\ c \notin Intervals /\ MaxDelay \in Nat /\ Matches[c] \subseteq Nat
  BY DEF TimersAssumption
<1>2. PICK n : n = NextCron(c, a)
  OBVIOUS
<1>3. Armed(c, a) = IF n = Never THEN Never ELSE a + Delay(n - a)
  BY <1>1, <1>2 DEF Armed
<1>4. ASSUME NEW m \in Matches[c], a < m * MinuteMs PROVE m > MinuteOf(a) /\ m \in Nat
  <2>1. m \in Nat
    BY <1>1
  <2>2. MinuteOf(a) < m /\ MinuteOf(a) \in Nat
    BY <1>4, <2>1, MinuteIs, MinuteOfIt
  <2>3. QED
    BY <2>1, <2>2
<1>5. CASE n = Never
  BY <1>2, <1>3, <1>4, <1>5, NextCronIs
<1>6. CASE n # Never
  <2>1. PICK k \in Matches[c] : /\ n = k * MinuteMs /\ k \in Nat /\ k > MinuteOf(a)
                                /\ \A m \in Matches[c] : m > MinuteOf(a) => k <= m
    BY <1>2, <1>6, NextCronIs
  <2>2. n \in Nat /\ a < n /\ MinuteOf(a) \in Nat
    <3>1. MinuteOf(a) \in Nat /\ MinuteOf(a) < k
      BY <2>1, MinuteOfIt
    <3>2. QED
      BY <2>1, <3>1, MinuteIs
  <2>3. PICK d \in Nat : d = n - a /\ d > 0
    BY <2>2
  <2>4. PICK e \in Nat : e = Delay(d) /\ e > 0 /\ e <= d /\ (d <= MaxDelay => e = d)
    BY <2>3, DelayIs
  <2>5. Armed(c, a) = a + e /\ a + e \in Nat /\ a + e # Never
    BY <1>1, <1>3, <1>6, <2>3, <2>4
  <2>6. a + e > a /\ a + e <= n
    BY <2>2, <2>3, <2>4
  <2>7. ASSUME NEW m \in Matches[c], a < m * MinuteMs PROVE a + e <= m * MinuteMs
    <3>1. m > MinuteOf(a) /\ m \in Nat /\ k <= m
      BY <1>4, <2>1, <2>7
    <3>2. k * MinuteMs <= m * MinuteMs /\ m * MinuteMs \in Nat
      BY <2>1, <3>1, TimesGrow DEF TimersAssumption
    <3>3. QED
      BY <2>1, <2>2, <2>5, <2>6, <3>2
  <2>8. MinuteOf(a + e) > MinuteOf(a) \/ Beyond(c, a)
    <3>1. CASE d <= MaxDelay
      <4>1. a + e = n
        BY <2>2, <2>3, <2>4, <3>1
      <4>2. MinuteOf(n) = k
        BY <2>1, <2>2, MinuteIs
      <4>3. QED
        BY <2>1, <4>1, <4>2
    <3>2. CASE ~(d <= MaxDelay)
      <4>1. n - a > MaxDelay
        BY <1>1, <2>3, <3>2
      <4>2. QED
        BY <1>2, <1>6, <4>1 DEF Beyond
    <3>3. QED
      BY <3>1, <3>2
  <2>9. QED
    BY <2>5, <2>6, <2>7, <2>8
<1>7. QED
  BY <1>5, <1>6

(* What a timer set at a time owes to a tick that had ended.               *)
LEMMA CronLater ==
  ASSUME TimersAssumption, NEW c \in Crons, NEW b \in Nat, NEW a \in Nat, b <= a, Armed(c, a) # Never
  PROVE  MinuteOf(Armed(c, a)) > MinuteOf(b) \/ Beyond(c, b)
<1>1. MinuteOf(a) \in Nat /\ MinuteOf(b) \in Nat /\ MinuteOf(b) <= MinuteOf(a)
  BY MinuteOfIt, MinutesGrow
<1>2. PICK d \in Nat : d = Armed(c, a) /\ d > a /\ (MinuteOf(d) > MinuteOf(a) \/ Beyond(c, a))
  BY CronArmed
<1>3. MinuteOf(d) \in Nat /\ MinuteOf(a) <= MinuteOf(d)
  BY <1>2, MinuteOfIt, MinutesGrow
<1>4. CASE MinuteOf(b) < MinuteOf(a)
  BY <1>1, <1>2, <1>3, <1>4
<1>5. CASE MinuteOf(b) = MinuteOf(a)
  <2>1. NextCron(c, a) = NextCron(c, b)
    BY <1>5 DEF NextCron
  <2>2. ASSUME Beyond(c, a) PROVE Beyond(c, b)
    <3>1. PICK n : n = NextCron(c, a) /\ n # Never /\ n - a > MaxDelay
      BY <2>2 DEF Beyond
    <3>2. n \in Nat /\ MaxDelay \in Nat
      <4>1. PICK k \in Nat : n = k * MinuteMs
        BY <3>1, NextCronIs
      <4>2. QED
        BY <4>1 DEF TimersAssumption
    <3>3. n - b > MaxDelay
      BY <3>1, <3>2
    <3>4. QED
      BY <2>1, <3>1, <3>3 DEF Beyond
  <2>3. QED
    BY <1>2, <1>5, <2>2
<1>6. QED
  BY <1>1, <1>4, <1>5

LEMMA IntervalArmed ==
  ASSUME TimersAssumption, NEW t \in Intervals, Period[t] <= MaxDelay, NEW a \in Nat
  PROVE  Armed(t, a) = a + Period[t] /\ Period[t] \in Nat /\ Armed(t, a) \in Nat
BY DelayIs DEF Armed, TimersAssumption

LEMMA ArmedTyped ==
  ASSUME TimersAssumption, NEW t \in Tasks, \A p \in Intervals : Period[p] <= MaxDelay, NEW a \in Nat
  PROVE  Armed(t, a) \in Nat \cup {Never}
BY CronArmed, IntervalArmed DEF Tasks

-----------------------------------------------------------------------------
(* The timers of the daemon: the steps                                     *)

LEMMA TickFacts ==
  ASSUME TimersInv, NEW i \in 1..Len(ticks)
  PROVE  /\ ticks[i] \in Ran /\ ticks[i].task \in Tasks /\ ticks[i].from \in Nat /\ ticks[i].to \in Nat
         /\ ticks[i].load \in Nat /\ TickFits(ticks[i], timers, now, loads)
<1>1. ticks[i] \in Ran /\ TickFits(ticks[i], timers, now, loads)
  BY DEF TimersInv, TimerShapes
<1>2. QED
  BY <1>1 DEF Ran

(* A tick that fits the timers still does when the clock moves on and the  *)
(* timer of its task was left or armed again since.                        *)
LEMMA FitsLater ==
  ASSUME TimersAssumption, \A p \in Intervals : Period[p] <= MaxDelay,
         NEW x \in Ran, NEW due, NEW a \in Nat, NEW load \in Nat, TickFits(x, due, a, load),
         NEW due2, NEW b \in Nat, a <= b, NEW load2 \in Nat, load <= load2,
         \/ due2[x.task] = due[x.task] /\ load2 = load
         \/ due2[x.task] = Never
         \/ \E e \in Nat : a <= e /\ e <= b /\ due2[x.task] = Armed(x.task, e)
  PROVE  TickFits(x, due2, b, load2)
<1>1. PICK t \in Tasks, f \in Nat, o \in Nat, l \in Nat :
         t = x.task /\ f = x.from /\ o = x.to /\ l = x.load
  BY DEF Ran
<1>2. f <= o /\ o <= a /\ l <= load
  BY <1>1 DEF TickFits
<1>3. f <= o /\ o <= b /\ l <= load2
  BY <1>2
<1>4. t \in Crons => t \notin Intervals
  BY DEF TimersAssumption
<1>5. CASE due2[t] = due[t] /\ load2 = load
  BY <1>1, <1>3, <1>5 DEF TickFits
<1>6. CASE due2[t] = Never
  BY <1>1, <1>3, <1>6 DEF TickFits
<1>7. ASSUME NEW e \in Nat, a <= e, e <= b, due2[t] = Armed(t, e) PROVE TickFits(x, due2, b, load2)
  <2>1. f <= e /\ o <= e
    BY <1>2, <1>7
  <2>2. ASSUME t \in Crons, due2[t] # Never PROVE MinuteOf(due2[t]) > MinuteOf(f) \/ Beyond(t, o)
    <3>1. MinuteOf(Armed(t, e)) > MinuteOf(o) \/ Beyond(t, o)
      BY <1>7, <2>1, <2>2, CronLater
    <3>2. PICK d \in Nat : d = Armed(t, e)
      BY <1>7, <2>2, CronArmed
    <3>3. MinuteOf(d) \in Nat /\ MinuteOf(o) \in Nat /\ MinuteOf(f) \in Nat /\ MinuteOf(f) <= MinuteOf(o)
      BY <1>2, MinuteOfIt, MinutesGrow
    <3>4. QED
      BY <1>7, <3>1, <3>2, <3>3
  <2>3. ASSUME t \in Intervals PROVE due2[t] >= f + Period[t]
    <3>1. Armed(t, e) = e + Period[t] /\ Period[t] \in Nat
      BY <2>3, IntervalArmed
    <3>2. QED
      BY <1>7, <2>1, <3>1
  <2>4. QED
    BY <1>1, <1>3, <2>2, <2>3 DEF TickFits
<1>8. QED
  BY <1>1, <1>5, <1>6, <1>7

(* A minute that is kept stays so.                                         *)
LEMMA KeptGrows ==
  ASSUME ticks \in Seq(Ran), NEW x \in Ran, ticks' = ticks \/ ticks' = Append(ticks, x), NEW c, NEW m, MinuteKept(c, m)
  PROVE  MinuteKept(c, m)'
<1>1. 1..Len(ticks) \subseteq 1..Len(ticks') /\ \A i \in 1..Len(ticks) : ticks'[i] = ticks[i]
  <2>1. CASE ticks' = ticks
    BY <2>1
  <2>2. CASE ticks' = Append(ticks, x)
    <3>1. Len(ticks) \in Nat /\ Len(ticks') = Len(ticks) + 1
      BY <2>2
    <3>2. \A i \in 1..Len(ticks) : ticks'[i] = ticks[i]
      BY <2>2
    <3>3. QED
      BY <3>1, <3>2
  <2>3. QED
    BY <2>1, <2>2
<1>2. CASE TickedIn(c, m)
  BY <1>1, <1>2 DEF TickedIn, MinuteKept
<1>3. CASE During(m * MinuteMs, {c})
  BY <1>1, <1>3 DEF During, MinuteKept
<1>4. CASE During((m + 1) * MinuteMs, Tasks)
  BY <1>1, <1>4 DEF During, MinuteKept
<1>5. QED
  BY <1>2, <1>3, <1>4 DEF MinuteKept

LEMMA TimersStart == ASSUME TimersAssumption, TimersInit PROVE TimersInv
<1>1. now = 0 /\ running = FALSE /\ timers = NoTimers /\ loads = 0 /\ since = 0 /\ ticks = <<>>
  BY DEF TimersInit
<1>2. TimerShapes
  <2>1. <<>> \in Seq(Ran) /\ NoTimers \in [Tasks -> Nat \cup {Never}]
    BY DEF NoTimers
  <2>2. now \in Nat /\ loads \in Nat /\ since \in Nat /\ since <= now
    BY <1>1, SMT
  <2>3. running \in BOOLEAN
    BY <1>1, Zenon
  <2>4. timers \in [Tasks -> Nat \cup {Never}] /\ ticks \in Seq(Ran)
    BY <1>1, <2>1
  <2>5. QED
    BY <2>2, <2>3, <2>4 DEF TimerShapes
<1>3. 1..Len(ticks) = {}
  BY <1>1
<1>4. QED
  BY <1>1, <1>2, <1>3 DEF TimersInv

(* A step without a tick: each of them is held to the timers anew.         *)
LEMMA NoTick ==
  ASSUME TimersAssumption, \A p \in Intervals : Period[p] <= MaxDelay, TimersInv, TimerShapes',
         ticks' = ticks, now <= now', loads <= loads',
         \A t \in Tasks : \/ timers'[t] = timers[t] /\ loads' = loads
                          \/ timers'[t] = Never
                          \/ \E e \in Nat : now <= e /\ e <= now' /\ timers'[t] = Armed(t, e)
  PROVE  /\ \A i \in 1..Len(ticks') : TickFits(ticks'[i], timers', now', loads')
         /\ \A i, j \in 1..Len(ticks') : i < j => Spaced(ticks'[i], ticks'[j])
<1>1. ASSUME NEW i \in 1..Len(ticks') PROVE TickFits(ticks'[i], timers', now', loads')
  <2>1. PICK x \in Ran : x = ticks[i] /\ x.task \in Tasks /\ TickFits(x, timers, now, loads)
    BY <1>1, TickFacts
  <2>2. now \in Nat /\ now' \in Nat /\ loads \in Nat /\ loads' \in Nat
    BY DEF TimersInv, TimerShapes
  <2>3. TickFits(x, timers', now', loads')
    BY <2>1, <2>2, FitsLater
  <2>4. QED
    BY <2>1, <2>3
<1>2. \A i, j \in 1..Len(ticks') : i < j => Spaced(ticks'[i], ticks'[j])
  BY DEF TimersInv
<1>3. QED
  BY <1>1, <1>2

(* The clock does not move while a timer is as late as one gets, which is  *)
(* less than a minute.                                                     *)
LEMMA TimersClock ==
  ASSUME TimersAssumption, \A p \in Intervals : Period[p] <= MaxDelay, MaxLate < MinuteMs, TimersInv, ClockMoves
  PROVE  TimersInv'
<1>1. /\ now \in Nat /\ now' = now + 1 /\ running' = running /\ timers' = timers /\ loads' = loads
      /\ since' = since /\ ticks' = ticks /\ TimerShapes
      /\ \A t \in Tasks : timers[t] # Never => now - timers[t] < MaxLate
  BY DEF ClockMoves, TimersInv, TimerShapes
<1>2. TimerShapes'
  BY <1>1 DEF TimerShapes
<1>3. loads \in Nat /\ now <= now'
  BY <1>1 DEF TimerShapes
<1>4. /\ \A i \in 1..Len(ticks') : TickFits(ticks'[i], timers', now', loads')
      /\ \A i, j \in 1..Len(ticks') : i < j => Spaced(ticks'[i], ticks'[j])
  BY <1>1, <1>2, <1>3, NoTick
<1>5. ASSUME running', NEW c \in Crons, NEW m \in Matches[c], since' < m * MinuteMs
      PROVE  MinuteKept(c, m)' \/ InTime(c, m)'
  <2>1. m \in Nat /\ MinuteMs \in Nat /\ MaxLate \in Nat /\ Never \notin Nat
    BY DEF TimersAssumption
  <2>2. PICK s \in Nat : s = m * MinuteMs /\ (m + 1) * MinuteMs = s + MinuteMs
    BY <1>1, <2>1, MinuteIs
  <2>3. MinuteKept(c, m) \/ InTime(c, m)
    BY <1>1, <1>5 DEF TimersInv
  <2>4. CASE MinuteKept(c, m)
    BY <1>1, <2>4 DEF MinuteKept, TickedIn, During
  <2>5. CASE InTime(c, m)
    <3>1. c \in Tasks
      BY DEF Tasks
    <3>2. PICK d \in Nat : d = timers[c] /\ d <= s /\ now < s + MinuteMs
      BY <1>1, <2>1, <2>2, <2>5, <3>1 DEF InTime, TimerShapes
    <3>3. now - d < MaxLate
      BY <1>1, <2>1, <3>1, <3>2
    <3>4. now + 1 < s + MinuteMs
      BY <1>1, <2>1, <2>2, <3>2, <3>3
    <3>5. timers'[c] # Never /\ timers'[c] <= m * MinuteMs /\ now' < (m + 1) * MinuteMs
      BY <1>1, <2>2, <2>5, <3>4 DEF InTime
    <3>6. QED
      BY <3>5 DEF InTime
  <2>6. QED
    BY <2>3, <2>4, <2>5
<1>6. QED
  BY <1>2, <1>4, <1>5 DEF TimersInv

LEMMA TimersRefresh ==
  ASSUME TimersAssumption, \A p \in Intervals : Period[p] <= MaxDelay, TimersInv,
         NEW starts \in BOOLEAN, Refresh(starts)
  PROVE  TimersInv'
<1>1. /\ now \in Nat /\ loads \in Nat /\ now' = now /\ running' = starts /\ since' = now
      /\ loads' = loads + 1 /\ ticks' = ticks /\ TimerShapes
      /\ timers' = IF starts THEN [t \in Tasks |-> Armed(t, now)] ELSE NoTimers
  BY DEF Refresh, TimersInv, TimerShapes
<1>2. \A t \in Tasks : Armed(t, now) \in Nat \cup {Never}
  BY <1>1, ArmedTyped
<1>3. timers' \in [Tasks -> Nat \cup {Never}]
  BY <1>1, <1>2 DEF NoTimers
<1>4. TimerShapes'
  BY <1>1, <1>3 DEF TimerShapes
<1>5. \A t \in Tasks : timers'[t] = Never \/ \E e \in Nat : now <= e /\ e <= now' /\ timers'[t] = Armed(t, e)
  <2>1. now <= now /\ now <= now'
    BY <1>1
  <2>2. \A t \in Tasks : timers'[t] = Never \/ timers'[t] = Armed(t, now)
    BY <1>1 DEF NoTimers
  <2>3. QED
    BY <1>1, <2>1, <2>2
<1>6. now <= now' /\ loads <= loads'
  BY <1>1
<1>7. /\ \A i \in 1..Len(ticks') : TickFits(ticks'[i], timers', now', loads')
      /\ \A i, j \in 1..Len(ticks') : i < j => Spaced(ticks'[i], ticks'[j])
  BY <1>1, <1>4, <1>5, <1>6, NoTick
<1>8. ASSUME running', NEW c \in Crons, NEW m \in Matches[c], since' < m * MinuteMs PROVE InTime(c, m)'
  <2>1. m \in Nat /\ MinuteMs \in Nat /\ MinuteMs > 0 /\ c \in Tasks
    BY DEF TimersAssumption, Tasks
  <2>2. PICK s \in Nat : s = m * MinuteMs /\ (m + 1) * MinuteMs = s + MinuteMs
    BY <1>1, <2>1, MinuteIs
  <2>3. now < m * MinuteMs
    BY <1>1, <1>8
  <2>4. Armed(c, now) # Never /\ Armed(c, now) <= m * MinuteMs
    BY <1>1, <2>3, CronArmed
  <2>5. timers'[c] = Armed(c, now)
    BY <1>1, <1>8, <2>1
  <2>6. now' < (m + 1) * MinuteMs
    BY <1>1, <2>1, <2>2, <2>3
  <2>7. QED
    BY <2>4, <2>5, <2>6 DEF InTime
<1>9. QED
  BY <1>4, <1>7, <1>8 DEF TimersInv

LEMMA TimersStop ==
  ASSUME TimersAssumption, \A p \in Intervals : Period[p] <= MaxDelay, TimersInv, Stop PROVE TimersInv'
<1>1. /\ now \in Nat /\ loads \in Nat /\ now' = now /\ running' = FALSE /\ since' = since
      /\ loads' = loads /\ ticks' = ticks /\ TimerShapes /\ timers' = NoTimers
  BY DEF Stop, TimersInv, TimerShapes
<1>2. TimerShapes'
  BY <1>1 DEF TimerShapes, NoTimers
<1>3. \A t \in Tasks : timers'[t] = Never
  BY <1>1 DEF NoTimers
<1>4. now <= now' /\ loads <= loads'
  BY <1>1
<1>5. /\ \A i \in 1..Len(ticks') : TickFits(ticks'[i], timers', now', loads')
      /\ \A i, j \in 1..Len(ticks') : i < j => Spaced(ticks'[i], ticks'[j])
  BY <1>1, <1>2, <1>3, <1>4, NoTick
<1>6. QED
  BY <1>1, <1>2, <1>5 DEF TimersInv

(* A timer that fires, as its callback finds the ticks so far.             *)
LEMMA FireSpaced ==
  ASSUME TimersAssumption, TimersInv, NEW t \in Tasks, timers[t] # Never, timers[t] <= now,
         NEW x \in Ran, x.task = t, x.from = now, x.load = loads, NEW i \in 1..Len(ticks)
  PROVE  Spaced(ticks[i], x)
<1>1. PICK z \in Ran : z = ticks[i] /\ z.task \in Tasks /\ TickFits(z, timers, now, loads)
  BY TickFacts
<1>2. PICK f \in Nat, o \in Nat, l \in Nat : f = z.from /\ o = z.to /\ l = z.load
  BY <1>1 DEF Ran
<1>3. PICK d \in Nat : d = timers[t] /\ d <= now /\ now \in Nat
  BY DEF TimersInv, TimerShapes
<1>4. ASSUME z.task \in Crons, SameMinute(z, x) PROVE Beyond(z.task, z.to)
  <2>1. z.task = t /\ MinuteOf(f) = MinuteOf(now)
    BY <1>2, <1>4 DEF SameMinute
  <2>2. MinuteOf(d) > MinuteOf(f) \/ Beyond(z.task, z.to)
    BY <1>1, <1>2, <1>3, <1>4, <2>1 DEF TickFits
  <2>3. MinuteOf(d) \in Nat /\ MinuteOf(now) \in Nat /\ MinuteOf(d) <= MinuteOf(now)
    BY <1>3, MinuteOfIt, MinutesGrow
  <2>4. QED
    BY <2>1, <2>2, <2>3
<1>5. ASSUME z.task \in Intervals, z.task = x.task, z.load = x.load PROVE x.from - z.from >= Period[z.task]
  <2>1. d >= f + Period[t] /\ Period[t] \in Nat
    BY <1>1, <1>2, <1>3, <1>5 DEF TickFits, TimersAssumption
  <2>2. now - f >= Period[t]
    BY <1>3, <2>1
  <2>3. QED
    BY <1>2, <1>5, <2>2
<1>6. QED
  BY <1>1, <1>4, <1>5 DEF Spaced

(* A tick that was just made, and the timer it leaves.                     *)
LEMMA TickMade ==
  ASSUME TimersAssumption, \A p \in Intervals : Period[p] <= MaxDelay, NEW x \in Ran, x.from <= x.to,
         NEW due, due[x.task] = Armed(x.task, IF x.task \in Crons THEN x.to ELSE x.from)
  PROVE  TickFits(x, due, x.to, x.load)
<1>1. PICK t \in Tasks, f \in Nat, o \in Nat, l \in Nat :
         t = x.task /\ f = x.from /\ o = x.to /\ l = x.load /\ f <= o
  BY DEF Ran
<1>2. ASSUME t \in Crons, due[t] # Never PROVE MinuteOf(due[t]) > MinuteOf(f) \/ Beyond(t, o)
  <2>1. due[t] = Armed(t, o)
    BY <1>1, <1>2
  <2>2. PICK d \in Nat : d = Armed(t, o)
    BY <1>2, <2>1, CronArmed
  <2>3. MinuteOf(d) > MinuteOf(o) \/ Beyond(t, o)
    BY <1>2, <2>1, <2>2, CronArmed
  <2>4. MinuteOf(d) \in Nat /\ MinuteOf(o) \in Nat /\ MinuteOf(f) \in Nat /\ MinuteOf(f) <= MinuteOf(o)
    BY <1>1, MinuteOfIt, MinutesGrow
  <2>5. QED
    BY <2>1, <2>2, <2>3, <2>4
<1>3. ASSUME t \in Intervals PROVE due[t] >= f + Period[t]
  <2>1. t \notin Crons
    BY <1>3 DEF TimersAssumption
  <2>2. due[t] = Armed(t, f)
    BY <1>1, <2>1
  <2>3. Armed(t, f) = f + Period[t] /\ f + Period[t] \in Int
    BY <1>1, <1>3, IntervalArmed
  <2>4. QED
    BY <2>2, <2>3
<1>4. o <= o /\ l <= l
  OBVIOUS
<1>5. QED
  BY <1>1, <1>2, <1>3, <1>4 DEF TickFits

(* A cron whose minute is to come, when a timer fires: its own, in the     *)
(* minute, before it and past its start, or before it; or another's.       *)
LEMMA FireInTime ==
  ASSUME TimersAssumption, TimersInv, NEW t \in Tasks, NEW busy \in Nat, NEW x \in Ran,
         x = [task |-> t, from |-> now, to |-> now + busy, load |-> loads],
         now' = now + busy, busy > 0 \/ (t \in Crons => MinuteOf(now) \in Matches[t]) => ticks' = Append(ticks, x),
         timers' = [timers EXCEPT ![t] = Armed(t, IF t \in Crons THEN now + busy ELSE now)],
         NEW c \in Crons, NEW m \in Matches[c], InTime(c, m)
  PROVE  MinuteKept(c, m)' \/ InTime(c, m)'
<1>1. /\ now \in Nat /\ ticks \in Seq(Ran) /\ timers \in [Tasks -> Nat \cup {Never}] /\ c \in Tasks
      /\ m \in Nat /\ MinuteMs \in Nat /\ MinuteMs > 0
  BY DEF TimersInv, TimerShapes, TimersAssumption, Tasks
<1>2. PICK s \in Nat : s = m * MinuteMs /\ (m + 1) * MinuteMs = s + MinuteMs
  BY <1>1, MinuteIs
<1>3. timers[c] # Never /\ timers[c] <= s /\ now < s + MinuteMs
  BY <1>2 DEF InTime
<1>4. PICK o \in Nat : o = now + busy /\ o = x.to /\ now' = o /\ x.from = now /\ x.task = t
  BY <1>1
<1>5. ASSUME ticks' = Append(ticks, x)
      PROVE  /\ Len(ticks') \in 1..Len(ticks') /\ ticks'[Len(ticks')].task = t
             /\ ticks'[Len(ticks')].from = now /\ ticks'[Len(ticks')].to = o
  <2>1. Len(ticks) \in Nat /\ Len(ticks') = Len(ticks) + 1 /\ ticks'[Len(ticks')] = x
    BY <1>1, <1>5
  <2>2. QED
    BY <1>4, <2>1
<1>6. ASSUME o >= s + MinuteMs, busy > 0 PROVE MinuteKept(c, m)'
  <2>1. ticks' = Append(ticks, x)
    BY <1>6
  <2>2. During((m + 1) * MinuteMs, Tasks)'
    BY <1>2, <1>3, <1>5, <1>6, <2>1 DEF During
  <2>3. QED
    BY <2>2 DEF MinuteKept
<1>7. CASE t # c
  <2>1. timers'[c] = timers[c]
    BY <1>1, <1>7
  <2>2. CASE o < s + MinuteMs
    BY <1>2, <1>3, <1>4, <2>1, <2>2 DEF InTime
  <2>3. CASE o >= s + MinuteMs
    <3>1. busy > 0
      BY <1>1, <1>2, <1>3, <1>4, <2>3
    <3>2. QED
      BY <1>6, <2>3, <3>1
  <2>4. QED
    BY <1>1, <1>2, <1>4, <2>2, <2>3
<1>8. CASE t = c
  <2>1. CASE now >= s
    <3>1. MinuteOf(now) = m
      <4>1. MinuteOf(now) \in Nat /\ ~(now < m * MinuteMs) /\ now < (m + 1) * MinuteMs /\ m + 1 \in Nat
        BY <1>1, <1>2, <1>3, <2>1, MinuteOfIt
      <4>2. ~(MinuteOf(now) < m) /\ MinuteOf(now) < m + 1
        BY <1>1, <4>1, MinuteIs
      <4>3. QED
        BY <1>1, <4>1, <4>2
    <3>2. ticks' = Append(ticks, x)
      BY <1>8, <3>1
    <3>3. TickedIn(c, m)'
      BY <1>5, <1>8, <3>1, <3>2 DEF TickedIn
    <3>4. QED
      BY <3>3 DEF MinuteKept
  <2>2. CASE now < s /\ o >= s
    <3>1. busy > 0
      BY <1>1, <1>4, <2>2
    <3>2. ticks' = Append(ticks, x)
      BY <3>1
    <3>3. During(m * MinuteMs, {c})'
      BY <1>2, <1>5, <1>8, <2>2, <3>2 DEF During
    <3>4. QED
      BY <3>3 DEF MinuteKept
  <2>3. CASE now < s /\ o < s
    <3>1. timers'[c] = Armed(c, o)
      BY <1>1, <1>4, <1>8
    <3>2. Armed(c, o) # Never /\ Armed(c, o) <= m * MinuteMs
      BY <1>2, <2>3, CronArmed
    <3>3. now' < (m + 1) * MinuteMs
      BY <1>1, <1>2, <1>4, <2>3
    <3>4. QED
      BY <3>1, <3>2, <3>3 DEF InTime
  <2>4. QED
    BY <1>1, <1>2, <1>4, <2>1, <2>2, <2>3
<1>9. QED
  BY <1>7, <1>8

LEMMA TimersFire ==
  ASSUME TimersAssumption, \A p \in Intervals : Period[p] <= MaxDelay, TimersInv, NEW t \in Tasks, Fire(t)
  PROVE  TimersInv'
<1> DEFINE Ticks == t \in Crons => MinuteOf(now) \in Matches[t]
<1>1. /\ now \in Nat /\ loads \in Nat /\ since \in Nat /\ since <= now /\ TimerShapes
      /\ ticks \in Seq(Ran) /\ timers \in [Tasks -> Nat \cup {Never}]
      /\ running' = running /\ loads' = loads /\ since' = since /\ timers[t] # Never /\ timers[t] <= now
  BY DEF Fire, TimersInv, TimerShapes
<1>2. PICK busy \in IF Ticks THEN Busy ELSE {0} :
        /\ now' = now + busy
        /\ ticks' = IF Ticks THEN Append(ticks, [task |-> t, from |-> now, to |-> now + busy, load |-> loads])
                    ELSE ticks
        /\ timers' = [timers EXCEPT ![t] = Armed(t, IF t \in Crons THEN now + busy ELSE now)]
  BY DEF Fire
<1>3. busy \in Nat /\ now + busy \in Nat /\ now <= now + busy /\ since <= now + busy
  <2>1. busy \in Busy \cup {0}
    OBVIOUS
  <2>2. busy \in Nat
    BY <2>1 DEF TimersAssumption
  <2>3. now \in Nat /\ since \in Nat /\ since <= now
    BY <1>1
  <2>4. QED
    BY <2>2, <2>3
<1>4. PICK x \in Ran : /\ x = [task |-> t, from |-> now, to |-> now + busy, load |-> loads]
                       /\ x.task = t /\ x.from = now /\ x.to = now + busy /\ x.load = loads
  <2>1. PICK x : x = [task |-> t, from |-> now, to |-> now + busy, load |-> loads]
    OBVIOUS
  <2>2. x \in Ran
    BY <1>1, <1>3, <2>1 DEF Ran
  <2>3. x.task = t /\ x.from = now /\ x.to = now + busy /\ x.load = loads
    BY <2>1
  <2>4. QED
    BY <2>1, <2>2, <2>3
<1>5. PICK e \in Nat : e = (IF t \in Crons THEN now + busy ELSE now) /\ now <= e /\ e <= now + busy
  BY <1>1, <1>3
<1>6. TimerShapes'
  <2>1. Armed(t, e) \in Nat \cup {Never}
    BY <1>5, ArmedTyped
  <2>2. timers' \in [Tasks -> Nat \cup {Never}]
    BY <1>1, <1>2, <1>5, <2>1
  <2>3. ticks' \in Seq(Ran)
    BY <1>1, <1>2, <1>4
  <2>4. QED
    BY <1>1, <1>2, <1>3, <2>2, <2>3 DEF TimerShapes
<1>7. \A u \in Tasks : u # t => timers'[u] = timers[u]
  BY <1>1, <1>2
<1>8. timers'[t] = Armed(t, e)
  BY <1>1, <1>2, <1>5
<1>9. ASSUME NEW i \in 1..Len(ticks) PROVE TickFits(ticks[i], timers', now', loads')
  <2>1. PICK z \in Ran : z = ticks[i] /\ z.task \in Tasks /\ TickFits(z, timers, now, loads)
    BY <1>9, TickFacts
  <2>2. \/ timers'[z.task] = timers[z.task] /\ loads' = loads
        \/ \E f \in Nat : now <= f /\ f <= now' /\ timers'[z.task] = Armed(z.task, f)
    BY <1>1, <1>2, <1>5, <1>7, <1>8, <2>1
  <2>3. now' \in Nat /\ now <= now' /\ loads' \in Nat /\ loads <= loads'
    BY <1>1, <1>2, <1>3
  <2>4. TickFits(z, timers', now', loads')
    BY <1>1, <2>1, <2>2, <2>3, FitsLater
  <2>5. QED
    BY <2>1, <2>4
<1>10. TickFits(x, timers', now', loads')
  <2>1. x.from <= x.to /\ timers'[x.task] = Armed(x.task, IF x.task \in Crons THEN x.to ELSE x.from)
    BY <1>2, <1>3, <1>4, <1>5, <1>8
  <2>2. TickFits(x, timers', x.to, x.load)
    BY <2>1, TickMade
  <2>3. QED
    BY <1>1, <1>2, <1>4, <2>2
<1>11. \A i \in 1..Len(ticks) : Spaced(ticks[i], x)
  BY <1>1, <1>4, FireSpaced
<1>12. /\ \A i \in 1..Len(ticks') : TickFits(ticks'[i], timers', now', loads')
       /\ \A i, j \in 1..Len(ticks') : i < j => Spaced(ticks'[i], ticks'[j])
  <2>1. CASE Ticks
    <3>1. PICK n \in Nat : n = Len(ticks) /\ Len(ticks') = n + 1 /\ ticks'[n + 1] = x
      BY <1>1, <1>2, <1>4, <2>1
    <3>2. \A i \in 1..n : ticks'[i] = ticks[i]
      BY <1>1, <1>2, <1>4, <2>1, <3>1
    <3>3. \A i \in 1..Len(ticks') : i \in 1..n \/ i = n + 1
      BY <3>1
    <3>4. \A i \in 1..Len(ticks') : TickFits(ticks'[i], timers', now', loads')
      BY <1>9, <1>10, <3>1, <3>2, <3>3
    <3>5. \A i, j \in 1..n : i < j => Spaced(ticks[i], ticks[j])
      BY <3>1 DEF TimersInv
    <3>6. \A i, j \in 1..Len(ticks') : i < j => i \in 1..n /\ (j \in 1..n \/ j = n + 1)
      BY <3>1
    <3>7. QED
      BY <1>11, <3>1, <3>2, <3>4, <3>5, <3>6
  <2>2. CASE ~Ticks
    <3>1. ticks' = ticks
      BY <1>2, <2>2
    <3>2. \A i, j \in 1..Len(ticks) : i < j => Spaced(ticks[i], ticks[j])
      BY DEF TimersInv
    <3>3. QED
      BY <1>9, <3>1, <3>2
  <2>3. QED
    BY <2>1, <2>2
<1>13. ASSUME running', NEW c \in Crons, NEW m \in Matches[c], since' < m * MinuteMs
       PROVE  MinuteKept(c, m)' \/ InTime(c, m)'
  <2>1. MinuteKept(c, m) \/ InTime(c, m)
    BY <1>1, <1>13 DEF TimersInv
  <2>2. ticks' = ticks \/ ticks' = Append(ticks, x)
    BY <1>2, <1>4
  <2>3. CASE MinuteKept(c, m)
    BY <1>1, <2>2, <2>3, KeptGrows
  <2>4. CASE InTime(c, m)
    <3>1. busy > 0 \/ Ticks => ticks' = Append(ticks, x)
      <4>1. ~Ticks => busy = 0
        BY <1>2
      <4>2. QED
        BY <1>2, <1>4, <4>1
    <3>2. now' = now + busy /\ timers' = [timers EXCEPT ![t] = Armed(t, IF t \in Crons THEN now + busy ELSE now)]
      BY <1>2
    <3>3. QED
      BY <1>3, <1>4, <1>13, <2>4, <3>1, <3>2, FireInTime
  <2>5. QED
    BY <2>1, <2>3, <2>4
<1>14. QED
  BY <1>6, <1>12, <1>13 DEF TimersInv

-----------------------------------------------------------------------------
(* Crons tick in each of their minutes and once in it, but for what a tick *)
(* runs over and what a timer cannot reach, and an interval is never       *)
(* shorter than its period, for any tasks, periods and durations of ticks: *)
(* if no period is longer than a timer reaches (setInterval takes a longer *)
(* one for the shortest there is) and no timer is a whole minute late when *)
(* nothing else runs (it would find its minute over).                      *)
THEOREM TicksOnSchedule ==
  ASSUME \A t \in Intervals : Period[t] <= MaxDelay, MaxLate < MinuteMs
  PROVE  TimersSpec => []OnSchedule
<1>1. TimersInit => TimersInv
  BY TimersAssumption, TimersStart
<1>2. TimersInv /\ [TimersNext]_timerVars => TimersInv'
  <2>1. SUFFICES ASSUME TimersInv, [TimersNext]_timerVars PROVE TimersInv'
    OBVIOUS
  <2>2. CASE ClockMoves
    BY <2>1, <2>2, TimersAssumption, TimersClock
  <2>3. CASE Stop
    BY <2>1, <2>3, TimersAssumption, TimersStop
  <2>4. ASSUME NEW t \in Tasks, Fire(t) PROVE TimersInv'
    BY <2>1, <2>4, TimersAssumption, TimersFire
  <2>5. ASSUME NEW starts \in BOOLEAN, Refresh(starts) PROVE TimersInv'
    BY <2>1, <2>5, TimersAssumption, TimersRefresh
  <2>6. CASE UNCHANGED timerVars
    BY <2>1, <2>6 DEF timerVars, TimersInv, TimerShapes, MinuteKept, TickedIn, During, InTime
  <2>7. QED
    BY <2>1, <2>2, <2>3, <2>4, <2>5, <2>6 DEF TimersNext
<1>3. TimersInv => OnSchedule
  <2>1. SUFFICES ASSUME TimersInv PROVE OnSchedule
    OBVIOUS
  <2>2. now \in Nat /\ \A c \in Crons : Matches[c] \subseteq Nat
    BY <2>1, TimersAssumption DEF TimersInv, TimerShapes, TimersAssumption
  <2>3. ASSUME NEW i \in 1..Len(ticks), NEW j \in 1..Len(ticks), i < j PROVE Spaced(ticks[i], ticks[j])
    BY <2>1, <2>3 DEF TimersInv
  <2>4. ASSUME running, NEW c \in Crons, NEW m \in Matches[c], since < m * MinuteMs, (m + 1) * MinuteMs <= now
        PROVE  MinuteKept(c, m)
    <3>1. MinuteKept(c, m) \/ InTime(c, m)
      BY <2>1, <2>4 DEF TimersInv
    <3>2. (m + 1) * MinuteMs \in Nat
      BY <2>2, TimersAssumption DEF TimersAssumption
    <3>3. ~InTime(c, m)
      BY <2>2, <2>4, <3>2 DEF InTime
    <3>4. QED
      BY <3>1, <3>3
  <2>5. \A i, j \in 1..Len(ticks) : LET x == ticks[i] y == ticks[j] IN
          /\ i < j /\ x.task \in Crons /\ SameMinute(x, y) =>
               LET next == NextCron(x.task, x.to) IN next # Never /\ next - x.to > MaxDelay
          /\ i < j /\ x.task \in Intervals /\ x.task = y.task /\ x.load = y.load =>
               y.from - x.from >= Period[x.task]
    BY <2>3 DEF Spaced, Beyond
  <2>6. QED
    BY <2>4, <2>5 DEF OnSchedule, MinuteKept, TickedIn
<1>4. QED
  BY <1>1, <1>2, <1>3, PTL DEF TimersSpec
-----------------------------------------------------------------------------
(* Limits                                                                  *)

(* Arithmetic                                                              *)
LEMMA Division ==
  ASSUME NEW x \in Nat, NEW w \in Nat \ {0}
  PROVE  /\ x \div w \in Nat /\ x % w \in Nat /\ x % w < w
         /\ x = (x \div w) * w + (x % w)
<1>1. x \div w \in Nat
  OBVIOUS
<1>2. x % w \in Nat
  OBVIOUS
<1>3. x % w < w
  OBVIOUS
<1>4. x = w * (x \div w) + (x % w)
  OBVIOUS
<1>5. w * (x \div w) = (x \div w) * w
  BY <1>1
<1>6. QED
  BY <1>1, <1>2, <1>3, <1>4, <1>5

LEMMA Times ==
  /\ \A a, b, w \in Nat : (a + b) * w = a * w + b * w /\ a * w \in Nat
  /\ \A a, b, w \in Nat : a <= b => a * w <= b * w
  OBVIOUS

LEMMA DivBounds ==
  ASSUME NEW x \in Nat, NEW y \in Nat, NEW w \in Nat \ {0}
  PROVE  /\ x * w <= y => x <= y \div w
         /\ x <= y => x \div w <= y \div w
  OBVIOUS

LEMMA RoundedIsNat ==
  ASSUME NEW x \in Nat, NEW y \in Nat, NEW w \in Nat \ {0}
  PROVE  RoundedUp(x * y, w) \in Nat
<1>1. PICK z \in Nat : z = x * y + w - 1
  OBVIOUS
<1>2. z \div w \in Nat
  BY <1>1, Division
<1>3. QED
  BY <1>1, <1>2 DEF RoundedUp

LEMMA RoundsUp ==
  ASSUME NEW p \in Nat, NEW w \in Nat \ {0}, NEW pos \in Nat, pos <= w,
         NEW l \in Nat, p <= l, NEW s \in Nat, pos <= s
  PROVE  p <= (p * (w - pos)) \div w + RoundedUp(l * s, w)
  BY DEF RoundedUp

(* Of two moments within a span of now, the later is after the start of a  *)
(* window or within the span before it.                                    *)
LEMMA AroundStart ==
  ASSUME NEW x \in Nat, NEW y \in Nat, NEW s \in Nat, NEW time \in Nat, NEW span \in Nat,
         x <= y, time - x < span, s <= time
  PROVE  y >= s \/ (y < s /\ s < y + span)
OBVIOUS

LEMMA LongerAgo ==
  ASSUME NEW x \in Nat, NEW s \in Nat, NEW time \in Nat, NEW span \in Nat, x <= s, time - s >= span
  PROVE  time - x >= span
OBVIOUS

LEMMA TwoShares ==
  ASSUME NEW x \in Nat, NEW a \in Nat, NEW b \in Nat, NEW both \in Nat, NEW n \in Nat, NEW cap \in Nat,
         x <= a + b - both, a <= n, n <= cap, b <= cap
  PROVE  x <= 2 * cap
OBVIOUS

-----------------------------------------------------------------------------
(* How many requests were let in from the i-th on.                         *)
From(s, i) == Len(s) - i + 1

RateShapes ==
  /\ clock \in Nat
  /\ limiter \in [strategy : {"fixed", "sliding", "bucket", "trailing"},
                  limit : Nat \ {0}, window : Nat \ {0}]
  /\ counter \in [tokens : Nat, last : Nat, window : Nat, cur : Nat, prev : Nat, events : Seq(Nat)]
  /\ counter.last <= clock
  /\ admitted \in Seq(Nat) /\ \A i \in 1..Len(admitted) : admitted[i] <= counter.last

(* What the bucket holds is at most its burst and its refill since a       *)
(* request, without what was let in from that request on.                  *)
BucketHolds ==
  limiter.strategy = "bucket" =>
    \A i \in 1..Len(admitted) :
      From(admitted, i) * Milli + counter.tokens
        <= limiter.limit * Milli + (counter.last - admitted[i]) * limiter.window

(* The two counts are of the window the clock was in at the last request,  *)
(* and of the one before it.                                               *)
TwoWindows(c) ==
  /\ c.cur <= limiter.limit /\ c.prev <= limiter.limit
  /\ c.window * WindowMs <= clock
  /\ \A i \in 1..Len(admitted) :
       /\ admitted[i] < c.window * WindowMs + WindowMs
       /\ admitted[i] >= c.window * WindowMs => From(admitted, i) <= c.cur
       /\ admitted[i] + WindowMs >= c.window * WindowMs => From(admitted, i) <= c.prev + c.cur

WindowsHold == limiter.strategy \in {"fixed", "sliding"} => TwoWindows(counter)

(* The events kept are the last ones let in, and the others have expired.  *)
TrailingHolds ==
  limiter.strategy = "trailing" =>
    LET kept == Len(counter.events)
        past == Len(admitted) - kept
    IN /\ kept <= limiter.limit /\ kept <= Len(admitted)
       /\ \A k \in 1..kept : counter.events[k] = admitted[past + k]
       /\ \A i \in 1..past : admitted[i] + WindowMs <= clock

RateInv == RateShapes /\ BucketHolds /\ WindowsHold /\ TrailingHolds /\ WithinRate
-----------------------------------------------------------------------------
LEMMA AdmittedFacts ==
  ASSUME RateShapes
  PROVE  /\ clock \in Nat /\ admitted \in Seq(Nat) /\ Len(admitted) \in Nat
         /\ \A i \in 1..Len(admitted) : /\ admitted[i] \in Nat /\ admitted[i] <= clock
                                        /\ From(admitted, i) \in Nat
         /\ limiter.limit \in Nat \ {0} /\ limiter.window \in Nat \ {0}
         /\ counter \in [tokens : Nat, last : Nat, window : Nat, cur : Nat, prev : Nat, events : Seq(Nat)]
<1>1. /\ clock \in Nat /\ admitted \in Seq(Nat) /\ Len(admitted) \in Nat
      /\ limiter.limit \in Nat \ {0} /\ limiter.window \in Nat \ {0} /\ counter.last \in Nat
      /\ counter \in [tokens : Nat, last : Nat, window : Nat, cur : Nat, prev : Nat, events : Seq(Nat)]
  BY DEF RateShapes
<1>2. ASSUME NEW i \in 1..Len(admitted) PROVE admitted[i] \in Nat /\ admitted[i] <= clock
  <2>1. admitted \in Seq(Nat)
    BY <1>1
  <2>2. admitted[i] \in Nat
    BY <1>2, <2>1
  <2>3. admitted[i] <= counter.last /\ counter.last <= clock
    BY <1>2 DEF RateShapes
  <2>4. PICK x \in Nat, y \in Nat, z \in Nat : x = admitted[i] /\ y = counter.last /\ z = clock
    BY <1>1, <2>2
  <2>5. x <= y /\ y <= z
    BY <2>3, <2>4
  <2>6. x <= z
    BY <2>5
  <2>7. QED
    BY <2>4, <2>6
<1>3. \A i \in 1..Len(admitted) : From(admitted, i) \in Nat
  <2>1. Len(admitted) \in Nat
    BY <1>1
  <2>2. QED
    BY <2>1 DEF From
<1>4. QED
  BY <1>1, <1>2, <1>3

LEMMA WindowFacts ==
  ASSUME RateShapes, RateAssumption, limiter' = limiter
  PROVE  WindowMs \in Nat \ {0} /\ WindowMs' = WindowMs
<1>1. limiter.window \in Nat \ {0} /\ Milli \in Nat \ {0}
  BY AdmittedFacts DEF RateAssumption
<1>2. limiter.window * Milli \in Nat \ {0}
  BY <1>1
<1>3. QED
  BY <1>2 DEF WindowMs

(* A request is let in: the stretches that end with it are within bounds.  *)
LEMMA Newest ==
  ASSUME RateShapes, WithinRate, UNCHANGED <<limiter, clock>>, admitted' = Append(admitted, clock),
         \A i \in 1..Len(admitted) : InReach(clock - admitted[i]) =>
            From(admitted, i) + 1 <= Bound(clock - admitted[i]),
         1 <= Bound(0)
  PROVE  WithinRate'
<1>1. /\ clock \in Nat /\ admitted \in Seq(Nat) /\ Len(admitted) \in Nat
      /\ Len(admitted') = Len(admitted) + 1 /\ admitted'[Len(admitted) + 1] = clock
      /\ \A i \in 1..Len(admitted) : admitted'[i] = admitted[i]
  BY AppendProperties DEF RateShapes
<1>2. \A span : Bound(span)' = Bound(span) /\ InReach(span)' = InReach(span)
  BY DEF Bound, InReach, WindowMs
<1>3. SUFFICES ASSUME NEW i \in 1..Len(admitted'), NEW j \in 1..Len(admitted'), i <= j,
                      InReach(admitted'[j] - admitted'[i])
               PROVE  j - i + 1 <= Bound(admitted'[j] - admitted'[i])
  BY <1>2 DEF WithinRate
<1>4. CASE j <= Len(admitted)
  <2>1. i \in 1..Len(admitted) /\ j \in 1..Len(admitted)
    BY <1>1, <1>3, <1>4
  <2>2. admitted'[i] = admitted[i] /\ admitted'[j] = admitted[j]
    BY <1>1, <2>1
  <2>3. QED
    BY <1>3, <2>1, <2>2 DEF WithinRate
<1>5. CASE j = Len(admitted) + 1 /\ i <= Len(admitted)
  <2>1. i \in 1..Len(admitted) /\ admitted'[i] = admitted[i] /\ admitted'[j] = clock
    BY <1>1, <1>5
  <2>2. From(admitted, i) + 1 <= Bound(admitted'[j] - admitted'[i])
    BY <1>3, <2>1
  <2>3. QED
    BY <1>1, <1>5, <2>1, <2>2 DEF From
<1>6. CASE j = Len(admitted) + 1 /\ i = Len(admitted) + 1
  <2>1. admitted'[j] - admitted'[i] = 0 /\ j - i + 1 = 1
    BY <1>1, <1>6
  <2>2. QED
    BY <2>1
<1>7. QED
  BY <1>1, <1>3, <1>4, <1>5, <1>6

(* The shapes after a request, and what it leaves of the other strategies. *)
LEMMA Counts ==
  ASSUME RateShapes, NEW allowed \in BOOLEAN, UNCHANGED <<limiter, clock>>, Verdict(allowed),
         counter' \in [tokens : Nat, last : Nat, window : Nat, cur : Nat, prev : Nat, events : Seq(Nat)],
         counter'.last = clock
  PROVE  /\ RateShapes'
         /\ Len(admitted) \in Nat /\ Len(admitted') = Len(admitted) + (IF allowed THEN 1 ELSE 0)
         /\ \A i \in 1..Len(admitted) : admitted'[i] = admitted[i]
         /\ allowed => admitted'[Len(admitted) + 1] = clock
<1>1. admitted \in Seq(Nat) /\ clock \in Nat /\ Len(admitted) \in Nat /\ counter.last <= clock /\ counter.last \in Nat
      /\ \A i \in 1..Len(admitted) : admitted[i] \in Nat /\ admitted[i] <= counter.last
  <2>1. admitted \in Seq(Nat) /\ Len(admitted) \in Nat
    BY DEF RateShapes
  <2>2. \A i \in 1..Len(admitted) : admitted[i] \in Nat
    BY <2>1
  <2>3. QED
    BY <2>1, <2>2 DEF RateShapes
<1>2. CASE allowed
  <2>1. admitted' = Append(admitted, clock)
    BY <1>2 DEF Verdict
  <2>2. /\ admitted' \in Seq(Nat) /\ Len(admitted') = Len(admitted) + 1 /\ admitted'[Len(admitted) + 1] = clock
        /\ \A i \in 1..Len(admitted) : admitted'[i] = admitted[i]
    BY <1>1, <2>1, AppendProperties
  <2>3. \A i \in 1..Len(admitted') : admitted'[i] <= clock
    <3>1. TAKE i \in 1..Len(admitted')
    <3>2. i \in 1..Len(admitted) \/ i = Len(admitted) + 1
      BY <1>1, <2>2
    <3>3. CASE i \in 1..Len(admitted)
      <4>1. admitted'[i] = admitted[i] /\ admitted[i] <= clock
        BY <2>2, <3>3, AdmittedFacts
      <4>2. QED
        BY <4>1
    <3>4. CASE i = Len(admitted) + 1
      BY <1>1, <2>2, <3>4
    <3>5. QED
      BY <3>2, <3>3, <3>4
  <2>4. RateShapes'
    BY <1>1, <2>2, <2>3 DEF RateShapes
  <2>5. QED
    BY <1>1, <1>2, <2>2, <2>4
<1>3. CASE ~allowed
  <2>1. admitted' = admitted
    BY <1>3 DEF Verdict
  <2>2. \A i \in 1..Len(admitted) : admitted[i] <= clock
    <3>1. TAKE i \in 1..Len(admitted)
    <3>2. QED
      BY <3>1, AdmittedFacts
  <2>3. RateShapes'
    BY <1>1, <2>1, <2>2 DEF RateShapes
  <2>4. QED
    BY <1>1, <1>3, <2>1, <2>3
<1>4. QED
  BY <1>2, <1>3

LEMMA Unchanging ==
  ASSUME RateShapes, WithinRate, admitted' = admitted, limiter' = limiter
  PROVE  WithinRate'
<1>1. \A x : Bound(x)' = Bound(x)
  BY DEF Bound, WindowMs
<1>2. \A x : InReach(x)' <=> InReach(x)
  BY DEF InReach, WindowMs
<1>3. QED
  BY <1>1, <1>2 DEF WithinRate

-----------------------------------------------------------------------------
(* The bucket                                                              *)
LEMMA BucketKeeps ==
  ASSUME RateInv, RateAssumption, CheckBucket
  PROVE  RateInv'
<1>1. /\ RateShapes /\ BucketHolds /\ WithinRate /\ limiter.strategy = "bucket"
      /\ UNCHANGED <<clock, limiter>> /\ Milli \in Nat \ {0} /\ limiter.window \in Nat /\ limiter.limit \in Nat \ {0}
      /\ clock \in Nat /\ counter.last \in Nat /\ counter.last <= clock /\ counter.tokens \in Nat
  BY DEF RateInv, CheckBucket, RateAssumption, RateShapes
<1>0. PICK N \in Nat : N = Len(admitted)
  BY <1>1 DEF RateShapes
<1>2. PICK full \in Nat : full = limiter.limit * Milli /\ full >= Milli
  BY <1>1
<1>3. PICK refill \in Nat : refill = Refilled
  BY <1>1, <1>2 DEF Refilled, Smaller
<1>4. refill <= full /\ refill <= counter.tokens + (clock - counter.last) * limiter.window
  BY <1>1, <1>2, <1>3 DEF Refilled, Smaller
<1>5. PICK allowed \in BOOLEAN : allowed <=> refill >= Milli
  <2>1. CASE refill >= Milli
    BY <2>1
  <2>2. CASE ~(refill >= Milli)
    BY <2>2
  <2>3. QED
    BY <2>1, <2>2
<1>6. Verdict(allowed) /\ counter' = [counter EXCEPT !.tokens = IF allowed THEN refill - Milli ELSE refill, !.last = clock]
  <2>1. /\ Verdict(Refilled >= Milli)
        /\ counter' = [counter EXCEPT !.tokens = IF Refilled >= Milli THEN Refilled - Milli ELSE Refilled,
                                      !.last = clock]
    BY DEF CheckBucket
  <2>2. admitted' = IF refill >= Milli THEN Append(admitted, clock) ELSE admitted
    BY <1>3, <2>1 DEF Verdict
  <2>3. admitted' = IF allowed THEN Append(admitted, clock) ELSE admitted
    BY <1>5, <2>2
  <2>4. QED
    BY <1>3, <1>5, <2>1, <2>3 DEF Verdict
<1>7. PICK left \in Nat : left = (IF allowed THEN refill - Milli ELSE refill)
  <2>1. CASE allowed
    <3>1. refill - Milli \in Nat
      BY <1>1, <1>5, <2>1
    <3>2. QED
      BY <2>1, <3>1
  <2>2. CASE ~allowed
    BY <2>2
  <2>3. QED
    BY <2>1, <2>2
<1>8. /\ counter' \in [tokens : Nat, last : Nat, window : Nat, cur : Nat, prev : Nat, events : Seq(Nat)]
      /\ counter'.last = clock /\ counter'.tokens = left
  BY <1>1, <1>6, <1>7 DEF RateShapes
<1>9. /\ RateShapes' /\ N \in Nat /\ Len(admitted') = N + (IF allowed THEN 1 ELSE 0)
      /\ \A i \in 1..N : admitted'[i] = admitted[i]
      /\ allowed => admitted'[N + 1] = clock
  BY <1>0, <1>1, <1>6, <1>8, Counts
<1>15. \A i \in 1..N : /\ From(admitted, i) \in Nat /\ From(admitted, i) = N - i + 1
                      /\ From(admitted', i) = From(admitted, i) + (IF allowed THEN 1 ELSE 0)
  BY <1>0, <1>9 DEF From
<1>10. ASSUME NEW i \in 1..N
       PROVE  /\ admitted[i] \in Nat /\ admitted[i] <= counter.last
              /\ From(admitted, i) * Milli + refill <= full + (clock - admitted[i]) * limiter.window
  <2>1. admitted[i] \in Nat /\ admitted[i] <= counter.last
    BY <1>0, <1>1, <1>10 DEF RateShapes
  <2>2. From(admitted, i) * Milli + counter.tokens <= full + (counter.last - admitted[i]) * limiter.window
    BY <1>0, <1>1, <1>2, <1>10 DEF BucketHolds
  <2>3. PICK a \in Nat, b \in Nat : a = counter.last - admitted[i] /\ b = clock - counter.last
    BY <1>1, <2>1
  <2>4. clock - admitted[i] = a + b
    BY <1>1, <2>1, <2>3
  <2>5. (a + b) * limiter.window = a * limiter.window + b * limiter.window
        /\ a * limiter.window \in Nat /\ b * limiter.window \in Nat
    BY <1>1, <2>3, Times
  <2>6. From(admitted, i) * Milli \in Nat
    BY <1>1, <1>10, <1>15
  <2>7. QED
    BY <1>1, <1>4, <2>1, <2>2, <2>3, <2>4, <2>5, <2>6
<1>11. BucketHolds'
  <2>1. SUFFICES ASSUME NEW i \in 1..Len(admitted')
                 PROVE  From(admitted', i) * Milli + left <= full + (clock - admitted'[i]) * limiter.window
    BY <1>1, <1>2, <1>8 DEF BucketHolds
  <2>2. CASE i \in 1..N
    <3>1. From(admitted', i) * Milli = From(admitted, i) * Milli + (IF allowed THEN Milli ELSE 0)
      <4>1. PICK n \in Nat : n = From(admitted, i)
        BY <1>15, <2>2
      <4>2. From(admitted', i) = n + (IF allowed THEN 1 ELSE 0)
        BY <1>15, <2>2, <4>1
      <4>3. QED
        BY <1>1, <4>1, <4>2
    <3>2. PICK d \in Nat : d = clock - admitted[i]
      <4>1. clock \in Nat /\ admitted[i] \in Nat /\ admitted[i] <= clock
        BY <1>0, <1>1, <2>2, AdmittedFacts
      <4>2. clock - admitted[i] \in Nat
        BY <4>1
      <4>3. QED
        BY <4>2
    <3>3. PICK m \in Nat, x \in Nat : m = From(admitted, i) * Milli /\ x = d * limiter.window
      <4>1. From(admitted, i) \in Nat /\ Milli \in Nat /\ limiter.window \in Nat
        BY <1>1, <1>15, <2>2
      <4>2. From(admitted, i) * Milli \in Nat /\ d * limiter.window \in Nat
        BY <3>2, <4>1, Times
      <4>3. QED
        BY <4>2
    <3>4. m + refill <= full + x /\ clock - admitted'[i] = d
      BY <1>9, <1>10, <2>2, <3>2, <3>3
    <3>5. m + (IF allowed THEN Milli ELSE 0) + left <= full + x
      BY <1>1, <1>5, <1>7, <3>4
    <3>6. QED
      BY <3>1, <3>3, <3>4, <3>5
  <2>3. CASE i \notin 1..N
    <3>1. allowed /\ i = N + 1 /\ From(admitted', i) = 1 /\ admitted'[i] = clock
      BY <1>0, <1>9, <2>1, <2>3 DEF From
    <3>2. (clock - admitted'[i]) * limiter.window = 0 /\ From(admitted', i) * Milli = Milli
      BY <1>1, <3>1
    <3>3. QED
      BY <1>1, <1>4, <1>5, <1>7, <3>1, <3>2
  <2>4. QED
    BY <2>2, <2>3
<1>12. WithinRate'
  <2>1. CASE ~allowed
    BY <1>1, <1>6, <2>1, Unchanging DEF Verdict
  <2>2. CASE allowed
    <3>1. \A i \in 1..N : From(admitted, i) + 1 <= Bound(clock - admitted[i])
      <4>1. TAKE i \in 1..N
      <4>2. PICK n \in Nat : n = From(admitted, i) + 1
        BY <1>15, <4>1
      <4>3. n * Milli = From(admitted, i) * Milli + Milli
        BY <1>1, <1>15, <4>1, <4>2
      <4>4. PICK x \in Nat : x = full + (clock - admitted[i]) * limiter.window
        BY <1>1, <1>10, <4>1
      <4>5. n * Milli <= x
        BY <1>1, <1>5, <1>10, <1>15, <2>2, <4>1, <4>3, <4>4
      <4>6. n <= x \div Milli
        BY <1>1, <4>5, DivBounds
      <4>7. QED
        BY <1>1, <1>2, <4>1, <4>2, <4>4, <4>6 DEF Bound
    <3>2. 1 <= Bound(0)
      <4>1. 1 * Milli <= full /\ full + 0 * limiter.window = full
        BY <1>1, <1>2
      <4>2. 1 <= full \div Milli
        BY <1>1, <4>1, DivBounds
      <4>3. QED
        BY <1>1, <1>2, <4>1, <4>2 DEF Bound
    <3>3. QED
      BY <1>0, <1>1, <1>6, <2>2, <3>1, <3>2, Newest DEF Verdict
  <2>3. QED
    BY <2>1, <2>2
<1>13. WindowsHold' /\ TrailingHolds'
  BY <1>1 DEF WindowsHold, TrailingHolds
<1>14. QED
  BY <1>9, <1>11, <1>12, <1>13 DEF RateInv
-----------------------------------------------------------------------------
(* The windows                                                             *)
LEMMA Rolls ==
  ASSUME RateShapes, RateAssumption, TwoWindows(counter)
  PROVE  /\ TwoWindows(Rolled) /\ Rolled.window = clock \div WindowMs
         /\ Rolled \in [tokens : Nat, last : Nat, window : Nat, cur : Nat, prev : Nat, events : Seq(Nat)]
<1>1. /\ clock \in Nat /\ counter.window \in Nat /\ counter.cur \in Nat /\ counter.prev \in Nat
      /\ limiter.limit \in Nat /\ admitted \in Seq(Nat) /\ Len(admitted) \in Nat
      /\ counter \in [tokens : Nat, last : Nat, window : Nat, cur : Nat, prev : Nat, events : Seq(Nat)]
  BY DEF RateShapes
<1>2. PICK w \in Nat \ {0} : w = WindowMs
  BY DEF RateShapes, RateAssumption, WindowMs
<1>3. PICK this \in Nat, x \in Nat : this = clock \div w /\ x = this * w
  <2>1. clock \div w \in Nat
    BY <1>1, <1>2, Division
  <2>2. (clock \div w) * w \in Nat
    BY <1>2, <2>1
  <2>3. QED
    BY <2>1, <2>2
<1>4. x <= clock /\ clock < x + w
  BY <1>1, <1>2, <1>3, Division
<1>5. PICK v \in Nat, y \in Nat : v = counter.window /\ y = v * w
  BY <1>1, <1>2
<1>13. w \in Nat /\ w > 0 /\ x \in Nat /\ y \in Nat
  BY <1>2, <1>3, <1>5
<1>6. y <= clock
  BY <1>2, <1>5 DEF TwoWindows
<1>7. v <= this
  BY <1>1, <1>2, <1>3, <1>5, <1>6, DivBounds
<1>8. \A i \in 1..Len(admitted) :
        /\ admitted[i] \in Nat /\ From(admitted, i) \in Nat /\ admitted[i] < y + w
        /\ admitted[i] >= y => From(admitted, i) <= counter.cur
        /\ admitted[i] + w >= y => From(admitted, i) <= counter.prev + counter.cur
  BY <1>2, <1>5, AdmittedFacts DEF TwoWindows
<1>14. this = clock \div WindowMs /\ v = counter.window
  BY <1>2, <1>3, <1>5
<1>9. CASE this = v
  <2>1. Rolled = counter
    <3>1. ~(clock \div WindowMs = counter.window + 1) /\ ~(clock \div WindowMs > counter.window + 1)
      <4>1. ~(this = v + 1) /\ ~(this > v + 1)
        BY <1>9
      <4>2. QED
        BY <1>14, <4>1
    <3>2. QED
      BY <3>1 DEF Rolled
  <2>2. QED
    BY <1>1, <1>2, <1>3, <1>5, <1>9, <2>1
<1>10. CASE this = v + 1
  <2>1. Rolled = [counter EXCEPT !.window = this, !.prev = counter.cur, !.cur = 0]
    <3>1. clock \div WindowMs = counter.window + 1 /\ ~(clock \div WindowMs > counter.window + 1)
      <4>1. this = v + 1 /\ ~(this > v + 1)
        BY <1>10
      <4>2. QED
        BY <1>14, <4>1
    <3>2. Rolled = [counter EXCEPT !.window = clock \div WindowMs, !.prev = counter.cur, !.cur = 0]
      BY <3>1 DEF Rolled
    <3>3. QED
      BY <1>14, <3>2
  <2>2. x = y + w
    BY <1>2, <1>3, <1>5, <1>10, Times
  <2>3. /\ Rolled.window = this /\ Rolled.prev = counter.cur /\ Rolled.cur = 0
        /\ Rolled \in [tokens : Nat, last : Nat, window : Nat, cur : Nat, prev : Nat, events : Seq(Nat)]
    BY <1>1, <2>1
  <2>4. counter.cur <= limiter.limit /\ 0 <= limiter.limit
    BY <1>1 DEF TwoWindows
  <2>5. \A i \in 1..Len(admitted) :
          /\ admitted[i] < x + w
          /\ admitted[i] >= x => From(admitted, i) <= 0
          /\ admitted[i] + w >= x => From(admitted, i) <= counter.cur + 0
    <3>1. TAKE i \in 1..Len(admitted)
    <3>2. PICK a \in Nat, n \in Nat, cur \in Nat : a = admitted[i] /\ n = From(admitted, i) /\ cur = counter.cur
      BY <1>1, <1>8, <3>1
    <3>3. a < y + w /\ (a >= y => n <= cur)
      BY <1>8, <3>1, <3>2
    <3>4. w \in Nat
      BY <1>13
    <3>5. a < x + w /\ ~(a >= x) /\ (a + w >= x => n <= cur + 0)
      BY <2>2, <3>3, <3>4
    <3>6. QED
      BY <3>2, <3>5
  <2>6. QED
    BY <1>2, <1>3, <1>4, <2>3, <2>4, <2>5 DEF TwoWindows
<1>11. CASE this > v + 1
  <2>1. Rolled = [counter EXCEPT !.window = this, !.prev = 0, !.cur = 0]
    <3>1. ~(clock \div WindowMs = counter.window + 1) /\ clock \div WindowMs > counter.window + 1
      <4>1. ~(this = v + 1) /\ this > v + 1
        BY <1>11
      <4>2. QED
        BY <1>14, <4>1
    <3>2. Rolled = [counter EXCEPT !.window = clock \div WindowMs, !.prev = 0, !.cur = 0]
      BY <3>1 DEF Rolled
    <3>3. QED
      BY <1>14, <3>2
  <2>2. y + w + w <= x
    <3>1. (v + 2) * w = y + w + w
      BY <1>2, <1>5
    <3>2. (v + 2) * w <= this * w
      BY <1>2, <1>3, <1>5, <1>11, Times
    <3>3. QED
      BY <1>3, <3>1, <3>2
  <2>3. /\ Rolled.window = this /\ Rolled.prev = 0 /\ Rolled.cur = 0
        /\ Rolled \in [tokens : Nat, last : Nat, window : Nat, cur : Nat, prev : Nat, events : Seq(Nat)]
    BY <1>1, <2>1
  <2>4. 0 <= limiter.limit
    BY <1>1
  <2>5. \A i \in 1..Len(admitted) : admitted[i] < x + w /\ ~(admitted[i] >= x) /\ ~(admitted[i] + w >= x)
    <3>1. TAKE i \in 1..Len(admitted)
    <3>2. admitted[i] \in Nat /\ admitted[i] < y + w
      BY <1>8, <3>1
    <3>3. QED
      BY <1>13, <2>2, <3>2
  <2>6. QED
    BY <1>2, <1>3, <1>4, <2>3, <2>4, <2>5 DEF TwoWindows
<1>12. QED
  BY <1>7, <1>9, <1>10, <1>11

(* The counts are of the window the clock is in, and let one more in.      *)
AtClock(c) == c.window = clock \div WindowMs /\ Effective(c) < limiter.limit

(* A window that lets one more in: every stretch that ends with it is      *)
(* within the bound of its strategy.                                       *)
LEMMA WindowAdmits ==
  ASSUME RateShapes, RateAssumption, limiter.strategy \in {"fixed", "sliding"},
         NEW c \in [tokens : Nat, last : Nat, window : Nat, cur : Nat, prev : Nat, events : Seq(Nat)],
         TwoWindows(c), AtClock(c)
  PROVE  /\ c.cur < limiter.limit
         /\ \A i \in 1..Len(admitted) : InReach(clock - admitted[i]) =>
              From(admitted, i) + 1 <= Bound(clock - admitted[i])
         /\ 1 <= Bound(0)
<1>1. /\ clock \in Nat /\ limiter.limit \in Nat \ {0} /\ Len(admitted) \in Nat
      /\ c.cur \in Nat /\ c.prev \in Nat /\ c.window \in Nat /\ c.prev <= limiter.limit
  BY DEF RateShapes, TwoWindows
<1>2. PICK w \in Nat \ {0} : w = WindowMs
  <2>1. limiter.window \in Nat \ {0} /\ Milli \in Nat \ {0}
    BY AdmittedFacts DEF RateAssumption
  <2>2. limiter.window * Milli \in Nat \ {0}
    BY <2>1
  <2>3. QED
    BY <2>2 DEF WindowMs
<1>3. PICK this \in Nat, x \in Nat, pos \in Nat :
        this = clock \div w /\ x = this * w /\ pos = clock % w /\ pos < w /\ clock = x + pos
  <2>1. /\ clock \div w \in Nat /\ clock % w \in Nat /\ clock % w < w
        /\ clock = (clock \div w) * w + (clock % w)
    BY <1>1, <1>2, Division
  <2>2. PICK d \in Nat : d = clock \div w
    BY <2>1
  <2>3. d * w \in Nat
    BY <1>2, <2>2
  <2>4. QED
    BY <2>1, <2>2, <2>3
<1>10. w \in Nat /\ w > 0 /\ x \in Nat /\ pos \in Nat /\ pos < w /\ clock = x + pos
  BY <1>2, <1>3
<1>4. PICK weight \in Nat : weight = (c.prev * (w - pos)) \div w
  <2>1. w - pos \in Nat
    BY <1>2, <1>3
  <2>2. c.prev * (w - pos) \in Nat
    BY <1>1, <2>1
  <2>3. QED
    BY <1>2, <2>2, Division
<1>5. Effective(c) = IF limiter.strategy = "sliding" THEN weight + c.cur ELSE c.cur
  BY <1>2, <1>3, <1>4 DEF Effective
<1>6. c.cur < limiter.limit /\ (limiter.strategy = "sliding" => weight + c.cur + 1 <= limiter.limit)
  <2>1. Effective(c) < limiter.limit
    BY DEF AtClock
  <2>2. CASE limiter.strategy = "sliding"
    <3>1. weight \in Nat /\ weight + c.cur < limiter.limit
      BY <1>4, <1>5, <2>1, <2>2
    <3>2. QED
      BY <1>1, <3>1
  <2>3. CASE limiter.strategy # "sliding"
    BY <1>1, <1>5, <2>1, <2>3
  <2>4. QED
    BY <2>2, <2>3
<1>7. 1 <= Bound(0)
  <2>1. CASE limiter.strategy = "fixed"
    <3>1. Bound(0) = 2 * limiter.limit
      BY <2>1 DEF Bound
    <3>2. QED
      BY <1>1, <3>1
  <2>2. CASE limiter.strategy = "sliding"
    <3>1. Bound(0) = limiter.limit + 0
      BY <2>2 DEF Bound
    <3>2. QED
      BY <1>1, <3>1
  <2>3. QED
    BY <2>1, <2>2
<1>8. ASSUME NEW i \in 1..Len(admitted), InReach(clock - admitted[i])
      PROVE  From(admitted, i) + 1 <= Bound(clock - admitted[i])
  <2>1. PICK n \in Nat, a \in Nat, time \in Nat : n = From(admitted, i) /\ a = admitted[i] /\ time = clock
    BY <1>8, AdmittedFacts
  <2>2. a <= time /\ time = x + pos /\ pos < w
    BY <1>8, <1>10, <2>1, AdmittedFacts
  <2>3. PICK s \in Nat : s = time - a
    <3>1. time - a \in Nat
      BY <2>2
    <3>2. QED
      BY <3>1
  <2>4. s = clock - admitted[i]
    BY <2>1, <2>3
  <2>5. s < w /\ x + pos = a + s
    <3>1. InReach(s)
      BY <1>8, <2>4
    <3>2. s < w
      BY <1>2, <3>1 DEF InReach
    <3>3. x + pos = a + s
      BY <2>2, <2>3
    <3>4. QED
      BY <3>2, <3>3
  <2>6. PICK cap \in Nat, prev \in Nat, cur \in Nat : cap = limiter.limit /\ prev = c.prev /\ cur = c.cur
    BY <1>1
  <2>7. prev <= cap /\ cur < cap
    BY <1>1, <1>6, <2>6
  <2>8. (a >= x => n <= cur) /\ (a + w >= x => n <= prev + cur)
    <3>1. c.window * WindowMs = x
      BY <1>2, <1>3 DEF AtClock
    <3>2. QED
      BY <1>2, <1>8, <2>1, <2>6, <3>1 DEF TwoWindows
  <2>9. n <= prev + cur
    <3>1. a + w >= x
      BY <2>5
    <3>2. QED
      BY <2>8, <3>1
  <2>10. CASE limiter.strategy = "fixed"
    <3>1. Bound(s) = 2 * cap
      BY <2>6, <2>10 DEF Bound
    <3>2. n + 1 <= 2 * cap
      BY <2>7, <2>9
    <3>3. QED
      BY <2>1, <2>4, <3>1, <3>2
  <2>11. CASE limiter.strategy = "sliding" /\ a >= x
    <3>1. PICK extra \in Nat : Bound(s) = cap + extra
      <4>1. CASE s = 0
        BY <2>6, <2>11, <4>1 DEF Bound
      <4>2. CASE s # 0
        <5>1. s - 1 \in Nat
          BY <4>2
        <5>2. PICK t \in Nat : t = s - 1
          BY <5>1
        <5>3. PICK extra \in Nat : extra = RoundedUp(cap * t, w)
          BY <1>2, RoundedIsNat
        <5>4. Bound(s) = cap + extra
          BY <1>2, <2>6, <2>11, <4>2, <5>2, <5>3 DEF Bound
        <5>5. QED
          BY <5>4
      <4>3. QED
        BY <4>1, <4>2
    <3>2. n <= cur
      BY <2>8, <2>11
    <3>3. n + 1 <= cap + extra
      BY <2>7, <3>2
    <3>4. QED
      BY <2>1, <2>4, <3>1, <3>3
  <2>12. CASE limiter.strategy = "sliding" /\ a < x
    <3>1. pos < s
      <4>1. a < x
        BY <2>12
      <4>2. QED
        BY <2>5, <4>1
    <3>2. s # 0 /\ s - 1 \in Nat /\ pos <= s - 1
      BY <3>1
    <3>3. PICK t \in Nat : t = s - 1 /\ pos <= t
      BY <3>2
    <3>4. PICK extra \in Nat : extra = RoundedUp(cap * t, w)
      BY <1>2, RoundedIsNat
    <3>5. Bound(s) = cap + extra
      BY <1>2, <2>6, <2>12, <3>2, <3>3, <3>4 DEF Bound
    <3>6. prev <= weight + extra
      <4>1. pos <= w /\ pos <= t /\ prev <= cap
        BY <2>2, <2>7, <3>3
      <4>2. prev <= (prev * (w - pos)) \div w + RoundedUp(cap * t, w)
        BY <1>2, <4>1, RoundsUp
      <4>3. QED
        BY <1>4, <2>6, <3>4, <4>2
    <3>7. weight + cur + 1 <= cap
      BY <1>6, <2>6, <2>12
    <3>8. n + 1 <= cap + extra
      BY <2>9, <3>6, <3>7
    <3>9. QED
      BY <2>1, <2>4, <3>5, <3>8
  <2>13. QED
    <3>1. a >= x \/ a < x
      OBVIOUS
    <3>2. limiter.strategy \in {"fixed", "sliding"}
      OBVIOUS
    <3>3. QED
      BY <2>10, <2>11, <2>12, <3>1, <3>2
<1>9. QED
  BY <1>6, <1>7, <1>8

LEMMA WindowKeeps ==
  ASSUME RateInv, RateAssumption, CheckWindow
  PROVE  RateInv'
<1>1. /\ RateShapes /\ WindowsHold /\ WithinRate /\ limiter.strategy \in {"fixed", "sliding"}
      /\ UNCHANGED <<clock, limiter>> /\ clock \in Nat /\ limiter.limit \in Nat
  BY DEF RateInv, CheckWindow, RateShapes
<1>2. PICK c : c = Rolled
  OBVIOUS
<1>3. /\ TwoWindows(c) /\ c.window = clock \div WindowMs
      /\ c \in [tokens : Nat, last : Nat, window : Nat, cur : Nat, prev : Nat, events : Seq(Nat)]
  BY <1>1, <1>2, Rolls DEF WindowsHold
<1>4. /\ Verdict(Effective(c) < limiter.limit)
      /\ counter' = [c EXCEPT !.cur = IF Effective(c) < limiter.limit THEN @ + 1 ELSE @, !.last = clock]
  BY <1>2 DEF CheckWindow
<1>5. CASE Effective(c) < limiter.limit
  <2>1. /\ c.cur < limiter.limit
        /\ \A i \in 1..Len(admitted) : InReach(clock - admitted[i]) =>
             From(admitted, i) + 1 <= Bound(clock - admitted[i])
        /\ 1 <= Bound(0)
    BY <1>1, <1>3, <1>5, WindowAdmits DEF AtClock
  <2>2. admitted' = Append(admitted, clock) /\ counter' = [c EXCEPT !.cur = @ + 1, !.last = clock]
    BY <1>4, <1>5 DEF Verdict
  <2>3. /\ counter' \in [tokens : Nat, last : Nat, window : Nat, cur : Nat, prev : Nat, events : Seq(Nat)]
        /\ counter'.last = clock /\ counter'.cur = c.cur + 1 /\ counter'.window = c.window /\ counter'.prev = c.prev
    <3>1. c.cur + 1 \in Nat
      BY <1>3
    <3>2. QED
      BY <1>1, <1>3, <2>2, <3>1
  <2>4. WithinRate'
    BY <1>1, <2>1, <2>2, Newest
  <2>5. /\ RateShapes'
        /\ Len(admitted) \in Nat /\ Len(admitted') = Len(admitted) + 1
        /\ \A i \in 1..Len(admitted) : admitted'[i] = admitted[i]
        /\ admitted'[Len(admitted) + 1] = clock
    <3>1. Verdict(TRUE)
      BY <2>2 DEF Verdict
    <3>2. QED
      BY <1>1, <2>3, <3>1, Counts
  <2>6. TwoWindows(counter)'
    <3>1. PICK w \in Nat \ {0}, N \in Nat : w = WindowMs /\ w = WindowMs' /\ N = Len(admitted)
      <4>1. limiter.window * Milli \in Nat \ {0}
        <5>1. limiter.window \in Nat \ {0} /\ Milli \in Nat \ {0}
          BY AdmittedFacts, <1>1 DEF RateAssumption
        <5>2. QED
          BY <5>1
      <4>2. WindowMs = limiter.window * Milli /\ WindowMs' = limiter.window * Milli
        BY <1>1 DEF WindowMs
      <4>3. QED
        BY <2>5, <4>1, <4>2
    <3>2. PICK x \in Nat : x = c.window * w /\ x <= clock /\ clock < x + w
      <4>1. c.window \in Nat
        BY <1>3
      <4>2. c.window * w <= clock /\ clock < c.window * w + w /\ c.window * w \in Nat
        <5>1. c.window = clock \div w
          BY <1>3, <3>1
        <5>2. /\ clock = (clock \div w) * w + (clock % w) /\ clock % w \in Nat /\ clock % w < w
          BY <1>1, <3>1, Division
        <5>3. PICK y \in Nat, rest \in Nat : y = c.window * w /\ rest = clock % w
          BY <3>1, <4>1, <5>2
        <5>4. clock = y + rest /\ rest < w /\ w \in Nat
          BY <3>1, <5>1, <5>2, <5>3
        <5>5. y <= clock /\ clock < y + w
          BY <5>4
        <5>6. QED
          BY <5>3, <5>5
      <4>3. QED
        BY <4>2
    <3>3. c.cur \in Nat /\ c.prev \in Nat /\ c.cur + 1 <= limiter.limit /\ c.prev <= limiter.limit
      BY <1>1, <1>3, <2>1 DEF TwoWindows
    <3>4. ASSUME NEW i \in 1..Len(admitted')
          PROVE  /\ admitted'[i] < x + w
                 /\ admitted'[i] >= x => From(admitted', i) <= c.cur + 1
                 /\ admitted'[i] + w >= x => From(admitted', i) <= c.prev + (c.cur + 1)
      <4>1. CASE i \in 1..N
        <5>1. /\ admitted[i] < x + w
              /\ admitted[i] >= x => From(admitted, i) <= c.cur
              /\ admitted[i] + w >= x => From(admitted, i) <= c.prev + c.cur
          BY <1>3, <3>1, <3>2, <4>1 DEF TwoWindows
        <5>2. PICK n \in Nat : From(admitted, i) = n /\ From(admitted', i) = n + 1
          BY <2>5, <3>1, <4>1 DEF From
        <5>3. admitted'[i] = admitted[i]
          BY <2>5, <3>1, <4>1
        <5>4. QED
          BY <3>3, <5>1, <5>2, <5>3
      <4>2. CASE i \notin 1..N
        <5>1. i = N + 1 /\ admitted'[i] = clock /\ From(admitted', i) = 1
          BY <2>5, <3>1, <3>4, <4>2 DEF From
        <5>2. QED
          BY <3>2, <3>3, <5>1
      <4>3. QED
        BY <4>1, <4>2
    <3>5. QED
      BY <1>1, <2>3, <3>1, <3>2, <3>3, <3>4 DEF TwoWindows
  <2>7. WindowsHold'
    BY <2>6 DEF WindowsHold
  <2>8. BucketHolds' /\ TrailingHolds'
    BY <1>1 DEF BucketHolds, TrailingHolds
  <2>9. QED
    BY <2>4, <2>5, <2>7, <2>8 DEF RateInv
<1>6. CASE ~(Effective(c) < limiter.limit)
  <2>1. admitted' = admitted /\ counter' = [c EXCEPT !.last = clock]
    BY <1>3, <1>4, <1>6 DEF Verdict
  <2>2. /\ counter' \in [tokens : Nat, last : Nat, window : Nat, cur : Nat, prev : Nat, events : Seq(Nat)]
        /\ counter'.last = clock /\ counter'.cur = c.cur /\ counter'.window = c.window /\ counter'.prev = c.prev
    BY <1>1, <1>3, <2>1
  <2>3. RateShapes'
    <3>1. Verdict(FALSE)
      BY <2>1 DEF Verdict
    <3>2. QED
      BY <1>1, <2>2, <3>1, Counts
  <2>4. WithinRate'
    BY <1>1, <2>1, Unchanging
  <2>5. TwoWindows(counter)'
    BY <1>1, <1>3, <2>1, <2>2 DEF TwoWindows, WindowMs
  <2>6. WindowsHold' /\ BucketHolds' /\ TrailingHolds'
    BY <1>1, <2>5 DEF WindowsHold, BucketHolds, TrailingHolds
  <2>7. QED
    BY <2>3, <2>4, <2>6 DEF RateInv
<1>7. QED
  BY <1>5, <1>6
-----------------------------------------------------------------------------
(* The trailing window                                                     *)
LEMMA SkipsSome ==
  ASSUME NEW es \in Seq(Nat)
  PROVE  \E n \in 0..Len(es) : Skips(es, n)
<1>1. Len(es) \in Nat
  OBVIOUS
<1>2. PICK T : T = {n \in Nat : n = Len(es) \/ (n < Len(es) /\ StillIn(es[n + 1]))}
  OBVIOUS
<1>3. Len(es) \in T /\ T \subseteq Nat
  BY <1>1, <1>2
<1>4. PICK m \in T : \A k \in T : m <= k
  BY <1>3, LeastNatural
<1>5. m \in Nat /\ m <= Len(es) /\ (m < Len(es) => StillIn(es[m + 1]))
  BY <1>1, <1>2, <1>4
<1>6. \A k \in 1..m : ~StillIn(es[k])
  <2>1. TAKE k \in 1..m
  <2>2. PICK j \in Nat : j = k - 1 /\ j < m
    BY <1>5, <2>1
  <2>3. j \notin T
    BY <1>4, <1>5, <2>2
  <2>4. j < Len(es) /\ j + 1 = k
    BY <1>1, <1>5, <2>1, <2>2
  <2>5. QED
    BY <1>2, <2>2, <2>3, <2>4
<1>7. QED
  BY <1>1, <1>5, <1>6 DEF Skips

LEMMA RecentIs ==
  ASSUME NEW es \in Seq(Nat), NEW n \in 0..Len(es),
         n = CHOOSE m \in 0..Len(es) : Skips(es, m)
  PROVE  /\ Skips(es, n)
         /\ Recent(es) \in Seq(Nat) /\ Len(Recent(es)) = Len(es) - n
         /\ \A k \in 1..(Len(es) - n) : Recent(es)[k] = es[n + k]
<1>1. Skips(es, n)
  BY SkipsSome
<1>2. Recent(es) = SubSeq(es, 1 + n, Len(es))
  BY DEF Recent
<1>3. PICK l \in Nat, m \in Nat : l = Len(es) /\ m = 1 + n
  <2>1. Len(es) \in Nat
    OBVIOUS
  <2>2. n \in Nat
    BY <2>1
  <2>3. 1 + n \in Nat
    BY <2>2
  <2>4. QED
    BY <2>1, <2>3
<1>4. n \in Nat /\ n <= l /\ m \in Int /\ l \in Int /\ l - m + 1 = l - n
  BY <1>3
<1>5. \A i \in m..l : es[i] \in Nat
  BY <1>3
<1>6. /\ SubSeq(es, m, l) \in Seq(Nat)
      /\ Len(SubSeq(es, m, l)) = IF m <= l THEN l - m + 1 ELSE 0
      /\ \A i \in 1..(l - m + 1) : SubSeq(es, m, l)[i] = es[m + i - 1]
  <2>1. m \in Int /\ l \in Int
    BY <1>4
  <2>2. QED
    BY <1>5, <2>1, SubSeqProperties, SMTT(15)
<1>7. Len(SubSeq(es, m, l)) = l - n
  BY <1>3, <1>4, <1>6
<1>8. \A k \in 1..(l - n) : SubSeq(es, m, l)[k] = es[n + k]
  <2>1. TAKE k \in 1..(l - n)
  <2>2. SubSeq(es, m, l)[k] = es[m + k - 1]
    BY <1>4, <1>6, <2>1
  <2>3. m + k - 1 = n + k
    BY <1>3, <1>4, <2>1
  <2>4. QED
    BY <2>2, <2>3
<1>9. Recent(es) = SubSeq(es, m, l) /\ Len(es) - n = l - n
  BY <1>2, <1>3
<1>10. QED
  BY <1>1, <1>6, <1>7, <1>8, <1>9

LEMMA TrailingKeeps ==
  ASSUME RateInv, RateAssumption, CheckTrailing
  PROVE  RateInv'
<1>1. /\ RateShapes /\ TrailingHolds /\ WithinRate /\ limiter.strategy = "trailing"
      /\ UNCHANGED <<clock, limiter>> /\ clock \in Nat /\ limiter.limit \in Nat \ {0}
      /\ Len(admitted) \in Nat
      /\ counter \in [tokens : Nat, last : Nat, window : Nat, cur : Nat, prev : Nat, events : Seq(Nat)]
  BY AdmittedFacts DEF RateInv, CheckTrailing
<1>2. PICK w \in Nat : w = WindowMs /\ WindowMs' = w
  BY <1>1, WindowFacts
<1>3. PICK es \in Seq(Nat), L \in Nat, N \in Nat : es = counter.events /\ L = Len(es) /\ N = Len(admitted)
  BY <1>1
<1>4. PICK n \in 0..L : n = CHOOSE m \in 0..Len(es) : Skips(es, m)
  BY <1>3, SkipsSome
<1>5. PICK rs \in Seq(Nat), R \in Nat : rs = Recent(es) /\ R = L - n /\ R = Len(rs)
  <2>1. L - n \in Nat
    BY <1>3, <1>4
  <2>2. QED
    BY <1>3, <1>4, <2>1, RecentIs
<1>6. n \in Nat /\ n <= L /\ L <= N /\ L <= limiter.limit /\ R = L - n
  BY <1>1, <1>3, <1>4, <1>5 DEF TrailingHolds
<1>7. \A k \in 1..n : es[k] + w <= clock
  <2>1. TAKE k \in 1..n
  <2>2. ~StillIn(es[k])
    BY <1>3, <1>4, <2>1, RecentIs DEF Skips
  <2>3. es[k] \in Nat
    <3>1. k \in 1..L
      BY <1>6, <2>1
    <3>2. k \in 1..Len(es)
      BY <1>3, <3>1
    <3>3. QED
      BY <3>2
  <2>4. ~(es[k] + w > clock) /\ clock \in Nat
    BY <1>1, <1>2, <2>2 DEF StillIn
  <2>5. QED
    BY <2>3, <2>4
<1>8. PICK past \in Nat : past = N - R
  <2>1. N \in Nat /\ R \in Nat /\ R <= N
    BY <1>3, <1>5, <1>6
  <2>2. N - R \in Nat
    BY <2>1
  <2>3. QED
    BY <2>2
<1>20. past = N - R /\ R <= N /\ R <= L
  BY <1>5, <1>6, <1>8
<1>9. \A k \in 1..R : rs[k] = admitted[past + k]
  <2>1. TAKE k \in 1..R
  <2>2. rs[k] = es[n + k]
    <3>1. n \in 0..Len(es) /\ k \in 1..(Len(es) - n)
      BY <1>3, <1>4, <1>5, <2>1
    <3>2. QED
      BY <1>4, <1>5, <3>1, RecentIs
  <2>3. n + k \in 1..L /\ (N - L) + (n + k) = past + k
    BY <1>3, <1>5, <1>6, <1>8, <2>1
  <2>4. es[n + k] = admitted[(N - L) + (n + k)]
    BY <1>1, <1>3, <2>3 DEF TrailingHolds
  <2>5. QED
    BY <2>2, <2>3, <2>4
<1>10. \A i \in 1..past : admitted[i] + w <= clock
  <2>1. TAKE i \in 1..past
  <2>2. CASE i <= N - L
    <3>1. i \in 1..(N - L)
      BY <1>3, <1>6, <2>1, <2>2
    <3>2. QED
      BY <1>1, <1>2, <1>3, <3>1 DEF TrailingHolds
  <2>3. CASE i > N - L
    <3>1. i \in Int /\ i <= past /\ past = (N - L) + n
      BY <1>3, <1>5, <1>6, <1>8, <2>1
    <3>5. i - (N - L) \in 1..n
      BY <1>3, <1>6, <2>3, <3>1
    <3>6. PICK k \in 1..n : k = i - (N - L)
      BY <3>5
    <3>2. k \in 1..L /\ (N - L) + k = i
      <4>1. L \in Nat /\ N \in Nat /\ n \in Nat /\ n <= L
        BY <1>3, <1>6
      <4>2. k \in Int /\ 1 <= k /\ k <= n
        BY <3>6, <4>1
      <4>3. QED
        BY <3>1, <3>6, <4>1, <4>2
    <3>3. es[k] = admitted[(N - L) + k]
      BY <1>1, <1>3, <3>2 DEF TrailingHolds
    <3>4. QED
      BY <1>7, <3>2, <3>3
  <2>4. QED
    BY <1>3, <1>6, <1>8, <2>1, <2>2, <2>3
<1>11. /\ Verdict(Len(rs) < limiter.limit)
       /\ counter' = [counter EXCEPT !.events = IF Len(rs) < limiter.limit THEN Append(rs, clock) ELSE rs,
                                     !.last = clock]
  BY <1>3, <1>5 DEF CheckTrailing
<1>12. CASE R < limiter.limit
  <2>1. admitted' = Append(admitted, clock) /\ counter' = [counter EXCEPT !.events = Append(rs, clock), !.last = clock]
    BY <1>5, <1>11, <1>12 DEF Verdict
  <2>2. /\ Append(rs, clock) \in Seq(Nat) /\ Len(Append(rs, clock)) = R + 1 /\ Append(rs, clock)[R + 1] = clock
        /\ \A k \in 1..R : Append(rs, clock)[k] = rs[k]
    <3>1. rs \in Seq(Nat) /\ clock \in Nat /\ Len(rs) = R
      BY <1>1, <1>5
    <3>2. /\ Append(rs, clock) \in Seq(Nat) /\ Len(Append(rs, clock)) = Len(rs) + 1
          /\ Append(rs, clock)[Len(rs) + 1] = clock
          /\ \A k \in 1..Len(rs) : Append(rs, clock)[k] = rs[k]
      BY <3>1, AppendProperties
    <3>3. QED
      BY <3>1, <3>2
  <2>3. /\ counter' \in [tokens : Nat, last : Nat, window : Nat, cur : Nat, prev : Nat, events : Seq(Nat)]
        /\ counter'.last = clock /\ counter'.events = Append(rs, clock)
    BY <1>1, <2>1, <2>2
  <2>4. /\ RateShapes' /\ Len(admitted') = N + 1
        /\ \A i \in 1..N : admitted'[i] = admitted[i]
        /\ admitted'[N + 1] = clock
    <3>1. Verdict(TRUE)
      BY <2>1 DEF Verdict
    <3>2. QED
      BY <1>1, <1>3, <2>3, <3>1, Counts
  <2>5. TrailingHolds'
    <3>1. R + 1 <= limiter.limit /\ R + 1 <= N + 1 /\ (N + 1) - (R + 1) = past
      <4>1. PICK cap \in Nat : cap = limiter.limit
        BY <1>1
      <4>2. R < cap
        BY <1>12, <4>1
      <4>3. R + 1 <= cap /\ R + 1 <= N + 1 /\ (N + 1) - (R + 1) = past
        BY <1>20, <4>2
      <4>4. QED
        BY <4>1, <4>3
    <3>2. \A k \in 1..(R + 1) : Append(rs, clock)[k] = admitted'[past + k]
      <4>1. TAKE k \in 1..(R + 1)
      <4>2. CASE k \in 1..R
        <5>1. past + k \in 1..N
          BY <1>20, <4>2
        <5>2. QED
          BY <1>9, <2>2, <2>4, <4>2, <5>1
      <4>3. CASE k = R + 1
        <5>1. past + k = N + 1
          BY <1>20, <4>3
        <5>2. QED
          BY <2>2, <2>4, <4>3, <5>1
      <4>4. QED
        BY <1>5, <4>1, <4>2, <4>3
    <3>3. \A i \in 1..past : admitted'[i] + w <= clock
      <4>1. TAKE i \in 1..past
      <4>2. i \in 1..N
        BY <1>3, <1>5, <1>8, <4>1
      <4>3. QED
        BY <1>10, <2>4, <4>1, <4>2
    <3>4. PICK fs : fs = counter'.events /\ fs = Append(rs, clock)
      BY <2>3
    <3>5. Len(fs) = R + 1 /\ Len(admitted') - Len(fs) = past /\ Len(fs) <= limiter.limit /\ Len(fs) <= Len(admitted')
      BY <2>2, <2>4, <3>1, <3>4
    <3>6. \A k \in 1..Len(fs) : fs[k] = admitted'[past + k]
      BY <3>2, <3>4, <3>5
    <3>7. \A i \in 1..past : admitted'[i] + WindowMs' <= clock' /\ limiter' = limiter
      BY <1>1, <1>2, <3>3
    <3>8. QED
      BY <1>1, <3>4, <3>5, <3>6, <3>7 DEF TrailingHolds
  <2>6. WithinRate'
    <3>1. \A s : Bound(s) = limiter.limit
      BY <1>1 DEF Bound
    <3>2. ASSUME NEW i \in 1..Len(admitted), InReach(clock - admitted[i])
          PROVE  From(admitted, i) + 1 <= limiter.limit
      <4>1. admitted[i] \in Nat /\ clock - admitted[i] < w
        BY <1>1, <1>2, <3>2, AdmittedFacts DEF InReach
      <4>2. ~(i <= past)
        <5>1. SUFFICES ASSUME i <= past PROVE FALSE
          OBVIOUS
        <5>2. i \in 1..past
          BY <1>1, <3>2, <5>1
        <5>3. PICK a \in Nat, time \in Nat : a = admitted[i] /\ time = clock
          BY <1>1, <4>1
        <5>4. a + w <= time /\ time - a < w
          BY <1>10, <4>1, <5>2, <5>3
        <5>5. QED
          BY <1>2, <5>3, <5>4
      <4>3. From(admitted, i) = N - i + 1
        BY <1>3 DEF From
      <4>4. QED
        <5>1. PICK cap \in Nat : cap = limiter.limit
          BY <1>1
        <5>2. R < cap
          BY <1>12, <5>1
        <5>3. PICK m \in Nat : m = i
          BY <1>1, <3>2
        <5>4. ~(m <= past)
          BY <4>2, <5>3
        <5>5. N - m + 1 + 1 <= cap
          BY <1>20, <5>2, <5>4
        <5>6. QED
          BY <4>3, <5>1, <5>3, <5>5
    <3>3. 1 <= limiter.limit
      BY <1>1
    <3>4. QED
      BY <1>1, <2>1, <3>1, <3>2, <3>3, Newest
  <2>7. BucketHolds' /\ WindowsHold'
    BY <1>1 DEF BucketHolds, WindowsHold
  <2>8. QED
    BY <2>4, <2>5, <2>6, <2>7 DEF RateInv
<1>13. CASE ~(R < limiter.limit)
  <2>1. admitted' = admitted /\ counter' = [counter EXCEPT !.events = rs, !.last = clock]
    BY <1>5, <1>11, <1>13 DEF Verdict
  <2>2. /\ counter' \in [tokens : Nat, last : Nat, window : Nat, cur : Nat, prev : Nat, events : Seq(Nat)]
        /\ counter'.last = clock /\ counter'.events = rs
    BY <1>1, <1>5, <2>1
  <2>3. RateShapes'
    <3>1. Verdict(FALSE)
      BY <2>1 DEF Verdict
    <3>2. QED
      BY <1>1, <2>2, <3>1, Counts
  <2>4. TrailingHolds'
    <3>1. R <= limiter.limit /\ R <= N /\ N - R = past
      <4>1. PICK cap \in Nat : cap = limiter.limit
        BY <1>1
      <4>2. L <= cap
        BY <1>6, <4>1
      <4>3. R <= cap /\ R <= N /\ N - R = past
        BY <1>20, <4>2
      <4>4. QED
        BY <4>1, <4>3
    <3>2. QED
      <4>1. /\ Len(counter'.events) = R /\ counter'.events = rs /\ Len(admitted') = N
            /\ limiter' = limiter /\ clock' = clock
        BY <1>1, <1>3, <1>5, <2>1, <2>2
      <4>2. QED
        BY <1>2, <1>9, <1>10, <2>1, <3>1, <4>1 DEF TrailingHolds
  <2>5. WithinRate'
    BY <1>1, <2>1, Unchanging
  <2>6. BucketHolds' /\ WindowsHold'
    BY <1>1 DEF BucketHolds, WindowsHold
  <2>7. QED
    BY <2>3, <2>4, <2>5, <2>6 DEF RateInv
<1>14. QED
  BY <1>1, <1>5, <1>12, <1>13

-----------------------------------------------------------------------------
LEMMA ClockKeeps ==
  ASSUME RateInv, RateAssumption, ClockTicks
  PROVE  RateInv'
<1>1. /\ RateShapes /\ clock \in Nat /\ clock' = clock + 1 /\ UNCHANGED <<limiter, counter, admitted>>
      /\ BucketHolds /\ WindowsHold /\ TrailingHolds /\ WithinRate
  BY AdmittedFacts DEF RateInv, ClockTicks
<1>2. RateShapes'
  BY <1>1 DEF RateShapes
<1>3. WithinRate'
  BY <1>1, Unchanging
<1>4. BucketHolds'
  BY <1>1 DEF BucketHolds
<1>5. PICK w \in Nat : w = WindowMs /\ WindowMs' = w
  BY <1>1, WindowFacts
<1>6. WindowsHold'
  <2>1. CASE limiter.strategy \in {"fixed", "sliding"}
    <3>1. TwoWindows(counter) /\ counter.window * w \in Nat
      BY <1>1, <1>5, <2>1, AdmittedFacts DEF WindowsHold
    <3>2. counter.window * w <= clock'
      BY <1>1, <1>5, <3>1 DEF TwoWindows
    <3>3. QED
      BY <1>1, <1>5, <3>1, <3>2 DEF TwoWindows, WindowsHold
  <2>2. CASE ~(limiter.strategy \in {"fixed", "sliding"})
    BY <1>1, <2>2 DEF WindowsHold
  <2>3. QED
    BY <2>1, <2>2
<1>7. TrailingHolds'
  <2>1. CASE limiter.strategy = "trailing"
    <3>1. PICK past \in Nat : past = Len(admitted) - Len(counter.events) /\ past <= Len(admitted)
      <4>1. Len(counter.events) \in Nat /\ Len(counter.events) <= Len(admitted)
        BY <1>1, <2>1, AdmittedFacts DEF TrailingHolds
      <4>2. Len(admitted) \in Nat
        BY <1>1, AdmittedFacts
      <4>3. Len(admitted) - Len(counter.events) \in Nat /\ Len(admitted) - Len(counter.events) <= Len(admitted)
        BY <4>1, <4>2
      <4>4. QED
        BY <4>3
    <3>2. \A i \in 1..past : admitted[i] + w <= clock'
      <4>1. TAKE i \in 1..past
      <4>2. i \in 1..Len(admitted) /\ admitted[i] + w <= clock
        <5>1. admitted[i] + w <= clock
          BY <1>1, <1>5, <2>1, <3>1, <4>1 DEF TrailingHolds
        <5>2. Len(admitted) \in Nat
          BY <1>1, AdmittedFacts
        <5>3. QED
          BY <3>1, <4>1, <5>1, <5>2
      <4>3. admitted[i] \in Nat
        BY <1>1, <4>2, AdmittedFacts
      <4>4. QED
        BY <1>1, <1>5, <4>2, <4>3
    <3>3. QED
      BY <1>1, <1>5, <2>1, <3>1, <3>2 DEF TrailingHolds
  <2>2. CASE limiter.strategy # "trailing"
    BY <1>1, <2>2 DEF TrailingHolds
  <2>3. QED
    BY <2>1, <2>2
<1>8. QED
  BY <1>2, <1>3, <1>4, <1>6, <1>7 DEF RateInv

LEMMA RateInitially ==
  ASSUME RateInit, RateAssumption
  PROVE  RateInv
<1>1. clock = 0 /\ admitted = <<>> /\ Len(admitted) = 0 /\ admitted \in Seq(Nat)
  BY DEF RateInit
<1>2. PICK s \in Strategies, q \in Rules :
        limiter = [strategy |-> s, limit |-> Larger(1, q[1]), window |-> Larger(1, q[2])]
  BY DEF RateInit
<1>3. q[1] \in Nat /\ q[2] \in Nat /\ s \in {"fixed", "sliding", "bucket", "trailing"} /\ Milli \in Nat \ {0}
  BY <1>2 DEF RateAssumption
<1>4. PICK l \in Nat \ {0}, w \in Nat \ {0} : l = Larger(1, q[1]) /\ w = Larger(1, q[2])
  BY <1>3 DEF Larger
<1>5. limiter = [strategy |-> s, limit |-> l, window |-> w]
  BY <1>2, <1>4
<1>6. limiter.strategy = s /\ limiter.limit = l /\ limiter.window = w
      /\ limiter \in [strategy : {"fixed", "sliding", "bucket", "trailing"}, limit : Nat \ {0}, window : Nat \ {0}]
  BY <1>3, <1>5
<1>7. PICK full \in Nat : full = limiter.limit * Milli
  BY <1>3, <1>6
<1>8. counter = [tokens |-> full, last |-> 0, window |-> 0, cur |-> 0, prev |-> 0, events |-> <<>>]
  BY <1>7 DEF RateInit
<1>9. /\ counter \in [tokens : Nat, last : Nat, window : Nat, cur : Nat, prev : Nat, events : Seq(Nat)]
      /\ counter.last = 0 /\ counter.window = 0 /\ counter.cur = 0 /\ counter.prev = 0 /\ counter.events = <<>>
  BY <1>8
<1>10. RateShapes
  BY <1>1, <1>6, <1>9 DEF RateShapes
<1>11. BucketHolds /\ WithinRate
  BY <1>1 DEF BucketHolds, WithinRate
<1>12. WindowsHold
  <2>1. PICK ms \in Nat : ms = WindowMs
    BY <1>3, <1>6 DEF WindowMs
  <2>2. 0 * ms = 0
    BY <2>1
  <2>3. QED
    BY <1>1, <1>6, <1>9, <2>1, <2>2 DEF WindowsHold, TwoWindows
<1>13. TrailingHolds
  BY <1>1, <1>6, <1>9 DEF TrailingHolds
<1>14. QED
  BY <1>10, <1>11, <1>12, <1>13 DEF RateInv

LEMMA RateInductive ==
  ASSUME RateAssumption, RateInv, [RateNext]_rateVars
  PROVE  RateInv'
<1>1. CASE UNCHANGED rateVars
  <2>1. UNCHANGED <<clock, limiter, counter, admitted>>
    BY <1>1 DEF rateVars
  <2>2. RateShapes' /\ WithinRate'
    BY <2>1, Unchanging DEF RateInv, RateShapes
  <2>3. BucketHolds' /\ WindowsHold' /\ TrailingHolds'
    BY <2>1 DEF RateInv, BucketHolds, WindowsHold, TwoWindows, TrailingHolds, WindowMs
  <2>4. QED
    BY <2>2, <2>3 DEF RateInv
<1>2. QED
  BY <1>1, BucketKeeps, WindowKeeps, TrailingKeeps, ClockKeeps DEF RateNext
-----------------------------------------------------------------------------
(* Mails                                                                   *)
Mail == [at : Nat, to : Recipients, purpose : Purposes]

MailShapes ==
  /\ mailClock \in Nat \ {0}
  /\ dedup \in [Recipients \X Purposes -> [start : Nat, count : Nat]]
  /\ recipient \in [Recipients -> [start : Nat, count : Nat]]
  /\ minute \in [start : Nat, cur : Nat, prev : Nat]
  /\ day \in [start : Nat, cur : Nat, prev : Nat]
  /\ mails \in Seq(Mail)
  /\ \A i \in 1..Len(mails) : 1 <= mails[i].at /\ mails[i].at <= mailClock
  /\ \A i, k \in 1..Len(mails) : i <= k => mails[i].at <= mails[k].at

(* The two counts of a budget are of its window and of the one before it,  *)
(* and count at least what was sent.                                       *)
Budgeted(w, length, cap) ==
  /\ w.start <= mailClock
  /\ w.start = 0 => mails = <<>> /\ w.cur = 0 /\ w.prev = 0
  /\ cap # 0 => w.cur <= cap /\ w.prev <= cap
  /\ \A i \in 1..Len(mails) :
       /\ mails[i].at < w.start + length
       /\ mails[i].at >= w.start => From(mails, i) <= w.cur
       /\ mails[i].at + length >= w.start => From(mails, i) <= w.prev + w.cur

(* The bucket of a mail starts no earlier than the last that was sent.     *)
DedupHolds ==
  \A r \in Recipients, p \in Purposes : LET b == dedup[<<r, p>>] IN
    /\ b = NoBucket \/ b.count = 1
    /\ b.start <= mailClock
    /\ \A i \in 1..Len(mails) :
         mails[i].to = r /\ mails[i].purpose = p => b # NoBucket /\ mails[i].at <= b.start

(* Of the mails to a recipient, those in its bucket and those of the hour  *)
(* before are no more than its cap.                                        *)
Since(r, s)  == {k \in 1..Len(mails) : mails[k].to = r /\ mails[k].at >= s}
Before(r, s) == {k \in 1..Len(mails) : mails[k].to = r /\ mails[k].at < s /\ s < mails[k].at + Hour}

InBucket(r, b) ==
  /\ b.count <= Hourly /\ b.start <= mailClock
  /\ b = NoBucket => Since(r, 0) = {}
  /\ \A i \in 1..Len(mails) : mails[i].to = r => mails[i].at < b.start + Hour
  /\ Cardinality(Since(r, b.start)) <= b.count
  /\ Cardinality(Before(r, b.start)) <= Hourly

RecipientHolds == \A r \in Recipients : InBucket(r, recipient[r])

MailInv ==
  /\ MailShapes /\ DedupHolds /\ RecipientHolds /\ MailsWithinCaps
  /\ Budgeted(minute, Minute, PerMinute) /\ Budgeted(day, Day, PerDay)

Windows == [start : Nat, cur : Nat, prev : Nat]

LEMMA MailFacts ==
  ASSUME MailShapes
  PROVE  /\ mailClock \in Nat \ {0} /\ mails \in Seq(Mail) /\ Len(mails) \in Nat
         /\ \A i \in 1..Len(mails) : /\ mails[i] \in Mail /\ mails[i].at \in Nat \ {0}
                                     /\ mails[i].at <= mailClock /\ mails[i].to \in Recipients
                                     /\ From(mails, i) \in Nat
<1>1. mailClock \in Nat \ {0} /\ mails \in Seq(Mail) /\ Len(mails) \in Nat
  BY DEF MailShapes
<1>2. ASSUME NEW i \in 1..Len(mails)
      PROVE  /\ mails[i] \in Mail /\ mails[i].at \in Nat \ {0} /\ mails[i].at <= mailClock
             /\ mails[i].to \in Recipients /\ From(mails, i) \in Nat
  <2>1. PICK m \in Mail : m = mails[i]
    BY <1>1, <1>2
  <2>2. m.at \in Nat /\ m.to \in Recipients
    BY DEF Mail
  <2>3. From(mails, i) \in Nat
    BY <1>1, <1>2 DEF From
  <2>4. 1 <= mails[i].at /\ mails[i].at <= mailClock
    BY <1>2 DEF MailShapes
  <2>5. QED
    BY <2>1, <2>2, <2>3, <2>4
<1>3. QED
  BY <1>1, <1>2

(* A budget whose window has been moved to where the clock is.             *)
Moved(z, length) == z \in Windows /\ z.start # 0 /\ z.start <= mailClock /\ mailClock < z.start + length

LEMMA BudgetRolls ==
  ASSUME MailShapes, NEW w \in Windows, NEW length \in Nat \ {0}, NEW cap \in Nat, Budgeted(w, length, cap)
  PROVE  Moved(RolledOver(w, length), length) /\ Budgeted(RolledOver(w, length), length, cap)
<1>1. /\ w.start \in Nat /\ w.cur \in Nat /\ w.prev \in Nat /\ mailClock \in Nat \ {0} /\ Len(mails) \in Nat
      /\ w.start <= mailClock /\ (cap # 0 => w.cur <= cap /\ w.prev <= cap)
  BY MailFacts DEF Windows, Budgeted
<1>2. PICK delta \in Nat : delta = mailClock - w.start
  <2>1. mailClock - w.start \in Nat
    BY <1>1
  <2>2. QED
    BY <2>1
<1>3. \A i \in 1..Len(mails) :
        /\ mails[i].at \in Nat \ {0} /\ mails[i].at <= mailClock /\ From(mails, i) \in Nat
        /\ mails[i].at < w.start + length
        /\ mails[i].at >= w.start => From(mails, i) <= w.cur
        /\ mails[i].at + length >= w.start => From(mails, i) <= w.prev + w.cur
  BY MailFacts DEF Budgeted
<1>4. CASE w.start = 0
  <2>1. PICK z : z = [w EXCEPT !.start = mailClock]
    OBVIOUS
  <2>2. RolledOver(w, length) = z
    BY <1>4, <2>1 DEF RolledOver
  <2>3. z \in Windows /\ z.start = mailClock /\ z.cur = w.cur /\ z.prev = w.prev
    BY <1>1, <2>1 DEF Windows
  <2>4. mails = <<>> /\ w.cur = 0 /\ w.prev = 0
    BY <1>4 DEF Budgeted
  <2>5. Moved(z, length)
    BY <1>1, <2>3 DEF Moved
  <2>6. Budgeted(z, length, cap)
    BY <1>1, <2>3, <2>4 DEF Budgeted
  <2>7. QED
    BY <2>2, <2>5, <2>6
<1>5. CASE w.start # 0 /\ delta >= 2 * length
  <2>1. PICK z : z = [start |-> mailClock, cur |-> 0, prev |-> 0]
    OBVIOUS
  <2>2. RolledOver(w, length) = z
    BY <1>2, <1>5, <2>1 DEF RolledOver
  <2>3. z \in Windows /\ z.start = mailClock /\ z.cur = 0 /\ z.prev = 0
    BY <1>1, <2>1 DEF Windows
  <2>4. \A i \in 1..Len(mails) : ~(mails[i].at + length >= mailClock)
    <3>1. TAKE i \in 1..Len(mails)
    <3>2. PICK a \in Nat : a = mails[i].at /\ a < w.start + length
      BY <1>3, <3>1
    <3>3. PICK from \in Nat : from = w.start /\ mailClock = from + delta
      BY <1>1, <1>2
    <3>4. a < from + length /\ delta >= 2 * length
      BY <1>5, <3>2, <3>3
    <3>6. ~(a + length >= from + delta)
      BY <3>4
    <3>7. ~(a + length >= mailClock)
      BY <3>3, <3>6
    <3>8. QED
      BY <3>2, <3>7
  <2>5. Moved(z, length)
    BY <1>1, <2>3 DEF Moved
  <2>6. Budgeted(z, length, cap)
    <3>1. \A i \in 1..Len(mails) : mails[i].at < mailClock + length /\ ~(mails[i].at >= mailClock)
      BY <1>1, <1>3, <2>4
    <3>2. QED
      BY <1>1, <2>3, <2>4, <3>1 DEF Budgeted
  <2>7. QED
    BY <2>2, <2>5, <2>6
<1>6. CASE w.start # 0 /\ delta >= length /\ delta < 2 * length
  <2>1. PICK s \in Nat : s = w.start + length
    BY <1>1
  <2>2. PICK z : z = [start |-> s, cur |-> 0, prev |-> w.cur]
    OBVIOUS
  <2>3. RolledOver(w, length) = z
    BY <1>2, <1>6, <2>1, <2>2 DEF RolledOver
  <2>4. z \in Windows /\ z.start = s /\ z.cur = 0 /\ z.prev = w.cur
    BY <1>1, <2>1, <2>2 DEF Windows
  <2>5. s # 0 /\ s <= mailClock /\ mailClock < s + length
    <3>1. PICK from \in Nat, time \in Nat : from = w.start /\ time = mailClock
      BY <1>1
    <3>2. s = from + length /\ delta = time - from /\ delta >= length /\ delta < 2 * length /\ from # 0
      BY <1>2, <1>6, <2>1, <3>1
    <3>3. s # 0 /\ s <= time /\ time < s + length
      BY <3>2
    <3>4. QED
      BY <3>1, <3>3
  <2>6. \A i \in 1..Len(mails) :
          /\ mails[i].at < s + length /\ ~(mails[i].at >= s)
          /\ mails[i].at + length >= s => From(mails, i) <= w.cur + 0
    <3>1. TAKE i \in 1..Len(mails)
    <3>2. PICK a \in Nat, n \in Nat : a = mails[i].at /\ n = From(mails, i)
      BY <1>3, <3>1
    <3>3. a < w.start + length /\ (a >= w.start => n <= w.cur)
      BY <1>3, <3>1, <3>2
    <3>4. PICK from \in Nat : from = w.start /\ s = from + length
      BY <1>1, <2>1
    <3>5. a < from + length /\ (a >= from => n <= w.cur)
      BY <3>3, <3>4
    <3>6. a < s + length /\ ~(a >= s)
      <4>1. a < s /\ s <= s + length
        BY <3>4, <3>5
      <4>2. QED
        BY <4>1
    <3>7. a + length >= s => a >= from
      BY <2>1, <3>2, <3>4
    <3>8. a + length >= s => n <= w.cur + 0
      BY <1>1, <3>2, <3>5, <3>7
    <3>9. QED
      BY <3>2, <3>6, <3>8
  <2>7. Moved(z, length)
    BY <2>4, <2>5 DEF Moved
  <2>8. Budgeted(z, length, cap)
    BY <1>1, <2>4, <2>5, <2>6 DEF Budgeted
  <2>9. QED
    BY <2>3, <2>7, <2>8
<1>7. CASE w.start # 0 /\ delta < length
  <2>1. RolledOver(w, length) = w
    BY <1>2, <1>7 DEF RolledOver
  <2>2. mailClock < w.start + length
    BY <1>1, <1>2, <1>7
  <2>3. Moved(w, length)
    BY <1>1, <1>7, <2>2 DEF Moved
  <2>4. QED
    BY <2>1, <2>3
<1>8. QED
  BY <1>2, <1>4, <1>5, <1>6, <1>7

(* One more under a budget: every stretch that ends with it is within.     *)
LEMMA BudgetAdmits ==
  ASSUME MailShapes, NEW z, NEW length \in Nat \ {0}, NEW cap \in Nat \ {0},
         Moved(z, length), Budgeted(z, length, cap), Estimate(z, length) < cap
  PROVE  /\ z.cur < cap
         /\ \A i \in 1..Len(mails) : mailClock - mails[i].at < length =>
              From(mails, i) + 1 <= Sliding(cap, mailClock - mails[i].at, length)
<1>1. /\ z.start \in Nat /\ z.cur \in Nat /\ z.prev \in Nat /\ z.prev <= cap
      /\ mailClock \in Nat /\ Len(mails) \in Nat
  BY MailFacts DEF Moved, Windows, Budgeted
<1>2. PICK pos \in Nat : pos = mailClock - z.start /\ pos < length
  <2>1. z.start <= mailClock /\ mailClock < z.start + length
    BY DEF Moved
  <2>2. mailClock - z.start \in Nat /\ mailClock - z.start < length
    BY <1>1, <2>1
  <2>3. QED
    BY <2>2
<1>3. PICK weight \in Nat : weight = (z.prev * (length - pos)) \div length
  <2>1. length - pos \in Nat
    BY <1>2
  <2>2. z.prev * (length - pos) \in Nat
    BY <1>1, <2>1
  <2>3. QED
    BY <2>2, Division
<1>4. z.cur + weight < cap
  BY <1>2, <1>3 DEF Estimate
<1>5. z.cur < cap /\ z.cur + weight + 1 <= cap
  BY <1>1, <1>4
<1>6. ASSUME NEW i \in 1..Len(mails), mailClock - mails[i].at < length
      PROVE  From(mails, i) + 1 <= Sliding(cap, mailClock - mails[i].at, length)
  <2>1. PICK n \in Nat, a \in Nat, time \in Nat : n = From(mails, i) /\ a = mails[i].at /\ time = mailClock
    BY <1>1, <1>6, MailFacts
  <2>2. PICK from \in Nat, cur \in Nat, prev \in Nat : from = z.start /\ cur = z.cur /\ prev = z.prev
    BY <1>1
  <2>3. a <= time /\ from <= time /\ pos = time - from /\ time - a < length
    BY <1>2, <1>6, <2>1, <2>2, MailFacts DEF Moved
  <2>4. PICK s \in Nat : s = time - a
    <3>1. time - a \in Nat
      BY <2>3
    <3>2. QED
      BY <3>1
  <2>5. s = mailClock - mails[i].at
    BY <2>1, <2>4
  <2>6. a + s = time /\ from + pos = time /\ s < length
    BY <2>3, <2>4
  <2>7. (a >= from => n <= cur) /\ (a + length >= from => n <= prev + cur)
    BY <1>6, <2>1, <2>2 DEF Budgeted
  <2>8. cur + weight + 1 <= cap /\ prev <= cap
    BY <1>1, <1>5, <2>2
  <2>9. CASE a >= from
    <3>1. PICK extra \in Nat : Sliding(cap, s, length) = cap + extra
      <4>1. CASE s = 0
        BY <4>1 DEF Sliding
      <4>2. CASE s # 0
        <5>1. s - 1 \in Nat
          BY <4>2
        <5>2. PICK t \in Nat : t = s - 1
          BY <5>1
        <5>3. PICK extra \in Nat : extra = RoundedUp(cap * t, length)
          BY RoundedIsNat
        <5>4. Sliding(cap, s, length) = cap + extra
          BY <4>2, <5>2, <5>3 DEF Sliding, RoundedUp
        <5>5. QED
          BY <5>4
      <4>3. QED
        BY <4>1, <4>2
    <3>2. n <= cur
      BY <2>7, <2>9
    <3>3. n + 1 <= cap + extra
      BY <2>8, <3>2
    <3>4. QED
      BY <2>1, <2>5, <3>1, <3>3
  <2>10. CASE a < from
    <3>1. pos < s
      BY <2>6, <2>10
    <3>2. s # 0 /\ s - 1 \in Nat /\ pos <= s - 1
      BY <3>1
    <3>3. PICK t \in Nat : t = s - 1 /\ pos <= t
      BY <3>2
    <3>4. PICK extra \in Nat : extra = RoundedUp(cap * t, length)
      BY RoundedIsNat
    <3>5. Sliding(cap, s, length) = cap + extra
      BY <3>2, <3>3, <3>4 DEF Sliding, RoundedUp
    <3>6. prev <= weight + extra
      <4>1. pos <= length /\ pos <= t /\ prev <= cap
        BY <1>2, <2>8, <3>3
      <4>2. prev <= (prev * (length - pos)) \div length + RoundedUp(cap * t, length)
        BY <4>1, RoundsUp
      <4>3. QED
        BY <1>3, <2>2, <3>4, <4>2
    <3>7. n <= prev + cur
      <4>1. a + length >= from
        BY <2>6
      <4>2. QED
        BY <2>7, <4>1
    <3>8. n + 1 <= cap + extra
      BY <2>8, <3>6, <3>7
    <3>9. QED
      BY <2>1, <2>5, <3>5, <3>8
  <2>11. QED
    <3>1. a >= from \/ a < from
      OBVIOUS
    <3>2. QED
      BY <2>9, <2>10, <3>1
<1>7. QED
  BY <1>5, <1>6

-----------------------------------------------------------------------------
(* A mail that is sent now.                                                *)
Posts(r, p) == mailClock' = mailClock /\ mails' = Append(mails, [at |-> mailClock, to |-> r, purpose |-> p])

LEMMA PostFacts ==
  ASSUME MailShapes, NEW r \in Recipients, NEW p \in Purposes, Posts(r, p)
  PROVE  /\ Len(mails) \in Nat /\ Len(mails') = Len(mails) + 1 /\ mails' \in Seq(Mail)
         /\ \A i \in 1..Len(mails) : /\ mails'[i] = mails[i] /\ From(mails', i) = From(mails, i) + 1
                                     /\ i \in 1..Len(mails')
         /\ mails'[Len(mails) + 1] = [at |-> mailClock, to |-> r, purpose |-> p]
         /\ mails'[Len(mails) + 1].at = mailClock /\ mails'[Len(mails) + 1].to = r
         /\ mails'[Len(mails) + 1].purpose = p /\ From(mails', Len(mails) + 1) = 1
         /\ \A i \in 1..Len(mails') : i \in 1..Len(mails) \/ i = Len(mails) + 1
         /\ \A i \in 1..Len(mails') : 1 <= mails'[i].at /\ mails'[i].at <= mailClock'
         /\ \A i, k \in 1..Len(mails') : i <= k => mails'[i].at <= mails'[k].at
<1>1. mailClock \in Nat \ {0} /\ mails \in Seq(Mail) /\ Len(mails) \in Nat
  BY MailFacts
<1>2. PICK N \in Nat, m \in Mail : N = Len(mails) /\ m = [at |-> mailClock, to |-> r, purpose |-> p]
  BY <1>1 DEF Mail
<1>3. m.at = mailClock /\ m.to = r /\ m.purpose = p
  BY <1>2
<1>4. mails' = Append(mails, m) /\ mailClock' = mailClock
  BY <1>2 DEF Posts
<1>5. /\ mails' \in Seq(Mail) /\ Len(mails') = N + 1 /\ mails'[N + 1] = m
      /\ \A i \in 1..N : mails'[i] = mails[i]
  BY <1>1, <1>2, <1>4, AppendProperties
<1>6. \A i \in 1..N : From(mails', i) = From(mails, i) + 1 /\ i \in 1..(N + 1)
  BY <1>2, <1>5 DEF From
<1>7. From(mails', N + 1) = 1
  BY <1>2, <1>5 DEF From
<1>8. \A i \in 1..(N + 1) : i \in 1..N \/ i = N + 1
  BY <1>2
<1>9. \A i \in 1..(N + 1) : mails'[i].at \in Nat /\ 1 <= mails'[i].at /\ mails'[i].at <= mailClock
  <2>1. TAKE i \in 1..(N + 1)
  <2>2. CASE i \in 1..N
    <3>1. mails'[i] = mails[i] /\ mails[i].at \in Nat \ {0} /\ mails[i].at <= mailClock
      BY <1>2, <1>5, <2>2, MailFacts
    <3>2. QED
      BY <3>1
  <2>3. CASE i = N + 1
    BY <1>1, <1>3, <1>5, <2>3
  <2>4. QED
    BY <1>8, <2>1, <2>2, <2>3
<1>10. ASSUME NEW i \in 1..(N + 1), NEW k \in 1..(N + 1), i <= k
       PROVE  mails'[i].at <= mails'[k].at
  <2>1. CASE k = N + 1
    BY <1>3, <1>5, <1>9, <1>10, <2>1
  <2>2. CASE k \in 1..N
    <3>1. i \in 1..N
      BY <1>2, <1>10, <2>2
    <3>2. mails'[i] = mails[i] /\ mails'[k] = mails[k] /\ mails[i].at <= mails[k].at
      BY <1>2, <1>5, <1>10, <2>2, <3>1 DEF MailShapes
    <3>3. QED
      BY <3>2
  <2>3. QED
    BY <1>8, <1>10, <2>1, <2>2
<1>11. QED
  BY <1>2, <1>3, <1>4, <1>5, <1>6, <1>7, <1>8, <1>9, <1>10

LEMMA BudgetSpends ==
  ASSUME MailShapes, NEW r \in Recipients, NEW p \in Purposes, Posts(r, p) \/ UNCHANGED <<mailClock, mails>>,
         NEW z, NEW length \in Nat \ {0}, NEW cap \in Nat,
         Moved(z, length), Budgeted(z, length, cap), cap # 0 => z.cur < cap
  PROVE  LET n == [z EXCEPT !.cur = @ + 1] IN n \in Windows /\ Budgeted(n, length, cap)'
<1>1. PICK n : n = [z EXCEPT !.cur = @ + 1]
  OBVIOUS
<1>2. /\ z \in Windows /\ z.start \in Nat /\ z.cur \in Nat /\ z.prev \in Nat /\ z.start # 0
      /\ z.start <= mailClock /\ mailClock < z.start + length
      /\ mailClock \in Nat
  BY MailFacts DEF Moved, Windows
<1>3. n \in Windows /\ n.start = z.start /\ n.cur = z.cur + 1 /\ n.prev = z.prev
  BY <1>1, <1>2 DEF Windows
<1>4. cap # 0 => n.cur <= cap /\ n.prev <= cap
  BY <1>2, <1>3 DEF Budgeted
<1>5. mailClock' = mailClock
  BY DEF Posts
<1>6. ASSUME NEW i \in 1..Len(mails')
      PROVE  /\ mails'[i].at < n.start + length
             /\ mails'[i].at >= n.start => From(mails', i) <= n.cur
             /\ mails'[i].at + length >= n.start => From(mails', i) <= n.prev + n.cur
  <2>1. CASE i \in 1..Len(mails)
    <3>1. PICK k \in Nat : k = From(mails, i)
      BY <2>1, MailFacts
    <3>2. /\ mails[i].at < z.start + length
          /\ mails[i].at >= z.start => k <= z.cur
          /\ mails[i].at + length >= z.start => k <= z.prev + z.cur
      BY <2>1, <3>1 DEF Budgeted
    <3>3. mails'[i] = mails[i] /\ From(mails', i) \in {k, k + 1}
      BY <2>1, <3>1, PostFacts
    <3>4. PICK cur \in Nat, prev \in Nat, j \in Nat : cur = z.cur /\ prev = z.prev /\ j = From(mails', i)
      BY <1>2, <3>1, <3>3
    <3>5. n.cur = cur + 1 /\ n.prev = prev
      BY <1>3, <3>4
    <3>6. j = k \/ j = k + 1
      BY <3>3, <3>4
    <3>7. (k <= cur => j <= cur + 1) /\ (k <= prev + cur => j <= prev + (cur + 1))
      BY <3>6
    <3>8. QED
      BY <1>3, <3>2, <3>3, <3>4, <3>5, <3>7
  <2>2. CASE i \notin 1..Len(mails)
    <3>1. mails'[i].at = mailClock /\ From(mails', i) = 1
      BY <1>6, <2>2, PostFacts
    <3>2. QED
      BY <1>2, <1>3, <3>1
  <2>3. QED
    BY <2>1, <2>2
<1>7. QED
  BY <1>1, <1>2, <1>3, <1>4, <1>5, <1>6 DEF Budgeted

LEMMA BudgetStays ==
  ASSUME NEW z, NEW length, NEW cap, Budgeted(z, length, cap), UNCHANGED <<mailClock, mails>>
  PROVE  Budgeted(z, length, cap)'
BY DEF Budgeted

-----------------------------------------------------------------------------
(* The mails to one recipient                                              *)
LEMMA HourlyFacts ==
  ASSUME MailAssumption
  PROVE  Hourly \in Nat \ {0} /\ Hour \in Nat \ {0}
BY DEF Hourly, MailAssumption

LEMMA MailSets ==
  ASSUME MailShapes, NEW r, NEW s
  PROVE  /\ IsFiniteSet(Since(r, s)) /\ IsFiniteSet(Before(r, s))
         /\ Cardinality(Since(r, s)) \in Nat /\ Cardinality(Before(r, s)) \in Nat
<1>1. IsFiniteSet(1..Len(mails))
  BY FS_Interval, MailFacts
<1>2. Since(r, s) \subseteq 1..Len(mails) /\ Before(r, s) \subseteq 1..Len(mails)
  BY DEF Since, Before
<1>3. IsFiniteSet(Since(r, s)) /\ IsFiniteSet(Before(r, s))
  BY <1>1, <1>2, FS_Subset
<1>4. QED
  BY <1>3, FS_CardinalityType

(* Within an hour of now, a recipient got two hours' worth at most.        *)
LEMMA HourlyWorth ==
  ASSUME MailAssumption, MailShapes, RecipientHolds,
         recipient \in [Recipients -> [start : Nat, count : Nat]],
         NEW i \in 1..Len(mails), mailClock - mails[i].at < Hour
  PROVE  Cardinality({k \in i..Len(mails) : mails[k].to = mails[i].to}) <= 2 * Hourly
<1>1. PICK q \in Recipients : q = mails[i].to
  BY MailFacts
<1>2. PICK b \in [start : Nat, count : Nat] : b = recipient[q]
  OBVIOUS
<1>3. PICK s \in Nat, n \in Nat : s = b.start /\ n = b.count
  BY <1>2
<1>4. PICK S, A, B : S = {k \in i..Len(mails) : mails[k].to = q} /\ A = Since(q, s) /\ B = Before(q, s)
  OBVIOUS
<1>5. /\ n <= Hourly /\ s <= mailClock /\ Cardinality(A) <= n /\ Cardinality(B) <= Hourly
  BY <1>2, <1>3, <1>4 DEF RecipientHolds, InBucket
<1>6. /\ IsFiniteSet(A) /\ IsFiniteSet(B) /\ Cardinality(A) \in Nat /\ Cardinality(B) \in Nat
      /\ Hourly \in Nat /\ Hour \in Nat /\ mailClock \in Nat /\ Len(mails) \in Nat
  BY <1>4, MailSets, MailFacts, HourlyFacts
<1>7. S \subseteq A \cup B
  <2>1. SUFFICES ASSUME NEW k \in S PROVE k \in A \cup B
    OBVIOUS
  <2>2. k \in 1..Len(mails) /\ i <= k /\ mails[k].to = q
    BY <1>4, <1>6, <2>1
  <2>3. /\ mails[i].at \in Nat /\ mails[k].at \in Nat
        /\ mails[i].at <= mails[k].at /\ mailClock - mails[i].at < Hour
    BY <2>2, MailFacts DEF MailShapes
  <2>4. PICK x \in Nat, y \in Nat : x = mails[i].at /\ y = mails[k].at
    BY <2>3
  <2>5. x <= y /\ mailClock - x < Hour
    BY <2>3, <2>4
  <2>6. y >= s \/ (y < s /\ s < y + Hour)
    BY <1>3, <1>5, <1>6, <2>4, <2>5, AroundStart
  <2>7. CASE y >= s
    BY <1>4, <2>2, <2>4, <2>7 DEF Since
  <2>8. CASE y < s /\ s < y + Hour
    BY <1>4, <2>2, <2>4, <2>8 DEF Before
  <2>9. QED
    BY <2>6, <2>7, <2>8
<1>8. IsFiniteSet(A \cup B) /\ Cardinality(A \cup B) = Cardinality(A) + Cardinality(B) - Cardinality(A \cap B)
  BY <1>6, FS_Union
<1>9. Cardinality(A \cap B) \in Nat
  BY <1>6, FS_Intersection, FS_CardinalityType
<1>10. Cardinality(S) <= Cardinality(A \cup B) /\ Cardinality(S) \in Nat
  BY <1>7, <1>8, FS_Subset, FS_CardinalityType
<1>11. PICK ca \in Nat, cb \in Nat, ci \in Nat, cs \in Nat :
         ca = Cardinality(A) /\ cb = Cardinality(B) /\ ci = Cardinality(A \cap B) /\ cs = Cardinality(S)
  BY <1>6, <1>9, <1>10
<1>12. ca <= n /\ cb <= Hourly /\ cs <= ca + cb - ci
  BY <1>5, <1>8, <1>10, <1>11
<1>13. cs <= 2 * Hourly
  BY <1>3, <1>5, <1>6, <1>11, <1>12, TwoShares
<1>14. QED
  BY <1>1, <1>4, <1>11, <1>13

(* The mail at x is within h of s, and s is h or more past.                *)
LEMMA Outlived ==
  ASSUME NEW x \in Nat, NEW s \in Nat, NEW h \in Nat, NEW time \in Nat, s + h <= time
  PROVE  /\ x < s + h => x < time /\ x < time + h
         /\ time < x + h => x >= s
OBVIOUS

(* A time before another has not reached it.                               *)
LEMMA NotReached == ASSUME NEW x \in Nat, NEW time \in Nat, x < time PROVE ~(x >= time)
OBVIOUS

(* Everything is since the start of time.                                  *)
LEMMA FromStart == \A x \in Nat : x >= 0
OBVIOUS

(* The bucket of a recipient at the present time.                          *)
LEMMA BucketMoves ==
  ASSUME MailAssumption, MailShapes, NEW r \in Recipients, NEW b \in [start : Nat, count : Nat], InBucket(r, b)
  PROVE  LET c == BucketNow(b, Hour) IN
           /\ InBucket(r, c) /\ c \in [start : Nat, count : Nat] /\ mailClock < c.start + Hour
           /\ c = b \/ c.count = 0
<1>1. /\ b.start \in Nat /\ b.count \in Nat /\ mailClock \in Nat \ {0} /\ b.start <= mailClock
      /\ Hour \in Nat \ {0} /\ Hourly \in Nat \ {0} /\ b.count <= Hourly
  BY MailFacts, HourlyFacts DEF InBucket
<1>2. CASE b = NoBucket \/ mailClock - b.start >= Hour
  <2>1. PICK c : c = [start |-> mailClock, count |-> 0]
    OBVIOUS
  <2>13. b # NoBucket => b.start + Hour <= mailClock
    <3>1. SUFFICES ASSUME b # NoBucket PROVE b.start + Hour <= mailClock
      OBVIOUS
    <3>2. PICK x \in Nat, time \in Nat, h \in Nat : x = b.start /\ time = mailClock /\ h = Hour
      BY <1>1
    <3>3. time - x >= h
      BY <1>2, <3>1, <3>2
    <3>4. x + h <= time
      BY <3>2, <3>3
    <3>5. QED
      BY <3>2, <3>4
  <2>2. BucketNow(b, Hour) = c
    BY <1>2, <2>1 DEF BucketNow
  <2>3. c \in [start : Nat, count : Nat] /\ c.start = mailClock /\ c.count = 0
    BY <1>1, <2>1
  <2>14. b.start \in Nat /\ Hour \in Nat /\ mailClock \in Nat
    BY <1>1
  <2>4. ASSUME NEW i \in 1..Len(mails), mails[i].to = r
        PROVE  mails[i].at \in Nat /\ mails[i].at < mailClock /\ mails[i].at < mailClock + Hour
    <3>1. mails[i].at \in Nat /\ mails[i].at < b.start + Hour
      BY <2>4, MailFacts DEF InBucket
    <3>2. mails[i].at \in Nat
      BY <3>1
    <3>3. i \in Since(r, 0)
      BY <2>4, <3>2, FromStart DEF Since
    <3>4. b # NoBucket
      BY <3>3 DEF InBucket
    <3>5. b.start + Hour <= mailClock
      BY <2>13, <3>4
    <3>6. QED
      BY <2>14, <3>1, <3>5, Outlived, Zenon
  <2>5. Since(r, mailClock) = {}
    <3>1. ASSUME NEW i \in 1..Len(mails), mails[i].to = r PROVE ~(mails[i].at >= mailClock)
      <4>1. mails[i].at \in Nat /\ mails[i].at < mailClock
        BY <2>4, <3>1
      <4>2. QED
        BY <2>14, <4>1, NotReached, Zenon
    <3>2. QED
      BY <3>1 DEF Since
  <2>6. Before(r, mailClock) \subseteq Since(r, b.start)
    <3>1. SUFFICES ASSUME NEW i \in Before(r, mailClock) PROVE i \in Since(r, b.start)
      OBVIOUS
    <3>2. i \in 1..Len(mails) /\ mails[i].to = r /\ mailClock < mails[i].at + Hour
      BY <3>1 DEF Before
    <3>3. mails[i].at \in Nat
      BY <2>4, <3>2
    <3>4. i \in Since(r, 0)
      BY <3>2, <3>3, FromStart DEF Since
    <3>5. b # NoBucket
      BY <3>4 DEF InBucket
    <3>6. b.start + Hour <= mailClock
      BY <2>13, <3>5
    <3>7. mails[i].at >= b.start
      BY <2>14, <3>2, <3>3, <3>6, Outlived, Zenon
    <3>8. QED
      BY <3>2, <3>7 DEF Since
  <2>7. Cardinality(Since(r, mailClock)) <= 0
    BY <2>5, FS_EmptySet
  <2>8. Cardinality(Before(r, mailClock)) <= Hourly
    <3>1. Cardinality(Before(r, mailClock)) <= Cardinality(Since(r, b.start))
      BY <2>6, MailSets, FS_Subset
    <3>2. Cardinality(Since(r, b.start)) <= b.count
      BY DEF InBucket
    <3>3. Cardinality(Before(r, mailClock)) \in Nat /\ Cardinality(Since(r, b.start)) \in Nat
      BY MailSets
    <3>4. QED
      BY <1>1, <3>1, <3>2, <3>3
  <2>9. c # NoBucket
    BY <1>1, <2>3 DEF NoBucket
  <2>10. InBucket(r, c)
    <3>1. c.count <= Hourly /\ c.start <= mailClock
      BY <1>1, <2>3
    <3>2. \A i \in 1..Len(mails) : mails[i].to = r => mails[i].at < c.start + Hour
      BY <2>3, <2>4
    <3>3. Cardinality(Since(r, c.start)) <= c.count /\ Cardinality(Before(r, c.start)) <= Hourly
      BY <2>3, <2>7, <2>8
    <3>4. QED
      BY <2>9, <3>1, <3>2, <3>3 DEF InBucket
  <2>11. mailClock < c.start + Hour
    BY <1>1, <2>3
  <2>12. QED
    BY <2>2, <2>3, <2>10, <2>11
<1>3. CASE ~(b = NoBucket \/ mailClock - b.start >= Hour)
  <2>1. BucketNow(b, Hour) = b
    BY <1>3 DEF BucketNow
  <2>2. mailClock < b.start + Hour
    BY <1>1, <1>3
  <2>3. QED
    BY <2>1, <2>2
<1>4. QED
  BY <1>2, <1>3

Bucket == [start : Nat, count : Nat]

(* What a mail to `r' adds to what was sent to someone.                    *)
LEMMA PostSets ==
  ASSUME MailShapes, NEW r \in Recipients, NEW p \in Purposes, Posts(r, p),
         NEW q, NEW s \in Nat, s <= mailClock
  PROVE  /\ Before(q, s)' = Before(q, s) /\ Len(mails) + 1 \notin Since(q, s)
         /\ q # r => Since(q, s)' = Since(q, s)
         /\ q = r => Since(q, s)' = Since(q, s) \cup {Len(mails) + 1}
<1>1. PICK N \in Nat : N = Len(mails)
  BY MailFacts
<1>2. mailClock \in Nat /\ Len(mails') = N + 1 /\ mailClock' = mailClock
  BY <1>1, MailFacts, PostFacts DEF Posts
<1>3. \A i \in 1..N : mails'[i] = mails[i] /\ i \in 1..(N + 1)
  BY <1>1, PostFacts
<1>4. mails'[N + 1].at = mailClock /\ mails'[N + 1].to = r
  BY <1>1, PostFacts
<1>5. \A i \in 1..(N + 1) : i \in 1..N \/ i = N + 1
  BY <1>1
<1>6. N + 1 \notin 1..N /\ N + 1 \in 1..(N + 1)
  BY <1>1
<1>7. ~(mailClock < s) /\ mailClock >= s
  BY <1>2
<1>8. Before(q, s)' = Before(q, s)
  <2>1. ASSUME NEW k \in Before(q, s)' PROVE k \in Before(q, s)
    <3>1. k \in 1..(N + 1) /\ mails'[k].to = q /\ mails'[k].at < s /\ s < mails'[k].at + Hour
      BY <1>2, <2>1 DEF Before
    <3>2. k # N + 1
      BY <1>4, <1>7, <3>1
    <3>3. QED
      BY <1>1, <1>3, <1>5, <3>1, <3>2 DEF Before
  <2>2. ASSUME NEW k \in Before(q, s) PROVE k \in Before(q, s)'
    BY <1>1, <1>2, <1>3, <2>2 DEF Before
  <2>3. QED
    BY <2>1, <2>2
<1>9. Since(q, s) \subseteq Since(q, s)'
  BY <1>1, <1>2, <1>3 DEF Since
<1>10. ASSUME NEW k \in Since(q, s)', k # N + 1 PROVE k \in Since(q, s)
  BY <1>1, <1>2, <1>3, <1>5, <1>10 DEF Since
<1>11. N + 1 \notin Since(q, s)
  BY <1>1, <1>6 DEF Since
<1>12. CASE q # r
  <2>1. N + 1 \notin Since(q, s)'
    BY <1>4, <1>12 DEF Since
  <2>2. QED
    BY <1>1, <1>8, <1>9, <1>10, <1>11, <1>12, <2>1
<1>13. CASE q = r
  <2>1. N + 1 \in Since(q, s)'
    BY <1>2, <1>4, <1>6, <1>7, <1>13 DEF Since
  <2>2. QED
    BY <1>1, <1>8, <1>9, <1>10, <1>11, <1>13, <2>1
<1>14. QED
  BY <1>12, <1>13

LEMMA OthersKeep ==
  ASSUME MailShapes, NEW r \in Recipients, NEW p \in Purposes, Posts(r, p),
         NEW q, q # r, NEW b \in Bucket, InBucket(q, b)
  PROVE  InBucket(q, b)'
<1>1. b.start \in Nat /\ b.start <= mailClock /\ 0 \in Nat /\ 0 <= mailClock /\ mailClock' = mailClock
  BY MailFacts DEF InBucket, Bucket, Posts
<1>2. /\ Before(q, b.start)' = Before(q, b.start) /\ Since(q, b.start)' = Since(q, b.start)
      /\ Since(q, 0)' = Since(q, 0)
  BY <1>1, PostSets
<1>3. \A i \in 1..Len(mails') : mails'[i].to = q => mails'[i].at < b.start + Hour
  <2>1. TAKE i \in 1..Len(mails')
  <2>2. CASE i \in 1..Len(mails)
    BY <2>2, PostFacts DEF InBucket
  <2>3. CASE i \notin 1..Len(mails)
    BY <2>1, <2>3, PostFacts
  <2>4. QED
    BY <2>2, <2>3
<1>4. QED
  BY <1>1, <1>2, <1>3 DEF InBucket

LEMMA BucketTakes ==
  ASSUME MailAssumption, MailShapes, NEW r \in Recipients, NEW p \in Purposes, Posts(r, p),
         NEW c \in Bucket, InBucket(r, c), mailClock < c.start + Hour, c.count < Hourly,
         NEW n, n = [c EXCEPT !.count = @ + 1]
  PROVE  n \in Bucket /\ InBucket(r, n)'
<1>1. /\ c.start \in Nat /\ c.count \in Nat /\ c.start <= mailClock
      /\ mailClock' = mailClock /\ Hourly \in Nat /\ Hourly' = Hourly
  BY HourlyFacts DEF InBucket, Bucket, Posts, Hourly
<1>2. n \in Bucket /\ n.start = c.start /\ n.count = c.count + 1
  BY <1>1 DEF Bucket
<1>3. n # NoBucket
  BY <1>1, <1>2 DEF NoBucket
<1>4. PICK A, k : A = Since(r, c.start) /\ k = Len(mails) + 1
  OBVIOUS
<1>5. Before(r, c.start)' = Before(r, c.start) /\ k \notin A /\ Since(r, c.start)' = A \cup {k}
  BY <1>1, <1>4, PostSets
<1>6. IsFiniteSet(A) /\ Cardinality(A) \in Nat /\ Cardinality(A) <= c.count
  BY <1>4, MailSets DEF InBucket
<1>7. Cardinality(A \cup {k}) = Cardinality(A) + 1
  BY <1>5, <1>6, FS_AddElement
<1>8. Cardinality(A \cup {k}) <= n.count
  BY <1>1, <1>2, <1>6, <1>7
<1>9. Cardinality(Before(r, c.start)) <= Hourly
  BY DEF InBucket
<1>10. \A i \in 1..Len(mails') : mails'[i].to = r => mails'[i].at < n.start + Hour
  <2>1. TAKE i \in 1..Len(mails')
  <2>2. CASE i \in 1..Len(mails)
    BY <1>2, <2>2, PostFacts DEF InBucket
  <2>3. CASE i \notin 1..Len(mails)
    BY <1>2, <2>1, <2>3, PostFacts
  <2>4. QED
    BY <2>2, <2>3
<1>11. n.count <= Hourly /\ n.start <= mailClock'
  BY <1>1, <1>2
<1>12. QED
  BY <1>1, <1>2, <1>3, <1>5, <1>8, <1>9, <1>10, <1>11 DEF InBucket


(* The same of the state after a step.                                     *)
HourBounds ==
  \A i \in 1..Len(mails) : mailClock - mails[i].at < Hour =>
    Cardinality({k \in i..Len(mails) : mails[k].to = mails[i].to}) <= 2 * Hourly

LEMMA HourBounded == MailAssumption /\ MailShapes /\ RecipientHolds => HourBounds
<1>1. SUFFICES ASSUME MailAssumption, MailShapes, RecipientHolds PROVE HourBounds
  OBVIOUS
<1>2. recipient \in [Recipients -> [start : Nat, count : Nat]]
  BY <1>1 DEF MailShapes
<1>3. QED
  BY <1>1, <1>2, HourlyWorth DEF HourBounds

LEMMA HourBoundedNext == MailAssumption' /\ MailShapes' /\ RecipientHolds' => HourBounds'
BY HourBounded, PTL

LEMMA RecipientsKeep ==
  ASSUME MailAssumption, MailShapes, RecipientHolds, NEW r \in Recipients, NEW p \in Purposes,
         recipient' = [recipient EXCEPT ![r] = Counted(@, Hour, Hourly)],
         IF BucketAdmits(recipient[r], Hour, Hourly) THEN Posts(r, p) ELSE UNCHANGED <<mailClock, mails>>
  PROVE  recipient' \in [Recipients -> Bucket] /\ RecipientHolds'
<1>1. recipient \in [Recipients -> Bucket]
  BY DEF MailShapes, Bucket
<1>2. PICK b \in Bucket : b = recipient[r]
  BY <1>1
<1>3. PICK c : c = BucketNow(b, Hour)
  OBVIOUS
<1>4. InBucket(r, c) /\ c \in Bucket /\ mailClock < c.start + Hour
  BY <1>2, <1>3, BucketMoves DEF RecipientHolds, Bucket
<1>5. PICK n : n = Counted(b, Hour, Hourly)
  OBVIOUS
<1>6. recipient' = [recipient EXCEPT ![r] = n]
  BY <1>2, <1>5
<1>7. ASSUME n \in Bucket, InBucket(r, n)',
             NEW q \in Recipients, q # r => InBucket(q, recipient[q])'
      PROVE  recipient' \in [Recipients -> Bucket] /\ InBucket(q, recipient[q])'
  <2>1. recipient' \in [Recipients -> Bucket] /\ recipient'[r] = n
    BY <1>1, <1>6, <1>7
  <2>2. QED
    BY <1>7, <2>1
<1>8. CASE c.count < Hourly
  <2>1. Posts(r, p)
    BY <1>2, <1>3, <1>8 DEF BucketAdmits
  <2>2. n = [c EXCEPT !.count = @ + 1]
    BY <1>3, <1>5, <1>8 DEF Counted
  <2>3. n \in Bucket /\ InBucket(r, n)'
    BY <1>4, <1>8, <2>1, <2>2, BucketTakes
  <2>4. ASSUME NEW q \in Recipients PROVE q # r => InBucket(q, recipient[q])'
    <3>1. SUFFICES ASSUME q # r PROVE InBucket(q, recipient[q])'
      OBVIOUS
    <3>2. PICK d \in Bucket : d = recipient[q] /\ d = recipient'[q]
      BY <1>1, <1>6, <2>4, <3>1
    <3>3. InBucket(q, d)'
      BY <2>1, <2>4, <3>1, <3>2, OthersKeep DEF RecipientHolds
    <3>4. QED
      BY <3>2, <3>3
  <2>5. QED
    BY <1>7, <2>3, <2>4 DEF RecipientHolds
<1>9. CASE ~(c.count < Hourly)
  <2>1. UNCHANGED <<mailClock, mails>>
    BY <1>2, <1>3, <1>9 DEF BucketAdmits
  <2>2. n = c
    BY <1>3, <1>5, <1>9 DEF Counted
  <2>3. n \in Bucket /\ InBucket(r, n)'
    BY <1>4, <2>1, <2>2 DEF InBucket, Since, Before, Hourly
  <2>4. ASSUME NEW q \in Recipients PROVE q # r => InBucket(q, recipient[q])'
    <3>1. SUFFICES ASSUME q # r PROVE InBucket(q, recipient[q])'
      OBVIOUS
    <3>2. PICK d \in Bucket : d = recipient[q] /\ d = recipient'[q]
      BY <1>1, <1>6, <2>4, <3>1
    <3>3. InBucket(q, d)'
      BY <2>1, <2>4, <3>2 DEF RecipientHolds, InBucket, Since, Before, Hourly
    <3>4. QED
      BY <3>2, <3>3
  <2>5. QED
    BY <1>7, <2>3, <2>4 DEF RecipientHolds
<1>10. QED
  BY <1>8, <1>9

LEMMA RecipientsStay ==
  ASSUME RecipientHolds, UNCHANGED <<mailClock, mails, recipient>>
  PROVE  RecipientHolds'
BY DEF RecipientHolds, InBucket, Since, Before, Hourly

-----------------------------------------------------------------------------
(* Equal mails                                                             *)
Equal(i, r, p) == mails[i].to = r /\ mails[i].purpose = p

(* The bucket of a mail that is not held back is a new one, and the last   *)
(* equal mail is a window ago.                                             *)
LEMMA DedupAdmits ==
  ASSUME MailAssumption, MailShapes, DedupHolds, NEW r \in Recipients, NEW p \in Purposes,
         BucketAdmits(dedup[<<r, p>>], Dedup, 1)
  PROVE  /\ Counted(dedup[<<r, p>>], Dedup, 1) = [start |-> mailClock, count |-> 1]
         /\ \A i \in 1..Len(mails) : Equal(i, r, p) => mailClock - mails[i].at >= Dedup
<1>1. PICK b \in Bucket : b = dedup[<<r, p>>]
  BY DEF MailShapes, Bucket
<1>2. /\ b.start \in Nat /\ b.count \in Nat /\ mailClock \in Nat /\ Dedup \in Nat
      /\ b = NoBucket \/ b.count = 1
  BY <1>1, MailFacts DEF Bucket, DedupHolds, MailAssumption
<1>3. b = NoBucket \/ mailClock - b.start >= Dedup
  <2>1. SUFFICES ASSUME ~(b = NoBucket \/ mailClock - b.start >= Dedup) PROVE FALSE
    OBVIOUS
  <2>2. BucketNow(b, Dedup) = b
    BY <2>1 DEF BucketNow
  <2>3. b.count < 1
    BY <1>1, <2>2 DEF BucketAdmits
  <2>4. QED
    BY <1>2, <2>1, <2>3
<1>4. PICK c : c = [start |-> mailClock, count |-> 0]
  OBVIOUS
<1>5. BucketNow(b, Dedup) = c /\ c.count = 0
  BY <1>3, <1>4 DEF BucketNow
<1>6. Counted(b, Dedup, 1) = [c EXCEPT !.count = @ + 1]
  BY <1>5 DEF Counted
<1>7. [c EXCEPT !.count = @ + 1] = [start |-> mailClock, count |-> 1]
  BY <1>4
<1>8. ASSUME NEW i \in 1..Len(mails), Equal(i, r, p) PROVE mailClock - mails[i].at >= Dedup
  <2>1. b # NoBucket /\ mails[i].at <= b.start
    BY <1>1, <1>8 DEF DedupHolds, Equal
  <2>2. PICK x \in Nat, t \in Nat : x = mails[i].at /\ t = b.start
    BY <1>2, <1>8, MailFacts
  <2>3. x <= t /\ mailClock - t >= Dedup
    BY <1>3, <2>1, <2>2
  <2>4. mailClock - x >= Dedup
    BY <1>2, <2>2, <2>3, LongerAgo
  <2>5. QED
    BY <2>2, <2>4
<1>9. QED
  BY <1>1, <1>6, <1>7, <1>8

LEMMA DedupKeeps ==
  ASSUME MailAssumption, MailShapes, DedupHolds, NEW r \in Recipients, NEW p \in Purposes,
         dedup' = [dedup EXCEPT ![<<r, p>>] = Counted(@, Dedup, 1)],
         \/ BucketAdmits(dedup[<<r, p>>], Dedup, 1) /\ Posts(r, p)
         \/ UNCHANGED <<mailClock, mails>>
  PROVE  dedup' \in [Recipients \X Purposes -> Bucket] /\ DedupHolds'
<1>1. dedup \in [Recipients \X Purposes -> Bucket]
  BY DEF MailShapes, Bucket
<1>2. PICK k \in Recipients \X Purposes : k = <<r, p>>
  OBVIOUS
<1>3. PICK b \in Bucket : b = dedup[k]
  BY <1>1
<1>4. PICK n : n = Counted(b, Dedup, 1)
  OBVIOUS
<1>5. dedup' = [dedup EXCEPT ![k] = n]
  BY <1>2, <1>3, <1>4
<1>6. mailClock \in Nat /\ mailClock' = mailClock /\ mailClock # 0
  BY MailFacts DEF Posts
<1>7. n \in Bucket /\ (n = b \/ n = [start |-> mailClock, count |-> 1])
  <2>1. CASE BucketAdmits(dedup[<<r, p>>], Dedup, 1)
    <3>1. n = [start |-> mailClock, count |-> 1]
      BY <1>2, <1>3, <1>4, <2>1, DedupAdmits
    <3>2. QED
      BY <1>6, <3>1 DEF Bucket
  <2>2. CASE ~BucketAdmits(dedup[<<r, p>>], Dedup, 1)
    <3>1. ~(BucketNow(b, Dedup).count < 1)
      BY <1>2, <1>3, <2>2 DEF BucketAdmits
    <3>2. BucketNow(b, Dedup) = b
      BY <3>1 DEF BucketNow
    <3>3. n = b
      BY <1>4, <3>1, <3>2 DEF Counted
    <3>4. QED
      BY <3>3
  <2>3. QED
    BY <2>1, <2>2
<1>8. dedup' \in [Recipients \X Purposes -> Bucket] /\ dedup'[k] = n
  BY <1>1, <1>2, <1>5, <1>7
<1>9. ASSUME NEW q \in Recipients, NEW u \in Purposes
      PROVE  LET d == dedup[<<q, u>>] IN
               /\ (d = NoBucket \/ d.count = 1)'
               /\ (d.start <= mailClock)'
               /\ (\A i \in 1..Len(mails) : Equal(i, q, u) => d # NoBucket /\ mails[i].at <= d.start)'
  <2>1. PICK d \in Bucket, e \in Bucket : d = dedup[<<q, u>>] /\ e = dedup'[<<q, u>>]
    BY <1>1, <1>8, <1>9
  <2>2. /\ d = NoBucket \/ d.count = 1
        /\ d.start \in Nat /\ d.start <= mailClock
        /\ \A i \in 1..Len(mails) : Equal(i, q, u) => d # NoBucket /\ mails[i].at <= d.start
    BY <1>9, <2>1 DEF DedupHolds, Bucket, Equal
  <2>3. e = d \/ (e = [start |-> mailClock, count |-> 1] /\ <<q, u>> = k)
    <3>1. CASE <<q, u>> = k
      BY <1>3, <1>7, <1>8, <2>1, <3>1
    <3>2. CASE <<q, u>> # k
      BY <1>1, <1>5, <1>9, <2>1, <3>2
    <3>3. QED
      BY <3>1, <3>2
  <2>4. (e = NoBucket \/ e.count = 1) /\ e.start <= mailClock
    BY <1>6, <2>2, <2>3
  <2>5. ASSUME NEW i \in 1..Len(mails'), Equal(i, q, u)' PROVE e # NoBucket /\ mails'[i].at <= e.start
    <3>1. CASE mails' = mails \/ (Posts(r, p) /\ i \in 1..Len(mails))
      <4>1. i \in 1..Len(mails) /\ mails'[i] = mails[i]
        BY <2>5, <3>1, PostFacts
      <4>2. d # NoBucket /\ mails[i].at <= d.start /\ mails[i].at \in Nat /\ mails[i].at <= mailClock
        BY <2>2, <2>5, <4>1, MailFacts DEF Equal
      <4>3. CASE e = d
        BY <4>1, <4>2, <4>3
      <4>4. CASE e = [start |-> mailClock, count |-> 1]
        BY <4>1, <4>2, <4>4 DEF NoBucket
      <4>5. QED
        BY <2>3, <4>3, <4>4
    <3>2. CASE Posts(r, p) /\ i \notin 1..Len(mails)
      <4>1. mails'[i].at = mailClock /\ mails'[i].to = r /\ mails'[i].purpose = p
        BY <2>5, <3>2, PostFacts
      <4>2. <<q, u>> = k
        BY <1>2, <2>5, <4>1 DEF Equal
      <4>3. BucketAdmits(dedup[<<r, p>>], Dedup, 1)
        <5>1. mails' # mails
          <6>1. Len(mails') = Len(mails) + 1 /\ Len(mails) \in Nat
            BY <3>2, PostFacts
          <6>2. QED
            BY <6>1
        <5>2. QED
          BY <5>1
      <4>4. n = [start |-> mailClock, count |-> 1]
        BY <1>2, <1>3, <1>4, <4>3, DedupAdmits
      <4>5. e = n
        BY <1>8, <2>1, <4>2
      <4>6. QED
        BY <1>6, <4>1, <4>4, <4>5 DEF NoBucket
    <3>3. QED
      BY <3>1, <3>2
  <2>6. QED
    BY <1>6, <2>1, <2>4, <2>5
<1>10. QED
  BY <1>8, <1>9 DEF DedupHolds, Equal

-----------------------------------------------------------------------------
(* A mail that is sent makes no stretch of mails that is over a cap: those *)
(* that end before it are as they were, and it is the end of the others.   *)
Apart(i, j) ==
  LET span == mails[j].at - mails[i].at
  IN /\ PerMinute # 0 /\ span < Minute => j - i + 1 <= Sliding(PerMinute, span, Minute)
     /\ PerDay # 0 /\ span < Day => j - i + 1 <= Sliding(PerDay, span, Day)
     /\ span < Hour => Cardinality({k \in i..j : mails[k].to = mails[i].to}) <= 2 * Hourly
     /\ mails[i].to = mails[j].to /\ mails[i].purpose = mails[j].purpose => span >= Dedup

LEMMA CapsAreApart == MailsWithinCaps <=> \A i, j \in 1..Len(mails) : i < j => Apart(i, j)
BY DEF MailsWithinCaps, Apart

LEMMA CapsAreApartNext == MailsWithinCaps' <=> (\A i, j \in 1..Len(mails) : i < j => Apart(i, j))'
BY CapsAreApart, PTL

LEMMA ApartStays ==
  ASSUME NEW i, NEW j, Apart(i, j), UNCHANGED mails
  PROVE  Apart(i, j)'
BY DEF Apart, Sliding, Hourly

LEMMA CapsStay ==
  ASSUME MailsWithinCaps, UNCHANGED mails
  PROVE  MailsWithinCaps'
<1>1. ASSUME NEW i \in 1..Len(mails'), NEW j \in 1..Len(mails'), i < j PROVE Apart(i, j)'
  BY <1>1, CapsAreApart, ApartStays
<1>2. QED
  BY <1>1, CapsAreApartNext

LEMMA ShapesStay ==
  ASSUME MailShapes, UNCHANGED <<mails, mailClock>>,
         dedup' \in [Recipients \X Purposes -> Bucket], recipient' \in [Recipients -> Bucket],
         minute' \in Windows, day' \in Windows
  PROVE  MailShapes'
<1>1. dedup' \in [Recipients \X Purposes -> [start : Nat, count : Nat]]
  BY DEF Bucket
<1>2. QED
  BY <1>1 DEF MailShapes, Bucket, Windows, Mail

LEMMA OldApart ==
  ASSUME MailShapes, NEW r \in Recipients, NEW p \in Purposes, Posts(r, p),
         NEW i \in 1..Len(mails), NEW j \in 1..Len(mails), Apart(i, j)
  PROVE  Apart(i, j)'
<1>1. mails'[i] = mails[i] /\ mails'[j] = mails[j]
  BY PostFacts
<1>2. \A k \in i..j : mails'[k] = mails[k]
  <2>1. TAKE k \in i..j
  <2>2. k \in 1..Len(mails)
    BY <2>1, MailFacts
  <2>3. QED
    BY <2>2, PostFacts
<1>3. {k \in i..j : mails'[k].to = mails'[i].to} = {k \in i..j : mails[k].to = mails[i].to}
  BY <1>1, <1>2
<1>4. QED
  BY <1>1, <1>3 DEF Apart, Sliding, Hourly

(* The counts of a budget at the clock, before the mail is counted.        *)
LEMMA BudgetApart ==
  ASSUME MailShapes, NEW w \in Windows, NEW length \in Nat \ {0}, NEW cap \in Nat \ {0},
         Budgeted(w, length, cap), UnderCap(w, length, cap),
         NEW i \in 1..Len(mails), mailClock - mails[i].at < length
  PROVE  (Len(mails) + 1) - i + 1 <= Sliding(cap, mailClock - mails[i].at, length)
<1>1. PICK z : z = RolledOver(w, length)
  OBVIOUS
<1>2. Moved(z, length) /\ Budgeted(z, length, cap)
  BY <1>1, BudgetRolls
<1>3. Estimate(z, length) < cap
  BY <1>1 DEF UnderCap
<1>4. From(mails, i) + 1 <= Sliding(cap, mailClock - mails[i].at, length)
  BY <1>2, <1>3, BudgetAdmits
<1>5. (Len(mails) + 1) - i + 1 = From(mails, i) + 1
  BY MailFacts DEF From
<1>6. QED
  BY <1>4, <1>5

LEMMA NewApart ==
  ASSUME MailAssumption, MailShapes, MailShapes', DedupHolds, RecipientHolds',
         Budgeted(minute, Minute, PerMinute), Budgeted(day, Day, PerDay), WithinBudget,
         NEW r \in Recipients, NEW p \in Purposes, Posts(r, p), BucketAdmits(dedup[<<r, p>>], Dedup, 1),
         NEW i \in 1..Len(mails), NEW j, j = Len(mails) + 1
  PROVE  Apart(i, j)'
<1>1. j \in Nat
  BY MailFacts
<1>2. /\ mails'[j].at = mailClock /\ mails'[j].to = r /\ mails'[j].purpose = p
      /\ mails'[i] = mails[i] /\ Len(mails') = j /\ i \in 1..Len(mails') /\ mailClock' = mailClock
  BY <1>1, PostFacts DEF Posts
<1>3. /\ Minute \in Nat \ {0} /\ Day \in Nat \ {0} /\ PerMinute \in Nat /\ PerDay \in Nat
      /\ minute \in Windows /\ day \in Windows
  BY DEF MailAssumption, MailShapes, Windows
<1>4. PICK span : span = mailClock - mails[i].at /\ span = mails'[j].at - mails'[i].at
  BY <1>2
<1>5. PerMinute # 0 /\ span < Minute => j - i + 1 <= Sliding(PerMinute, span, Minute)
  <2>1. SUFFICES ASSUME PerMinute # 0, span < Minute PROVE j - i + 1 <= Sliding(PerMinute, span, Minute)
    OBVIOUS
  <2>2. UnderCap(minute, Minute, PerMinute) /\ PerMinute \in Nat \ {0}
    BY <1>3, <2>1 DEF WithinBudget
  <2>3. QED
    BY <1>1, <1>3, <1>4, <2>1, <2>2, BudgetApart
<1>6. PerDay # 0 /\ span < Day => j - i + 1 <= Sliding(PerDay, span, Day)
  <2>1. SUFFICES ASSUME PerDay # 0, span < Day PROVE j - i + 1 <= Sliding(PerDay, span, Day)
    OBVIOUS
  <2>2. UnderCap(day, Day, PerDay) /\ PerDay \in Nat \ {0}
    BY <1>3, <2>1 DEF WithinBudget
  <2>3. QED
    BY <1>1, <1>3, <1>4, <2>1, <2>2, BudgetApart
<1>7. span < Hour => Cardinality({k \in i..j : mails'[k].to = mails'[i].to}) <= 2 * Hourly
  <2>1. HourBounds'
    BY HourBoundedNext
  <2>2. mailClock' - mails'[i].at < Hour =>
          Cardinality({k \in i..Len(mails') : mails'[k].to = mails'[i].to}) <= 2 * Hourly
    BY <1>2, <2>1 DEF HourBounds, Hourly
  <2>3. QED
    BY <1>2, <1>4, <2>2
<1>8. mails'[i].to = mails'[j].to /\ mails'[i].purpose = mails'[j].purpose => span >= Dedup
  BY <1>2, <1>4, DedupAdmits DEF Equal
<1>9. QED
  BY <1>4, <1>5, <1>6, <1>7, <1>8 DEF Apart, Sliding, Hourly

LEMMA CapsKeep ==
  ASSUME MailAssumption, MailShapes, MailShapes', DedupHolds, RecipientHolds', MailsWithinCaps,
         Budgeted(minute, Minute, PerMinute), Budgeted(day, Day, PerDay), WithinBudget,
         NEW r \in Recipients, NEW p \in Purposes, Posts(r, p), BucketAdmits(dedup[<<r, p>>], Dedup, 1)
  PROVE  MailsWithinCaps'
<1>1. ASSUME NEW i \in 1..Len(mails'), NEW j \in 1..Len(mails'), i < j PROVE Apart(i, j)'
  <2>1. PICK N \in Nat : N = Len(mails) /\ Len(mails') = N + 1
    BY PostFacts
  <2>2. i \in 1..N
    BY <1>1, <2>1
  <2>3. CASE j \in 1..N
    <3>1. Apart(i, j)
      BY <1>1, <2>1, <2>2, <2>3, CapsAreApart
    <3>2. QED
      BY <2>1, <2>2, <2>3, <3>1, OldApart
  <2>4. CASE j = N + 1
    <3>1. i \in 1..Len(mails) /\ j = Len(mails) + 1
      BY <2>1, <2>2, <2>4
    <3>2. QED
      BY <3>1, NewApart
  <2>5. j \in 1..N \/ j = N + 1
    BY <1>1, <2>1
  <2>6. QED
    BY <2>3, <2>4, <2>5
<1>2. QED
  BY <1>1, CapsAreApartNext

-----------------------------------------------------------------------------
(* Steps                                                                   *)
LEMMA Admission ==
  ASSUME NEW bucket, NEW length, NEW limit
  PROVE  BucketAdmits(bucket, length, limit) \in BOOLEAN
BY DEF BucketAdmits

LEMMA MailSendKeeps ==
  ASSUME MailAssumption, MailInv, NEW r \in Recipients, NEW p \in Purposes, SendMail(r, p)
  PROVE  MailInv'
<1>1. /\ MailShapes /\ DedupHolds /\ RecipientHolds /\ MailsWithinCaps
      /\ Budgeted(minute, Minute, PerMinute) /\ Budgeted(day, Day, PerDay)
      /\ minute \in Windows /\ day \in Windows
  BY DEF MailInv, MailShapes, Windows
<1>2. /\ Minute \in Nat \ {0} /\ Day \in Nat \ {0} /\ PerMinute \in Nat /\ PerDay \in Nat
  BY DEF MailAssumption
<1>3. PICK admits \in BOOLEAN, within \in BOOLEAN, room \in BOOLEAN :
        /\ admits <=> BucketAdmits(dedup[<<r, p>>], Dedup, 1)
        /\ within <=> WithinBudget
        /\ room <=> BucketAdmits(recipient[r], Hour, Hourly)
  OBVIOUS
<1>4. dedup' = [dedup EXCEPT ![<<r, p>>] = Counted(@, Dedup, 1)] /\ mailClock' = mailClock
  BY DEF SendMail
<1>5. ASSUME NEW z, NEW y, z = RolledOver(minute, Minute), y = RolledOver(day, Day)
      PROVE  /\ Moved(z, Minute) /\ Budgeted(z, Minute, PerMinute) /\ z \in Windows
             /\ Moved(y, Day) /\ Budgeted(y, Day, PerDay) /\ y \in Windows
             /\ within => /\ PerMinute # 0 => z.cur < PerMinute
                          /\ PerDay # 0 => y.cur < PerDay
  <2>1. /\ Moved(z, Minute) /\ Budgeted(z, Minute, PerMinute) /\ z \in Windows
        /\ Moved(y, Day) /\ Budgeted(y, Day, PerDay) /\ y \in Windows
    BY <1>1, <1>2, <1>5, BudgetRolls DEF Moved
  <2>2. ASSUME within, PerMinute # 0 PROVE z.cur < PerMinute
    <3>1. Estimate(z, Minute) < PerMinute /\ PerMinute \in Nat \ {0}
      BY <1>2, <1>3, <1>5, <2>2 DEF WithinBudget, UnderCap
    <3>2. QED
      BY <1>1, <1>2, <2>1, <3>1, BudgetAdmits
  <2>3. ASSUME within, PerDay # 0 PROVE y.cur < PerDay
    <3>1. Estimate(y, Day) < PerDay /\ PerDay \in Nat \ {0}
      BY <1>2, <1>3, <1>5, <2>3 DEF WithinBudget, UnderCap
    <3>2. QED
      BY <1>1, <1>2, <2>1, <3>1, BudgetAdmits
  <2>4. QED
    BY <2>1, <2>2, <2>3
<1>6. CASE ~admits
  <2>1. MailStatus(r, p) = "Deduped"
    BY <1>3, <1>6 DEF MailStatus
  <2>2. UNCHANGED <<mails, minute, day, recipient>>
    BY <2>1 DEF SendMail
  <2>3. dedup' \in [Recipients \X Purposes -> Bucket] /\ DedupHolds'
    BY <1>1, <1>4, <2>2, DedupKeeps
  <2>4. MailShapes' /\ MailsWithinCaps'
    <3>1. recipient' \in [Recipients -> Bucket] /\ minute' \in Windows /\ day' \in Windows
      BY <1>1, <2>2 DEF MailShapes, Bucket
    <3>2. QED
      BY <1>1, <1>4, <2>2, <2>3, <3>1, ShapesStay, CapsStay
  <2>5. RecipientHolds' /\ Budgeted(minute, Minute, PerMinute)' /\ Budgeted(day, Day, PerDay)'
    BY <1>1, <1>4, <2>2, RecipientsStay DEF Budgeted, From
  <2>6. QED
    BY <2>3, <2>4, <2>5 DEF MailInv
<1>7. CASE admits /\ ~within
  <2>1. MailStatus(r, p) = "Budget"
    BY <1>3, <1>7 DEF MailStatus
  <2>2. UNCHANGED <<mails, recipient>> /\ minute' = RolledOver(minute, Minute) /\ day' = RolledOver(day, Day)
    BY <2>1 DEF SendMail
  <2>3. dedup' \in [Recipients \X Purposes -> Bucket] /\ DedupHolds'
    BY <1>1, <1>4, <2>2, DedupKeeps
  <2>4. PICK z, y : z = RolledOver(minute, Minute) /\ y = RolledOver(day, Day)
    OBVIOUS
  <2>5. z \in Windows /\ y \in Windows /\ Budgeted(z, Minute, PerMinute) /\ Budgeted(y, Day, PerDay)
    BY <1>5, <2>4
  <2>6. Budgeted(minute, Minute, PerMinute)' /\ Budgeted(day, Day, PerDay)'
    BY <1>4, <2>2, <2>4, <2>5 DEF Budgeted, From
  <2>7. MailShapes' /\ MailsWithinCaps'
    <3>1. recipient' \in [Recipients -> Bucket] /\ minute' \in Windows /\ day' \in Windows
      BY <1>1, <2>2, <2>4, <2>5 DEF MailShapes, Bucket
    <3>2. QED
      BY <1>1, <1>4, <2>2, <2>3, <3>1, ShapesStay, CapsStay
  <2>8. RecipientHolds'
    BY <1>1, <1>4, <2>2, RecipientsStay
  <2>9. QED
    BY <2>3, <2>6, <2>7, <2>8 DEF MailInv
<1>8. CASE admits /\ within
  <2>1. MailStatus(r, p) = IF room THEN "Sent" ELSE "RecipientCapped"
    BY <1>3, <1>8 DEF MailStatus
  <2>2. /\ minute' = Spent(minute, Minute) /\ day' = Spent(day, Day)
        /\ recipient' = [recipient EXCEPT ![r] = Counted(@, Hour, Hourly)]
    BY <2>1 DEF SendMail
  <2>3. IF room THEN Posts(r, p) ELSE UNCHANGED <<mailClock, mails>>
    BY <1>4, <2>1 DEF SendMail, Posts
  <2>4. Posts(r, p) \/ UNCHANGED <<mailClock, mails>>
    BY <2>3
  <2>5. dedup' \in [Recipients \X Purposes -> Bucket] /\ DedupHolds'
    BY <1>1, <1>3, <1>4, <1>8, <2>4, DedupKeeps
  <2>6. recipient' \in [Recipients -> Bucket] /\ RecipientHolds'
    BY <1>1, <1>3, <2>2, <2>3, RecipientsKeep
  <2>7. PICK z, y : z = RolledOver(minute, Minute) /\ y = RolledOver(day, Day)
    OBVIOUS
  <2>8. PICK m, d : m = [z EXCEPT !.cur = @ + 1] /\ d = [y EXCEPT !.cur = @ + 1]
    OBVIOUS
  <2>9. minute' = m /\ day' = d
    BY <2>2, <2>7, <2>8 DEF Spent
  <2>10. m \in Windows /\ Budgeted(m, Minute, PerMinute)'
    BY <1>1, <1>2, <1>5, <1>8, <2>4, <2>7, <2>8, BudgetSpends
  <2>11. d \in Windows /\ Budgeted(d, Day, PerDay)'
    BY <1>1, <1>2, <1>5, <1>8, <2>4, <2>7, <2>8, BudgetSpends
  <2>12. Budgeted(minute, Minute, PerMinute)' /\ Budgeted(day, Day, PerDay)'
    BY <2>9, <2>10, <2>11 DEF Budgeted
  <2>13. /\ mails' \in Seq(Mail)
         /\ \A i \in 1..Len(mails') : 1 <= mails'[i].at /\ mails'[i].at <= mailClock'
         /\ \A i, k \in 1..Len(mails') : i <= k => mails'[i].at <= mails'[k].at
    <3>1. CASE Posts(r, p)
      BY <1>1, <3>1, PostFacts
    <3>2. CASE UNCHANGED <<mailClock, mails>>
      BY <1>1, <3>2 DEF MailShapes
    <3>3. QED
      BY <2>4, <3>1, <3>2
  <2>14. MailShapes'
    BY <1>1, <1>4, <2>5, <2>6, <2>9, <2>10, <2>11, <2>13 DEF MailShapes, Bucket, Windows, Mail
  <2>15. MailsWithinCaps'
    <3>1. CASE Posts(r, p)
      BY <1>1, <1>3, <1>8, <2>6, <2>14, <3>1, CapsKeep
    <3>2. CASE UNCHANGED <<mailClock, mails>>
      BY <1>1, <3>2, CapsStay
    <3>3. QED
      BY <2>4, <3>1, <3>2
  <2>16. QED
    BY <2>5, <2>6, <2>12, <2>14, <2>15 DEF MailInv
<1>9. QED
  BY <1>6, <1>7, <1>8

LEMMA MailTicks ==
  ASSUME MailInv, MailClockTicks
  PROVE  MailInv'
<1>1. /\ MailShapes /\ DedupHolds /\ RecipientHolds /\ MailsWithinCaps
      /\ Budgeted(minute, Minute, PerMinute) /\ Budgeted(day, Day, PerDay)
  BY DEF MailInv
<1>2. /\ mailClock' = mailClock + 1 /\ mailClock \in Nat \ {0}
      /\ UNCHANGED <<dedup, recipient, minute, day, mails>>
  BY <1>1, MailFacts DEF MailClockTicks
<1>3. MailShapes'
  <2>1. \A i \in 1..Len(mails) : 1 <= mails[i].at /\ mails[i].at <= mailClock + 1
    <3>1. TAKE i \in 1..Len(mails)
    <3>2. PICK x \in Nat : x = mails[i].at /\ 1 <= x /\ x <= mailClock
      BY <1>1, <3>1, MailFacts
    <3>3. QED
      BY <1>2, <3>2
  <2>2. mailClock' \in Nat \ {0} /\ mails' = mails /\ mails' \in Seq(Mail)
    BY <1>1, <1>2 DEF MailShapes, Mail
  <2>3. /\ dedup' \in [Recipients \X Purposes -> [start : Nat, count : Nat]]
        /\ recipient' \in [Recipients -> [start : Nat, count : Nat]]
        /\ minute' \in [start : Nat, cur : Nat, prev : Nat] /\ day' \in [start : Nat, cur : Nat, prev : Nat]
    BY <1>1, <1>2 DEF MailShapes
  <2>4. \A i, k \in 1..Len(mails) : i <= k => mails[i].at <= mails[k].at
    BY <1>1 DEF MailShapes
  <2>5. QED
    BY <1>2, <2>1, <2>2, <2>3, <2>4 DEF MailShapes, Mail
<1>4. /\ minute.start \in Nat /\ day.start \in Nat
      /\ minute.start <= mailClock /\ day.start <= mailClock
  BY <1>1 DEF MailShapes, Budgeted
<1>5. Budgeted(minute, Minute, PerMinute)' /\ Budgeted(day, Day, PerDay)'
  <2>1. minute.start <= mailClock + 1 /\ day.start <= mailClock + 1
    BY <1>2, <1>4
  <2>2. QED
    BY <1>1, <1>2, <2>1 DEF Budgeted, From
<1>6. DedupHolds'
  <2>1. ASSUME NEW r \in Recipients, NEW p \in Purposes PROVE dedup[<<r, p>>].start <= mailClock + 1
    <3>1. PICK x \in Nat : x = dedup[<<r, p>>].start
      BY <1>1 DEF MailShapes
    <3>2. x <= mailClock
      BY <1>1, <3>1 DEF DedupHolds
    <3>3. QED
      BY <1>2, <3>1, <3>2
  <2>2. QED
    BY <1>1, <1>2, <2>1 DEF DedupHolds
<1>7. RecipientHolds'
  <2>1. ASSUME NEW r \in Recipients PROVE recipient[r].start <= mailClock + 1
    <3>1. PICK x \in Nat : x = recipient[r].start
      BY <1>1 DEF MailShapes
    <3>2. x <= mailClock
      BY <1>1, <3>1 DEF RecipientHolds, InBucket
    <3>3. QED
      BY <1>2, <3>1, <3>2
  <2>2. QED
    BY <1>1, <1>2, <2>1 DEF RecipientHolds, InBucket, Since, Before, Hourly
<1>8. MailsWithinCaps'
  BY <1>1, <1>2, CapsStay
<1>9. QED
  BY <1>3, <1>5, <1>6, <1>7, <1>8 DEF MailInv

LEMMA MailInitially ==
  ASSUME MailAssumption, MailInit
  PROVE  MailInv
<1>1. /\ mailClock = 1 /\ mails = <<>> /\ minute = [start |-> 0, cur |-> 0, prev |-> 0] /\ day = minute
      /\ dedup = [m \in Recipients \X Purposes |-> NoBucket]
      /\ recipient = [r \in Recipients |-> NoBucket]
  BY DEF MailInit
<1>2. NoBucket \in Bucket /\ NoBucket.start = 0 /\ NoBucket.count = 0
  BY DEF Bucket, NoBucket
<1>3. /\ Len(mails) = 0 /\ mails \in Seq(Mail) /\ 1..Len(mails) = {}
  BY <1>1
<1>4. MailShapes
  BY <1>1, <1>2, <1>3 DEF MailShapes, Bucket
<1>5. Budgeted(minute, Minute, PerMinute) /\ Budgeted(day, Day, PerDay)
  BY <1>1, <1>3 DEF Budgeted, MailAssumption
<1>6. DedupHolds
  <2>1. ASSUME NEW r \in Recipients, NEW p \in Purposes PROVE dedup[<<r, p>>] = NoBucket
    BY <1>1
  <2>2. \A i \in 1..Len(mails) : FALSE
    BY <1>3
  <2>3. NoBucket.start <= mailClock
    BY <1>1, <1>2
  <2>4. QED
    BY <2>1, <2>2, <2>3 DEF DedupHolds
<1>7. RecipientHolds
  <2>1. SUFFICES ASSUME NEW r \in Recipients PROVE InBucket(r, recipient[r])
    BY DEF RecipientHolds
  <2>2. recipient[r] = NoBucket
    BY <1>1
  <2>3. Since(r, 0) = {} /\ Before(r, 0) = {} /\ Cardinality({}) = 0
    BY <1>3, FS_EmptySet DEF Since, Before
  <2>4. \A i \in 1..Len(mails) : FALSE
    BY <1>3
  <2>5. 0 <= mailClock /\ Hourly \in Nat /\ 0 <= Hourly
    BY <1>1, HourlyFacts
  <2>6. InBucket(r, NoBucket)
    <3>1. PICK b : b = NoBucket
      OBVIOUS
    <3>2. b.start = 0 /\ b.count = 0
      BY <1>2, <3>1
    <3>3. Cardinality(Since(r, b.start)) = 0 /\ Cardinality(Before(r, b.start)) = 0
      BY <2>3, <3>2
    <3>4. InBucket(r, b)
      BY <2>3, <2>4, <2>5, <3>2, <3>3 DEF InBucket
    <3>5. QED
      BY <3>1, <3>4
  <2>7. QED
    BY <2>2, <2>6
<1>8. MailsWithinCaps
  BY <1>3 DEF MailsWithinCaps
<1>9. QED
  BY <1>4, <1>5, <1>6, <1>7, <1>8 DEF MailInv

LEMMA MailInductive ==
  ASSUME MailAssumption, MailInv, [MailNext]_mailVars
  PROVE  MailInv'
<1>1. CASE UNCHANGED mailVars
  <2>1. UNCHANGED <<mailClock, dedup, recipient, minute, day, mails>>
    BY <1>1 DEF mailVars
  <2>2. MailShapes' /\ DedupHolds'
    BY <2>1 DEF MailInv, MailShapes, Mail, DedupHolds
  <2>3. RecipientHolds' /\ MailsWithinCaps'
    BY <2>1, RecipientsStay, CapsStay DEF MailInv
  <2>4. Budgeted(minute, Minute, PerMinute)' /\ Budgeted(day, Day, PerDay)'
    BY <2>1 DEF MailInv, Budgeted, From
  <2>5. QED
    BY <2>2, <2>3, <2>4 DEF MailInv
<1>2. QED
  BY <1>1, MailSendKeeps, MailTicks DEF MailNext

-----------------------------------------------------------------------------
(* No limit lets more through than it promises, whatever the rule of the   *)
(* route and its strategy, the caps of the mailer and the lengths of its   *)
(* windows, and however requests, mails and the time follow one another    *)
(* (ratelimit.ts and caps.ts).                                             *)
THEOREM NoLimitExceeded ==
  ASSUME RateAssumption, MailAssumption
  PROVE  LimitsSpec => []LimitsHold
<1>1. LimitsInit => RateInv /\ MailInv
  BY RateInitially, MailInitially DEF LimitsInit
<1>2. RateInv /\ MailInv /\ [LimitsNext]_limitsVars => RateInv' /\ MailInv'
  <2>1. SUFFICES ASSUME RateInv, MailInv, [LimitsNext]_limitsVars PROVE RateInv' /\ MailInv'
    OBVIOUS
  <2>2. [RateNext]_rateVars /\ [MailNext]_mailVars
    BY <2>1 DEF LimitsNext, limitsVars
  <2>3. QED
    BY <2>1, <2>2, RateInductive, MailInductive
<1>3. RateInv /\ MailInv => LimitsHold
  BY DEF RateInv, MailInv, LimitsHold
<1>4. QED
  BY <1>1, <1>2, <1>3, PTL DEF LimitsSpec
=============================================================================
