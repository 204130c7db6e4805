------------------------------- MODULE SignIn -------------------------------
(***************************************************************************)
(* Signing in to one account of one realm: the handlers of                 *)
(* src/server/auth/AuthController.ts for login, the second factor, its     *)
(* setup, password reset and logout, and the code counters of              *)
(* Authenticator.ts.                                                       *)
(*                                                                         *)
(* One action is one database call of a handler and the local work up to   *)
(* the next; a handler may die between two.  A read of the session         *)
(* generations is one step here, and so is their advance: SessionEpochs    *)
(* shows what either takes.  Deletion and registration again keep the name *)
(* and the password, and with them the identity.  Challenges and tokens    *)
(* are tried before they expire.                                           *)
(***************************************************************************)
EXTENDS Naturals

CONSTANTS
  Handlers,      (* requests that may run at the same time               *)
  MaxHandlers,   (* bound: requests that ever start                      *)
  MaxStep,       (* bound: the 30-second steps of the authenticator      *)
  MaxLives,      (* bound: incarnations of the account                   *)
  MaxAttempts    (* TWOFA_MAX_ATTEMPTS: 5                                *)

ASSUME SignInAssumption ==
  /\ MaxHandlers \in Nat /\ MaxStep \in Nat /\ MaxLives \in Nat \ {0}
  /\ MaxAttempts \in Nat \ {0}

VARIABLES
  account,    (* accounts: the incarnation, its state and login key       *)
  policy,     (* the session generation and the factor policy it carries  *)
  logins,     (* challenges                                               *)
  pending,    (* twoFaLogins                                              *)
  setup,      (* twoFaSetup, one of each incarnation                      *)
  counters,   (* totpCounters: the last step accepted of each enrollment  *)
  tokens,     (* resetTokens                                              *)
  pointer,    (* resetTokenOf: the outstanding token of each incarnation  *)
  cookies,    (* sessions minted, with how they were authenticated        *)
  handlers,   (* the requests                                             *)
  started,    (* requests that have started                               *)
  accepted,   (* history: authenticator codes accepted                    *)
  acked,      (* history: the newest key a reset answered OK for          *)
  stray       (* history: reset tokens whose request died half way        *)

signInVars == <<account, policy, logins, pending, setup, counters, tokens, pointer,
                cookies, handlers, started, accepted, acked, stray>>

stores == <<account, policy, logins, pending, setup, counters, tokens, pointer, cookies>>
rest   == <<started, accepted, acked, stray>>

Lives   == 1..MaxLives
Calls   == 1..MaxHandlers
Methods == {"none", "email", "totp"}
NoCode  == [id |-> 0, epoch |-> 0, inc |-> 0, key |-> 0, method |-> "none", factor |-> 0,
            enrol |-> 0, target |-> "none", attempts |-> 0]

(* A request: its next call, and what it read and means to write.          *)
Still == [at |-> "still", job |-> "none", id |-> 0, inc |-> 0, key |-> 0, seen |-> NoCode,
          epoch |-> 0, fence |-> 0, factor |-> 0, method |-> "none", enrol |-> 0,
          target |-> "none", step |-> 0, last |-> 0, token |-> 0]

(* An account in use: with a factor and a login waiting for its code, or   *)
(* without one and the setup of an authenticator waiting for its code; one *)
(* session, one reset link mailed.                                         *)
SignInInit ==
  /\ account = [inc |-> 1, state |-> "live", key |-> 1]
  /\ \E m \in Methods :
       /\ policy = [epoch |-> 1, inc |-> 1, factor |-> 1, method |-> m, enrol |-> 0, fence |-> 0]
       /\ cookies = {[epoch |-> 1, inc |-> 1, key |-> 1, method |-> m]}
       /\ pending = IF m = "none" THEN {}
                    ELSE {[NoCode EXCEPT !.epoch = 1, !.inc = 1, !.key = 1, !.method = m, !.factor = 1]}
       /\ setup = [i \in Lives |->
            IF i = 1 /\ m = "none"
            THEN [NoCode EXCEPT !.epoch = 1, !.inc = 1, !.method = "totp", !.target = "totp", !.factor = 1]
            ELSE NoCode]
  /\ logins = {}
  /\ counters = [n \in {0} \cup Calls |-> 0]
  /\ tokens = {[id |-> 0, inc |-> 1]} /\ pointer = [i \in Lives |-> IF i = 1 THEN {0} ELSE {}]
  /\ handlers = [h \in Handlers |-> Still] /\ started = 0
  /\ accepted = {} /\ acked = 0 /\ stray = {}

(***************************************************************************)
(* Helpers.                                                                *)
(***************************************************************************)
Hold(h, rec) == handlers' = [handlers EXCEPT ![h] = rec]
Done(h)      == Hold(h, Still)
Goes(h, at) == Hold(h, [handlers[h] EXCEPT !.at = at])

Started(h, rec) ==
  /\ handlers[h].at = "still" /\ started < MaxHandlers /\ started' = started + 1
  /\ Hold(h, [rec EXCEPT !.id = started + 1])
  /\ UNCHANGED <<accepted, acked, stray>>

(* FactorRepository.read: a policy that names another incarnation is none. *)
SettingsOf(p, i) == IF p.inc = i THEN p ELSE [p EXCEPT !.factor = 0, !.method = "none", !.enrol = 0]

IsLive(i) == account.state = "live" /\ account.inc = i
Valid(s)  == s.epoch = policy.epoch

(* verifySession: the request keeps the snapshot that authorised it.       *)
Verified(q) ==
  [q EXCEPT !.epoch = policy.epoch, !.fence = policy.fence, !.inc = policy.inc,
            !.factor = policy.factor, !.method = policy.method, !.enrol = policy.enrol]

(* Authenticator.match: the step whose code was typed, whichever the clock *)
(* makes acceptable by then; 0 for a wrong code.                           *)
Steps == 1..MaxStep

(***************************************************************************)
(* Password login.                                                         *)
(***************************************************************************)
LoginStart(h) ==
  /\ account.state = "live"
  /\ Started(h, [Still EXCEPT !.at = "challenge", !.inc = account.inc])
  /\ UNCHANGED stores

CreateChallenge(h) ==
  LET q == handlers[h]
  IN /\ q.at = "challenge"
     /\ logins' = logins \cup {[id |-> q.id, epoch |-> policy.epoch, inc |-> q.inc]}
     /\ Done(h)
     /\ UNCHANGED <<account, policy, pending, setup, counters, tokens, pointer, cookies, rest>>

(* The challenge is consumed first.                                        *)
LoginFinish(h) ==
  \E c \in logins :
    /\ logins' = logins \ {c}
    /\ Started(h, [Still EXCEPT !.at = "signature", !.epoch = c.epoch, !.inc = c.inc])
    /\ UNCHANGED <<account, policy, pending, setup, counters, tokens, pointer, cookies>>

(* The person knows the password of the key that is there.                 *)
VerifyLogin(h) ==
  LET q == handlers[h]
  IN /\ q.at = "signature"
     /\ IF IsLive(q.inc) THEN Hold(h, [q EXCEPT !.at = "settings", !.key = account.key]) ELSE Done(h)
     /\ UNCHANGED <<stores, rest>>

(* The session, or the challenge of the second factor, carries the         *)
(* generation of the first challenge, not the one just read.               *)
Cookie(q, m) == [epoch |-> q.epoch, inc |-> q.inc, key |-> q.key, method |-> m]

(* Mutant: the cookie is of the generation at its end.                     *)
MintFresh(h) ==
  LET q == handlers[h]
      s == SettingsOf(policy, q.inc)
  IN /\ q.at = "settings"
     /\ IF s.method = "none"
        THEN cookies' = cookies \cup {Cookie([q EXCEPT !.epoch = policy.epoch], "none")} /\ UNCHANGED pending
        ELSE /\ pending' = pending \cup {[NoCode EXCEPT !.id = q.id, !.epoch = q.epoch, !.inc = q.inc,
                                !.key = q.key, !.method = s.method, !.factor = s.factor, !.enrol = s.enrol]}
             /\ UNCHANGED cookies
     /\ Done(h)
     /\ UNCHANGED <<account, policy, logins, setup, counters, tokens, pointer, rest>>

FinishLogin(h) ==
  LET q == handlers[h]
      s == SettingsOf(policy, q.inc)
  IN /\ q.at = "settings"
     /\ IF s.method = "none"
        THEN cookies' = cookies \cup {Cookie(q, "none")} /\ UNCHANGED pending
        ELSE /\ pending' = pending \cup {[NoCode EXCEPT !.id = q.id, !.epoch = q.epoch, !.inc = q.inc,
                                !.key = q.key, !.method = s.method, !.factor = s.factor, !.enrol = s.enrol]}
             /\ UNCHANGED cookies
     /\ Done(h)
     /\ UNCHANGED <<account, policy, logins, setup, counters, tokens, pointer, rest>>

(***************************************************************************)
(* Codes.  A challenge is peeked at; a wrong code costs an attempt, a right*)
(* one of an authenticator advances its counter first.                     *)
(***************************************************************************)
Checks(q, c, t) ==
  [q EXCEPT !.seen = c, !.inc = c.inc, !.key = c.key, !.enrol = c.enrol, !.target = c.target,
            !.step = IF c.method = "totp" THEN t ELSE 0,
            !.at = CASE t = 0              -> "wrong"
                     [] c.method = "email" -> "consume"
                     [] OTHER              -> IF c.target = "totp" THEN "count" ELSE "counter"]

TwoFaVerify(h) ==
  \E c \in pending, t \in {0} \cup Steps :
    /\ Started(h, Checks([Still EXCEPT !.job = "verify"], c, t))
    /\ UNCHANGED stores

Spent(c) == c.attempts >= MaxAttempts

(* Conditional on the challenge seen: an attempt may be lost, never the    *)
(* challenge that replaced it.                                             *)
Wrong(h) ==
  LET q == handlers[h]
      counted == [q.seen EXCEPT !.attempts = @ + 1]
  IN /\ q.at = "wrong"
     /\ \/ /\ q.job = "verify" /\ UNCHANGED setup
           /\ pending' = IF q.seen \notin pending THEN pending
                         ELSE (pending \ {q.seen}) \cup IF Spent(counted) THEN {} ELSE {counted}
        \/ /\ q.job = "confirm" /\ UNCHANGED pending
           /\ setup' = IF setup[q.inc] # q.seen THEN setup
                       ELSE [setup EXCEPT ![q.inc] = IF Spent(counted) THEN NoCode ELSE counted]
     /\ Done(h)
     /\ UNCHANGED <<account, policy, logins, counters, tokens, pointer, cookies, rest>>

(* Authenticator.consume: the step must be newer than the last one.        *)
ReadCounter(h) ==
  LET q == handlers[h]
  IN /\ q.at = "counter"
     /\ IF counters[q.enrol] >= q.step THEN Done(h)
        ELSE Hold(h, [q EXCEPT !.at = "count", !.last = counters[q.enrol]])
     /\ UNCHANGED <<stores, rest>>

Counted(h) ==
  LET q == handlers[h]
  IN /\ counters' = [counters EXCEPT ![q.enrol] = q.step]
     /\ accepted' = accepted \cup {[enrol |-> q.enrol, step |-> q.step, id |-> q.id, live |-> IsLive(q.inc),
                          for |-> IF q.job = "verify" THEN "login"
                                  ELSE IF q.job = "confirm" /\ q.target = "totp" THEN "enrol" ELSE "proof"]}
     /\ Goes(h, IF q.job = "switch" THEN "store" ELSE "consume")

(* Mutant: the counter is not compared when it is written.                 *)
CountBlindly(h) ==
  /\ handlers[h].at = "count" /\ Counted(h)
  /\ UNCHANGED <<account, policy, logins, pending, setup, tokens, pointer, cookies, started, acked, stray>>

(* Also Authenticator.initialize, which expects no counter.                *)
Count(h) ==
  LET q == handlers[h]
  IN /\ q.at = "count"
     /\ IF counters[q.enrol] = q.last THEN Counted(h)
        ELSE Done(h) /\ UNCHANGED <<counters, accepted>>
     /\ UNCHANGED <<account, policy, logins, pending, setup, tokens, pointer, cookies, started, acked, stray>>

Consume(h) ==
  LET q == handlers[h]
  IN /\ q.at = "consume"
     /\ \/ /\ q.job = "verify" /\ q.seen \in pending
           /\ pending' = pending \ {q.seen} /\ UNCHANGED setup /\ Goes(h, "recheck")
        \/ /\ q.job = "confirm" /\ setup[q.inc] = q.seen
           /\ setup' = [setup EXCEPT ![q.inc] = NoCode] /\ UNCHANGED pending /\ Goes(h, "change")
        \/ /\ ~(IF q.job = "verify" THEN q.seen \in pending ELSE setup[q.inc] = q.seen)
           /\ Done(h) /\ UNCHANGED <<pending, setup>>
     /\ UNCHANGED <<account, policy, logins, counters, tokens, pointer, cookies, rest>>

(* The account, then the generation and the policy, must be the ones of    *)
(* the password that was checked.                                          *)
Recheck(h) ==
  /\ handlers[h].at = "recheck"
  /\ IF IsLive(handlers[h].inc) THEN Goes(h, "mint") ELSE Done(h)
  /\ UNCHANGED <<stores, rest>>

MintSecond(h) ==
  LET q == handlers[h]
      c == q.seen
      s == SettingsOf(policy, q.inc)
  IN /\ q.at = "mint"
     /\ cookies' = IF s.factor = c.factor /\ s.method = c.method /\ policy.epoch = c.epoch
                   THEN cookies \cup {Cookie(c, c.method)} ELSE cookies
     /\ Done(h)
     /\ UNCHANGED <<account, policy, logins, pending, setup, counters, tokens, pointer, rest>>

(***************************************************************************)
(* Setting up, changing and removing a factor, with a session.             *)
(***************************************************************************)
TwoFaSetup(h) ==
  /\ \E s \in cookies : Valid(s)
  /\ \E m \in Methods :
       Started(h, [Verified(Still) EXCEPT !.at = "subject", !.job = "setup", !.target = m])
  /\ UNCHANGED stores

(* To replace a factor takes a code of it now; only an authenticator can   *)
(* be replaced.  To remove one, the code comes later.                      *)
SetupAccount(h) ==
  LET q == handlers[h]
      i == account.inc
      s == SettingsOf(q, i)
      mine == [q EXCEPT !.inc = i, !.factor = s.factor, !.method = s.method, !.enrol = s.enrol]
  IN /\ q.at = "subject" /\ q.job = "setup"
     /\ \/ /\ account.state = "live" /\ q.target # "none" /\ s.method = "totp"
           /\ \E t \in Steps : Hold(h, [mine EXCEPT !.at = "counter", !.job = "switch", !.step = t])
        \/ /\ account.state = "live" /\ (q.target = "none") # (s.method = "none")
           /\ Hold(h, [mine EXCEPT !.at = "store"])
        \/ /\ \/ account.state # "live"
              \/ q.target # "none" /\ s.method = "email"
              \/ q.target = "none" /\ s.method = "none"
           /\ Done(h)
     /\ UNCHANGED <<stores, rest>>

(* One outstanding setup of an incarnation: the last one replaces it.      *)
StoreSetup(h) ==
  LET q == handlers[h]
      proof == IF q.target = "none" THEN q.method ELSE q.target
  IN /\ q.at = "store"
     /\ setup' = [setup EXCEPT ![q.inc] =
          [NoCode EXCEPT !.id = q.id, !.epoch = q.epoch, !.inc = q.inc, !.method = proof,
             !.factor = q.factor, !.target = q.target,
             !.enrol = IF proof # "totp" THEN 0 ELSE IF q.target = "totp" THEN q.id ELSE q.enrol]]
     /\ Done(h)
     /\ UNCHANGED <<account, policy, logins, pending, counters, tokens, pointer, cookies, rest>>

TwoFaSetupVerify(h) ==
  /\ \E s \in cookies : Valid(s)
  /\ Started(h, [Verified(Still) EXCEPT !.at = "subject", !.job = "confirm"])
  /\ UNCHANGED stores

ConfirmAccount(h) ==
  /\ handlers[h].at = "subject" /\ handlers[h].job = "confirm"
  /\ IF account.state = "live" THEN Hold(h, [handlers[h] EXCEPT !.at = "open", !.inc = account.inc])
                               ELSE Done(h)
  /\ UNCHANGED <<stores, rest>>

OpenSetup(h) ==
  LET q == handlers[h]
      c == setup[q.inc]
  IN /\ q.at = "open"
     /\ IF c = NoCode \/ c.epoch # q.epoch THEN Done(h)
        ELSE \E t \in {0} \cup Steps : Hold(h, Checks(q, c, t))
     /\ UNCHANGED <<stores, rest>>

(* Mutant: only the fence is compared, not the factor.                     *)
RefusesFence(q) == policy.fence # q.fence

(* SessionEpochs.changeFactor, as one step.                                *)
Refuses(q) == \/ policy.fence # q.fence
              \/ policy.inc = q.inc /\ policy.factor # q.seen.factor

SetFactor(h) ==
  LET q == handlers[h]
  IN /\ q.at = "change"
     /\ policy' = IF Refuses(q) THEN policy
                  ELSE [policy EXCEPT !.epoch = @ + 1, !.inc = q.inc, !.factor = q.seen.factor + 1,
                          !.method = q.target, !.enrol = IF q.target = "totp" THEN q.enrol ELSE 0]
     /\ Done(h)
     /\ UNCHANGED <<account, logins, pending, setup, counters, tokens, pointer, cookies, rest>>

(***************************************************************************)
(* Password reset.                                                         *)
(***************************************************************************)
ResetRequest(h) ==
  /\ account.state = "live"
  /\ Started(h, [Still EXCEPT !.at = "previous", !.job = "request", !.inc = account.inc])
  /\ UNCHANGED stores

TakePointer(h) ==
  LET q == handlers[h]
  IN /\ q.at = "previous"
     /\ pointer' = [pointer EXCEPT ![q.inc] = {}]
     /\ \/ /\ pointer[q.inc] = {} /\ Goes(h, "token")
        \/ \E t \in pointer[q.inc] : Hold(h, [q EXCEPT !.at = "drop", !.token = t])
     /\ UNCHANGED <<account, policy, logins, pending, setup, counters, tokens, cookies, rest>>

DropToken(h) ==
  LET q == handlers[h]
  IN /\ q.at \in {"drop", "rollback"}
     /\ tokens' = {t \in tokens : t.id # q.token}
     /\ IF q.at = "drop" THEN Goes(h, "token") ELSE Done(h)
     /\ UNCHANGED <<account, policy, logins, pending, setup, counters, pointer, cookies, rest>>

CreateToken(h) ==
  LET q == handlers[h]
  IN /\ q.at = "token"
     /\ tokens' = tokens \cup {[id |-> q.id, inc |-> q.inc]}
     /\ Hold(h, [q EXCEPT !.at = "point", !.token = q.id])
     /\ UNCHANGED <<account, policy, logins, pending, setup, counters, pointer, cookies, rest>>

(* Another request won the pointer: the token just made is deleted.        *)
PointToken(h) ==
  LET q == handlers[h]
  IN /\ q.at = "point"
     /\ IF pointer[q.inc] = {} THEN pointer' = [pointer EXCEPT ![q.inc] = {q.token}] /\ Done(h)
        ELSE Goes(h, "rollback") /\ UNCHANGED pointer
     /\ UNCHANGED <<account, policy, logins, pending, setup, counters, tokens, cookies, rest>>

(* The token is consumed first.                                            *)
ResetFinish(h) ==
  \E t \in tokens :
    /\ tokens' = tokens \ {t}
    /\ Started(h, [Still EXCEPT !.at = "row", !.job = "reset", !.inc = t.inc])
    /\ UNCHANGED <<account, policy, logins, pending, setup, counters, pointer, cookies>>

ResetRow(h) ==
  LET q == handlers[h]
  IN /\ q.at = "row"
     /\ IF IsLive(q.inc) THEN Hold(h, [q EXCEPT !.at = "rekey", !.key = account.key]) ELSE Done(h)
     /\ UNCHANGED <<stores, rest>>

(* The keys of an incarnation are numbered.                                *)
Rekey(h) ==
  LET q == handlers[h]
  IN /\ q.at = "rekey"
     /\ IF account = [inc |-> q.inc, state |-> "live", key |-> q.key]
        THEN account' = [account EXCEPT !.key = @ + 1] /\ Hold(h, [q EXCEPT !.at = "signOut", !.key = @ + 1])
        ELSE Done(h) /\ UNCHANGED account
     /\ UNCHANGED <<policy, logins, pending, setup, counters, tokens, pointer, cookies, rest>>

LogoutAll(h) ==
  /\ \E s \in cookies : Valid(s)
  /\ Started(h, [Still EXCEPT !.at = "signOut", !.job = "logout"])
  /\ UNCHANGED stores

(* revokeUserSessions: one generation further, the policy stays.           *)
SignOut(h) ==
  LET q == handlers[h]
  IN /\ q.at = "signOut"
     /\ policy' = [policy EXCEPT !.epoch = @ + 1]
     /\ acked' = IF q.job = "reset" /\ account.inc = q.inc /\ q.key > acked THEN q.key ELSE acked
     /\ Done(h)
     /\ UNCHANGED <<account, logins, pending, setup, counters, tokens, pointer, cookies,
                    started, accepted, stray>>

(***************************************************************************)
(* One session ends; deletion, and registration under the same name and    *)
(* password; the death of a request.                                       *)
(***************************************************************************)
Once == started < MaxHandlers /\ started' = started + 1

Logout ==
  /\ Once
  /\ \E s \in cookies : Valid(s) /\ cookies' = cookies \ {s}
  /\ UNCHANGED <<account, policy, logins, pending, setup, counters, tokens, pointer, handlers,
                 accepted, acked, stray>>

(* deleteAccount and finishDeletion, which takes the incarnation's code    *)
(* counters, setup and reset link with it; then a registration of the      *)
(* next incarnation.                                                       *)
DeleteAccount ==
  /\ \/ /\ Once /\ account.state = "live" /\ account' = [account EXCEPT !.state = "deleting"]
        /\ UNCHANGED <<policy, acked, setup, counters, tokens, pointer>>
     \/ /\ account.state = "deleting" /\ account' = [account EXCEPT !.state = "none"]
        /\ policy' = [policy EXCEPT !.epoch = @ + 2, !.inc = 0, !.factor = 0, !.method = "none",
                                    !.enrol = 0, !.fence = @ + 1]
        /\ tokens' = {t \in tokens : t.id \notin pointer[account.inc]}
        /\ pointer' = [pointer EXCEPT ![account.inc] = {}]
        /\ setup' = [setup EXCEPT ![account.inc] = NoCode]
        /\ counters' = [n \in DOMAIN counters |-> 0]
        /\ UNCHANGED <<acked, started>>
     \/ /\ Once /\ account.state = "none" /\ account.inc < MaxLives
        /\ account' = [inc |-> account.inc + 1, state |-> "live", key |-> 1]
        /\ policy' = [policy EXCEPT !.epoch = @ + 1] /\ acked' = 0
        /\ UNCHANGED <<setup, counters, tokens, pointer>>
  /\ UNCHANGED <<logins, pending, cookies, handlers, accepted, stray>>

Fail(h) ==
  LET q == handlers[h]
  IN /\ q.at # "still" /\ Done(h)
     /\ stray' = IF q.at \in {"drop", "point", "rollback"} THEN stray \cup {q.token} ELSE stray
     /\ UNCHANGED <<stores, started, accepted, acked>>

Signing(h)   == LoginStart(h) \/ CreateChallenge(h) \/ LoginFinish(h) \/ VerifyLogin(h) \/ FinishLogin(h)
Coding(h)    == TwoFaVerify(h) \/ Wrong(h) \/ ReadCounter(h) \/ Count(h) \/ Consume(h) \/ Recheck(h) \/ MintSecond(h)
SettingUp(h) == TwoFaSetup(h) \/ SetupAccount(h) \/ StoreSetup(h) \/ TwoFaSetupVerify(h)
                \/ ConfirmAccount(h) \/ OpenSetup(h) \/ SetFactor(h)
Resetting(h) == ResetRequest(h) \/ TakePointer(h) \/ DropToken(h) \/ CreateToken(h) \/ PointToken(h)
                \/ ResetFinish(h) \/ ResetRow(h) \/ Rekey(h) \/ LogoutAll(h) \/ SignOut(h)

SignInNext ==
  \/ \E h \in Handlers : Signing(h) \/ Coding(h) \/ SettingUp(h) \/ Resetting(h) \/ Fail(h)
  \/ Logout \/ DeleteAccount

SignInSpec == SignInInit /\ [][SignInNext]_signInVars

(* The calls a request may be at.                                          *)
Stages == {"still", "challenge", "signature", "settings", "wrong", "consume", "counter", "count",
           "recheck", "mint", "subject", "store", "open", "change", "previous", "drop", "rollback",
           "token", "point", "row", "rekey", "signOut"}

Handler == [at: Stages, job: {"none", "verify", "setup", "switch", "confirm", "request", "reset", "logout"},
            id: Nat, inc: Nat, key: Nat, seen: [id: Nat, epoch: Nat, inc: Nat, key: Nat, method: Methods,
            factor: Nat, enrol: Nat, target: Methods, attempts: Nat], epoch: Nat, fence: Nat,
            factor: Nat, method: Methods, enrol: Nat, target: Methods, step: Nat, last: Nat, token: Nat]

(* The shapes; a token is under at most one pointer.                       *)
SignInTypeOK ==
  /\ account \in [inc: Lives, state: {"live", "deleting", "none"}, key: Nat]
  /\ policy \in [epoch: Nat, inc: Nat, factor: Nat, method: Methods, enrol: Nat, fence: Nat]
  /\ logins \subseteq [id: Nat, epoch: Nat, inc: Nat]
  /\ \A c \in pending : c.method # "none" /\ c.attempts < MaxAttempts
  /\ \A i \in Lives : setup[i].attempts < MaxAttempts
  /\ counters \in [{0} \cup Calls -> Nat]
  /\ tokens \subseteq [id: Nat, inc: Lives]
  /\ pointer \in [Lives -> SUBSET Nat] /\ \A i \in Lives : \A m, n \in pointer[i] : m = n
  /\ cookies \subseteq [epoch: Nat, inc: Nat, key: Nat, method: Methods]
  /\ started \in 0..MaxHandlers /\ acked \in Nat /\ stray \subseteq Nat
  /\ \A h \in Handlers : handlers[h] \in Handler

(* A session that verifySession accepts was minted for the account that is *)
(* there, under a key no older than the one an acknowledged reset set, and *)
(* with the second factor that is in force, whatever reset, factor change, *)
(* logout or deletion ran between the password and the cookie              *)
(* (loginStart, loginFinish, twoFaVerify, resetFinish).                    *)
SessionsCurrent ==
  account.state = "live" => \A s \in cookies : Valid(s) =>
    /\ s.inc = account.inc
    /\ s.key >= acked
    /\ s.method = SettingsOf(policy, account.inc).method

(* The code of an authenticator is accepted once: not for two logins, nor  *)
(* for a login and a change of the factor (Authenticator.consume).  A code *)
(* of a deleted account, whose counter is gone, lets nobody in.            *)
CodeOnce ==
  \A c, d \in accepted :
    c.live /\ d.live /\ c.enrol = d.enrol /\ c.step = d.step => c = d

(* When nobody is asking for a reset, at most one link that was mailed is  *)
(* good, however requests overlapped (resetRequest: "exactly one stays     *)
(* outstanding").  The exception are tokens a dying request held.          *)
OneLink ==
  (\A h \in Handlers : handlers[h].job # "request")
    => \A t, u \in tokens : t.inc = u.inc /\ {t.id, u.id} \cap stray = {} => t = u

(* What is good once is used once: a code of an authenticator, and of the  *)
(* links that were mailed for a reset one.                                 *)
OnceOnly == CodeOnce /\ OneLink

(* The authenticator in force is removed or replaced.                      *)
Replaced == /\ policy.method = "totp" /\ policy'.inc = policy.inc
            /\ policy'.method # "totp" \/ policy'.enrol # policy.enrol

(* An authenticator in force gives way only to a change that one of its    *)
(* own codes approved, or to the deletion of the account: a session alone  *)
(* does not replace it, not even by racing another change (twoFaSetup,     *)
(* twoFaSetupVerify, SessionEpochs.changeFactor).                          *)
FactorProved ==
  [][Replaced => \E c \in accepted : c.enrol = policy.enrol /\ c.for = "proof"]_signInVars
=============================================================================
