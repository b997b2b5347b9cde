------------------------------ MODULE AdminAuth ------------------------------
(***************************************************************************)
(* The admin server's accounts, sessions and second factors:               *)
(* admin/admin_server.cpp's auth and user handlers over auth/user_store,   *)
(* session_store, pending_mfa_store, pending_totp_store and                *)
(* webauthn/challenge_store.                                               *)
(*                                                                         *)
(* Requests are handled on a pool of threads.  A handler is a sequence of  *)
(* calls to the stores, each of which is atomic under that store's lock:   *)
(* one action per call.  An early return that changes nothing is Refuse.   *)
(* save_locked may throw; memory is then ahead of users.yaml, which        *)
(* write_file_atomically left as it was, and the connection is closed.     *)
(*                                                                         *)
(* Random values (tokens, salts, secrets, codes, challenges, handles) are  *)
(* numbers that were not used before.  An entry that has expired is one    *)
(* that Expire took away.                                                  *)
(***************************************************************************)
EXTENDS Naturals, FiniteSets

CONSTANTS
  Users,            \* usernames
  NoUser,
  Requests,         \* requests that may be handled at the same time
  Scenarios,        \* users.yaml at the first start, the routes clients call, and bounds
  BatchSize         \* backup codes in a batch; 10 in backup_codes.cpp

\* A UserRecord, without its password hash and its passkeys' keys, labels and
\* counters.  salt 0 is a username that has no account, totp 0 one that has no
\* TOTP secret, handle 0 one that has no WebAuthn handle.
Account == [salt : Nat, totp : Nat, codes : SUBSET Nat, used : SUBSET Nat,
            passkeys : SUBSET Nat, handle : Nat]

NoAccount == [salt |-> 0, totp |-> 0, codes |-> {}, used |-> {}, passkeys |-> {}, handle |-> 0]
Plain == [NoAccount EXCEPT !.salt = 1]
WithTotp == [Plain EXCEPT !.totp = 2, !.codes = {3, 4}, !.used = {4}]
WithPasskeys == [Plain EXCEPT !.passkeys = {5, 6}, !.handle = 7]

\* The random values in the accounts above.
FirstFresh == 7

\* The routes of route() that change what this module is about: those that need
\* no session, those that a session held at enrolment may use, and the others.
PublicRoutes ==
  {"setup", "login", "totp/verify", "backup-code/verify", "webauthn/login/options",
   "webauthn/login/verify", "webauthn/2fa/options", "webauthn/2fa/verify"}

MfaSetupRoutes ==
  {"logout", "totp/setup", "totp/confirm", "register/options", "register/verify"}

GatedRoutes ==
  MfaSetupRoutes \cup {"totp/disable", "regenerate", "webauthn/delete", "security-config",
                       "users/create", "users/delete"}

\* The bounds are on random values drawn, restarts and TOTP time steps.
Scenario == [accounts : [Users -> {NoAccount, Plain, WithTotp, WithPasskeys}],
             routes : SUBSET (PublicRoutes \cup GatedRoutes),
             MaxFresh : Nat, MaxRestarts : Nat, MaxStep : Nat]

ASSUME AdminAuthAssumption ==
  /\ NoUser \notin Users
  /\ \A s \in Scenarios : s \in Scenario
  /\ BatchSize \in Nat \ {0}

VARIABLES
  users,           \* UserStore::users_
  disk,            \* users.yaml
  last_totp_step,  \* UserStore::last_totp_step_; 0 for none
  sessions,        \* SessionStore
  pending_mfa,     \* PendingMfaStore
  pending_totp,    \* PendingTotpStore; 0 for none
  challenges,      \* ChallengeStore
  require_2fa,     \* security.require_2fa as ConfigStore::get() has it
  now,             \* the current TOTP time step
  fresh,           \* random values drawn
  restarts,
  req,             \* each request: where its handler is, and its locals
  scenario,        \* the scenario played
  grants,          \* history: the sessions issued, and for what
  enrolled         \* history: users whose second factor reached users.yaml

stores == <<users, disk, enrolled>>
caches == <<last_totp_step, sessions, pending_mfa, pending_totp, challenges>>
outside == <<require_2fa, now, restarts, scenario>>
vars == <<users, disk, last_totp_step, sessions, pending_mfa, pending_totp, challenges,
          require_2fa, now, fresh, restarts, req, scenario, grants, enrolled>>

\* cookie: the session or pending-login token the request carries; via and val:
\* what it has shown so far to be given a session; key: a secret or a passkey.
Idle == [at |-> "idle", user |-> NoUser, cookie |-> 0, via |-> "none", val |-> 0,
         key |-> 0, needs |-> FALSE]

Admins(store) == {u \in Users : store[u].salt # 0}

HasFactor(account) == account.totp # 0 \/ account.passkeys # {}

Unused(account) == account.codes \ account.used

\* verify_totp: the code of a step is good in that step and in its neighbours.
Window == {s \in 1..scenario.MaxStep : s <= now + 1 /\ now <= s + 1}

At(r, label) == req[r].at = label

Go(r, label) == req' = [req EXCEPT ![r].at = label]

End(r) == req' = [req EXCEPT ![r] = Idle]

Draw(n) == fresh + n <= scenario.MaxFresh /\ fresh' = fresh + n

-----------------------------------------------------------------------------
(* UserStore: every change is made in memory first and then saved.         *)

Save(r, accounts, next) ==
  /\ users' = accounts
  /\ \/ /\ disk' = accounts
        /\ req' = [req EXCEPT ![r] = next]
        /\ enrolled' = enrolled \cup {u \in Users : HasFactor(accounts[u])}
     \/ End(r) /\ UNCHANGED <<disk, enrolled>>

SaveUser(r, account, next) ==
  Save(r, [users EXCEPT ![req[r].user] = account], next)

-----------------------------------------------------------------------------
(* The session gate, and the handlers' common tail.                        *)

Public(r, route) == At(r, "idle") /\ route \in scenario.routes \cap PublicRoutes

\* The session is looked up when the header is read; the body is read next, and
\* only then does the handler run, for the user the session had.
Gate(r) ==
  /\ At(r, "idle")
  /\ \E s \in sessions, route \in scenario.routes \cap GatedRoutes :
       /\ s.needs => route \in MfaSetupRoutes
       /\ req' = [req EXCEPT ![r] = [Idle EXCEPT !.at = route, !.user = s.user, !.cookie = s.token]]
  /\ UNCHANGED <<stores, caches, outside, fresh, grants>>

\* A body that does not parse, a wrong password or code, a name that is taken
\* or unknown, a response that does not verify, an entry that is gone.
Refuse(r) ==
  /\ req[r].at \in {"setup", "totp/verify", "backup-code/verify", "totp/confirm", "totp/disable",
                    "regenerate", "register/options", "register/verify", "add", "webauthn/delete",
                    "webauthn/2fa/options", "webauthn/2fa/verify", "assert", "security-config",
                    "users/create", "users/delete"}
  /\ End(r)
  /\ UNCHANGED <<stores, caches, outside, fresh, grants>>

\* What a later call of the handler needs was removed since an earlier one.
Missing(r) ==
  /\ \/ req[r].at \in {"set_totp", "clear", "regen", "handle"} /\ req[r].user \notin Admins(users)
     \/ At(r, "regen") /\ users[req[r].user].totp = 0
     \/ At(r, "remove") /\ req[r].key \notin users[req[r].user].passkeys
  /\ End(r)
  /\ UNCHANGED <<stores, caches, outside, fresh, grants>>

\* RAND_bytes fails and the exception closes the connection.  set_totp has by
\* then stored the secret when it is a backup code's salt that cannot be drawn.
RandFails(r) ==
  /\ \/ /\ req[r].at \in {"setup", "users/create", "challenge", "issue", "totp/setup", "set_totp",
                           "regen", "start register", "start 2fa", "handle"}
        /\ UNCHANGED users
     \/ /\ At(r, "set_totp") /\ req[r].user \in Admins(users)
        /\ users' = [users EXCEPT ![req[r].user].totp = req[r].key]
  /\ End(r)
  /\ UNCHANGED <<disk, enrolled, caches, outside, fresh, grants>>

\* require_2fa decides what a session without a second factor is good for.
Policy(r) ==
  /\ At(r, "policy")
  /\ req' = [req EXCEPT ![r].needs = require_2fa, ![r].at = "issue"]
  /\ UNCHANGED <<stores, caches, outside, fresh, grants>>

DropPending(r) ==
  /\ At(r, "drop")
  /\ pending_mfa' = {p \in pending_mfa : p.token # req[r].cookie}
  /\ Go(r, "issue")
  /\ UNCHANGED <<stores, last_totp_step, sessions, pending_totp, challenges, outside, fresh, grants>>

IssueSession(r) ==
  /\ At(r, "issue")
  /\ Draw(1)
  /\ sessions' = sessions \cup {[token |-> fresh', user |-> req[r].user, needs |-> req[r].needs]}
  /\ grants' = grants \cup {[token |-> fresh', user |-> req[r].user, via |-> req[r].via,
                             val |-> req[r].val, life |-> restarts]}
  /\ End(r)
  /\ UNCHANGED <<stores, last_totp_step, pending_mfa, pending_totp, challenges, outside>>

-----------------------------------------------------------------------------
(* Accounts: setup, login, logout, and the user list.                      *)

\* The fast path: only an answer that nobody else need agree with.
SetupCheck(r, u) ==
  /\ Public(r, "setup")
  /\ Admins(users) = {}
  /\ req' = [req EXCEPT ![r] = [Idle EXCEPT !.at = "setup", !.user = u, !.via = "setup"]]
  /\ UNCHANGED <<stores, caches, outside, fresh, grants>>

SetupCreate(r) ==
  /\ At(r, "setup")
  /\ Admins(users) = {}
  /\ Draw(1)
  /\ SaveUser(r, [NoAccount EXCEPT !.salt = fresh'], [req[r] EXCEPT !.at = "policy"])
  /\ UNCHANGED <<caches, outside, grants>>

Login(r, u) ==
  /\ Public(r, "login")
  /\ u \in Admins(users)
  /\ req' = [req EXCEPT ![r] = [Idle EXCEPT !.user = u, !.via = "password",
                                  !.at = IF HasFactor(users[u]) THEN "challenge" ELSE "policy"]]
  /\ UNCHANGED <<stores, caches, outside, fresh, grants>>

MfaChallenge(r) ==
  /\ At(r, "challenge")
  /\ Draw(1)
  /\ pending_mfa' = pending_mfa \cup {[token |-> fresh', user |-> req[r].user]}
  /\ End(r)
  /\ UNCHANGED <<stores, last_totp_step, sessions, pending_totp, challenges, outside, grants>>

Logout(r) ==
  /\ At(r, "logout")
  /\ sessions' = {s \in sessions : s.token # req[r].cookie}
  /\ End(r)
  /\ UNCHANGED <<stores, last_totp_step, pending_mfa, pending_totp, challenges, outside, fresh, grants>>

UsersCreate(r, u) ==
  /\ At(r, "users/create")
  /\ u \notin Admins(users)
  /\ Draw(1)
  /\ Save(r, [users EXCEPT ![u] = [NoAccount EXCEPT !.salt = fresh']], Idle)
  /\ UNCHANGED <<caches, outside, grants>>

\* mutant: the last remaining user can be removed
UsersDeleteMutant(r, u) ==
  /\ At(r, "users/delete")
  /\ u \in Admins(users)
  /\ Save(r, [users EXCEPT ![u] = NoAccount], Idle)
  /\ UNCHANGED <<caches, outside, fresh, grants>>

UsersDelete(r, u) ==
  /\ At(r, "users/delete")
  /\ u \in Admins(users)
  /\ Admins(users) # {u}
  /\ Save(r, [users EXCEPT ![u] = NoAccount], Idle)
  /\ UNCHANGED <<caches, outside, fresh, grants>>

\* ConfigStore::update publishes the new value at once.
SecurityConfig(r) ==
  /\ At(r, "security-config")
  /\ require_2fa' \in BOOLEAN
  /\ End(r)
  /\ UNCHANGED <<stores, caches, now, restarts, scenario, fresh, grants>>

-----------------------------------------------------------------------------
(* The second step of a login: a TOTP code or a backup code.               *)

ValidatePending(r) ==
  /\ \E p \in pending_mfa,
        route \in {"totp/verify", "backup-code/verify", "webauthn/2fa/options", "webauthn/2fa/verify"} :
       /\ Public(r, route)
       /\ req' = [req EXCEPT ![r] = [Idle EXCEPT !.at = route, !.user = p.user, !.cookie = p.token]]
  /\ UNCHANGED <<stores, caches, outside, fresh, grants>>

TotpVerify(r) ==
  /\ At(r, "totp/verify")
  /\ users[req[r].user].totp # 0
  /\ \E step \in Window :
       req' = [req EXCEPT ![r].at = "step", ![r].via = "totp", ![r].val = step]
  /\ UNCHANGED <<stores, caches, outside, fresh, grants>>

ConsumeTotpStep(r) ==
  /\ At(r, "step")
  /\ IF req[r].val > last_totp_step[req[r].user]
     THEN /\ last_totp_step' = [last_totp_step EXCEPT ![req[r].user] = req[r].val]
          /\ Go(r, "drop")
     ELSE End(r) /\ UNCHANGED last_totp_step
  /\ UNCHANGED <<stores, sessions, pending_mfa, pending_totp, challenges, outside, fresh, grants>>

\* mutant: the used mark is left to a later save
ConsumeBackupCodeMutant(r) ==
  /\ At(r, "backup-code/verify")
  /\ \E code \in Unused(users[req[r].user]) :
       /\ users' = [users EXCEPT ![req[r].user].used = @ \cup {code}]
       /\ req' = [req EXCEPT ![r] = [@ EXCEPT !.at = "drop", !.via = "code", !.val = code]]
  /\ UNCHANGED <<disk, enrolled, caches, outside, fresh, grants>>

ConsumeBackupCode(r) ==
  /\ At(r, "backup-code/verify")
  /\ \E code \in Unused(users[req[r].user]) :
       SaveUser(r, [users[req[r].user] EXCEPT !.used = @ \cup {code}],
                [req[r] EXCEPT !.at = "drop", !.via = "code", !.val = code])
  /\ UNCHANGED <<caches, outside, fresh, grants>>

-----------------------------------------------------------------------------
(* Enrolling a second factor and removing it: TOTP.                        *)

TotpSetup(r) ==
  /\ At(r, "totp/setup")
  /\ Draw(1)
  /\ pending_totp' = [pending_totp EXCEPT ![req[r].user] = fresh']
  /\ End(r)
  /\ UNCHANGED <<stores, last_totp_step, sessions, pending_mfa, challenges, outside, grants>>

TotpConfirm(r) ==
  /\ At(r, "totp/confirm")
  /\ pending_totp[req[r].user] # 0
  /\ \E step \in Window :
       req' = [req EXCEPT ![r].at = "set_totp", ![r].key = pending_totp[req[r].user], ![r].val = step]
  /\ UNCHANGED <<stores, caches, outside, fresh, grants>>

\* mutant: a failed save is logged and the enrolment goes on
SetTotpMutant(r) ==
  /\ At(r, "set_totp")
  /\ req[r].user \in Admins(users)
  /\ Draw(BatchSize)
  /\ users' = [users EXCEPT ![req[r].user] =
                 [@ EXCEPT !.totp = req[r].key, !.codes = fresh + 1 .. fresh', !.used = {}]]
  /\ \/ disk' = users' /\ enrolled' = enrolled \cup {u \in Users : HasFactor(users'[u])}
     \/ UNCHANGED <<disk, enrolled>>
  /\ Go(r, "seed")
  /\ UNCHANGED <<caches, outside, grants>>

SetTotp(r) ==
  /\ At(r, "set_totp")
  /\ req[r].user \in Admins(users)
  /\ Draw(BatchSize)
  /\ SaveUser(r, [users[req[r].user] EXCEPT !.totp = req[r].key, !.codes = fresh + 1 .. fresh',
                                            !.used = {}],
              [req[r] EXCEPT !.at = "seed"])
  /\ UNCHANGED <<caches, outside, grants>>

\* The result of consume_totp_step is not looked at.
SeedTotpStep(r) ==
  /\ At(r, "seed")
  /\ last_totp_step' = [last_totp_step EXCEPT ![req[r].user] = IF req[r].val > @ THEN req[r].val ELSE @]
  /\ Go(r, "clear_pending")
  /\ UNCHANGED <<stores, sessions, pending_mfa, pending_totp, challenges, outside, fresh, grants>>

ClearPendingTotp(r) ==
  /\ At(r, "clear_pending")
  /\ pending_totp' = [pending_totp EXCEPT ![req[r].user] = 0]
  /\ Go(r, "mark")
  /\ UNCHANGED <<stores, last_totp_step, sessions, pending_mfa, challenges, outside, fresh, grants>>

MarkMfaSatisfied(r) ==
  /\ At(r, "mark")
  /\ sessions' = {IF s.token = req[r].cookie THEN [s EXCEPT !.needs = FALSE] ELSE s : s \in sessions}
  /\ End(r)
  /\ UNCHANGED <<stores, last_totp_step, pending_mfa, pending_totp, challenges, outside, fresh, grants>>

VerifyPassword(r) ==
  /\ req[r].at \in {"totp/disable", "regenerate"}
  /\ req[r].user \in Admins(users)
  /\ Go(r, IF At(r, "totp/disable") THEN "clear_policy" ELSE "regen")
  /\ UNCHANGED <<stores, caches, outside, fresh, grants>>

\* security.require_2fa forbids removing the only second factor.
OnlyFactorPolicy(r) ==
  /\ req[r].at \in {"clear_policy", "remove_policy"}
  /\ IF require_2fa THEN End(r) ELSE Go(r, IF At(r, "clear_policy") THEN "clear" ELSE "remove")
  /\ UNCHANGED <<stores, caches, outside, fresh, grants>>

ClearTotp(r) ==
  /\ At(r, "clear")
  /\ req[r].user \in Admins(users)
  /\ SaveUser(r, [users[req[r].user] EXCEPT !.totp = 0, !.codes = {}, !.used = {}], Idle)
  /\ UNCHANGED <<caches, outside, fresh, grants>>

RegenerateBackupCodes(r) ==
  /\ At(r, "regen")
  /\ req[r].user \in Admins(users) /\ users[req[r].user].totp # 0
  /\ Draw(BatchSize)
  /\ SaveUser(r, [users[req[r].user] EXCEPT !.codes = fresh + 1 .. fresh', !.used = {}], Idle)
  /\ UNCHANGED <<caches, outside, grants>>

-----------------------------------------------------------------------------
(* Passkeys.  A challenge is kept under a name: the ceremony with the user, *)
(* or, for a passwordless login, with a token only this browser has; that   *)
(* token is drawn together with the challenge and is the same number here. *)

StartChallenge(kind, user, token) ==
  /\ Draw(1)
  /\ challenges' = {c \in challenges : c.kind # kind \/ c.user # user \/ c.token # token}
                     \cup {[kind |-> kind, user |-> user, token |-> token, val |-> fresh']}

\* Takes the challenge out of the store and goes on with it.
ConsumeChallenge(r, c, next) ==
  /\ challenges' = challenges \ {c}
  /\ req' = [req EXCEPT ![r] = [next EXCEPT !.via = "passkey", !.val = c.val]]
  /\ UNCHANGED <<stores, last_totp_step, sessions, pending_mfa, pending_totp, outside, fresh, grants>>

WebauthnFind(r) ==
  /\ req[r].at \in {"register/options", "webauthn/2fa/options"}
  /\ req[r].user \in Admins(users)
  /\ Go(r, IF At(r, "register/options") THEN "start register" ELSE "start 2fa")
  /\ UNCHANGED <<stores, caches, outside, fresh, grants>>

StartRegister(r) ==
  /\ At(r, "start register")
  /\ StartChallenge("register", req[r].user, 0)
  /\ Go(r, "handle")
  /\ UNCHANGED <<stores, last_totp_step, sessions, pending_mfa, pending_totp, outside, grants>>

Start2fa(r) ==
  /\ At(r, "start 2fa")
  /\ StartChallenge("2fa", req[r].user, 0)
  /\ End(r)
  /\ UNCHANGED <<stores, last_totp_step, sessions, pending_mfa, pending_totp, outside, grants>>

StartLogin(r) ==
  /\ Public(r, "webauthn/login/options")
  /\ StartChallenge("login", NoUser, fresh + 1)
  /\ UNCHANGED <<stores, last_totp_step, sessions, pending_mfa, pending_totp, outside, req, grants>>

\* webauthn_user_handle draws a handle on the first call and saves it.
UserHandle(r) ==
  LET account == users[req[r].user] IN
  /\ At(r, "handle")
  /\ req[r].user \in Admins(users)
  /\ IF account.handle # 0
     THEN End(r) /\ UNCHANGED <<stores, fresh>>
     ELSE Draw(1) /\ SaveUser(r, [account EXCEPT !.handle = fresh'], Idle)
  /\ UNCHANGED <<caches, outside, grants>>

RegisterConsume(r) ==
  /\ At(r, "register/verify")
  /\ \E c \in challenges : c.kind = "register" /\ c.user = req[r].user
                           /\ ConsumeChallenge(r, c, [req[r] EXCEPT !.at = "add"])

AddPasskey(r) ==
  /\ At(r, "add")
  /\ req[r].user \in Admins(users)
  /\ Draw(1)
  /\ SaveUser(r, [users[req[r].user] EXCEPT !.passkeys = @ \cup {fresh'}], [req[r] EXCEPT !.at = "mark"])
  /\ UNCHANGED <<caches, outside, grants>>

DeleteCheck(r) ==
  LET account == users[req[r].user] IN
  /\ At(r, "webauthn/delete")
  /\ \E key \in account.passkeys :
       req' = [req EXCEPT ![r].key = key,
                          ![r].at = IF account.totp = 0 /\ Cardinality(account.passkeys) <= 1
                                    THEN "remove_policy" ELSE "remove"]
  /\ UNCHANGED <<stores, caches, outside, fresh, grants>>

RemovePasskey(r) ==
  /\ At(r, "remove")
  /\ req[r].key \in users[req[r].user].passkeys
  /\ SaveUser(r, [users[req[r].user] EXCEPT !.passkeys = @ \ {req[r].key}], Idle)
  /\ UNCHANGED <<caches, outside, fresh, grants>>

LoginConsume(r) ==
  /\ Public(r, "webauthn/login/verify")
  /\ \E c \in challenges : c.kind = "login" /\ ConsumeChallenge(r, c, [Idle EXCEPT !.at = "assert"])

TwoFactorConsume(r) ==
  /\ At(r, "webauthn/2fa/verify")
  /\ \E c \in challenges : c.kind = "2fa" /\ c.user = req[r].user
                           /\ ConsumeChallenge(r, c, [req[r] EXCEPT !.at = "assert"])

\* The assertion names a passkey: of any account, or of the one whose password
\* was given.
VerifyAssertion(r) ==
  /\ At(r, "assert")
  /\ \E u \in Users : \E key \in users[u].passkeys :
       /\ req[r].user \in {u, NoUser}
       /\ req' = [req EXCEPT ![r].user = u, ![r].key = key, ![r].at = "count"]
  /\ UNCHANGED <<stores, caches, outside, fresh, grants>>

\* The counter is in module WebAuthn; saving it saves the whole list.  A passkey that
\* is gone by now is not an error.
UpdateSignCount(r) ==
  LET next == [req[r] EXCEPT !.at = IF req[r].cookie # 0 THEN "drop" ELSE "issue"] IN
  /\ At(r, "count")
  /\ IF req[r].key \in users[req[r].user].passkeys
     THEN SaveUser(r, users[req[r].user], next)
     ELSE req' = [req EXCEPT ![r] = next] /\ UNCHANGED stores
  /\ UNCHANGED <<caches, outside, fresh, grants>>

-----------------------------------------------------------------------------
(* The clock, and the process.                                             *)

Tick ==
  /\ now < scenario.MaxStep
  /\ now' = now + 1
  /\ UNCHANGED <<stores, caches, require_2fa, restarts, scenario, fresh, req, grants>>

Expire ==
  /\ \/ /\ \E s \in sessions : sessions' = sessions \ {s}
        /\ UNCHANGED <<pending_mfa, pending_totp, challenges>>
     \/ /\ \E p \in pending_mfa : pending_mfa' = pending_mfa \ {p}
        /\ UNCHANGED <<sessions, pending_totp, challenges>>
     \/ /\ \E u \in Users : pending_totp[u] # 0 /\ pending_totp' = [pending_totp EXCEPT ![u] = 0]
        /\ UNCHANGED <<sessions, pending_mfa, challenges>>
     \/ /\ \E c \in challenges : challenges' = challenges \ {c}
        /\ UNCHANGED <<sessions, pending_mfa, pending_totp>>
  /\ UNCHANGED <<stores, last_totp_step, outside, fresh, req, grants>>

Init ==
  /\ scenario \in Scenarios
  /\ disk = scenario.accounts
  /\ users = disk
  /\ enrolled = {u \in Users : HasFactor(disk[u])}
  /\ last_totp_step = [u \in Users |-> 0]
  /\ sessions = {}
  /\ pending_mfa = {}
  /\ pending_totp = [u \in Users |-> 0]
  /\ challenges = {}
  /\ req = [r \in Requests |-> Idle]
  /\ require_2fa \in BOOLEAN
  /\ now = 1
  /\ fresh = FirstFresh
  /\ restarts = 0
  /\ grants = {}

\* A crash or a signal, and a new process: the users are what users.yaml has,
\* require_2fa is what the configuration file has, the rest is gone.
Restart ==
  /\ restarts < scenario.MaxRestarts
  /\ restarts' = restarts + 1
  /\ users' = disk
  /\ last_totp_step' = [u \in Users |-> 0]
  /\ sessions' = {}
  /\ pending_mfa' = {}
  /\ pending_totp' = [u \in Users |-> 0]
  /\ challenges' = {}
  /\ req' = [r \in Requests |-> Idle]
  /\ require_2fa' \in BOOLEAN
  /\ UNCHANGED <<disk, enrolled, now, fresh, scenario, grants>>

Handle(r) ==
  \/ Gate(r) \/ Refuse(r) \/ Missing(r) \/ RandFails(r) \/ Policy(r) \/ DropPending(r) \/ IssueSession(r)
  \/ \E u \in Users : SetupCheck(r, u) \/ Login(r, u) \/ UsersCreate(r, u) \/ UsersDelete(r, u)
  \/ SetupCreate(r) \/ MfaChallenge(r) \/ Logout(r) \/ SecurityConfig(r)
  \/ ValidatePending(r) \/ TotpVerify(r) \/ ConsumeTotpStep(r) \/ ConsumeBackupCode(r)
  \/ TotpSetup(r) \/ TotpConfirm(r) \/ SetTotp(r) \/ SeedTotpStep(r) \/ ClearPendingTotp(r)
  \/ MarkMfaSatisfied(r) \/ VerifyPassword(r) \/ OnlyFactorPolicy(r) \/ ClearTotp(r)
  \/ RegenerateBackupCodes(r)
  \/ WebauthnFind(r) \/ StartRegister(r) \/ Start2fa(r) \/ StartLogin(r) \/ UserHandle(r)
  \/ RegisterConsume(r) \/ AddPasskey(r) \/ DeleteCheck(r) \/ RemovePasskey(r)
  \/ LoginConsume(r) \/ TwoFactorConsume(r) \/ VerifyAssertion(r) \/ UpdateSignCount(r)

Next == Tick \/ Expire \/ Restart \/ \E r \in Requests : Handle(r)

Spec == Init /\ [][Next]_vars

-----------------------------------------------------------------------------
(* Properties.                                                             *)

Labels ==
  PublicRoutes \cup GatedRoutes \cup
  {"idle", "policy", "drop", "issue", "challenge", "step", "set_totp", "seed", "clear_pending",
   "mark", "clear_policy", "remove_policy", "clear", "regen", "start register", "start 2fa",
   "handle", "add", "remove", "assert", "count"}

\* What was drawn was drawn before, a code is marked used only in the list it
\* belongs to, and no two entries of a store share a token.
TypeOK ==
  /\ \A store \in {users, disk} :
       /\ store \in [Users -> Account]
       /\ \A u \in Users : store[u].used \subseteq store[u].codes
  /\ last_totp_step \in [Users -> Nat] /\ pending_totp \in [Users -> 0..fresh]
  /\ sessions \subseteq [token : 1..fresh, user : Users, needs : BOOLEAN]
  /\ pending_mfa \subseteq [token : 1..fresh, user : Users]
  /\ challenges \subseteq [kind : {"register", "2fa", "login"}, user : Users \cup {NoUser},
                           token : 0..fresh, val : 1..fresh]
  /\ \A s, t \in sessions : s.token = t.token => s = t
  /\ require_2fa \in BOOLEAN /\ now \in Nat /\ fresh \in Nat /\ restarts \in Nat
  /\ req \in [Requests -> [at : Labels, user : Users \cup {NoUser}, cookie : Nat, val : Nat,
                           key : Nat, needs : BOOLEAN,
                           via : {"none", "setup", "password", "totp", "code", "passkey"}]]
  /\ scenario \in Scenarios /\ enrolled \subseteq Users

\* Two sessions issued for one and the same thing shown by one user.
GrantedTwice(via) ==
  \E g, h \in grants : g # h /\ g.via = via /\ h.via = via /\ g.user = h.user /\ g.val = h.val

\* handle_auth_setup: however many first-run requests race, and whatever is
\* deleted afterwards, one of them at most becomes an admin in a process's life.
SetupOpensOneSession ==
  \A g, h \in grants : g.via = "setup" /\ h.via = "setup" /\ g.life = h.life => g = h

\* UserStore::remove: once there is an account, in memory or in users.yaml,
\* there always is; only a restart may fall back on a file that has none.
NeverLockedOut ==
  [][/\ Admins(disk) # {} => Admins(disk') # {}
     /\ restarts' = restarts /\ Admins(users) # {} => Admins(users') # {}]_vars

\* consume_backup_code: a backup code opens one session at most, across failed
\* saves, restarts and new batches.
BackupCodeOpensOneSession == ~GrantedTwice("code")

\* consume_totp_step: the code of a time step opens one session of a user at
\* most for as long as the process lives.
TotpStepOpensOneSession ==
  \A g, h \in grants :
    g.via = "totp" /\ h.via = "totp" /\ g.user = h.user /\ g.val = h.val /\ g.life = h.life => g = h

\* ChallengeStore::consume: a challenge opens one session at most.
ChallengeOpensOneSession == ~GrantedTwice("passkey")

\* What may be shown once opens one session, whatever requests race, saves fail
\* and processes restart in between; what the requests hold and the stores keep
\* stays of its type.
OneSessionPerSecret ==
  /\ TypeOK
  /\ SetupOpensOneSession /\ BackupCodeOpensOneSession
  /\ TotpStepOpensOneSession /\ ChallengeOpensOneSession

\* is_mfa_setup_allowed_route: a session that is held at enrolment gets out of
\* it only after a second factor of its user has reached users.yaml.
FlagLiftedByEnrolment ==
  [][\A s \in sessions, t \in sessions' :
       s.token = t.token /\ s.needs /\ ~t.needs => s.user \in enrolled]_vars

\* handle_webauthn_delete: "cannot remove your only second factor while
\* security.require_2fa is enabled".
OnlyFactorStays ==
  [][\A u \in Users :
       require_2fa /\ HasFactor(users[u]) /\ users'[u].salt # 0 /\ restarts' = restarts
         => HasFactor(users'[u])]_vars

-----------------------------------------------------------------------------
(***************************************************************************)
(* The inductive invariant behind the safety properties.  What a session   *)
(* is issued for is a ticket: a grant, or what a request has shown and     *)
(* will be granted a session for (its token is then not drawn yet).        *)
(***************************************************************************)
OneShot == {"setup", "code", "totp", "passkey"}

Tickets == [token : Nat, user : Users \cup {NoUser}, val : Nat, life : Nat,
            via : {"none", "setup", "password", "totp", "code", "passkey"}]

\* A request that has shown its secret, and the store has taken note.
Held(q) == q.via \in OneShot /\ q.at \notin {"setup", "step"}

Ticket(q, life) ==
  [token |-> 0, user |-> q.user, via |-> q.via, val |-> q.val, life |-> life]

\* Two tickets for what may be shown once only.
SameSecret(a, b) ==
  /\ a.via = b.via
  /\ \/ a.via = "setup" /\ a.life = b.life
     \/ a.via = "code" /\ a.user = b.user /\ a.val = b.val
     \/ a.via = "totp" /\ a.user = b.user /\ a.val = b.val /\ a.life = b.life
     \/ a.via = "passkey" /\ a.val = b.val

\* The stores accept it no more: not now, and not after a restart.
Gone(t) ==
  \/ /\ t.via = "setup"
     /\ t.life < restarts \/ (t.life = restarts /\ Admins(users) # {})
  \/ /\ t.via = "code" /\ t.user \in Users /\ t.val <= fresh
     /\ t.val \notin Unused(users[t.user]) \cup Unused(disk[t.user])
  \/ /\ t.via = "totp" /\ t.user \in Users
     /\ t.life < restarts \/ (t.life = restarts /\ t.val <= last_totp_step[t.user])
  \/ /\ t.via = "passkey" /\ t.val <= fresh
     /\ \A c \in challenges : c.val # t.val

\* Every secret that was shown is gone, and was shown for one ticket only.
SecretInv ==
  /\ grants \subseteq Tickets
  /\ \A g \in grants : g.via \in OneShot => Gone(g)
  /\ \A g, h \in grants : SameSecret(g, h) => g = h
  /\ \A r \in Requests : Held(req[r]) =>
       /\ Gone(Ticket(req[r], restarts))
       /\ \A g \in grants : ~SameSecret(Ticket(req[r], restarts), g)
       /\ \A q \in Requests :
            Held(req[q]) /\ SameSecret(Ticket(req[r], restarts), Ticket(req[q], restarts)) => q = r

\* Codes are values drawn before, who has none of salt has no factor either, and
\* no two challenges are the same.
StoreInv ==
  /\ \A store \in {users, disk} : \A u \in Users :
       /\ \A code \in store[u].codes : code <= fresh
       /\ store[u].salt = 0 => store[u].codes = {} /\ store[u].passkeys = {}
  /\ \A c, d \in challenges : c.val = d.val => c = d

\* What a handler has shown, and where it then is; whose session it came with.
Enrolling == {"totp/confirm", "set_totp", "seed", "clear_pending", "register/verify", "add", "mark"}

ReqInv(r) ==
  LET q == req[r] IN
  /\ q.at \notin {"idle", "assert"} => q.user \in Users
  /\ q.via = "setup" => q.at \in {"setup", "policy", "issue"}
  /\ q.via = "totp" => q.at \in {"step", "drop", "issue"}
  /\ q.via = "code" => q.at \in {"drop", "issue"}
  /\ q.via = "passkey" => q.at \in {"add", "mark", "assert", "count", "drop", "issue"}
  /\ q.at = "setup" => q.via = "setup"
  /\ q.at = "step" => q.via = "totp"
  /\ q.cookie <= fresh
  /\ q.at = "set_totp" => q.key # 0
  /\ q.at \in {"seed", "clear_pending", "mark"} => q.user \in enrolled
  /\ q.at \in Enrolling => \A s \in sessions : s.token = q.cookie => s.user = q.user

IInv == TypeOK /\ StoreInv /\ SecretInv /\ \A r \in Requests : ReqInv(r)
=============================================================================
