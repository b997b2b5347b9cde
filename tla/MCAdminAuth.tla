----------------------------- MODULE MCAdminAuth -----------------------------
EXTENDS AdminAuth, TLC

CONSTANTS u1, u2

Symmetric == Permutations(Requests)

Play(first, second, routes, draws, restart, steps) ==
  [accounts |-> u1 :> first @@ u2 :> second, routes |-> routes,
   MaxFresh |-> FirstFresh + draws, MaxRestarts |-> restart, MaxStep |-> steps]

\* First-run setup and the user list, on every store of plain accounts, up to the names.
Accounts ==
  {Play(start[1], start[2], {"setup", "login", "users/create", "users/delete"}, start[3], 1, 1) :
     start \in {<<NoAccount, NoAccount, 4>>, <<Plain, NoAccount, 3>>, <<Plain, Plain, 3>>}}

\* Second steps of logins with codes of either kind, and with one-time codes
\* while their window moves on.
Codes ==
  {Play(WithTotp, NoAccount, {"login", "totp/verify", "backup-code/verify", "regenerate"}, 4, 1, 1),
   Play(WithTotp, NoAccount, {"login", "totp/verify"}, 4, 1, 2)}

\* Enrolment and removal of a factor of either kind under a policy that changes.
Enrolment ==
  {Play(Plain, NoAccount, {"login", "logout", "security-config"} \cup factor, 4, 0, 1) :
     factor \in {{"totp/setup", "totp/confirm", "totp/disable"},
                 {"register/options", "register/verify", "webauthn/delete"}}}

\* Passkeys, for a login without a password and for a second step.
Passkeys ==
  {Play(WithPasskeys, NoAccount, {"login", "webauthn/login/options", "webauthn/login/verify",
                                  "webauthn/2fa/options", "webauthn/2fa/verify"}, 4, 1, 1)}

\* Removal of passkeys under a policy that stays.
Removal ==
  {Play(WithPasskeys, NoAccount, {"login", "webauthn/login/options", "webauthn/login/verify",
                                  "webauthn/delete"}, 4, 0, 1)}

MCScenarios == Accounts \cup Codes \cup Enrolment \cup Passkeys
=============================================================================
