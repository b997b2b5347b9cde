--------------------------- MODULE AdminAuthProofs ---------------------------
(***************************************************************************)
(* The safety properties of AdminAuth, for any accounts, any number of     *)
(* requests handled at the same time and any bounds of the scenarios.      *)
(*                                                                         *)
(* Every step but IssueSession and Restart moves one request and takes the *)
(* stores forward: what is gone from them stays gone.  RequestStep says    *)
(* that this keeps the invariant, so an action is proved by saying what it *)
(* does to the stores and where its request then is.                       *)
(***************************************************************************)
EXTENDS AdminAuth, TLAPS

Req == [at : Labels, user : Users \cup {NoUser}, cookie : Nat, val : Nat,
        key : Nat, needs : BOOLEAN,
        via : {"none", "setup", "password", "totp", "code", "passkey"}]

\* TypeOK and StoreInv, without the requests.
StoresOK ==
  /\ \A store \in {users, disk} :
       /\ store \in [Users -> Account]
       /\ \A u \in Users : store[u].used \subseteq store[u].codes
  /\ last_totp_step \in [Users -> Nat] /\ pending_totp \in [Users -> 0..fresh]
  /\ sessions \subseteq [token : 1..fresh, user : Users, needs : BOOLEAN]
  /\ pending_mfa \subseteq [token : 1..fresh, user : Users]
  /\ challenges \subseteq [kind : {"register", "2fa", "login"}, user : Users \cup {NoUser},
                           token : 0..fresh, val : 1..fresh]
  /\ \A s, t \in sessions : s.token = t.token => s = t
  /\ require_2fa \in BOOLEAN /\ now \in Nat /\ fresh \in Nat /\ restarts \in Nat
  /\ scenario \in Scenarios /\ enrolled \subseteq Users
  /\ StoreInv

LEMMA Parts == IInv <=> /\ StoresOK /\ SecretInv /\ req \in [Requests -> Req]
                        /\ \A r \in Requests : ReqInv(r)
  BY DEF IInv, TypeOK, StoresOK, Req

LEMMA RoutesAreLabels == PublicRoutes \subseteq Labels /\ GatedRoutes \subseteq Labels
  BY DEF Labels

LEMMA WindowIsNat == StoresOK => Window \subseteq Nat
<1> SUFFICES ASSUME StoresOK PROVE Window \subseteq Nat
  OBVIOUS
<1>1. scenario \in Scenario
  BY AdminAuthAssumption DEF StoresOK
<1>2. scenario.MaxStep \in Nat
  BY <1>1 DEF Scenario
<1> QED BY <1>2 DEF Window

\* What no step takes back: what was drawn stays drawn, what was used stays used
\* and who is enrolled stays so, until the process ends.
Forward ==
  /\ restarts' = restarts /\ fresh <= fresh' /\ enrolled \subseteq enrolled'
  /\ \A s \in sessions' :
       s.token > fresh \/ \E t \in sessions : t.token = s.token /\ t.user = s.user
  /\ \A u \in Users :
       /\ last_totp_step[u] <= last_totp_step'[u]
       /\ \A n \in Unused(users'[u]) : n \in Unused(users[u]) \/ n > fresh
       /\ \A n \in Unused(disk'[u]) :
            n \in Unused(users[u]) \cup Unused(disk[u]) \/ n > fresh
  /\ Admins(users) # {} => Admins(users') # {}
  /\ \A c \in challenges' : c \in challenges \/ c.val > fresh

-----------------------------------------------------------------------------
(***************************************************************************)
(* Tickets                                                                 *)
(***************************************************************************)

LEMMA SameIsEquivalence ==
  ASSUME NEW a, NEW b, NEW c
  PROVE  /\ SameSecret(a, b) => SameSecret(b, a)
         /\ SameSecret(a, b) /\ SameSecret(b, c) => SameSecret(a, c)
  BY DEF SameSecret

LEMMA SameIsGone ==
  ASSUME NEW a, NEW b, SameSecret(a, b), Gone(a)
  PROVE  Gone(b)
  BY DEF SameSecret, Gone

\* For what a ticket in the next state may be.
LEMMA GoneStays ==
  ASSUME StoresOK, StoresOK', Forward, NEW t \in Tickets, Gone(t)
  PROVE  Gone(t)'
<1>1. fresh \in Nat /\ fresh' \in Nat /\ restarts \in Nat /\ t.val \in Nat
  BY DEF StoresOK, Tickets
<1>2. CASE t.via = "setup"
  BY <1>2 DEF Gone, Forward
<1>3. CASE t.via = "code"
  <2>1. t.user \in Users /\ t.val <= fresh
        /\ t.val \notin Unused(users[t.user]) \cup Unused(disk[t.user])
    BY <1>3 DEF Gone
  <2>2. t.val \notin Unused(users'[t.user])
    BY <1>1, <2>1 DEF Forward
  <2>3. t.val \notin Unused(disk'[t.user])
    BY <1>1, <2>1 DEF Forward
  <2>4. t.val <= fresh'
    BY <1>1, <2>1 DEF Forward
  <2> QED BY <1>3, <2>1, <2>2, <2>3, <2>4 DEF Gone, Unused
<1>4. CASE t.via = "totp"
  <2>1. t.user \in Users
    BY <1>4 DEF Gone
  <2>2. last_totp_step[t.user] \in Nat /\ last_totp_step'[t.user] \in Nat
    BY <2>1 DEF StoresOK
  <2>3. last_totp_step[t.user] <= last_totp_step'[t.user] /\ restarts' = restarts
    BY <2>1 DEF Forward
  <2> QED BY <1>1, <1>4, <2>1, <2>2, <2>3 DEF Gone
<1>5. CASE t.via = "passkey"
  <2>1. t.val <= fresh /\ \A c \in challenges : c.val # t.val
    BY <1>5 DEF Gone
  <2>2. \A c \in challenges' : c.val \in Nat
    BY DEF StoresOK
  <2>3. \A c \in challenges' : c.val # t.val
    BY <1>1, <2>1, <2>2 DEF Forward
  <2>4. t.val <= fresh'
    BY <1>1, <2>1 DEF Forward
  <2> QED BY <1>5, <2>3, <2>4 DEF Gone
<1> QED BY <1>2, <1>3, <1>4, <1>5 DEF Gone

LEMMA TicketType ==
  ASSUME NEW q \in Req, NEW life \in Nat
  PROVE  Ticket(q, life) \in Tickets
  BY DEF Ticket, Tickets, Req

-----------------------------------------------------------------------------
(***************************************************************************)
(* Steps that take the stores forward                                      *)
(***************************************************************************)

\* What holds of a request that does not move goes on to hold.
LEMMA OthersKept ==
  ASSUME IInv, StoresOK', Forward, NEW q \in Requests, req'[q] = req[q]
  PROVE  ReqInv(q)'
<1>1. req[q].cookie \in Nat /\ req[q].cookie <= fresh /\ ReqInv(q)
  BY Parts DEF Req, ReqInv
<1>2. fresh \in Nat /\ fresh' \in Nat /\ fresh <= fresh' /\ enrolled \subseteq enrolled'
  BY Parts DEF StoresOK, Forward
<1>3. ASSUME req[q].at \in Enrolling, NEW s \in sessions', s.token = req[q].cookie
      PROVE  s.user = req[q].user
  <2>1. s.token \in Nat
    BY DEF StoresOK
  <2>2. PICK t \in sessions : t.token = s.token /\ t.user = s.user
    BY <1>1, <1>2, <1>3, <2>1 DEF Forward
  <2> QED BY <1>1, <1>3, <2>2 DEF ReqInv
<1>4. req[q].cookie <= fresh'
  BY <1>1, <1>2
<1> QED BY <1>1, <1>2, <1>3, <1>4 DEF ReqInv, Enrolling

\* The request that moves keeps the ticket it has, or takes one that was not
\* gone before and is gone now.
Takes(r) ==
  Held(req'[r]) =>
    \/ Held(req[r]) /\ SameSecret(Ticket(req[r], restarts), Ticket(req'[r], restarts))
    \/ ~Gone(Ticket(req'[r], restarts)) /\ Gone(Ticket(req[r], restarts))'

LEMMA RequestStep ==
  ASSUME IInv, StoresOK', Forward, grants' = grants, NEW r \in Requests,
         req' \in [Requests -> Req], \A q \in Requests \ {r} : req'[q] = req[q],
         ReqInv(r)', Takes(r)
  PROVE  IInv'
<1>1. StoresOK /\ SecretInv /\ req \in [Requests -> Req]
  BY Parts
<1>2. restarts' = restarts /\ restarts \in Nat
  BY <1>1 DEF Forward, StoresOK
<1>3. \A q \in Requests : ReqInv(q)'
  BY OthersKept
<1>4. \A t \in Tickets : Gone(t) => Gone(t)'
  BY <1>1, GoneStays
<1>5. \A q \in Requests : /\ Ticket(req[q], restarts) \in Tickets
                          /\ Ticket(req'[q], restarts) \in Tickets
  BY <1>1, <1>2, TicketType
<1> DEFINE old(q) == Ticket(req[q], restarts)
           new(q) == Ticket(req'[q], restarts)
<1>6. \A q \in Requests : Ticket(req[q], restarts)' = new(q)
  BY <1>2
<1>7. \A q \in Requests : (Held(req[q])' <=> Held(req'[q]))
  OBVIOUS
<1>8. /\ grants \subseteq Tickets
      /\ \A g \in grants : g.via \in OneShot => Gone(g)
      /\ \A g, h \in grants : SameSecret(g, h) => g = h
      /\ \A q \in Requests : Held(req[q]) =>
           /\ Gone(old(q))
           /\ \A g \in grants : ~SameSecret(old(q), g)
           /\ \A p \in Requests : Held(req[p]) /\ SameSecret(old(q), old(p)) => p = q
  BY <1>1 DEF SecretInv
<1>9. \A q \in Requests \ {r} : new(q) = old(q) /\ (Held(req'[q]) <=> Held(req[q]))
  OBVIOUS
<1>10. \A g \in grants' : g.via \in OneShot => Gone(g)'
  BY <1>4, <1>8
<1>11. \A g \in grants : SameSecret(new(r), g) => g.via \in OneShot
  BY DEF SameSecret, OneShot
<1> HIDE DEF old, new
<1>12. ASSUME Held(req'[r])
       PROVE  /\ Gone(Ticket(req[r], restarts))'
              /\ \A g \in grants : ~SameSecret(new(r), g)
              /\ \A p \in Requests \ {r} : Held(req[p]) => ~SameSecret(new(r), old(p))
  <2>1. CASE Held(req[r]) /\ SameSecret(old(r), new(r))
    <3>1. Gone(new(r))
      BY <2>1, <1>8, SameIsGone
    <3>2. Gone(Ticket(req[r], restarts))'
      <4>1. new(r) \in Tickets
        BY <1>5 DEF new
      <4>2. PICK t \in Tickets : t = new(r)
        BY <4>1
      <4>3. Gone(t)'
        BY <4>2, <3>1, <1>4
      <4> QED BY <4>2, <4>3, <1>6 DEF Gone
    <3>3. \A g : SameSecret(new(r), g) => SameSecret(old(r), g)
      BY <2>1, SameIsEquivalence
    <3> QED BY <2>1, <1>8, <3>2, <3>3
  <2>2. CASE ~Gone(new(r)) /\ Gone(Ticket(req[r], restarts))'
    <3>1. \A g : Gone(g) => ~SameSecret(new(r), g)
      BY <2>2, SameIsGone, SameIsEquivalence
    <3> QED BY <2>2, <3>1, <1>8, <1>11
  <2> QED BY <1>12, <2>1, <2>2 DEF Takes, old, new
<1>13. ASSUME NEW q \in Requests, Held(req'[q])
       PROVE  /\ Gone(Ticket(req[q], restarts))'
              /\ \A g \in grants : ~SameSecret(new(q), g)
              /\ \A p \in Requests : Held(req'[p]) /\ SameSecret(new(q), new(p)) => p = q
  <2>1. CASE q = r
    BY <1>12, <1>13, <1>9, <2>1
  <2>2. CASE q # r
    <3>1. Held(req[q]) /\ new(q) = old(q)
      BY <1>9, <1>13, <2>2
    <3>2. Gone(Ticket(req[q], restarts))'
      <4>1. PICK t \in Tickets : t = new(q)
        BY <1>5 DEF new
      <4>2. Gone(t)'
        BY <4>1, <3>1, <1>8, <1>4
      <4> QED BY <4>1, <4>2, <1>6 DEF Gone
    <3>3. ASSUME NEW p \in Requests, Held(req'[p]), SameSecret(new(q), new(p))
          PROVE  p = q
      <4>1. CASE p = r
        <5>1. SameSecret(new(r), old(q))
          BY <3>1, <3>3, <4>1, SameIsEquivalence
        <5> QED BY <5>1, <1>12, <3>1, <3>3, <4>1, <2>2
      <4>2. CASE p # r
        BY <4>2, <1>9, <3>3, <3>1, <1>8
      <4> QED BY <4>1, <4>2
    <3> QED BY <3>1, <3>2, <3>3, <1>8
  <2> QED BY <2>1, <2>2
<1>14. SecretInv'
  BY <1>6, <1>7, <1>8, <1>10, <1>13 DEF SecretInv
<1> QED BY <1>3, <1>14 DEF IInv, TypeOK, StoresOK, Req

LEMMA Quiet ==
  ASSUME IInv, UNCHANGED <<stores, caches, fresh, restarts, scenario>>,
         require_2fa' \in BOOLEAN, now' \in Nat
  PROVE  StoresOK' /\ Forward
<1>1. StoresOK
  BY Parts
<1>2. StoresOK'
  BY <1>1 DEF StoresOK, StoreInv, stores, caches
<1>3. Forward
  BY <1>1 DEF Forward, StoresOK, stores, caches
<1> QED BY <1>2, <1>3

LEMMA EndStep ==
  ASSUME IInv, StoresOK', Forward, grants' = grants, NEW r \in Requests, End(r)
  PROVE  IInv'
<1>1. req \in [Requests -> Req] /\ fresh' \in Nat
  BY Parts DEF StoresOK
<1>2. Idle \in Req
  BY DEF Idle, Req, Labels
<1>3. req'[r] = Idle /\ req' \in [Requests -> Req]
      /\ \A q \in Requests \ {r} : req'[q] = req[q]
  BY <1>1, <1>2 DEF End
<1>4. ReqInv(r)'
  BY <1>1, <1>3 DEF ReqInv, Idle, Enrolling
<1>5. Takes(r)
  BY <1>3 DEF Takes, Held, Idle, OneShot
<1> QED BY <1>3, <1>4, <1>5, RequestStep

LEMMA SameTicket ==
  ASSUME NEW p, NEW q, NEW life, Held(p),
         p.via = q.via, p.user = q.user \/ q.via = "passkey", p.val = q.val
  PROVE  SameSecret(Ticket(p, life), Ticket(q, life))
  BY DEF Held, OneShot, SameSecret, Ticket

\* One request moves.
Moves(r) ==
  req' \in [Requests -> Req] /\ \A q \in Requests \ {r} : req'[q] = req[q]

\* It does so with nothing to show, or with what it had.
LEMMA GoStep ==
  ASSUME IInv, StoresOK', Forward, grants' = grants, NEW r \in Requests, Moves(r), ReqInv(r)',
         \/ ~Held(req'[r])
         \/ /\ Held(req[r]) /\ req[r].via = req'[r].via /\ req[r].val = req'[r].val
            /\ req[r].user = req'[r].user \/ req'[r].via = "passkey"
  PROVE  IInv'
<1>1. Takes(r)
  BY SameTicket DEF Takes
<1> QED BY <1>1, RequestStep DEF Moves

-----------------------------------------------------------------------------
(***************************************************************************)
(* The actions that change nothing but their request                       *)
(***************************************************************************)

LEMMA QuietSteps ==
  ASSUME IInv, NEW r \in Requests, UNCHANGED <<stores, caches, outside, fresh, grants>>,
         \/ Gate(r) \/ Refuse(r) \/ Missing(r) \/ Policy(r)
         \/ \E u \in Users : SetupCheck(r, u) \/ Login(r, u)
         \/ ValidatePending(r) \/ TotpVerify(r) \/ TotpConfirm(r) \/ VerifyPassword(r)
         \/ OnlyFactorPolicy(r) \/ WebauthnFind(r) \/ DeleteCheck(r) \/ VerifyAssertion(r)
  PROVE  IInv'
<1> DEFINE q == req[r]
<1>1. StoresOK /\ q \in Req /\ req \in [Requests -> Req] /\ ReqInv(r)
  BY Parts
<1>2. StoresOK' /\ Forward /\ grants' = grants
  BY Quiet, <1>1 DEF outside, StoresOK
<1>3. fresh \in Nat /\ fresh' = fresh /\ sessions' = sessions /\ enrolled' = enrolled
  BY <1>1 DEF StoresOK, stores, caches
<1>a. /\ q.at \in Labels /\ q.user \in Users \cup {NoUser} /\ q.cookie \in Nat /\ q.val \in Nat
      /\ q.key \in Nat /\ q.needs \in BOOLEAN
      /\ q.via \in {"none", "setup", "password", "totp", "code", "passkey"}
  BY <1>1 DEF Req
<1>b. require_2fa \in BOOLEAN
  BY <1>1 DEF StoresOK
<1>4. CASE End(r)
  BY <1>2, <1>4, EndStep
<1>5. CASE Gate(r)
  <2>1. PICK s \in sessions, route \in GatedRoutes :
          req' = [req EXCEPT ![r] = [Idle EXCEPT !.at = route, !.user = s.user, !.cookie = s.token]]
    BY <1>5 DEF Gate
  <2>2. s.user \in Users /\ s.token \in 1..fresh /\ \A t \in sessions : t.token = s.token => t = s
    BY <1>1 DEF StoresOK
  <2>t. route \in Labels /\ s.token \in Nat
    BY <1>3, <2>2, RoutesAreLabels
  <2>3. Moves(r)
    BY <1>1, <2>1, <2>2, <2>t DEF Moves, Req, Idle
  <2>4. /\ req'[r].at = route /\ req'[r].user = s.user /\ req'[r].cookie = s.token
        /\ req'[r].via = "none"
    BY <1>1, <2>1 DEF Idle
  <2>5. ReqInv(r)'
    BY <1>3, <2>2, <2>4 DEF ReqInv, GatedRoutes, MfaSetupRoutes
  <2>6. ~Held(req'[r])
    BY <2>4 DEF Held, OneShot
  <2> QED BY <1>2, <2>3, <2>5, <2>6, GoStep
<1>6. CASE Policy(r)
  <2>1. Moves(r)
    BY <1>6, <1>1, <1>b DEF Moves, Policy, Req, Labels
  <2>2. /\ q.at = "policy" /\ req'[r].at = "issue" /\ req'[r].user = q.user
        /\ req'[r].cookie = q.cookie /\ req'[r].via = q.via /\ req'[r].val = q.val
    BY <1>6, <1>1, <1>a DEF Policy, At, Req
  <2>3. ReqInv(r)'
    BY <1>1, <1>3, <2>2 DEF ReqInv, Enrolling
  <2>4. Held(req'[r]) => Held(q)
    BY <2>2 DEF Held
  <2> QED BY <1>2, <2>1, <2>2, <2>3, <2>4, GoStep
<1>7. CASE \E u \in Users : SetupCheck(r, u)
  <2>1. PICK u \in Users :
          req' = [req EXCEPT ![r] = [Idle EXCEPT !.at = "setup", !.user = u, !.via = "setup"]]
    BY <1>7 DEF SetupCheck
  <2>2. "setup" \in Labels
    BY DEF Labels, PublicRoutes
  <2>3. Moves(r)
    BY <1>1, <2>1, <2>2 DEF Moves, Req, Idle
  <2>4. req'[r].at = "setup" /\ req'[r].user = u /\ req'[r].cookie = 0 /\ req'[r].via = "setup"
    BY <1>1, <2>1 DEF Idle
  <2>5. ReqInv(r)'
    BY <1>3, <2>4 DEF ReqInv, Enrolling
  <2>6. ~Held(req'[r])
    BY <2>4 DEF Held
  <2> QED BY <1>2, <2>3, <2>5, <2>6, GoStep
<1>8. CASE \E u \in Users : Login(r, u)
  <2>1. PICK u \in Users, l \in {"challenge", "policy"} :
          req' = [req EXCEPT ![r] = [Idle EXCEPT !.user = u, !.via = "password", !.at = l]]
    BY <1>8 DEF Login
  <2>2. l \in Labels
    BY DEF Labels
  <2>3. Moves(r)
    BY <1>1, <2>1, <2>2 DEF Moves, Req, Idle
  <2>4. req'[r].at = l /\ req'[r].user = u /\ req'[r].cookie = 0 /\ req'[r].via = "password"
    BY <1>1, <2>1 DEF Idle
  <2>5. ReqInv(r)'
    BY <1>3, <2>4 DEF ReqInv, Enrolling
  <2>6. ~Held(req'[r])
    BY <2>4 DEF Held, OneShot
  <2> QED BY <1>2, <2>3, <2>5, <2>6, GoStep
<1>9. CASE ValidatePending(r)
  <2>1. PICK p \in pending_mfa, route \in PublicRoutes :
          /\ route \notin Enrolling \cup {"idle", "setup"}
          /\ req' = [req EXCEPT ![r] = [Idle EXCEPT !.at = route, !.user = p.user, !.cookie = p.token]]
    BY <1>9 DEF ValidatePending, PublicRoutes, Enrolling
  <2>2. p.user \in Users /\ p.token \in Nat /\ p.token <= fresh /\ route \in Labels
    BY <1>1, <1>3, RoutesAreLabels DEF StoresOK
  <2>3. Moves(r)
    BY <1>1, <2>1, <2>2 DEF Moves, Req, Idle
  <2>4. /\ req'[r].at = route /\ req'[r].user = p.user /\ req'[r].cookie = p.token
        /\ req'[r].via = "none"
    BY <1>1, <2>1 DEF Idle
  <2>5. ReqInv(r)'
    BY <1>3, <2>1, <2>2, <2>4 DEF ReqInv, PublicRoutes, Enrolling
  <2>6. ~Held(req'[r])
    BY <2>4 DEF Held, OneShot
  <2> QED BY <1>2, <2>3, <2>5, <2>6, GoStep
<1>10. CASE TotpVerify(r)
  <2>1. PICK step \in Nat :
          q.at = "totp/verify" /\ req' = [req EXCEPT ![r].at = "step", ![r].via = "totp", ![r].val = step]
    BY <1>1, <1>10, WindowIsNat DEF TotpVerify, At
  <2>2. "step" \in Labels
    BY DEF Labels
  <2>3. Moves(r)
    BY <1>1, <2>1, <2>2 DEF Moves, Req
  <2>4. /\ req'[r].at = "step" /\ req'[r].user = q.user /\ req'[r].cookie = q.cookie
        /\ req'[r].via = "totp"
    BY <1>1, <2>1 DEF Req
  <2>5. ReqInv(r)'
    BY <1>1, <1>3, <2>1, <2>4 DEF ReqInv, Enrolling
  <2>6. ~Held(req'[r])
    BY <2>4 DEF Held
  <2> QED BY <1>2, <2>3, <2>5, <2>6, GoStep
<1>11. CASE TotpConfirm(r)
  <2>1. PICK step \in Nat :
          /\ q.at = "totp/confirm" /\ pending_totp[q.user] # 0
          /\ req' = [req EXCEPT ![r].at = "set_totp", ![r].key = pending_totp[q.user], ![r].val = step]
    BY <1>1, <1>11, WindowIsNat DEF TotpConfirm, At
  <2>2. "set_totp" \in Labels /\ pending_totp[q.user] \in Nat
    BY <1>1, <1>3, <2>1 DEF Labels, StoresOK, ReqInv
  <2>3. Moves(r)
    BY <1>1, <2>1, <2>2 DEF Moves, Req
  <2>4. /\ req'[r].at = "set_totp" /\ req'[r].user = q.user /\ req'[r].cookie = q.cookie
        /\ req'[r].via = q.via /\ req'[r].key = pending_totp[q.user]
    BY <1>1, <2>1 DEF Req
  <2>5. ReqInv(r)'
    BY <1>1, <1>3, <2>1, <2>4 DEF ReqInv, Enrolling
  <2>6. ~Held(req'[r])
    BY <1>1, <2>1, <2>4 DEF Held, OneShot, ReqInv
  <2> QED BY <1>2, <2>3, <2>5, <2>6, GoStep
\* The handler goes on to another label and keeps all it has.
<1>12. CASE \E l \in {"clear_policy", "regen", "clear", "remove", "start register", "start 2fa"} :
              /\ Go(r, l)
              /\ q.at \in {"totp/disable", "regenerate", "clear_policy", "remove_policy",
                           "register/options", "webauthn/2fa/options"}
  <2>1. PICK l \in {"clear_policy", "regen", "clear", "remove", "start register", "start 2fa"} :
          /\ req' = [req EXCEPT ![r].at = l]
          /\ q.at \in {"totp/disable", "regenerate", "clear_policy", "remove_policy",
                       "register/options", "webauthn/2fa/options"}
    BY <1>12 DEF Go
  <2>2. l \in Labels
    BY DEF Labels
  <2>3. Moves(r)
    BY <1>1, <2>1, <2>2 DEF Moves, Req
  <2>4. /\ req'[r].at = l /\ req'[r].user = q.user /\ req'[r].cookie = q.cookie
        /\ req'[r].via = q.via
    BY <1>1, <2>1 DEF Req
  <2>5. ReqInv(r)'
    BY <1>1, <1>3, <2>1, <2>4 DEF ReqInv, Enrolling
  <2>6. ~Held(req'[r])
    BY <1>1, <2>1, <2>4 DEF Held, OneShot, ReqInv
  <2> QED BY <1>2, <2>3, <2>5, <2>6, GoStep
<1>13. CASE DeleteCheck(r)
  <2>1. PICK key \in users[q.user].passkeys, l \in {"remove_policy", "remove"} :
          /\ q.at = "webauthn/delete"
          /\ req' = [req EXCEPT ![r].key = key, ![r].at = l]
    BY <1>13 DEF DeleteCheck, At
  <2>2. l \in Labels /\ q.user \in Users
    BY <1>1, <2>1 DEF Labels, ReqInv
  <2>3. key \in Nat
    BY <1>1, <2>1, <2>2 DEF StoresOK, Account
  <2>4. Moves(r)
    BY <1>1, <2>1, <2>2, <2>3 DEF Moves, Req
  <2>5. /\ req'[r].at = l /\ req'[r].user = q.user /\ req'[r].cookie = q.cookie
        /\ req'[r].via = q.via
    BY <1>1, <2>1 DEF Req
  <2>6. ReqInv(r)'
    BY <1>1, <1>3, <2>1, <2>5 DEF ReqInv, Enrolling
  <2>7. ~Held(req'[r])
    BY <1>1, <2>1, <2>5 DEF Held, OneShot, ReqInv
  <2> QED BY <1>2, <2>4, <2>6, <2>7, GoStep
<1>14. CASE VerifyAssertion(r)
  <2>0. PICK u \in Users : \E key \in users[u].passkeys :
          req' = [req EXCEPT ![r].user = u, ![r].key = key, ![r].at = "count"]
    BY <1>14 DEF VerifyAssertion
  <2>1. PICK key \in users[u].passkeys :
          /\ q.at = "assert"
          /\ req' = [req EXCEPT ![r].user = u, ![r].key = key, ![r].at = "count"]
    BY <1>14, <2>0 DEF VerifyAssertion, At
  <2>2. "count" \in Labels
    BY DEF Labels
  <2>3. key \in Nat
    BY <1>1 DEF StoresOK, Account
  <2>4. Moves(r)
    BY <1>1, <2>1, <2>2, <2>3 DEF Moves, Req
  <2>5. /\ req'[r].at = "count" /\ req'[r].user = u /\ req'[r].cookie = q.cookie
        /\ req'[r].via = q.via /\ req'[r].val = q.val
    BY <1>1, <2>1 DEF Req
  <2>6. ReqInv(r)'
    BY <1>1, <1>3, <2>1, <2>5 DEF ReqInv, Enrolling
  <2>7. Held(req'[r]) => Held(q) /\ q.via = "passkey"
    BY <1>1, <2>1, <2>5 DEF Held, OneShot, ReqInv
  <2> QED BY <1>2, <2>4, <2>5, <2>6, <2>7, GoStep
<1>15. Refuse(r) \/ Missing(r) => End(r)
  BY DEF Refuse, Missing
<1>16. VerifyPassword(r) \/ OnlyFactorPolicy(r) \/ WebauthnFind(r)
       => \/ End(r)
          \/ \E l \in {"clear_policy", "regen", "clear", "remove", "start register", "start 2fa"} :
               /\ Go(r, l)
               /\ q.at \in {"totp/disable", "regenerate", "clear_policy", "remove_policy",
                            "register/options", "webauthn/2fa/options"}
  BY DEF VerifyPassword, OnlyFactorPolicy, WebauthnFind, At
<1> QED BY <1>4, <1>5, <1>6, <1>7, <1>8, <1>9, <1>10, <1>11, <1>12, <1>13, <1>14, <1>15, <1>16

-----------------------------------------------------------------------------
(***************************************************************************)
(* The actions that change what is kept in memory only                     *)
(***************************************************************************)

\* The requests stay where they are.
LEMMA StillStep ==
  ASSUME IInv, StoresOK', Forward, grants' = grants, req' = req
  PROVE  IInv'
<1>1. StoresOK /\ SecretInv /\ req \in [Requests -> Req]
  BY Parts
<1>2. CASE Requests = {}
  <2>1. \A g \in grants : g.via \in OneShot => Gone(g)'
    BY <1>1, GoneStays DEF SecretInv
  <2>2. SecretInv'
    BY <1>1, <1>2, <2>1 DEF SecretInv
  <2> QED BY <1>1, <1>2, <2>2 DEF IInv, TypeOK, StoresOK, Req
<1>3. ASSUME NEW r \in Requests
      PROVE  IInv'
  <2>1. ReqInv(r)' /\ Moves(r)
    BY <1>1, OthersKept DEF Moves
  <2> QED BY <2>1, GoStep
<1> QED BY <1>2, <1>3

\* Each cache is left alone or changed to one that is of its type and goes forward.
CachesForward ==
  /\ \/ last_totp_step' = last_totp_step
     \/ /\ last_totp_step' \in [Users -> Nat]
        /\ \A u \in Users : last_totp_step[u] <= last_totp_step'[u]
  /\ pending_totp' = pending_totp \/ pending_totp' \in [Users -> 0..fresh']
  /\ pending_mfa' = pending_mfa \/ pending_mfa' \subseteq [token : 1..fresh', user : Users]
  /\ \/ sessions' = sessions
     \/ /\ sessions' \subseteq [token : 1..fresh', user : Users, needs : BOOLEAN]
        /\ \A s, t \in sessions' : s.token = t.token => s = t
        /\ \A s \in sessions' :
             s.token > fresh \/ \E t \in sessions : t.token = s.token /\ t.user = s.user
  /\ \/ challenges' = challenges
     \/ /\ challenges' \subseteq [kind : {"register", "2fa", "login"}, user : Users \cup {NoUser},
                                  token : 0..fresh', val : 1..fresh']
        /\ \A c, d \in challenges' : c.val = d.val => c = d
        /\ \A c \in challenges' : c \in challenges \/ c.val > fresh

LEMMA CacheStep ==
  ASSUME IInv, UNCHANGED stores, UNCHANGED outside, fresh' \in Nat, fresh <= fresh', CachesForward
  PROVE  StoresOK' /\ Forward
<1>1. StoresOK /\ fresh \in Nat
  BY Parts DEF StoresOK
<1>2. 1..fresh \subseteq 1..fresh' /\ 0..fresh \subseteq 0..fresh'
  BY <1>1
<1>3. last_totp_step' \in [Users -> Nat] /\ \A u \in Users : last_totp_step[u] <= last_totp_step'[u]
  BY <1>1 DEF StoresOK, CachesForward
<1>4. pending_totp' \in [Users -> 0..fresh']
  BY <1>1, <1>2 DEF StoresOK, CachesForward
<1>5. pending_mfa' \subseteq [token : 1..fresh', user : Users]
  BY <1>1, <1>2 DEF StoresOK, CachesForward
<1>6. /\ sessions' \subseteq [token : 1..fresh', user : Users, needs : BOOLEAN]
      /\ \A s, t \in sessions' : s.token = t.token => s = t
      /\ \A s \in sessions' :
           s.token > fresh \/ \E t \in sessions : t.token = s.token /\ t.user = s.user
  <2>1. CASE sessions' = sessions
    <3>1. sessions \subseteq [token : 1..fresh, user : Users, needs : BOOLEAN]
      BY <1>1 DEF StoresOK
    <3>2. sessions \subseteq [token : 1..fresh', user : Users, needs : BOOLEAN]
      BY <3>1, <1>2
    <3> QED BY <2>1, <1>1, <3>2 DEF StoresOK
  <2> QED BY <2>1 DEF CachesForward
<1>7. /\ challenges' \subseteq [kind : {"register", "2fa", "login"}, user : Users \cup {NoUser},
                                token : 0..fresh', val : 1..fresh']
      /\ \A c, d \in challenges' : c.val = d.val => c = d
      /\ \A c \in challenges' : c \in challenges \/ c.val > fresh
  <2>1. CASE challenges' = challenges
    <3>1. challenges \subseteq [kind : {"register", "2fa", "login"}, user : Users \cup {NoUser},
                                token : 0..fresh, val : 1..fresh]
      BY <1>1 DEF StoresOK
    <3>2. challenges \subseteq [kind : {"register", "2fa", "login"}, user : Users \cup {NoUser},
                                token : 0..fresh', val : 1..fresh']
      BY <3>1, <1>2
    <3> QED BY <2>1, <1>1, <3>2 DEF StoresOK, StoreInv
  <2> QED BY <2>1 DEF CachesForward
<1>8. users' = users /\ disk' = disk /\ enrolled' = enrolled /\ restarts' = restarts
      /\ require_2fa' = require_2fa /\ now' = now /\ scenario' = scenario
  BY DEF stores, outside
<1>9. \A store \in {users, disk} : \A u \in Users : \A code \in store[u].codes :
        code \in Nat /\ code <= fresh
  BY <1>1 DEF StoresOK, StoreInv, Account
<1>10. \A store \in {users, disk} : \A u \in Users : \A code \in store[u].codes : code <= fresh'
  BY <1>1, <1>9
<1>11. StoreInv'
  BY <1>1, <1>7, <1>8, <1>10 DEF StoreInv, StoresOK
<1>12. StoresOK'
  BY <1>1, <1>3, <1>4, <1>5, <1>6, <1>7, <1>8, <1>11 DEF StoresOK
<1>13. Forward
  BY <1>3, <1>6, <1>7, <1>8 DEF Forward
<1> QED BY <1>12, <1>13

\* A challenge that is drawn is unlike any other.
LEMMA StartForward ==
  ASSUME IInv,
         \E kind \in {"register", "2fa", "login"}, user \in Users \cup {NoUser},
            token \in 0..(fresh + 1) : StartChallenge(kind, user, token),
         UNCHANGED <<last_totp_step, sessions, pending_mfa, pending_totp>>
  PROVE  CachesForward
<1>0. PICK kind \in {"register", "2fa", "login"}, user \in Users \cup {NoUser},
           token \in 0..(fresh + 1) : StartChallenge(kind, user, token)
  OBVIOUS
<1>1. StoresOK /\ fresh \in Nat /\ fresh' = fresh + 1
  BY <1>0, Parts DEF StoresOK, StartChallenge, Draw
<1> DEFINE new == [kind |-> kind, user |-> user, token |-> token, val |-> fresh']
<1>2. \A c \in challenges' : c \in challenges \/ c = new
  BY <1>0 DEF StartChallenge
<1>3. \A c \in challenges : c \in [kind : {"register", "2fa", "login"}, user : Users \cup {NoUser},
                                   token : 0..fresh, val : 1..fresh]
  BY <1>1 DEF StoresOK
<1>4. new \in [kind : {"register", "2fa", "login"}, user : Users \cup {NoUser},
               token : 0..fresh', val : 1..fresh'] /\ new.val = fresh + 1
  BY <1>1
<1> HIDE DEF new
<1>5. challenges' \subseteq [kind : {"register", "2fa", "login"}, user : Users \cup {NoUser},
                             token : 0..fresh', val : 1..fresh']
  BY <1>1, <1>2, <1>3, <1>4
<1>6. \A c \in challenges : c.val \in 1..fresh
  BY <1>3
<1>7. \A c, d \in challenges' : c.val = d.val => c = d
  BY <1>1, <1>2, <1>4, <1>6 DEF StoresOK, StoreInv
<1> QED BY <1>1, <1>2, <1>4, <1>5, <1>7 DEF CachesForward

LEMMA EndCacheSteps ==
  ASSUME IInv, NEW r \in Requests,
         MfaChallenge(r) \/ Logout(r) \/ TotpSetup(r) \/ MarkMfaSatisfied(r) \/ Start2fa(r)
  PROVE  IInv'
<1> DEFINE q == req[r]
<1>1. StoresOK /\ q \in Req /\ ReqInv(r) /\ fresh \in Nat
  BY Parts DEF StoresOK
<1>2. ASSUME UNCHANGED stores, UNCHANGED outside, fresh' \in Nat, fresh <= fresh', CachesForward,
             grants' = grants, End(r)
      PROVE  IInv'
  BY <1>2, CacheStep, EndStep
<1>3. CASE MfaChallenge(r)
  <2>1. q.user \in Users /\ fresh' = fresh + 1
    BY <1>1, <1>3 DEF MfaChallenge, Draw, At, ReqInv
  <2>2. pending_mfa \subseteq [token : 1..fresh, user : Users]
    BY <1>1 DEF StoresOK
  <2>3. pending_mfa' \subseteq [token : 1..fresh', user : Users]
    BY <1>1, <1>3, <2>1, <2>2 DEF MfaChallenge
  <2>4. CachesForward
    BY <1>3, <2>3 DEF MfaChallenge, CachesForward
  <2> QED BY <1>1, <1>2, <1>3, <2>1, <2>4 DEF MfaChallenge
<1>4. CASE Logout(r)
  <2>1. sessions' \subseteq sessions
    BY <1>4 DEF Logout
  <2>2. CachesForward
    BY <1>1, <1>4, <2>1 DEF Logout, CachesForward, StoresOK
  <2> QED BY <1>1, <1>2, <1>4, <2>2 DEF Logout
<1>5. CASE TotpSetup(r)
  <2>1. q.user \in Users /\ fresh' = fresh + 1
    BY <1>1, <1>5 DEF TotpSetup, Draw, At, ReqInv
  <2>2. pending_totp' \in [Users -> 0..fresh']
    BY <1>1, <1>5, <2>1 DEF TotpSetup, StoresOK
  <2>3. CachesForward
    BY <1>5, <2>2 DEF TotpSetup, CachesForward
  <2> QED BY <1>1, <1>2, <1>5, <2>1, <2>3 DEF TotpSetup
<1>6. CASE MarkMfaSatisfied(r)
  <2>1. sessions \subseteq [token : 1..fresh, user : Users, needs : BOOLEAN]
        /\ \A s, t \in sessions : s.token = t.token => s = t
    BY <1>1 DEF StoresOK
  <2>2. ASSUME NEW s \in sessions'
        PROVE  /\ s \in [token : 1..fresh, user : Users, needs : BOOLEAN]
               /\ \E t \in sessions : /\ t.token = s.token /\ t.user = s.user
                                      /\ s = IF t.token = q.cookie THEN [t EXCEPT !.needs = FALSE] ELSE t
    <3>1. PICK t \in sessions : s = IF t.token = q.cookie THEN [t EXCEPT !.needs = FALSE] ELSE t
      BY <1>6 DEF MarkMfaSatisfied
    <3> QED BY <2>1, <3>1
  <2>3. \A s, t \in sessions' : s.token = t.token => s = t
    BY <2>1, <2>2
  <2>4. fresh' = fresh
    BY <1>6 DEF MarkMfaSatisfied
  <2>5. CachesForward
    BY <1>6, <2>2, <2>3, <2>4 DEF MarkMfaSatisfied, CachesForward
  <2> QED BY <1>1, <1>2, <1>6, <2>5 DEF MarkMfaSatisfied
<1>7. CASE Start2fa(r)
  <2>1. q.user \in Users /\ fresh' = fresh + 1
    BY <1>1, <1>7 DEF Start2fa, StartChallenge, Draw, At, ReqInv
  <2>a. StartChallenge("2fa", q.user, 0)
    BY <1>7 DEF Start2fa
  <2>0. 0 \in 0..(fresh + 1)
    BY <1>1
  <2>2. CachesForward
    BY <1>7, <2>0, <2>1, <2>a, StartForward DEF Start2fa
  <2>b. UNCHANGED stores /\ UNCHANGED outside /\ grants' = grants /\ End(r)
    BY <1>7 DEF Start2fa
  <2>c. fresh' \in Nat /\ fresh <= fresh'
    BY <1>1, <2>1
  <2> QED BY <1>2, <2>2, <2>b, <2>c
<1> QED BY <1>3, <1>4, <1>5, <1>6, <1>7

LEMMA GoCacheSteps ==
  ASSUME IInv, NEW r \in Requests,
         \/ DropPending(r) \/ SeedTotpStep(r) \/ ClearPendingTotp(r) \/ StartRegister(r)
         \/ StartLogin(r)
  PROVE  IInv'
<1> DEFINE q == req[r]
<1>1. StoresOK /\ q \in Req /\ ReqInv(r) /\ fresh \in Nat /\ req \in [Requests -> Req]
  BY Parts DEF StoresOK
<1>2. ASSUME UNCHANGED stores, UNCHANGED outside, fresh' \in Nat, fresh <= fresh', CachesForward,
             grants' = grants, sessions' = sessions,
             NEW l \in {"issue", "clear_pending", "mark", "handle"}, Go(r, l),
             \/ l = "issue" /\ q.at = "drop"
             \/ l = "clear_pending" /\ q.at = "seed"
             \/ l = "mark" /\ q.at = "clear_pending"
             \/ l = "handle" /\ q.at = "start register"
      PROVE  IInv'
  <2>1. StoresOK' /\ Forward
    BY <1>2, CacheStep
  <2>2. l \in Labels
    BY DEF Labels
  <2>3. Moves(r)
    BY <1>1, <1>2, <2>2 DEF Go, Moves, Req
  <2>4. /\ req'[r].at = l /\ req'[r].user = q.user /\ req'[r].cookie = q.cookie
        /\ req'[r].via = q.via /\ req'[r].val = q.val
    BY <1>1, <1>2 DEF Go, Req
  <2>5. q.cookie \in Nat /\ q.cookie <= fresh /\ enrolled' = enrolled
    BY <1>1, <1>2 DEF Req, ReqInv, stores
  <2>a. fresh' \in Nat /\ fresh <= fresh'
    BY <1>2
  <2>6. q.cookie <= fresh'
    BY <1>1, <2>a, <2>5
  <2>7. ReqInv(r)'
    BY <1>1, <1>2, <2>4, <2>5, <2>6 DEF ReqInv, Enrolling
  <2>8. Held(req'[r]) => Held(q)
    BY <1>2, <2>4 DEF Held
  <2> QED BY <1>2, <2>1, <2>3, <2>4, <2>7, <2>8, GoStep
<1>3. CASE DropPending(r)
  <2>1. CachesForward
    BY <1>1, <1>3 DEF DropPending, CachesForward, StoresOK
  <2> QED BY <1>1, <1>2, <1>3, <2>1 DEF DropPending, At
<1>4. CASE SeedTotpStep(r)
  <2>1. q.user \in Users /\ q.val \in Nat
    BY <1>1, <1>4 DEF SeedTotpStep, At, ReqInv, Req
  <2>2. last_totp_step' \in [Users -> Nat]
    BY <1>1, <1>4, <2>1 DEF SeedTotpStep, StoresOK
  <2>3. \A u \in Users : last_totp_step[u] <= last_totp_step'[u]
    BY <1>1, <1>4, <2>1 DEF SeedTotpStep, StoresOK
  <2>4. CachesForward
    BY <1>4, <2>2, <2>3 DEF SeedTotpStep, CachesForward
  <2> QED BY <1>1, <1>2, <1>4, <2>4 DEF SeedTotpStep, At
<1>5. CASE ClearPendingTotp(r)
  <2>a. pending_totp' = [pending_totp EXCEPT ![q.user] = 0] /\ fresh' = fresh
    BY <1>5 DEF ClearPendingTotp
  <2>b. pending_totp \in [Users -> 0..fresh] /\ 0 \in 0..fresh
    BY <1>1 DEF StoresOK
  <2>1. pending_totp' \in [Users -> 0..fresh']
    BY <2>a, <2>b
  <2>2. CachesForward
    BY <1>5, <2>1 DEF ClearPendingTotp, CachesForward
  <2> QED BY <1>1, <1>2, <1>5, <2>2 DEF ClearPendingTotp, At
<1>6. CASE StartRegister(r)
  <2>1. q.user \in Users /\ fresh' = fresh + 1
    BY <1>1, <1>6 DEF StartRegister, StartChallenge, Draw, At, ReqInv
  <2>a. StartChallenge("register", q.user, 0)
    BY <1>6 DEF StartRegister
  <2>0. 0 \in 0..(fresh + 1)
    BY <1>1
  <2>2. CachesForward
    BY <1>6, <2>0, <2>1, <2>a, StartForward DEF StartRegister
  <2>b. UNCHANGED stores /\ UNCHANGED outside /\ grants' = grants /\ sessions' = sessions
        /\ Go(r, "handle") /\ q.at = "start register"
    BY <1>6 DEF StartRegister, At
  <2>c. fresh' \in Nat /\ fresh <= fresh'
    BY <1>1, <2>1
  <2> QED BY <1>2, <2>2, <2>b, <2>c
<1>7. CASE StartLogin(r)
  <2>1. CachesForward
    BY <1>1, <1>7, StartForward DEF StartLogin
  <2>2. fresh' = fresh + 1
    BY <1>7 DEF StartLogin, StartChallenge, Draw
  <2>3. StoresOK' /\ Forward
    BY <1>1, <1>7, <2>1, <2>2, CacheStep DEF StartLogin
  <2> QED BY <1>7, <2>3, StillStep DEF StartLogin
<1> QED BY <1>3, <1>4, <1>5, <1>6, <1>7

\* A secret that the step takes out of the stores.
LEMMA TakeStep ==
  ASSUME IInv, StoresOK', Forward, grants' = grants, NEW r \in Requests, Moves(r), ReqInv(r)',
         ~Gone(Ticket(req'[r], restarts)), Gone(Ticket(req[r], restarts))'
  PROVE  IInv'
<1>1. Takes(r)
  BY DEF Takes
<1> QED BY <1>1, RequestStep DEF Moves

LEMMA TotpTaken ==
  ASSUME IInv, NEW r \in Requests, ConsumeTotpStep(r)
  PROVE  IInv'
<1> DEFINE q == req[r]
<1>1. StoresOK /\ q \in Req /\ ReqInv(r) /\ req \in [Requests -> Req]
  BY Parts
<1>2. q.at = "step" /\ q.via = "totp" /\ q.user \in Users /\ q.val \in Nat /\ q.cookie <= fresh
  BY <1>1 DEF ConsumeTotpStep, At, ReqInv, Req
<1>3. last_totp_step \in [Users -> Nat] /\ fresh \in Nat /\ restarts \in Nat
  BY <1>1 DEF StoresOK
<1>4. UNCHANGED stores /\ UNCHANGED outside /\ grants' = grants /\ fresh' = fresh
      /\ UNCHANGED <<sessions, pending_mfa, pending_totp, challenges>>
  BY DEF ConsumeTotpStep
<1>5. CASE End(r) /\ UNCHANGED last_totp_step
  <2>1. CachesForward
    BY <1>4, <1>5 DEF CachesForward
  <2> QED BY <1>3, <1>4, <1>5, <2>1, CacheStep, EndStep
<1>6. CASE /\ q.val > last_totp_step[q.user] /\ Go(r, "drop")
           /\ last_totp_step' = [last_totp_step EXCEPT ![q.user] = q.val]
  <2>1. last_totp_step' \in [Users -> Nat] /\ last_totp_step'[q.user] = q.val
        /\ \A u \in Users : last_totp_step[u] <= last_totp_step'[u]
    BY <1>2, <1>3, <1>6
  <2>2. CachesForward
    BY <1>4, <2>1 DEF CachesForward
  <2>3. StoresOK' /\ Forward
    BY <1>3, <1>4, <2>2, CacheStep
  <2>4. "drop" \in Labels
    BY DEF Labels
  <2>5. Moves(r)
    BY <1>1, <1>6, <2>4 DEF Go, Moves, Req
  <2>6. /\ req'[r].at = "drop" /\ req'[r].user = q.user /\ req'[r].cookie = q.cookie
        /\ req'[r].via = "totp" /\ req'[r].val = q.val
    BY <1>1, <1>2, <1>6 DEF Go, Req
  <2>7. ReqInv(r)'
    BY <1>2, <1>4, <2>6 DEF ReqInv, Enrolling
  <2>8. ~Gone(Ticket(req'[r], restarts))
    BY <1>2, <1>3, <1>6, <2>6 DEF Gone, Ticket
  <2>9. Gone(Ticket(req[r], restarts))'
    BY <1>2, <1>3, <1>4, <2>1, <2>6 DEF Gone, Ticket, outside
  <2> QED BY <1>4, <2>3, <2>5, <2>7, <2>8, <2>9, TakeStep
<1> QED BY <1>5, <1>6 DEF ConsumeTotpStep

LEMMA ChallengeTaken ==
  ASSUME IInv, NEW r \in Requests, RegisterConsume(r) \/ LoginConsume(r) \/ TwoFactorConsume(r)
  PROVE  IInv'
<1> DEFINE q == req[r]
<1>1. StoresOK /\ q \in Req /\ ReqInv(r) /\ req \in [Requests -> Req] /\ Idle \in Req
  BY Parts DEF Idle, Req, Labels
<1>2. PICK c \in challenges : \E next \in {[q EXCEPT !.at = "add"], [q EXCEPT !.at = "assert"],
                                            [Idle EXCEPT !.at = "assert"]} :
        /\ ConsumeChallenge(r, c, next)
        /\ next = [q EXCEPT !.at = "add"] => q.at = "register/verify"
  <2>1. CASE RegisterConsume(r)
    BY <2>1 DEF RegisterConsume, At
  <2>2. CASE LoginConsume(r)
    <3>1. [Idle EXCEPT !.at = "assert"].at = "assert"
      BY DEF Idle
    <3>2. [q EXCEPT !.at = "add"].at = "add"
      BY <1>1 DEF Req
    <3> QED BY <2>2, <3>1, <3>2 DEF LoginConsume
  <2>3. CASE TwoFactorConsume(r)
    <3>1. [q EXCEPT !.at = "assert"].at = "assert" /\ [q EXCEPT !.at = "add"].at = "add"
      BY <1>1 DEF Req
    <3> QED BY <2>3, <3>1 DEF TwoFactorConsume
  <2> QED BY <2>1, <2>2, <2>3
<1>3. PICK next \in {[q EXCEPT !.at = "add"], [q EXCEPT !.at = "assert"],
                      [Idle EXCEPT !.at = "assert"]} :
        /\ ConsumeChallenge(r, c, next)
        /\ next = [q EXCEPT !.at = "add"] => q.at = "register/verify"
  BY <1>2
<1>4. /\ next \in Req /\ next.at \in {"add", "assert"} /\ next.cookie <= fresh
      /\ next.at = "add" => q.at = "register/verify" /\ next.user = q.user /\ next.cookie = q.cookie
  <2>0. "add" \in Labels /\ "assert" \in Labels /\ fresh \in Nat /\ q.cookie <= fresh
    BY <1>1 DEF Labels, StoresOK, ReqInv
  <2>1. CASE next = [q EXCEPT !.at = "add"]
    BY <1>1, <1>3, <2>0, <2>1 DEF Req
  <2>2. CASE next = [q EXCEPT !.at = "assert"]
    BY <1>1, <2>0, <2>2 DEF Req
  <2>3. CASE next = [Idle EXCEPT !.at = "assert"]
    <3>1. next \in Req
      BY <1>1, <2>0, <2>3 DEF Req
    <3>2. next.at = "assert" /\ next.cookie = 0
      BY <2>3 DEF Idle
    <3> QED BY <2>0, <3>1, <3>2
  <2> QED BY <1>3, <2>1, <2>2, <2>3
<1>5. c.val \in 1..fresh /\ fresh \in Nat /\ \A d \in challenges : d.val = c.val => d = c
  BY <1>1 DEF StoresOK, StoreInv
<1>6. UNCHANGED stores /\ UNCHANGED outside /\ grants' = grants /\ fresh' = fresh
      /\ UNCHANGED <<sessions, pending_mfa, pending_totp, last_totp_step>>
      /\ challenges' = challenges \ {c}
      /\ req' = [req EXCEPT ![r] = [next EXCEPT !.via = "passkey", !.val = c.val]]
  BY <1>3 DEF ConsumeChallenge
<1>7. CachesForward
  BY <1>1, <1>6 DEF CachesForward, StoresOK, StoreInv
<1>8. StoresOK' /\ Forward
  BY <1>5, <1>6, <1>7, CacheStep
<1>9. Moves(r)
  <2>1. c.val \in Nat
    BY <1>5
  <2> QED BY <1>1, <1>4, <1>6, <2>1 DEF Moves, Req
<1>10. /\ req'[r].at = next.at /\ req'[r].user = next.user /\ req'[r].cookie = next.cookie
       /\ req'[r].via = "passkey" /\ req'[r].val = c.val
  BY <1>1, <1>4, <1>6 DEF Req
<1>11. ReqInv(r)'
  BY <1>1, <1>4, <1>6, <1>10 DEF ReqInv, Enrolling, stores
<1>12. ~Gone(Ticket(req'[r], restarts))
  BY <1>10 DEF Gone, Ticket
<1>13. Gone(Ticket(req[r], restarts))'
  BY <1>5, <1>6, <1>10 DEF Gone, Ticket
<1> QED BY <1>6, <1>8, <1>9, <1>11, <1>12, <1>13, TakeStep

-----------------------------------------------------------------------------
(***************************************************************************)
(* The actions that change an account                                      *)
(***************************************************************************)

\* Whether or not the save reaches users.yaml.
LEMMA AccountStep ==
  ASSUME IInv, NEW u \in Users, NEW a \in Account,
         users' = [users EXCEPT ![u] = a], disk' = disk \/ disk' = users',
         enrolled \subseteq enrolled', enrolled' \subseteq Users,
         UNCHANGED caches, UNCHANGED outside, fresh' \in Nat, fresh <= fresh',
         a.used \subseteq a.codes, \A code \in a.codes : code <= fresh',
         a.salt = 0 => a.codes = {} /\ a.passkeys = {} /\ Admins(users) \ {u} # {},
         \A n \in Unused(a) : n \in Unused(users[u]) \/ n > fresh
  PROVE  StoresOK' /\ Forward /\ Admins(users') # {}
<1>1. StoresOK /\ fresh \in Nat
  BY Parts DEF StoresOK
<1>2. 1..fresh \subseteq 1..fresh' /\ 0..fresh \subseteq 0..fresh'
  BY <1>1
<1>3. users \in [Users -> Account] /\ disk \in [Users -> Account]
  BY <1>1 DEF StoresOK
<1>4. users' \in [Users -> Account] /\ users'[u] = a /\ \A v \in Users \ {u} : users'[v] = users[v]
  BY <1>3
<1>5. Admins(users') # {}
  <2>1. CASE a.salt # 0
    BY <1>4, <2>1 DEF Admins
  <2>2. CASE a.salt = 0
    <3>1. PICK v \in Admins(users) : v # u
      BY <2>2
    <3> QED BY <1>4, <3>1 DEF Admins
  <2> QED BY <2>1, <2>2
<1>6. \A store \in {users, disk} : \A v \in Users :
        /\ store[v].used \subseteq store[v].codes
        /\ store[v].salt = 0 => store[v].codes = {} /\ store[v].passkeys = {}
        /\ \A code \in store[v].codes : code \in Nat /\ code <= fresh
  BY <1>1 DEF StoresOK, StoreInv, Account
<1>7. \A store \in {users, disk} : \A v \in Users : \A code \in store[v].codes : code <= fresh'
  BY <1>1, <1>6
<1>8. \A v \in Users :
        /\ users'[v].used \subseteq users'[v].codes
        /\ users'[v].salt = 0 => users'[v].codes = {} /\ users'[v].passkeys = {}
        /\ \A code \in users'[v].codes : code <= fresh'
        /\ \A n \in Unused(users'[v]) : n \in Unused(users[v]) \/ n > fresh
  <2> TAKE v \in Users
  <2>1. CASE v = u
    BY <1>4, <2>1
  <2>2. CASE v # u
    BY <1>4, <1>6, <1>7, <2>2
  <2> QED BY <2>1, <2>2
<1>9. \A v \in Users :
        /\ disk'[v].used \subseteq disk'[v].codes
        /\ disk'[v].salt = 0 => disk'[v].codes = {} /\ disk'[v].passkeys = {}
        /\ \A code \in disk'[v].codes : code <= fresh'
        /\ \A n \in Unused(disk'[v]) : n \in Unused(users[v]) \cup Unused(disk[v]) \/ n > fresh
  BY <1>6, <1>7, <1>8
<1>10. UNCHANGED <<last_totp_step, sessions, pending_mfa, pending_totp, challenges>>
       /\ UNCHANGED <<require_2fa, now, restarts, scenario>>
  BY DEF caches, outside
<1>11. /\ sessions \subseteq [token : 1..fresh, user : Users, needs : BOOLEAN]
       /\ pending_mfa \subseteq [token : 1..fresh, user : Users]
       /\ challenges \subseteq [kind : {"register", "2fa", "login"}, user : Users \cup {NoUser},
                                token : 0..fresh, val : 1..fresh]
       /\ pending_totp \in [Users -> 0..fresh]
  BY <1>1 DEF StoresOK
<1>12. sessions \subseteq [token : 1..fresh', user : Users, needs : BOOLEAN]
  BY <1>2, <1>11
<1>13. pending_mfa \subseteq [token : 1..fresh', user : Users]
  BY <1>2, <1>11
<1>14. challenges \subseteq [kind : {"register", "2fa", "login"}, user : Users \cup {NoUser},
                             token : 0..fresh', val : 1..fresh']
  BY <1>2, <1>11
<1>15. pending_totp \in [Users -> 0..fresh']
  BY <1>2, <1>11
<1>16. StoreInv'
  BY <1>1, <1>8, <1>9, <1>10 DEF StoresOK, StoreInv
<1>17. \A store \in {users', disk'} :
         /\ store \in [Users -> Account]
         /\ \A v \in Users : store[v].used \subseteq store[v].codes
  BY <1>3, <1>4, <1>8, <1>9
<1>18. StoresOK'
  BY <1>1, <1>10, <1>12, <1>13, <1>14, <1>15, <1>16, <1>17 DEF StoresOK
<1>19. \A v \in Users : last_totp_step[v] <= last_totp_step'[v]
  BY <1>1, <1>10 DEF StoresOK
<1>20. \A s \in sessions' : \E t \in sessions : t.token = s.token /\ t.user = s.user
  BY <1>10
<1>21. Forward
  BY <1>5, <1>8, <1>9, <1>10, <1>19, <1>20 DEF Forward
<1> QED BY <1>5, <1>18, <1>21

\* The list is saved, or memory is ahead of the file.
Saved == Admins(users') # {} /\ (disk' = disk \/ disk' = users')

LEMMA AccountUpdates ==
  ASSUME NEW b \in Account, NEW t \in Nat, NEW c \in SUBSET Nat, NEW d \in SUBSET Nat
  PROVE  /\ [b EXCEPT !.totp = t, !.codes = c, !.used = d] \in Account
         /\ [b EXCEPT !.codes = c, !.used = d] \in Account
  BY DEF Account

LEMMA EndAccountSteps ==
  ASSUME IInv, NEW r \in Requests,
         \/ \E u \in Users : UsersCreate(r, u) \/ UsersDelete(r, u)
         \/ ClearTotp(r) \/ RegenerateBackupCodes(r) \/ RemovePasskey(r)
         \/ UserHandle(r) /\ users[req[r].user].handle = 0
         \/ RandFails(r) /\ ~UNCHANGED users
  PROVE  IInv' /\ Saved
<1> DEFINE q == req[r]
<1>1. StoresOK /\ q \in Req /\ ReqInv(r) /\ fresh \in Nat /\ users \in [Users -> Account]
  BY Parts DEF StoresOK
<1>2. \A u \in Users : \A code \in users[u].codes : code \in Nat /\ code <= fresh
  BY <1>1 DEF StoresOK, StoreInv, Account
<1>3. \A u \in Users : /\ users[u] \in Account /\ users[u].used \subseteq users[u].codes
                       /\ users[u].salt = 0 => users[u].codes = {} /\ users[u].passkeys = {}
  BY <1>1 DEF StoresOK, StoreInv
<1>4. ASSUME NEW u \in Users, NEW a \in Account,
             users' = [users EXCEPT ![u] = a], disk' = disk \/ disk' = users',
             enrolled \subseteq enrolled', enrolled' \subseteq Users,
             UNCHANGED caches, UNCHANGED outside, fresh' \in Nat, fresh <= fresh',
             a.used \subseteq a.codes, \A code \in a.codes : code <= fresh',
             a.salt = 0 => a.codes = {} /\ a.passkeys = {} /\ Admins(users) \ {u} # {},
             \A n \in Unused(a) : n \in Unused(users[u]) \/ n > fresh,
             grants' = grants, End(r)
      PROVE  IInv' /\ Saved
  <2>1. StoresOK' /\ Forward /\ Admins(users') # {}
    BY <1>4, AccountStep
  <2>2. IInv'
    BY <1>4, <2>1, EndStep
  <2> QED BY <1>4, <2>1, <2>2 DEF Saved
<1>5. ASSUME NEW accounts, users' = accounts,
             \/ disk' = accounts /\ enrolled' = enrolled \cup {u \in Users : HasFactor(accounts[u])}
             \/ UNCHANGED <<disk, enrolled>>
      PROVE  (disk' = disk \/ disk' = users') /\ enrolled \subseteq enrolled' /\ enrolled' \subseteq Users
  BY <1>1, <1>5 DEF StoresOK
<1>6. CASE \E u \in Users : UsersCreate(r, u)
  <2>1. PICK u \in Users : UsersCreate(r, u)
    BY <1>6
  <2>2. PICK a : a = [NoAccount EXCEPT !.salt = fresh']
    OBVIOUS
  <2>3. fresh' = fresh + 1 /\ users' = [users EXCEPT ![u] = a] /\ End(r)
        /\ UNCHANGED caches /\ UNCHANGED outside /\ grants' = grants
    BY <2>1, <2>2 DEF UsersCreate, Draw, Save, End
  <2>4. (disk' = disk \/ disk' = users') /\ enrolled \subseteq enrolled' /\ enrolled' \subseteq Users
    BY <1>5, <2>1, <2>2 DEF UsersCreate, Save
  <2>5. a \in Account /\ a.codes = {} /\ a.used = {} /\ a.salt # 0
    BY <1>1, <2>2, <2>3 DEF Account, NoAccount
  <2>n. /\ fresh' \in Nat /\ fresh <= fresh' /\ a.used \subseteq a.codes
        /\ \A code \in a.codes : code <= fresh'
        /\ \A n \in Unused(a) : n \in Unused(users[u]) \/ n > fresh
    BY <1>1, <2>3, <2>5 DEF Unused
  <2> QED BY <1>4, <2>3, <2>4, <2>5, <2>n
<1>7. CASE \E u \in Users : UsersDelete(r, u)
  <2>1. PICK u \in Users : UsersDelete(r, u)
    BY <1>7
  <2>2. users' = [users EXCEPT ![u] = NoAccount] /\ End(r) /\ fresh' = fresh
        /\ UNCHANGED caches /\ UNCHANGED outside /\ grants' = grants
    BY <2>1 DEF UsersDelete, Save, End
  <2>3. (disk' = disk \/ disk' = users') /\ enrolled \subseteq enrolled' /\ enrolled' \subseteq Users
    BY <1>5, <2>1 DEF UsersDelete, Save
  <2>4. Admins(users) \ {u} # {}
    BY <2>1 DEF UsersDelete
  <2>5. NoAccount \in Account /\ NoAccount.codes = {} /\ NoAccount.used = {} /\ NoAccount.passkeys = {}
    BY DEF Account, NoAccount
  <2>n. /\ fresh' \in Nat /\ fresh <= fresh' /\ NoAccount.used \subseteq NoAccount.codes
        /\ \A code \in NoAccount.codes : code <= fresh'
        /\ \A n \in Unused(NoAccount) : n \in Unused(users[u]) \/ n > fresh
    BY <1>1, <2>2, <2>5 DEF Unused
  <2> QED BY <1>4, <2>2, <2>3, <2>4, <2>5, <2>n
<1>8. CASE ClearTotp(r)
  <2>1. q.user \in Users /\ users[q.user].salt # 0
    BY <1>8 DEF ClearTotp, Admins
  <2>2. PICK a : a = [users[q.user] EXCEPT !.totp = 0, !.codes = {}, !.used = {}]
    OBVIOUS
  <2>3. users' = [users EXCEPT ![q.user] = a] /\ End(r) /\ fresh' = fresh
        /\ UNCHANGED caches /\ UNCHANGED outside /\ grants' = grants
    BY <1>8, <2>2 DEF ClearTotp, SaveUser, Save, End
  <2>4. (disk' = disk \/ disk' = users') /\ enrolled \subseteq enrolled' /\ enrolled' \subseteq Users
    BY <1>5, <1>8 DEF ClearTotp, SaveUser, Save
  <2>5. a \in Account /\ a.codes = {} /\ a.used = {} /\ a.salt # 0
    <3>1. users[q.user] \in Account /\ {} \in SUBSET Nat
      BY <1>3, <2>1
    <3>2. a \in Account
      BY <2>2, <3>1, AccountUpdates
    <3> QED BY <2>1, <2>2, <3>1, <3>2 DEF Account
  <2>n. /\ fresh' \in Nat /\ fresh <= fresh' /\ a.used \subseteq a.codes
        /\ \A code \in a.codes : code <= fresh'
        /\ \A n \in Unused(a) : n \in Unused(users[q.user]) \/ n > fresh
    BY <1>1, <2>3, <2>5 DEF Unused
  <2> QED BY <1>4, <2>1, <2>3, <2>4, <2>5, <2>n
<1>9. CASE RegenerateBackupCodes(r)
  <2>1. q.user \in Users /\ users[q.user].salt # 0
    BY <1>9 DEF RegenerateBackupCodes, Admins
  <2>2. PICK a : a = [users[q.user] EXCEPT !.codes = fresh + 1 .. fresh', !.used = {}]
    OBVIOUS
  <2>3. fresh' = fresh + BatchSize /\ users' = [users EXCEPT ![q.user] = a] /\ End(r)
        /\ UNCHANGED caches /\ UNCHANGED outside /\ grants' = grants
    BY <1>9, <2>2 DEF RegenerateBackupCodes, SaveUser, Save, End, Draw
  <2>4. (disk' = disk \/ disk' = users') /\ enrolled \subseteq enrolled' /\ enrolled' \subseteq Users
    BY <1>5, <1>9 DEF RegenerateBackupCodes, SaveUser, Save
  <2>5. fresh' \in Nat /\ fresh <= fresh'
    BY <1>1, <2>3, AdminAuthAssumption
  <2>6. a \in Account /\ a.codes = fresh + 1 .. fresh' /\ a.used = {} /\ a.salt # 0
    <3>1. users[q.user] \in Account /\ fresh + 1 .. fresh' \in SUBSET Nat /\ {} \in SUBSET Nat
      BY <1>1, <1>3, <2>1, <2>5
    <3>2. a \in Account
      BY <2>2, <3>1, AccountUpdates
    <3> QED BY <2>1, <2>2, <3>1, <3>2 DEF Account
  <2>7. \A n \in a.codes : n > fresh /\ n <= fresh'
    BY <1>1, <2>5, <2>6
  <2>n. /\ fresh' \in Nat /\ fresh <= fresh' /\ a.used \subseteq a.codes
        /\ \A code \in a.codes : code <= fresh'
        /\ \A n \in Unused(a) : n \in Unused(users[q.user]) \/ n > fresh
    BY <2>5, <2>6, <2>7 DEF Unused
  <2> QED BY <1>4, <2>1, <2>3, <2>4, <2>6, <2>n
<1>10. CASE RemovePasskey(r)
  <2>1. q.user \in Users /\ users[q.user].salt # 0
    BY <1>1, <1>3, <1>10 DEF RemovePasskey, At, ReqInv
  <2>2. PICK a : a = [users[q.user] EXCEPT !.passkeys = @ \ {q.key}]
    OBVIOUS
  <2>3. users' = [users EXCEPT ![q.user] = a] /\ End(r) /\ fresh' = fresh
        /\ UNCHANGED caches /\ UNCHANGED outside /\ grants' = grants
    BY <1>10, <2>2 DEF RemovePasskey, SaveUser, Save, End
  <2>4. (disk' = disk \/ disk' = users') /\ enrolled \subseteq enrolled' /\ enrolled' \subseteq Users
    BY <1>5, <1>10 DEF RemovePasskey, SaveUser, Save
  <2>5. /\ a \in Account /\ a.codes = users[q.user].codes /\ a.used = users[q.user].used
        /\ a.salt # 0
    BY <1>3, <2>1, <2>2 DEF Account
  <2>n. /\ fresh' \in Nat /\ fresh <= fresh' /\ a.used \subseteq a.codes
        /\ \A code \in a.codes : code <= fresh'
        /\ \A n \in Unused(a) : n \in Unused(users[q.user]) \/ n > fresh
    BY <1>1, <1>2, <1>3, <2>1, <2>3, <2>5 DEF Unused
  <2> QED BY <1>4, <2>1, <2>3, <2>4, <2>5, <2>n
<1>11. CASE UserHandle(r) /\ users[q.user].handle = 0
  <2>1. q.user \in Users /\ users[q.user].salt # 0
    BY <1>11 DEF UserHandle, Admins
  <2>2. PICK a : a = [users[q.user] EXCEPT !.handle = fresh']
    OBVIOUS
  <2>3. users' = [users EXCEPT ![q.user] = a] /\ End(r) /\ fresh' = fresh + 1
        /\ UNCHANGED caches /\ UNCHANGED outside /\ grants' = grants
    BY <1>11, <2>2 DEF UserHandle, SaveUser, Save, End, Draw
  <2>4. (disk' = disk \/ disk' = users') /\ enrolled \subseteq enrolled' /\ enrolled' \subseteq Users
    BY <1>5, <1>11 DEF UserHandle, SaveUser, Save
  <2>5. /\ a \in Account /\ a.codes = users[q.user].codes /\ a.used = users[q.user].used
        /\ a.salt # 0
    BY <1>1, <1>3, <2>1, <2>2, <2>3 DEF Account
  <2>6. \A n \in a.codes : n <= fresh'
    BY <1>1, <1>2, <2>1, <2>3, <2>5
  <2>n. /\ fresh' \in Nat /\ fresh <= fresh' /\ a.used \subseteq a.codes
        /\ \A code \in a.codes : code <= fresh'
        /\ \A n \in Unused(a) : n \in Unused(users[q.user]) \/ n > fresh
    BY <1>1, <1>3, <2>1, <2>3, <2>5, <2>6 DEF Unused
  <2> QED BY <1>4, <2>1, <2>3, <2>4, <2>5, <2>n
<1>12. CASE RandFails(r) /\ ~UNCHANGED users
  <2>1. q.user \in Users /\ users[q.user].salt # 0 /\ q.key \in Nat
    BY <1>1, <1>12 DEF RandFails, Admins, Req
  <2>2. PICK a : a = [users[q.user] EXCEPT !.totp = q.key]
    OBVIOUS
  <2>3. users' = [users EXCEPT ![q.user] = a] /\ End(r) /\ fresh' = fresh
        /\ UNCHANGED caches /\ UNCHANGED outside /\ grants' = grants
        /\ UNCHANGED <<disk, enrolled>>
    BY <1>12, <2>2 DEF RandFails
  <2>4. enrolled' \subseteq Users
    BY <1>1, <2>3 DEF StoresOK
  <2>5. /\ a \in Account /\ a.codes = users[q.user].codes /\ a.used = users[q.user].used
        /\ a.salt # 0
    BY <1>3, <2>1, <2>2 DEF Account
  <2>n. /\ fresh' \in Nat /\ fresh <= fresh' /\ a.used \subseteq a.codes
        /\ \A code \in a.codes : code <= fresh'
        /\ \A n \in Unused(a) : n \in Unused(users[q.user]) \/ n > fresh
    BY <1>1, <1>2, <1>3, <2>1, <2>3, <2>5 DEF Unused
  <2> QED BY <1>4, <2>1, <2>3, <2>4, <2>5, <2>n
<1> QED BY <1>6, <1>7, <1>8, <1>9, <1>10, <1>11, <1>12

\* What SaveUser does to the list, the file and its request.
LEMMA SaveUserParts ==
  ASSUME NEW r \in Requests, StoresOK, NEW u \in Users, u = req[r].user, NEW a, NEW next,
         SaveUser(r, a, next)
  PROVE  /\ users' = [users EXCEPT ![u] = a] /\ (disk' = disk \/ disk' = users')
         /\ enrolled \subseteq enrolled' /\ enrolled' \subseteq Users
         /\ \/ End(r)
            \/ /\ disk' = users' /\ req' = [req EXCEPT ![r] = next]
               /\ HasFactor(a) => u \in enrolled'
<1>1. users \in [Users -> Account] /\ enrolled \subseteq Users
  BY DEF StoresOK
<1>2. [users EXCEPT ![u] = a][u] = a
  BY <1>1
<1> QED BY <1>1, <1>2 DEF SaveUser, Save

LEMMA SetupTaken ==
  ASSUME IInv, NEW r \in Requests, SetupCreate(r)
  PROVE  IInv' /\ Saved
<1> DEFINE q == req[r]
<1>1. StoresOK /\ q \in Req /\ ReqInv(r) /\ fresh \in Nat /\ req \in [Requests -> Req]
  BY Parts DEF StoresOK
<1>2. q.at = "setup" /\ q.via = "setup" /\ q.user \in Users /\ fresh' = fresh + 1
      /\ q.cookie \in Nat /\ q.cookie <= fresh
      /\ UNCHANGED caches /\ UNCHANGED outside /\ grants' = grants /\ Admins(users) = {}
  BY <1>1 DEF SetupCreate, Draw, At, ReqInv, Req
<1>3. PICK a : a = [NoAccount EXCEPT !.salt = fresh']
  OBVIOUS
<1>4. a \in Account /\ a.codes = {} /\ a.used = {} /\ a.salt # 0
  BY <1>1, <1>2, <1>3 DEF Account, NoAccount
<1>5. PICK next : next = [q EXCEPT !.at = "policy"]
  OBVIOUS
<1>6. PICK u \in Users : u = q.user
  BY <1>2
<1>7. SaveUser(r, a, next)
  BY <1>3, <1>5 DEF SetupCreate
<1>8. /\ users' = [users EXCEPT ![u] = a] /\ (disk' = disk \/ disk' = users')
      /\ enrolled \subseteq enrolled' /\ enrolled' \subseteq Users
      /\ End(r) \/ req' = [req EXCEPT ![r] = next]
  BY <1>1, <1>6, <1>7, SaveUserParts
<1>9. /\ fresh' \in Nat /\ fresh <= fresh' /\ a.used \subseteq a.codes
      /\ \A code \in a.codes : code <= fresh'
      /\ \A n \in Unused(a) : n \in Unused(users[u]) \/ n > fresh
  BY <1>1, <1>2, <1>4 DEF Unused
<1>10. StoresOK' /\ Forward /\ Admins(users') # {}
  BY <1>2, <1>4, <1>8, <1>9, AccountStep
<1>11. CASE End(r)
  BY <1>2, <1>8, <1>10, <1>11, EndStep DEF Saved
<1>12. CASE req' = [req EXCEPT ![r] = next]
  <2>1. "policy" \in Labels
    BY DEF Labels
  <2>2. next \in Req
    BY <1>1, <1>5, <2>1 DEF Req
  <2>3. Moves(r)
    BY <1>1, <1>12, <2>2 DEF Moves
  <2>4. /\ req'[r].at = "policy" /\ req'[r].user = q.user /\ req'[r].cookie = q.cookie
        /\ req'[r].via = "setup"
    BY <1>1, <1>2, <1>5, <1>12 DEF Req
  <2>5. ReqInv(r)'
    BY <1>1, <1>2, <1>9, <2>4 DEF ReqInv, Enrolling
  <2>6. ~Gone(Ticket(req'[r], restarts))
    BY <1>1, <1>2, <2>4 DEF Gone, Ticket, StoresOK
  <2>7. Gone(Ticket(req[r], restarts))'
    BY <1>10, <2>4 DEF Gone, Ticket
  <2>8. IInv'
    BY <1>2, <1>10, <2>3, <2>5, <2>6, <2>7, TakeStep
  <2> QED BY <1>8, <1>10, <2>8 DEF Saved
<1> QED BY <1>8, <1>11, <1>12

LEMMA CodeTaken ==
  ASSUME IInv, NEW r \in Requests, ConsumeBackupCode(r)
  PROVE  IInv' /\ Saved
<1> DEFINE q == req[r]
<1>1. StoresOK /\ q \in Req /\ ReqInv(r) /\ fresh \in Nat /\ req \in [Requests -> Req]
  BY Parts DEF StoresOK
<1>2. q.at = "backup-code/verify" /\ q.user \in Users /\ q.cookie \in Nat /\ q.cookie <= fresh
      /\ UNCHANGED caches /\ UNCHANGED outside /\ grants' = grants /\ fresh' = fresh
  BY <1>1 DEF ConsumeBackupCode, At, ReqInv, Req
<1>3. PICK u \in Users : u = q.user
  BY <1>2
<1>4. PICK code \in Unused(users[u]) :
        SaveUser(r, [users[u] EXCEPT !.used = @ \cup {code}],
                 [q EXCEPT !.at = "drop", !.via = "code", !.val = code])
  BY <1>3 DEF ConsumeBackupCode
<1>5. /\ users[u] \in Account /\ users[u].used \subseteq users[u].codes
      /\ users[u].salt = 0 => users[u].codes = {} /\ users[u].passkeys = {}
      /\ \A c \in users[u].codes : c \in Nat /\ c <= fresh
  BY <1>1 DEF StoresOK, StoreInv, Account
<1>6. code \in users[u].codes /\ code \in Nat /\ code <= fresh /\ users[u].salt # 0
  BY <1>4, <1>5 DEF Unused
<1>7. PICK a : a = [users[u] EXCEPT !.used = @ \cup {code}]
  OBVIOUS
<1>8. a \in Account /\ a.codes = users[u].codes /\ a.used = users[u].used \cup {code} /\ a.salt # 0
  BY <1>5, <1>6, <1>7 DEF Account
<1>9. PICK next : next = [q EXCEPT !.at = "drop", !.via = "code", !.val = code]
  OBVIOUS
<1>10. /\ users' = [users EXCEPT ![u] = a] /\ (disk' = disk \/ disk' = users')
       /\ enrolled \subseteq enrolled' /\ enrolled' \subseteq Users
       /\ End(r) \/ (disk' = users' /\ req' = [req EXCEPT ![r] = next])
  BY <1>1, <1>3, <1>4, <1>7, <1>9, SaveUserParts
<1>11. /\ fresh' \in Nat /\ fresh <= fresh' /\ a.used \subseteq a.codes
       /\ \A c \in a.codes : c <= fresh'
       /\ \A n \in Unused(a) : n \in Unused(users[u]) \/ n > fresh
  BY <1>1, <1>2, <1>5, <1>6, <1>8 DEF Unused
<1>12. StoresOK' /\ Forward /\ Admins(users') # {}
  BY <1>2, <1>8, <1>10, <1>11, AccountStep
<1>13. CASE End(r)
  BY <1>2, <1>10, <1>12, <1>13, EndStep DEF Saved
<1>14. CASE disk' = users' /\ req' = [req EXCEPT ![r] = next]
  <2>1. "drop" \in Labels
    BY DEF Labels
  <2>2. next \in Req
    BY <1>1, <1>6, <1>9, <2>1 DEF Req
  <2>3. Moves(r)
    BY <1>1, <1>14, <2>2 DEF Moves
  <2>4. /\ req'[r].at = "drop" /\ req'[r].user = u /\ req'[r].cookie = q.cookie
        /\ req'[r].via = "code" /\ req'[r].val = code
    BY <1>1, <1>3, <1>9, <1>14 DEF Req
  <2>5. ReqInv(r)'
    BY <1>1, <1>2, <2>4 DEF ReqInv, Enrolling
  <2>6. ~Gone(Ticket(req'[r], restarts))
    BY <1>4, <2>4 DEF Gone, Ticket
  <2>7. users \in [Users -> Account]
    BY <1>1 DEF StoresOK
  <2>8. users'[u] = a /\ disk'[u] = a
    BY <1>10, <1>14, <2>7
  <2>9. code \notin Unused(users'[u]) /\ code \notin Unused(disk'[u])
    BY <1>8, <2>8 DEF Unused
  <2>10. Gone(Ticket(req[r], restarts))'
    BY <1>2, <1>6, <2>4, <2>9 DEF Gone, Ticket, Unused
  <2>11. IInv'
    BY <1>2, <1>12, <2>3, <2>5, <2>6, <2>10, TakeStep
  <2> QED BY <1>10, <1>12, <2>11 DEF Saved
<1> QED BY <1>10, <1>13, <1>14

LEMMA GoAccountSteps ==
  ASSUME IInv, NEW r \in Requests, SetTotp(r) \/ AddPasskey(r)
  PROVE  IInv' /\ Saved
<1> DEFINE q == req[r]
<1>1. StoresOK /\ q \in Req /\ ReqInv(r) /\ fresh \in Nat /\ req \in [Requests -> Req]
  BY Parts DEF StoresOK
<1>2. /\ q.at \in {"set_totp", "add"} /\ q.user \in Admins(users)
      /\ UNCHANGED caches /\ UNCHANGED outside /\ grants' = grants
  BY DEF SetTotp, AddPasskey, At
<1>3. PICK u \in Users : u = q.user /\ users[u].salt # 0
  BY <1>2 DEF Admins
<1>4. /\ users[u] \in Account /\ users[u].used \subseteq users[u].codes
      /\ \A c \in users[u].codes : c \in Nat /\ c <= fresh
  BY <1>1 DEF StoresOK, StoreInv, Account
<1>5. ASSUME NEW a \in Account, NEW l \in {"seed", "mark"}, SaveUser(r, a, [q EXCEPT !.at = l]),
             fresh' \in Nat, fresh <= fresh', a.used \subseteq a.codes, a.salt # 0,
             \A c \in a.codes : c <= fresh',
             \A n \in Unused(a) : n \in Unused(users[u]) \/ n > fresh, HasFactor(a),
             l = "seed" => q.at = "set_totp", l = "mark" => q.at = "add"
      PROVE  IInv' /\ Saved
  <2>1. PICK next : next = [q EXCEPT !.at = l]
    OBVIOUS
  <2>2. /\ users' = [users EXCEPT ![u] = a] /\ (disk' = disk \/ disk' = users')
        /\ enrolled \subseteq enrolled' /\ enrolled' \subseteq Users
        /\ End(r) \/ (req' = [req EXCEPT ![r] = next] /\ u \in enrolled')
    BY <1>1, <1>3, <1>5, <2>1, SaveUserParts
  <2>3. StoresOK' /\ Forward /\ Admins(users') # {}
    BY <1>2, <1>5, <2>2, AccountStep
  <2>4. CASE End(r)
    BY <1>2, <2>2, <2>3, <2>4, EndStep DEF Saved
  <2>5. CASE req' = [req EXCEPT ![r] = next] /\ u \in enrolled'
    <3>1. l \in Labels
      BY DEF Labels
    <3>2. next \in Req
      BY <1>1, <2>1, <3>1 DEF Req
    <3>3. Moves(r)
      BY <1>1, <2>5, <3>2 DEF Moves
    <3>4. /\ req'[r].at = l /\ req'[r].user = u /\ req'[r].cookie = q.cookie
          /\ req'[r].via = q.via /\ req'[r].val = q.val
      BY <1>1, <1>3, <2>1, <2>5 DEF Req
    <3>5. q.cookie \in Nat /\ q.cookie <= fresh
      BY <1>1 DEF Req, ReqInv
    <3>6. q.cookie <= fresh'
      BY <1>1, <1>5, <3>5
    <3>7. sessions' = sessions /\ \A s \in sessions : s.token = q.cookie => s.user = u
      BY <1>1, <1>2, <1>3 DEF caches, ReqInv, Enrolling
    <3>8. ReqInv(r)'
      <4>1. q.via = "none" \/ q.via = "password" \/ (q.via = "passkey" /\ q.at = "add")
        BY <1>1, <1>2 DEF ReqInv, Req
      <4> QED BY <1>5, <2>5, <3>4, <3>6, <3>7, <4>1 DEF ReqInv
    <3>9. Held(req'[r]) => Held(q)
      BY <1>2, <3>4 DEF Held
    <3>10. IInv'
      BY <1>2, <1>3, <2>3, <3>3, <3>4, <3>8, <3>9, GoStep
    <3> QED BY <2>2, <2>3, <3>10 DEF Saved
  <2> QED BY <2>2, <2>4, <2>5
<1>6. CASE SetTotp(r)
  <2>1. q.at = "set_totp" /\ q.key \in Nat /\ q.key # 0 /\ fresh' = fresh + BatchSize
    BY <1>1, <1>6 DEF SetTotp, At, Req, ReqInv, Draw
  <2>2. fresh' \in Nat /\ fresh <= fresh'
    BY <1>1, <2>1, AdminAuthAssumption
  <2>3. PICK a : a = [users[u] EXCEPT !.totp = q.key, !.codes = fresh + 1 .. fresh', !.used = {}]
    OBVIOUS
  <2>4. fresh + 1 .. fresh' \in SUBSET Nat /\ {} \in SUBSET Nat
    BY <1>1, <2>2
  <2>5. a \in Account
    BY <1>4, <2>1, <2>3, <2>4, AccountUpdates
  <2>6. a.codes = fresh + 1 .. fresh' /\ a.used = {} /\ a.salt = users[u].salt /\ a.totp = q.key
    BY <1>4, <2>3 DEF Account
  <2>7. a.used \subseteq a.codes /\ HasFactor(a) /\ a.salt # 0
    BY <1>3, <2>1, <2>6 DEF HasFactor
  <2>8. \A n \in a.codes : n > fresh /\ n <= fresh'
    BY <1>1, <2>2, <2>6
  <2>9. SaveUser(r, a, [q EXCEPT !.at = "seed"])
    BY <1>3, <1>6, <2>3 DEF SetTotp
  <2> QED BY <1>5, <2>1, <2>2, <2>5, <2>7, <2>8, <2>9 DEF Unused
<1>7. CASE AddPasskey(r)
  <2>1. q.at = "add" /\ fresh' = fresh + 1
    BY <1>7 DEF AddPasskey, At, Draw
  <2>2. fresh' \in Nat /\ fresh <= fresh'
    BY <1>1, <2>1
  <2>3. PICK a : a = [users[u] EXCEPT !.passkeys = @ \cup {fresh'}]
    OBVIOUS
  <2>4. /\ a \in Account /\ a.codes = users[u].codes /\ a.used = users[u].used
        /\ a.salt = users[u].salt /\ a.passkeys = users[u].passkeys \cup {fresh'}
    BY <1>4, <2>2, <2>3 DEF Account
  <2>5. a.used \subseteq a.codes /\ HasFactor(a) /\ a.salt # 0
    BY <1>3, <1>4, <2>4 DEF HasFactor
  <2>6. \A n \in a.codes : n <= fresh'
    BY <1>1, <1>4, <2>2, <2>4
  <2>7. SaveUser(r, a, [q EXCEPT !.at = "mark"])
    BY <1>3, <1>7, <2>3 DEF AddPasskey
  <2>8. Unused(a) = Unused(users[u])
    BY <2>4 DEF Unused
  <2> QED BY <1>5, <2>1, <2>2, <2>4, <2>5, <2>6, <2>7, <2>8
<1> QED BY <1>6, <1>7

LEMMA CountStep ==
  ASSUME IInv, NEW r \in Requests, UpdateSignCount(r)
  PROVE  IInv' /\ (UNCHANGED <<users, disk>> \/ Saved)
<1> DEFINE q == req[r]
<1>1. StoresOK /\ q \in Req /\ ReqInv(r) /\ fresh \in Nat /\ req \in [Requests -> Req]
  BY Parts DEF StoresOK
<1>2. /\ q.at = "count" /\ q.user \in Users /\ q.cookie \in Nat /\ q.cookie <= fresh
      /\ UNCHANGED caches /\ UNCHANGED outside /\ grants' = grants /\ fresh' = fresh
  BY <1>1 DEF UpdateSignCount, At, ReqInv, Req
<1>3. PICK u \in Users : u = q.user
  BY <1>2
<1>4. /\ users \in [Users -> Account] /\ users[u] \in Account
      /\ users[u].used \subseteq users[u].codes
      /\ users[u].salt = 0 => users[u].codes = {} /\ users[u].passkeys = {}
      /\ \A c \in users[u].codes : c \in Nat /\ c <= fresh
  BY <1>1 DEF StoresOK, StoreInv, Account
<1>5. PICK l \in {"drop", "issue"} : l = IF q.cookie # 0 THEN "drop" ELSE "issue"
  OBVIOUS
<1>6. PICK next : next = [q EXCEPT !.at = l]
  OBVIOUS
<1>7. ASSUME StoresOK', Forward, req' = [req EXCEPT ![r] = next]
      PROVE  IInv'
  <2>1. l \in Labels
    BY DEF Labels
  <2>2. next \in Req
    BY <1>1, <1>6, <2>1 DEF Req
  <2>3. Moves(r)
    BY <1>1, <1>7, <2>2 DEF Moves
  <2>4. /\ req'[r].at = l /\ req'[r].user = q.user /\ req'[r].cookie = q.cookie
        /\ req'[r].via = q.via /\ req'[r].val = q.val
    BY <1>1, <1>6, <1>7 DEF Req
  <2>5. q.via \notin {"setup", "code", "totp"}
    BY <1>1, <1>2 DEF ReqInv
  <2>6. ReqInv(r)'
    BY <1>1, <1>2, <2>4, <2>5 DEF ReqInv, Enrolling
  <2>7. Held(req'[r]) => Held(q)
    BY <1>2, <2>4 DEF Held
  <2> QED BY <1>2, <1>7, <2>3, <2>4, <2>6, <2>7, GoStep
<1>8. CASE q.key \in users[u].passkeys
  <2>1. SaveUser(r, users[u], next)
    BY <1>3, <1>5, <1>6, <1>8 DEF UpdateSignCount
  <2>2. PICK a \in Account : a = users[u]
    BY <1>4
  <2>3. /\ users' = [users EXCEPT ![u] = a] /\ (disk' = disk \/ disk' = users')
        /\ enrolled \subseteq enrolled' /\ enrolled' \subseteq Users
        /\ End(r) \/ req' = [req EXCEPT ![r] = next]
    BY <1>1, <1>3, <2>1, <2>2, SaveUserParts
  <2>4. a.salt # 0
    BY <1>4, <1>8, <2>2
  <2>5. fresh' \in Nat /\ fresh <= fresh' /\ a.used \subseteq a.codes
        /\ \A c \in a.codes : c <= fresh'
    BY <1>1, <1>2, <1>4, <2>2
  <2>6. StoresOK' /\ Forward /\ Admins(users') # {}
    BY <1>2, <2>2, <2>3, <2>4, <2>5, AccountStep
  <2>7. IInv'
    BY <1>2, <1>7, <2>3, <2>6, EndStep
  <2> QED BY <2>3, <2>6, <2>7 DEF Saved
<1>9. CASE q.key \notin users[u].passkeys
  <2>1. req' = [req EXCEPT ![r] = next] /\ UNCHANGED stores
    BY <1>3, <1>5, <1>6, <1>9 DEF UpdateSignCount
  <2>2. StoresOK' /\ Forward
    BY <1>1, <1>2, <2>1, Quiet DEF outside, StoresOK
  <2> QED BY <1>7, <2>1, <2>2 DEF stores
<1> QED BY <1>8, <1>9

-----------------------------------------------------------------------------
(***************************************************************************)
(* Issuing a session, the clock and the process                            *)
(***************************************************************************)

\* The request's ticket becomes a grant.
LEMMA IssueStep ==
  ASSUME IInv, NEW r \in Requests, IssueSession(r)
  PROVE  IInv'
<1> DEFINE q == req[r]
<1>1. StoresOK /\ SecretInv /\ q \in Req /\ ReqInv(r) /\ fresh \in Nat /\ restarts \in Nat
      /\ req \in [Requests -> Req]
  BY Parts DEF StoresOK
<1>2. q.at = "issue" /\ q.user \in Users /\ q.needs \in BOOLEAN /\ fresh' = fresh + 1
      /\ UNCHANGED stores /\ UNCHANGED outside /\ End(r)
      /\ UNCHANGED <<last_totp_step, pending_mfa, pending_totp, challenges>>
  BY <1>1 DEF IssueSession, At, ReqInv, Req, Draw
<1>3. CachesForward
  <2> DEFINE new == [token |-> fresh', user |-> q.user, needs |-> q.needs]
  <2>1. sessions' = sessions \cup {new}
    BY DEF IssueSession
  <2>2. new \in [token : 1..fresh', user : Users, needs : BOOLEAN] /\ new.token = fresh + 1
    BY <1>1, <1>2
  <2> HIDE DEF new
  <2>3. sessions \subseteq [token : 1..fresh, user : Users, needs : BOOLEAN]
        /\ \A s, t \in sessions : s.token = t.token => s = t
    BY <1>1 DEF StoresOK
  <2>4. sessions' \subseteq [token : 1..fresh', user : Users, needs : BOOLEAN]
    BY <1>1, <1>2, <2>1, <2>2, <2>3
  <2>5. \A s \in sessions : s.token \in 1..fresh
    BY <2>3
  <2>6. \A s, t \in sessions' : s.token = t.token => s = t
    BY <1>1, <2>1, <2>2, <2>3, <2>5
  <2>7. \A s \in sessions' :
          s.token > fresh \/ \E t \in sessions : t.token = s.token /\ t.user = s.user
    BY <1>1, <2>1, <2>2
  <2> QED BY <1>2, <2>4, <2>6, <2>7 DEF CachesForward
<1>4. StoresOK' /\ Forward
  BY <1>1, <1>2, <1>3, CacheStep
<1>5. PICK g : g = [token |-> fresh', user |-> q.user, via |-> q.via, val |-> q.val, life |-> restarts]
  OBVIOUS
<1>6. grants' = grants \cup {g} /\ restarts' = restarts
  BY <1>2, <1>5 DEF IssueSession, outside
<1>7. g \in Tickets
  BY <1>1, <1>2, <1>5 DEF Tickets, Req
<1>8. g.via = q.via /\ g.user = q.user /\ g.val = q.val /\ g.life = restarts
  BY <1>5
<1>9. req' \in [Requests -> Req] /\ req'[r] = Idle /\ \A p \in Requests \ {r} : req'[p] = req[p]
  <2>1. Idle \in Req
    BY DEF Idle, Req, Labels
  <2> QED BY <1>1, <1>2, <2>1 DEF End
<1>10. \A t \in Tickets : Gone(t) => Gone(t)'
  BY <1>1, <1>4, GoneStays
<1>11. ASSUME g.via \in OneShot
       PROVE  Held(q) /\ SameSecret(Ticket(q, restarts), g)
  BY <1>2, <1>8, <1>11 DEF Held, SameSecret, Ticket, OneShot
<1>12. \A t : SameSecret(g, t) \/ SameSecret(t, g) => g.via \in OneShot
  BY DEF SameSecret, OneShot
<1>13. /\ grants \subseteq Tickets
       /\ \A h \in grants : h.via \in OneShot => Gone(h)
       /\ \A h, k \in grants : SameSecret(h, k) => h = k
       /\ \A p \in Requests : Held(req[p]) =>
            /\ Gone(Ticket(req[p], restarts))
            /\ \A h \in grants : ~SameSecret(Ticket(req[p], restarts), h)
            /\ \A s \in Requests :
                 Held(req[s]) /\ SameSecret(Ticket(req[p], restarts), Ticket(req[s], restarts)) => s = p
  BY <1>1 DEF SecretInv
<1>14. g.via \in OneShot => Gone(g)
  BY <1>11, <1>13, SameIsGone
<1>15. \A h \in grants' : h.via \in OneShot => Gone(h)'
  BY <1>6, <1>7, <1>10, <1>13, <1>14
<1>16. \A h \in grants : ~SameSecret(g, h) /\ ~SameSecret(h, g)
  <2> TAKE h \in grants
  <2>1. ASSUME SameSecret(g, h) \/ SameSecret(h, g)
        PROVE  FALSE
    <3>1. Held(q) /\ SameSecret(Ticket(q, restarts), g)
      BY <1>11, <1>12, <2>1
    <3>2. SameSecret(Ticket(q, restarts), h)
      BY <2>1, <3>1, SameIsEquivalence
    <3> QED BY <1>13, <3>1, <3>2
  <2> QED BY <2>1
<1>17. \A h, k \in grants' : SameSecret(h, k) => h = k
  BY <1>6, <1>13, <1>16
<1>18. ~Held(Idle)
  BY DEF Held, Idle, OneShot
<1>19. ASSUME NEW p \in Requests, Held(req'[p])
       PROVE  /\ p # r /\ Held(req[p]) /\ Ticket(req[p], restarts)' = Ticket(req[p], restarts)
              /\ ~SameSecret(Ticket(req[p], restarts), g)
  <2>1. p # r /\ req'[p] = req[p]
    BY <1>9, <1>18, <1>19
  <2>2. Held(req[p]) /\ Ticket(req[p], restarts)' = Ticket(req[p], restarts)
    BY <1>6, <1>19, <2>1
  <2>3. ASSUME SameSecret(Ticket(req[p], restarts), g)
        PROVE  FALSE
    <3>1. Held(q) /\ SameSecret(Ticket(q, restarts), g)
      BY <1>11, <1>12, <2>3
    <3>2. SameSecret(Ticket(q, restarts), Ticket(req[p], restarts))
      BY <2>3, <3>1, SameIsEquivalence
    <3> QED BY <1>13, <2>1, <2>2, <3>1, <3>2
  <2> QED BY <2>1, <2>2, <2>3
<1>20. \A p \in Requests : Ticket(req[p], restarts) \in Tickets
  BY <1>1, TicketType
<1>21. ASSUME NEW p \in Requests, Held(req[p])'
       PROVE  /\ Gone(Ticket(req[p], restarts))'
              /\ \A h \in grants' : ~SameSecret(Ticket(req[p], restarts)', h)
              /\ \A s \in Requests :
                   Held(req[s])' /\ SameSecret(Ticket(req[p], restarts)', Ticket(req[s], restarts)')
                     => s = p
  <2>1. Held(req[p]) /\ Ticket(req[p], restarts)' = Ticket(req[p], restarts)
        /\ ~SameSecret(Ticket(req[p], restarts), g)
    BY <1>19, <1>21
  <2>2. Gone(Ticket(req[p], restarts))'
    <3>1. PICK t \in Tickets : t = Ticket(req[p], restarts)
      BY <1>20
    <3>2. Gone(t)'
      BY <1>10, <1>13, <2>1, <3>1
    <3> QED BY <2>1, <3>1, <3>2 DEF Gone
  <2>3. ASSUME NEW s \in Requests, Held(req[s])',
               SameSecret(Ticket(req[p], restarts)', Ticket(req[s], restarts)')
        PROVE  s = p
    <3>1. Held(req[s]) /\ Ticket(req[s], restarts)' = Ticket(req[s], restarts)
      BY <1>19, <2>3
    <3> QED BY <1>13, <2>1, <2>3, <3>1
  <2> QED BY <1>6, <1>13, <2>1, <2>2, <2>3
<1>22. SecretInv'
  BY <1>6, <1>7, <1>13, <1>15, <1>17, <1>21 DEF SecretInv
<1>23. ReqInv(r)'
  BY <1>1, <1>2, <1>9 DEF ReqInv, Idle, Enrolling
<1>24. \A p \in Requests : ReqInv(p)'
  BY <1>4, <1>9, <1>23, OthersKept
<1> QED BY <1>4, <1>9, <1>22, <1>24 DEF IInv, TypeOK, StoresOK, Req

LEMMA RestartStep ==
  ASSUME IInv, Restart
  PROVE  IInv'
<1>1. StoresOK /\ SecretInv
  BY Parts
<1>2. /\ restarts' = restarts + 1 /\ users' = disk /\ disk' = disk /\ sessions' = {}
      /\ pending_mfa' = {} /\ challenges' = {} /\ req' = [r \in Requests |-> Idle]
      /\ last_totp_step' = [u \in Users |-> 0] /\ pending_totp' = [u \in Users |-> 0]
      /\ require_2fa' \in BOOLEAN
      /\ UNCHANGED <<enrolled, now, fresh, scenario, grants>>
  BY DEF Restart
<1>3. fresh \in Nat /\ restarts \in Nat /\ restarts' \in Nat
  BY <1>1, <1>2 DEF StoresOK
<1>4. Idle \in Req /\ ~Held(Idle)
  BY DEF Idle, Req, Labels, Held, OneShot
<1>5. req' \in [Requests -> Req] /\ \A r \in Requests : req'[r] = Idle
  BY <1>2, <1>4
<1>6. StoreInv'
  BY <1>1, <1>2 DEF StoresOK, StoreInv
<1>7. 0 \in 0..fresh
  BY <1>3
<1>8. pending_totp' \in [Users -> 0..fresh'] /\ last_totp_step' \in [Users -> Nat]
  BY <1>2, <1>7
<1>9. StoresOK'
  BY <1>1, <1>2, <1>3, <1>6, <1>8 DEF StoresOK
<1>10. ASSUME NEW t \in Tickets, Gone(t)
       PROVE  Gone(t)'
  <2>1. t.life \in Nat
    BY DEF Tickets
  <2>2. CASE t.via = "setup"
    BY <1>2, <1>3, <1>10, <2>1, <2>2 DEF Gone
  <2>3. CASE t.via = "code"
    BY <1>2, <1>10, <2>3 DEF Gone
  <2>4. CASE t.via = "totp"
    BY <1>2, <1>3, <1>10, <2>1, <2>4 DEF Gone
  <2>5. CASE t.via = "passkey"
    BY <1>2, <1>10, <2>5 DEF Gone
  <2> QED BY <1>10, <2>2, <2>3, <2>4, <2>5 DEF Gone
<1>11. SecretInv'
  BY <1>1, <1>2, <1>4, <1>5, <1>10 DEF SecretInv
<1>12. \A r \in Requests : ReqInv(r)'
  BY <1>2, <1>3, <1>5 DEF ReqInv, Idle, Enrolling
<1> QED BY <1>5, <1>9, <1>11, <1>12 DEF IInv, TypeOK, StoresOK, Req

LEMMA ClockSteps ==
  ASSUME IInv, Tick \/ Expire
  PROVE  IInv'
<1>1. StoresOK /\ fresh \in Nat
  BY Parts DEF StoresOK
<1>2. CASE Tick
  <2>1. UNCHANGED <<stores, caches, fresh, restarts, scenario>> /\ require_2fa' \in BOOLEAN
        /\ now' \in Nat /\ grants' = grants /\ req' = req
    BY <1>1, <1>2 DEF Tick, StoresOK
  <2> QED BY <2>1, Quiet, StillStep
<1>3. CASE Expire
  <2>1. UNCHANGED stores /\ UNCHANGED outside /\ fresh' = fresh /\ req' = req /\ grants' = grants
        /\ last_totp_step' = last_totp_step
    BY <1>3 DEF Expire
  <2>2. sessions' \subseteq sessions /\ pending_mfa' \subseteq pending_mfa
        /\ challenges' \subseteq challenges
    BY <1>3 DEF Expire
  <2>3. pending_totp' \in [Users -> 0..fresh]
    <3>1. pending_totp \in [Users -> 0..fresh] /\ 0 \in 0..fresh
      BY <1>1 DEF StoresOK
    <3> QED BY <1>3, <3>1 DEF Expire
  <2>4. /\ sessions' \subseteq [token : 1..fresh', user : Users, needs : BOOLEAN]
        /\ \A s, t \in sessions' : s.token = t.token => s = t
        /\ \A s \in sessions' : s \in sessions
        /\ pending_mfa' \subseteq [token : 1..fresh', user : Users]
    BY <1>1, <2>1, <2>2 DEF StoresOK
  <2>5. /\ challenges' \subseteq [kind : {"register", "2fa", "login"}, user : Users \cup {NoUser},
                                  token : 0..fresh', val : 1..fresh']
        /\ \A c, d \in challenges' : c.val = d.val => c = d
    BY <1>1, <2>1, <2>2 DEF StoresOK, StoreInv
  <2>6. CachesForward
    BY <2>1, <2>2, <2>3, <2>4, <2>5 DEF CachesForward
  <2> QED BY <1>1, <2>1, <2>6, CacheStep, StillStep
<1> QED BY <1>2, <1>3

\* The rest of the steps of a request: the connection is closed.
LEMMA OtherEndSteps ==
  ASSUME IInv, NEW r \in Requests,
         \/ SecurityConfig(r)
         \/ RandFails(r) /\ UNCHANGED users
         \/ UserHandle(r) /\ users[req[r].user].handle # 0
  PROVE  IInv' /\ UNCHANGED <<users, disk>>
<1>1. StoresOK
  BY Parts
<1>2. /\ UNCHANGED <<stores, caches, fresh, restarts, scenario>> /\ require_2fa' \in BOOLEAN
      /\ now' \in Nat /\ grants' = grants /\ End(r)
  <2>1. CASE SecurityConfig(r)
    BY <1>1, <2>1 DEF SecurityConfig, StoresOK
  <2>2. CASE RandFails(r) /\ UNCHANGED users
    BY <1>1, <2>2 DEF RandFails, StoresOK, outside, stores
  <2>3. CASE UserHandle(r) /\ users[req[r].user].handle # 0
    BY <1>1, <2>3 DEF UserHandle, StoresOK, outside
  <2> QED BY <2>1, <2>2, <2>3
<1>3. StoresOK' /\ Forward
  BY <1>2, Quiet
<1> QED BY <1>2, <1>3, EndStep DEF stores

LEMMA InitHolds == Init => IInv
<1> SUFFICES ASSUME Init PROVE IInv
  OBVIOUS
<1>1. scenario \in Scenario /\ scenario \in Scenarios
  BY AdminAuthAssumption DEF Init
<1>2. /\ disk \in [Users -> {NoAccount, Plain, WithTotp, WithPasskeys}] /\ users = disk
      /\ enrolled \subseteq Users /\ fresh = 7 /\ grants = {} /\ restarts = 0 /\ now = 1
      /\ require_2fa \in BOOLEAN /\ sessions = {} /\ pending_mfa = {} /\ challenges = {}
      /\ req = [r \in Requests |-> Idle]
      /\ last_totp_step = [u \in Users |-> 0] /\ pending_totp = [u \in Users |-> 0]
  BY <1>1 DEF Init, FirstFresh, Scenario
<1>3. \A a \in {NoAccount, Plain, WithTotp, WithPasskeys} :
        /\ a \in Account /\ a.used \subseteq a.codes
        /\ \A code \in a.codes : code <= 7
        /\ a.salt = 0 => a.codes = {} /\ a.passkeys = {}
  <2>1. NoAccount \in Account /\ NoAccount.used = {} /\ NoAccount.codes = {} /\ NoAccount.passkeys = {}
    BY DEF NoAccount, Account
  <2>2. Plain \in Account /\ Plain.used = {} /\ Plain.codes = {} /\ Plain.salt = 1
    BY DEF Plain, NoAccount, Account
  <2>3. /\ WithTotp \in Account /\ WithTotp.used = {4} /\ WithTotp.codes = {3, 4}
        /\ WithTotp.salt = 1
    <3>1. {3, 4} \in SUBSET Nat /\ {4} \in SUBSET Nat
      OBVIOUS
    <3>2. WithTotp \in Account
      BY <2>2, <3>1, AccountUpdates DEF WithTotp
    <3> QED BY <2>2, <3>2 DEF WithTotp, Account
  <2>4. /\ WithPasskeys \in Account /\ WithPasskeys.used = {} /\ WithPasskeys.codes = {}
        /\ WithPasskeys.salt = 1
    <3>1. {5, 6} \in SUBSET Nat
      OBVIOUS
    <3>2. \A keys \in SUBSET Nat : [Plain EXCEPT !.passkeys = keys, !.handle = 7] \in Account
      BY <2>2 DEF Account
    <3>3. WithPasskeys \in Account
      BY <3>1, <3>2 DEF WithPasskeys
    <3> QED BY <2>2, <3>3 DEF WithPasskeys, Account
  <2> QED BY <2>1, <2>2, <2>3, <2>4
<1>4. disk \in [Users -> Account] /\ \A u \in Users :
        /\ disk[u].used \subseteq disk[u].codes
        /\ \A code \in disk[u].codes : code <= fresh
        /\ disk[u].salt = 0 => disk[u].codes = {} /\ disk[u].passkeys = {}
  BY <1>2, <1>3
<1>5. Idle \in Req /\ ~Held(Idle)
  BY DEF Idle, Req, Labels, Held, OneShot
<1>6. req \in [Requests -> Req] /\ \A r \in Requests : req[r] = Idle
  BY <1>2, <1>5
<1>7. pending_totp \in [Users -> 0..fresh] /\ last_totp_step \in [Users -> Nat]
  BY <1>2
<1>8. StoreInv
  BY <1>2, <1>4 DEF StoreInv
<1>9. StoresOK
  BY <1>1, <1>2, <1>4, <1>7, <1>8 DEF StoresOK
<1>10. SecretInv
  BY <1>2, <1>5, <1>6 DEF SecretInv
<1>11. \A r \in Requests : ReqInv(r)
  BY <1>2, <1>6 DEF ReqInv, Idle, Enrolling
<1> QED BY <1>6, <1>9, <1>10, <1>11, Parts

-----------------------------------------------------------------------------
(***************************************************************************)
(* The theorems                                                            *)
(***************************************************************************)

\* Every step keeps the invariant; one that changes the accounts saves a list with
\* an admin in it, or is a restart.
LEMMA NextHolds ==
  ASSUME IInv, Next
  PROVE  /\ IInv'
         /\ UNCHANGED <<users, disk>> \/ Saved \/ Restart
<1>1. CASE Tick \/ Expire
  BY <1>1, ClockSteps DEF Tick, Expire, stores
<1>2. CASE Restart
  BY <1>2, RestartStep
<1>3. ASSUME NEW r \in Requests, Handle(r)
      PROVE  IInv' /\ (UNCHANGED <<users, disk>> \/ Saved)
  <2> DEFINE Q1 == Gate(r) \/ Refuse(r) \/ Missing(r) \/ Policy(r)
             Q2 == \E u \in Users : SetupCheck(r, u) \/ Login(r, u)
             Q3 == ValidatePending(r) \/ TotpVerify(r) \/ TotpConfirm(r) \/ VerifyPassword(r)
             Q4 == OnlyFactorPolicy(r) \/ WebauthnFind(r) \/ DeleteCheck(r) \/ VerifyAssertion(r)
             C1 == MfaChallenge(r) \/ Logout(r) \/ TotpSetup(r) \/ MarkMfaSatisfied(r) \/ Start2fa(r)
             C2 == \/ DropPending(r) \/ SeedTotpStep(r) \/ ClearPendingTotp(r) \/ StartRegister(r)
                   \/ StartLogin(r)
             C3 == RegisterConsume(r) \/ LoginConsume(r) \/ TwoFactorConsume(r)
             A1 == \E u \in Users : UsersCreate(r, u) \/ UsersDelete(r, u)
             A2 == ClearTotp(r) \/ RegenerateBackupCodes(r) \/ RemovePasskey(r)
  <2>1. CASE Q1
    <3>1. UNCHANGED <<stores, caches, outside, fresh, grants>>
      BY <2>1 DEF Gate, Refuse, Missing, Policy
    <3> QED BY <2>1, <3>1, QuietSteps DEF stores
  <2>2. CASE Q2
    <3>1. UNCHANGED <<stores, caches, outside, fresh, grants>>
      BY <2>2 DEF SetupCheck, Login
    <3> QED BY <2>2, <3>1, QuietSteps DEF stores
  <2>3. CASE Q3
    <3>1. UNCHANGED <<stores, caches, outside, fresh, grants>>
      BY <2>3 DEF ValidatePending, TotpVerify, TotpConfirm, VerifyPassword
    <3> QED BY <2>3, <3>1, QuietSteps DEF stores
  <2>4. CASE Q4
    <3>1. UNCHANGED <<stores, caches, outside, fresh, grants>>
      BY <2>4 DEF OnlyFactorPolicy, WebauthnFind, DeleteCheck, VerifyAssertion
    <3> QED BY <2>4, <3>1, QuietSteps DEF stores
  <2>5. CASE C1
    <3>1. UNCHANGED stores
      BY <2>5 DEF MfaChallenge, Logout, TotpSetup, MarkMfaSatisfied, Start2fa
    <3> QED BY <2>5, <3>1, EndCacheSteps DEF stores
  <2>6. CASE C2
    <3>1. UNCHANGED stores
      BY <2>6 DEF DropPending, SeedTotpStep, ClearPendingTotp, StartRegister, StartLogin
    <3> QED BY <2>6, <3>1, GoCacheSteps DEF stores
  <2>7. CASE C3
    <3>1. UNCHANGED stores
      BY <2>7 DEF RegisterConsume, LoginConsume, TwoFactorConsume, ConsumeChallenge
    <3> QED BY <2>7, <3>1, ChallengeTaken DEF stores
  <2>8. CASE ConsumeTotpStep(r)
    BY <2>8, TotpTaken DEF ConsumeTotpStep, stores
  <2>9. CASE A1 \/ A2
    BY <2>9, EndAccountSteps
  <2>10. CASE UserHandle(r)
    BY <2>10, EndAccountSteps, OtherEndSteps
  <2>11. CASE RandFails(r)
    BY <2>11, EndAccountSteps, OtherEndSteps
  <2>12. CASE SecurityConfig(r)
    BY <2>12, OtherEndSteps
  <2>13. CASE SetupCreate(r)
    BY <2>13, SetupTaken
  <2>14. CASE ConsumeBackupCode(r)
    BY <2>14, CodeTaken
  <2>15. CASE SetTotp(r) \/ AddPasskey(r)
    BY <2>15, GoAccountSteps
  <2>16. CASE UpdateSignCount(r)
    BY <2>16, CountStep
  <2>17. CASE IssueSession(r)
    BY <2>17, IssueStep DEF IssueSession, stores
  <2> QED BY <1>3, <2>1, <2>2, <2>3, <2>4, <2>5, <2>6, <2>7, <2>8, <2>9, <2>10, <2>11, <2>12,
             <2>13, <2>14, <2>15, <2>16, <2>17 DEF Handle
<1> QED BY <1>1, <1>2, <1>3 DEF Next

LEMMA StutterHolds ==
  ASSUME IInv, UNCHANGED vars
  PROVE  IInv'
<1>1. UNCHANGED <<stores, caches, fresh, restarts, scenario>> /\ require_2fa' \in BOOLEAN
      /\ now' \in Nat /\ grants' = grants /\ req' = req
  BY Parts DEF vars, stores, caches, StoresOK
<1> QED BY <1>1, Quiet, StillStep

\* The stores, what every request in progress has shown and what every session was
\* issued for fit together in every reachable state, for any accounts, any number
\* of requests at the same time and any number of restarts.
THEOREM AuthInvariant == Spec => []IInv
<1>1. IInv /\ [Next]_vars => IInv'
  BY NextHolds, StutterHolds
<1> QED BY <1>1, InitHolds, PTL DEF Spec

\* consume_backup_code, consume_totp_step, ChallengeStore::consume and
\* create_first_user: a first-run setup, a backup code, the code of a time step and
\* a WebAuthn challenge each open one session at most, however requests interleave,
\* saves fail and processes restart.
THEOREM OneSessionAlways == Spec => []OneSessionPerSecret
<1>1. IInv => OneSessionPerSecret
  <2> SUFFICES ASSUME IInv PROVE OneSessionPerSecret
    OBVIOUS
  <2>1. TypeOK /\ \A g, h \in grants : SameSecret(g, h) => g = h
    BY DEF IInv, SecretInv
  <2>2. SetupOpensOneSession
    BY <2>1 DEF SetupOpensOneSession, SameSecret
  <2>3. BackupCodeOpensOneSession
    BY <2>1 DEF BackupCodeOpensOneSession, GrantedTwice, SameSecret
  <2>4. TotpStepOpensOneSession
    BY <2>1 DEF TotpStepOpensOneSession, SameSecret
  <2>5. ChallengeOpensOneSession
    BY <2>1 DEF ChallengeOpensOneSession, GrantedTwice, SameSecret
  <2> QED BY <2>1, <2>2, <2>3, <2>4, <2>5 DEF OneSessionPerSecret
<1> QED BY <1>1, AuthInvariant, PTL

\* UserStore::remove: no step of any handler takes the last account away, from
\* memory or from users.yaml, whether or not its save fails.
THEOREM AdminsRemain == Spec => NeverLockedOut
<1>1. ASSUME IInv, [Next]_vars
      PROVE  [/\ Admins(disk) # {} => Admins(disk') # {}
              /\ restarts' = restarts /\ Admins(users) # {} => Admins(users') # {}]_vars
  <2>1. CASE UNCHANGED vars
    BY <2>1
  <2>2. CASE Next /\ UNCHANGED <<users, disk>>
    BY <2>2
  <2>3. CASE Next /\ Saved
    BY <2>3 DEF Saved
  <2>4. CASE Next /\ Restart
    <3>1. restarts \in Nat
      BY Parts, <1>1 DEF StoresOK
    <3>2. disk' = disk /\ restarts' # restarts
      BY <2>4, <3>1 DEF Restart
    <3> QED BY <3>2
  <2> QED BY <1>1, <2>1, <2>2, <2>3, <2>4, NextHolds
<1>2. IInv /\ [Next]_vars =>
        [/\ Admins(disk) # {} => Admins(disk') # {}
         /\ restarts' = restarts /\ Admins(users) # {} => Admins(users') # {}]_vars
  BY <1>1
<1> QED BY <1>2, AuthInvariant, PTL DEF Spec, NeverLockedOut

\* Only IssueSession adds a session and only MarkMfaSatisfied changes one.
LEMMA SessionsKept ==
  ASSUME Next
  PROVE  \/ sessions' \subseteq sessions
         \/ \E r \in Requests : IssueSession(r) \/ MarkMfaSatisfied(r)
<1>1. CASE Tick \/ Expire \/ Restart
  BY <1>1 DEF Tick, Expire, Restart, caches
<1>2. ASSUME NEW r \in Requests, Handle(r)
      PROVE  sessions' \subseteq sessions \/ IssueSession(r) \/ MarkMfaSatisfied(r)
  <2>1. CASE Gate(r) \/ Refuse(r) \/ Missing(r) \/ RandFails(r) \/ Policy(r) \/ DropPending(r)
    BY <2>1 DEF Gate, Refuse, Missing, RandFails, Policy, DropPending, caches
  <2>2. CASE \E u \in Users : SetupCheck(r, u) \/ Login(r, u) \/ UsersCreate(r, u) \/ UsersDelete(r, u)
    BY <2>2 DEF SetupCheck, Login, UsersCreate, UsersDelete, caches
  <2>3. CASE SetupCreate(r) \/ MfaChallenge(r) \/ Logout(r) \/ SecurityConfig(r)
    BY <2>3 DEF SetupCreate, MfaChallenge, Logout, SecurityConfig, caches
  <2>4. CASE ValidatePending(r) \/ TotpVerify(r) \/ ConsumeTotpStep(r) \/ ConsumeBackupCode(r)
    BY <2>4 DEF ValidatePending, TotpVerify, ConsumeTotpStep, ConsumeBackupCode, caches
  <2>5. CASE TotpSetup(r) \/ TotpConfirm(r) \/ SetTotp(r) \/ SeedTotpStep(r) \/ ClearPendingTotp(r)
    BY <2>5 DEF TotpSetup, TotpConfirm, SetTotp, SeedTotpStep, ClearPendingTotp, caches
  <2>6. CASE VerifyPassword(r) \/ OnlyFactorPolicy(r) \/ ClearTotp(r) \/ RegenerateBackupCodes(r)
    BY <2>6 DEF VerifyPassword, OnlyFactorPolicy, ClearTotp, RegenerateBackupCodes, caches
  <2>7. CASE WebauthnFind(r) \/ StartRegister(r) \/ Start2fa(r) \/ StartLogin(r) \/ UserHandle(r)
    BY <2>7 DEF WebauthnFind, StartRegister, Start2fa, StartLogin, UserHandle, caches
  <2>8. CASE RegisterConsume(r) \/ LoginConsume(r) \/ TwoFactorConsume(r)
    BY <2>8 DEF RegisterConsume, LoginConsume, TwoFactorConsume, ConsumeChallenge
  <2>9. CASE \/ AddPasskey(r) \/ DeleteCheck(r) \/ RemovePasskey(r)
             \/ VerifyAssertion(r) \/ UpdateSignCount(r)
    BY <2>9 DEF AddPasskey, DeleteCheck, RemovePasskey, VerifyAssertion, UpdateSignCount, caches
  <2> QED BY <1>2, <2>1, <2>2, <2>3, <2>4, <2>5, <2>6, <2>7, <2>8, <2>9 DEF Handle
<1> QED BY <1>1, <1>2 DEF Next

\* mark_mfa_satisfied: a session that is held at enrolment is let out only after a
\* second factor of its own user has reached users.yaml, whatever other requests
\* enrol, log out or are issued sessions meanwhile.
THEOREM FlagNeedsEnrolment == Spec => FlagLiftedByEnrolment
<1> DEFINE Lifted == \A s \in sessions, t \in sessions' :
                       s.token = t.token /\ s.needs /\ ~t.needs => s.user \in enrolled
<1>1. ASSUME IInv, Next
      PROVE  Lifted
  <2>1. StoresOK /\ fresh \in Nat
    BY <1>1, Parts DEF StoresOK
  <2>2. \A s, t \in sessions : s.token = t.token => s = t
    BY <2>1 DEF StoresOK
  <2>3. CASE sessions' \subseteq sessions
    BY <2>2, <2>3
  <2>4. ASSUME NEW r \in Requests, IssueSession(r)
        PROVE  Lifted
    <3>1. PICK new : new = [token |-> fresh', user |-> req[r].user, needs |-> req[r].needs]
      OBVIOUS
    <3>2. sessions' = sessions \cup {new} /\ new.token = fresh + 1
      BY <2>4, <3>1 DEF IssueSession, Draw
    <3>3. \A s \in sessions : s.token \in 1..fresh
      BY <2>1 DEF StoresOK
    <3>4. \A s \in sessions : s.token # new.token
      BY <2>1, <3>2, <3>3
    <3> QED BY <2>2, <3>2, <3>4
  <2>5. ASSUME NEW r \in Requests, MarkMfaSatisfied(r)
        PROVE  Lifted
    <3>1. req[r].at = "mark" /\ ReqInv(r)
      BY <1>1, <2>5, Parts DEF MarkMfaSatisfied, At
    <3>2. req[r].user \in enrolled /\ \A s \in sessions : s.token = req[r].cookie => s.user = req[r].user
      BY <3>1 DEF ReqInv, Enrolling
    <3>3. SUFFICES ASSUME NEW s \in sessions, NEW t \in sessions', s.token = t.token, s.needs, ~t.needs
                   PROVE  s.user \in enrolled
      OBVIOUS
    <3>4. PICK z \in sessions : t = IF z.token = req[r].cookie THEN [z EXCEPT !.needs = FALSE] ELSE z
      BY <2>5 DEF MarkMfaSatisfied
    <3>5. CASE z.token = req[r].cookie
      <4>1. t.token = z.token
        BY <2>1, <3>4 DEF StoresOK
      <4> QED BY <3>2, <3>3, <3>5, <4>1
    <3>6. CASE z.token # req[r].cookie
      BY <2>2, <3>3, <3>4, <3>6
    <3> QED BY <3>5, <3>6
  <2> QED BY <1>1, <2>3, <2>4, <2>5, SessionsKept
<1>2. IInv /\ [Next]_vars => [Lifted]_vars
  BY <1>1
<1> QED BY <1>2, AuthInvariant, PTL DEF Spec, FlagLiftedByEnrolment
=============================================================================
