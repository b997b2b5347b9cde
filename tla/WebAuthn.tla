------------------------------ MODULE WebAuthn ------------------------------
(***************************************************************************)
(* Passkeys of one account: verification of registrations and assertions   *)
(* (auth/webauthn/webauthn_service.cpp, cbor_reader.cpp, cose_key.cpp) and *)
(* the sign counter, which a login checks on a copy of the account and     *)
(* stores later (the verify handlers of admin/admin_server.cpp over        *)
(* auth/user_store.cpp).                                                   *)
(*                                                                         *)
(* What libcbor makes of bytes is a tree of items.  authenticatorData has  *)
(* one cell per field, one per byte of the credential id, and one for the  *)
(* CBOR item at its end; a cell is an item too.  Hashes and signatures are *)
(* right or wrong as an input, a text (clientDataJSON's fields) matches or *)
(* does not, and the keys that OpenSSL refuses are a constant; the         *)
(* attestation object around authenticatorData and the cap on the input's  *)
(* size are left out.                                                      *)
(*                                                                         *)
(* Nothing keeps an account from registering a credential id twice.  The   *)
(* passkeys are told apart by the number of their registration, in whose   *)
(* order webauthn_credentials holds them.                                  *)
(***************************************************************************)
EXTENDS Integers, Sequences, FiniteSets

CONSTANTS
  Logins,        \* login requests in progress
  Inputs,        \* registrations that clients send: see Register
  Counts,        \* the counters authenticators send
  Refused,       \* the well-formed COSE keys EVP_PKEY_fromdata refuses
  MaxPasskeys,   \* bounds on the passkeys registered, logins accepted and
  MaxAccepted,   \* restarts of a behaviour
  MaxRestarts

VARIABLES
  users,      \* UserStore::users_: the passkeys, by registration
  file,       \* the same in users.yaml
  req,        \* where each login is, and its copy of the counter
  accepted,   \* history: the counters of the logins that opened a session
  ids,        \* the credential ids of the registrations so far
  overlap,    \* history: the ids of which a login overlapped another or a removal
  last,       \* the registration answered last
  restarts

vars == <<users, file, req, accepted, ids, overlap, last, restarts>>

-----------------------------------------------------------------------------
(* CBOR *)

kMaxDepth == 8
kMaxContainerElements == 64

Item(kind, n, kids) == [kind |-> kind, n |-> n, definite |-> TRUE, kids |-> kids]
Int64(n) == Item("int", n, <<>>)
Bytes(len) == Item("bytes", len, <<>>)

\* Whether an item is copied without an exception.  The elements of a map are
\* pairs, its kids keys and values in turn.
convert(item) ==
  /\ item.kind # "malformed"
  /\ item.kind \in {"bytes", "text"} => item.definite
  /\ Len(item.kids) <= (IF item.kind = "map" THEN 2 ELSE 1) * kMaxContainerElements

\* The copy descends from level to level.
parse_cbor(item) ==
  LET level[depth \in 0 .. kMaxDepth + 1] ==
        IF depth = 0 THEN {item}
        ELSE UNION {{parent.kids[i] : i \in DOMAIN parent.kids} : parent \in level[depth - 1]}
  IN  /\ level[kMaxDepth + 1] = {}
      /\ \A depth \in 0 .. kMaxDepth : \A it \in level[depth] : convert(it)

\* The value under the first such key, {} if there is none.  An integer key out
\* of int64's range ahead of it throws, which no caller tells from "none".
cbor_map_find_int(map, key) ==
  LET keys == {i \in DOMAIN map.kids : i % 2 = 1 /\ map.kids[i].kind \in {"int", "huge"}}
      hits == {i \in keys : map.kids[i] = Int64(key)}
      first == CHOOSE i \in hits : \A j \in hits : i <= j
  IN  IF map.kind # "map" \/ hits = {} THEN {}
      ELSE IF \E i \in keys : i < first /\ map.kids[i].kind = "huge" THEN {}
      ELSE {map.kids[first + 1]}

-----------------------------------------------------------------------------
(* COSE keys: labels, key types, algorithms *)

kCoseKty == 1
kCoseAlg == 3
kCoseCrvOrN == 0 - 1
kCoseXOrE == 0 - 2
kCoseY == 0 - 3

has_int(map, key, n) == Int64(n) \in cbor_map_find_int(map, key)

require_bytes(map, key, sizes) ==
  \E value \in cbor_map_find_int(map, key) : value.kind = "bytes" /\ value.n \in sizes

Ec2(map) ==
  /\ has_int(map, kCoseKty, 2) /\ has_int(map, kCoseAlg, 0 - 7)
  /\ has_int(map, kCoseCrvOrN, 1)
  /\ require_bytes(map, kCoseXOrE, {32}) /\ require_bytes(map, kCoseY, {32})

Rsa(map) ==
  /\ has_int(map, kCoseKty, 3) /\ has_int(map, kCoseAlg, 0 - 257)
  /\ require_bytes(map, kCoseCrvOrN, 1 .. 512) /\ require_bytes(map, kCoseXOrE, 1 .. 4)

parse_cose_public_key(item) ==
  /\ item.kind = "map"
  /\ Ec2(item) \/ Rsa(item)
  /\ item \notin Refused

-----------------------------------------------------------------------------
(* authenticatorData: RP ID hash, flags, counter; AAGUID, length of the id, *)
(* id, key, and whatever extensions follow.                                 *)

kFixedHeaderLen == 3
kFlagUserPresent == 1
kFlagAttestedCredentialData == 64

HasFlag(flags, bit) == (flags \div bit) % 2 = 1

Throws == [ok |-> FALSE, flags |-> 0, id |-> <<>>, key |-> Int64(0), count |-> 0]

\* mutant: the key is looked for where the id begins
parse_key_at_id(data) ==
  LET length == data[5].n
      offset == kFixedHeaderLen + 2
  IN  IF Len(data) < offset \/ Len(data) <= offset + length THEN Throws
      ELSE [ok |-> data[offset + 1].kind = "map", flags |-> data[2].n, count |-> data[3].n,
            id |-> SubSeq(data, offset + 1, offset + length), key |-> data[offset + 1]]

\* With require_attested_credential.  The CBOR item that follows the id is cut
\* out of the data; what follows it is ignored.
parse_authenticator_data(data) ==
  IF \/ Len(data) < kFixedHeaderLen
     \/ ~HasFlag(data[2].n, kFlagAttestedCredentialData)
     \/ Len(data) < kFixedHeaderLen + 2 THEN Throws
  ELSE LET length == data[5].n
           offset == kFixedHeaderLen + 2 + length
       IN  IF Len(data) < offset \/ offset >= Len(data) THEN Throws
           ELSE [ok |-> parse_cbor(data[offset + 1]) /\ data[offset + 1].kind = "map",
                 flags |-> data[2].n, id |-> SubSeq(data, kFixedHeaderLen + 3, offset),
                 key |-> data[offset + 1], count |-> data[3].n]

\* The fields of clientDataJSON; `client` is the set of those that match.
ClientFields == {"type", "origin", "challenge"}

verify_client_data(client) == client = ClientFields

\* `rp` is that the hash is of this server's id.
verify_webauthn_registration(client, rp, data) ==
  LET parsed == parse_authenticator_data(data)
  IN  /\ verify_client_data(client) /\ parsed.ok /\ rp
      /\ HasFlag(parsed.flags, kFlagUserPresent)
      /\ parse_cbor(parsed.key) /\ parse_cose_public_key(parsed.key)

\* Two zeros mean that the authenticator has no counter.
CounterAccepted(stored, sent) == (stored = 0 /\ sent = 0) \/ sent > stored

\* `present` is the user-presence flag of the assertion's data.
verify_webauthn_authentication(client, rp, present, signed, passkey, sent) ==
  /\ verify_client_data(client) /\ rp /\ present
  /\ parse_cbor(passkey.key) /\ parse_cose_public_key(passkey.key) /\ signed
  /\ CounterAccepted(passkey.count, sent)

-----------------------------------------------------------------------------
Idle == [at |-> "idle", n |-> 0, count |-> 0]

NoInput == [op |-> "none"]

Init ==
  /\ users = <<>> /\ file = <<>>
  /\ req = [r \in Logins |-> Idle]
  /\ accepted = <<>>
  /\ ids = <<>> /\ overlap = {}
  /\ last = NoInput
  /\ restarts = 0

With(passkeys, n, passkey) == [i \in DOMAIN passkeys \cup {n} |-> IF i = n THEN passkey ELSE passkeys[i]]

Without(passkeys, n) == [i \in DOMAIN passkeys \ {n} |-> passkeys[i]]

\* What std::find_if finds when it looks for the id of registration n.
IsFirst(passkeys, n) ==
  n \in DOMAIN passkeys /\ \A m \in DOMAIN passkeys : ids[m] = ids[n] => n <= m

\* save_locked: memory has changed; the file follows, or the call throws.
Save(new, saved) ==
  /\ users' = new
  /\ file' = IF saved THEN new ELSE file

\* handle_webauthn_register_verify.  `input` is what the authenticator made
\* and the data as it came; the passkey goes to the end of the list, whatever
\* ids there are.
Register(input, saved) ==
  LET ok == verify_webauthn_registration(input.client, input.rp, input.data)
      parsed == parse_authenticator_data(input.data)
      n == Len(ids) + 1
  IN  /\ n <= MaxPasskeys
      /\ IF ok THEN /\ Save(With(users, n, [key |-> parsed.key, count |-> parsed.count]), saved)
                    /\ ids' = Append(ids, parsed.id)
         ELSE UNCHANGED <<users, file, ids>>
      /\ last' = [op |-> "register", input |-> input, ok |-> ok,
                  stored |-> [id |-> parsed.id, key |-> parsed.key, count |-> parsed.count]]
      /\ UNCHANGED <<req, accepted, overlap, restarts>>

InProgress(id) == \E r \in Logins : req[r].at = "update" /\ ids[req[r].n] = id

Overlapping(id) == IF InProgress(id) THEN overlap \cup {id} ELSE overlap

\* remove_webauthn_credential
Remove(n, saved) ==
  /\ IsFirst(users, n)
  /\ Save(Without(users, n), saved)
  /\ overlap' = Overlapping(ids[n])
  /\ last' = NoInput
  /\ UNCHANGED <<req, accepted, ids, restarts>>

\* handle_webauthn_login_verify and handle_webauthn_2fa_verify: the passkey is
\* found in a copy of the account and the assertion is checked against it.
Verify(r, n, sent, client, rp, present, signed) ==
  /\ req[r].at = "idle" /\ IsFirst(users, n)
  /\ verify_webauthn_authentication(client, rp, present, signed, users[n], sent)
  /\ req' = [req EXCEPT ![r] = [at |-> "update", n |-> n, count |-> sent]]
  /\ overlap' = Overlapping(ids[n])
  /\ last' = NoInput
  /\ UNCHANGED <<users, file, accepted, ids, restarts>>

\* The passkey that has the id of registration n by now, if any has.
Found(n) == {m \in DOMAIN users : IsFirst(users, m) /\ ids[m] = ids[n]}

Counted(n, count) ==
  [m \in DOMAIN users |->
     IF m \in Found(n) THEN [key |-> users[m].key, count |-> count] ELSE users[m]]

\* mutant: the counter is kept in memory only
UpdateSignCountUnsaved(r, saved) ==
  /\ req[r].at = "update"
  /\ users' = Counted(req[r].n, req[r].count)
  /\ accepted' = IF saved THEN Append(accepted, [n |-> req[r].n, count |-> req[r].count]) ELSE accepted
  /\ req' = [req EXCEPT ![r] = Idle]
  /\ UNCHANGED <<file, ids, overlap, last, restarts>>

\* update_webauthn_sign_count, which does nothing if no passkey has the id any
\* more, and the session that follows it unless the save throws.
UpdateSignCount(r, saved) ==
  LET found == Found(req[r].n) # {}
  IN  /\ req[r].at = "update"
      /\ IF found THEN Save(Counted(req[r].n, req[r].count), saved)
         ELSE UNCHANGED <<users, file>>
      /\ accepted' = IF saved \/ ~found
                     THEN Append(accepted, [n |-> req[r].n, count |-> req[r].count]) ELSE accepted
      /\ req' = [req EXCEPT ![r] = Idle]
      /\ UNCHANGED <<ids, overlap, last, restarts>>

Restart ==
  /\ restarts < MaxRestarts
  /\ restarts' = restarts + 1
  /\ users' = file
  /\ req' = [r \in Logins |-> Idle]
  /\ last' = NoInput
  /\ UNCHANGED <<file, accepted, ids, overlap>>

Next ==
  \/ \E saved \in BOOLEAN :
       \/ \E input \in Inputs : Register(input, saved)
       \/ \E n \in DOMAIN users : Remove(n, saved)
       \/ \E r \in Logins : Len(accepted) < MaxAccepted /\ UpdateSignCount(r, saved)
  \/ \E r \in Logins, n \in DOMAIN users, sent \in Counts, client \in SUBSET ClientFields,
        rp, present, signed \in BOOLEAN :
       Verify(r, n, sent, client, rp, present, signed)
  \/ Restart

Spec == Init /\ [][Next]_vars

-----------------------------------------------------------------------------
\* The counters with which a registered passkey opened sessions rise, also
\* across failed saves, restarts and further registrations of its id, unless a
\* login overlapped another one or the removal of a passkey with its id: both
\* logins are then checked against the same copy and the later update may store
\* the lower counter, or store it for the passkey that comes next; a removal
\* that is not saved leaves the old counter in the file.  Authenticators without
\* a counter stay at zero.
CountersRise ==
  \A i, j \in DOMAIN accepted :
    i < j /\ accepted[i].n = accepted[j].n /\ ids[accepted[i].n] \notin overlap =>
      \/ accepted[i].count < accepted[j].count
      \/ accepted[i].count = 0 /\ accepted[j].count = 0

\* What verify_webauthn_authentication asks of a key before the signature.
KeyPasses(key) == parse_cbor(key) /\ parse_cose_public_key(key)

\* A registration is stored as the authenticator made it, whatever extensions
\* follow the key and however long the id is; one whose data was cut short,
\* carries no credential by its flags, or has a key of the wrong shape or one
\* that OpenSSL refuses is not: no boundary of parse_authenticator_data is off
\* by one.
Attested ==
  last.op = "register" =>
    LET input == last.input
        fine == input.client = ClientFields /\ input.rp /\ {"UP", "AT"} \subseteq input.flags
                  /\ input.whole /\ input.made.usable
    IN  /\ last.ok <=> fine
        /\ last.ok => /\ last.stored.id = input.made.id
                      /\ last.stored.key = input.made.key
                      /\ last.stored.count = input.made.count

\* So it is, and no account relies on a passkey that cannot log in.
StoredAsAttested ==
  /\ Attested
  /\ \A n \in DOMAIN users : KeyPasses(users[n].key)

-----------------------------------------------------------------------------
(***************************************************************************)
(* The inductive invariant behind the two.                                 *)
(***************************************************************************)
IsSeq(s) == s \in Seq({s[i] : i \in DOMAIN s})

\* The flags byte says what the authenticator set: user present, credential attested.
Flagged(data, flags) ==
  Len(data) >= 2 => /\ "UP" \in flags <=> HasFlag(data[2].n, kFlagUserPresent)
                    /\ "AT" \in flags <=> HasFlag(data[2].n, kFlagAttestedCredentialData)

\* An authenticator's data: whole, with whatever follows the key, or cut short.
Carries(data, made) ==
  LET size == Len(made.id)
  IN  /\ Len(data) >= 6 + size
      /\ data[3].n = made.count /\ data[5].n = size
      /\ \A i \in 1 .. size : data[5 + i] = made.id[i]
      /\ data[6 + size] = made.key

CutShort(data, made) ==
  /\ Len(data) < 6 + Len(made.id)
  /\ Len(data) >= 5 => data[5].n = Len(made.id)

\* What clients send: any registration of any authenticator, whole or cut.
Bounds ==
  /\ Counts \subseteq Nat
  /\ \A input \in Inputs :
       /\ IsSeq(input.made.id) /\ IsSeq(input.data) /\ input.made.count \in Nat
       /\ input.made.usable <=> KeyPasses(input.made.key)
       /\ Flagged(input.data, input.flags)
       /\ IF input.whole THEN Carries(input.data, input.made) ELSE CutShort(input.data, input.made)

IsPasskey(passkey) ==
  /\ passkey = [key |-> passkey.key, count |-> passkey.count]
  /\ passkey.count \in Nat /\ KeyPasses(passkey.key)

\* Passkeys were registered, and none that only its own login may change has a
\* counter below one with which it opened a session.
StoreInv(passkeys) ==
  /\ DOMAIN passkeys \subseteq DOMAIN ids
  /\ \A n \in DOMAIN passkeys :
       /\ IsPasskey(passkeys[n])
       /\ \A i \in DOMAIN accepted :
            accepted[i].n = n /\ ids[n] \notin overlap => accepted[i].count <= passkeys[n].count

\* The counter a login has checked is still the one to compare with.
LoginInv(r) ==
  /\ req[r].at = "update" => req[r].n \in DOMAIN ids /\ req[r].count \in Nat
  /\ req[r].at = "update" /\ ids[req[r].n] \notin overlap =>
       /\ IsFirst(users, req[r].n)
       /\ CounterAccepted(users[req[r].n].count, req[r].count)
       /\ \A q \in Logins : req[q].at = "update" /\ ids[req[q].n] = ids[req[r].n] => q = r

IInv ==
  /\ IsSeq(ids)
  /\ accepted \in Seq([n : DOMAIN ids, count : Nat])
  /\ DOMAIN req = Logins
  /\ StoreInv(users) /\ StoreInv(file)
  /\ \A r \in Logins : LoginInv(r)
  /\ CountersRise /\ Attested
=============================================================================
