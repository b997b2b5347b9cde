--------------------------- MODULE SharedCeremonies ---------------------------
(***************************************************************************)
(* What a WebAuthn ceremony leaves in shared state: ChallengeStore and the *)
(* passkeys of WebAuthn, as parts of a larger state with names of their    *)
(* own, and the properties stated of them there.                           *)
(***************************************************************************)
CONSTANTS Callers, Keys, MaxEntries, Ttl, MaxTime, MaxStarts

VARIABLES clock, calls, entries, stamps, starts, taken

C == INSTANCE ChallengeStore WITH order <- stamps

challengeVars == <<clock, calls, entries, stamps, starts, taken>>

CONSTANTS Logins, Inputs, Counts, Refused, MaxPasskeys, MaxAccepted, MaxRestarts

VARIABLES users, file, req, accepted, ids, overlap, answered, restarts

W == INSTANCE WebAuthn WITH last <- answered

passkeyVars == <<users, file, req, accepted, ids, overlap, answered, restarts>>

\* Neither entries_ nor order_ of ChallengeStore outgrows kMaxEntries, and no
\* challenge loses the stamp that would reclaim it.
BoundedAndStamped == C!BoundedAndStamped

\* ChallengeStore::start drops no ceremony that is still among the newest.
NewerCeremoniesSurvive == C!NewerCeremoniesSurvive

\* ChallengeStore implements the map AdminAuth's ceremonies rely on.
ImplementsChallengeMap == C!ImplementsChallengeMap

\* The counters a passkey logged in with rise, also across restarts, unless its
\* logins overlap (verify_webauthn_authentication).
CountersRise == W!CountersRise

\* A passkey is stored as the authenticator made it, or refused, and its key can
\* be used (parse_authenticator_data, verify_webauthn_registration).
StoredAsAttested == W!StoredAsAttested
=============================================================================
