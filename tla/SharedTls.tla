------------------------------- MODULE SharedTls ------------------------------
(***************************************************************************)
(* TlsListener as a part of a larger state, with names of its own, and the *)
(* properties stated of it there.                                          *)
(***************************************************************************)
EXTENDS Naturals, Sequences

CONSTANTS Conns, Listener, SiteOrder, Pairs, NoPair, Limits, MaxConfigs, MaxVersion

VARIABLES configs, disk, checked, built, contexts, refreshing, limit, acceptor, handshakes

T == INSTANCE TlsListener WITH calls <- handshakes

tlsVars == <<configs, disk, checked, built, contexts, refreshing, limit, acceptor, handshakes>>

\* What was loaded is what is on disk for as long as built_fingerprint_ says so.
FingerprintIsHonest == T!FingerprintIsHonest

\* A handshake that met no refresh is served from the snapshot it read.
ServedFromSnapshot == T!ServedFromSnapshot

\* Refreshes end, and a client that waits is accepted as long as descriptors
\* keep becoming free (RefreshGuard, accept_next).
ListenerKeepsServing == T!ListenerKeepsServing
=============================================================================
