----------------------------- MODULE MCDiskFiles -----------------------------
(***************************************************************************)
(* The two components that meet files changing under them: the write that  *)
(* replaces a file, and the listener that serves certificates somebody     *)
(* else replaces.  They share nothing, so a behaviour moves one of them,   *)
(* chosen at its start.                                                    *)
(***************************************************************************)
EXTENDS SharedFile, SharedTls

CONSTANT site

MCSiteOrder == <<site>>

VARIABLE moving

MCInit ==
  /\ F!Init /\ T!Init
  /\ \/ /\ moving = "file"
        /\ limit = 1 /\ disk = [f \in T!Files |-> 0] /\ configs = <<[s \in {site} |-> NoPair]>>
     \/ /\ moving = "tls"
        /\ path = NoFile /\ tmp = NoFile
        /\ arg = CHOOSE v \in Values : TRUE
        /\ mode = CHOOSE m \in Modes : TRUE

MCNext ==
  \/ moving = "file" /\ F!Next /\ UNCHANGED <<moving, tlsVars>>
  \/ moving = "tls" /\ T!Next /\ UNCHANGED <<moving, fileVars>>

\* TlsListener's Fairness, for the behaviours that move it.
MCSpec ==
  /\ MCInit /\ [][MCNext]_<<moving, fileVars, tlsVars>>
  /\ WF_tlsVars(moving = "tls" /\ T!AcceptLoop)
  /\ \A c \in Conns : SF_tlsVars(moving = "tls" /\ T!Accept(c))
  /\ \A c \in T!Callers : WF_tlsVars(moving = "tls" /\ T!Handshake(c))
=============================================================================
