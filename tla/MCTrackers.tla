----------------------------- MODULE MCTrackers ------------------------------
(***************************************************************************)
(* The two trackers whose callers read the clock before the lock.  They    *)
(* share nothing, so a behaviour moves one of them, chosen at its start,   *)
(* and leaves the other as it was built.                                   *)
(***************************************************************************)
EXTENDS IpBlockTracker, SharedRates, TLC

CONSTANTS a, r

\* One range that holds the address.
MCCovers == r :> {a}

VARIABLE moving

MCInit == moving \in {"blocks", "rate"} /\ Init /\ R!Init

MCNext ==
  \/ moving = "blocks" /\ Next /\ UNCHANGED <<moving, rateVars>>
  \/ moving = "rate" /\ R!Next /\ UNCHANGED <<moving, vars>>

MCSpec == MCInit /\ [][MCNext]_<<moving, vars, rateVars>>
=============================================================================
