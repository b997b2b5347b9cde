------------------------------ MODULE MCStores -------------------------------
(***************************************************************************)
(* Three stores that remote parties fill: scores, challenges, passkeys.    *)
(* They share nothing, so a behaviour moves one of them, chosen at its     *)
(* start, and leaves the others as they were built.                        *)
(***************************************************************************)
EXTENDS ScoreTracker, SharedCeremonies

\* How many insertions a behaviour makes: enough for every stamp to be popped
\* and for stale stamps of the same IP to meet.
MaxSeq == 8

\* A narrow int, so that sums leave its range.
MCIntMin == 0 - 4

BoundedNext ==
  \E ip \in Ips :
    \/ Reset(ip)
    \/ \E points \in Points : AddMore(ip, points)
    \/ \E points \in Points : next_seq < MaxSeq /\ Insert(ip, points)

Cell(n) == [kind |-> "int", n |-> n, definite |-> TRUE, kids |-> <<>>]
Blob(n) == [Cell(n) EXCEPT !.kind = "bytes"]
Map(kids) == [Cell(0) EXCEPT !.kind = "map", !.kids = kids]

\* Arrays within arrays.
Nested[depth \in 0 .. 9] ==
  IF depth = 0 THEN Cell(0) ELSE [Cell(0) EXCEPT !.kind = "array", !.kids = <<Nested[depth - 1]>>]

EcKids(x) == <<Cell(1), Cell(2), Cell(3), Cell(0 - 7), Cell(0 - 1), Cell(1),
               Cell(0 - 2), Blob(x), Cell(0 - 3), Blob(32)>>
RsaKids(n, e) == <<Cell(1), Cell(3), Cell(3), Cell(0 - 257), Cell(0 - 1), Blob(n),
                   Cell(0 - 2), Blob(e)>>
Huge == [Cell(0) EXCEPT !.kind = "huge"]
Filler(pairs) == [i \in 1 .. 2 * pairs |-> Cell(9)]

\* Keys of the right shape whose point is not on the curve, or whose modulus is none.
MCRefused == {Map(EcKids(32) \o <<Cell(8), Cell(8)>>), Map(RsaKids(2, 1))}

\* Keys on either side of every limit.
Usable == {Map(EcKids(32)), Map(RsaKids(512, 4)), Map(RsaKids(1, 1)),
           Map(EcKids(32) \o <<Huge, Cell(0)>>), Map(EcKids(32) \o Filler(59)),
           Map(EcKids(32) \o <<Cell(9), Nested[7]>>), Map(EcKids(32) \o EcKids(31))}
Unusable == MCRefused \cup
            {Map(EcKids(31)), Map(RsaKids(513, 4)), Map(RsaKids(0, 4)), Map(RsaKids(512, 5)),
             Map(<<Huge, Cell(0)>> \o EcKids(32)), Map(EcKids(32) \o Filler(60)),
             Map(EcKids(32) \o <<Cell(9), Nested[8]>>), Map(<<>>), Cell(0),
             Map(EcKids(32) \o <<Cell(9), [Blob(1) EXCEPT !.definite = FALSE]>>),
             Map(<<Cell(1), Cell(2), Cell(3), Cell(0 - 257)>>),
             [Map(EcKids(32)) EXCEPT !.kind = "malformed"]}

Made(id, key, count) == [id |-> id, key |-> key, count |-> count, usable |-> key \in Usable]

\* The flags byte: user present, user verified, credential attested.
Byte(flags) ==
  (IF "UP" \in flags THEN 1 ELSE 0) + (IF "UV" \in flags THEN 4 ELSE 0)
    + (IF "AT" \in flags THEN 64 ELSE 0)

Encoded(made, flags) ==
  <<Cell(5), Cell(Byte(flags)), Cell(made.count), Cell(0), Cell(Len(made.id))>>
    \o made.id \o <<made.key>>

Flagged(made, flags, more) ==
  [made |-> made, data |-> Encoded(made, flags) \o more, whole |-> TRUE,
   client |-> {"type", "origin", "challenge"}, rp |-> TRUE, flags |-> flags]

Whole(made, more) == Flagged(made, {"UP", "AT"}, more)

Cut(made, size) == [Whole(made, <<>>) EXCEPT !.data = SubSeq(@, 1, size), !.whole = FALSE]

OneByte == Made(<<Cell(1)>>, Map(EcKids(32)), 0)
TwoBytes == Made(<<Cell(1), Cell(2)>>, Map(EcKids(32)), 1)

\* The counters authenticators send.
MCCounts == 0 .. 2

LoginInputs == {Whole(OneByte, <<>>), Whole(TwoBytes, <<>>)}

RegistrationInputs ==
  LoginInputs \cup {Whole(Made(<<>>, Map(EcKids(32)), 0), <<>>)}
  \cup {Whole(Made(<<Cell(1)>>, key, 1), <<Nested[1]>>) : key \in Usable \cup Unusable}
  \cup {Cut(TwoBytes, size) : size \in 0 .. 7}
  \cup {[Whole(TwoBytes, <<>>) EXCEPT !.client = {"type", "challenge"}], [Whole(TwoBytes, <<>>) EXCEPT !.rp = FALSE]}
  \cup {Flagged(TwoBytes, flags, <<>>) : flags \in SUBSET {"UP", "UV", "AT"}}

VARIABLE moving

\* Every kind of registration, without logins, so that the two do not multiply.
Registrations == \E input \in RegistrationInputs, saved \in BOOLEAN : W!Register(input, saved)

MCInit == moving \in {"scores", "challenges", "passkeys", "registrations"} /\ Init /\ C!Init /\ W!Init

MCNext ==
  \/ moving = "scores" /\ BoundedNext /\ UNCHANGED <<moving, challengeVars, passkeyVars>>
  \/ moving = "challenges" /\ C!Next /\ UNCHANGED <<moving, vars, passkeyVars>>
  \/ moving = "passkeys" /\ W!Next /\ UNCHANGED <<moving, vars, challengeVars>>
  \/ moving = "registrations" /\ Registrations /\ UNCHANGED <<moving, vars, challengeVars>>

MCSpec == MCInit /\ [][MCNext]_<<moving, vars, challengeVars, passkeyVars>>
=============================================================================
