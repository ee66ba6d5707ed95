------------------------------ MODULE MCLookups ------------------------------
(***************************************************************************)
(* A small instance of Lookups for TLC: a TUF repository that rotates its  *)
(* keys together with a backup of older roles, and two servers, one of a   *)
(* host, that redirect to each other.                                      *)
(***************************************************************************)
EXTENDS Lookups, TLC

CONSTANTS u1, u2

Published(r, ts, sn, tg, expires) ==
    [root |-> r, timestamp |-> ts, snapshot |-> sn, targets |-> tg, expires |-> expires]

MCPublications ==
    <<Published(1, 1, 1, 1, 1), Published(1, 2, 2, 2, 2),
      Published(2, 1, 1, 1, 2), Published(2, 3, 2, 2, 2)>>

MCUrl == {u1, u2}
MCOrigin == (u1 :> "host") @@ (u2 :> "cdn")
=============================================================================
