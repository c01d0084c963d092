------------------------------ MODULE MCClients ------------------------------
(***************************************************************************)
(* Two keys and two addresses.  r1 and r2 ask for one key and different    *)
(* addresses, r3 for the address of r1 and another key.  The user of that  *)
(* key may register both addresses without the gateway: the one he asks it *)
(* for, and another.                                                       *)
(***************************************************************************)
EXTENDS Clients

CONSTANTS k1, k2, a1, a2, r1, r2, r3

MCKeyOf == [r \in Request |-> IF r = r3 THEN k2 ELSE k1]
MCAddressOf == [r \in Request |-> IF r = r2 THEN a2 ELSE a1]

MCDirect == {<<k2, a1>>, <<k2, a2>>}
=============================================================================
