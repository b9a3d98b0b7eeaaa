--------------------------- MODULE MCDatagrams ----------------------------
(***************************************************************************)
(* cat at r2 wrote to bob at r1 and to eve, who lives here.  Datagrams     *)
(* claim to come from bob and from eve; this host sends to r1 and r2.      *)
(***************************************************************************)
EXTENDS Datagrams, TLC

CONSTANTS m1, bob, cat, eve, home, r1, r2, i1, i2

MCDomainOf == bob :> r1 @@ cat :> r2 @@ eve :> home
MCFrom     == m1 :> cat
MCTo       == m1 :> <<bob, eve>>
MCAddTo    == m1 :> <<>>

Gram(i, form) == [hash |-> <<m1, 0>>, index |-> i, form |-> form]
MCGrams     == {Gram(1, "ok"), Gram(2, "ok")}
Signed      == [ips |-> {i1}, signed |-> TRUE]
Unsigned    == [ips |-> {i1}, signed |-> FALSE]
MCZones     == {Signed, Unsigned}
MCFirstZone == r1 :> Unsigned @@ r2 :> Signed
============================================================================
