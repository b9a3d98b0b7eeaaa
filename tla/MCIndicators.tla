--------------------------- MODULE MCIndicators ---------------------------
(***************************************************************************)
(* eve lives here, bob at r1, cat at r2.  bob wrote m1 to cat and added    *)
(* eve: it came here with the batch only, and eve's indicators go to both  *)
(* domains about the batch.                                                *)
(***************************************************************************)
EXTENDS Indicators, TLC

CONSTANTS m1, bob, cat, eve, home, r1, r2

MCDomainOf  == bob :> r1 @@ cat :> r2 @@ eve :> home
MCFrom      == m1 :> bob
MCTo        == m1 :> <<cat>>
MCAddTo     == m1 :> <<[by |-> bob, to |-> <<eve>>]>>
MCAddresses == [d \in Domains |-> 1]

Notice(a, e, t) == [id |-> m1, from |-> a, emoji |-> e, ttl |-> t]
MCNotices == {Notice(eve, "pen", 9), Notice(eve, "pen", 0), Notice(bob, "pen", 1)}
============================================================================
