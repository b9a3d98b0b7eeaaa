---------------------------- MODULE MCDelivery ----------------------------
(***************************************************************************)
(* Small instances of Delivery.  Addresses ann and bob live at domain d1,  *)
(* cat at d2, eve at home; o1, o2 and o3 are the original forms of messages    *)
(* m1, m2 and m3, of which the later ones are replies; b1 and b2 are       *)
(* batches that extend m1.                                                 *)
(***************************************************************************)
EXTENDS Delivery, TLC

CONSTANTS m1, m2, m3, o1, o2, o3, b1, b2, ann, bob, cat, eve, d1, d2, home

MCDomainOf == [x \in Addrs |-> CASE x = cat -> d2 [] x = eve -> home [] OTHER -> d1]
EveryAddr  == Addrs
AllAccept  == [x \in Addrs |-> {Accept}]
Symmetry   == Permutations(Workers) \cup Permutations(Conns)
NoParent   == m1 :> NoOne
OneMsgOf   == [u \in Units |-> m1]
Nobody     == [u \in Units |-> {}]

\* "batch": a message to ann; a batch adds cat and notifies d1.
BatchTo     == m1 :> {ann}
BatchAddTo  == o1 :> {} @@ b1 :> {cat}
BatchNotify == o1 :> {} @@ b1 :> {d1}

\* "partial": a message to ann and bob, whose quota may be full at first.
PartialTo       == m1 :> {ann, bob}
PartialVerdicts == ann :> {Accept} @@ bob :> {Accept, UserFull}

\* "overlap" and "overlap_lost": two batches add the same recipient bob to a local
\* message; in "overlap" the second one adds cat, of another domain, as well.
OverlapTo    == m1 :> {eve}
WideAddTo    == o1 :> {} @@ b1 :> {bob} @@ b2 :> {bob, cat}
OverlapAddTo == o1 :> {} @@ b1 :> {bob} @@ b2 :> {bob}

\* "reply": m2 replies to m1 and is terminal, so that m3, which replies to m2, must
\* not be sent.  Ann's quota may be full for a while.
ReplyMsgOf    == o1 :> m1 @@ o2 :> m2 @@ o3 :> m3
ReplyTo       == m1 :> {ann} @@ m2 :> {ann} @@ m3 :> {cat}
ReplyParent   == m1 :> NoOne @@ m2 :> o1 @@ m3 :> o2
ReplyVerdicts == ann :> {Accept, UserFull} @@ cat :> {Accept}
============================================================================
