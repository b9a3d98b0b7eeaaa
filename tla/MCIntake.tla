----------------------------- MODULE MCIntake -----------------------------
(***************************************************************************)
(* Small instances of Intake.  The host serves ann, bob, eve and gus, who  *)
(* accepts nothing, and would serve fay, whom nobody knows; cat's          *)
(* domain writes to them, dan's is elsewhere.  Either one header arrives,  *)
(* a plain one with up to two fields changed, or three messages for eve,   *)
(* all of one second, compete for her quota and her inbox, or two arrive   *)
(* of which one's sender falls silent.                                     *)
(***************************************************************************)
EXTENDS Intake

CONSTANTS ann, bob, eve, fay, gus, cat, dan, here, away, far,
          n1, n2, n3, n4, x1, x2, old, leaf, lost, late, unknown

MCDomainOf == [a \in Addrs |-> CASE a = cat -> away [] a = dan -> far [] OTHER -> here]

Part(size, deflated, expanded) == [size |-> size, deflated |-> deflated, expanded |-> expanded]
File(name, part) == part @@ [name |-> name, reserved |-> FALSE, mapped |-> TRUE]
Noon == 10

\* A plain message, a reply to the stored one, a batch that extends it, and one
\* by dan, whom a batch added to it.
Plain == [hash |-> n1, supported |-> TRUE, reserved |-> FALSE, terminal |-> FALSE,
          hasAddTo |-> FALSE, pid |-> NoPid, from |-> cat, to |-> <<ann, bob>>, adder |-> NoPid,
          addTo |-> <<>>, time |-> Noon, mapped |-> TRUE, body |-> Part(2, FALSE, 0),
          atts |-> <<>>, source |-> away]
Answer == [Plain EXCEPT !.pid = old]
Extend == [Plain EXCEPT !.hash = x1, !.pid = old, !.hasAddTo = TRUE, !.adder = cat,
                        !.addTo = <<bob>>, !.to = <<ann>>]
Onward == [Extend EXCEPT !.adder = dan, !.to = <<ann, dan>>, !.source = far]

Letter == File("letter", Part(1, TRUE, 3))
Photo  == File("photo", Part(1, FALSE, 0))

\* One field changed.
Changes ==
    {[supported |-> FALSE], [reserved |-> TRUE], [terminal |-> TRUE], [mapped |-> FALSE],
     [source |-> far], [hash |-> x2]}
    \cup {[pid |-> x] : x \in {NoPid, old, leaf, lost, late, x2, unknown}}
    \cup {[from |-> x] : x \in {Malformed, dan, ann}}
    \cup {[to |-> x] : x \in {<<>>, <<ann, ann>>, <<ann, Malformed>>, <<dan>>, <<dan, cat>>, <<fay, gus>>}}
    \cup {[adder |-> x] : x \in {Malformed, dan, ann}}
    \cup {[addTo |-> x] : x \in {<<>>, <<bob, bob>>, <<Malformed, bob>>, <<dan>>, <<ann>>}}
    \cup {[time |-> x] : x \in {5, 6, 12, 13}}
    \cup {[body |-> x] : x \in {Part(9, FALSE, 0), Part(5, TRUE, 7), Part(1, TRUE, 8)}}
    \cup {[atts |-> x] : x \in {<<Letter, Photo>>, <<Photo, Photo>>,
                                <<[Photo EXCEPT !.reserved = TRUE]>>,
                                <<[Photo EXCEPT !.mapped = FALSE]>>,
                                <<[Photo EXCEPT !.name = Malformed]>>,
                                <<[Photo EXCEPT !.size = 7]>>, <<[Letter EXCEPT !.expanded = 14]>>}}

MCHeaders ==
    {h \in {x @@ y @@ base : x \in Changes, y \in Changes, base \in {Plain, Answer, Extend, Onward}} :
        h.hasAddTo \/ (h.addTo = <<>> /\ h.adder = NoPid)}

\* Messages of one second for eve, each of size 2, sent as 1.
ToEve(hash) == [Plain EXCEPT !.hash = hash, !.to = <<eve>>, !.body = Part(1, TRUE, 2)]
Rivals == {[ToEve(n1) EXCEPT !.to = <<eve, ann>>], ToEve(n2), ToEve(n3)}
Silent == {ToEve(n1), ToEve(n4)}

MCScenarios == {{h} : h \in MCHeaders} \cup {Rivals, Silent}
TwoRivals   == {{ToEve(n1), ToEve(n2)}}

Kept(hash, from, to, time, terminal, intact) ==
    [hash |-> hash, batch |-> FALSE, from |-> from, to |-> to, adder |-> NoPid, addTo |-> {},
     time |-> time, terminal |-> terminal, intact |-> intact, path |-> <<old>>, wire |-> NoPath]

\* The stored messages: an ordinary one, which x2 extended for dan, a terminal
\* one, one whose files are gone, one from a fast clock.
MCStored ==
    {[Kept(old, cat, {ann}, 8, FALSE, TRUE) EXCEPT !.addTo = {dan}],
     [Kept(x2, cat, {ann}, 8, FALSE, TRUE) EXCEPT !.batch = TRUE, !.adder = cat, !.addTo = {dan}],
     Kept(leaf, cat, {ann}, 8, TRUE, TRUE),
     Kept(lost, cat, {ann}, 8, FALSE, FALSE),
     Kept(late, cat, {ann}, 13, FALSE, TRUE)}

\* Bob is written with another case of the host's domain.
BobsOtherCase == Addrs \ {bob}

MCLimits == ann :> [count |-> 1, day |-> -1, total |-> -1]
         @@ bob :> [count |-> -1, day |-> 20, total |-> -1]
         @@ gus :> [count |-> -1, day |-> -1, total |-> -1]
         @@ eve :> [count |-> -1, day |-> -1, total |-> 3]
============================================================================
