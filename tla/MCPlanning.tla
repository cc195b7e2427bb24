---------------------------- MODULE MCPlanning ------------------------------
(***************************************************************************)
(* Values of the constants of PlanningRun for TLC: a mother, a grandmother *)
(* who lives a trip away, a sitter who comes home, has a car and is not    *)
(* trusted yet, and two providers to research, one of whom has a place of  *)
(* her own.                                                                *)
(***************************************************************************)
EXTENDS PlanningRun

CONSTANTS mom, grandma, sitter, nanny, minder

W(a, b) == [start |-> a, end |-> b]

MCRequired == W(0, 4)
MCParents == {mom}
MCKnown == {grandma, sitter}
MCCandidates == {nanny, minder}
MCTrusted == {grandma, nanny}
MCDrivers == {grandma, sitter, minder}
MCAt == [c \in {grandma, sitter, nanny, minder} |->
           IF c = grandma THEN "grandmas" ELSE IF c = minder THEN "minders" ELSE "home"]
MCTravel == [l \in {"home", "grandmas", "minders"} |-> IF l = "home" THEN 0 ELSE 1]
MCBuffer == [c \in {grandma, sitter, nanny, minder} |-> 0]
MCOffer == [k \in MCCandidates |-> IF k = nanny THEN {W(0, 4)} ELSE {W(1, 4)}]

Facts(g, s, fixed, movable, drives, external, provider, trusted) ==
  [free |-> [c \in MCKnown |-> IF c = grandma THEN g ELSE s],
   out |-> {}, fixed |-> [p \in {mom} |-> fixed], movable |-> [p \in {mom} |-> movable],
   drives |-> [p \in {mom} |-> drives], external |-> external,
   providerTrips |-> provider, trustedOnly |-> trusted, handoff |-> 0]

MCSnapshots ==
  { \* mom brings the child to grandma, who brings it back
    Facts({W(1, 4)}, {}, {W(1, 3)}, {}, {W(0, 1)}, TRUE, FALSE, FALSE),
    \* the sitter has the morning, mom the evening with a meeting to move
    Facts({W(1, 2)}, {W(0, 3)}, {W(0, 3)}, {W(3, 4)}, {}, TRUE, TRUE, FALSE),
    \* nobody at noon, providers only if trusted
    Facts({}, {W(0, 2)}, {W(1, 3)}, {}, {W(0, 1)}, TRUE, TRUE, TRUE),
    Facts({}, {W(0, 2)}, {W(1, 3)}, {}, {W(0, 1)}, TRUE, TRUE, FALSE),
    \* no outside help
    Facts({W(1, 4)}, {W(2, 4)}, {W(1, 4)}, {}, {W(0, 4)}, FALSE, FALSE, FALSE),
    Facts({}, {W(0, 2)}, {W(1, 4)}, {}, {}, FALSE, FALSE, FALSE),
    \* mom brings the child to grandma and one of them fetches it; the sitter
    \* takes over
    Facts({W(1, 3)}, {W(3, 4)}, {W(3, 4)}, {}, {W(0, 1)}, TRUE, TRUE, FALSE),
    Facts({W(1, 2)}, {W(3, 4)}, {W(3, 4)}, {W(2, 3)}, {W(0, 3)}, TRUE, TRUE, FALSE),
    \* mom has no car, and the sitter, who has, is out
    [Facts({W(1, 4)}, {W(0, 1)}, {}, {}, {}, FALSE, FALSE, FALSE) EXCEPT !.out = {sitter}],
    \* an overlap of one hour at each handoff
    [Facts({}, {W(1, 4)}, {}, {}, {}, TRUE, FALSE, FALSE) EXCEPT !.handoff = 1] }

MCHosts ==
  {<<"single", FALSE>>, <<"multi", FALSE>>, <<"multi", TRUE>>,
   <<"multi_research", FALSE>>, <<"multi_research", TRUE>>}

MCReports == [who : {grandma, sitter, nanny, minder}, window : {W(0, 2), W(1, 3), W(2, 4)}]

=============================================================================
