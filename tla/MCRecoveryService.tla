-------------------------- MODULE MCRecoveryService --------------------------
(* Small instances of RecoveryService for TLC. *)
EXTENDS RecoveryPromise, TLC

CONSTANTS grandma, sitter, coop, nanny

\* Anybody may decline any window.
AnyReport ==
  {r \in [who : Caregiver, window : {t1 .. t2 : t1, t2 \in Tick}] : r.window # {}}

\* Two known caregivers, always available; the sitter costs more than the limit.
KnownAvailability == [p \in {grandma, sitter} |-> Tick]
KnownRate == [p \in {Parent, grandma, sitter} |-> IF p = sitter THEN 2 ELSE 0]

NoOffer == [p \in {} |-> {}]

\* Grandma is free for the first tick only; two paid providers offer their help.
ResearchAvailability == [p \in {grandma} |-> {1}]
ResearchOffer == [p \in {coop, nanny} |-> Tick]
ResearchRate ==
  [p \in {Parent, grandma, coop, nanny} |-> IF p \in {coop, nanny} THEN 2 ELSE 0]

\* Three ticks, nobody known for the last one; the co-op cancels for the
\* morning, then grandma for noon.
LongAvailability == [p \in {grandma} |-> {1, 2}]
TwoReports == {[who |-> coop, window |-> {1, 2}], [who |-> grandma, window |-> {2}]}

\* Everybody is known or offered, and costs nothing.
FreeRate == [p \in Person |-> 0]

\* Grandma cancels for either tick, the sitter for both.
KnownReports == {[who |-> grandma, window |-> {t}] : t \in Tick} \cup {[who |-> sitter, window |-> Tick]}

Symmetric == Permutations(Thread) \cup Permutations(EventId)
SymmetricResearch == Symmetric \cup Permutations({coop, nanny})
=============================================================================
