---------------------------- MODULE FamilyPromise ----------------------------
(***************************************************************************)
(* What the family settings promise to everyone who reads them: one        *)
(* profile, seeded once, whose versions follow one another; each version   *)
(* differs from the one before in one section, or is the demo seed again.  *)
(***************************************************************************)
EXTENDS Naturals

CONSTANTS
  Section,  \* the parts of the profile that are edited on their own
  Content,  \* what a section may hold
  Seed      \* what each section holds in the demo seed

VARIABLE profile

Profile == [version : Nat, holds : [Section -> Content]]

Seeded == [s \in Section |-> Seed]

Absent == [version |-> 0, holds |-> Seeded]

Init == profile = Absent

\* The seed, when there is no profile yet or when the demo is reset.
Reseed == profile' = [version |-> profile.version + 1, holds |-> Seeded]

Edit ==
  /\ profile.version > 0
  /\ \E s \in Section, c \in Content :
       profile' = [version |-> profile.version + 1,
                   holds |-> [profile.holds EXCEPT ![s] = c]]

Next == Reseed \/ Edit

Spec == Init /\ [][Next]_profile
=============================================================================
