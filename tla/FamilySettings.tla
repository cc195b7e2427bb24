---------------------------- MODULE FamilySettings ----------------------------
(***************************************************************************)
(* The family profile under concurrent pages: family_service.py over the   *)
(* profile item of the table, family_routes.py, and the two settings pages *)
(* of the browser.  A page keeps the profile it last received and sends    *)
(* one section of it with the version it knows; the service reads the      *)
(* profile again, replaces the section, and puts it on condition that the  *)
(* version is still the page's.  To the profile it answers with it adds    *)
(* the locations, which it takes from the profile stored by then.  Every   *)
(* read and every put is a step of its own, another request's steps run in *)
(* between, and answers get lost.                                          *)
(*                                                                         *)
(* A section's content is a value; version 0 stands for no profile (None). *)
(***************************************************************************)
EXTENDS Naturals, FiniteSets

CONSTANTS
  Page,        \* browser tabs with a settings page open
  Section,     \* "facts" (caregivers and care window), "preferences", "policy"
  Content,     \* what an edit may leave in a section
  Seed,        \* what the demo seed leaves in each of them
  MaxVersion,  \* bound: no put past this version
  MaxCalls     \* bound: calls handled at once

ASSUME SettingsAssumption ==
  /\ Section \subseteq {"facts", "preferences", "policy"}
  /\ "facts" \in Section
  /\ Seed \in Content
  /\ MaxVersion \in Nat
  /\ MaxCalls \in Nat

VARIABLES
  stored,   \* the profile item
  form,     \* page |-> the profile and the locations it last received
  request,  \* call |-> where its handling stands
  history,  \* version |-> what was stored under it
  acked     \* the saves that a page knows succeeded

vars == <<stored, form, request, history, acked>>

Profile == [version : Nat, holds : [Section -> Content]]

\* FamilyService._seed of the scenario of the day.
Seeded == [s \in Section |-> Seed]

Absent == [version |-> 0, holds |-> Seeded]

\* The locations are told from the caregivers of a profile.
Places(profile) == profile.holds["facts"]

\* What a page keeps of an answer.
Form == [profile : Profile, places : Content]

Blank == [profile |-> Absent, places |-> Seed]

(***************************************************************************)
(* A page has at most one save on its way, and Reload is disabled then;    *)
(* but a save may be sent while a load is still on its way.                *)
(***************************************************************************)
Call == Page \X {"load", "save"}

Kind == {"load", "reset"} \cup Section

Step == {"idle", "reading", "seeding", "locating", "saving", "answering",
         "done", "refused"}

Request == [step : Step, kind : Kind, content : Content, expected : Nat,
            profile : Profile, places : Content]

Idle == [step |-> "idle", kind |-> "load", content |-> Seed, expected |-> 0,
         profile |-> Absent, places |-> Seed]

\* Every variable has its type; versions stay under the bound.
TypeOK ==
  /\ stored \in Profile
  /\ form \in [Page -> Form]
  /\ request \in [Call -> Request]
  /\ history \in [0 .. MaxVersion -> [Section -> Content]]
  /\ acked \subseteq [version : Nat, section : Section, content : Content]
  /\ stored.version <= MaxVersion

Init ==
  /\ stored = Absent
  /\ form = [p \in Page |-> Blank]
  /\ request = [t \in Call |-> Idle]
  /\ history = [v \in 0 .. MaxVersion |-> Seeded]
  /\ acked = {}

Send(t, kind, content) ==
  /\ request[t].step = "idle"
  /\ Cardinality({u \in Call : request[u].step # "idle"}) < MaxCalls
  /\ request' = [request EXCEPT ![t] =
       [Idle EXCEPT !.step = "reading", !.kind = kind, !.content = content,
                    !.expected = form[t[1]].profile.version]]
  /\ UNCHANGED <<stored, form, history, acked>>

\* load: on opening the page and on "Reload saved settings".
Load(p) ==
  /\ request[<<p, "save">>].step = "idle"
  /\ Send(<<p, "load">>, "load", Seed)

\* save of one section, with the version of the profile on the page.
Save(p) ==
  /\ form[p] # Blank
  /\ \E s \in Section, c \in Content : Send(<<p, "save">>, s, c)

\* "Reset demo": no version is sent.
Reset(p) == Send(<<p, "save">>, "reset", Seed)

Proceed(t, step, profile) ==
  request' = [request EXCEPT ![t].step = step, ![t].profile = profile]

\* What follows once the handler of a call has the profile.
Following(kind) ==
  CASE kind = "load"  -> "answering"
    [] kind = "facts" -> "locating"
    [] OTHER          -> "saving"

\* The first read.  get seeds a missing profile; a reset puts its seed anyway.
Read(t) ==
  /\ request[t].step = "reading"
  /\ IF stored = Absent /\ request[t].kind # "reset"
       THEN Proceed(t, "seeding", Absent)
       ELSE Proceed(t, Following(request[t].kind), stored)
  /\ UNCHANGED <<stored, form, history, acked>>

(***************************************************************************)
(* The conditional put: attribute_not_exists or #version = :expected.      *)
(***************************************************************************)

\* Faulty: puts whatever is there.
PutsUnconditionally(expected, holds) ==
  /\ expected < MaxVersion
  /\ stored' = [version |-> expected + 1, holds |-> holds]
  /\ history' = [history EXCEPT ![expected + 1] = holds]

Puts(expected, holds) ==
  /\ stored.version = expected
  /\ expected < MaxVersion
  /\ stored' = [version |-> expected + 1, holds |-> holds]
  /\ history' = [history EXCEPT ![expected + 1] = holds]

\* The condition does not hold, or no longer does when the SDK repeats a put
\* whose answer it lost.
Conflicts(expected) ==
  /\ stored.version # expected
  /\ UNCHANGED <<stored, history>>

\* Faulty: the conflict of the seed is not handled.
SeedMissingOrRaise(t) ==
  /\ request[t].step = "seeding"
  /\ \/ /\ Puts(0, Seeded)
        /\ Proceed(t, Following(request[t].kind), stored')
     \/ /\ Conflicts(0)
        /\ Proceed(t, "refused", Absent)
  /\ UNCHANGED <<form, acked>>

\* get of a missing profile: save(seed, None); on a conflict the winner's
\* profile is read instead.
SeedMissing(t) ==
  /\ request[t].step = "seeding"
  /\ \/ /\ Puts(0, Seeded)
        /\ Proceed(t, Following(request[t].kind), stored')
     \/ /\ Puts(0, Seeded)
        /\ Proceed(t, "reading", Absent)
     \/ /\ Conflicts(0)
        /\ Proceed(t, "reading", Absent)
  /\ UNCHANGED <<form, acked>>

\* update reads the profile once more for the known locations; one that is on
\* the page is unknown only to another version (ValueError, 422).
Locate(t) ==
  /\ request[t].step = "locating"
  /\ \/ Proceed(t, "saving", request[t].profile)
     \/ /\ stored.version # request[t].expected
        /\ Proceed(t, "refused", request[t].profile)
  /\ UNCHANGED <<stored, form, history, acked>>

\* Faulty: the version just read stands in for the page's.
ExpectedByRead(r) == r.profile.version

\* reset_demo expects the version it read, an update the one of the page.
Expected(r) == IF r.kind = "reset" THEN r.profile.version ELSE r.expected

\* Faulty: puts the edited section and nothing else.
RevisedAlone(r) ==
  IF r.kind = "reset" THEN Seeded ELSE [s \in {r.kind} |-> r.content]

\* What an update or a reset puts: model_copy(update = ...) of the profile read.
Revised(r) ==
  IF r.kind = "reset" THEN Seeded
  ELSE [r.profile.holds EXCEPT ![r.kind] = r.content]

\* The put of an update or a reset; a put whose answer is lost is repeated by
\* the SDK and then conflicts with itself.
Commit(t) ==
  LET r == request[t] IN
  /\ r.step = "saving"
  /\ \/ /\ Puts(Expected(r), Revised(r))
        /\ Proceed(t, "answering", stored')
     \/ /\ Puts(Expected(r), Revised(r))
        /\ Proceed(t, "refused", r.profile)
     \/ /\ Conflicts(Expected(r))
        /\ Proceed(t, "refused", r.profile)
  /\ UNCHANGED <<form, acked>>

\* _response: locations() reads the profile once more, after the load or put.
AddLocations(t) ==
  /\ request[t].step = "answering"
  /\ request' = [request EXCEPT ![t].step = "done", ![t].places = Places(stored)]
  /\ UNCHANGED <<stored, form, history, acked>>

\* Faulty: the page takes the version of the answer and keeps its own content.
ShowsMixed(t) == [form[t[1]] EXCEPT !.profile.version = request[t].profile.version]

\* this.profile.set(...) of the answer.
Shows(t) == [profile |-> request[t].profile, places |-> request[t].places]

\* The answer reaches the page: it shows what it was given.
Receive(t) ==
  LET r == request[t] IN
  /\ r.step = "done"
  /\ form' = [form EXCEPT ![t[1]] = Shows(t)]
  /\ acked' = IF r.kind \in Section
                THEN acked \cup {[version |-> r.expected, section |-> r.kind,
                                  content |-> r.content]}
                ELSE acked
  /\ request' = [request EXCEPT ![t] = Idle]
  /\ UNCHANGED <<stored, history>>

\* The answer is a refusal (409, 422, 500), or is lost: the page keeps its form.
Fail(t) ==
  /\ request[t].step \in {"done", "refused"}
  /\ request' = [request EXCEPT ![t] = Idle]
  /\ UNCHANGED <<stored, form, history, acked>>

Next ==
  \/ \E p \in Page : Load(p) \/ Save(p) \/ Reset(p)
  \/ \E t \in Call :
       \/ Read(t) \/ SeedMissing(t) \/ Locate(t) \/ Commit(t)
       \/ AddLocations(t) \/ Receive(t) \/ Fail(t)

Spec == Init /\ [][Next]_vars

-----------------------------------------------------------------------------
(* Properties *)

\* A save a page knows succeeded made the version right after the one the page
\* showed, and changed that one in the section saved and nowhere else: nothing
\* the page had not seen was overwritten, in this section or another
\* (test_versioned_updates_do_not_overwrite_concurrent_sections).
AcknowledgedEditsKept ==
  \A a \in acked :
    /\ a.version < stored.version
    /\ history[a.version + 1] = [history[a.version] EXCEPT ![a.section] = a.content]

\* Whatever order the answers of its loads and saves come in, the sections and
\* the version on a page are one whole stored version.  The locations next to
\* them were read later (_response) and may be those of a later version, never
\* of an earlier one.
FormsAreWhole ==
  \A p \in Page :
    LET f == form[p] IN
    /\ f.profile.version <= stored.version
    /\ f.profile.version > 0 => history[f.profile.version] = f.profile.holds
    /\ \E v \in f.profile.version .. stored.version : f.places = history[v]["facts"]

\* A call is refused only when the profile is no longer the one its page (or,
\* of a reset, its own read) knew; two requests that seed the profile at once
\* are both answered with the one that came first.
RefusedMeansChanged ==
  \A t \in Call : request[t].step = "refused" =>
    /\ request[t].kind # "load"
    /\ Expected(request[t]) < stored.version

Promise == INSTANCE FamilyPromise WITH profile <- stored

\* The item is one profile whose versions follow one another, each an edit of
\* one section of the one before, or the seed.
SettingsPromise == Promise!Spec
=============================================================================
