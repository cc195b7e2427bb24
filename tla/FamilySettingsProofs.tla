------------------------ MODULE FamilySettingsProofs -------------------------
(***************************************************************************)
(* The family profile for any number of pages, calls, versions and kinds   *)
(* of content.  The argument: a version never changes what it holds, so a  *)
(* profile somebody has in their hands is one whole stored version; an     *)
(* update read its profile after the page sent it, so if the version is    *)
(* still the page's when the put is tried, the profile read is the one     *)
(* stored, and the put edits just that.  The locations of an answer are    *)
(* read after its profile, so they are of that version or a later one.     *)
(***************************************************************************)
EXTENDS FamilySettings, TLAPS

\* A profile is one stored version, or none.
Whole(pr, st, hist) == pr.version <= st.version /\ hist[pr.version] = pr.holds

\* Locations read no earlier than the profile they are shown with.
Since(pr, places, st, hist) ==
  \E v \in pr.version .. st.version : places = hist[v]["facts"]

\* The edit that leads from version v to the next one.
Edited(v, s, c, st, hist) ==
  /\ v < st.version
  /\ hist[v + 1] = [hist[v] EXCEPT ![s] = c]

\* What is known of a call by where its handling stands.
Flight(r, st, hist) ==
  /\ Whole(r.profile, st, hist)
  /\ r.expected <= st.version
  /\ r.step = "locating" => r.kind = "facts"
  /\ r.step = "saving" => r.kind # "load"
  /\ r.step \in {"locating", "saving"} /\ r.kind \in Section =>
       r.profile.version > 0 /\ r.expected <= r.profile.version
  /\ r.step \in {"answering", "done"} /\ r.kind \in Section =>
       Edited(r.expected, r.kind, r.content, st, hist)
  /\ r.step = "done" => Since(r.profile, r.places, st, hist)
  /\ r.step = "refused" => r.kind # "load" /\ Expected(r) < st.version

AckedEdited(st, hist) ==
  \A a \in acked : Edited(a.version, a.section, a.content, st, hist)

IInv ==
  /\ TypeOK
  /\ history[0] = Seeded
  /\ Whole(stored, stored, history)
  /\ \A p \in Page : /\ Whole(form[p].profile, stored, history)
                     /\ Since(form[p].profile, form[p].places, stored, history)
  /\ \A t \in Call : Flight(request[t], stored, history)
  /\ AckedEdited(stored, history)

\* Versions are added, and what they hold stays.
Kept ==
  /\ stored' \in Profile
  /\ stored'.version <= MaxVersion
  /\ stored.version <= stored'.version
  /\ history' \in [0 .. MaxVersion -> [Section -> Content]]
  /\ \A v \in 0 .. stored.version : history'[v] = history[v]
  /\ Whole(stored', stored', history')

-----------------------------------------------------------------------------
(* Values *)

\* The seed and the absent profile are profiles.
LEMMA SeededType == Seeded \in [Section -> Content] /\ Absent \in Profile
<1>1. Seed \in Content
  BY SettingsAssumption
<1> QED
  BY <1>1 DEF Seeded, Absent, Profile

\* A call that is idle is a request, and a page that shows nothing is a form.
LEMMA IdleType == Idle \in Request /\ Blank \in Form
BY SeededType, SettingsAssumption DEF Idle, Request, Step, Kind, Blank, Form

\* An edit is neither a load nor a reset.
LEMMA SectionKinds ==
  ASSUME NEW s \in Section
  PROVE  s # "load" /\ s # "reset" /\ s \in Kind
BY SettingsAssumption DEF Kind

\* What an edit or a reset puts is a whole profile.
LEMMA RevisedType ==
  ASSUME NEW r \in Request, r.kind # "load"
  PROVE  Revised(r) \in [Section -> Content]
<1>1. CASE r.kind = "reset"
  BY <1>1, SeededType DEF Revised
<1>2. CASE r.kind # "reset"
  <2>1. r.kind \in Section /\ r.content \in Content /\ r.profile.holds \in [Section -> Content]
    BY <1>2 DEF Request, Kind, Profile
  <2> QED
    BY <1>2, <2>1 DEF Revised
<1> QED
  BY <1>1, <1>2

\* The seed and nothing else has no version.
LEMMA AbsentIsUnversioned ==
  ASSUME IInv
  PROVE  stored = Absent <=> stored.version = 0
<1>1. stored \in Profile /\ history[0] = Seeded /\ history[stored.version] = stored.holds
  BY DEF IInv, TypeOK, Whole
<1>2. ASSUME stored.version = 0 PROVE stored = Absent
  BY <1>1, <1>2 DEF Profile, Absent
<1> QED
  BY <1>2 DEF Absent

-----------------------------------------------------------------------------
(* What a step keeps *)

\* A step that puts nothing keeps all versions.
LEMMA NothingPut ==
  ASSUME IInv, UNCHANGED <<stored, history>>
  PROVE  Kept
BY DEF IInv, TypeOK, Kept, Whole, Profile

\* A put adds one version after all others, whatever it holds.
LEMMA PutKeeps ==
  ASSUME IInv, NEW e \in Nat, NEW holds \in [Section -> Content], Puts(e, holds)
  PROVE  /\ Kept
         /\ e = stored.version
         /\ stored' = [version |-> e + 1, holds |-> holds]
         /\ history'[e + 1] = holds
<1>1. /\ stored.version = e /\ e < MaxVersion
      /\ stored' = [version |-> e + 1, holds |-> holds]
      /\ history' = [history EXCEPT ![e + 1] = holds]
  BY DEF Puts
<1>2. history \in [0 .. MaxVersion -> [Section -> Content]] /\ MaxVersion \in Nat
  BY SettingsAssumption DEF IInv, TypeOK
<1>3. e + 1 \in 0 .. MaxVersion
  BY <1>1, <1>2
<1>4. history'[e + 1] = holds /\ history' \in [0 .. MaxVersion -> [Section -> Content]]
  BY <1>1, <1>2, <1>3
<1>5. \A v \in 0 .. stored.version : history'[v] = history[v]
  BY <1>1, <1>2, <1>3
<1>6. stored' \in Profile /\ stored'.version = e + 1 /\ stored'.holds = holds
  BY <1>1 DEF Profile
<1> QED
  BY <1>1, <1>2, <1>3, <1>4, <1>5, <1>6 DEF Kept, Whole

\* A profile in somebody's hands is still one stored version,
LEMMA KeptWhole ==
  ASSUME IInv, Kept, NEW pr \in Profile, Whole(pr, stored, history)
  PROVE  Whole(pr, stored', history')
<1>1. pr.version \in Nat /\ stored.version \in Nat /\ stored'.version \in Nat
  BY DEF IInv, TypeOK, Profile, Kept
<1> QED
  BY <1>1 DEF Kept, Whole

\* its locations are still no older than it,
LEMMA KeptSince ==
  ASSUME IInv, Kept, NEW pr \in Profile, NEW places, Since(pr, places, stored, history)
  PROVE  Since(pr, places, stored', history')
<1>1. pr.version \in Nat /\ stored.version \in Nat /\ stored'.version \in Nat
  BY DEF IInv, TypeOK, Profile, Kept
<1>2. PICK v \in pr.version .. stored.version : places = history[v]["facts"]
  BY DEF Since
<1>3. v \in pr.version .. stored'.version /\ history'[v] = history[v]
  BY <1>1, <1>2 DEF Kept
<1> QED
  BY <1>2, <1>3 DEF Since

\* an edit still leads from its version to the next,
LEMMA KeptEdited ==
  ASSUME IInv, Kept, NEW v \in Nat, NEW s, NEW c, Edited(v, s, c, stored, history)
  PROVE  Edited(v, s, c, stored', history')
<1>1. stored.version \in Nat /\ stored'.version \in Nat
  BY DEF IInv, TypeOK, Profile, Kept
<1>2. v \in 0 .. stored.version /\ v + 1 \in 0 .. stored.version
  BY <1>1 DEF Edited
<1> QED
  BY <1>1, <1>2 DEF Kept, Edited

\* what was known of a call still holds,
LEMMA KeptFlight ==
  ASSUME IInv, Kept, NEW r \in Request, Flight(r, stored, history)
  PROVE  Flight(r, stored', history')
<1>1. /\ stored.version \in Nat /\ stored'.version \in Nat
      /\ r.expected \in Nat /\ r.profile \in Profile /\ Expected(r) \in Nat
  BY DEF IInv, TypeOK, Profile, Kept, Request, Expected
<1>2. Whole(r.profile, stored', history')
  BY <1>1, KeptWhole DEF Flight
<1>3. r.expected <= stored'.version
  BY <1>1 DEF Flight, Kept
<1>4. r.step \in {"answering", "done"} /\ r.kind \in Section =>
        Edited(r.expected, r.kind, r.content, stored', history')
  BY <1>1, KeptEdited DEF Flight
<1>5. r.step = "done" => Since(r.profile, r.places, stored', history')
  BY <1>1, KeptSince DEF Flight
<1>6. r.step = "refused" => r.kind # "load" /\ Expected(r) < stored'.version
  BY <1>1 DEF Flight, Kept
<1> QED
  BY <1>2, <1>3, <1>4, <1>5, <1>6 DEF Flight

\* and so does what was known of acknowledged saves.
LEMMA KeptAcked ==
  ASSUME IInv, Kept
  PROVE  AckedEdited(stored', history')
<1>1. \A a \in acked : a.version \in Nat
  BY DEF IInv, TypeOK
<1> QED
  BY <1>1, KeptEdited DEF IInv, AckedEdited

\* A step that moves one call along and leaves the pages alone keeps the
\* invariant, if what is known of that call still holds.
LEMMA OneCallMoves ==
  ASSUME IInv, Kept, NEW t \in Call, NEW r \in Request,
         request' = [request EXCEPT ![t] = r], Flight(r, stored', history'),
         UNCHANGED <<form, acked>>
  PROVE  IInv'
<1>1. TypeOK'
  BY DEF IInv, TypeOK, Kept
<1>2. history'[0] = Seeded
  <2>1. 0 \in 0 .. stored.version
    BY DEF IInv, TypeOK, Profile
  <2> QED
    BY <2>1 DEF IInv, Kept
<1>3. \A p \in Page : /\ Whole(form'[p].profile, stored', history')
                       /\ Since(form'[p].profile, form'[p].places, stored', history')
  <2> TAKE p \in Page
  <2>1. /\ form[p].profile \in Profile /\ Whole(form[p].profile, stored, history)
        /\ Since(form[p].profile, form[p].places, stored, history)
    BY DEF IInv, TypeOK, Form
  <2> QED
    BY <2>1, KeptWhole, KeptSince
<1>4. \A u \in Call : Flight(request'[u], stored', history')
  <2> TAKE u \in Call
  <2>1. request[u] \in Request /\ Flight(request[u], stored, history)
    BY DEF IInv, TypeOK
  <2>2. CASE u = t
    BY <2>2 DEF IInv, TypeOK
  <2>3. CASE u # t
    BY <2>1, <2>3, KeptFlight
  <2> QED
    BY <2>2, <2>3
<1>5. AckedEdited(stored', history') /\ acked' = acked
  BY KeptAcked
<1>6. Whole(stored', stored', history')
  BY DEF Kept
<1> QED
  BY <1>1, <1>2, <1>3, <1>4, <1>5, <1>6 DEF IInv, AckedEdited

-----------------------------------------------------------------------------
(* The actions *)

\* There is nothing to know of an absent profile and idle calls.
LEMMA InitKeeps == Init => IInv
<1> SUFFICES ASSUME Init PROVE IInv
  OBVIOUS
<1>1. MaxVersion \in Nat /\ Seed \in Content
  BY SettingsAssumption
<1>2. TypeOK
  BY <1>1, SeededType, IdleType DEF Init, TypeOK, Absent
<1>3. history[0] = Seeded
  BY <1>1 DEF Init
<1>4. Whole(Absent, stored, history)
  BY <1>1, <1>3 DEF Init, Whole, Absent
<1>5. \A t \in Call : Flight(request[t], stored, history)
  <2> TAKE t \in Call
  <2>1. request[t] = Idle
    BY DEF Init
  <2>2. Flight(Idle, stored, history)
    BY <1>4 DEF Init, Flight, Idle, Absent
  <2> QED
    BY <2>1, <2>2
<1>6. Since(Absent, Seed, stored, history)
  <2>1. 0 \in Absent.version .. stored.version /\ history[0]["facts"] = Seed
    BY <1>1, SettingsAssumption DEF Init, Absent, Seeded
  <2> QED
    BY <2>1 DEF Since
<1> QED
  BY <1>2, <1>3, <1>4, <1>5, <1>6 DEF IInv, Init, AckedEdited, Blank

\* A call sends the version its page shows.
LEMMA SendKeeps ==
  ASSUME IInv, NEW p \in Page, NEW half \in {"load", "save"}, NEW k \in Kind,
         NEW c \in Content, Send(<<p, half>>, k, c)
  PROVE  IInv'
<1> DEFINE t == <<p, half>>
           r == [Idle EXCEPT !.step = "reading", !.kind = k, !.content = c,
                             !.expected = form[p].profile.version]
<1>1. t \in Call
  BY DEF Call
<1>2. request' = [request EXCEPT ![t] = r] /\ UNCHANGED <<stored, form, history, acked>>
  BY DEF Send
<1>3. form[p].profile \in Profile /\ Whole(form[p].profile, stored, history)
  BY DEF IInv, TypeOK, Form
<1>4. r \in Request
  BY <1>3, IdleType DEF Request, Step, Profile
<1>5. Whole(Absent, stored, history)
  BY DEF IInv, TypeOK, Whole, Absent, Profile
<1>6. Flight(r, stored, history)
  BY <1>3, <1>5 DEF Flight, Idle, Whole
<1>7. Kept
  BY <1>2, NothingPut
<1> QED
  BY <1>1, <1>2, <1>4, <1>6, <1>7, OneCallMoves

\* A call reads one whole version, not older than its page's.
LEMMA ReadKeeps ==
  ASSUME IInv, NEW t \in Call, Read(t)
  PROVE  IInv'
<1> DEFINE r == request[t]
<1>1. /\ r \in Request /\ Flight(r, stored, history) /\ r.step = "reading"
      /\ UNCHANGED <<stored, form, history, acked>> /\ Kept
  BY NothingPut DEF IInv, TypeOK, Read
<1>2. stored \in Profile /\ Whole(stored, stored, history)
  BY DEF IInv, TypeOK
<1>3. CASE stored = Absent /\ r.kind # "reset"
  <2> DEFINE q == [r EXCEPT !.step = "seeding", !.profile = Absent]
  <2>1. request' = [request EXCEPT ![t] = q]
    BY <1>3 DEF Read, Proceed, IInv, TypeOK
  <2>2. q \in Request
    BY <1>1, SeededType DEF Request, Step
  <2>3. Flight(q, stored, history)
    BY <1>1, <1>2, <1>3 DEF Flight, Request
  <2> QED
    BY <1>1, <2>1, <2>2, <2>3, OneCallMoves
<1>4. CASE ~(stored = Absent /\ r.kind # "reset")
  <2> DEFINE q == [r EXCEPT !.step = Following(r.kind), !.profile = stored]
  <2>1. request' = [request EXCEPT ![t] = q]
    BY <1>4 DEF Read, Proceed, IInv, TypeOK
  <2>2. q \in Request
    BY <1>1, <1>2 DEF Request, Step, Following
  <2>3. r.kind \in Section => stored.version > 0 /\ r.expected <= stored.version
    BY <1>1, <1>2, <1>4, AbsentIsUnversioned, SectionKinds DEF Profile, Flight
  <2>4. Flight(q, stored, history)
    BY <1>1, <1>2, <2>3, SectionKinds DEF Flight, Following, Request
  <2> QED
    BY <1>1, <2>1, <2>2, <2>4, OneCallMoves
<1> QED
  BY <1>3, <1>4

\* The seed is put under version 1 or a conflict read again.
LEMMA SeedMissingKeeps ==
  ASSUME IInv, NEW t \in Call, SeedMissing(t)
  PROVE  IInv'
<1> DEFINE r == request[t]
<1>1. /\ r \in Request /\ Flight(r, stored, history) /\ r.step = "seeding"
      /\ UNCHANGED <<form, acked>>
  BY DEF IInv, TypeOK, SeedMissing
<1>2. ASSUME NEW e \in Request, e = [r EXCEPT !.step = "reading", !.profile = Absent],
             Kept, Proceed(t, "reading", Absent)
      PROVE  IInv'
  <2>1. request' = [request EXCEPT ![t] = e]
    BY <1>2 DEF Proceed, IInv, TypeOK
  <2>2. Flight(r, stored', history')
    BY <1>1, <1>2, KeptFlight
  <2>3. Whole(Absent, stored', history')
    <3>1. Whole(Absent, stored, history)
      BY DEF IInv, TypeOK, Whole, Absent, Profile
    <3> QED
      BY <1>2, <3>1, KeptWhole, SeededType
  <2>4. Flight(e, stored', history')
    BY <1>1, <1>2, <2>2, <2>3 DEF Flight, Request
  <2> QED
    BY <1>1, <1>2, <2>1, <2>4, OneCallMoves
<1>3. [r EXCEPT !.step = "reading", !.profile = Absent] \in Request
  BY <1>1, SeededType DEF Request, Step
<1>4. CASE Puts(0, Seeded) /\ Proceed(t, Following(r.kind), stored')
  <2> DEFINE q == [r EXCEPT !.step = Following(r.kind), !.profile = stored']
  <2>1. /\ Kept /\ 0 = stored.version /\ stored'.version = 1
        /\ stored' \in Profile /\ Whole(stored', stored', history')
    BY <1>4, PutKeeps, SeededType DEF Kept
  <2>2. request' = [request EXCEPT ![t] = q]
    BY <1>4 DEF Proceed, IInv, TypeOK
  <2>3. q \in Request
    BY <1>1, <2>1 DEF Request, Step, Following
  <2>4. r.expected \in Nat /\ r.expected <= 0
    BY <1>1, <2>1 DEF Flight, Request
  <2>5. Flight(q, stored', history')
    BY <1>1, <2>1, <2>4, SectionKinds DEF Flight, Following, Request
  <2> QED
    BY <1>1, <2>1, <2>2, <2>3, <2>5, OneCallMoves
<1>5. CASE Puts(0, Seeded) /\ Proceed(t, "reading", Absent)
  BY <1>2, <1>3, <1>5, PutKeeps, SeededType
<1>6. CASE Conflicts(0) /\ Proceed(t, "reading", Absent)
  BY <1>2, <1>3, <1>6, NothingPut DEF Conflicts
<1> QED
  BY <1>4, <1>5, <1>6 DEF SeedMissing

\* Reading the known locations changes no profile.
LEMMA LocateKeeps ==
  ASSUME IInv, NEW t \in Call, Locate(t)
  PROVE  IInv'
<1> DEFINE r == request[t]
<1>1. /\ r \in Request /\ Flight(r, stored, history) /\ r.step = "locating"
      /\ UNCHANGED <<stored, form, history, acked>> /\ Kept
  BY NothingPut DEF IInv, TypeOK, Locate
<1>2. /\ r.kind = "facts" /\ r.expected \in Nat /\ stored.version \in Nat
      /\ r.expected <= stored.version /\ r.profile \in Profile
  BY <1>1 DEF Flight, Request, IInv, TypeOK, Profile
<1>3. CASE Proceed(t, "saving", r.profile)
  <2> DEFINE q == [r EXCEPT !.step = "saving", !.profile = r.profile]
  <2>1. request' = [request EXCEPT ![t] = q]
    BY <1>3 DEF Proceed, IInv, TypeOK
  <2>2. q \in Request /\ Flight(q, stored, history)
    BY <1>1, <1>2 DEF Flight, Request, Step
  <2> QED
    BY <1>1, <2>1, <2>2, OneCallMoves
<1>4. CASE stored.version # r.expected /\ Proceed(t, "refused", r.profile)
  <2> DEFINE q == [r EXCEPT !.step = "refused", !.profile = r.profile]
  <2>1. request' = [request EXCEPT ![t] = q]
    BY <1>4 DEF Proceed, IInv, TypeOK
  <2>2. q \in Request /\ q.kind = "facts" /\ q.expected = r.expected /\ q.step = "refused"
        /\ q.profile = r.profile
    BY <1>1, <1>2 DEF Request, Step
  <2>3. Expected(q) < stored.version
    BY <1>2, <1>4, <2>2 DEF Expected
  <2>4. Flight(q, stored, history)
    BY <1>1, <1>2, <2>2, <2>3 DEF Flight
  <2> QED
    BY <1>1, <2>1, <2>2, <2>4, OneCallMoves
<1> QED
  BY <1>3, <1>4 DEF Locate

\* The heart of it: the put succeeds only when the profile read is the one
\* stored, and then it is the edit that was asked for.
LEMMA CommitEdits ==
  ASSUME IInv, NEW t \in Call, request[t].step = "saving",
         Puts(Expected(request[t]), Revised(request[t]))
  PROVE  LET r == request[t] IN
         /\ Kept
         /\ Expected(r) = stored.version /\ stored'.version = stored.version + 1
         /\ stored' = [version |-> stored.version + 1, holds |-> Revised(r)]
         /\ r.kind \in Section => /\ stored.version > 0
                                  /\ stored.holds = r.profile.holds
                                  /\ r.expected = stored.version
                                  /\ Edited(r.expected, r.kind, r.content, stored', history')
<1> DEFINE r == request[t]
<1>1. /\ r \in Request /\ Flight(r, stored, history) /\ r.step = "saving" /\ r.kind # "load"
      /\ r.expected \in Nat /\ r.profile \in Profile /\ Expected(r) \in Nat
      /\ r.profile.version \in Nat
  BY DEF IInv, TypeOK, Flight, Request, Expected, Profile
<1>2. /\ Kept /\ Expected(r) = stored.version
      /\ stored' = [version |-> Expected(r) + 1, holds |-> Revised(r)]
      /\ history'[Expected(r) + 1] = Revised(r)
  BY <1>1, PutKeeps, RevisedType
<1>3. stored.version \in Nat /\ history[stored.version] = stored.holds
  BY DEF IInv, TypeOK, Profile, Whole
<1>4. ASSUME r.kind \in Section
      PROVE  /\ stored.version > 0 /\ stored.holds = r.profile.holds
             /\ r.expected = stored.version
             /\ Edited(r.expected, r.kind, r.content, stored', history')
  <2>1. r.kind # "reset" /\ Expected(r) = r.expected
    BY <1>4, SectionKinds DEF Expected
  <2>2. /\ r.profile.version > 0 /\ r.expected <= r.profile.version
        /\ r.profile.version <= stored.version
        /\ history[r.profile.version] = r.profile.holds
    BY <1>1, <1>4 DEF Flight, Whole
  <2>3. r.expected = stored.version /\ r.profile.version = stored.version
    BY <1>1, <1>2, <1>3, <2>1, <2>2
  <2>4. Revised(r) = [r.profile.holds EXCEPT ![r.kind] = r.content]
    BY <2>1 DEF Revised
  <2>5. history'[r.expected] = history[r.expected]
    BY <1>2, <1>3, <2>3 DEF Kept
  <2>6. Edited(r.expected, r.kind, r.content, stored', history')
    BY <1>2, <1>3, <2>2, <2>3, <2>4, <2>5 DEF Edited
  <2> QED
    BY <1>3, <2>2, <2>3, <2>6
<1> QED
  BY <1>2, <1>4

\* A put keeps the invariant, and so does a conflict.
LEMMA CommitKeeps ==
  ASSUME IInv, NEW t \in Call, Commit(t)
  PROVE  IInv'
<1> DEFINE r == request[t]
<1>1. /\ r \in Request /\ Flight(r, stored, history) /\ r.step = "saving" /\ r.kind # "load"
      /\ UNCHANGED <<form, acked>> /\ r.profile \in Profile /\ stored.version \in Nat
  BY DEF IInv, TypeOK, Commit, Flight, Request, Profile
<1>2. ASSUME Kept, Proceed(t, "refused", r.profile), Expected(r) < stored'.version
      PROVE  IInv'
  <2> DEFINE q == [r EXCEPT !.step = "refused", !.profile = r.profile]
  <2>1. request' = [request EXCEPT ![t] = q]
    BY <1>2 DEF Proceed, IInv, TypeOK
  <2>2. /\ q \in Request /\ q.step = "refused" /\ q.kind = r.kind
        /\ q.expected = r.expected /\ q.profile = r.profile
    BY <1>1 DEF Request, Step
  <2>3. Expected(q) = Expected(r)
    BY <2>2 DEF Expected
  <2>4. Flight(r, stored', history')
    BY <1>1, <1>2, KeptFlight
  <2>5. Flight(q, stored', history')
    BY <1>1, <1>2, <2>2, <2>3, <2>4 DEF Flight
  <2> QED
    BY <1>1, <1>2, <2>1, <2>2, <2>5, OneCallMoves
<1>3. CASE Puts(Expected(r), Revised(r)) /\ Proceed(t, "answering", stored')
  <2> DEFINE q == [r EXCEPT !.step = "answering", !.profile = stored']
  <2>1. /\ Kept /\ stored' \in Profile /\ Whole(stored', stored', history')
        /\ r.kind \in Section => Edited(r.expected, r.kind, r.content, stored', history')
    BY <1>1, <1>3, CommitEdits DEF Kept
  <2>2. request' = [request EXCEPT ![t] = q]
    BY <1>3 DEF Proceed, IInv, TypeOK
  <2>3. /\ q \in Request /\ q.step = "answering" /\ q.kind = r.kind /\ q.content = r.content
        /\ q.expected = r.expected /\ q.profile = stored'
    BY <1>1, <2>1 DEF Request, Step
  <2>4. Flight(r, stored', history')
    BY <1>1, <2>1, KeptFlight
  <2>5. Flight(q, stored', history')
    BY <2>1, <2>3, <2>4 DEF Flight
  <2> QED
    BY <1>1, <2>1, <2>2, <2>3, <2>5, OneCallMoves
<1>4. CASE Puts(Expected(r), Revised(r)) /\ Proceed(t, "refused", r.profile)
  <2>1. Kept /\ Expected(r) = stored.version /\ stored'.version = stored.version + 1
    BY <1>1, <1>4, CommitEdits
  <2> QED
    BY <1>1, <1>2, <1>4, <2>1
<1>5. CASE Conflicts(Expected(r)) /\ Proceed(t, "refused", r.profile)
  <2>1. UNCHANGED <<stored, history>> /\ stored.version # Expected(r)
    BY <1>5 DEF Conflicts
  <2>2. Expected(r) <= stored.version /\ Expected(r) \in Nat
    BY <1>1 DEF Expected, Flight, Whole, Request, Profile
  <2> QED
    BY <1>1, <1>2, <1>5, <2>1, <2>2, NothingPut
<1> QED
  BY <1>3, <1>4, <1>5 DEF Commit

\* The locations added are those of the version stored by then.
LEMMA AddLocationsKeeps ==
  ASSUME IInv, NEW t \in Call, AddLocations(t)
  PROVE  IInv'
<1> DEFINE r == request[t]
           q == [r EXCEPT !.step = "done", !.places = Places(stored)]
<1>1. /\ r \in Request /\ Flight(r, stored, history) /\ r.step = "answering"
      /\ request' = [request EXCEPT ![t] = q]
      /\ UNCHANGED <<stored, form, history, acked>> /\ Kept
  BY NothingPut DEF IInv, TypeOK, AddLocations
<1>2. stored \in Profile /\ Whole(stored, stored, history) /\ r.profile \in Profile
  BY <1>1 DEF IInv, TypeOK, Request
<1>3. Places(stored) \in Content
  BY <1>2, SettingsAssumption DEF Places, Profile
<1>4. /\ q \in Request /\ q.step = "done" /\ q.kind = r.kind /\ q.content = r.content
      /\ q.expected = r.expected /\ q.profile = r.profile /\ q.places = Places(stored)
  BY <1>1, <1>3 DEF Request, Step
<1>5. Since(q.profile, q.places, stored, history)
  <2>1. stored.version \in r.profile.version .. stored.version
    BY <1>1, <1>2 DEF Flight, Whole, Profile
  <2>2. Places(stored) = history[stored.version]["facts"]
    BY <1>2 DEF Places, Whole
  <2> QED
    BY <1>4, <2>1, <2>2 DEF Since
<1>6. Flight(q, stored, history)
  BY <1>1, <1>4, <1>5 DEF Flight
<1> QED
  BY <1>1, <1>4, <1>6, OneCallMoves

\* A page shows the version it was answered with.
LEMMA ReceiveKeeps ==
  ASSUME IInv, NEW t \in Call, Receive(t)
  PROVE  IInv'
<1> DEFINE r == request[t]
<1>1. /\ r \in Request /\ Flight(r, stored, history) /\ r.step = "done"
      /\ form' = [form EXCEPT ![t[1]] = Shows(t)]
      /\ request' = [request EXCEPT ![t] = Idle]
      /\ UNCHANGED <<stored, history>>
      /\ acked' = IF r.kind \in Section
                    THEN acked \cup {[version |-> r.expected, section |-> r.kind,
                                      content |-> r.content]}
                    ELSE acked
  BY DEF IInv, TypeOK, Receive
<1>2. r.profile \in Profile /\ Whole(r.profile, stored, history)
      /\ r.expected \in Nat /\ r.content \in Content
      /\ Since(r.profile, r.places, stored, history)
      /\ Shows(t) \in Form /\ Shows(t).profile = r.profile /\ Shows(t).places = r.places
  BY <1>1 DEF Flight, Request, Shows, Form
<1>3. TypeOK'
  <2>1. form' \in [Page -> Form] /\ request' \in [Call -> Request]
    BY <1>1, <1>2, IdleType DEF IInv, TypeOK
  <2>2. acked' \subseteq [version : Nat, section : Section, content : Content]
    BY <1>1, <1>2 DEF IInv, TypeOK
  <2> QED
    BY <1>1, <2>1, <2>2 DEF IInv, TypeOK
<1>4. \A p \in Page : /\ Whole(form'[p].profile, stored, history)
                       /\ Since(form'[p].profile, form'[p].places, stored, history)
  BY <1>1, <1>2 DEF IInv, TypeOK
<1>5. \A u \in Call : Flight(request'[u], stored, history)
  <2>1. Flight(Idle, stored, history)
    BY DEF Flight, Idle, IInv, TypeOK, Whole, Absent, Profile
  <2> QED
    BY <1>1, <2>1 DEF IInv, TypeOK
<1>6. \A a \in acked' : Edited(a.version, a.section, a.content, stored, history)
  BY <1>1 DEF IInv, AckedEdited, Flight
<1>7. history'[0] = Seeded /\ Whole(stored', stored', history')
  BY <1>1 DEF IInv
<1>8. \A p \in Page : /\ Whole(form'[p].profile, stored', history')
                       /\ Since(form'[p].profile, form'[p].places, stored', history')
  BY <1>1, <1>4
<1>9. \A u \in Call : Flight(request'[u], stored', history')
  BY <1>1, <1>5
<1>10. AckedEdited(stored, history)'
  BY <1>1, <1>6 DEF AckedEdited, Edited
<1> QED
  BY <1>3, <1>7, <1>8, <1>9, <1>10 DEF IInv

\* A refused or lost answer leaves the page as it is.
LEMMA FailKeeps ==
  ASSUME IInv, NEW t \in Call, Fail(t)
  PROVE  IInv'
<1>1. request' = [request EXCEPT ![t] = Idle] /\ UNCHANGED <<stored, form, history, acked>>
  BY DEF Fail
<1>2. Flight(Idle, stored, history)
  BY DEF Flight, Idle, IInv, TypeOK, Whole, Absent, Profile
<1> QED
  BY <1>1, <1>2, IdleType, NothingPut, OneCallMoves

\* The invariant is inductive.
LEMMA StepKeeps == IInv /\ [Next]_vars => IInv'
<1> SUFFICES ASSUME IInv, [Next]_vars PROVE IInv'
  OBVIOUS
<1>1. ASSUME NEW p \in Page, Load(p) PROVE IInv'
  BY <1>1, SendKeeps, SettingsAssumption DEF Load, Kind
<1>2. ASSUME NEW p \in Page, Save(p) PROVE IInv'
  <2>1. PICK s \in Section, c \in Content : Send(<<p, "save">>, s, c)
    BY <1>2 DEF Save
  <2> QED
    BY <2>1, SendKeeps, SectionKinds
<1>3. ASSUME NEW p \in Page, Reset(p) PROVE IInv'
  BY <1>3, SendKeeps, SettingsAssumption DEF Reset, Kind
<1>4. ASSUME NEW t \in Call, Read(t) PROVE IInv'
  BY <1>4, ReadKeeps
<1>5. ASSUME NEW t \in Call, SeedMissing(t) PROVE IInv'
  BY <1>5, SeedMissingKeeps
<1>6. ASSUME NEW t \in Call, Locate(t) PROVE IInv'
  BY <1>6, LocateKeeps
<1>7. ASSUME NEW t \in Call, Commit(t) PROVE IInv'
  BY <1>7, CommitKeeps
<1>8. ASSUME NEW t \in Call, AddLocations(t) PROVE IInv'
  BY <1>8, AddLocationsKeeps
<1>9. ASSUME NEW t \in Call, Receive(t) PROVE IInv'
  BY <1>9, ReceiveKeeps
<1>10. ASSUME NEW t \in Call, Fail(t) PROVE IInv'
  BY <1>10, FailKeeps
<1>11. CASE UNCHANGED vars
  BY <1>11 DEF vars, IInv, TypeOK, Whole, Since, Flight, Expected, AckedEdited, Edited
<1> QED
  BY <1>1, <1>2, <1>3, <1>4, <1>5, <1>6, <1>7, <1>8, <1>9, <1>10, <1>11 DEF Next

-----------------------------------------------------------------------------
(* The results *)

\* The invariant of the family settings, for every number of pages and calls.
THEOREM Invariance == Spec => []IInv
BY InitKeeps, StepKeeps, PTL DEF Spec

\* Every variable keeps its type; in particular no version passes the bound.
THEOREM TypeCorrect == Spec => []TypeOK
<1>1. IInv => TypeOK
  BY DEF IInv
<1> QED
  BY <1>1, Invariance, PTL

\* A save a page knows succeeded is the edit right after the version the page
\* showed, in its section alone: nothing unseen was overwritten.
THEOREM EditsAreKept == Spec => []AcknowledgedEditsKept
<1>1. IInv => AcknowledgedEditsKept
  BY DEF IInv, AckedEdited, Edited, AcknowledgedEditsKept
<1> QED
  BY <1>1, Invariance, PTL

\* Every page shows all sections of one stored version, whatever the order of
\* answers, and locations of that version or of a later one.
THEOREM PagesShowOneVersion == Spec => []FormsAreWhole
<1>1. IInv => FormsAreWhole
  BY DEF IInv, Whole, Since, FormsAreWhole
<1> QED
  BY <1>1, Invariance, PTL

\* A load is never refused, and another call only when the profile has moved on.
THEOREM RefusalsAreConflicts == Spec => []RefusedMeansChanged
<1>1. IInv => RefusedMeansChanged
  BY DEF IInv, Flight, RefusedMeansChanged
<1> QED
  BY <1>1, Invariance, PTL

\* Putting the seed is a step of the promise.
LEMMA PutReseeds ==
  ASSUME IInv, Puts(0, Seeded)
  PROVE  Promise!Next
<1>1. stored.version = 0 /\ stored' = [version |-> 1, holds |-> Seeded]
  BY DEF Puts
<1> QED
  BY <1>1 DEF Promise!Next, Promise!Reseed, Promise!Seeded, Seeded

\* The put of an update or reset is one too.
LEMMA CommitIsPromised ==
  ASSUME IInv, NEW t \in Call, Commit(t)
  PROVE  Promise!Next \/ stored' = stored
<1> DEFINE r == request[t]
<1>1. CASE Puts(Expected(r), Revised(r))
  <2>1. /\ stored' = [version |-> stored.version + 1, holds |-> Revised(r)]
        /\ r.kind \in Section => stored.version > 0 /\ stored.holds = r.profile.holds
        /\ r \in Request /\ r.kind # "load"
    BY <1>1, CommitEdits DEF Commit, IInv, TypeOK, Flight
  <2>2. CASE r.kind = "reset"
    BY <2>1, <2>2 DEF Revised, Promise!Next, Promise!Reseed, Promise!Seeded, Seeded
  <2>3. CASE r.kind # "reset"
    <3>1. r.kind \in Section /\ r.content \in Content
      BY <2>1, <2>3 DEF Request, Kind
    <3>2. stored' = [version |-> stored.version + 1,
                     holds |-> [stored.holds EXCEPT ![r.kind] = r.content]]
      BY <2>1, <2>3, <3>1 DEF Revised
    <3> QED
      BY <2>1, <3>1, <3>2 DEF Promise!Next, Promise!Edit
  <2> QED
    BY <2>2, <2>3
<1>2. CASE Conflicts(Expected(r))
  BY <1>2 DEF Conflicts
<1> QED
  BY <1>1, <1>2 DEF Commit

\* The requests of family_service.py, interleaved as they may, implement the one
\* profile whose versions follow one another, each an edit of the one before.
THEOREM KeepsSettingsPromise == Spec => SettingsPromise
<1>1. Init => Promise!Init
  BY DEF Init, Promise!Init, Absent, Seeded, Promise!Absent, Promise!Seeded
<1>2. IInv /\ [Next]_vars => [Promise!Next]_stored
  <2> SUFFICES ASSUME IInv, [Next]_vars PROVE Promise!Next \/ stored' = stored
    OBVIOUS
  <2>1. ASSUME NEW p \in Page, Load(p) \/ Save(p) \/ Reset(p) PROVE stored' = stored
    BY <2>1 DEF Load, Save, Reset, Send
  <2>2. ASSUME NEW t \in Call, SeedMissing(t) PROVE Promise!Next \/ stored' = stored
    BY <2>2, PutReseeds DEF SeedMissing, Conflicts
  <2>3. ASSUME NEW t \in Call, Commit(t) PROVE Promise!Next \/ stored' = stored
    BY <2>3, CommitIsPromised
  <2>4. ASSUME NEW t \in Call, Read(t) \/ Locate(t) \/ AddLocations(t) \/ Receive(t)
                             \/ Fail(t)
        PROVE  stored' = stored
    BY <2>4 DEF Read, Locate, AddLocations, Receive, Fail
  <2>5. CASE UNCHANGED vars
    BY <2>5 DEF vars
  <2> QED
    BY <2>1, <2>2, <2>3, <2>4, <2>5 DEF Next
<1> QED
  BY <1>1, <1>2, Invariance, PTL DEF Spec, SettingsPromise, Promise!Spec
=============================================================================
