----------------------------- MODULE LiveProgress -----------------------------
(***************************************************************************)
(* Live progress end to end: the routes that log into the channels         *)
(* (routes.py), the event stream with its cursor and its reconnects, the   *)
(* snapshots, and the page that merges what arrives (recovery.store.ts     *)
(* over the browser's EventSource).  Operations of the page and of anyone  *)
(* else run in the backend while events, snapshots and answers are on      *)
(* their way; connections break, requests are given up, the page is        *)
(* reloaded, and the backend restarts and forgets its channels.            *)
(***************************************************************************)
EXTENDS ProgressChannel

CONSTANTS
  MaxEvents,    \* bound: events logged in all
  MaxSnapshots, \* bound: snapshots asked for at once
  MaxFaults     \* bound: lost connections and requests, restarts and reloads

ASSUME BoundsAssumption == {MaxEvents, MaxSnapshots, MaxFaults} \subseteq Nat

VARIABLES
  buffer,    \* progress_buffer
  handler,   \* who asked |-> the request being handled in the backend
  saved,     \* the cases in the repository
  page,      \* the RecoveryStore of the browser
  shown,     \* progressEvents
  stream,    \* the EventSource and the generator that serves it
  snapshots, \* GET /progress requests and answers on their way
  unused,    \* the IDs that were not given out yet
  clock,     \* events logged so far
  faults,    \* faults so far
  life       \* restarts of the backend so far

vars == <<buffer, handler, saved, page, shown, stream, snapshots, unused,
          clock, faults, life>>

\* The requests of this page, and those of other clients or given up by it.
Asker == {"page", "others"}

\* start: POST /recoveries.  change: an event or a decision on a case.  read:
\* GET of a case.
HandlerState ==
  [kind : {"start", "change", "read"}, id : Key \cup {None},
   case : Case \cup {None}, step : {"none", "sent", "running", "ok", "failed"}]

NoHandler == [kind |-> "read", id |-> None, case |-> None, step |-> "none"]

Page == [progress : Key \cup {None}, case : Case \cup {None},
         stored : Case \cup {None}, action : {"none", "request", "reset"}]

Stream == [to : Key \cup {None}, open : BOOLEAN, cursor : Nat,
           wire : Seq(Event), last : Nat]

\* The EventSource of a page that just called connect.
Connecting(id) ==
  [to |-> id, open |-> FALSE, cursor |-> 0, wire |-> <<>>, last |-> 0]

Closed == Connecting(None)

\* Every variable has its type, and the page shows the progress it is connected to.
TypeOK ==
  /\ buffer \in Buffer
  /\ handler \in [Asker -> HandlerState]
  /\ saved \subseteq Case
  /\ page \in Page
  /\ shown \subseteq Event
  /\ stream \in Stream
  /\ stream.to = page.progress
  /\ \A s \in snapshots : s.id \in Key /\ s.taken \in BOOLEAN /\ s.events \in Seq(Event)
  /\ unused \subseteq Key
  /\ {clock, faults, life} \subseteq Nat

Init ==
  /\ buffer = Empty
  /\ handler = [a \in Asker |-> NoHandler]
  /\ saved = {}
  /\ page = [progress |-> None, case |-> None, stored |-> None, action |-> "none"]
  /\ shown = {}
  /\ stream = Closed
  /\ snapshots = {}
  /\ unused = Key
  /\ clock = 0
  /\ faults = 0
  /\ life = 0

-----------------------------------------------------------------------------
(* The backend *)

\* A handler is done; only this page waits for the answer.
Done(a, step) ==
  handler' = [handler EXCEPT ![a] =
    IF a = "page" THEN [@ EXCEPT !.step = step] ELSE NoHandler]

\* The handler enters progress_scope; a start does not know its case yet.
Handle(a) ==
  LET h == handler[a] IN
  /\ h.step = "sent"
  /\ buffer' = Started(buffer, h.id, IF h.kind = "start" THEN None ELSE h.case)
  /\ handler' = [handler EXCEPT ![a].step = "running"]
  /\ UNCHANGED <<saved, page, shown, stream, snapshots, unused, clock, faults, life>>

\* emit_progress_from_log, once for each event that presents a log record: the
\* record has the case's ID (recovery_started, the first, does) or none.
Log(a) ==
  LET h == handler[a] IN
  /\ h.step = "running"
  /\ clock < MaxEvents
  /\ \E case \in {h.case, None} :
       /\ case = None => buffer.at[h.case] # None
       /\ buffer' = Appended(buffer, h.id, case, h.case, clock + 1, life)
  /\ clock' = clock + 1
  /\ UNCHANGED <<handler, saved, page, shown, stream, snapshots, unused, faults, life>>

\* The handler leaves its scope and answers; a start that succeeded saved its
\* case and attaches the case to the channel.  A change of the case on the page
\* that fails is like one that does not.
Finish(a) ==
  LET h == handler[a] IN
  /\ h.step = "running"
  /\ \/ /\ Done(a, "ok")
        /\ buffer' = IF h.kind = "start" THEN Started(buffer, h.id, h.case) ELSE buffer
        /\ saved' = saved \cup {h.case}
     \/ /\ h.kind = "start"
        /\ Done(a, "failed")
        /\ UNCHANGED <<buffer, saved>>
  /\ UNCHANGED <<page, shown, stream, snapshots, unused, clock, faults, life>>

\* Someone else acts on a saved case, without a progress header.
OthersSend ==
  /\ handler["others"].step = "none"
  /\ clock < MaxEvents
  /\ \E c \in saved :
       handler' = [handler EXCEPT !["others"] =
         [kind |-> "change", id |-> c, case |-> c, step |-> "sent"]]
  /\ UNCHANGED <<buffer, saved, page, shown, stream, snapshots, unused, clock,
                 faults, life>>

\* The process restarts: channels, handlers and connections are gone.
Restart ==
  /\ faults < MaxFaults
  /\ faults' = faults + 1
  /\ life' = life + 1
  /\ buffer' = Empty
  /\ handler' = [handler EXCEPT
       !["page"].step = IF @ \in {"sent", "running"} THEN "failed" ELSE @,
       !["others"] = NoHandler]
  /\ stream' = [stream EXCEPT !.open = FALSE, !.cursor = 0, !.wire = <<>>]
  /\ UNCHANGED <<saved, page, shown, snapshots, unused, clock>>

-----------------------------------------------------------------------------
(* The event stream *)

\* Faulty: every connection starts with what is logged from now on.
ResumeFromNow(s) == buffer.next[ChannelAt(buffer, s.to)] - 1

\* stream_progress: the request names the channel and, on a reconnect, the last
\* event the browser saw.
Resume(s) == s.last

Connect ==
  /\ stream.to # None
  /\ ~stream.open
  /\ buffer' = Started(buffer, stream.to, None)
  /\ stream' = [stream EXCEPT !.open = TRUE, !.cursor = Resume(stream)]
  /\ UNCHANGED <<handler, saved, page, shown, snapshots, unused, clock, faults, life>>

\* One round of event_stream: what is kept past the cursor is sent.
Poll ==
  LET fresh == After(buffer, stream.to, stream.cursor) IN
  /\ stream.open
  /\ fresh # <<>>
  /\ stream' = [stream EXCEPT !.cursor = fresh[Len(fresh)].sequence,
                              !.wire = @ \o fresh]
  /\ UNCHANGED <<buffer, handler, saved, page, shown, snapshots, unused, clock,
                 faults, life>>

\* The connection breaks and what was on its way is lost; the EventSource will
\* connect again.
Break ==
  /\ stream.open
  /\ faults < MaxFaults
  /\ faults' = faults + 1
  /\ stream' = [stream EXCEPT !.open = FALSE, !.cursor = 0, !.wire = <<>>]
  /\ UNCHANGED <<buffer, handler, saved, page, shown, snapshots, unused, clock, life>>

-----------------------------------------------------------------------------
(* The page *)

\* acceptsProgress
Accepts(id, e) ==
  /\ page.progress = id
  /\ e.channel = id
  /\ e.case = None \/ page.case = None \/ e.case = page.case

\* An event's id is its channel's progress ID and its sequence number.
SameId(e, f) == e.channel = f.channel /\ e.sequence = f.sequence

\* Faulty: what arrives replaces what is shown.
MergedReplacing(events) == events

\* mergeProgress: an event takes the place of one with the same id.
Merged(events) ==
  {e \in shown : \A f \in events : ~SameId(e, f)} \cup events

\* The EventSource dispatches the next event.
Deliver ==
  /\ stream.wire # <<>>
  /\ LET e == Head(stream.wire) IN
       /\ stream' = [stream EXCEPT !.wire = Tail(@), !.last = e.sequence]
       /\ shown' = IF Accepts(stream.to, e) THEN Merged({e}) ELSE shown
  /\ UNCHANGED <<buffer, handler, saved, page, snapshots, unused, clock, faults, life>>

\* GET /progress/{progress_id} is handled.
TakeSnapshot ==
  /\ \E s \in snapshots :
       /\ ~s.taken
       /\ snapshots' = (snapshots \ {s}) \cup
            {[id |-> s.id, taken |-> TRUE, events |-> Snapshot(buffer, s.id)]}
  /\ UNCHANGED <<buffer, handler, saved, page, shown, stream, unused, clock,
                 faults, life>>

\* A snapshot arrives; one asked for another progress ID is dropped.
MergeSnapshot ==
  /\ \E s \in snapshots :
       /\ s.taken
       /\ snapshots' = snapshots \ {s}
       /\ shown' =
            IF page.progress # s.id THEN shown
            ELSE Merged({e \in {s.events[i] : i \in DOMAIN s.events} : Accepts(s.id, e)})
  /\ UNCHANGED <<buffer, handler, saved, page, stream, unused, clock, faults, life>>

\* A request for a snapshot fails; the error is ignored.
LoseSnapshot ==
  /\ faults < MaxFaults
  /\ faults' = faults + 1
  /\ \E s \in snapshots : snapshots' = snapshots \ {s}
  /\ UNCHANGED <<buffer, handler, saved, page, shown, stream, unused, clock, life>>

Request(kind, id, case) ==
  handler' = [handler EXCEPT !["page"] =
    [kind |-> kind, id |-> id, case |-> case, step |-> "sent"]]

\* get_recovery: nothing is logged, so the answer may be on its way at once.
ReadOf(case, step) == [kind |-> "read", id |-> None, case |-> case, step |-> step]

\* Faulty: the progress of an earlier start is kept.
ProgressOfStart(id) == IF page.progress = None THEN id ELSE page.progress

\* newProgressId, for every start (replaceProgress).
ReplacedProgress(id) == id

\* startRecovery; the button is there while no case is.
StartRecovery ==
  /\ page.action = "none"
  /\ page.case = None
  /\ unused \cap Progress # {} /\ unused \cap Case # {}
  /\ LET new == CHOOSE k \in unused \cap Progress : TRUE
         c == CHOOSE k \in unused \cap Case : TRUE
         id == ReplacedProgress(new)
     IN
       /\ page' = [page EXCEPT !.progress = id, !.action = "request"]
       /\ stream' = IF id = stream.to THEN stream ELSE Connecting(id)
       /\ shown' = IF id = stream.to THEN shown ELSE {}
       /\ Request("start", id, c)
       /\ unused' = unused \ {id, c}
  /\ UNCHANGED <<buffer, saved, snapshots, clock, faults, life>>

\* Faulty: the progress ID is not remembered.
EnsuredProgressUnset(case) == page.progress

\* ensureProgress: the progress there is, or that of the case.
EnsuredProgress(case) == IF page.progress # None THEN page.progress ELSE case

EnsuredStream(case) == IF page.progress # None THEN stream ELSE Connecting(case)

\* submitGrandmaDecline and decideApproval, of the case on the page.
ChangeRecovery ==
  /\ page.action = "none"
  /\ page.case # None
  /\ clock < MaxEvents
  /\ page' = [page EXCEPT !.progress = EnsuredProgress(page.case), !.action = "request"]
  /\ stream' = EnsuredStream(page.case)
  /\ Request("change", EnsuredProgress(page.case), page.case)
  /\ UNCHANGED <<buffer, saved, shown, snapshots, unused, clock, faults, life>>

\* run's finalize: the action is over and a snapshot is asked for.
Finalized(p) ==
  /\ Cardinality(snapshots) < MaxSnapshots
  /\ page' = [p EXCEPT !.action = "none"]
  /\ snapshots' = IF p.progress = None THEN snapshots
                  ELSE snapshots \cup {[id |-> p.progress, taken |-> FALSE, events |-> <<>>]}

\* refresh: the case on the page is read again.  This logs nothing and shows the
\* same case, or fails, so the request and its answer are one step.
Refresh ==
  /\ page.action = "none"
  /\ page.case # None
  /\ Finalized(page)
  /\ UNCHANGED <<buffer, handler, saved, shown, stream, unused, clock, faults, life>>

\* The answer of the page's request: the case is shown and remembered, or the
\* error is.
Answer ==
  LET h == handler["page"] IN
  /\ page.action = "request"
  /\ h.step \in {"ok", "failed"}
  /\ Finalized(IF h.step = "ok" THEN [page EXCEPT !.case = h.case, !.stored = h.case]
               ELSE page)
  /\ handler' = [handler EXCEPT !["page"] = NoHandler]
  /\ UNCHANGED <<buffer, saved, shown, stream, unused, clock, faults, life>>

\* The page loses its request, which goes on in the backend.
GiveUp ==
  /\ handler["page"].step \in {"sent", "running"}
  /\ faults < MaxFaults
  /\ faults' = faults + 1
  /\ handler["others"].step = "none"
  /\ handler' = [page |-> NoHandler, others |-> handler["page"]]
  /\ Finalized(page)
  /\ UNCHANGED <<buffer, saved, shown, stream, unused, clock, life>>

\* resetDemo: the stream is closed while the family is being reset.
Reset ==
  /\ page.action = "none"
  /\ page.case # None
  /\ page' = [page EXCEPT !.progress = None, !.action = "reset"]
  /\ stream' = Closed
  /\ UNCHANGED <<buffer, handler, saved, shown, snapshots, unused, clock, faults, life>>

\* The reset is answered.  When it was refused the page goes back to its case,
\* under the case's ID.
ResetAnswered ==
  /\ page.action = "reset"
  /\ \/ /\ page' = [page EXCEPT !.case = None, !.stored = None, !.action = "none"]
        /\ shown' = {}
        /\ UNCHANGED stream
     \/ /\ page' = [page EXCEPT !.progress = EnsuredProgress(page.case), !.action = "none"]
        /\ stream' = EnsuredStream(page.case)
        /\ UNCHANGED shown
  /\ UNCHANGED <<buffer, handler, saved, snapshots, unused, clock, faults, life>>

\* The page is loaded again: it connects under the ID of the case it
\* remembers, and reads that case.
Reload ==
  /\ faults < MaxFaults
  /\ faults' = faults + 1
  /\ shown' = {}
  /\ snapshots' = {}
  /\ page' = [page EXCEPT !.progress = page.stored, !.case = None,
                          !.action = IF page.stored = None THEN "none" ELSE "request"]
  /\ stream' = Connecting(page.stored)
  /\ \E h \in IF page.stored = None THEN {NoHandler}
             ELSE {ReadOf(page.stored, step) : step \in {"ok", "failed"}} :
       IF handler["page"].step \in {"sent", "running"}
         THEN /\ handler["others"].step = "none"
              /\ handler' = [page |-> h, others |-> handler["page"]]
         ELSE handler' = [handler EXCEPT !["page"] = h]
  /\ UNCHANGED <<buffer, saved, unused, clock, life>>

BackendStep ==
  \/ \E a \in Asker : Handle(a) \/ Log(a) \/ Finish(a)
  \/ OthersSend \/ Restart

StreamStep == Connect \/ Poll \/ Break

PageStep ==
  \/ Deliver \/ TakeSnapshot \/ MergeSnapshot \/ LoseSnapshot
  \/ StartRecovery \/ ChangeRecovery \/ Refresh \/ Answer \/ GiveUp
  \/ Reset \/ ResetAnswered \/ Reload

Next == BackendStep \/ StreamStep \/ PageStep

Spec == Init /\ [][Next]_vars

\* The browser reconnects, the generator polls every 0.75 s, what was sent
\* arrives unless the connection breaks.
FairSpec == Spec /\ WF_vars(Connect \/ Poll \/ Deliver)

-----------------------------------------------------------------------------
(* Properties *)

\* Every channel keeps the last of its events, numbered without a gap
\* (RecoveryProgressBuffer.append, MAX_PROGRESS_EVENTS).
ChannelsAreWindows == \A k \in Key : IsWindow(buffer, k)

\* The events of a case are all in one channel, whatever ID its operations were
\* sent with, so a client that follows the case misses no part of it.
OneChannelPerCase ==
  \A k, l \in Key : k # l =>
    \A i \in DOMAIN buffer.events[k], j \in DOMAIN buffer.events[l] :
      buffer.events[k][i].of # buffer.events[l][j].of

\* The page never shows the progress of another case than the one it shows.
ShownIsOfTheCase ==
  page.case # None => \A e \in shown : e.of = page.case

\* An event that was shown stays, until the page starts anew or a restarted
\* backend has given its id to another event too; a late or shorter snapshot
\* takes nothing away.
ShownStays ==
  [][\A e \in shown :
       \/ e \in shown'
       \/ shown' = {}
       \/ \E f \in shown' : SameId(e, f) /\ f.life # e.life]_vars

\* What is kept for the page and was not shown to it yet.
Owed ==
  IF page.progress = None THEN {}
  ELSE LET kept == Snapshot(buffer, page.progress)
       IN  {e \in {kept[i] : i \in DOMAIN kept} : Accepts(page.progress, e)} \ shown

\* The page is shown what happened in the order it happened in, with no hole:
\* what it is still owed came after everything it shows, although the stream
\* and the snapshots deliver in parts and more than once.  A backend that
\* restarts numbers its events from 1 again, and its stream then skips some.
ShownHasNoHole ==
  life = 0 => \A e \in Owed, f \in shown : f.stamp < e.stamp

\* A page is shown every event of the channel it follows that is kept long
\* enough, across lost connections, as long as the backend does not restart:
\* again and again nothing is owed.
EventsArrive == []<>(life > 0 \/ Owed = {})
=============================================================================
