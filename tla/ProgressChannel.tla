--------------------------- MODULE ProgressChannel ---------------------------
(***************************************************************************)
(* The in-memory progress channels of the backend (progress.py).  A        *)
(* channel is reached under the progress ID it was created for and under   *)
(* the ID of the recovery case it is attached to; it numbers its events    *)
(* and keeps the last of them.  An operation is a function of the buffer,  *)
(* as the code runs each of them under one lock.                           *)
(*                                                                         *)
(* A channel is named by the progress ID it was created for.  An event     *)
(* carries three things the code does not: the case whose operation logged *)
(* it (of), when (stamp), and in which life of the backend (life).         *)
(***************************************************************************)
EXTENDS Integers, FiniteSets, Sequences

CONSTANTS
  Progress,          \* progress IDs the browser makes up
  Case,              \* recovery case IDs
  None,              \* no ID
  MaxProgressEvents  \* MAX_PROGRESS_EVENTS

ASSUME ChannelAssumption ==
  /\ None \notin Progress \cup Case
  /\ Progress \cap Case = {}  \* both are random UUIDs
  /\ MaxProgressEvents \in Nat \ {0}

\* Both kinds of ID address a channel.
Key == Progress \cup Case

Event == [channel : Key, sequence : Nat, case : Case \cup {None},
          of : Case, stamp : Nat, life : Nat]

Buffer == [at : [Key -> Key \cup {None}],
           case : [Key -> Case \cup {None}],
           events : [Key -> Seq(Event)],
           next : [Key -> Nat]]

Empty == [at |-> [k \in Key |-> None],
          case |-> [k \in Key |-> None],
          events |-> [k \in Key |-> <<>>],
          next |-> [k \in Key |-> 1]]

\* The channel reached under an ID, or the new one made for it.
ChannelAt(b, id) == IF b.at[id] = None THEN id ELSE b.at[id]

\* _attach_locked: a case keeps the channel it has.
Attached(b, channel, case) ==
  IF case = None \/ b.at[case] \notin {None, channel} THEN b
  ELSE [b EXCEPT !.case[channel] = case, !.at[case] = channel]

\* Faulty: the channel of the progress ID goes before that of the case.
StartedAsNew(b, id, case) ==
  LET channel == ChannelAt(b, id)
  IN  Attached([b EXCEPT !.at[id] = channel], channel, case)

\* start: the ID leads to the channel of the case, if the case has one.
Started(b, id, case) ==
  LET channel == IF case # None /\ b.at[case] # None THEN b.at[case]
                 ELSE ChannelAt(b, id)
  IN  Attached([b EXCEPT !.at[id] = channel], channel, case)

\* Faulty: one event more is kept.
LastOfMore(events) ==
  IF Len(events) <= MaxProgressEvents + 1 THEN events
  ELSE SubSeq(events, Len(events) - MaxProgressEvents, Len(events))

\* The last MAX_PROGRESS_EVENTS of the events.
LastOf(events) ==
  IF Len(events) <= MaxProgressEvents THEN events
  ELSE SubSeq(events, Len(events) - MaxProgressEvents + 1, Len(events))

\* append of an event; `case' is the recovery_case_id of the log record, if any.
Appended(b, id, case, of, stamp, life) ==
  LET channel == ChannelAt(b, id)
      a == Attached([b EXCEPT !.at[id] = channel], channel, case)
      event == [channel |-> channel, sequence |-> a.next[channel],
                case |-> a.case[channel], of |-> of,
                stamp |-> stamp, life |-> life]
  IN  [a EXCEPT !.next[channel] = @ + 1,
                !.events[channel] = LastOf(Append(@, event))]

\* snapshot: what is kept in the channel reached under the ID.
Snapshot(b, id) == IF b.at[id] = None THEN <<>> ELSE b.events[b.at[id]]

\* after: the events of it past a sequence number, which come last as the
\* numbers ascend.
After(b, id, sequence) ==
  LET kept == Snapshot(b, id)
      seen == {i \in DOMAIN kept : kept[i].sequence <= sequence}
  IN  SubSeq(kept, Cardinality(seen) + 1, Len(kept))

-----------------------------------------------------------------------------
\* A channel keeps a gapless run of its own events that ends with the last one
\* numbered, so a client that has the last event it saw misses none but those
\* that were pushed out.
IsWindow(b, k) ==
  /\ Len(b.events[k]) <= MaxProgressEvents
  /\ Len(b.events[k]) < b.next[k]
  /\ \A i \in DOMAIN b.events[k] :
       /\ b.events[k][i].channel = k
       /\ b.events[k][i].sequence = b.next[k] - 1 - Len(b.events[k]) + i
=============================================================================
