-------------------------- MODULE LiveProgressProofs --------------------------
(***************************************************************************)
(* What the live progress shows is the progress of the case on the page,   *)
(* for any number of cases, progress IDs and events and any faults.        *)
(*                                                                         *)
(* The invariant says whose progress is followed under every ID that was   *)
(* given out (owner): a progress ID belongs to the one case it was sent    *)
(* with, although the backend learns this only from a log record or an     *)
(* answer, and the page may not know the case yet.                         *)
(*                                                                         *)
(* The second part shows that, until the backend restarts, the page is     *)
(* shown its events without a hole (HoleInv): what it is shown is closed   *)
(* downwards among what its channel keeps for it, and what the stream has  *)
(* passed is shown or on its way.                                          *)
(***************************************************************************)
EXTENDS LiveProgress, ProgressChannelProofs

Busy(a) == handler[a].step \in {"sent", "running"}

\* A case has its own ID from the start.
OwnerOK(owner) == \A c \in Case : owner[c] = c

\* A request is sent under an ID of its case.
HandlersOK(owner) ==
  /\ handler["others"].step \notin {"ok", "failed"}
  /\ \A a \in Asker : Busy(a) =>
       /\ handler[a].kind \in {"start", "change"}
       /\ handler[a].id \in Key \ unused
       /\ handler[a].case \in Case \ unused
       /\ owner[handler[a].id] = handler[a].case
       /\ handler[a].kind = "start" => handler[a].id \in Progress

\* Nobody else knows the case of a start that is not answered yet.
StartsOK ==
  \A a \in Asker : Busy(a) /\ handler[a].kind = "start" =>
    /\ handler[a].case \notin saved \cup {page.case, page.stored, page.progress}
    /\ \A b \in Asker \ {a} :
         handler[b].step # "none" => handler[b].case # handler[a].case
    /\ handler[a].step = "sent" => buffer.at[handler[a].case] = None

\* While a request is handled, its ID and its case lead to one channel, except
\* that a start may not have named its case yet.
RunningOK ==
  \A a \in Asker : handler[a].step = "running" =>
    /\ buffer.at[handler[a].id] # None
    /\ buffer.at[handler[a].case] = None => handler[a].kind = "start"
    /\ buffer.at[handler[a].case] # None =>
         buffer.at[handler[a].case] = buffer.at[handler[a].id]

\* The page follows its case, or the case whose answer it waits for.
PageOK(owner) ==
  /\ {page.progress, page.case, page.stored} \cap unused = {}
  /\ page.case # None /\ page.progress # None => owner[page.progress] = page.case
  /\ handler["page"].step # "none" =>
       /\ page.action = "request"
       /\ handler["page"].case \in Case \ unused
       /\ page.progress # None => owner[page.progress] = handler["page"].case
       /\ page.case # None => page.case = handler["page"].case

SavedOK == saved \cap unused = {}

\* An ID leads to a channel of the same case.
LeadsOK(b, free, owner) ==
  \A k \in Key :
    /\ b.at[k] # None => k \notin free /\ owner[b.at[k]] = owner[k]
    /\ b.at[k] \notin free

\* An event is in a channel of its case, the one that the case leads to.
FiledOK(b, owner) ==
  \A k \in Key : \A i \in DOMAIN b.events[k] :
    b.events[k][i].of = owner[k] /\ b.at[b.events[k][i].of] = k

\* An event that left the backend is one of the case its channel belongs to.
SentOK(events, free, owner) ==
  \A i \in DOMAIN events :
    events[i].channel \notin free /\ events[i].of = owner[events[i].channel]

\* All of it about the channels.
BufferOK(b, free, owner) ==
  /\ b \in Buffer /\ \A k \in Key : IsWindow(b, k)
  /\ LeadsOK(b, free, owner) /\ FiledOK(b, owner)

OnTheWayOK(owner) ==
  /\ stream.open => stream.to # None
  /\ SentOK(stream.wire, unused, owner)
  /\ \A s \in snapshots : SentOK(s.events, unused, owner)

\* What is shown is of the case on the page, and before that case is known, of
\* the progress ID that was sent with the start.
ShownOK(owner) ==
  \A e \in shown :
    /\ e.channel \notin unused /\ e.of = owner[e.channel]
    /\ page.case = None => e.channel = page.progress
    /\ page.case # None => owner[e.channel] = page.case

Inv(owner) ==
  /\ TypeOK /\ SavedOK /\ StartsOK /\ RunningOK
  /\ OwnerOK(owner) /\ HandlersOK(owner) /\ PageOK(owner)
  /\ BufferOK(buffer, unused, owner) /\ OnTheWayOK(owner) /\ ShownOK(owner)

Owners == [Key -> Case \cup {None}]

IInv == \E owner \in Owners : Inv(owner)

-----------------------------------------------------------------------------
(* The buffer *)

\* What entering a channel does to the IDs.
StartsTo(b, d, id, c) ==
  /\ d.at[id] # None
  /\ c # None => d.at[c] = d.at[id]
  /\ \A k \in Key : k # id /\ k # c => d.at[k] = b.at[k]
  /\ \A e \in Case : b.at[e] # None => d.at[e] = b.at[e]
  /\ b.at[id] # None /\ (c # None => b.at[c] \in {None, b.at[id]})
       => d.at[id] = b.at[id]

\* It moves no case to another channel.
LEMMA StartedKeeps ==
  ASSUME NEW owner \in Owners, NEW b, NEW free,
         OwnerOK(owner), BufferOK(b, free, owner),
         NEW id \in Key \ free, NEW c \in (Case \cup {None}) \ free,
         c # None => owner[id] = c
  PROVE  /\ BufferOK(Started(b, id, c), free, owner)
         /\ StartsTo(b, Started(b, id, c), id, c)
<1> DEFINE d == Started(b, id, c)
<1>0. /\ b \in Buffer /\ \A k \in Key : IsWindow(b, k)
      /\ LeadsOK(b, free, owner) /\ FiledOK(b, owner)
  BY DEF BufferOK
<1> HIDE DEF BufferOK
<1> DEFINE channel == IF c # None /\ b.at[c] # None THEN b.at[c] ELSE ChannelAt(b, id)
<1>1. /\ d \in Buffer /\ d.events = b.events /\ d.next = b.next
      /\ channel \in Key
      /\ d.at[id] = channel
      /\ c # None => d.at[c] = channel
      /\ \A k \in Key : k # id /\ k # c => d.at[k] = b.at[k]
  BY <1>0, StartedEffect
<1> HIDE DEF d
<1>2. \A k \in Key : IsWindow(d, k)
  BY <1>0, <1>1 DEF IsWindow
<1>3. None \notin Key /\ Case \subseteq Key /\ (c # None => c \in Key)
  BY KeysAreNotNone
<1>4. channel \notin free /\ owner[channel] = owner[id]
  BY <1>0, <1>3 DEF LeadsOK, OwnerOK, ChannelAt
<1>5. \A e \in Case : b.at[e] # None => d.at[e] = b.at[e]
  <2> SUFFICES ASSUME NEW e \in Case, b.at[e] # None PROVE d.at[e] = b.at[e]
    OBVIOUS
  <2>1. CASE e # id /\ e # c
    BY <1>1, <1>3, <2>1
  <2>2. CASE e = c
    BY <1>1, <1>3, <2>2
  <2>3. CASE e = id
    <3>1. c = None \/ c = id
      BY <2>3 DEF OwnerOK
    <3> QED
      BY <1>1, <2>3, <3>1 DEF ChannelAt
  <2> QED
    BY <2>1, <2>2, <2>3
<1>6. b.at[id] # None /\ (c # None => b.at[c] \in {None, b.at[id]}) => channel = b.at[id]
  BY DEF ChannelAt
<1> HIDE DEF channel
<1>7. c # None => owner[c] = owner[id]
  BY DEF OwnerOK
<1>8. LeadsOK(d, free, owner)
  <2> SUFFICES ASSUME NEW k \in Key
               PROVE /\ d.at[k] # None => k \notin free /\ owner[d.at[k]] = owner[k]
                     /\ d.at[k] \notin free
    BY DEF LeadsOK
  <2>1. CASE k = id
    BY <1>1, <1>4, <2>1
  <2>2. CASE k = c
    BY <1>1, <1>3, <1>4, <1>7, <2>2
  <2>3. CASE k # id /\ k # c
    BY <1>0, <1>1, <2>3 DEF LeadsOK
  <2> QED
    BY <2>1, <2>2, <2>3
<1>9. FiledOK(d, owner)
  <2> SUFFICES ASSUME NEW k \in Key, NEW i \in DOMAIN b.events[k]
               PROVE b.events[k][i].of = owner[k] /\ d.at[b.events[k][i].of] = k
    BY <1>1 DEF FiledOK
  <2>1. b.events[k][i].of = owner[k] /\ b.at[b.events[k][i].of] = k
    BY <1>0 DEF FiledOK
  <2>2. b.events[k][i].of \in Case
    <3>1. b.events[k] \in Seq(Event)
      BY <1>0, BufferFields
    <3>2. b.events[k][i] \in Event
      BY <3>1
    <3> QED
      BY <3>2 DEF Event
  <2> QED
    BY <1>3, <1>5, <2>1, <2>2
<1>10. BufferOK(d, free, owner)
  BY <1>1, <1>2, <1>8, <1>9 DEF BufferOK
<1>11. StartsTo(b, d, id, c)
  BY <1>1, <1>3, <1>5, <1>6 DEF StartsTo
<1> QED
  BY <1>10, <1>11 DEF d

\* What logging does to the IDs: the case leads to the channel now.
LogsTo(b, d, id, of) ==
  d.at[of] = b.at[id] /\ \A k \in Key : k # of => d.at[k] = b.at[k]

\* Logging puts the event where the others of its case are.
LEMMA LoggedKeeps ==
  ASSUME NEW owner \in Owners, NEW b, NEW free,
         OwnerOK(owner), BufferOK(b, free, owner),
         NEW id \in Key, b.at[id] # None, NEW of \in Case, of \notin free, owner[id] = of,
         NEW c \in Case \cup {None}, c \in {of, None}, c = None => b.at[of] # None,
         b.at[of] \in {None, b.at[id]},
         NEW stamp \in Nat, NEW time \in Nat
  PROVE  /\ BufferOK(Appended(b, id, c, of, stamp, time), free, owner)
         /\ LogsTo(b, Appended(b, id, c, of, stamp, time), id, of)
<1> DEFINE d == Appended(b, id, c, of, stamp, time)
<1>b. /\ b \in Buffer /\ \A k \in Key : IsWindow(b, k)
      /\ LeadsOK(b, free, owner) /\ FiledOK(b, owner)
  BY DEF BufferOK
<1> DEFINE channel == b.at[id]
<1>0. /\ c # None => b.at[c] \in {None, b.at[id]}
      /\ None \notin Key /\ of \in Key
  BY KeysAreNotNone
<1>1. PICK e \in Event :
         /\ d \in Buffer /\ channel \in Key
         /\ c # None => d.at[c] = channel
         /\ \A k \in Key : k # c => d.at[k] = b.at[k]
         /\ e.channel = channel /\ e.sequence = b.next[channel] /\ e.of = of
         /\ d.events[channel] = Entered(b, channel, e)
         /\ d.next[channel] = b.next[channel] + 1
         /\ \A k \in Key : k # channel =>
              d.events[k] = b.events[k] /\ d.next[k] = b.next[k]
  <2>1. AppendsTo(b, d, b.at[id], c, of, stamp, time)
    BY <1>0, <1>b, AppendedEffect
  <2> HIDE DEF d
  <2> QED
    BY <2>1 DEF AppendsTo
<1>2. d.at[of] = channel /\ \A k \in Key : k # of => d.at[k] = b.at[k]
  BY <1>0, <1>1
<1>3. channel \notin free /\ owner[channel] = of
  BY <1>b DEF LeadsOK
<1> HIDE DEF channel, d
<1>4. /\ b.events \in [Key -> Seq(Event)] /\ b.next \in [Key -> Nat]
      /\ d.events[channel] = Entered(b, channel, e)
      /\ d.next[channel] = b.next[channel] + 1
      /\ \A k \in Key : k # channel => d.events[k] = b.events[k] /\ d.next[k] = b.next[k]
  BY <1>1, <1>b, BufferFields
<1>5. \A k \in Key : IsWindow(d, k)
  <2> TAKE k \in Key
  <2>1. CASE k = channel
    BY <1>1, <1>4, <1>b, <2>1, AppendKeepsWindow
  <2>2. CASE k # channel
    BY <1>4, <1>b, <2>2, SameWindow
  <2> QED
    BY <2>1, <2>2
<1>6. LeadsOK(d, free, owner)
  <2> SUFFICES ASSUME NEW k \in Key
               PROVE /\ d.at[k] # None => k \notin free /\ owner[d.at[k]] = owner[k]
                     /\ d.at[k] \notin free
    BY DEF LeadsOK
  <2>1. CASE k = of
    BY <1>2, <1>3, <2>1 DEF OwnerOK
  <2>2. CASE k # of
    BY <1>2, <1>b, <2>2 DEF LeadsOK
  <2> QED
    BY <2>1, <2>2
<1>7. \A k \in Key : \A i \in DOMAIN b.events[k] :
        b.events[k][i].of = owner[k] /\ d.at[b.events[k][i].of] = k
  <2> TAKE k \in Key
  <2> TAKE i \in DOMAIN b.events[k]
  <2>1. b.events[k][i].of = owner[k] /\ b.at[b.events[k][i].of] = k
    BY <1>b DEF FiledOK
  <2>2. b.events[k][i].of \in Key
    <3>1. b.events[k] \in Seq(Event)
      BY <1>4
    <3>2. b.events[k][i] \in Event
      BY <3>1
    <3> QED
      BY <3>2, KeysAreNotNone DEF Event
  <2>3. CASE b.events[k][i].of = of
    <3>1. b.at[of] # None
      BY <1>0, <2>1, <2>3
    <3>2. b.at[of] = channel
      BY <3>1 DEF channel
    <3> QED
      BY <1>2, <2>1, <2>3, <3>2
  <2>4. CASE b.events[k][i].of # of
    BY <1>2, <2>1, <2>2, <2>4
  <2> QED
    BY <2>1, <2>3, <2>4
<1>8. FiledOK(d, owner)
  <2> SUFFICES ASSUME NEW k \in Key, NEW i \in DOMAIN d.events[k]
               PROVE d.events[k][i].of = owner[k] /\ d.at[d.events[k][i].of] = k
    BY DEF FiledOK
  <2>1. CASE k # channel
    BY <1>4, <1>7, <2>1
  <2>2. CASE k = channel
    <3> DEFINE new == Append(b.events[channel], e)
    <3>1. b.events[channel] \in Seq(Event)
      BY <1>1, <1>4
    <3>2. /\ new \in Seq(Event) /\ Len(new) = Len(b.events[channel]) + 1
          /\ \A j \in 1 .. Len(b.events[channel]) : new[j] = b.events[channel][j]
          /\ new[Len(b.events[channel]) + 1] = e
      BY <1>1, <3>1, AppendFacts
    <3>3. d.events[k] = LastOf(new)
      BY <1>4, <2>2 DEF Entered
    <3> HIDE DEF new
    <3>4. PICK j \in DOMAIN new : d.events[k][i] = new[j]
      BY <3>2, <3>3, LastOfKeeps
    <3>5. DOMAIN new = 1 .. Len(b.events[channel]) + 1 /\ DOMAIN b.events[channel] = 1 .. Len(b.events[channel])
          /\ Len(b.events[channel]) \in Nat
      BY <3>1, <3>2
    <3>6. CASE j = Len(b.events[channel]) + 1
      BY <1>1, <1>2, <1>3, <2>2, <3>2, <3>4, <3>6
    <3>7. CASE j # Len(b.events[channel]) + 1
      <4>1. j \in DOMAIN b.events[channel] /\ d.events[k][i] = b.events[channel][j]
        BY <3>2, <3>4, <3>5, <3>7
      <4> QED
        BY <1>1, <1>7, <2>2, <4>1
    <3> QED
      BY <3>6, <3>7
  <2> QED
    BY <2>1, <2>2
<1> QED
  BY <1>1, <1>2, <1>5, <1>6, <1>8 DEF channel, BufferOK, LogsTo, d

-----------------------------------------------------------------------------
(* The backend *)

\* What is known of a request that is being handled.
LEMMA BusyFacts ==
  ASSUME NEW owner \in Owners, Inv(owner), NEW a \in Asker, Busy(a)
  PROVE  /\ handler[a].kind \in {"start", "change"}
         /\ handler[a].id \in Key \ unused
         /\ handler[a].case \in Case \ unused
         /\ handler[a].case \in Key /\ handler[a].case # None /\ handler[a].id # None
         /\ owner[handler[a].id] = handler[a].case
         /\ owner[handler[a].case] = handler[a].case
         /\ handler[a].kind = "start" => handler[a].id \in Progress /\ handler[a].id # handler[a].case
         /\ handler[a].id \in Case => handler[a].id = handler[a].case
BY KeysAreNotNone DEF Inv, HandlersOK, OwnerOK

\* The request of a start shares its case with no other request.
LEMMA StartFacts ==
  ASSUME NEW owner \in Owners, Inv(owner), NEW a \in Asker, Busy(a),
         handler[a].kind = "start"
  PROVE  /\ handler[a].case \notin saved
         /\ handler[a].case # page.case /\ handler[a].case # page.stored
         /\ handler[a].case # page.progress
         /\ \A b \in Asker : b # a /\ handler[b].step # "none" =>
              handler[b].case # handler[a].case
         /\ handler[a].step = "sent" => buffer.at[handler[a].case] = None
BY DEF Inv, StartsOK

\* A handler that enters its scope keeps the invariant,
LEMMA HandleKeeps ==
  ASSUME NEW owner \in Owners, Inv(owner), NEW a \in Asker, Handle(a)
  PROVE  Inv(owner)'
<1> DEFINE h == handler[a]
           c == IF h.kind = "start" THEN None ELSE h.case
<1>1. /\ handler \in [Asker -> HandlerState] /\ Busy(a) /\ h.step = "sent"
      /\ buffer' = Started(buffer, h.id, c)
      /\ handler' = [handler EXCEPT ![a].step = "running"]
      /\ UNCHANGED <<saved, page, shown, stream, snapshots, unused, clock, faults, life>>
  BY DEF Inv, TypeOK, Handle, Busy
<1>2. /\ h.kind \in {"start", "change"} /\ h.id \in Key \ unused
      /\ h.case \in Case \ unused /\ h.case \in Key /\ h.case # None
      /\ owner[h.id] = h.case
      /\ h.kind = "start" => h.id # h.case
      /\ h.id \in Case => h.id = h.case
  BY <1>1, BusyFacts
<1>3. /\ handler' \in [Asker -> HandlerState]
      /\ \A x \in Asker :
           /\ handler'[x].kind = handler[x].kind /\ handler'[x].id = handler[x].id
           /\ handler'[x].case = handler[x].case
           /\ Busy(x)' <=> Busy(x)
           /\ handler'[x].step # "none" <=> handler[x].step # "none"
           /\ x # a => handler'[x] = handler[x]
      /\ handler'[a].step = "running"
  BY <1>1 DEF HandlerState, Busy
<1>4. BufferOK(buffer', unused', owner) /\ StartsTo(buffer, buffer', h.id, c)
  <2>1. h.id \in Key \ unused /\ c \in (Case \cup {None}) \ unused
    BY <1>2, KeysAreNotNone DEF Inv, TypeOK
  <2>2. c # None => owner[h.id] = c
    BY <1>2
  <2>3. BufferOK(buffer, unused, owner) /\ OwnerOK(owner)
    BY DEF Inv
  <2> HIDE DEF h, c
  <2>4. BufferOK(Started(buffer, h.id, c), unused, owner)
        /\ StartsTo(buffer, Started(buffer, h.id, c), h.id, c)
    BY <2>1, <2>2, <2>3, StartedKeeps
  <2> QED
    BY <1>1, <2>4
<1>5. \A x \in Asker : x # a /\ Busy(x) /\ handler[x].kind = "start" =>
        buffer'.at[handler[x].case] = buffer.at[handler[x].case]
  <2> SUFFICES ASSUME NEW x \in Asker, x # a, Busy(x), handler[x].kind = "start"
               PROVE  buffer'.at[handler[x].case] = buffer.at[handler[x].case]
    OBVIOUS
  <2>1. h.case # handler[x].case /\ handler[x].case \in Key /\ handler[x].case # None
    BY <1>1, BusyFacts, StartFacts DEF Busy
  <2>2. h.id # handler[x].case
    BY <1>2, <2>1, BusyFacts
  <2> QED
    BY <1>4, <2>1, <2>2 DEF StartsTo
<1>6. TypeOK'
  BY <1>1, <1>3, <1>4 DEF Inv, TypeOK, BufferOK
<1>7. SavedOK'
  BY <1>1 DEF Inv, SavedOK
<1>8. StartsOK'
  BY <1>1, <1>3, <1>5 DEF Inv, StartsOK, Busy
<1>9. RunningOK'
  <2> SUFFICES ASSUME NEW x \in Asker, handler'[x].step = "running"
               PROVE  /\ buffer'.at[handler[x].id] # None
                      /\ buffer'.at[handler[x].case] = None => handler[x].kind = "start"
                      /\ buffer'.at[handler[x].case] # None =>
                           buffer'.at[handler[x].case] = buffer'.at[handler[x].id]
    BY <1>3 DEF RunningOK
  <2>1. CASE x = a
    <3>1. CASE h.kind = "start"
      <4>1. buffer.at[h.case] = None
        BY <1>1, <3>1, StartFacts
      <4> QED
        BY <1>2, <1>4, <2>1, <3>1, <4>1 DEF StartsTo
    <3>2. CASE h.kind # "start"
      BY <1>2, <1>4, <2>1, <3>2 DEF StartsTo
    <3> QED
      BY <3>1, <3>2
  <2>2. CASE x # a
    <3> DEFINE g == handler[x]
    <3>1. Busy(x) /\ g.step = "running"
      BY <1>3, <2>2 DEF Busy
    <3>2. /\ buffer.at[g.id] # None
          /\ buffer.at[g.case] = None => g.kind = "start"
          /\ buffer.at[g.case] # None => buffer.at[g.case] = buffer.at[g.id]
      BY <3>1 DEF Inv, RunningOK
    <3>3. /\ g.case \in Case /\ g.id \in Key /\ owner[g.id] = g.case
          /\ g.id \in Case => g.id = g.case
      BY <3>1, BusyFacts
    <3>4. buffer'.at[g.case] = buffer.at[g.case]
      <4>1. CASE buffer.at[g.case] # None
        BY <1>4, <3>3, <4>1 DEF StartsTo
      <4>2. CASE buffer.at[g.case] = None
        BY <1>5, <2>2, <3>1, <3>2, <4>2
      <4> QED
        BY <4>1, <4>2
    <3>5. buffer'.at[g.id] = buffer.at[g.id]
      <4>1. CASE g.id # h.id /\ g.id # c
        BY <1>4, <3>3, <4>1 DEF StartsTo
      <4>2. CASE g.id \in Case
        BY <3>3, <3>4, <4>2
      <4>3. CASE g.id = h.id
        <5>1. g.case = h.case
          BY <1>2, <3>3, <4>3
        <5>2. g.kind # "start" /\ h.kind # "start"
          BY <1>1, <2>2, <3>1, <5>1, StartFacts
        <5>3. c = h.case /\ buffer.at[c] = buffer.at[h.id]
          BY <3>2, <4>3, <5>1, <5>2
        <5> QED
          BY <1>4, <3>2, <4>3, <5>3 DEF StartsTo
      <4>4. c \in Case \/ c = None
        BY <1>2
      <4>5. g.id # None
        BY <3>3, KeysAreNotNone
      <4> QED
        BY <4>1, <4>2, <4>3, <4>4, <4>5
    <3> QED
      BY <3>2, <3>4, <3>5
  <2> QED
    BY <2>1, <2>2
<1>10. HandlersOK(owner)'
  BY <1>1, <1>3 DEF Inv, HandlersOK
<1>11. PageOK(owner)'
  <2>1. "page" \in Asker
    BY DEF Asker
  <2> QED
    BY <1>1, <1>3, <2>1 DEF Inv, PageOK
<1>12. OnTheWayOK(owner)' /\ ShownOK(owner)'
  BY <1>1 DEF Inv, OnTheWayOK, ShownOK, SentOK
<1> QED
  BY <1>4, <1>6, <1>7, <1>8, <1>9, <1>10, <1>11, <1>12 DEF Inv

\* one that logs an event,
LEMMA LogKeeps ==
  ASSUME NEW owner \in Owners, Inv(owner), NEW a \in Asker, Log(a)
  PROVE  Inv(owner)'
<1> DEFINE h == handler[a]
<1>1. /\ handler \in [Asker -> HandlerState] /\ Busy(a) /\ h.step = "running"
      /\ clock' = clock + 1
      /\ clock \in Nat /\ life \in Nat
      /\ UNCHANGED <<handler, saved, page, shown, stream, snapshots, unused, faults, life>>
  BY DEF Inv, TypeOK, Log, Busy
<1>2. PICK c \in {h.case, None} :
        /\ c = None => buffer.at[h.case] # None
        /\ buffer' = Appended(buffer, h.id, c, h.case, clock + 1, life)
  BY DEF Log
<1>3. /\ h.id \in Key \ unused
      /\ h.case \in Case \ unused /\ h.case \in Key /\ h.case # None
      /\ owner[h.id] = h.case
  BY <1>1, BusyFacts
<1>4. /\ buffer.at[h.id] # None
      /\ buffer.at[h.case] = None => h.kind = "start"
      /\ buffer.at[h.case] # None => buffer.at[h.case] = buffer.at[h.id]
  BY <1>1 DEF Inv, RunningOK
<1>5. /\ BufferOK(buffer', unused', owner)
      /\ buffer'.at[h.case] = buffer.at[h.id]
      /\ \A k \in Key : k # h.case => buffer'.at[k] = buffer.at[k]
  <2>1. /\ h.id \in Key /\ h.case \in Case /\ h.case \notin unused
        /\ c \in Case \cup {None} /\ c \in {h.case, None}
        /\ buffer.at[h.case] \in {None, buffer.at[h.id]}
        /\ clock + 1 \in Nat
    BY <1>1, <1>2, <1>3, <1>4
  <2>2. BufferOK(buffer, unused, owner) /\ OwnerOK(owner)
    BY DEF Inv
  <2> DEFINE d == Appended(buffer, h.id, c, h.case, clock + 1, life)
  <2>3. BufferOK(d, unused, owner) /\ LogsTo(buffer, d, h.id, h.case)
    <3> HIDE DEF h
    <3> QED
      BY <1>1, <1>2, <1>3, <1>4, <2>1, <2>2, LoggedKeeps
  <2> HIDE DEF d
  <2>4. buffer' = d
    BY <1>2 DEF d
  <2> QED
    BY <1>1, <2>3, <2>4 DEF LogsTo
<1>6. \A x \in Asker : x # a /\ Busy(x) /\ handler[x].kind = "start" =>
        buffer'.at[handler[x].case] = buffer.at[handler[x].case]
  <2> SUFFICES ASSUME NEW x \in Asker, x # a, Busy(x), handler[x].kind = "start"
               PROVE  buffer'.at[handler[x].case] = buffer.at[handler[x].case]
    OBVIOUS
  <2>1. h.case # handler[x].case /\ handler[x].case \in Key
    BY <1>1, BusyFacts, StartFacts DEF Busy
  <2> QED
    BY <1>5, <2>1
<1>7. TypeOK'
  BY <1>1, <1>5 DEF Inv, TypeOK, BufferOK
<1>8. SavedOK' /\ OwnerOK(owner)' /\ HandlersOK(owner)' /\ PageOK(owner)'
      /\ OnTheWayOK(owner)' /\ ShownOK(owner)'
  BY <1>1 DEF Inv, SavedOK, HandlersOK, Busy, PageOK, OnTheWayOK, ShownOK, SentOK
<1>9. StartsOK'
  BY <1>1, <1>6 DEF Inv, StartsOK, Busy
<1>10. RunningOK'
  <2> SUFFICES ASSUME NEW x \in Asker, handler[x].step = "running"
               PROVE  /\ buffer'.at[handler[x].id] # None
                      /\ buffer'.at[handler[x].case] = None => handler[x].kind = "start"
                      /\ buffer'.at[handler[x].case] # None =>
                           buffer'.at[handler[x].case] = buffer'.at[handler[x].id]
    BY <1>1 DEF RunningOK
  <2>1. CASE x = a
    BY <1>3, <1>4, <1>5, <2>1
  <2>2. CASE x # a
    <3> DEFINE g == handler[x]
    <3>1. Busy(x)
      BY DEF Busy
    <3>2. /\ buffer.at[g.id] # None
          /\ buffer.at[g.case] = None => g.kind = "start"
          /\ buffer.at[g.case] # None => buffer.at[g.case] = buffer.at[g.id]
      BY DEF Inv, RunningOK
    <3>3. /\ g.case \in Key /\ g.id \in Key
          /\ g.id \in Case => g.id = g.case
      BY <3>1, BusyFacts
    <3>4. buffer.at[h.case] = None => g.case # h.case
      BY <1>1, <1>4, <2>2, StartFacts, <3>1 DEF Busy
    <3>5. \A k \in {g.id, g.case} : buffer'.at[k] = buffer.at[k]
      BY <1>3, <1>4, <1>5, <3>3, <3>4
    <3> QED
      BY <3>2, <3>5
  <2> QED
    BY <2>1, <2>2
<1> QED
  BY <1>5, <1>7, <1>8, <1>9, <1>10 DEF Inv

\* A handler that is done is busy no more; the page keeps the case it asked for.
LEMMA DoneFacts ==
  ASSUME NEW a \in Asker, handler \in [Asker -> HandlerState],
         NEW step \in {"ok", "failed"}, Done(a, step)
  PROVE  /\ handler' \in [Asker -> HandlerState]
         /\ \A x \in Asker : x # a => handler'[x] = handler[x]
         /\ handler'[a].step \notin {"sent", "running"}
         /\ handler'[a].step # "none" => a = "page" /\ handler'[a].case = handler[a].case
<1>1. CASE a = "page"
  BY <1>1 DEF Done, HandlerState
<1>2. CASE a # "page"
  <2>1. handler' = [handler EXCEPT ![a] = NoHandler]
    BY <1>2 DEF Done
  <2>2. NoHandler \in HandlerState /\ NoHandler.step = "none"
    BY DEF NoHandler, HandlerState
  <2> QED
    BY <2>1, <2>2
<1> QED
  BY <1>1, <1>2

\* one that answers, and so saves and attaches a new case or fails,
LEMMA FinishKeeps ==
  ASSUME NEW owner \in Owners, Inv(owner), NEW a \in Asker, Finish(a)
  PROVE  Inv(owner)'
<1> DEFINE h == handler[a]
<1>1. /\ handler \in [Asker -> HandlerState] /\ Busy(a) /\ h.step = "running"
      /\ \E step \in {"ok", "failed"} : Done(a, step)
      /\ saved' \subseteq saved \cup {h.case}
      /\ UNCHANGED <<page, shown, stream, snapshots, unused, clock, faults, life>>
  BY DEF Inv, TypeOK, Finish, Busy
<1>2. /\ h.id \in Key \ unused
      /\ h.case \in Case \ unused /\ h.case \in Key /\ h.case # None
      /\ owner[h.id] = h.case
      /\ h.id \in Case => h.id = h.case
  BY <1>1, BusyFacts
<1>3. /\ handler' \in [Asker -> HandlerState]
      /\ \A x \in Asker : x # a => handler'[x] = handler[x]
      /\ ~Busy(a)'
      /\ handler'[a].step # "none" => a = "page" /\ handler'[a].case = h.case
  BY <1>1, DoneFacts DEF Busy
<1>4. /\ buffer.at[h.id] # None
      /\ buffer.at[h.case] \in {None, buffer.at[h.id]}
  BY <1>1 DEF Inv, RunningOK
<1>5. /\ BufferOK(buffer', unused', owner) /\ RunningOK'
      /\ \A x \in Asker : x # a /\ Busy(x) /\ handler[x].kind = "start" =>
           buffer'.at[handler[x].case] = buffer.at[handler[x].case]
  <2>1. \/ h.kind # "start" \/ buffer' = buffer
        \/ h.kind = "start" /\ buffer' = Started(buffer, h.id, h.case)
    BY DEF Finish
  <2>2. CASE h.kind # "start" \/ buffer' = buffer
    <3>1. buffer' = buffer
      BY <2>2 DEF Finish
    <3> QED
      BY <1>1, <1>3, <3>1 DEF Inv, RunningOK, Busy
  <2>3. CASE h.kind = "start" /\ buffer' = Started(buffer, h.id, h.case)
    <3>1. BufferOK(buffer', unused', owner) /\ StartsTo(buffer, buffer', h.id, h.case)
      <4>1. h.id \in Key \ unused /\ h.case \in (Case \cup {None}) \ unused
            /\ owner[h.id] = h.case
        BY <1>2
      <4>2. BufferOK(buffer, unused, owner) /\ OwnerOK(owner)
        BY DEF Inv
      <4> HIDE DEF h
      <4>3. BufferOK(Started(buffer, h.id, h.case), unused, owner)
            /\ StartsTo(buffer, Started(buffer, h.id, h.case), h.id, h.case)
        BY <4>1, <4>2, StartedKeeps
      <4> QED
        BY <1>1, <2>3, <4>3
    <3>2. \A x \in Asker : x # a /\ Busy(x) =>
            /\ buffer'.at[handler[x].case] = buffer.at[handler[x].case]
            /\ buffer'.at[handler[x].id] = buffer.at[handler[x].id]
      <4> SUFFICES ASSUME NEW x \in Asker, x # a, Busy(x)
                   PROVE  \A k \in {handler[x].case, handler[x].id} :
                            buffer'.at[k] = buffer.at[k]
        OBVIOUS
      <4>1. h.case # handler[x].case
        BY <1>1, <2>3, StartFacts DEF Busy
      <4>2. /\ handler[x].case \in Case /\ handler[x].case \in Key /\ handler[x].id \in Key
            /\ owner[handler[x].id] = handler[x].case
            /\ owner[handler[x].case] = handler[x].case
        BY BusyFacts
      <4>3. owner[h.case] = h.case
        BY <1>1, BusyFacts
      <4>4. \A k \in {handler[x].case, handler[x].id} : k \in Key /\ k # h.id /\ k # h.case
        BY <1>2, <4>1, <4>2, <4>3
      <4> QED
        BY <3>1, <4>4 DEF StartsTo
    <3>3. RunningOK'
      BY <1>1, <1>3, <3>2 DEF Inv, RunningOK, Busy
    <3> QED
      BY <3>1, <3>2, <3>3
  <2> QED
    BY <2>1, <2>2, <2>3
<1>6. TypeOK'
  BY <1>1, <1>2, <1>3, <1>5 DEF Inv, TypeOK, BufferOK
<1>7. SavedOK'
  BY <1>1, <1>2 DEF Inv, SavedOK
<1>8. StartsOK'
  <2> SUFFICES ASSUME NEW x \in Asker, Busy(x)', handler'[x].kind = "start"
               PROVE  /\ handler'[x].case \notin saved' \cup {page.case, page.stored, page.progress}
                      /\ \A b \in Asker \ {x} :
                           handler'[b].step # "none" => handler'[b].case # handler'[x].case
                      /\ handler'[x].step = "sent" => buffer'.at[handler'[x].case] = None
    BY <1>1 DEF StartsOK, Busy
  <2>1. x # a /\ handler'[x] = handler[x] /\ Busy(x) /\ handler[x].kind = "start"
    BY <1>3 DEF Busy
  <2>2. h.case # handler[x].case
    BY <1>1, <2>1, StartFacts DEF Busy
  <2> QED
    BY <1>1, <1>3, <1>5, <2>1, <2>2, StartFacts
<1>9. HandlersOK(owner)'
  <2>1. handler'["others"].step \notin {"ok", "failed"}
    <3>1. "others" \in Asker /\ "others" # "page"
      BY DEF Asker
    <3>2. CASE a = "others"
      BY <1>3, <3>1, <3>2
    <3>3. CASE a # "others"
      BY <1>3, <3>1, <3>3 DEF Inv, HandlersOK
    <3> QED
      BY <3>2, <3>3
  <2> QED
    BY <1>1, <1>3, <2>1 DEF Inv, HandlersOK, Busy
<1>10. PageOK(owner)'
  <2>1. "page" \in Asker
    BY DEF Asker
  <2>2. handler'["page"].step # "none" =>
          handler["page"].step # "none" /\ handler'["page"].case = handler["page"].case
    BY <1>1, <1>3, <2>1
  <2> QED
    BY <1>1, <2>2 DEF Inv, PageOK
<1>11. OnTheWayOK(owner)' /\ ShownOK(owner)' /\ OwnerOK(owner)'
  BY <1>1 DEF Inv, OnTheWayOK, ShownOK, SentOK
<1> QED
  BY <1>5, <1>6, <1>7, <1>8, <1>9, <1>10, <1>11 DEF Inv

\* a request of somebody else on a saved case,
LEMMA OthersSendKeeps ==
  ASSUME NEW owner \in Owners, Inv(owner), OthersSend
  PROVE  Inv(owner)'
<1>1. PICK c \in saved : handler' = [handler EXCEPT !["others"] =
         [kind |-> "change", id |-> c, case |-> c, step |-> "sent"]]
  BY DEF OthersSend
<1>2. /\ handler["others"].step = "none"
      /\ UNCHANGED <<buffer, saved, page, shown, stream, snapshots, unused, clock,
                     faults, life>>
  BY DEF OthersSend
<1>3. /\ handler \in [Asker -> HandlerState] /\ c \in Case \ unused /\ c \in Key
      /\ owner[c] = c /\ c # None
  BY KeysAreNotNone DEF Inv, TypeOK, SavedOK, OwnerOK
<1>4. /\ handler' \in [Asker -> HandlerState] /\ handler'["page"] = handler["page"]
      /\ handler'["others"].kind = "change" /\ handler'["others"].step = "sent"
      /\ handler'["others"].id = c /\ handler'["others"].case = c
      /\ \A x \in Asker : x # "others" => handler'[x] = handler[x]
      /\ "page" \in Asker /\ "others" \in Asker
  BY <1>1, <1>3 DEF HandlerState, Asker
<1>5. TypeOK'
  BY <1>2, <1>4 DEF Inv, TypeOK
<1>6. StartsOK'
  <2> SUFFICES ASSUME NEW x \in Asker, Busy(x)', handler'[x].kind = "start"
               PROVE  /\ handler'[x].case \notin saved \cup {page.case, page.stored, page.progress}
                      /\ \A b \in Asker \ {x} :
                           handler'[b].step # "none" => handler'[b].case # handler'[x].case
                      /\ handler'[x].step = "sent" => buffer.at[handler'[x].case] = None
    BY <1>2 DEF StartsOK, Busy
  <2>1. x # "others" /\ handler'[x] = handler[x] /\ Busy(x) /\ handler[x].kind = "start"
    BY <1>4 DEF Busy
  <2> QED
    BY <1>4, <2>1, StartFacts
<1>7. RunningOK' /\ HandlersOK(owner)'
  BY <1>2, <1>3, <1>4 DEF Inv, RunningOK, HandlersOK, Busy
<1>8. SavedOK' /\ OwnerOK(owner)' /\ BufferOK(buffer, unused, owner)'
      /\ OnTheWayOK(owner)' /\ ShownOK(owner)'
  BY <1>2 DEF Inv, SavedOK, OnTheWayOK, ShownOK, SentOK
<1>9. PageOK(owner)'
  BY <1>2, <1>4 DEF Inv, PageOK
<1> QED
  BY <1>5, <1>6, <1>7, <1>8, <1>9 DEF Inv

\* and a restart, which forgets the channels and every handler.
LEMMA RestartKeeps ==
  ASSUME NEW owner \in Owners, Inv(owner), Restart
  PROVE  Inv(owner)'
<1>1. /\ faults' = faults + 1 /\ life' = life + 1 /\ buffer' = Empty
      /\ handler' = [handler EXCEPT
           !["page"].step = IF @ \in {"sent", "running"} THEN "failed" ELSE @,
           !["others"] = NoHandler]
      /\ stream' = [stream EXCEPT !.open = FALSE, !.cursor = 0, !.wire = <<>>]
      /\ UNCHANGED <<saved, page, shown, snapshots, unused, clock>>
  BY DEF Restart
<1>2. /\ handler \in [Asker -> HandlerState] /\ stream \in Stream
      /\ stream.to = page.progress /\ {faults, life} \subseteq Nat
  BY DEF Inv, TypeOK
<1>3. /\ handler' \in [Asker -> HandlerState]
      /\ handler'["page"].case = handler["page"].case
      /\ handler'["page"].step # "none" => handler["page"].step # "none"
      /\ \A x \in Asker : handler'[x].step \notin {"sent", "running"}
      /\ handler'["others"].step = "none"
  BY <1>1, <1>2 DEF HandlerState, Asker, NoHandler
<1>4. stream' \in Stream /\ stream'.to = stream.to /\ stream'.wire = <<>> /\ ~stream'.open
  <2>1. <<>> \in Seq(Event)
    OBVIOUS
  <2> QED
    BY <1>1, <1>2, <2>1 DEF Stream
<1>5. TypeOK'
  <2>1. {clock, faults, life}' \subseteq Nat
    BY <1>1 DEF Inv, TypeOK
  <2>2. buffer' \in Buffer /\ stream'.to = page'.progress
    BY <1>1, <1>2, <1>4, EmptyType
  <2> QED
    BY <1>1, <1>3, <1>4, <2>1, <2>2 DEF Inv, TypeOK
<1>6. BufferOK(buffer', unused', owner)
  <2>1. LeadsOK(Empty, unused, owner)
    <3>1. None \notin unused
      BY KeysAreNotNone DEF Inv, TypeOK
    <3>2. \A k \in Key : Empty.at[k] = None
      BY DEF Empty
    <3> QED
      BY <3>1, <3>2 DEF LeadsOK
  <2>2. FiledOK(Empty, owner)
    BY DEF Empty, FiledOK
  <2> QED
    BY <1>1, <2>1, <2>2, EmptyType DEF BufferOK
<1>7. StartsOK' /\ RunningOK' /\ HandlersOK(owner)'
  BY <1>3 DEF StartsOK, RunningOK, HandlersOK, Busy
<1>8. SavedOK' /\ OwnerOK(owner)' /\ ShownOK(owner)'
  BY <1>1 DEF Inv, SavedOK, ShownOK
<1>9. PageOK(owner)'
  BY <1>1, <1>3 DEF Inv, PageOK
<1>10. OnTheWayOK(owner)'
  BY <1>1, <1>4 DEF Inv, OnTheWayOK, SentOK
<1> QED
  BY <1>5, <1>6, <1>7, <1>8, <1>9, <1>10 DEF Inv

-----------------------------------------------------------------------------
(* What leaves the backend *)

\* Steps of the stream and of snapshots leave the requests and the page alone.
LEMMA SameRequests ==
  ASSUME NEW owner \in Owners, Inv(owner),
         UNCHANGED <<buffer, handler, saved, page, unused>>
  PROVE  /\ SavedOK' /\ StartsOK' /\ RunningOK' /\ OwnerOK(owner)'
         /\ HandlersOK(owner)' /\ PageOK(owner)' /\ BufferOK(buffer, unused, owner)'
BY DEF Inv, SavedOK, StartsOK, RunningOK, HandlersOK, Busy, PageOK

\* What is kept in a channel is of its case.
LEMMA SnapshotSent ==
  ASSUME NEW owner \in Owners, NEW b, NEW free, BufferOK(b, free, owner), NEW id \in Key
  PROVE  Snapshot(b, id) \in Seq(Event) /\ SentOK(Snapshot(b, id), free, owner)
<1>1. b \in Buffer /\ LeadsOK(b, free, owner) /\ FiledOK(b, owner)
      /\ \A k \in Key : IsWindow(b, k)
  BY DEF BufferOK
<1>2. Snapshot(b, id) \in Seq(Event)
  BY <1>1, SnapshotType
<1>3. ASSUME NEW i \in DOMAIN Snapshot(b, id)
      PROVE  /\ Snapshot(b, id)[i].channel \notin free
             /\ Snapshot(b, id)[i].of = owner[Snapshot(b, id)[i].channel]
  <2>1. /\ b.at[id] \in Key /\ i \in DOMAIN b.events[b.at[id]]
        /\ Snapshot(b, id)[i] = b.events[b.at[id]][i]
    BY <1>1, SnapshotType
  <2>2. b.events[b.at[id]][i].channel = b.at[id]
    BY <1>1, <2>1 DEF IsWindow
  <2>3. b.at[id] \notin free
    BY <1>1 DEF LeadsOK
  <2> QED
    BY <1>1, <2>1, <2>2, <2>3 DEF FiledOK
<1> QED
  BY <1>2, <1>3 DEF SentOK

\* What the stream sends is of the case of its channel,
LEMMA AfterSent ==
  ASSUME NEW owner \in Owners, NEW b, NEW free, BufferOK(b, free, owner),
         NEW id \in Key, NEW n \in Nat
  PROVE  After(b, id, n) \in Seq(Event) /\ SentOK(After(b, id, n), free, owner)
<1>1. /\ After(b, id, n) \in Seq(Event)
      /\ \A i \in DOMAIN After(b, id, n) :
           \E j \in DOMAIN Snapshot(b, id) : After(b, id, n)[i] = Snapshot(b, id)[j]
  BY AfterType DEF BufferOK
<1>2. SentOK(Snapshot(b, id), free, owner)
  BY SnapshotSent
<1> QED
  BY <1>1, <1>2 DEF SentOK

\* together with what is on its way already.
LEMMA SentTogether ==
  ASSUME NEW owner \in Owners, NEW free, NEW s \in Seq(Event), NEW t \in Seq(Event),
         SentOK(s, free, owner), SentOK(t, free, owner)
  PROVE  s \o t \in Seq(Event) /\ SentOK(s \o t, free, owner)
<1>1. /\ s \o t \in Seq(Event)
      /\ \A i \in DOMAIN (s \o t) :
           \/ i \in DOMAIN s /\ (s \o t)[i] = s[i]
           \/ i - Len(s) \in DOMAIN t /\ (s \o t)[i] = t[i - Len(s)]
  OBVIOUS
<1> QED
  BY <1>1 DEF SentOK

\* A connection enters the channel of its ID,
LEMMA ConnectKeeps ==
  ASSUME NEW owner \in Owners, Inv(owner), Connect
  PROVE  Inv(owner)'
<1> DEFINE to == stream.to
<1>1. /\ to # None /\ to = page.progress /\ stream \in Stream
      /\ buffer' = Started(buffer, to, None)
      /\ stream' = [stream EXCEPT !.open = TRUE, !.cursor = stream.last]
      /\ UNCHANGED <<handler, saved, page, shown, snapshots, unused, clock, faults, life>>
  BY DEF Inv, TypeOK, Connect, Resume
<1>2. stream' \in Stream /\ stream'.to = to /\ stream'.wire = stream.wire
  BY <1>1 DEF Stream
<1>3. to \in Key \ unused /\ None \notin unused /\ None \notin Key
  BY <1>1, KeysAreNotNone DEF Inv, TypeOK, PageOK, Page
<1>4. BufferOK(buffer', unused', owner) /\ StartsTo(buffer, buffer', to, None)
  <2>1. BufferOK(buffer, unused, owner) /\ OwnerOK(owner)
    BY DEF Inv
  <2> HIDE DEF to
  <2>2. BufferOK(Started(buffer, to, None), unused, owner)
        /\ StartsTo(buffer, Started(buffer, to, None), to, None)
    BY <1>3, <2>1, StartedKeeps
  <2> QED
    BY <1>1, <2>2
<1>5. \A k \in Key : k # to \/ buffer.at[to] # None => buffer'.at[k] = buffer.at[k]
  BY <1>3, <1>4 DEF StartsTo
<1>6. TypeOK'
  BY <1>1, <1>2, <1>4 DEF Inv, TypeOK, BufferOK
<1>7. StartsOK'
  <2> SUFFICES ASSUME NEW x \in Asker, Busy(x), handler[x].kind = "start",
                      handler[x].step = "sent"
               PROVE  buffer'.at[handler[x].case] = None
    BY <1>1 DEF Inv, StartsOK, Busy
  <2>1. handler[x].case # to /\ handler[x].case \in Key /\ buffer.at[handler[x].case] = None
    BY <1>1, BusyFacts, StartFacts
  <2> QED
    BY <1>5, <2>1
<1>8. RunningOK'
  <2> SUFFICES ASSUME NEW x \in Asker, handler[x].step = "running"
               PROVE  \A k \in {handler[x].id, handler[x].case} : buffer'.at[k] = buffer.at[k]
    BY <1>1 DEF Inv, RunningOK
  <2>1. handler[x].case \in Key /\ handler[x].id \in Key /\ Busy(x)
    BY BusyFacts DEF Busy
  <2>2. buffer.at[handler[x].id] # None
    BY DEF Inv, RunningOK
  <2>3. buffer.at[handler[x].case] = None => handler[x].case # to
    <3>1. buffer.at[handler[x].case] = None => handler[x].kind = "start"
      BY DEF Inv, RunningOK
    <3> QED
      BY <1>1, <2>1, <3>1, StartFacts
  <2> QED
    BY <1>5, <2>1, <2>2, <2>3
<1>9. SavedOK' /\ OwnerOK(owner)' /\ HandlersOK(owner)' /\ PageOK(owner)'
  BY <1>1 DEF Inv, SavedOK, HandlersOK, Busy, PageOK
<1>10. OnTheWayOK(owner)' /\ ShownOK(owner)'
  BY <1>1, <1>2 DEF Inv, OnTheWayOK, ShownOK, SentOK
<1> QED
  BY <1>4, <1>6, <1>7, <1>8, <1>9, <1>10 DEF Inv

\* the generator sends what is kept in it,
LEMMA PollKeeps ==
  ASSUME NEW owner \in Owners, Inv(owner), Poll
  PROVE  Inv(owner)'
<1> DEFINE fresh == After(buffer, stream.to, stream.cursor)
<1>1. /\ fresh # <<>> /\ stream \in Stream /\ stream.to = page.progress
      /\ stream' = [stream EXCEPT !.cursor = fresh[Len(fresh)].sequence,
                                  !.wire = @ \o fresh]
      /\ UNCHANGED <<buffer, handler, saved, page, shown, snapshots, unused, clock,
                     faults, life>>
  BY DEF Inv, TypeOK, Poll
<1>2. SavedOK' /\ StartsOK' /\ RunningOK' /\ OwnerOK(owner)'
      /\ HandlersOK(owner)' /\ PageOK(owner)' /\ BufferOK(buffer, unused, owner)'
  BY <1>1, SameRequests
<1>3. fresh \in Seq(Event) /\ SentOK(fresh, unused, owner)
  <2>1. stream.to \in Key /\ stream.cursor \in Nat
    BY <1>1 DEF Inv, OnTheWayOK, Poll, Stream
  <2> QED
    BY <2>1, AfterSent DEF Inv
<1> HIDE DEF fresh
<1>4. fresh[Len(fresh)].sequence \in Nat
  <2>1. Len(fresh) \in 1 .. Len(fresh)
    BY <1>1, <1>3
  <2>2. fresh[Len(fresh)] \in Event
    BY <1>3, <2>1
  <2> QED
    BY <2>2 DEF Event
<1>5. stream.wire \o fresh \in Seq(Event) /\ SentOK(stream.wire \o fresh, unused, owner)
  <2>1. stream.wire \in Seq(Event) /\ SentOK(stream.wire, unused, owner)
    BY <1>1 DEF Inv, OnTheWayOK, Stream
  <2> QED
    BY <1>3, <2>1, SentTogether
<1>6. stream' \in Stream /\ stream'.to = stream.to /\ stream'.open = stream.open
      /\ stream'.wire = stream.wire \o fresh
  BY <1>1, <1>4, <1>5 DEF Stream
<1>7. TypeOK'
  BY <1>1, <1>6 DEF Inv, TypeOK
<1>8. OnTheWayOK(owner)' /\ ShownOK(owner)'
  BY <1>1, <1>5, <1>6 DEF Inv, OnTheWayOK, ShownOK
<1> QED
  BY <1>2, <1>7, <1>8 DEF Inv

\* and a connection that breaks loses that.
LEMMA BreakKeeps ==
  ASSUME NEW owner \in Owners, Inv(owner), Break
  PROVE  Inv(owner)'
<1>1. /\ stream \in Stream /\ stream.to = page.progress /\ faults' = faults + 1
      /\ stream' = [stream EXCEPT !.open = FALSE, !.cursor = 0, !.wire = <<>>]
      /\ UNCHANGED <<buffer, handler, saved, page, shown, snapshots, unused, clock, life>>
  BY DEF Inv, TypeOK, Break
<1>2. SavedOK' /\ StartsOK' /\ RunningOK' /\ OwnerOK(owner)'
      /\ HandlersOK(owner)' /\ PageOK(owner)' /\ BufferOK(buffer, unused, owner)'
  BY <1>1, SameRequests
<1>3. stream' \in Stream /\ stream'.to = stream.to /\ stream'.wire = <<>> /\ ~stream'.open
  <2>1. <<>> \in Seq(Event)
    OBVIOUS
  <2> QED
    BY <1>1, <2>1 DEF Stream
<1>4. TypeOK'
  <2>1. {clock, faults, life}' \subseteq Nat
    BY <1>1 DEF Inv, TypeOK
  <2> QED
    BY <1>1, <1>3, <2>1 DEF Inv, TypeOK
<1>5. OnTheWayOK(owner)' /\ ShownOK(owner)'
  BY <1>1, <1>3 DEF Inv, OnTheWayOK, ShownOK, SentOK
<1> QED
  BY <1>2, <1>4, <1>5 DEF Inv

\* Merging what the page accepts.
LEMMA MergedKeeps ==
  ASSUME NEW owner \in Owners, Inv(owner), UNCHANGED <<page, unused>>,
         NEW events \in SUBSET Event,
         \A e \in events : e.channel \notin unused /\ e.of = owner[e.channel],
         \A e \in events : Accepts(page.progress, e),
         shown' = Merged(events)
  PROVE  ShownOK(owner)' /\ shown' \subseteq Event
<1>1. shown' \subseteq shown \cup events /\ shown \subseteq Event
  BY DEF Merged, Inv, TypeOK
<1>2. ASSUME NEW e \in events
      PROVE  /\ page.case = None => e.channel = page.progress
             /\ page.case # None => owner[e.channel] = page.case
  <2>1. e.channel = page.progress /\ e.channel # None
    BY KeysAreNotNone DEF Accepts, Event
  <2> QED
    BY <2>1 DEF Inv, PageOK
<1> QED
  BY <1>1, <1>2 DEF Inv, ShownOK

\* A delivered event is shown if it is of the case.
LEMMA DeliverKeeps ==
  ASSUME NEW owner \in Owners, Inv(owner), Deliver
  PROVE  Inv(owner)'
<1> DEFINE e == Head(stream.wire)
<1>1. /\ stream \in Stream /\ stream.to = page.progress /\ stream.wire # <<>>
      /\ stream.wire \in Seq(Event)
      /\ stream' = [stream EXCEPT !.wire = Tail(@), !.last = e.sequence]
      /\ shown' = IF Accepts(stream.to, e) THEN Merged({e}) ELSE shown
      /\ UNCHANGED <<buffer, handler, saved, page, snapshots, unused, clock, faults, life>>
  BY DEF Inv, TypeOK, Deliver, Stream
<1>2. SavedOK' /\ StartsOK' /\ RunningOK' /\ OwnerOK(owner)'
      /\ HandlersOK(owner)' /\ PageOK(owner)' /\ BufferOK(buffer, unused, owner)'
  BY <1>1, SameRequests
<1>3. /\ e \in Event /\ e = stream.wire[1] /\ 1 \in DOMAIN stream.wire
      /\ Tail(stream.wire) \in Seq(Event)
      /\ \A i \in DOMAIN Tail(stream.wire) :
           i + 1 \in DOMAIN stream.wire /\ Tail(stream.wire)[i] = stream.wire[i + 1]
  BY <1>1
<1>4. SentOK(stream.wire, unused, owner)
  BY DEF Inv, OnTheWayOK
<1>5. SentOK(Tail(stream.wire), unused, owner) /\ e.channel \notin unused /\ e.of = owner[e.channel]
  BY <1>3, <1>4 DEF SentOK
<1> HIDE DEF e
<1>6. e.sequence \in Nat
  BY <1>3 DEF Event
<1>7. stream' \in Stream /\ stream'.to = stream.to /\ stream'.open = stream.open
      /\ stream'.wire = Tail(stream.wire)
  BY <1>1, <1>3, <1>6 DEF Stream
<1>8. ShownOK(owner)' /\ shown' \subseteq Event
  <2>1. CASE Accepts(stream.to, e)
    <3>1. {e} \in SUBSET Event
      BY <1>3
    <3>2. shown' = Merged({e})
      BY <1>1, <2>1
    <3>3. \A f \in {e} : f.channel \notin unused /\ f.of = owner[f.channel]
      BY <1>5
    <3>4. \A f \in {e} : Accepts(page.progress, f)
      BY <1>1, <2>1
    <3> QED
      BY <1>1, <3>1, <3>2, <3>3, <3>4, MergedKeeps
  <2>2. CASE ~Accepts(stream.to, e)
    BY <1>1, <2>2 DEF Inv, TypeOK, ShownOK
  <2> QED
    BY <2>1, <2>2
<1>9. TypeOK'
  BY <1>1, <1>7, <1>8 DEF Inv, TypeOK
<1>10. OnTheWayOK(owner)'
  BY <1>1, <1>5, <1>7 DEF Inv, OnTheWayOK
<1> QED
  BY <1>2, <1>8, <1>9, <1>10 DEF Inv

\* A snapshot has what is kept in the channel of its ID.
LEMMA TakeSnapshotKeeps ==
  ASSUME NEW owner \in Owners, Inv(owner), TakeSnapshot
  PROVE  Inv(owner)'
<1>1. PICK s \in snapshots : snapshots' = (snapshots \ {s}) \cup
         {[id |-> s.id, taken |-> TRUE, events |-> Snapshot(buffer, s.id)]}
  BY DEF TakeSnapshot
<1>2. UNCHANGED <<buffer, handler, saved, page, shown, stream, unused, clock, faults, life>>
  BY DEF TakeSnapshot
<1>3. SavedOK' /\ StartsOK' /\ RunningOK' /\ OwnerOK(owner)'
      /\ HandlersOK(owner)' /\ PageOK(owner)' /\ BufferOK(buffer, unused, owner)'
  BY <1>2, SameRequests
<1>4. s.id \in Key
  BY DEF Inv, TypeOK
<1>5. Snapshot(buffer, s.id) \in Seq(Event) /\ SentOK(Snapshot(buffer, s.id), unused, owner)
  BY <1>4, SnapshotSent DEF Inv
<1>6. TypeOK'
  <2>1. \A x \in snapshots' : x.id \in Key /\ x.taken \in BOOLEAN /\ x.events \in Seq(Event)
    <3> DEFINE r == [id |-> s.id, taken |-> TRUE, events |-> Snapshot(buffer, s.id)]
    <3>1. r.id \in Key /\ r.taken \in BOOLEAN /\ r.events \in Seq(Event)
      BY <1>4, <1>5
    <3>2. snapshots' = (snapshots \ {s}) \cup {r}
      BY <1>1
    <3> HIDE DEF r
    <3> QED
      BY <3>1, <3>2 DEF Inv, TypeOK
  <2> QED
    BY <1>2, <2>1 DEF Inv, TypeOK
<1>7. OnTheWayOK(owner)' /\ ShownOK(owner)'
  BY <1>1, <1>2, <1>5 DEF Inv, OnTheWayOK, ShownOK
<1> QED
  BY <1>3, <1>6, <1>7 DEF Inv

\* What is merged of it was accepted for the case.
LEMMA MergeSnapshotKeeps ==
  ASSUME NEW owner \in Owners, Inv(owner), MergeSnapshot
  PROVE  Inv(owner)'
<1>1. PICK s \in snapshots :
        /\ snapshots' = snapshots \ {s}
        /\ shown' =
             IF page.progress # s.id THEN shown
             ELSE Merged({e \in {s.events[i] : i \in DOMAIN s.events} : Accepts(s.id, e)})
  BY DEF MergeSnapshot
<1>2. UNCHANGED <<buffer, handler, saved, page, stream, unused, clock, faults, life>>
  BY DEF MergeSnapshot
<1>3. SavedOK' /\ StartsOK' /\ RunningOK' /\ OwnerOK(owner)'
      /\ HandlersOK(owner)' /\ PageOK(owner)' /\ BufferOK(buffer, unused, owner)'
  BY <1>2, SameRequests
<1>4. ShownOK(owner)' /\ shown' \subseteq Event
  <2>1. CASE page.progress # s.id
    BY <1>1, <1>2, <2>1 DEF Inv, TypeOK, ShownOK
  <2>2. CASE page.progress = s.id
    <3> DEFINE new == {e \in {s.events[i] : i \in DOMAIN s.events} : Accepts(s.id, e)}
    <3>1. s.events \in Seq(Event) /\ SentOK(s.events, unused, owner)
      BY DEF Inv, TypeOK, OnTheWayOK
    <3>2. new \in SUBSET Event
      BY <3>1
    <3>3. \A e \in new : e.channel \notin unused /\ e.of = owner[e.channel]
      BY <3>1 DEF SentOK
    <3>4. \A e \in new : Accepts(page.progress, e)
      BY <2>2
    <3>5. shown' = Merged(new)
      BY <1>1, <2>2
    <3> HIDE DEF new
    <3> QED
      BY <1>2, <3>2, <3>3, <3>4, <3>5, MergedKeeps
  <2> QED
    BY <2>1, <2>2
<1>5. TypeOK'
  BY <1>1, <1>2, <1>4 DEF Inv, TypeOK
<1>6. OnTheWayOK(owner)'
  BY <1>1, <1>2 DEF Inv, OnTheWayOK
<1> QED
  BY <1>3, <1>4, <1>5, <1>6 DEF Inv

\* A lost snapshot changes nothing that is shown.
LEMMA LoseSnapshotKeeps ==
  ASSUME NEW owner \in Owners, Inv(owner), LoseSnapshot
  PROVE  Inv(owner)'
<1>1. /\ snapshots' \subseteq snapshots /\ faults' = faults + 1
      /\ UNCHANGED <<buffer, handler, saved, page, shown, stream, unused, clock, life>>
  BY DEF LoseSnapshot
<1>2. SavedOK' /\ StartsOK' /\ RunningOK' /\ OwnerOK(owner)'
      /\ HandlersOK(owner)' /\ PageOK(owner)' /\ BufferOK(buffer, unused, owner)'
  BY <1>1, SameRequests
<1>3. TypeOK'
  <2>1. {clock, faults, life}' \subseteq Nat
    BY <1>1 DEF Inv, TypeOK
  <2> QED
    BY <1>1, <2>1 DEF Inv, TypeOK
<1>4. OnTheWayOK(owner)' /\ ShownOK(owner)'
  BY <1>1 DEF Inv, OnTheWayOK, ShownOK
<1> QED
  BY <1>2, <1>3, <1>4 DEF Inv

-----------------------------------------------------------------------------
(* The page *)

\* What is known of the page and of its IDs.
LEMMA PageFacts ==
  ASSUME NEW owner \in Owners, Inv(owner)
  PROVE  /\ page \in Page /\ stream \in Stream /\ stream.to = page.progress
         /\ handler \in [Asker -> HandlerState] /\ shown \subseteq Event
         /\ unused \subseteq Key /\ saved \subseteq Case
         /\ {clock, faults, life} \subseteq Nat
         /\ "page" \in Asker /\ "others" \in Asker
         /\ \A x \in Asker : x # "page" <=> x = "others"
         /\ None \notin Key /\ None \notin unused /\ Case \subseteq Key
         /\ page.progress \notin unused /\ page.case \notin unused /\ page.stored \notin unused
         /\ page.case # None => owner[page.case] = page.case /\ page.case \in Case
         /\ page.stored # None => owner[page.stored] = page.stored /\ page.stored \in Case
         /\ page.action # "request" => handler["page"].step = "none"
BY KeysAreNotNone DEF Inv, TypeOK, Page, Asker, PageOK, OwnerOK

\* A new stream carries nothing yet.
LEMMA ConnectingType ==
  ASSUME NEW id \in Key \cup {None}
  PROVE  /\ Connecting(id) \in Stream /\ Connecting(id).to = id
         /\ Connecting(id).wire = <<>> /\ ~Connecting(id).open
<1>1. <<>> \in Seq(Event)
  OBVIOUS
<1> QED
  BY <1>1 DEF Connecting, Stream

\* The requests that a step of the page leaves alone.
LEMMA OthersKeep ==
  ASSUME NEW owner \in Owners, Inv(owner), UNCHANGED <<buffer, saved, unused>>,
         handler'["others"] = handler["others"],
         Busy("others") /\ handler["others"].kind = "start" =>
           /\ handler["others"].case \notin {page'.case, page'.stored, page'.progress}
           /\ handler'["page"].step # "none" =>
                handler'["page"].case # handler["others"].case,
         handler'["page"].step \notin {"sent", "running"}
  PROVE  StartsOK' /\ RunningOK' /\ HandlersOK(owner)' /\ SavedOK'
         /\ OwnerOK(owner)' /\ BufferOK(buffer, unused, owner)'
<1>1. "others" \in Asker /\ \A x \in Asker : x # "page" <=> x = "others"
  BY PageFacts
<1>2. \A x \in Asker : handler'[x].step \in {"sent", "running"} => x = "others"
  BY <1>1
<1>3. StartsOK'
  <2> SUFFICES ASSUME Busy("others"), handler["others"].kind = "start"
               PROVE  /\ handler["others"].case \notin
                           saved \cup {page'.case, page'.stored, page'.progress}
                      /\ \A b \in Asker \ {"others"} :
                           handler'[b].step # "none" => handler'[b].case # handler["others"].case
                      /\ handler["others"].step = "sent" => buffer.at[handler["others"].case] = None
    BY <1>1, <1>2 DEF StartsOK, Busy
  <2> QED
    BY <1>1, StartFacts
<1>4. RunningOK' /\ HandlersOK(owner)'
  BY <1>1, <1>2 DEF Inv, RunningOK, HandlersOK, Busy
<1>5. SavedOK' /\ OwnerOK(owner)' /\ BufferOK(buffer, unused, owner)'
  BY DEF Inv, SavedOK
<1> QED
  BY <1>3, <1>4, <1>5

\* A reset follows nothing any more.
LEMMA ResetKeeps ==
  ASSUME NEW owner \in Owners, Inv(owner), Reset
  PROVE  Inv(owner)'
<1>1. /\ page.action = "none" /\ page.case # None
      /\ page' = [page EXCEPT !.progress = None, !.action = "reset"]
      /\ stream' = Connecting(None)
      /\ UNCHANGED <<buffer, handler, saved, shown, snapshots, unused, clock, faults, life>>
  BY DEF Reset, Closed
<1>2. /\ page' \in Page /\ page'.progress = None /\ page'.action = "reset"
      /\ page'.case = page.case /\ page'.stored = page.stored
  BY <1>1, PageFacts DEF Page
<1>3. handler["page"].step = "none"
  BY <1>1, PageFacts
<1>4. stream' \in Stream /\ stream'.to = None /\ stream'.wire = <<>> /\ ~stream'.open
  BY <1>1, ConnectingType
<1>5. StartsOK' /\ RunningOK' /\ HandlersOK(owner)' /\ SavedOK'
      /\ OwnerOK(owner)' /\ BufferOK(buffer, unused, owner)'
  <2>1. "others" \in Asker
    BY PageFacts
  <2>2. Busy("others") /\ handler["others"].kind = "start" =>
          handler["others"].case \notin {page'.case, page'.stored, page'.progress}
    BY <1>2, <2>1, StartFacts, BusyFacts
  <2> QED
    BY <1>1, <1>3, <2>2, OthersKeep
<1>6. TypeOK'
  BY <1>1, <1>2, <1>4 DEF Inv, TypeOK
<1>7. PageOK(owner)'
  BY <1>1, <1>2, <1>3, PageFacts DEF PageOK
<1>8. OnTheWayOK(owner)' /\ ShownOK(owner)'
  BY <1>1, <1>2, <1>4 DEF Inv, OnTheWayOK, ShownOK, SentOK
<1> QED
  BY <1>5, <1>6, <1>7, <1>8 DEF Inv

\* The ID that the page goes on with is one of its case.
LEMMA EnsuredFacts ==
  ASSUME NEW owner \in Owners, Inv(owner)
  PROVE  LET id == EnsuredProgress(page.case)
             s == EnsuredStream(page.case)
         IN  /\ id \in (Key \cup {None}) \ unused
             /\ page.progress # None => id = page.progress
             /\ page.case # None => id # None /\ owner[id] = page.case
             /\ id \in {page.progress, page.case}
             /\ s \in Stream /\ s.to = id /\ (s.open => s.to # None)
             /\ SentOK(s.wire, unused, owner)
<1>1. CASE page.progress # None
  BY <1>1, PageFacts DEF EnsuredProgress, EnsuredStream, Inv, PageOK, OnTheWayOK, Page
<1>2. CASE page.progress = None
  <2>1. page.case \in (Key \cup {None}) \ unused
    BY PageFacts DEF Page
  <2>2. EnsuredProgress(page.case) = page.case /\ EnsuredStream(page.case) = Connecting(page.case)
    BY <1>2 DEF EnsuredProgress, EnsuredStream
  <2>3. SentOK(<<>>, unused, owner)
    BY DEF SentOK
  <2> QED
    BY <1>2, <2>1, <2>2, <2>3, ConnectingType, PageFacts
<1> QED
  BY <1>1, <1>2

\* It shows nothing, or the old case under its own ID again.
LEMMA ResetAnsweredKeeps ==
  ASSUME NEW owner \in Owners, Inv(owner), ResetAnswered
  PROVE  Inv(owner)'
<1>1. /\ page.action = "reset"
      /\ UNCHANGED <<buffer, handler, saved, snapshots, unused, clock, faults, life>>
  BY DEF ResetAnswered
<1>2. handler["page"].step = "none" /\ page \in Page
  BY <1>1, PageFacts
<1>3. \/ /\ page' = [page EXCEPT !.case = None, !.stored = None, !.action = "none"]
         /\ shown' = {} /\ stream' = stream
      \/ /\ page' = [page EXCEPT !.progress = EnsuredProgress(page.case), !.action = "none"]
         /\ stream' = EnsuredStream(page.case) /\ shown' = shown
  BY DEF ResetAnswered
<1>4. /\ page' \in Page
      /\ page'.progress \in {page.progress, EnsuredProgress(page.case)}
      /\ page'.case \in {page.case, None} /\ page'.stored \in {page.stored, None}
  BY <1>2, <1>3, EnsuredFacts DEF Page
<1>5. StartsOK' /\ RunningOK' /\ HandlersOK(owner)' /\ SavedOK'
      /\ OwnerOK(owner)' /\ BufferOK(buffer, unused, owner)'
  <2>1. "others" \in Asker
    BY PageFacts
  <2>2. {page'.case, page'.stored, page'.progress} \subseteq
          {page.case, page.stored, page.progress, None}
    BY <1>4, EnsuredFacts
  <2>3. Busy("others") /\ handler["others"].kind = "start" =>
          handler["others"].case \notin {page'.case, page'.stored, page'.progress}
    BY <2>1, <2>2, StartFacts, BusyFacts
  <2> QED
    BY <1>1, <1>2, <2>3, OthersKeep
<1>6. /\ stream' \in Stream /\ stream'.to = page'.progress
      /\ stream'.open => stream'.to # None
      /\ SentOK(stream'.wire, unused, owner)
  <2>1. CASE stream' = stream /\ page'.progress = page.progress
    BY <2>1, PageFacts DEF Inv, OnTheWayOK
  <2>2. CASE stream' = EnsuredStream(page.case) /\ page'.progress = EnsuredProgress(page.case)
    BY <2>2, EnsuredFacts
  <2> QED
    BY <1>2, <1>3, <2>1, <2>2 DEF Page
<1>7. shown' = {} \/ (shown' = shown /\ page'.case = page.case
                      /\ page'.progress = EnsuredProgress(page.case))
  BY <1>2, <1>3 DEF Page
<1>8. TypeOK'
  BY <1>1, <1>4, <1>6, <1>7 DEF Inv, TypeOK
<1>9. PageOK(owner)'
  <2>1. page'.case # None /\ page'.progress # None => owner[page'.progress] = page'.case
    BY <1>4, EnsuredFacts DEF Inv, PageOK
  <2> QED
    BY <1>1, <1>2, <1>4, <2>1, EnsuredFacts, PageFacts DEF PageOK
<1>10. OnTheWayOK(owner)'
  BY <1>1, <1>6 DEF Inv, OnTheWayOK
<1>11. ShownOK(owner)'
  <2>1. CASE shown' = {}
    BY <2>1 DEF ShownOK
  <2>2. CASE shown' = shown /\ page'.case = page.case
             /\ page'.progress = EnsuredProgress(page.case)
    <3>1. \A e \in shown : e.channel # None
      BY PageFacts DEF Event
    <3> QED
      BY <1>1, <2>2, <3>1, EnsuredFacts DEF Inv, ShownOK
  <2> QED
    BY <1>7, <2>1, <2>2
<1> QED
  BY <1>5, <1>8, <1>9, <1>10, <1>11 DEF Inv

\* A change follows the case it changes.
LEMMA ChangeRecoveryKeeps ==
  ASSUME NEW owner \in Owners, Inv(owner), ChangeRecovery
  PROVE  Inv(owner)'
<1> DEFINE id == EnsuredProgress(page.case)
           h == [kind |-> "change", id |-> id, case |-> page.case, step |-> "sent"]
<1>1. /\ page.action = "none" /\ page.case # None
      /\ page' = [page EXCEPT !.progress = id, !.action = "request"]
      /\ stream' = EnsuredStream(page.case)
      /\ handler' = [handler EXCEPT !["page"] = h]
      /\ UNCHANGED <<buffer, saved, shown, snapshots, unused, clock, faults, life>>
  BY DEF ChangeRecovery, Request
<1>2. /\ id \in Key \ unused /\ owner[id] = page.case /\ id # None
      /\ id \in {page.progress, page.case}
      /\ stream' \in Stream /\ stream'.to = id /\ (stream'.open => stream'.to # None)
      /\ SentOK(stream'.wire, unused, owner)
  BY <1>1, EnsuredFacts
<1> HIDE DEF id
<1>3. /\ page' \in Page /\ page'.progress = id /\ page'.action = "request"
      /\ page'.case = page.case /\ page'.stored = page.stored
  BY <1>1, <1>2, PageFacts DEF Page
<1>4. /\ page.case \in Case \ unused /\ page.case \in Key
      /\ handler["page"].step = "none"
  BY <1>1, PageFacts
<1>5. /\ h \in HandlerState /\ h.kind = "change" /\ h.id = id /\ h.case = page.case
      /\ h.step = "sent"
  BY <1>2, <1>4 DEF HandlerState
<1> HIDE DEF h
<1>6. /\ handler' \in [Asker -> HandlerState] /\ handler'["page"] = h
      /\ handler'["others"] = handler["others"]
      /\ \A x \in Asker : x # "page" <=> x = "others"
      /\ "page" \in Asker /\ "others" \in Asker
  BY <1>1, <1>5, PageFacts
<1>7. TypeOK'
  BY <1>1, <1>2, <1>3, <1>6 DEF Inv, TypeOK
<1>8. StartsOK'
  <2> SUFFICES ASSUME Busy("others"), handler["others"].kind = "start"
               PROVE  /\ handler["others"].case \notin
                           saved \cup {page'.case, page'.stored, page'.progress}
                      /\ handler'["page"].case # handler["others"].case
                      /\ handler["others"].step = "sent" => buffer.at[handler["others"].case] = None
    BY <1>1, <1>5, <1>6 DEF StartsOK, Busy
  <2> QED
    BY <1>2, <1>3, <1>5, <1>6, StartFacts
<1>9. RunningOK' /\ HandlersOK(owner)'
  BY <1>1, <1>2, <1>4, <1>5, <1>6 DEF Inv, RunningOK, HandlersOK, Busy
<1>10. SavedOK' /\ OwnerOK(owner)' /\ BufferOK(buffer, unused, owner)'
  BY <1>1 DEF Inv, SavedOK
<1>11. PageOK(owner)'
  BY <1>1, <1>2, <1>3, <1>4, <1>5, <1>6, PageFacts DEF PageOK
<1>12. OnTheWayOK(owner)' /\ ShownOK(owner)'
  BY <1>1, <1>2, <1>3 DEF Inv, OnTheWayOK, ShownOK
<1> QED
  BY <1>7, <1>8, <1>9, <1>10, <1>11, <1>12 DEF Inv

\* A start makes up an ID, which belongs to the case that the start will open.
LEMMA StartRecoveryKeeps ==
  ASSUME NEW owner \in Owners, Inv(owner), StartRecovery
  PROVE  IInv'
<1>1. PICK id \in unused \cap Progress, c \in unused \cap Case :
        /\ page' = [page EXCEPT !.progress = id, !.action = "request"]
        /\ stream' = IF id = stream.to THEN stream ELSE Connecting(id)
        /\ shown' = IF id = stream.to THEN shown ELSE {}
        /\ handler' = [handler EXCEPT !["page"] =
             [kind |-> "start", id |-> id, case |-> c, step |-> "sent"]]
        /\ unused' = unused \ {id, c}
  <2> DEFINE new == CHOOSE k \in unused \cap Progress : TRUE
             c == CHOOSE k \in unused \cap Case : TRUE
  <2>1. new \in unused \cap Progress /\ c \in unused \cap Case
    BY DEF StartRecovery
  <2>2. /\ page' = [page EXCEPT !.progress = new, !.action = "request"]
        /\ stream' = IF new = stream.to THEN stream ELSE Connecting(new)
        /\ shown' = IF new = stream.to THEN shown ELSE {}
        /\ Request("start", new, c)
        /\ unused' = unused \ {new, c}
    BY DEF StartRecovery, ReplacedProgress
  <2> HIDE DEF new, c
  <2> QED
    BY <2>1, <2>2 DEF Request
<1>2. /\ page.action = "none" /\ page.case = None
      /\ UNCHANGED <<buffer, saved, snapshots, clock, faults, life>>
  BY DEF StartRecovery
<1> DEFINE o == [owner EXCEPT ![id] = c]
           h == [kind |-> "start", id |-> id, case |-> c, step |-> "sent"]
<1>3. /\ id \in Key /\ c \in Key /\ id \notin Case /\ c # id /\ id # None /\ c # None
      /\ id # page.progress /\ handler["page"].step = "none"
  BY <1>1, <1>2, PageFacts, KeysAreNotNone DEF Key
<1>4. /\ o \in Owners /\ o[id] = c
      /\ \A k \in Key : k \notin unused => o[k] = owner[k] /\ k \notin unused'
      /\ \A k \in Case : o[k] = owner[k]
      /\ unused' \subseteq unused /\ id \notin unused' /\ c \notin unused'
  BY <1>1, <1>3 DEF Owners
<1> HIDE DEF o
<1>5. /\ page' \in Page /\ page'.progress = id /\ page'.action = "request"
      /\ page'.case = None /\ page'.stored = page.stored
  BY <1>1, <1>2, <1>3, PageFacts DEF Page
<1>6. /\ stream' \in Stream /\ stream'.to = id /\ ~stream'.open /\ stream'.wire = <<>>
      /\ shown' = {}
  BY <1>1, <1>3, ConnectingType, PageFacts
<1>7. /\ h \in HandlerState /\ h.kind = "start" /\ h.id = id /\ h.case = c /\ h.step = "sent"
      /\ handler' = [handler EXCEPT !["page"] = h]
  BY <1>1, <1>3 DEF HandlerState
<1> HIDE DEF h
<1>8. /\ handler' \in [Asker -> HandlerState] /\ handler'["page"] = h
      /\ handler'["others"] = handler["others"]
      /\ \A x \in Asker : x # "page" <=> x = "others"
      /\ "page" \in Asker /\ "others" \in Asker
      /\ handler["others"].step \in {"none", "sent", "running"}
  BY <1>7, PageFacts DEF Inv, HandlersOK, HandlerState
<1>9. TypeOK'
  BY <1>2, <1>4, <1>5, <1>6, <1>8 DEF Inv, TypeOK
<1>10. StartsOK'
  <2>1. handler["others"].step # "none" =>
          handler["others"].case \in Case \ unused /\ handler["others"].case # c
    <3>1. handler["others"].step # "none" => Busy("others")
      BY <1>8 DEF Busy
    <3> QED
      BY <1>1, <1>8, <3>1, BusyFacts
  <2>2. /\ c \notin saved \cup {page'.case, page'.stored, page'.progress}
        /\ buffer.at[c] = None
    <3>1. c \notin saved
      BY <1>1 DEF Inv, SavedOK
    <3>2. buffer.at[c] = None
      BY <1>1, <1>3 DEF Inv, BufferOK, LeadsOK
    <3>3. c # page.stored
      BY <1>1, PageFacts
    <3> QED
      BY <1>3, <1>5, <3>1, <3>2, <3>3
  <2>3. Busy("others") /\ handler["others"].kind = "start" =>
          /\ handler["others"].case \notin saved \cup {page'.case, page'.stored, page'.progress}
          /\ handler["others"].step = "sent" => buffer.at[handler["others"].case] = None
    BY <1>3, <1>5, <1>8, <2>1, StartFacts, BusyFacts
  <2> QED
    BY <1>2, <1>7, <1>8, <2>1, <2>2, <2>3 DEF StartsOK, Busy
<1>11. RunningOK'
  BY <1>2, <1>7, <1>8 DEF Inv, RunningOK
<1>12. HandlersOK(o)'
  <2>1. Busy("others") =>
          /\ handler["others"].kind \in {"start", "change"}
          /\ handler["others"].id \in Key \ unused'
          /\ handler["others"].case \in Case \ unused'
          /\ o[handler["others"].id] = handler["others"].case
          /\ handler["others"].kind = "start" => handler["others"].id \in Progress
    BY <1>4, <1>8, BusyFacts
  <2> QED
    BY <1>1, <1>3, <1>4, <1>7, <1>8, <2>1 DEF HandlersOK, Busy
<1>13. SavedOK' /\ OwnerOK(o)'
  BY <1>2, <1>4 DEF Inv, SavedOK, OwnerOK
<1>14. PageOK(o)'
  <2>1. page.stored \notin unused'
    BY <1>4, PageFacts
  <2>2. None \notin unused'
    BY <1>4, PageFacts
  <2> QED
    BY <1>1, <1>3, <1>4, <1>5, <1>7, <1>8, <2>1, <2>2 DEF PageOK
<1>15. BufferOK(buffer', unused', o)
  <2>1. buffer \in Buffer /\ LeadsOK(buffer, unused, owner) /\ FiledOK(buffer, owner)
        /\ \A k \in Key : IsWindow(buffer, k)
    BY DEF Inv, BufferOK
  <2>2. LeadsOK(buffer, unused', o)
    <3> SUFFICES ASSUME NEW k \in Key
                 PROVE  /\ buffer.at[k] # None => k \notin unused' /\ o[buffer.at[k]] = o[k]
                        /\ buffer.at[k] \notin unused'
      BY DEF LeadsOK
    <3>1. /\ buffer.at[k] # None => k \notin unused /\ owner[buffer.at[k]] = owner[k]
          /\ buffer.at[k] \notin unused /\ buffer.at[k] \in Key \cup {None}
      BY <2>1, BufferFields DEF LeadsOK
    <3> QED
      BY <1>4, <3>1
  <2>3. FiledOK(buffer, o)
    <3> SUFFICES ASSUME NEW k \in Key, NEW i \in DOMAIN buffer.events[k]
                 PROVE  buffer.events[k][i].of = o[k] /\ buffer.at[buffer.events[k][i].of] = k
      BY DEF FiledOK
    <3>1. buffer.events[k][i].of = owner[k] /\ buffer.at[buffer.events[k][i].of] = k
      BY <2>1 DEF FiledOK
    <3>2. buffer.events[k][i].of \in Key
      <4>1. buffer.events[k] \in Seq(Event)
        BY <2>1, BufferFields
      <4>2. buffer.events[k][i] \in Event
        BY <4>1
      <4> QED
        BY <4>2, KeysAreNotNone DEF Event
    <3>3. k \notin unused
      BY <2>1, <3>1, <3>2 DEF LeadsOK
    <3> QED
      BY <1>4, <3>1, <3>3
  <2> QED
    BY <1>2, <2>1, <2>2, <2>3 DEF BufferOK
<1>16. OnTheWayOK(o)'
  <2> SUFFICES ASSUME NEW s \in snapshots, NEW i \in DOMAIN s.events
               PROVE  s.events[i].channel \notin unused' /\ s.events[i].of = o[s.events[i].channel]
    BY <1>2, <1>6 DEF OnTheWayOK, SentOK
  <2>1. s.events \in Seq(Event) /\ SentOK(s.events, unused, owner)
    BY DEF Inv, TypeOK, OnTheWayOK
  <2>2. s.events[i].channel \in Key
    <3>1. s.events[i] \in Event
      BY <2>1
    <3> QED
      BY <3>1 DEF Event
  <2> QED
    BY <1>4, <2>1, <2>2 DEF SentOK
<1>17. ShownOK(o)'
  BY <1>6 DEF ShownOK
<1>18. Inv(o)'
  BY <1>9, <1>10, <1>11, <1>12, <1>13, <1>14, <1>15, <1>16, <1>17 DEF Inv
<1> QED
  BY <1>4, <1>18 DEF IInv, Owners

\* The snapshot that is asked for when an action is over.
LEMMA FinalizedFacts ==
  ASSUME NEW owner \in Owners, Inv(owner), NEW p \in Page, Finalized(p),
         UNCHANGED <<stream, unused>>
  PROVE  /\ page' = [p EXCEPT !.action = "none"]
         /\ page' \in Page /\ page'.action = "none" /\ page'.progress = p.progress
         /\ page'.case = p.case /\ page'.stored = p.stored
         /\ \A s \in snapshots' : s.id \in Key /\ s.taken \in BOOLEAN /\ s.events \in Seq(Event)
         /\ OnTheWayOK(owner)'
<1>1. page' = [p EXCEPT !.action = "none"]
  BY DEF Finalized
<1> DEFINE r == [id |-> p.progress, taken |-> FALSE, events |-> <<>>]
<1>2. snapshots' \in {snapshots, snapshots \cup {r}} /\ (p.progress = None => snapshots' = snapshots)
  BY DEF Finalized
<1>3. /\ r.id = p.progress /\ r.taken \in BOOLEAN /\ r.events \in Seq(Event)
      /\ SentOK(r.events, unused, owner)
  BY DEF SentOK
<1>4. p.progress # None => p.progress \in Key
  BY DEF Page
<1> HIDE DEF r
<1>5. \A s \in snapshots' : s.id \in Key /\ s.taken \in BOOLEAN /\ s.events \in Seq(Event)
  BY <1>2, <1>3, <1>4 DEF Inv, TypeOK
<1>6. OnTheWayOK(owner)'
  BY <1>2, <1>3 DEF Inv, OnTheWayOK
<1>7. page' \in Page /\ page'.action = "none" /\ page'.progress = p.progress
      /\ page'.case = p.case /\ page'.stored = p.stored
  BY <1>1 DEF Page
<1> QED
  BY <1>1, <1>5, <1>6, <1>7

\* A refresh asks for a snapshot under the same ID.
LEMMA RefreshKeeps ==
  ASSUME NEW owner \in Owners, Inv(owner), Refresh
  PROVE  Inv(owner)'
<1>1. /\ page.action = "none" /\ Finalized(page)
      /\ UNCHANGED <<buffer, handler, saved, shown, stream, unused, clock, faults, life>>
  BY DEF Refresh
<1>2. /\ page' \in Page /\ page'.action = "none" /\ page'.progress = page.progress
      /\ page'.case = page.case /\ page'.stored = page.stored
      /\ \A s \in snapshots' : s.id \in Key /\ s.taken \in BOOLEAN /\ s.events \in Seq(Event)
      /\ OnTheWayOK(owner)'
  BY <1>1, PageFacts, FinalizedFacts
<1>3. handler["page"].step = "none"
  BY <1>1, PageFacts
<1>4. StartsOK' /\ RunningOK' /\ HandlersOK(owner)' /\ SavedOK'
      /\ OwnerOK(owner)' /\ BufferOK(buffer, unused, owner)'
  <2>1. "others" \in Asker
    BY PageFacts
  <2>2. Busy("others") /\ handler["others"].kind = "start" =>
          handler["others"].case \notin {page'.case, page'.stored, page'.progress}
    BY <1>2, <2>1, StartFacts
  <2> QED
    BY <1>1, <1>3, <2>2, OthersKeep
<1>5. TypeOK'
  BY <1>1, <1>2 DEF Inv, TypeOK
<1>6. PageOK(owner)' /\ ShownOK(owner)'
  BY <1>1, <1>2, <1>3 DEF Inv, PageOK, ShownOK
<1> QED
  BY <1>2, <1>4, <1>5, <1>6 DEF Inv

\* A page that waits for nothing has no request.
LEMMA NoHandlerType == NoHandler \in HandlerState /\ NoHandler.step = "none"
BY DEF NoHandler, HandlerState

\* The answer shows the case whose progress was followed.
LEMMA AnswerKeeps ==
  ASSUME NEW owner \in Owners, Inv(owner), Answer
  PROVE  Inv(owner)'
<1> DEFINE h == handler["page"]
           p == IF h.step = "ok" THEN [page EXCEPT !.case = h.case, !.stored = h.case] ELSE page
<1>1. /\ page.action = "request" /\ h.step \in {"ok", "failed"} /\ Finalized(p)
      /\ handler' = [handler EXCEPT !["page"] = NoHandler]
      /\ UNCHANGED <<buffer, saved, shown, stream, unused, clock, faults, life>>
  BY DEF Answer
<1>2. /\ h.case \in Case \ unused /\ h.case \in Key /\ h.case # None
      /\ page.progress # None => owner[page.progress] = h.case
      /\ page.case # None => page.case = h.case
      /\ owner[h.case] = h.case
  BY <1>1, PageFacts DEF Inv, PageOK, OwnerOK
<1>3. /\ p \in Page /\ p.progress = page.progress
      /\ p.case \in {page.case, h.case} /\ p.stored \in {page.stored, h.case}
  BY <1>2, PageFacts DEF Page
<1> HIDE DEF p
<1>4. /\ page' \in Page /\ page'.action = "none" /\ page'.progress = page.progress
      /\ page'.case \in {page.case, h.case} /\ page'.stored \in {page.stored, h.case}
      /\ \A s \in snapshots' : s.id \in Key /\ s.taken \in BOOLEAN /\ s.events \in Seq(Event)
      /\ OnTheWayOK(owner)'
  BY <1>1, <1>3, FinalizedFacts
<1>5. /\ handler' \in [Asker -> HandlerState] /\ handler'["page"].step = "none"
      /\ handler'["others"] = handler["others"]
  BY <1>1, NoHandlerType, PageFacts
<1>6. StartsOK' /\ RunningOK' /\ HandlersOK(owner)' /\ SavedOK'
      /\ OwnerOK(owner)' /\ BufferOK(buffer, unused, owner)'
  <2>1. "others" \in Asker /\ "page" \in Asker /\ "page" # "others" /\ h.step # "none"
    BY <1>1, PageFacts
  <2>2. Busy("others") /\ handler["others"].kind = "start" =>
          handler["others"].case \notin {page'.case, page'.stored, page'.progress}
    BY <1>4, <2>1, StartFacts
  <2> QED
    BY <1>1, <1>5, <2>2, OthersKeep
<1>7. TypeOK'
  BY <1>1, <1>4, <1>5 DEF Inv, TypeOK
<1>8. PageOK(owner)'
  BY <1>1, <1>2, <1>4, <1>5, PageFacts DEF PageOK
<1>9. ShownOK(owner)'
  <2> SUFFICES ASSUME NEW e \in shown
               PROVE  /\ page'.case = None => e.channel = page.progress
                      /\ page'.case # None => owner[e.channel] = page'.case
    BY <1>1, <1>4 DEF Inv, ShownOK
  <2>1. /\ page.case = None => e.channel = page.progress
        /\ page.case # None => owner[e.channel] = page.case
        /\ e.channel # None
    BY PageFacts DEF Inv, ShownOK, Event
  <2> QED
    BY <1>2, <1>4, <2>1
<1> QED
  BY <1>4, <1>6, <1>7, <1>8, <1>9 DEF Inv

\* A request that the page gives up is one of somebody else.
LEMMA HandedOver ==
  ASSUME NEW owner \in Owners, Inv(owner), UNCHANGED <<buffer, saved, unused>>,
         Busy("page"), handler["others"].step = "none",
         handler'["others"] = handler["page"],
         handler'["page"].step \notin {"sent", "running"},
         {page'.case, page'.stored, page'.progress} \subseteq
           {page.case, page.stored, page.progress, None},
         handler'["page"].step # "none" => handler'["page"].case = page.stored
  PROVE  StartsOK' /\ RunningOK' /\ HandlersOK(owner)' /\ SavedOK'
         /\ OwnerOK(owner)' /\ BufferOK(buffer, unused, owner)'
<1>1. "others" \in Asker /\ "page" \in Asker /\ \A x \in Asker : x # "page" <=> x = "others"
  BY PageFacts
<1>2. \A x \in Asker : handler'[x].step \in {"sent", "running"} => x = "others"
  BY <1>1
<1>3. StartsOK'
  <2> SUFFICES ASSUME handler["page"].kind = "start"
               PROVE  /\ handler["page"].case \notin
                           saved \cup {page'.case, page'.stored, page'.progress}
                      /\ handler'["page"].step # "none" =>
                           handler'["page"].case # handler["page"].case
                      /\ handler["page"].step = "sent" => buffer.at[handler["page"].case] = None
    BY <1>1, <1>2 DEF StartsOK, Busy
  <2> QED
    BY <1>1, StartFacts, BusyFacts
<1>4. RunningOK' /\ HandlersOK(owner)'
  BY <1>1, <1>2 DEF Inv, RunningOK, HandlersOK, Busy
<1>5. SavedOK' /\ OwnerOK(owner)' /\ BufferOK(buffer, unused, owner)'
  BY DEF Inv, SavedOK
<1> QED
  BY <1>3, <1>4, <1>5

\* A request that is given up becomes somebody else's.
LEMMA GiveUpKeeps ==
  ASSUME NEW owner \in Owners, Inv(owner), GiveUp
  PROVE  Inv(owner)'
<1>1. /\ Busy("page") /\ handler["others"].step = "none" /\ Finalized(page)
      /\ faults' = faults + 1
      /\ handler' = [page |-> NoHandler, others |-> handler["page"]]
      /\ UNCHANGED <<buffer, saved, shown, stream, unused, clock, life>>
  BY DEF GiveUp, Busy
<1>2. /\ page' \in Page /\ page'.action = "none" /\ page'.progress = page.progress
      /\ page'.case = page.case /\ page'.stored = page.stored
      /\ \A s \in snapshots' : s.id \in Key /\ s.taken \in BOOLEAN /\ s.events \in Seq(Event)
      /\ OnTheWayOK(owner)'
  BY <1>1, PageFacts, FinalizedFacts
<1>3. /\ handler' \in [Asker -> HandlerState] /\ handler'["page"].step = "none"
      /\ handler'["others"] = handler["page"]
  <2>1. handler'["page"] = NoHandler /\ handler'["others"] = handler["page"]
    BY <1>1
  <2>2. handler' \in [Asker -> HandlerState]
    BY <1>1, NoHandlerType, PageFacts DEF Asker
  <2> QED
    BY <2>1, <2>2, NoHandlerType
<1>4. StartsOK' /\ RunningOK' /\ HandlersOK(owner)' /\ SavedOK'
      /\ OwnerOK(owner)' /\ BufferOK(buffer, unused, owner)'
  <2>1. {page'.case, page'.stored, page'.progress} \subseteq
          {page.case, page.stored, page.progress, None}
    BY <1>2
  <2> QED
    BY <1>1, <1>3, <2>1, HandedOver
<1>5. TypeOK'
  <2>1. {clock, faults, life}' \subseteq Nat
    BY <1>1 DEF Inv, TypeOK
  <2> QED
    BY <1>1, <1>2, <1>3, <2>1 DEF Inv, TypeOK
<1>6. PageOK(owner)' /\ ShownOK(owner)'
  BY <1>1, <1>2, <1>3 DEF Inv, PageOK, ShownOK
<1> QED
  BY <1>2, <1>4, <1>5, <1>6 DEF Inv

\* A reloaded page follows the case it remembers.
LEMMA ReloadKeeps ==
  ASSUME NEW owner \in Owners, Inv(owner), Reload
  PROVE  Inv(owner)'
<1>1. /\ faults' = faults + 1 /\ shown' = {} /\ snapshots' = {}
      /\ page' = [page EXCEPT !.progress = page.stored, !.case = None,
                   !.action = IF page.stored = None THEN "none" ELSE "request"]
      /\ stream' = Connecting(page.stored)
      /\ UNCHANGED <<buffer, saved, unused, clock, life>>
  BY DEF Reload
<1>2. PICK h \in IF page.stored = None THEN {NoHandler}
                 ELSE {ReadOf(page.stored, step) : step \in {"ok", "failed"}} :
        IF handler["page"].step \in {"sent", "running"}
          THEN /\ handler["others"].step = "none"
               /\ handler' = [page |-> h, others |-> handler["page"]]
          ELSE handler' = [handler EXCEPT !["page"] = h]
  BY DEF Reload
<1>3. /\ h \in HandlerState /\ h.step \notin {"sent", "running"}
      /\ h.step # "none" => page.stored # None /\ h.case = page.stored
  <2>1. CASE page.stored = None
    BY <1>2, <2>1, NoHandlerType
  <2>2. CASE page.stored # None
    BY <1>2, <2>2, PageFacts DEF ReadOf, HandlerState
  <2> QED
    BY <2>1, <2>2
<1>4. /\ page' \in Page /\ page'.progress = page.stored /\ page'.case = None
      /\ page'.stored = page.stored
      /\ page.stored # None => page'.action = "request"
  BY <1>1, PageFacts DEF Page
<1>5. /\ stream' \in Stream /\ stream'.to = page.stored
      /\ stream'.wire = <<>> /\ ~stream'.open
  BY <1>1, ConnectingType, PageFacts DEF Page
<1>6. /\ handler' \in [Asker -> HandlerState] /\ handler'["page"] = h
      /\ StartsOK' /\ RunningOK' /\ HandlersOK(owner)' /\ SavedOK'
      /\ OwnerOK(owner)' /\ BufferOK(buffer, unused, owner)'
  <2>1. {page'.case, page'.stored, page'.progress} \subseteq
          {page.case, page.stored, page.progress, None}
    BY <1>4
  <2>2. CASE Busy("page")
    <3>1. handler["others"].step = "none" /\ handler' = [page |-> h, others |-> handler["page"]]
      BY <1>2, <2>2 DEF Busy
    <3>2. handler' \in [Asker -> HandlerState] /\ handler'["page"] = h
          /\ handler'["others"] = handler["page"]
      BY <1>3, <3>1, PageFacts DEF Asker
    <3> QED
      BY <1>1, <1>3, <2>1, <2>2, <3>1, <3>2, HandedOver
  <2>3. CASE ~Busy("page")
    <3>1. handler' = [handler EXCEPT !["page"] = h]
      BY <1>2, <2>3 DEF Busy
    <3>2. handler' \in [Asker -> HandlerState] /\ handler'["page"] = h
          /\ handler'["others"] = handler["others"]
      BY <1>3, <3>1, PageFacts
    <3>3. Busy("others") /\ handler["others"].kind = "start" =>
            /\ handler["others"].case \notin {page'.case, page'.stored, page'.progress}
            /\ handler'["page"].step # "none" =>
                 handler'["page"].case # handler["others"].case
      BY <1>3, <2>1, <3>2, StartFacts, BusyFacts, PageFacts
    <3> QED
      BY <1>1, <1>3, <3>2, <3>3, OthersKeep
  <2> QED
    BY <2>2, <2>3
<1>7. TypeOK'
  <2>1. {clock, faults, life}' \subseteq Nat
    BY <1>1 DEF Inv, TypeOK
  <2> QED
    BY <1>1, <1>4, <1>5, <1>6, <2>1 DEF Inv, TypeOK
<1>8. PageOK(owner)'
  BY <1>1, <1>3, <1>4, <1>6, PageFacts DEF PageOK
<1>9. OnTheWayOK(owner)' /\ ShownOK(owner)'
  BY <1>1, <1>5 DEF OnTheWayOK, ShownOK, SentOK
<1> QED
  BY <1>6, <1>7, <1>8, <1>9 DEF Inv

-----------------------------------------------------------------------------
(* Copies of events *)

Held(s) == {s[i] : i \in DOMAIN s}

\* The events that are anywhere.
Known ==
  {e \in Event : \/ e \in shown
                 \/ e \in Held(stream.wire)
                 \/ \E s \in snapshots : e \in Held(s.events)
                 \/ \E k \in Key : e \in Held(buffer.events[k])}

\* In one life of the backend an id names one event, and the next number of a
\* channel is not taken.
CopiesOK ==
  /\ \A e, f \in Known : SameId(e, f) /\ e.life = f.life => e = f
  /\ \A e \in Known : e.life <= life /\ (e.life = life => e.sequence < buffer.next[e.channel])

\* Steps other than logging and restarts pass events on, and make none.
NoneMade == Known' \subseteq Known /\ life' = life /\ buffer'.next = buffer.next

\* Where no event is new and no number is given out, none was made.
LEMMA SameEverywhere ==
  ASSUME shown' \cap Event \subseteq Known, Held(stream'.wire) \cap Event \subseteq Known,
         \A s \in snapshots' : Held(s.events) \cap Event \subseteq Known,
         life' = life, buffer'.events = buffer.events, buffer'.next = buffer.next
  PROVE  NoneMade
BY DEF NoneMade, Known

\* Entering a channel makes no event,
LEMMA StartMakesNone ==
  ASSUME NEW owner \in Owners, Inv(owner), NEW id \in Key, NEW c \in Case \cup {None}
  PROVE  /\ Started(buffer, id, c).events = buffer.events
         /\ Started(buffer, id, c).next = buffer.next
BY StartedEffect DEF Inv, TypeOK

\* Nothing but logging and restarts changes what is kept.
LEMMA BackendKeepsEvents ==
  ASSUME NEW owner \in Owners, Inv(owner),
         \/ \E a \in Asker : Handle(a) \/ Finish(a)
         \/ OthersSend
         \/ Connect
  PROVE  buffer'.events = buffer.events /\ buffer'.next = buffer.next
<1>1. ASSUME NEW a \in Asker, Handle(a)
      PROVE  buffer'.events = buffer.events /\ buffer'.next = buffer.next
  <2> DEFINE c == IF handler[a].kind = "start" THEN None ELSE handler[a].case
  <2>1. buffer' = Started(buffer, handler[a].id, c) /\ Busy(a)
    BY <1>1 DEF Handle, Busy
  <2>2. handler[a].id \in Key /\ c \in Case \cup {None}
    BY <2>1, BusyFacts
  <2> HIDE DEF c
  <2> QED
    BY <2>1, <2>2, StartMakesNone
<1>2. ASSUME NEW a \in Asker, Finish(a)
      PROVE  buffer'.events = buffer.events /\ buffer'.next = buffer.next
  <2>1. Busy(a) /\ buffer' \in {buffer, Started(buffer, handler[a].id, handler[a].case)}
    BY <1>2 DEF Finish, Busy
  <2>2. handler[a].id \in Key /\ handler[a].case \in Case \cup {None}
    BY <2>1, BusyFacts
  <2> QED
    BY <2>1, <2>2, StartMakesNone
<1>3. CASE Connect
  <2>1. buffer' = Started(buffer, stream.to, None) /\ stream.to \in Key
    BY <1>3, PageFacts DEF Connect, Stream
  <2> QED
    BY <2>1, StartMakesNone
<1>4. CASE OthersSend
  BY <1>4 DEF OthersSend
<1> QED
  BY <1>1, <1>2, <1>3, <1>4

\* nor does anything in the backend but logging,
LEMMA BackendMakesNone ==
  ASSUME NEW owner \in Owners, Inv(owner),
         \/ \E a \in Asker : Handle(a) \/ Finish(a)
         \/ OthersSend
         \/ Connect
  PROVE  NoneMade
<1>1. buffer'.events = buffer.events /\ buffer'.next = buffer.next
  BY BackendKeepsEvents
<1>2. stream'.wire = stream.wire /\ UNCHANGED <<shown, snapshots, life>>
  BY PageFacts DEF Handle, Finish, OthersSend, Connect, Stream
<1> QED
  BY <1>1, <1>2, SameEverywhere DEF Known

\* What a reader gets is kept in the buffer.
LEMMA SnapshotKnown ==
  ASSUME NEW owner \in Owners, Inv(owner), NEW id \in Key
  PROVE  /\ Held(Snapshot(buffer, id)) \cap Event \subseteq Known
         /\ \A n \in Nat : Held(After(buffer, id, n)) \cap Event \subseteq Known
<1>1. buffer \in Buffer
  BY DEF Inv, TypeOK
<1>2. Held(Snapshot(buffer, id)) \cap Event \subseteq Known
  <2>1. \A e \in Held(Snapshot(buffer, id)) : \E k \in Key : e \in Held(buffer.events[k])
    BY <1>1, SnapshotType DEF Held
  <2> QED
    BY <2>1 DEF Known
<1>3. ASSUME NEW n \in Nat PROVE Held(After(buffer, id, n)) \cap Event \subseteq Known
  BY <1>1, <1>2, AfterType DEF Held
<1> QED
  BY <1>2, <1>3

\* the stream only moves events,
LEMMA StreamMakesNone ==
  ASSUME NEW owner \in Owners, Inv(owner), Poll \/ Break \/ Deliver
  PROVE  NoneMade
<1>1. stream \in Stream /\ stream.wire \in Seq(Event)
  BY PageFacts DEF Stream
<1>2. UNCHANGED <<buffer, snapshots, life>>
  BY DEF Poll, Break, Deliver
<1>3. CASE Poll
  <2> DEFINE fresh == After(buffer, stream.to, stream.cursor)
  <2>1. stream.to \in Key /\ stream.cursor \in Nat
    BY <1>1, <1>3 DEF Inv, OnTheWayOK, Poll, Stream
  <2>2. Held(fresh) \cap Event \subseteq Known /\ fresh \in Seq(Event)
    <3>1. buffer \in Buffer
      BY DEF Inv, TypeOK
    <3> QED
      BY <2>1, <3>1, SnapshotKnown, AfterType
  <2>3. stream'.wire = stream.wire \o fresh /\ shown' = shown
    BY <1>1, <1>3 DEF Poll, Stream
  <2> HIDE DEF fresh
  <2>4. Held(stream.wire \o fresh) \subseteq Held(stream.wire) \cup Held(fresh)
    <3>1. \A i \in DOMAIN (stream.wire \o fresh) :
            \/ i \in DOMAIN stream.wire /\ (stream.wire \o fresh)[i] = stream.wire[i]
            \/ /\ i - Len(stream.wire) \in DOMAIN fresh
               /\ (stream.wire \o fresh)[i] = fresh[i - Len(stream.wire)]
      BY <1>1, <2>2
    <3> QED
      BY <3>1 DEF Held
  <2> QED
    BY <1>2, <2>2, <2>3, <2>4, SameEverywhere DEF Known
<1>4. CASE Break
  <2>1. stream'.wire = <<>> /\ shown' = shown
    BY <1>1, <1>4 DEF Break, Stream
  <2>2. Held(stream'.wire) = {}
    BY <2>1 DEF Held
  <2> QED
    BY <1>2, <2>1, <2>2, SameEverywhere DEF Known
<1>5. CASE Deliver
  <2> DEFINE e == Head(stream.wire)
  <2>1. stream'.wire = Tail(stream.wire) /\ stream.wire # <<>>
        /\ shown' \in {shown, Merged({e})}
    BY <1>1, <1>5 DEF Deliver, Stream
  <2>2. e \in Held(stream.wire) /\ Held(Tail(stream.wire)) \subseteq Held(stream.wire)
    <3>1. /\ e = stream.wire[1] /\ 1 \in DOMAIN stream.wire
          /\ \A i \in DOMAIN Tail(stream.wire) :
               i + 1 \in DOMAIN stream.wire /\ Tail(stream.wire)[i] = stream.wire[i + 1]
      BY <1>1, <2>1
    <3> QED
      BY <3>1 DEF Held
  <2> HIDE DEF e
  <2>3. shown' \cap Event \subseteq Known /\ Held(stream'.wire) \cap Event \subseteq Known
    BY <2>1, <2>2 DEF Merged, Known
  <2> QED
    BY <1>2, <2>3, SameEverywhere DEF Known
<1> QED
  BY <1>3, <1>4, <1>5

\* a request for a snapshot has none yet,
LEMMA FinalizedMakesNone ==
  ASSUME NEW p, Finalized(p)
  PROVE  \A s \in snapshots' : Held(s.events) \cap Event \subseteq Known
<1> DEFINE r == [id |-> p.progress, taken |-> FALSE, events |-> <<>>]
<1>1. snapshots' \subseteq snapshots \cup {r}
  BY DEF Finalized
<1>2. Held(r.events) = {}
  BY DEF Held
<1> HIDE DEF r
<1> QED
  BY <1>1, <1>2 DEF Known

\* and the page merges what it got.
LEMMA PageMakesNone ==
  ASSUME NEW owner \in Owners, Inv(owner), PageStep
  PROVE  NoneMade
<1>1. UNCHANGED <<buffer, life>>
  BY DEF PageStep, Deliver, TakeSnapshot, MergeSnapshot, LoseSnapshot, StartRecovery,
         ChangeRecovery, Refresh, Answer, GiveUp, Reset, ResetAnswered, Reload
<1>2. CASE Deliver
  BY <1>2, StreamMakesNone
<1>3. CASE TakeSnapshot
  <2>1. PICK s \in snapshots : snapshots' = (snapshots \ {s}) \cup
           {[id |-> s.id, taken |-> TRUE, events |-> Snapshot(buffer, s.id)]}
    BY <1>3 DEF TakeSnapshot
  <2> DEFINE r == [id |-> s.id, taken |-> TRUE, events |-> Snapshot(buffer, s.id)]
  <2>2. Held(r.events) \cap Event \subseteq Known
    BY SnapshotKnown DEF Inv, TypeOK
  <2>3. snapshots' \subseteq snapshots \cup {r}
    BY <2>1
  <2> HIDE DEF r
  <2>4. \A x \in snapshots' : Held(x.events) \cap Event \subseteq Known
    BY <2>2, <2>3 DEF Known
  <2>5. UNCHANGED <<shown, stream>>
    BY <1>3 DEF TakeSnapshot
  <2> QED
    BY <1>1, <2>4, <2>5, SameEverywhere DEF Known
<1>4. CASE MergeSnapshot
  <2>1. PICK s \in snapshots :
          /\ snapshots' = snapshots \ {s}
          /\ shown' =
               IF page.progress # s.id THEN shown
               ELSE Merged({e \in {s.events[i] : i \in DOMAIN s.events} : Accepts(s.id, e)})
    BY <1>4 DEF MergeSnapshot
  <2>2. shown' \subseteq shown \cup Held(s.events)
    BY <2>1 DEF Merged, Held
  <2>3. UNCHANGED stream
    BY <1>4 DEF MergeSnapshot
  <2>4. shown' \cap Event \subseteq Known
    BY <2>2 DEF Known
  <2> QED
    BY <1>1, <2>1, <2>3, <2>4, SameEverywhere DEF Known
<1>5. CASE LoseSnapshot
  <2>1. snapshots' \subseteq snapshots /\ UNCHANGED <<shown, stream>>
    BY <1>5 DEF LoseSnapshot
  <2> QED
    BY <1>1, <2>1, SameEverywhere DEF Known
<1>6. CASE Refresh \/ Answer \/ GiveUp
  <2>1. UNCHANGED <<shown, stream>> /\ \E p : Finalized(p)
    BY <1>6 DEF Refresh, Answer, GiveUp
  <2>2. \A s \in snapshots' : Held(s.events) \cap Event \subseteq Known
    BY <2>1, FinalizedMakesNone
  <2> QED
    BY <1>1, <2>1, <2>2, SameEverywhere DEF Known
<1>7. CASE StartRecovery \/ ChangeRecovery \/ Reset \/ ResetAnswered \/ Reload
  <2>1. snapshots' \in {snapshots, {}} /\ shown' \in {shown, {}}
    BY <1>7 DEF StartRecovery, ChangeRecovery, Reset, ResetAnswered, Reload
  <2>2. stream' = stream \/ \E id : stream' = Connecting(id)
    BY <1>7 DEF StartRecovery, ChangeRecovery, Reset, ResetAnswered, Reload, Closed,
                EnsuredStream
  <2>3. \A id : Held(Connecting(id).wire) = {}
    BY DEF Connecting, Held
  <2> QED
    BY <1>1, <2>1, <2>2, <2>3, SameEverywhere DEF Known
<1> QED
  BY <1>2, <1>3, <1>4, <1>5, <1>6, <1>7 DEF PageStep

\* What was logged.
LEMMA LogAppends ==
  ASSUME NEW owner \in Owners, Inv(owner), NEW a \in Asker, Log(a)
  PROVE  \E c \in Case \cup {None} :
           /\ c # None => c = handler[a].case /\ buffer.at[c] \in {None, buffer.at[handler[a].id]}
           /\ handler[a].id \in Key /\ buffer.at[handler[a].id] # None
           /\ AppendsTo(buffer, buffer', buffer.at[handler[a].id], c, handler[a].case,
                        clock + 1, life)
<1> DEFINE h == handler[a]
<1>1. PICK c \in {h.case, None} :
        /\ c = None => buffer.at[h.case] # None
        /\ buffer' = Appended(buffer, h.id, c, h.case, clock + 1, life)
  BY DEF Log
<1>2. Busy(a) /\ h.step = "running"
  BY DEF Log, Busy
<1>3. /\ buffer \in Buffer /\ h.id \in Key /\ h.case \in Case /\ c \in Case \cup {None}
      /\ buffer.at[h.id] # None /\ (c # None => buffer.at[c] \in {None, buffer.at[h.id]})
      /\ clock + 1 \in Nat /\ life \in Nat
  BY <1>1, <1>2, BusyFacts DEF Inv, TypeOK, RunningOK
<1>4. AppendsTo(buffer, buffer', buffer.at[h.id], c, h.case, clock + 1, life)
  <2> HIDE DEF h
  <2>1. AppendsTo(buffer, Appended(buffer, h.id, c, h.case, clock + 1, life),
                  buffer.at[h.id], c, h.case, clock + 1, life)
    BY <1>3, AppendedEffect
  <2> QED
    BY <1>1, <2>1
<1> QED
  BY <1>1, <1>3, <1>4

\* What logging makes: event e, the next of channel k.
Enters(k, e) ==
  /\ e.channel = k /\ e.sequence = buffer.next[k]
  /\ e.stamp = clock + 1 /\ e.life = life
  /\ Held(buffer'.events[k]) \subseteq Held(buffer.events[k]) \cup {e}
  /\ buffer'.next[k] = buffer.next[k] + 1
  /\ \A l \in Key : l # k => buffer'.events[l] = buffer.events[l] /\ buffer'.next[l] = buffer.next[l]
  /\ UNCHANGED <<handler, saved, page, shown, stream, snapshots, unused, life>>
  /\ clock' = clock + 1

\* Logging makes one event.
LEMMA LogEnters ==
  ASSUME NEW owner \in Owners, Inv(owner), NEW a \in Asker, Log(a)
  PROVE  \E k \in Key, e \in Event : Enters(k, e)
<1> DEFINE k == buffer.at[handler[a].id]
<1>1. PICK c \in Case \cup {None} :
        AppendsTo(buffer, buffer', k, c, handler[a].case, clock + 1, life)
  BY LogAppends
<1> HIDE DEF k
<1>2. PICK e \in Event :
        /\ e.channel = k /\ e.sequence = buffer.next[k]
        /\ e.stamp = clock + 1 /\ e.life = life
        /\ buffer'.events[k] = Entered(buffer, k, e)
        /\ buffer'.next[k] = buffer.next[k] + 1
        /\ \A l \in Key : l # k =>
             buffer'.events[l] = buffer.events[l] /\ buffer'.next[l] = buffer.next[l]
        /\ k \in Key
  BY <1>1 DEF AppendsTo
<1>3. Held(Entered(buffer, k, e)) \subseteq Held(buffer.events[k]) \cup {e}
  <2> DEFINE old == buffer.events[k]
             new == Append(old, e)
  <2>1. old \in Seq(Event)
    BY <1>2, BufferFields DEF Inv, TypeOK
  <2> HIDE DEF old
  <2>2. /\ new \in Seq(Event) /\ Len(new) = Len(old) + 1
        /\ \A j \in 1 .. Len(old) : new[j] = old[j]
        /\ new[Len(old) + 1] = e
    BY <2>1, AppendFacts
  <2> HIDE DEF new
  <2>3. DOMAIN new = 1 .. Len(old) + 1 /\ DOMAIN old = 1 .. Len(old) /\ Len(old) \in Nat
    BY <2>1, <2>2
  <2>4. \A j \in DOMAIN new : new[j] \in Held(old) \cup {e}
    BY <2>2, <2>3 DEF Held
  <2>5. Entered(buffer, k, e) = LastOf(new)
    BY DEF Entered, new, old
  <2>6. \A i \in DOMAIN LastOf(new) : \E j \in DOMAIN new : LastOf(new)[i] = new[j]
    BY <2>2, LastOfKeeps
  <2> QED
    BY <2>4, <2>5, <2>6 DEF Held, old
<1>4. UNCHANGED <<handler, saved, page, shown, stream, snapshots, unused, life>>
      /\ clock' = clock + 1
  BY DEF Log
<1> QED
  BY <1>2, <1>3, <1>4 DEF Enters

\* Steps other than logging and a restart pass events on.
LEMMA OthersMakeNone ==
  ASSUME NEW owner \in Owners, Inv(owner), [Next]_vars, ~Restart, ~ \E a \in Asker : Log(a)
  PROVE  NoneMade /\ clock' = clock
<1>1. CASE UNCHANGED vars
  BY <1>1 DEF NoneMade, vars, Known
<1>2. CASE BackendStep
  BY <1>2, BackendMakesNone DEF BackendStep, Handle, Finish, OthersSend
<1>3. CASE StreamStep
  BY <1>3, BackendMakesNone, StreamMakesNone DEF StreamStep, Connect, Poll, Break
<1>4. CASE PageStep
  BY <1>4, PageMakesNone DEF PageStep, Deliver, TakeSnapshot, MergeSnapshot, LoseSnapshot,
     StartRecovery, ChangeRecovery, Refresh, Answer, GiveUp, Reset, ResetAnswered, Reload
<1> QED
  BY <1>1, <1>2, <1>3, <1>4 DEF Next

\* A restart makes none.
LEMMA RestartMakesNone ==
  ASSUME NEW owner \in Owners, Inv(owner), Restart
  PROVE  Known' \subseteq Known /\ clock' = clock
<1>1. /\ buffer' = Empty /\ UNCHANGED <<shown, snapshots>> /\ clock' = clock
      /\ stream' = [stream EXCEPT !.open = FALSE, !.cursor = 0, !.wire = <<>>]
      /\ stream \in Stream
  BY DEF Restart, Inv, TypeOK
<1>2. \A k \in Key : Held(buffer'.events[k]) = {}
  BY <1>1 DEF Empty, Held
<1>3. Held(stream'.wire) = {}
  BY <1>1 DEF Stream, Held
<1> QED
  BY <1>1, <1>2, <1>3 DEF Known

\* That an id names one event is kept by every step.
LEMMA CopiesInductive ==
  ASSUME IInv, CopiesOK, [Next]_vars
  PROVE  CopiesOK'
<1>1. PICK owner \in Owners : Inv(owner)
  BY DEF IInv
<1>2. Known \subseteq Event
  BY DEF Known
<1>3. CASE NoneMade
  BY <1>3 DEF CopiesOK, NoneMade
<1>4. ASSUME NEW a \in Asker, Log(a) PROVE CopiesOK'
  <2>1. PICK channel \in Key, e \in Event : Enters(channel, e)
    BY <1>1, <1>4, LogEnters
  <2>2. UNCHANGED <<shown, stream, snapshots, life>> /\ life \in Nat /\ buffer \in Buffer
    BY <1>1, <2>1 DEF Enters, Inv, TypeOK
  <2>3. /\ e.channel = channel /\ e.sequence = buffer.next[channel] /\ e.life = life
        /\ buffer'.next[channel] = buffer.next[channel] + 1
        /\ \A k \in Key : k # channel =>
             buffer'.events[k] = buffer.events[k] /\ buffer'.next[k] = buffer.next[k]
    BY <2>1 DEF Enters
  <2>4. Known' \subseteq Known \cup {e}
    <3>1. \A k \in Key : Held(buffer'.events[k]) \subseteq Held(buffer.events[k]) \cup {e}
      BY <2>1 DEF Enters
    <3> QED
      BY <2>2, <3>1 DEF Known
  <2>5. \A f \in Known : f.channel \in Key /\ f.sequence \in Nat /\ f.life \in Nat
    BY <1>2 DEF Event
  <2>6. \A k \in Key : buffer.next[k] \in Nat /\ buffer'.next[k] \in Nat
                       /\ buffer.next[k] <= buffer'.next[k]
    BY <2>2, <2>3, BufferFields
  <2>7. \A f \in Known : ~(SameId(e, f) /\ e.life = f.life)
    BY <2>3, <2>5, <2>6 DEF CopiesOK, SameId
  <2>8. \A f, g \in Known' : SameId(f, g) /\ f.life = g.life => f = g
    BY <2>4, <2>7 DEF CopiesOK, SameId
  <2>9. \A f \in Known' : f.life <= life /\ (f.life = life => f.sequence < buffer'.next[f.channel])
    <3> TAKE f \in Known'
    <3>1. CASE f = e
      BY <2>2, <2>3, <2>6, <3>1
    <3>2. CASE f \in Known
      BY <2>5, <2>6, <3>2 DEF CopiesOK
    <3> QED
      BY <2>4, <3>1, <3>2
  <2> QED
    BY <2>2, <2>8, <2>9 DEF CopiesOK
<1>5. CASE Restart
  <2>1. Known' \subseteq Known /\ life' = life + 1 /\ life \in Nat
    BY <1>1, <1>5, RestartMakesNone DEF Restart, Inv, TypeOK
  <2>2. \A f \in Known : f.life \in Nat /\ f.life <= life
    BY <1>2 DEF CopiesOK, Event
  <2>3. \A f \in Known' : f.life <= life' /\ f.life # life'
    BY <2>1, <2>2
  <2> QED
    BY <2>1, <2>3 DEF CopiesOK
<1>6. CASE ~Restart /\ ~ \E a \in Asker : Log(a)
  BY <1>1, <1>3, <1>6, OthersMakeNone
<1> QED
  BY <1>4, <1>5, <1>6

\* The step property of ShownStays.
Stays ==
  \A e \in shown :
    \/ e \in shown'
    \/ shown' = {}
    \/ \E f \in shown' : SameId(e, f) /\ f.life # e.life

\* No step takes away what is shown.
LEMMA ShownStep ==
  ASSUME IInv, CopiesOK, [Next]_vars
  PROVE  Stays
<1>1. \/ shown' \in {shown, {}}
      \/ \E events \in SUBSET Known : shown' = Merged(events)
  <2>1. CASE UNCHANGED vars
    BY <2>1 DEF vars
  <2>2. CASE BackendStep
    BY <2>2 DEF BackendStep, Handle, Log, Finish, OthersSend, Restart
  <2>3. CASE StreamStep
    BY <2>3 DEF StreamStep, Connect, Poll, Break
  <2>4. CASE Deliver
    <3>1. stream.wire \in Seq(Event) /\ stream.wire # <<>>
      BY <2>4 DEF Deliver, IInv, Inv, TypeOK, Stream
    <3>2. Head(stream.wire) \in Held(stream.wire)
      BY <3>1 DEF Held
    <3>3. {Head(stream.wire)} \in SUBSET Known
      BY <3>1, <3>2 DEF Known
    <3>4. shown' \in {shown, Merged({Head(stream.wire)})}
      BY <2>4 DEF Deliver
    <3> QED
      BY <3>3, <3>4
  <2>5. CASE MergeSnapshot
    <3>1. PICK s \in snapshots :
            shown' =
              IF page.progress # s.id THEN shown
              ELSE Merged({e \in {s.events[i] : i \in DOMAIN s.events} : Accepts(s.id, e)})
      BY <2>5 DEF MergeSnapshot
    <3> DEFINE events == {e \in {s.events[i] : i \in DOMAIN s.events} : Accepts(s.id, e)}
    <3>2. events \subseteq Held(s.events)
      BY DEF Held
    <3>3. shown' \in {shown, Merged(events)}
      BY <3>1
    <3> HIDE DEF events
    <3>4. events \in SUBSET Known
      <4>1. s.events \in Seq(Event)
        BY DEF IInv, Inv, TypeOK
      <4>2. Held(s.events) \subseteq Event
        BY <4>1 DEF Held
      <4> QED
        BY <3>2, <4>2 DEF Known
    <3> QED
      BY <3>3, <3>4
  <2>6. CASE PageStep /\ ~Deliver /\ ~MergeSnapshot
    BY <2>6 DEF PageStep, TakeSnapshot, LoseSnapshot, StartRecovery, ChangeRecovery,
                Refresh, Answer, GiveUp, Reset, ResetAnswered, Reload
  <2> QED
    BY <2>1, <2>2, <2>3, <2>4, <2>5, <2>6 DEF Next
<1>2. CASE shown' \in {shown, {}}
  BY <1>2 DEF Stays
<1>3. ASSUME NEW events \in SUBSET Known, shown' = Merged(events)
      PROVE  Stays
  <2> SUFFICES ASSUME NEW e \in shown, e \notin shown'
               PROVE  \E f \in shown' : SameId(e, f) /\ f.life # e.life
    BY DEF Stays
  <2>1. PICK f \in events : SameId(e, f)
    BY <1>3 DEF Merged
  <2>2. f \in shown' /\ f \in Known /\ e \in Known
    BY <1>3, <2>1 DEF Merged, Known, IInv, Inv, TypeOK
  <2>3. f # e
    BY <2>2
  <2> QED
    BY <2>1, <2>2, <2>3 DEF CopiesOK
<1> QED
  BY <1>1, <1>2, <1>3

-----------------------------------------------------------------------------
(* No hole in what is shown *)

\* The page and the requests only know cases that were saved, but for the case of
\* a start; the page's request is sent under the progress it follows, and while a
\* reset is answered the page follows none.
PersistOK ==
  /\ page.case \in saved \cup {None} /\ page.stored \in saved \cup {None}
  /\ page.progress \in Case => page.progress \in saved
  /\ \A a \in Asker :
       /\ Busy(a) /\ handler[a].kind = "change" => handler[a].case \in saved
       /\ handler[a].step = "ok" => handler[a].case \in saved
  /\ Busy("page") => handler["page"].id = page.progress
  /\ page.action = "reset" => page.progress = None

\* Every channel is named by a progress ID, and a progress ID leads to its own.
IdsOK(b) ==
  /\ \A k \in Key : b.at[k] \in Progress \cup {None}
  /\ \A p \in Progress : b.at[p] \in {None, p}

\* What is sent or followed for a saved case under another ID leads to the channel
\* of the case.
Agrees(b) ==
  /\ \A a \in Asker : Busy(a) /\ handler[a].kind = "change" =>
       b.at[handler[a].id] = b.at[handler[a].case]
  /\ page.progress # None /\ page.case # None => b.at[page.progress] = b.at[page.case]
  /\ handler["page"].step = "ok" /\ page.progress # None =>
       b.at[page.progress] = b.at[handler["page"].case]

\* Until the backend restarts a saved case has a channel, a channel a progress ID.
AtOK(b) ==
  /\ IdsOK(b)
  /\ \A c \in saved : b.at[c] # None
  /\ Agrees(b)

\* That the page and the requests know saved cases is kept by every step.
LEMMA PersistInductive ==
  ASSUME IInv, PersistOK, [Next]_vars
  PROVE  PersistOK'
<1>1. PICK owner \in Owners : Inv(owner)
  BY DEF IInv
<1>2. /\ handler \in [Asker -> HandlerState] /\ page \in Page /\ saved \subseteq Case
      /\ "page" \in Asker /\ "others" \in Asker /\ Asker = {"page", "others"}
      /\ NoHandler.step = "none"
      /\ None \notin Case
  BY <1>1, KeysAreNotNone DEF Inv, TypeOK, Asker, NoHandler
<1>3. handler["page"].step # "none" => page.action = "request"
  BY <1>1 DEF Inv, PageOK
<1>4. ASSUME NEW a \in Asker, Handle(a) PROVE PersistOK'
  <2>1. /\ handler' = [handler EXCEPT ![a].step = "running"] /\ UNCHANGED <<saved, page>>
        /\ handler[a].step = "sent"
    BY <1>4 DEF Handle
  <2>2. \A x \in Asker : /\ handler'[x].kind = handler[x].kind /\ handler'[x].id = handler[x].id
                         /\ handler'[x].case = handler[x].case /\ (Busy(x)' <=> Busy(x))
                         /\ (handler'[x].step = "ok" => handler[x].step = "ok")
    BY <1>2, <2>1 DEF HandlerState, Busy
  <2> QED
    BY <1>2, <2>1, <2>2 DEF PersistOK
<1>5. ASSUME NEW a \in Asker, Log(a) PROVE PersistOK'
  BY <1>5 DEF Log, PersistOK, Busy
<1>6. ASSUME NEW a \in Asker, Finish(a) PROVE PersistOK'
  <2>1. PICK step \in {"ok", "failed"} : Done(a, step) /\ (step = "ok" => handler[a].case \in saved')
    BY <1>6 DEF Finish
  <2>2. saved \subseteq saved' /\ page' = page /\ Busy(a)
    BY <1>6 DEF Finish, Busy
  <2>3. \A x \in Asker : /\ x # a => handler'[x] = handler[x]
                         /\ ~ Busy(a)'
                         /\ handler'[a].step = "ok" => handler'[a].case \in saved'
    BY <1>2, <2>1 DEF Done, HandlerState, Busy, NoHandler
  <2> QED
    BY <1>2, <2>2, <2>3 DEF PersistOK, Busy
<1>7. CASE OthersSend
  <2>1. PICK c \in saved : handler' = [handler EXCEPT !["others"] =
           [kind |-> "change", id |-> c, case |-> c, step |-> "sent"]]
    BY <1>7 DEF OthersSend
  <2>2. handler'["page"] = handler["page"] /\ handler'["others"].case = c
        /\ handler'["others"].step = "sent"
    BY <1>2, <2>1
  <2> QED
    BY <1>2, <1>7, <2>2 DEF OthersSend, PersistOK, Busy
<1>8. CASE Restart
  <2>1. /\ handler'["others"].step = "none"
        /\ handler'["page"].case = handler["page"].case
        /\ handler'["page"].step = IF Busy("page") THEN "failed" ELSE handler["page"].step
        /\ UNCHANGED <<saved, page>>
    BY <1>2, <1>8 DEF Restart, Busy, HandlerState
  <2> QED
    BY <1>2, <2>1 DEF PersistOK, Busy
<1>9. CASE StreamStep \/ Deliver \/ TakeSnapshot \/ MergeSnapshot \/ LoseSnapshot \/ UNCHANGED vars
  <2>1. UNCHANGED <<handler, saved, page>>
    BY <1>9 DEF StreamStep, Connect, Poll, Break, Deliver, TakeSnapshot, MergeSnapshot,
                LoseSnapshot, vars
  <2> QED
    BY <2>1 DEF PersistOK, Busy
<1>10. CASE StartRecovery
  <2>1. PICK k \in Progress, c \in Case :
          /\ page' = [page EXCEPT !.progress = k, !.action = "request"]
          /\ Request("start", k, c) /\ saved' = saved
    BY <1>10 DEF StartRecovery, ReplacedProgress
  <2>2. /\ page'.progress = k /\ page'.case = page.case /\ page'.stored = page.stored
        /\ page'.action = "request"
        /\ handler'["page"].kind = "start" /\ handler'["page"].id = k
        /\ handler'["page"].step = "sent" /\ handler'["others"] = handler["others"]
    BY <1>2, <2>1 DEF Request, Page
  <2> QED
    BY <1>2, <2>1, <2>2, KeysAreNotNone DEF PersistOK, Busy
<1>11. CASE ChangeRecovery
  <2> DEFINE k == EnsuredProgress(page.case)
  <2>1. /\ page' = [page EXCEPT !.progress = k, !.action = "request"]
        /\ Request("change", k, page.case) /\ saved' = saved /\ page.case # None
    BY <1>11 DEF ChangeRecovery
  <2>2. k \in {page.progress, page.case}
    BY DEF EnsuredProgress
  <2> HIDE DEF k
  <2>3. /\ page'.progress = k /\ page'.case = page.case /\ page'.stored = page.stored
        /\ page'.action = "request"
        /\ handler'["page"].case = page.case /\ handler'["page"].id = k
        /\ handler'["page"].step = "sent" /\ handler'["others"] = handler["others"]
    BY <1>2, <2>1 DEF Request, Page
  <2> QED
    BY <1>2, <2>1, <2>2, <2>3 DEF PersistOK, Busy
<1>12. CASE Refresh
  <2>1. /\ page'.progress = page.progress /\ page'.case = page.case
        /\ page'.stored = page.stored /\ page'.action = "none" /\ UNCHANGED <<handler, saved>>
    BY <1>2, <1>12 DEF Refresh, Finalized, Page
  <2> QED
    BY <2>1 DEF PersistOK, Busy
<1>13. CASE Answer
  <2>1. /\ page'.progress = page.progress /\ page'.action = "none"
        /\ page'.case \in {page.case} \cup {c \in {handler["page"].case} : handler["page"].step = "ok"}
        /\ page'.stored \in {page.stored} \cup {c \in {handler["page"].case} : handler["page"].step = "ok"}
        /\ handler'["page"].step = "none" /\ handler'["others"] = handler["others"]
        /\ saved' = saved
    BY <1>2, <1>13 DEF Answer, Finalized, Page
  <2> QED
    BY <1>2, <2>1 DEF PersistOK, Busy
<1>14. CASE GiveUp
  <2>1. /\ page'.progress = page.progress /\ page'.case = page.case
        /\ page'.stored = page.stored /\ page'.action = "none" /\ saved' = saved
        /\ handler'["page"].step = "none" /\ handler'["others"] = handler["page"]
        /\ Busy("page")
    BY <1>2, <1>14 DEF GiveUp, Finalized, Page, Busy
  <2> QED
    BY <1>2, <2>1 DEF PersistOK, Busy
<1>15. CASE Reset
  <2>1. /\ page'.progress = None /\ page'.case = page.case /\ page'.stored = page.stored
        /\ UNCHANGED <<handler, saved>> /\ page.action = "none"
    BY <1>2, <1>15 DEF Reset, Page
  <2> QED
    BY <1>2, <1>3, <2>1 DEF PersistOK, Busy
<1>16. CASE ResetAnswered
  <2>1. /\ page'.progress \in {page.progress, page.case}
        /\ page'.case \in {page.case, None} /\ page'.stored \in {page.stored, None}
        /\ page'.action = "none" /\ UNCHANGED <<handler, saved>> /\ page.action = "reset"
    BY <1>2, <1>16 DEF ResetAnswered, Page, EnsuredProgress
  <2> QED
    BY <1>2, <1>3, <2>1 DEF PersistOK, Busy
<1>17. CASE Reload
  <2>1. /\ page'.progress = page.stored /\ page'.case = None /\ page'.stored = page.stored
        /\ page'.action \in {"none", "request"} /\ saved' = saved
    BY <1>2, <1>17 DEF Reload, Page
  <2>2. PICK h : /\ \/ h = NoHandler
                    \/ \E step \in {"ok", "failed"} :
                         page.stored # None /\ h = ReadOf(page.stored, step)
                 /\ IF Busy("page") THEN handler' = [page |-> h, others |-> handler["page"]]
                    ELSE handler' = [handler EXCEPT !["page"] = h]
    BY <1>17 DEF Reload, Busy
  <2>3. h.step \in {"none", "ok", "failed"} /\ (h.step = "ok" => h.case = page.stored)
        /\ (h.step = "ok" => page.stored # None)
    BY <2>2 DEF NoHandler, ReadOf
  <2>4. handler'["page"] = h /\ handler'["others"] \in {handler["others"], handler["page"]}
    BY <1>2, <2>2
  <2> QED
    BY <1>2, <2>1, <2>3, <2>4 DEF PersistOK, Busy
<1> QED
  BY <1>4, <1>5, <1>6, <1>7, <1>8, <1>9, <1>10, <1>11, <1>12, <1>13, <1>14, <1>15, <1>16, <1>17
  DEF Next, BackendStep, PageStep

\* What a buffer leads to, the next one does.
Stay(b, d) == \A k \in Key : b.at[k] # None => d.at[k] = b.at[k]

\* Entering a channel keeps what every ID leads to, when the ID and the case it is
\* entered for do not lead to two.
LEMMA StartedStays ==
  ASSUME NEW b \in Buffer, IdsOK(b), NEW id \in Key, NEW c \in Case \cup {None},
         b.at[id] # None \/ (c = None /\ id \in Progress),
         c # None => b.at[c] \in {None, b.at[id]}
  PROVE  /\ Stay(b, Started(b, id, c)) /\ IdsOK(Started(b, id, c))
         /\ c # None => Started(b, id, c).at[c] # None
<1> DEFINE d == Started(b, id, c)
           channel == IF c # None /\ b.at[c] # None THEN b.at[c] ELSE ChannelAt(b, id)
<1>1. /\ d.at[id] = channel
      /\ c # None => d.at[c] = channel
      /\ \A k \in Key : k # id /\ k # c => d.at[k] = b.at[k]
  BY StartedEffect
<1>2. channel = IF b.at[id] # None THEN b.at[id] ELSE id
  <2>1. CASE c # None /\ b.at[c] # None
    <3>1. b.at[c] = b.at[id]
      BY <2>1
    <3> QED
      BY <2>1, <3>1
  <2>2. CASE ~ (c # None /\ b.at[c] # None)
    BY <2>2 DEF ChannelAt
  <2> QED
    BY <2>1, <2>2
<1> HIDE DEF channel, d
<1>3. None \notin Key /\ Progress \cap Case = {} /\ Progress \subseteq Key
  BY KeysAreNotNone DEF Key
<1>4. channel \in Progress /\ channel # None
  BY <1>2, <1>3 DEF IdsOK
<1>5. IdsOK(d)
  <2>1. \A k \in Key : d.at[k] \in Progress \cup {None}
    <3> TAKE k \in Key
    <3>1. d.at[k] \in {b.at[k], channel}
      BY <1>1, <1>3
    <3> QED
      BY <1>4, <3>1 DEF IdsOK
  <2>2. ASSUME NEW p \in Progress PROVE d.at[p] \in {None, p}
    <3>1. p \in Key /\ p # c
      BY <1>3
    <3>2. CASE p = id
      BY <1>1, <1>2, <3>2 DEF IdsOK
    <3>3. CASE p # id
      BY <1>1, <3>1, <3>3 DEF IdsOK
    <3> QED
      BY <3>2, <3>3
  <2> QED
    BY <2>1, <2>2 DEF IdsOK
<1>6. Stay(b, d)
  BY <1>1, <1>2, <1>3 DEF Stay
<1> QED
  BY <1>1, <1>4, <1>5, <1>6 DEF d

\* So does logging.
LEMMA AppendedStays ==
  ASSUME NEW b \in Buffer, IdsOK(b), NEW id \in Key, b.at[id] # None,
         NEW c \in Case \cup {None}, c # None => b.at[c] \in {None, b.at[id]},
         NEW of, NEW stamp, NEW time, NEW d, AppendsTo(b, d, b.at[id], c, of, stamp, time)
  PROVE  Stay(b, d) /\ IdsOK(d)
<1>1. /\ c # None => d.at[c] = b.at[id]
      /\ \A k \in Key : k # c => d.at[k] = b.at[k]
  BY DEF AppendsTo
<1>2. None \notin Key /\ Progress \cap Case = {} /\ Progress \subseteq Key
  BY KeysAreNotNone DEF Key
<1>3. Stay(b, d)
  BY <1>1, <1>2 DEF Stay
<1>4. \A k \in Key : d.at[k] \in {b.at[k], b.at[id]}
  BY <1>1, <1>2
<1>5. \A p \in Progress : d.at[p] = b.at[p]
  BY <1>1, <1>2
<1> QED
  BY <1>2, <1>3, <1>4, <1>5 DEF IdsOK

\* Until a restart every step keeps what the IDs lead to, and a case that is saved
\* then has a channel.
LEMMA ChannelsStay ==
  ASSUME NEW owner \in Owners, Inv(owner), PersistOK, AtOK(buffer), [Next]_vars, ~Restart
  PROVE  /\ Stay(buffer, buffer') /\ IdsOK(buffer')
         /\ \A c \in saved' : buffer'.at[c] # None
<1>1. /\ buffer \in Buffer /\ IdsOK(buffer) /\ \A c \in saved : buffer.at[c] # None
      /\ saved \subseteq Case /\ Case \subseteq Key
  BY KeysAreNotNone DEF Inv, TypeOK, AtOK
<1>2. ASSUME buffer' = buffer, saved' = saved
      PROVE  /\ Stay(buffer, buffer') /\ IdsOK(buffer')
             /\ \A c \in saved' : buffer'.at[c] # None
  BY <1>1, <1>2 DEF Stay
<1>3. ASSUME Stay(buffer, buffer'), IdsOK(buffer'), saved' = saved
      PROVE  \A c \in saved' : buffer'.at[c] # None
  BY <1>1, <1>3 DEF Stay
<1>4. ASSUME NEW a \in Asker, Busy(a)
      PROVE  /\ handler[a].id \in Key /\ handler[a].case \in Case /\ handler[a].case # None
             /\ handler[a].kind \in {"start", "change"}
             /\ handler[a].kind = "start" => handler[a].id \in Progress
             /\ handler[a].kind = "change" =>
                  /\ buffer.at[handler[a].case] # None
                  /\ buffer.at[handler[a].id] = buffer.at[handler[a].case]
  BY <1>1, <1>4, BusyFacts DEF AtOK, Agrees, PersistOK
<1>5. ASSUME NEW a \in Asker, Handle(a)
      PROVE  /\ Stay(buffer, buffer') /\ IdsOK(buffer') /\ saved' = saved
  <2> DEFINE h == handler[a]
             c == IF h.kind = "start" THEN None ELSE h.case
  <2>1. Busy(a) /\ saved' = saved /\ buffer' = Started(buffer, h.id, c)
    BY <1>5 DEF Handle, Busy
  <2>2. /\ h.id \in Key /\ c \in Case \cup {None}
        /\ buffer.at[h.id] # None \/ (c = None /\ h.id \in Progress)
        /\ c # None => buffer.at[c] \in {None, buffer.at[h.id]}
    BY <1>4, <2>1
  <2> HIDE DEF h, c
  <2> QED
    BY <1>1, <2>1, <2>2, StartedStays
<1>6. ASSUME NEW a \in Asker, Log(a)
      PROVE  /\ Stay(buffer, buffer') /\ IdsOK(buffer') /\ saved' = saved
  <2>1. PICK c \in Case \cup {None} :
          /\ c # None => c = handler[a].case /\ buffer.at[c] \in {None, buffer.at[handler[a].id]}
          /\ handler[a].id \in Key /\ buffer.at[handler[a].id] # None
          /\ AppendsTo(buffer, buffer', buffer.at[handler[a].id], c, handler[a].case,
                       clock + 1, life)
    BY <1>6, LogAppends
  <2>2. saved' = saved
    BY <1>6 DEF Log
  <2> QED
    BY <1>1, <2>1, <2>2, AppendedStays
<1>7. ASSUME NEW a \in Asker, Finish(a)
      PROVE  /\ Stay(buffer, buffer') /\ IdsOK(buffer')
             /\ \A c \in saved' : buffer'.at[c] # None
  <2> DEFINE h == handler[a]
  <2>1. Busy(a) /\ h.step = "running"
    BY <1>7 DEF Finish, Busy
  <2>2. CASE h.kind = "start" /\ buffer' = Started(buffer, h.id, h.case) /\ saved' = saved \cup {h.case}
    <3>1. /\ h.id \in Key /\ h.case \in Case /\ h.case # None
          /\ buffer.at[h.id] # None /\ buffer.at[h.case] \in {None, buffer.at[h.id]}
      BY <1>4, <2>1 DEF Inv, RunningOK
    <3> HIDE DEF h
    <3>2. Stay(buffer, buffer') /\ IdsOK(buffer') /\ buffer'.at[h.case] # None
      BY <1>1, <2>2, <3>1, StartedStays
    <3> QED
      BY <1>1, <2>2, <3>2 DEF Stay
  <2>3. CASE h.kind = "change" /\ buffer' = buffer /\ saved' = saved \cup {h.case}
    BY <1>1, <1>4, <2>1, <2>3 DEF Stay
  <2>4. CASE UNCHANGED <<buffer, saved>>
    BY <1>2, <2>4
  <2> QED
    BY <1>4, <1>7, <2>1, <2>2, <2>3, <2>4 DEF Finish
<1>8. ASSUME Connect
      PROVE  /\ Stay(buffer, buffer') /\ IdsOK(buffer') /\ saved' = saved
  <2>1. /\ stream.to \in Key /\ stream.to = page.progress /\ saved' = saved
        /\ buffer' = Started(buffer, stream.to, None)
    BY <1>8, PageFacts DEF Connect, Stream, Inv, TypeOK
  <2>2. stream.to \in Case => buffer.at[stream.to] # None
    BY <1>1, <2>1 DEF PersistOK
  <2> QED
    BY <1>1, <2>1, <2>2, StartedStays DEF Key
<1>9. CASE ~ Connect /\ ~ \E a \in Asker : Handle(a) \/ Log(a) \/ Finish(a)
  <2>1. UNCHANGED <<buffer, saved>>
    BY <1>9 DEF Next, BackendStep, StreamStep, PageStep, OthersSend, Poll, Break, Deliver,
       TakeSnapshot, MergeSnapshot, LoseSnapshot, StartRecovery, ChangeRecovery, Refresh,
       Answer, GiveUp, Reset, ResetAnswered, Reload, vars
  <2> QED
    BY <1>2, <2>1
<1> QED
  BY <1>3, <1>5, <1>6, <1>7, <1>8, <1>9

\* What was known of the IDs is true of the channels after the step too.
LEMMA AgreesStill ==
  ASSUME NEW owner \in Owners, Inv(owner), PersistOK, AtOK(buffer), Stay(buffer, buffer')
  PROVE  Agrees(buffer')
<1>0. page \in Page /\ saved \subseteq Case
  BY DEF Inv, TypeOK
<1>1. \A c \in saved : buffer.at[c] # None /\ c \in Key /\ c # None
  BY <1>0, KeysAreNotNone DEF AtOK
<1>2. \A k \in Key : \A c \in saved : buffer.at[k] = buffer.at[c] =>
        buffer'.at[k] = buffer'.at[c]
  BY <1>1 DEF Stay
<1>3. ASSUME NEW a \in Asker, Busy(a), handler[a].kind = "change"
      PROVE  buffer'.at[handler[a].id] = buffer'.at[handler[a].case]
  <2>1. buffer.at[handler[a].id] = buffer.at[handler[a].case] /\ handler[a].case \in saved
    BY <1>3 DEF AtOK, Agrees, PersistOK
  <2>2. handler[a].id \in Key
    BY <1>3, BusyFacts
  <2> QED
    BY <1>2, <2>1, <2>2
<1>4. page.progress # None /\ page.case # None => buffer'.at[page.progress] = buffer'.at[page.case]
  BY <1>0, <1>2 DEF AtOK, Agrees, PersistOK, Page
<1>5. handler["page"].step = "ok" /\ page.progress # None =>
        buffer'.at[page.progress] = buffer'.at[handler["page"].case]
  BY <1>0, <1>2 DEF AtOK, Agrees, PersistOK, Page, Asker
<1> QED
  BY <1>3, <1>4, <1>5 DEF Agrees

\* Until a restart every step keeps it.
LEMMA AtInductive ==
  ASSUME NEW owner \in Owners, Inv(owner), PersistOK, PersistOK', AtOK(buffer),
         [Next]_vars, ~Restart
  PROVE  AtOK(buffer)'
<1>1. /\ Stay(buffer, buffer') /\ IdsOK(buffer')
      /\ \A c \in saved' : buffer'.at[c] # None
  BY ChannelsStay
<1>2. Agrees(buffer')
  BY <1>1, AgreesStill
<1>3. /\ handler \in [Asker -> HandlerState] /\ page \in Page /\ saved \subseteq Case
      /\ "page" \in Asker /\ "others" \in Asker /\ Asker = {"page", "others"}
      /\ NoHandler.step = "none"
      /\ None \notin Case
  BY KeysAreNotNone DEF Inv, TypeOK, Asker, NoHandler
<1>4. handler["page"].step # "none" => page.action = "request"
  BY DEF Inv, PageOK
<1>5. SUFFICES Agrees(buffer)'
  BY <1>1 DEF AtOK
<1>6. ASSUME NEW a \in Asker, Handle(a) PROVE Agrees(buffer)'
  <2>1. /\ handler' = [handler EXCEPT ![a].step = "running"] /\ page' = page
        /\ handler[a].step = "sent"
    BY <1>6 DEF Handle
  <2>2. \A x \in Asker : /\ handler'[x].kind = handler[x].kind /\ handler'[x].id = handler[x].id
                         /\ handler'[x].case = handler[x].case /\ (Busy(x)' <=> Busy(x))
                         /\ (handler'[x].step = "ok" => handler[x].step = "ok")
    BY <1>3, <2>1 DEF HandlerState, Busy
  <2> QED
    BY <1>2, <1>3, <2>1, <2>2 DEF Agrees
<1>7. ASSUME NEW a \in Asker, Log(a) PROVE Agrees(buffer)'
  BY <1>2, <1>7 DEF Log, Agrees, Busy
<1>8. ASSUME NEW a \in Asker, Finish(a) PROVE Agrees(buffer)'
  <2>1. PICK step \in {"ok", "failed"} :
          /\ Done(a, step)
          /\ step = "ok" => buffer' = IF handler[a].kind = "start"
                                      THEN Started(buffer, handler[a].id, handler[a].case)
                                      ELSE buffer
    BY <1>8 DEF Finish
  <2>2. page' = page /\ Busy(a) /\ handler[a].step = "running"
    BY <1>8 DEF Finish, Busy
  <2>3. \A x \in Asker : /\ x # a => handler'[x] = handler[x]
                         /\ ~ Busy(a)'
    BY <1>3, <2>1 DEF Done, HandlerState, Busy, NoHandler
  <2>4. ASSUME handler'["page"].step = "ok", page.progress # None
        PROVE  buffer'.at[page.progress] = buffer'.at[handler'["page"].case]
    <3>1. CASE a = "others"
      BY <1>2, <1>3, <2>3, <2>4, <3>1 DEF Agrees
    <3>2. CASE a = "page"
      <4>1. /\ handler'["page"].case = handler["page"].case /\ step = "ok"
            /\ handler["page"].id = page.progress
        BY <1>3, <2>1, <2>2, <2>4, <3>2 DEF Done, HandlerState, PersistOK
      <4>2. /\ handler["page"].id \in Key /\ handler["page"].case \in Case
            /\ handler["page"].case # None /\ buffer \in Buffer
            /\ handler["page"].kind \in {"start", "change"}
        BY <1>3, <2>2, <3>2, BusyFacts DEF Inv, TypeOK
      <4>3. CASE handler["page"].kind = "start"
        <5>1. buffer' = Started(buffer, handler["page"].id, handler["page"].case)
          BY <2>1, <3>2, <4>1, <4>3
        <5> QED
          BY <4>1, <4>2, <5>1, StartedEffect
      <4>4. CASE handler["page"].kind = "change"
        BY <1>2, <1>3, <2>2, <3>2, <4>1, <4>4 DEF Agrees
      <4> QED
        BY <4>2, <4>3, <4>4
    <3> QED
      BY <1>3, <3>1, <3>2
  <2> QED
    BY <1>2, <2>2, <2>3, <2>4 DEF Agrees, Busy
<1>9. CASE OthersSend
  <2>1. PICK c \in saved : handler' = [handler EXCEPT !["others"] =
           [kind |-> "change", id |-> c, case |-> c, step |-> "sent"]]
    BY <1>9 DEF OthersSend
  <2>2. handler'["page"] = handler["page"] /\ handler'["others"].case = c
        /\ handler'["others"].id = c
    BY <1>3, <2>1
  <2> QED
    BY <1>2, <1>3, <1>9, <2>2 DEF OthersSend, Agrees, Busy
<1>10. CASE StreamStep \/ Deliver \/ TakeSnapshot \/ MergeSnapshot \/ LoseSnapshot \/ UNCHANGED vars
  <2>1. UNCHANGED <<handler, page>>
    BY <1>10 DEF StreamStep, Connect, Poll, Break, Deliver, TakeSnapshot, MergeSnapshot,
                LoseSnapshot, vars
  <2> QED
    BY <1>2, <2>1 DEF Agrees, Busy
<1>11. CASE StartRecovery
  <2>1. PICK k \in Progress, c \in Case :
          /\ page' = [page EXCEPT !.progress = k, !.action = "request"]
          /\ Request("start", k, c) /\ page.case = None
    BY <1>11 DEF StartRecovery, ReplacedProgress
  <2>2. /\ page'.case = None
        /\ handler'["page"].kind = "start"
        /\ handler'["page"].step = "sent" /\ handler'["others"] = handler["others"]
    BY <1>3, <2>1 DEF Request, Page
  <2> QED
    BY <1>2, <1>3, <2>2 DEF Agrees, Busy
<1>12. CASE ChangeRecovery
  <2> DEFINE k == EnsuredProgress(page.case)
  <2>1. /\ page' = [page EXCEPT !.progress = k, !.action = "request"]
        /\ Request("change", k, page.case) /\ page.case # None
    BY <1>12 DEF ChangeRecovery
  <2>2. buffer'.at[k] = buffer'.at[page.case]
    BY <1>2, <2>1 DEF EnsuredProgress, Agrees
  <2> HIDE DEF k
  <2>3. /\ page'.progress = k /\ page'.case = page.case
        /\ handler'["page"].case = page.case /\ handler'["page"].id = k
        /\ handler'["page"].step = "sent" /\ handler'["others"] = handler["others"]
    BY <1>3, <2>1 DEF Request, Page
  <2> QED
    BY <1>2, <1>3, <2>2, <2>3 DEF Agrees, Busy
<1>13. CASE Refresh
  <2>1. page'.progress = page.progress /\ page'.case = page.case /\ handler' = handler
    BY <1>3, <1>13 DEF Refresh, Finalized, Page
  <2> QED
    BY <1>2, <2>1 DEF Agrees, Busy
<1>14. CASE Answer
  <2>1. /\ page'.progress = page.progress
        /\ page'.case = IF handler["page"].step = "ok" THEN handler["page"].case ELSE page.case
        /\ handler'["page"].step = "none" /\ handler'["others"] = handler["others"]
    BY <1>3, <1>14 DEF Answer, Finalized, Page
  <2> QED
    BY <1>2, <1>3, <2>1 DEF Agrees, Busy
<1>15. CASE GiveUp
  <2>1. /\ page'.progress = page.progress /\ page'.case = page.case
        /\ handler'["page"].step = "none" /\ handler'["others"] = handler["page"]
    BY <1>3, <1>15 DEF GiveUp, Finalized, Page
  <2> QED
    BY <1>2, <1>3, <2>1 DEF Agrees, Busy
<1>16. CASE Reset
  <2>1. page'.progress = None /\ handler' = handler
    BY <1>3, <1>16 DEF Reset, Page
  <2> QED
    BY <1>2, <2>1 DEF Agrees, Busy
<1>17. CASE ResetAnswered
  <2>1. /\ page.progress = None /\ handler' = handler /\ page.action = "reset"
        /\ page'.case \in {page.case, None}
        /\ page'.case = None \/ page'.progress = page.case
    BY <1>3, <1>17 DEF ResetAnswered, Page, EnsuredProgress, PersistOK
  <2> QED
    BY <1>2, <1>4, <2>1 DEF Agrees, Busy
<1>18. CASE Reload
  <2>1. page'.progress = page.stored /\ page'.case = None
    BY <1>3, <1>18 DEF Reload, Page
  <2>2. PICK h : /\ \/ h = NoHandler
                    \/ \E step \in {"ok", "failed"} :
                         page.stored # None /\ h = ReadOf(page.stored, step)
                 /\ IF Busy("page") THEN handler' = [page |-> h, others |-> handler["page"]]
                    ELSE handler' = [handler EXCEPT !["page"] = h]
    BY <1>18 DEF Reload, Busy
  <2>3. h.step \in {"none", "ok", "failed"} /\ (h.step = "ok" => h.case = page.stored)
    BY <2>2 DEF NoHandler, ReadOf
  <2>4. handler'["page"] = h /\ handler'["others"] \in {handler["others"], handler["page"]}
    BY <1>3, <2>2
  <2> QED
    BY <1>2, <1>3, <2>1, <2>3, <2>4 DEF Agrees, Busy
<1> QED
  BY <1>6, <1>7, <1>8, <1>9, <1>10, <1>11, <1>12, <1>13, <1>14, <1>15, <1>16, <1>17, <1>18
  DEF Next, BackendStep, PageStep

\* Events have numbers.
LEMMA AreNumbered ==
  ASSUME NEW s \in Seq(Event), NEW i \in DOMAIN s
  PROVE  s[i] \in Event /\ s[i].sequence \in Nat
<1>1. s[i] \in Event
  OBVIOUS
<1> QED
  BY <1>1 DEF Event

\* The numbers of events in order.
Ascending(s) == \A i, j \in DOMAIN s : i < j => s[i].sequence < s[j].sequence

\* What is on its way is in order and ends where the generator is.
WireOK ==
  /\ ~ stream.open => stream.wire = <<>>
  /\ Ascending(stream.wire)
  /\ \A i \in DOMAIN stream.wire : stream.wire[i].sequence <= stream.cursor

\* One round of the generator sends t: all that is kept in channel k past its cursor.
SendsRest(k, t) ==
  /\ stream.to \in Key /\ buffer.at[stream.to] = k
  /\ stream' = [stream EXCEPT !.cursor = stream'.cursor, !.wire = stream.wire \o t]
  /\ stream'.cursor \in Nat /\ stream.cursor <= stream'.cursor
  /\ stream'.cursor < buffer.next[k]
  /\ \A i \in DOMAIN t : stream.cursor < t[i].sequence /\ t[i].sequence <= stream'.cursor
  /\ Ascending(t)
  /\ \A e \in Held(buffer.events[k]) : e.sequence > stream.cursor => e \in Held(t)

\* That is what a round does.
LEMMA PollSends ==
  ASSUME NEW owner \in Owners, Inv(owner), Poll
  PROVE  \E k \in Key, t \in Seq(Event) : SendsRest(k, t)
<1> DEFINE t == After(buffer, stream.to, stream.cursor)
           k == buffer.at[stream.to]
<1>1. /\ t # <<>> /\ stream \in Stream /\ buffer \in Buffer
      /\ stream' = [stream EXCEPT !.cursor = t[Len(t)].sequence, !.wire = stream.wire \o t]
      /\ stream.to \in Key /\ stream.cursor \in Nat
  BY DEF Inv, TypeOK, OnTheWayOK, Poll, Stream
<1>2. k \in Key
  <2>1. CASE k = None
    <3>1. Snapshot(buffer, stream.to) = <<>>
      BY <2>1 DEF Snapshot
    <3>2. t \in Seq(Event) /\ \A i \in DOMAIN t : i \notin DOMAIN t
      BY <1>1, <3>1, AfterType
    <3> HIDE DEF t
    <3>3. t # <<>> => 1 \in DOMAIN t
      BY <3>2
    <3> QED
      BY <1>1, <3>2, <3>3
  <2> QED
    BY <1>1, <2>1 DEF Buffer
<1>3. t \in Seq(Event)
  BY <1>1, AfterType
<1>4. /\ \A i \in DOMAIN t : stream.cursor < t[i].sequence /\ t[i].sequence < buffer.next[k]
      /\ \A i, j \in DOMAIN t : i < j => t[i].sequence < t[j].sequence
      /\ \A i \in DOMAIN buffer.events[k] :
           buffer.events[k][i].sequence > stream.cursor =>
             \E j \in DOMAIN t : t[j] = buffer.events[k][i]
  <2>1. IsWindow(buffer, k)
    BY <1>2 DEF Inv, BufferOK
  <2> QED
    BY <1>1, <1>2, <2>1, AfterIsRest
<1> HIDE DEF t, k
<1> DEFINE n == t[Len(t)].sequence
<1>5. Len(t) \in DOMAIN t /\ DOMAIN t = 1 .. Len(t) /\ Len(t) \in Nat
  BY <1>1, <1>3
<1>6. \A i \in DOMAIN t : t[i].sequence \in Nat
  BY <1>3, AreNumbered
<1>7. n \in Nat /\ stream.cursor < n /\ n < buffer.next[k]
  BY <1>4, <1>5, <1>6
<1>8. \A i \in DOMAIN t : t[i].sequence <= n
  <2> TAKE i \in DOMAIN t
  <2>1. i = Len(t) \/ i < Len(t)
    BY <1>5
  <2> QED
    BY <1>4, <1>5, <1>6, <2>1
<1>9. stream' = [stream EXCEPT !.cursor = n, !.wire = stream.wire \o t]
  BY <1>1
<1> HIDE DEF n
<1>10. stream'.cursor = n
  BY <1>1, <1>9 DEF Stream
<1>11. \A e \in Held(buffer.events[k]) : e.sequence > stream.cursor => e \in Held(t)
  BY <1>4 DEF Held
<1>12. SendsRest(k, t)
  BY <1>1, <1>4, <1>7, <1>8, <1>9, <1>10, <1>11 DEF SendsRest, Ascending, k
<1> QED
  BY <1>2, <1>3, <1>12

\* The order and the end of what is on its way are kept by every step.
LEMMA WireInductive ==
  ASSUME NEW owner \in Owners, Inv(owner), WireOK, [Next]_vars
  PROVE  WireOK'
<1>1. stream \in Stream /\ stream.wire \in Seq(Event) /\ stream.cursor \in Nat
  BY PageFacts DEF Stream
<1>2. CASE Connect
  <2>1. stream.wire = <<>> /\ stream'.wire = <<>> /\ stream'.open
    BY <1>1, <1>2 DEF Connect, WireOK, Stream
  <2> QED
    BY <2>1 DEF WireOK, Ascending
<1>3. CASE Poll
  <2>1. PICK k \in Key, t \in Seq(Event) : SendsRest(k, t)
    BY <1>3, PollSends
  <2> DEFINE s == stream.wire
             n == stream'.cursor
  <2>2. /\ stream'.wire = s \o t /\ stream'.open = stream.open /\ stream.open
        /\ n \in Nat /\ stream.cursor <= n
        /\ \A i \in DOMAIN t : stream.cursor < t[i].sequence /\ t[i].sequence <= n
        /\ Ascending(t)
    BY <1>1, <1>3, <2>1 DEF SendsRest, Stream, Poll
  <2>3. Ascending(s) /\ \A i \in DOMAIN s : s[i].sequence <= stream.cursor
    BY DEF WireOK
  <2>4. s \in Seq(Event)
    BY <1>1
  <2> HIDE DEF s, n
  <2>5. /\ DOMAIN (s \o t) = 1 .. Len(s) + Len(t) /\ DOMAIN s = 1 .. Len(s) /\ DOMAIN t = 1 .. Len(t)
        /\ Len(s) \in Nat /\ Len(t) \in Nat
        /\ \A i \in 1 .. Len(s) : (s \o t)[i] = s[i]
        /\ \A i \in 1 .. Len(t) : (s \o t)[i + Len(s)] = t[i]
    BY <2>4
  <2> DEFINE u == s \o t
  <2>6. \A i \in DOMAIN u : \/ i \in DOMAIN s /\ u[i] = s[i]
                            \/ /\ i - Len(s) \in DOMAIN t /\ u[i] = t[i - Len(s)]
                               /\ i \notin DOMAIN s
    <3> TAKE i \in DOMAIN u
    <3>1. CASE i <= Len(s)
      BY <2>5, <3>1
    <3>2. CASE ~ (i <= Len(s))
      <4>1. i - Len(s) \in 1 .. Len(t) /\ i = (i - Len(s)) + Len(s)
        BY <2>5, <3>2
      <4> QED
        BY <2>5, <3>2, <4>1
    <3> QED
      BY <3>1, <3>2
  <2>7. /\ \A i \in DOMAIN s : s[i].sequence \in Nat
        /\ \A i \in DOMAIN t : t[i].sequence \in Nat
    BY <2>4, AreNumbered
  <2>8. \A i \in DOMAIN u : u[i].sequence <= n
    BY <1>1, <2>2, <2>3, <2>6, <2>7
  <2>9. ASSUME NEW i \in DOMAIN u, NEW j \in DOMAIN u, i < j
        PROVE  u[i].sequence < u[j].sequence
    <3>0. i \in Nat /\ j \in Nat
      BY <2>5
    <3>1. CASE j \in DOMAIN s
      <4>1. i \in DOMAIN s
        BY <2>5, <2>9, <3>0, <3>1
      <4> QED
        BY <2>3, <2>5, <2>9, <3>1, <4>1 DEF Ascending
    <3>2. CASE i \in DOMAIN s /\ j \notin DOMAIN s
      <4>1. u[i] = s[i] /\ j - Len(s) \in DOMAIN t /\ u[j] = t[j - Len(s)]
        BY <2>5, <2>6, <3>2
      <4>2. s[i].sequence <= stream.cursor /\ stream.cursor < t[j - Len(s)].sequence
            /\ s[i].sequence \in Nat /\ t[j - Len(s)].sequence \in Nat
        BY <2>2, <2>3, <2>7, <3>2, <4>1
      <4> QED
        BY <1>1, <4>1, <4>2
    <3>3. CASE i \notin DOMAIN s /\ j \notin DOMAIN s
      <4>1. /\ i - Len(s) \in DOMAIN t /\ u[i] = t[i - Len(s)]
            /\ j - Len(s) \in DOMAIN t /\ u[j] = t[j - Len(s)]
        BY <2>6, <3>3
      <4>2. i - Len(s) < j - Len(s)
        BY <2>5, <2>9, <3>0
      <4> QED
        BY <2>2, <4>1, <4>2 DEF Ascending
    <3> QED
      BY <3>1, <3>2, <3>3
  <2>10. Ascending(u)
    BY <2>9 DEF Ascending
  <2> QED
    BY <2>2, <2>8, <2>10 DEF WireOK, u, n
<1>4. CASE Deliver
  <2>1. /\ stream'.wire = Tail(stream.wire) /\ stream'.open = stream.open
        /\ stream'.cursor = stream.cursor /\ stream.wire # <<>>
    BY <1>1, <1>4 DEF Deliver, Stream
  <2>2. /\ stream.open
        /\ \A i \in DOMAIN Tail(stream.wire) :
             i + 1 \in DOMAIN stream.wire /\ Tail(stream.wire)[i] = stream.wire[i + 1] /\ i \in Nat
    BY <1>1, <2>1 DEF WireOK
  <2> QED
    BY <2>1, <2>2 DEF WireOK, Ascending
<1>5. CASE Break \/ Restart
  <2>1. stream'.wire = <<>>
    BY <1>1, <1>5 DEF Break, Restart, Stream
  <2> QED
    BY <2>1 DEF WireOK, Ascending
<1>6. CASE StartRecovery \/ ChangeRecovery \/ Reset \/ ResetAnswered \/ Reload
  <2>1. stream' = stream \/ \E id : stream' = Connecting(id)
    BY <1>6 DEF StartRecovery, ChangeRecovery, Reset, ResetAnswered, Reload, Closed,
                EnsuredStream
  <2>2. \A id : Connecting(id).wire = <<>>
    BY DEF Connecting
  <2> QED
    BY <2>1, <2>2 DEF WireOK, Ascending
<1>7. CASE UNCHANGED stream
  BY <1>7 DEF WireOK, Ascending
<1>8. Connect \/ Poll \/ Deliver \/ Break \/ Restart \/ StartRecovery \/ ChangeRecovery
      \/ Reset \/ ResetAnswered \/ Reload \/ UNCHANGED stream
  BY DEF Next, BackendStep, StreamStep, PageStep, Handle, Log, Finish, OthersSend,
     TakeSnapshot, MergeSnapshot, LoseSnapshot, Refresh, Answer, GiveUp, vars
<1> QED
  BY <1>2, <1>3, <1>4, <1>5, <1>6, <1>7, <1>8

\* The numbers of a channel follow the order in which its events happened.
StampsOK ==
  \A e \in Known :
    /\ e.stamp <= clock
    /\ \A f \in Known :
         e.channel = f.channel /\ e.life = f.life /\ e.sequence < f.sequence
           => e.stamp < f.stamp

\* They do so for ever.
LEMMA StampsInductive ==
  ASSUME NEW owner \in Owners, Inv(owner), CopiesOK, StampsOK, [Next]_vars
  PROVE  StampsOK'
<1>1. clock \in Nat /\ \A f \in Known : f \in Event /\ f.stamp \in Nat /\ f.sequence \in Nat
  BY DEF Inv, TypeOK, Known, Event
<1>2. ASSUME Known' \subseteq Known, clock' = clock PROVE StampsOK'
  BY <1>2 DEF StampsOK
<1>3. ASSUME NEW a \in Asker, Log(a) PROVE StampsOK'
  <2>1. PICK k \in Key, e \in Event : Enters(k, e)
    BY <1>3, LogEnters
  <2>2. Known' \subseteq Known \cup {e}
    <3>1. \A l \in Key : Held(buffer'.events[l]) \subseteq Held(buffer.events[l]) \cup {e}
      BY <2>1 DEF Enters
    <3> QED
      BY <2>1, <3>1 DEF Enters, Known
  <2>3. e.stamp = clock' /\ clock' = clock + 1
    BY <2>1 DEF Enters
  <2>4. \A f \in Known : f.channel = e.channel /\ f.life = e.life => f.sequence < e.sequence
    BY <2>1 DEF Enters, CopiesOK
  <2>5. e.sequence \in Nat
    BY DEF Event
  <2>6. \A f \in Known : f.stamp <= clock
    BY DEF StampsOK
  <2>7. \A f \in Known' : f.stamp <= clock'
    BY <1>1, <2>2, <2>3, <2>6
  <2>8. ASSUME NEW f \in Known', NEW g \in Known', f.channel = g.channel, f.life = g.life,
               f.sequence < g.sequence
        PROVE  f.stamp < g.stamp
    <3>1. CASE f \in Known /\ g \in Known
      BY <2>8, <3>1 DEF StampsOK
    <3>2. CASE f \in Known /\ g = e
      BY <1>1, <2>3, <2>6, <3>2
    <3>3. CASE f = e /\ g \in Known
      BY <1>1, <2>4, <2>5, <2>8, <3>3
    <3>4. CASE f = e /\ g = e
      BY <2>5, <2>8, <3>4
    <3> QED
      BY <2>2, <3>1, <3>2, <3>3, <3>4
  <2> QED
    BY <2>7, <2>8 DEF StampsOK
<1> QED
  BY <1>2, <1>3, OthersMakeNone, RestartMakesNone DEF NoneMade

\* What is kept for a page that follows channel p.
Wanted(p) == {e \in Held(buffer.events[p]) : Accepts(p, e)}

\* The page that follows channel p is shown what it wants from the first event on,
\* up to the last it got of the stream, and what it still wants up to the cursor is
\* on its way.
Follows(p) ==
  /\ \A f \in shown : f.channel = p
  /\ stream.last < buffer.next[p] /\ stream.cursor < buffer.next[p]
  /\ \A e \in Wanted(p) : e.sequence <= stream.last => e \in shown
  /\ stream.open => \A e \in Wanted(p) :
       e.sequence <= stream.cursor => e \in shown \cup Held(stream.wire)
  /\ \A e \in Wanted(p), f \in shown : e.sequence < f.sequence => e \in shown

FollowOK == page.progress \in Progress => Follows(page.progress)

\* A snapshot has all that is still kept up to its last event.
SnapshotsOK ==
  \A s \in snapshots : s.id \in Progress =>
    \A f \in Held(s.events) :
      /\ f.channel = s.id
      /\ \A e \in Held(buffer.events[s.id]) :
           e.sequence <= f.sequence => e \in Held(s.events)

\* In the first life of the backend merging only adds.
LEMMA MergedAdds ==
  ASSUME NEW owner \in Owners, Inv(owner), CopiesOK, life = 0, NEW events, events \subseteq Known
  PROVE  Merged(events) = shown \cup events
<1>1. \A e \in shown : e \in Known
  BY DEF Inv, TypeOK, Known
<1>2. \A e \in Known : e.life = 0
  <2>1. \A e \in Known : e.life \in Nat /\ e.life <= 0
    BY DEF CopiesOK, Known, Event
  <2> QED
    BY <2>1
<1>3. \A e \in shown, f \in events : SameId(e, f) => e = f
  BY <1>1, <1>2 DEF CopiesOK
<1> QED
  BY <1>3 DEF Merged

\* Where nothing that the page follows is touched, and it learns its case at most.
LEMMA FollowsStill ==
  ASSUME FollowOK,
         page'.progress \in Progress => page'.progress = page.progress,
         page'.case = page.case \/ page.case = None,
         stream' = stream, shown' = shown,
         buffer'.events = buffer.events, buffer'.next = buffer.next
  PROVE  FollowOK'
<1> SUFFICES ASSUME page'.progress \in Progress PROVE Follows(page.progress)'
  BY DEF FollowOK
<1>1. page'.progress = page.progress /\ Follows(page.progress)
  BY DEF FollowOK
<1>2. Wanted(page.progress)' \subseteq Wanted(page.progress)
  BY <1>1 DEF Wanted, Accepts
<1> QED
  BY <1>1, <1>2 DEF Follows

\* The page follows a fresh ID with nothing yet.
LEMMA StartFollows ==
  ASSUME NEW owner \in Owners, Inv(owner), StartRecovery
  PROVE  FollowOK'
<1>1. PICK k \in unused \cap Progress :
        /\ page' = [page EXCEPT !.progress = k, !.action = "request"]
        /\ stream' = IF k = stream.to THEN stream ELSE Connecting(k)
        /\ shown' = IF k = stream.to THEN shown ELSE {}
        /\ buffer' = buffer
  BY DEF StartRecovery, ReplacedProgress
<1>2. k # stream.to /\ page \in Page /\ k \in Key
  BY PageFacts DEF Key
<1>3. page'.progress = k /\ stream' = Connecting(k) /\ shown' = {}
  BY <1>1, <1>2 DEF Page
<1>4. Held(buffer.events[k]) = {}
  <2> SUFFICES ASSUME NEW i \in DOMAIN buffer.events[k] PROVE FALSE
    BY DEF Held
  <2>1. buffer.events[k][i].of \in Key
    <3>1. buffer.events[k] \in Seq(Event)
      BY <1>2, BufferFields DEF Inv, TypeOK
    <3>2. buffer.events[k][i] \in Event
      BY <3>1
    <3> QED
      BY <3>2, KeysAreNotNone DEF Event
  <2>2. buffer.at[buffer.events[k][i].of] = k
    BY <1>2 DEF Inv, BufferOK, FiledOK
  <2> QED
    BY <1>1, <2>1, <2>2 DEF Inv, BufferOK, LeadsOK
<1>5. buffer.next[k] \in Nat /\ buffer.next[k] > 0
  <2>1. buffer.events[k] \in Seq(Event) /\ buffer.next[k] \in Nat
    BY <1>2, BufferFields DEF Inv, TypeOK
  <2>2. Len(buffer.events[k]) \in Nat /\ Len(buffer.events[k]) < buffer.next[k]
    BY <1>2, <2>1 DEF Inv, BufferOK, IsWindow
  <2> QED
    BY <2>1, <2>2
<1> QED
  BY <1>1, <1>3, <1>4, <1>5 DEF FollowOK, Follows, Wanted, Connecting

\* An event that is logged is not shown and not sent yet.
LEMMA LogFollows ==
  ASSUME NEW owner \in Owners, Inv(owner), CopiesOK, life = 0, FollowOK,
         NEW a \in Asker, Log(a)
  PROVE  FollowOK'
<1>1. PICK k \in Key, e \in Event : Enters(k, e)
  BY LogEnters
<1> SUFFICES ASSUME NEW p \in Progress, page'.progress = p PROVE Follows(p)'
  BY DEF FollowOK
<1>2. page' = page /\ stream' = stream /\ shown' = shown /\ p \in Key
  BY <1>1 DEF Enters, Key
<1>3. Follows(p)
  BY <1>2 DEF FollowOK
<1>4. /\ stream.last \in Nat /\ stream.cursor \in Nat /\ buffer.next[p] \in Nat
      /\ buffer'.next[p] \in {buffer.next[p], buffer.next[p] + 1}
  BY <1>1, <1>2, PageFacts, BufferFields DEF Enters, Stream, Inv, TypeOK
<1>5. CASE p # k
  <2>1. buffer'.events[p] = buffer.events[p] /\ buffer'.next[p] = buffer.next[p]
    BY <1>1, <1>2, <1>5 DEF Enters
  <2>2. Wanted(p)' = Wanted(p)
    BY <1>2, <2>1 DEF Wanted, Accepts
  <2> QED
    BY <1>2, <1>3, <2>1, <2>2 DEF Follows
<1>6. CASE p = k
  <2>1. Wanted(p)' \subseteq Wanted(p) \cup {e}
    BY <1>1, <1>2, <1>6 DEF Wanted, Enters, Accepts
  <2>2. e.sequence = buffer.next[p]
    BY <1>1, <1>6 DEF Enters
  <2>3. \A f \in shown : f.sequence \in Nat /\ f.sequence < buffer.next[p]
    <3> TAKE f \in shown
    <3>1. f \in Known /\ f.channel = p /\ f.sequence \in Nat /\ f.life \in Nat
      BY <1>3 DEF Follows, Inv, TypeOK, Known, Event
    <3>2. f.life = life
      BY <3>1 DEF CopiesOK
    <3> QED
      BY <3>1, <3>2 DEF CopiesOK
  <2>4. \A f \in shown : ~ (e.sequence < f.sequence)
    BY <1>4, <2>2, <2>3
  <2>5. ~ (e.sequence <= stream.last) /\ ~ (e.sequence <= stream.cursor)
    BY <1>3, <1>4, <2>2 DEF Follows
  <2>6. stream.last < buffer'.next[p] /\ stream.cursor < buffer'.next[p]
    BY <1>3, <1>4 DEF Follows
  <2> QED
    BY <1>2, <1>3, <2>1, <2>4, <2>5, <2>6 DEF Follows
<1> QED
  BY <1>5, <1>6

\* A connection goes on after the last event the page got.
LEMMA ConnectFollows ==
  ASSUME NEW owner \in Owners, Inv(owner), FollowOK, Connect \/ Break
  PROVE  FollowOK'
<1> SUFFICES ASSUME NEW p \in Progress, page'.progress = p PROVE Follows(p)'
  BY DEF FollowOK
<1>1. page' = page /\ shown' = shown /\ stream \in Stream /\ p \in Key
  BY PageFacts DEF Connect, Break, Key
<1>2. Follows(p)
  BY <1>1 DEF FollowOK
<1>3. buffer'.events = buffer.events /\ buffer'.next = buffer.next
  <2>1. CASE Connect
    <3>1. buffer' = Started(buffer, stream.to, None) /\ stream.to \in Key
      BY <1>1, <2>1 DEF Connect, Stream
    <3> QED
      BY <3>1, StartMakesNone
  <2> QED
    BY <2>1 DEF Break
<1>4. Wanted(p)' = Wanted(p)
  BY <1>1, <1>3 DEF Wanted, Accepts
<1>5. buffer.next[p] \in Nat /\ stream.last \in Nat
  BY <1>1, BufferFields DEF Inv, TypeOK, Stream
<1>6. /\ stream'.last = stream.last /\ stream'.cursor \in {0, stream.last}
      /\ stream'.open => stream'.cursor = stream.last
  BY <1>1 DEF Connect, Break, Stream, Resume
<1>7. stream'.cursor < buffer.next[p]
  BY <1>2, <1>5, <1>6 DEF Follows
<1> QED
  BY <1>1, <1>2, <1>3, <1>4, <1>6, <1>7 DEF Follows

\* A round of the generator leaves nothing out.
LEMMA PollFollows ==
  ASSUME NEW owner \in Owners, Inv(owner), IdsOK(buffer), FollowOK, Poll
  PROVE  FollowOK'
<1> SUFFICES ASSUME NEW p \in Progress, page'.progress = p PROVE Follows(p)'
  BY DEF FollowOK
<1>1. /\ page' = page /\ shown' = shown /\ buffer' = buffer /\ stream \in Stream /\ p \in Key
      /\ stream.to = p
  BY PageFacts DEF Poll, Key
<1>2. Follows(p) /\ stream.open
  BY <1>1 DEF FollowOK, Poll
<1>3. PICK k \in Key, t \in Seq(Event) : SendsRest(k, t)
  BY PollSends
<1>4. k = p
  BY <1>1, <1>3, KeysAreNotNone DEF SendsRest, IdsOK
<1>5. Wanted(p)' = Wanted(p)
  BY <1>1 DEF Wanted, Accepts
<1>6. /\ stream'.last = stream.last /\ stream'.wire = stream.wire \o t
      /\ stream'.cursor < buffer.next[p]
      /\ \A e \in Wanted(p) : e.sequence > stream.cursor => e \in Held(t)
  BY <1>1, <1>3, <1>4 DEF SendsRest, Stream, Wanted
<1>7. Held(stream.wire) \cup Held(t) \subseteq Held(stream.wire \o t)
  <2> DEFINE s == stream.wire
  <2>1. s \in Seq(Event)
    BY <1>1 DEF Stream
  <2> HIDE DEF s
  <2>2. /\ DOMAIN (s \o t) = 1 .. Len(s) + Len(t) /\ DOMAIN s = 1 .. Len(s) /\ DOMAIN t = 1 .. Len(t)
        /\ Len(s) \in Nat /\ Len(t) \in Nat
        /\ \A i \in 1 .. Len(s) : (s \o t)[i] = s[i]
        /\ \A i \in 1 .. Len(t) : (s \o t)[i + Len(s)] = t[i]
    BY <2>1
  <2>3. \A i \in DOMAIN s : i \in DOMAIN (s \o t) /\ (s \o t)[i] = s[i]
    BY <2>2
  <2>4. \A i \in DOMAIN t : i + Len(s) \in DOMAIN (s \o t) /\ (s \o t)[i + Len(s)] = t[i]
    BY <2>2
  <2> QED
    BY <2>3, <2>4 DEF Held, s
<1>8. stream.cursor \in Nat /\ \A e \in Wanted(p) : e.sequence \in Nat
  <2>1. buffer.events[p] \in Seq(Event)
    BY <1>1, BufferFields DEF Inv, TypeOK
  <2>2. \A i \in DOMAIN buffer.events[p] : buffer.events[p][i].sequence \in Nat
    BY <2>1, AreNumbered
  <2> QED
    BY <1>1, <2>2 DEF Wanted, Held, Stream
<1>9. \A e \in Wanted(p) : e \in shown \cup Held(stream'.wire)
  BY <1>2, <1>6, <1>7, <1>8 DEF Follows
<1> QED
  BY <1>1, <1>2, <1>5, <1>6, <1>9 DEF Follows

\* The event that is delivered is the next one the page wants.
LEMMA DeliverFollows ==
  ASSUME NEW owner \in Owners, Inv(owner), CopiesOK, life = 0, WireOK, FollowOK, Deliver
  PROVE  FollowOK'
<1> SUFFICES ASSUME NEW p \in Progress, page'.progress = p PROVE Follows(p)'
  BY DEF FollowOK
<1> DEFINE s == stream.wire
           e == Head(s)
<1>1. /\ page' = page /\ buffer' = buffer /\ stream \in Stream /\ p \in Key
      /\ page.progress = p /\ stream.to = p /\ s # <<>> /\ s \in Seq(Event)
  BY PageFacts DEF Deliver, Key, Stream
<1>2. /\ stream'.wire = Tail(s) /\ stream'.last = e.sequence
      /\ stream'.open = stream.open /\ stream'.cursor = stream.cursor
      /\ shown' = IF Accepts(p, e) THEN Merged({e}) ELSE shown
  BY <1>1 DEF Deliver, Stream
<1>3. Follows(p) /\ stream.open
  BY <1>1 DEF FollowOK, WireOK
<1>4. /\ Ascending(s) /\ \A i \in DOMAIN s : s[i].sequence <= stream.cursor
      /\ stream.cursor \in Nat /\ buffer.next[p] \in Nat
  BY <1>1, BufferFields DEF WireOK, Stream, Inv, TypeOK
<1> HIDE DEF s
<1>5. /\ 1 \in DOMAIN s /\ e = s[1]
      /\ \A i \in DOMAIN s : i # 1 => 1 < i /\ i - 1 \in DOMAIN Tail(s) /\ Tail(s)[i - 1] = s[i]
  BY <1>1
<1>6. e \in Event /\ e.sequence \in Nat
  BY <1>1, <1>5, AreNumbered
<1>7. e \in Known
  BY <1>5, <1>6 DEF Known, Held, s
<1>8. Merged({e}) = shown \cup {e}
  BY <1>7, MergedAdds
<1> HIDE DEF e
<1>9. e.sequence <= stream.cursor /\ stream'.last < buffer.next[p]
  BY <1>2, <1>3, <1>4, <1>5, <1>6 DEF Follows
<1>10. Wanted(p)' = Wanted(p)
  BY <1>1 DEF Wanted, Accepts
<1>11. \A g \in Held(s) : g = e \/ (g \in Held(Tail(s)) /\ e.sequence < g.sequence)
  BY <1>4, <1>5 DEF Held, Ascending
<1>12. \A g \in Wanted(p) : g \in Event /\ g.sequence \in Nat /\ Accepts(p, g)
  <2>1. buffer.events[p] \in Seq(Event)
    BY <1>1, BufferFields DEF Inv, TypeOK
  <2>2. \A i \in DOMAIN buffer.events[p] :
          buffer.events[p][i] \in Event /\ buffer.events[p][i].sequence \in Nat
    BY <2>1, AreNumbered
  <2> QED
    BY <2>2 DEF Wanted, Held
<1>13. shown \subseteq shown' /\ shown' \subseteq shown \cup {e}
       /\ (e \in shown' \ shown => e.channel = p) /\ (Accepts(p, e) => e \in shown')
  BY <1>2, <1>8 DEF Accepts
<1>14. \A g \in Wanted(p) : g.sequence <= stream.cursor =>
         g \in shown' \/ (g \in Held(Tail(s)) /\ e.sequence < g.sequence)
  <2> SUFFICES ASSUME NEW g \in Wanted(p), g.sequence <= stream.cursor, g \notin shown'
               PROVE  g \in Held(Tail(s)) /\ e.sequence < g.sequence
    OBVIOUS
  <2>1. g \in Held(s)
    BY <1>3, <1>13 DEF Follows, s
  <2>2. g # e
    BY <1>12, <1>13
  <2> QED
    BY <1>11, <2>1, <2>2
<1>15. \A g \in Wanted(p) : g.sequence <= e.sequence => g \in shown'
  <2> SUFFICES ASSUME NEW g \in Wanted(p), g.sequence <= e.sequence PROVE g \in shown'
    OBVIOUS
  <2>1. g.sequence \in Nat /\ g.sequence <= stream.cursor /\ ~ (e.sequence < g.sequence)
    BY <1>4, <1>6, <1>9, <1>12
  <2> QED
    BY <1>14, <2>1
<1>16. \A g \in Wanted(p), f \in shown' : g.sequence < f.sequence => g \in shown'
  <2> SUFFICES ASSUME NEW g \in Wanted(p), NEW f \in shown', g.sequence < f.sequence
               PROVE  g \in shown'
    OBVIOUS
  <2>1. CASE f \in shown
    BY <1>3, <1>13, <2>1 DEF Follows
  <2>2. CASE f = e
    <3>1. g.sequence <= e.sequence
      BY <1>6, <1>12, <2>2
    <3> QED
      BY <1>15, <3>1
  <2> QED
    BY <1>13, <2>1, <2>2
<1>17. \A f \in shown' : f.channel = p
  BY <1>3, <1>13 DEF Follows
<1>18. stream'.open => \A g \in Wanted(p) :
         g.sequence <= stream'.cursor => g \in shown' \cup Held(stream'.wire)
  BY <1>2, <1>14
<1>19. stream'.cursor < buffer'.next[p] /\ stream'.last < buffer'.next[p]
  BY <1>1, <1>2, <1>3, <1>9 DEF Follows
<1> QED
  BY <1>2, <1>10, <1>15, <1>16, <1>17, <1>18, <1>19 DEF Follows

\* A snapshot fills every hole before its last event.
LEMMA MergeFollows ==
  ASSUME NEW owner \in Owners, Inv(owner), CopiesOK, life = 0, SnapshotsOK, FollowOK,
         MergeSnapshot
  PROVE  FollowOK'
<1> SUFFICES ASSUME NEW p \in Progress, page'.progress = p PROVE Follows(p)'
  BY DEF FollowOK
<1>1. /\ page' = page /\ buffer' = buffer /\ stream' = stream /\ page.progress = p
  BY DEF MergeSnapshot
<1>2. Follows(p)
  BY <1>1 DEF FollowOK
<1>3. PICK s \in snapshots :
        shown' = IF page.progress # s.id THEN shown
                 ELSE Merged({e \in {s.events[i] : i \in DOMAIN s.events} : Accepts(s.id, e)})
  BY DEF MergeSnapshot
<1>4. Wanted(p)' = Wanted(p)
  BY <1>1 DEF Wanted, Accepts
<1>5. CASE s.id # p
  BY <1>1, <1>2, <1>3, <1>4, <1>5 DEF Follows
<1>6. CASE s.id = p
  <2> DEFINE new == {e \in Held(s.events) : Accepts(p, e)}
  <2>1. shown' = Merged(new)
    BY <1>1, <1>3, <1>6 DEF Held
  <2>2. s.events \in Seq(Event)
    BY DEF Inv, TypeOK
  <2>3. Held(s.events) \subseteq Known
    BY <2>2, AreNumbered DEF Held, Known
  <2>4. shown' = shown \cup new
    BY <2>1, <2>3, MergedAdds
  <2>5. \A f \in new : /\ f.channel = p
                       /\ \A e \in Wanted(p) : e.sequence <= f.sequence => e \in new
    BY <1>6 DEF SnapshotsOK, Wanted
  <2> HIDE DEF new
  <2>6. \A f \in new : f.sequence \in Nat
    BY <2>3 DEF new, Known, Event
  <2>7. \A e \in Wanted(p) : e.sequence \in Nat
    <3>1. buffer.events[p] \in Seq(Event)
      BY BufferFields DEF Inv, TypeOK, Key
    <3>2. \A i \in DOMAIN buffer.events[p] : buffer.events[p][i].sequence \in Nat
      BY <3>1, AreNumbered
    <3> QED
      BY <3>2 DEF Wanted, Held
  <2>8. \A e \in Wanted(p), f \in shown' : e.sequence < f.sequence => e \in shown'
    <3> SUFFICES ASSUME NEW e \in Wanted(p), NEW f \in shown', e.sequence < f.sequence
                 PROVE  e \in shown'
      OBVIOUS
    <3>1. CASE f \in shown
      BY <1>2, <2>4, <3>1 DEF Follows
    <3>2. CASE f \in new
      <4>1. e.sequence <= f.sequence
        BY <2>6, <2>7, <3>2
      <4> QED
        BY <2>4, <2>5, <3>2, <4>1
    <3> QED
      BY <2>4, <3>1, <3>2
  <2> QED
    BY <1>1, <1>2, <1>4, <2>4, <2>5, <2>8 DEF Follows
<1> QED
  BY <1>5, <1>6

\* Only logging and restarts change what is kept.
LEMMA EventsStay ==
  ASSUME NEW owner \in Owners, Inv(owner), [Next]_vars, ~Restart, ~ \E a \in Asker : Log(a)
  PROVE  buffer'.events = buffer.events /\ buffer'.next = buffer.next
<1>1. CASE Connect \/ OthersSend \/ \E a \in Asker : Handle(a) \/ Finish(a)
  BY <1>1, BackendKeepsEvents
<1>2. CASE ~ (Connect \/ OthersSend \/ \E a \in Asker : Handle(a) \/ Finish(a))
  BY <1>2 DEF Next, BackendStep, StreamStep, PageStep, Poll, Break, Deliver,
     TakeSnapshot, MergeSnapshot, LoseSnapshot, StartRecovery, ChangeRecovery, Refresh,
     Answer, GiveUp, Reset, ResetAnswered, Reload, vars
<1> QED
  BY <1>1, <1>2

\* What the page follows is followed without a hole by every step of the first life.
LEMMA FollowInductive ==
  ASSUME NEW owner \in Owners, Inv(owner), CopiesOK, life = 0, PersistOK, IdsOK(buffer), WireOK,
         SnapshotsOK, FollowOK, [Next]_vars, ~Restart
  PROVE  FollowOK'
<1>1. CASE \E a \in Asker : Log(a)
  BY <1>1, LogFollows
<1>2. CASE Connect \/ Poll \/ Break \/ Deliver \/ MergeSnapshot \/ StartRecovery
  BY <1>2, ConnectFollows, PollFollows, DeliverFollows, MergeFollows, StartFollows
<1>3. ASSUME ~ \E a \in Asker : Log(a),
             page'.progress \in Progress => page'.progress = page.progress,
             page'.case = page.case \/ page.case = None, stream' = stream, shown' = shown
      PROVE  FollowOK'
  <2>1. buffer'.events = buffer.events /\ buffer'.next = buffer.next
    BY <1>3, EventsStay
  <2> QED
    BY <1>3, <2>1, FollowsStill
<1>4. ASSUME page'.progress \notin Progress PROVE FollowOK'
  BY <1>4 DEF FollowOK
<1>5. /\ page \in Page /\ Progress \cap Case = {} /\ None \notin Progress /\ None \notin Case
      /\ "page" \in Asker /\ stream.to = page.progress
  BY PageFacts, ChannelAssumption
<1>6. CASE \/ \E a \in Asker : Handle(a) \/ Finish(a)
           \/ OthersSend \/ TakeSnapshot \/ LoseSnapshot \/ UNCHANGED vars
  <2>1. UNCHANGED <<page, stream, shown>>
    BY <1>6 DEF Handle, Finish, OthersSend, TakeSnapshot, LoseSnapshot, vars
  <2> QED
    BY <1>1, <1>3, <2>1
<1>7. CASE Refresh \/ GiveUp \/ Answer
  <2>1. /\ page'.progress = page.progress /\ UNCHANGED <<stream, shown>>
        /\ page'.case \in {page.case, handler["page"].case}
        /\ page'.case # page.case => handler["page"].step # "none"
    BY <1>5, <1>7 DEF Refresh, GiveUp, Answer, Finalized, Page
  <2>2. page'.case = page.case \/ page.case = None
    BY <2>1 DEF Inv, PageOK
  <2> QED
    BY <1>1, <1>3, <2>1, <2>2
<1>8. CASE ChangeRecovery
  <2>1. /\ page' = [page EXCEPT !.progress = EnsuredProgress(page.case), !.action = "request"]
        /\ shown' = shown /\ stream' = EnsuredStream(page.case)
    BY <1>8 DEF ChangeRecovery
  <2>2. page'.progress = EnsuredProgress(page.case) /\ page'.case = page.case
    BY <1>5, <2>1 DEF Page
  <2>3. CASE page.progress = None
    <3>1. page'.progress = page.case /\ page.case \in Case \cup {None}
      BY <1>5, <2>2, <2>3 DEF EnsuredProgress, Page
    <3> QED
      BY <1>4, <1>5, <3>1
  <2>4. CASE page.progress # None
    <3>1. page'.progress = page.progress /\ stream' = stream
      BY <2>1, <2>2, <2>4 DEF EnsuredProgress, EnsuredStream
    <3> QED
      BY <1>1, <1>3, <2>1, <2>2, <3>1
  <2> QED
    BY <2>3, <2>4
<1>9. CASE Reset \/ ResetAnswered \/ Reload
  <2>1. page'.progress \in {None, page.case, page.stored}
    BY <1>5, <1>9 DEF Reset, ResetAnswered, Reload, Page, EnsuredProgress, PersistOK
  <2>2. page'.progress \notin Progress
    BY <1>5, <2>1 DEF Page
  <2> QED
    BY <1>4, <2>2
<1> QED
  BY <1>1, <1>2, <1>6, <1>7, <1>8, <1>9 DEF Next, BackendStep, StreamStep, PageStep

\* A snapshot on its way has all that is kept up to its last event, whatever is
\* logged meanwhile.
LEMMA SnapshotsInductive ==
  ASSUME NEW owner \in Owners, Inv(owner), CopiesOK, life = 0, IdsOK(buffer), SnapshotsOK,
         [Next]_vars, ~Restart
  PROVE  SnapshotsOK'
<1>1. CASE \E a \in Asker : Log(a)
  <2>1. PICK k \in Key, e \in Event : Enters(k, e)
    BY <1>1, LogEnters
  <2>2. snapshots' = snapshots
    BY <2>1 DEF Enters
  <2> SUFFICES ASSUME NEW s \in snapshots, s.id \in Progress, NEW f \in Held(s.events),
                      NEW g \in Held(buffer'.events[s.id]), g.sequence <= f.sequence
               PROVE  g \in Held(s.events)
    BY <2>2 DEF SnapshotsOK
  <2>3. f.channel = s.id
    BY DEF SnapshotsOK
  <2>4. g \in Held(buffer.events[s.id]) \/ (g = e /\ s.id = k)
    BY <2>1 DEF Enters, Key
  <2>5. ~ (g = e /\ s.id = k)
    <3>1. s.events \in Seq(Event)
      BY DEF Inv, TypeOK
    <3>2. f \in Known /\ f.sequence \in Nat /\ f.life \in Nat
      <4>1. f \in Event /\ f.sequence \in Nat
        BY <3>1, AreNumbered DEF Held
      <4> QED
        BY <4>1 DEF Known, Event
    <3>3. f.life = life
      BY <3>2 DEF CopiesOK
    <3>4. f.sequence < buffer.next[s.id]
      BY <2>3, <3>2, <3>3 DEF CopiesOK
    <3>5. e.sequence = buffer.next[k] /\ e.sequence \in Nat
      BY <2>1 DEF Enters, Event
    <3> QED
      BY <3>2, <3>4, <3>5
  <2> QED
    BY <2>4, <2>5 DEF SnapshotsOK
<1>2. CASE ~ \E a \in Asker : Log(a)
  <2>1. buffer'.events = buffer.events
    BY <1>2, EventsStay
  <2>2. ASSUME NEW r, snapshots' \subseteq snapshots \cup {r},
               r.id \in Progress => \A f \in Held(r.events) :
                 /\ f.channel = r.id
                 /\ \A e \in Held(buffer.events[r.id]) :
                      e.sequence <= f.sequence => e \in Held(r.events)
        PROVE  SnapshotsOK'
    BY <2>1, <2>2 DEF SnapshotsOK
  <2>3. CASE TakeSnapshot
    <3>1. PICK s \in snapshots : snapshots' = (snapshots \ {s}) \cup
             {[id |-> s.id, taken |-> TRUE, events |-> Snapshot(buffer, s.id)]}
      BY <2>3 DEF TakeSnapshot
    <3> DEFINE r == [id |-> s.id, taken |-> TRUE, events |-> Snapshot(buffer, s.id)]
    <3>2. snapshots' \subseteq snapshots \cup {r} /\ r.id = s.id /\ r.events = Snapshot(buffer, s.id)
      BY <3>1
    <3> HIDE DEF r
    <3>3. ASSUME s.id \in Progress
          PROVE  \A f \in Held(r.events) :
                   /\ f.channel = s.id
                   /\ \A e \in Held(buffer.events[s.id]) :
                        e.sequence <= f.sequence => e \in Held(r.events)
      <4>1. CASE buffer.at[s.id] = None
        <5>1. r.events = <<>>
          BY <3>2, <4>1 DEF Snapshot
        <5> QED
          BY <5>1 DEF Held
      <4>2. CASE buffer.at[s.id] # None
        <5>1. r.events = buffer.events[s.id] /\ s.id \in Key
          BY <3>2, <3>3, <4>2 DEF Snapshot, IdsOK, Key
        <5>2. \A f \in Held(r.events) : f.channel = s.id
          BY <5>1 DEF Inv, BufferOK, IsWindow, Held
        <5> QED
          BY <5>1, <5>2
      <4> QED
        BY <4>1, <4>2
    <3> QED
      BY <2>2, <3>2, <3>3
  <2>4. CASE Refresh \/ Answer \/ GiveUp
    <3>1. PICK p : Finalized(p)
      BY <2>4 DEF Refresh, Answer, GiveUp
    <3> DEFINE r == [id |-> p.progress, taken |-> FALSE, events |-> <<>>]
    <3>2. snapshots' \subseteq snapshots \cup {r}
      BY <3>1 DEF Finalized
    <3>3. Held(r.events) = {}
      BY DEF Held
    <3> HIDE DEF r
    <3> QED
      BY <2>2, <3>2, <3>3
  <2>5. CASE snapshots' \subseteq snapshots
    BY <2>1, <2>5 DEF SnapshotsOK
  <2>6. TakeSnapshot \/ Refresh \/ Answer \/ GiveUp \/ snapshots' \subseteq snapshots
    BY DEF Next, BackendStep, StreamStep, PageStep, Handle, Log, Finish, OthersSend, Restart,
       Connect, Poll, Break, Deliver, MergeSnapshot, LoseSnapshot, StartRecovery,
       ChangeRecovery, Reset, ResetAnswered, Reload, vars
  <2> QED
    BY <2>3, <2>4, <2>5, <2>6
<1> QED
  BY <1>1, <1>2

\* All of it; what is known of the channels holds until the backend restarts.
HoleInv ==
  /\ PersistOK /\ WireOK /\ StampsOK
  /\ life = 0 => AtOK(buffer) /\ SnapshotsOK /\ FollowOK

\* At first nothing is followed.
LEMMA HoleInitially == Init => HoleInv
<1> SUFFICES ASSUME Init PROVE HoleInv
  OBVIOUS
<1>1. PersistOK
  BY KeysAreNotNone, NoHandlerType DEF Init, PersistOK, Busy, Asker
<1>2. WireOK
  BY DEF Init, Closed, Connecting, WireOK, Ascending
<1>3. Known = {}
  BY DEF Init, Known, Held, Empty, Closed, Connecting
<1>4. AtOK(buffer)
  BY NoHandlerType, KeysAreNotNone DEF Init, AtOK, IdsOK, Agrees, Empty, Busy, Asker, Key
<1>5. SnapshotsOK /\ FollowOK
  BY ChannelAssumption DEF Init, SnapshotsOK, FollowOK
<1> QED
  BY <1>1, <1>2, <1>3, <1>4, <1>5 DEF HoleInv, StampsOK

\* It is inductive.
LEMMA HoleInductive ==
  ASSUME IInv, CopiesOK, HoleInv, [Next]_vars
  PROVE  HoleInv'
<1>1. PICK owner \in Owners : Inv(owner)
  BY DEF IInv
<1>2. PersistOK' /\ WireOK' /\ StampsOK'
  BY <1>1, PersistInductive, WireInductive, StampsInductive DEF HoleInv
<1>3. ASSUME life' = 0
      PROVE  AtOK(buffer)' /\ SnapshotsOK' /\ FollowOK'
  <2>1. ~Restart /\ life = 0
    <3>1. life \in Nat
      BY <1>1 DEF Inv, TypeOK
    <3>2. ~Restart
      BY <1>3, <3>1 DEF Restart
    <3>3. life' = life
      BY <3>2 DEF Next, BackendStep, StreamStep, PageStep, Handle, Log, Finish, OthersSend,
         Connect, Poll, Break, Deliver, TakeSnapshot, MergeSnapshot, LoseSnapshot,
         StartRecovery, ChangeRecovery, Refresh, Answer, GiveUp, Reset, ResetAnswered, Reload,
         vars
    <3> QED
      BY <1>3, <3>2, <3>3
  <2>2. AtOK(buffer) /\ SnapshotsOK /\ FollowOK /\ PersistOK /\ WireOK /\ IdsOK(buffer)
    BY <2>1 DEF HoleInv, AtOK
  <2> QED
    BY <1>1, <1>2, <2>1, <2>2, AtInductive, SnapshotsInductive, FollowInductive
<1> QED
  BY <1>2, <1>3 DEF HoleInv

\* Where the invariant holds what is owed came after all that is shown.
LEMMA OwedIsLater ==
  ASSUME IInv, CopiesOK, HoleInv
  PROVE  ShownHasNoHole
<1> SUFFICES ASSUME life = 0, NEW e \in Owed, NEW f \in shown
             PROVE  f.stamp < e.stamp
  BY DEF ShownHasNoHole
<1>1. PICK owner \in Owners : Inv(owner)
  BY DEF IInv
<1> DEFINE id == page.progress
           k == buffer.at[id]
<1>2. /\ id \in Key /\ e \in Held(Snapshot(buffer, id)) /\ Accepts(id, e) /\ e \notin shown
      /\ page \in Page
  BY <1>1, PageFacts DEF Owed, Held, Page
<1>3. k # None
  BY <1>2 DEF Snapshot, Held
<1>4. k \in Progress /\ e \in Held(buffer.events[k]) /\ k \in Key
  BY <1>2, <1>3 DEF HoleInv, AtOK, IdsOK, Snapshot, Key
<1>5. e.channel = k
  BY <1>1, <1>4 DEF Inv, BufferOK, IsWindow, Held
<1>6. id = k
  BY <1>2, <1>5 DEF Accepts
<1>7. Follows(k) /\ e \in Wanted(k)
  BY <1>2, <1>4, <1>6 DEF HoleInv, FollowOK, Wanted
<1> HIDE DEF id, k
<1>8. e \in Known /\ f \in Known /\ f.channel = k
  <2>1. buffer.events[k] \in Seq(Event)
    BY <1>1, <1>4, BufferFields DEF Inv, TypeOK
  <2>2. e \in Event
    BY <1>4, <2>1, AreNumbered DEF Held
  <2>3. f \in Event /\ f.channel = k
    BY <1>1, <1>7 DEF Inv, TypeOK, Follows
  <2> QED
    BY <1>4, <2>2, <2>3 DEF Known
<1>9. /\ e.sequence \in Nat /\ f.sequence \in Nat /\ e.life = f.life
  <2>1. /\ e.life \in Nat /\ f.life \in Nat /\ e.life <= 0 /\ f.life <= 0
        /\ e.sequence \in Nat /\ f.sequence \in Nat
    BY <1>8 DEF CopiesOK, Known, Event
  <2> QED
    BY <2>1
<1>10. ~ (e.sequence < f.sequence)
  BY <1>2, <1>7 DEF Follows
<1>11. e.sequence # f.sequence
  BY <1>2, <1>5, <1>8, <1>9 DEF CopiesOK, SameId
<1>12. f.sequence < e.sequence
  BY <1>9, <1>10, <1>11
<1> QED
  BY <1>5, <1>8, <1>9, <1>12 DEF HoleInv, StampsOK

-----------------------------------------------------------------------------
(* The theorems *)

\* At first nothing is given out, so nothing belongs to any case.
LEMMA Initially == Init => IInv
<1> SUFFICES ASSUME Init PROVE IInv
  OBVIOUS
<1> DEFINE o == [k \in Key |-> IF k \in Case THEN k ELSE None]
<1>1. o \in Owners /\ OwnerOK(o)
  BY KeysAreNotNone DEF Owners, OwnerOK
<1>2. Closed \in Stream /\ Closed.to = None /\ Closed.wire = <<>> /\ ~Closed.open
  BY ConnectingType DEF Closed
<1>3. /\ page \in Page /\ page.progress = None /\ page.case = None /\ page.stored = None
      /\ \A a \in Asker : handler[a].step = "none"
      /\ "page" \in Asker /\ "others" \in Asker
      /\ handler \in [Asker -> HandlerState]
  BY NoHandlerType DEF Init, Page, Asker
<1>4. TypeOK
  BY <1>2, <1>3, EmptyType DEF Init, TypeOK
<1>5. SavedOK /\ StartsOK /\ RunningOK /\ HandlersOK(o)
  BY <1>3 DEF Init, SavedOK, StartsOK, RunningOK, HandlersOK, Busy
<1>6. PageOK(o)
  BY <1>3, KeysAreNotNone DEF Init, PageOK
<1>7. BufferOK(buffer, unused, o)
  <2>1. LeadsOK(Empty, Key, o) /\ FiledOK(Empty, o)
    BY KeysAreNotNone DEF Empty, LeadsOK, FiledOK
  <2> QED
    BY <2>1, EmptyType DEF Init, BufferOK
<1>8. OnTheWayOK(o) /\ ShownOK(o)
  BY <1>2 DEF Init, OnTheWayOK, ShownOK, SentOK
<1> QED
  BY <1>1, <1>4, <1>5, <1>6, <1>7, <1>8 DEF IInv, Inv

\* The invariant is inductive.
LEMMA Inductive == IInv /\ [Next]_vars => IInv'
<1> SUFFICES ASSUME IInv, [Next]_vars PROVE IInv'
  OBVIOUS
<1>1. PICK owner \in Owners : Inv(owner)
  BY DEF IInv
<1>2. CASE StartRecovery
  BY <1>1, <1>2, StartRecoveryKeeps
<1>3. CASE UNCHANGED vars
  <2>1. Inv(owner)'
    BY <1>1, <1>3 DEF vars, Inv, TypeOK, SavedOK, StartsOK, RunningOK, HandlersOK, Busy,
                      PageOK, OnTheWayOK, ShownOK
  <2> QED
    BY <2>1 DEF IInv
<1>4. CASE Next /\ ~StartRecovery
  <2>1. Inv(owner)'
    <3>1. CASE BackendStep
      BY <1>1, <3>1, HandleKeeps, LogKeeps, FinishKeeps, OthersSendKeeps, RestartKeeps
         DEF BackendStep
    <3>2. CASE StreamStep
      BY <1>1, <3>2, ConnectKeeps, PollKeeps, BreakKeeps DEF StreamStep
    <3>3. CASE PageStep
      BY <1>1, <1>4, <3>3, DeliverKeeps, TakeSnapshotKeeps, MergeSnapshotKeeps,
         LoseSnapshotKeeps, ChangeRecoveryKeeps, RefreshKeeps, AnswerKeeps, GiveUpKeeps,
         ResetKeeps, ResetAnsweredKeeps, ReloadKeeps DEF PageStep
    <3> QED
      BY <1>4, <3>1, <3>2, <3>3 DEF Next
  <2> QED
    BY <2>1 DEF IInv
<1> QED
  BY <1>2, <1>3, <1>4

\* The invariant holds in every run of the stream, the backend and the page.
THEOREM Invariance == Spec => []IInv
<1> QED
  BY Initially, Inductive, PTL DEF Spec

\* Every variable keeps its type, and the page shows the progress it follows.
THEOREM TypeCorrect == Spec => []TypeOK
<1>1. IInv => TypeOK
  BY DEF IInv, Inv
<1> QED
  BY <1>1, Invariance, PTL

\* A channel keeps the last of its events without a gap, however the IDs that
\* lead to it are merged (RecoveryProgressBuffer.append).
THEOREM ChannelsKeepTheLast == Spec => []ChannelsAreWindows
<1>1. IInv => ChannelsAreWindows
  BY DEF IInv, Inv, BufferOK, ChannelsAreWindows
<1> QED
  BY <1>1, Invariance, PTL

\* All events of a case are in one channel, although its operations come with
\* IDs of different pages (RecoveryProgressBuffer.start and _attach_locked).
THEOREM CasesKeepTheirChannel == Spec => []OneChannelPerCase
<1>1. IInv => OneChannelPerCase
  BY DEF IInv, Inv, BufferOK, FiledOK, OneChannelPerCase
<1> QED
  BY <1>1, Invariance, PTL

\* What the page shows is of the case it shows (acceptsProgress, replaceProgress).
THEOREM PagesShowTheirCase == Spec => []ShownIsOfTheCase
<1>1. IInv => ShownIsOfTheCase
  BY DEF IInv, Inv, ShownOK, ShownIsOfTheCase
<1> QED
  BY <1>1, Invariance, PTL

\* An id names one event in one life of the backend, always.
LEMMA CopiesInvariance == Spec => []CopiesOK
<1>1. Init => CopiesOK
  <2>1. Init => Known = {}
    BY DEF Init, Known, Held, Empty, Closed, Connecting
  <2> QED
    BY <2>1 DEF CopiesOK
<1>2. IInv /\ IInv' /\ CopiesOK /\ [Next]_vars => CopiesOK'
  BY CopiesInductive
<1> QED
  BY <1>1, <1>2, Invariance, PTL DEF Spec

\* What was shown stays shown, whatever arrives late, twice or in parts, until the
\* page starts anew or a restarted backend uses the id again (mergeProgress).
THEOREM NothingShownIsTaken == Spec => ShownStays
<1>1. IInv /\ CopiesOK /\ [Next]_vars =>
        [\A e \in shown :
           \/ e \in shown'
           \/ shown' = {}
           \/ \E f \in shown' : SameId(e, f) /\ f.life # e.life]_vars
  BY ShownStep DEF Stays
<1> QED
  BY <1>1, CopiesInvariance, Invariance, PTL DEF Spec, ShownStays

\* Until the backend restarts the page is shown what happened in order and without a
\* hole, although the stream and the snapshots overlap, break and are late
\* (progress.py's after and recovery.store.ts's mergeProgress).
THEOREM ProgressHasNoHole == Spec => []ShownHasNoHole
<1>1. IInv /\ CopiesOK /\ HoleInv /\ [Next]_vars => HoleInv'
  BY HoleInductive
<1>2. Spec => []HoleInv
  BY <1>1, HoleInitially, Invariance, CopiesInvariance, PTL DEF Spec
<1>3. IInv /\ CopiesOK /\ HoleInv => ShownHasNoHole
  BY OwedIsLater
<1> QED
  BY <1>2, <1>3, Invariance, CopiesInvariance, PTL
=============================================================================
