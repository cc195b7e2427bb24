------------------------ MODULE ProgressChannelProofs ------------------------
(***************************************************************************)
(* What the operations on the progress channels leave behind, for every    *)
(* buffer, number of IDs and length of a channel.                          *)
(***************************************************************************)
EXTENDS ProgressChannel, FiniteSetTheorems, TLAPS

\* What appending to a sequence leaves alone.
LEMMA AppendFacts ==
  ASSUME NEW S, NEW s \in Seq(S), NEW x \in S
  PROVE  /\ Append(s, x) \in Seq(S)
         /\ Len(Append(s, x)) = Len(s) + 1
         /\ \A i \in 1 .. Len(s) : Append(s, x)[i] = s[i]
         /\ Append(s, x)[Len(s) + 1] = x
OBVIOUS

\* The end of a sequence, from position m on.
LEMMA SuffixFacts ==
  ASSUME NEW S, NEW s \in Seq(S), NEW m \in Nat, m >= 1
  PROVE  LET t == SubSeq(s, m, Len(s)) IN
         /\ t \in Seq(S)
         /\ Len(t) = IF m <= Len(s) THEN Len(s) - m + 1 ELSE 0
         /\ \A i \in 1 .. Len(t) : i + m - 1 \in 1 .. Len(s) /\ t[i] = s[i + m - 1]
OBVIOUS

\* An ID is an ID, of one kind.
LEMMA KeysAreNotNone == None \notin Key /\ Progress \cap Case = {} /\ Case \subseteq Key
BY ChannelAssumption DEF Key

\* The empty buffer is a buffer of windows.
LEMMA EmptyType == Empty \in Buffer /\ \A k \in Key : IsWindow(Empty, k)
<1>1. <<>> \in Seq(Event)
  OBVIOUS
<1>2. Empty \in Buffer
  BY <1>1 DEF Empty, Buffer
<1>3. ASSUME NEW k \in Key PROVE IsWindow(Empty, k)
  <2>1. Empty.events[k] = <<>> /\ Empty.next[k] = 1
    BY DEF Empty
  <2> QED
    BY <2>1, ChannelAssumption DEF IsWindow
<1> QED
  BY <1>2, <1>3

\* The fields of a buffer and nothing else make it up.
LEMMA BufferFields ==
  ASSUME NEW b \in Buffer
  PROVE  /\ b.at \in [Key -> Key \cup {None}] /\ b.case \in [Key -> Case \cup {None}]
         /\ b.events \in [Key -> Seq(Event)] /\ b.next \in [Key -> Nat]
         /\ b = [at |-> b.at, case |-> b.case, events |-> b.events, next |-> b.next]
BY DEF Buffer

\* Every ID leads to a channel, if only to its own.
LEMMA ChannelType ==
  ASSUME NEW b \in Buffer, NEW id \in Key
  PROVE  ChannelAt(b, id) \in Key
BY DEF ChannelAt, Buffer

\* A case without a channel gets this one; nothing else is reached elsewhere.
LEMMA AttachedEffect ==
  ASSUME NEW b \in Buffer, NEW channel \in Key, NEW c \in Case \cup {None}
  PROVE  LET a == Attached(b, channel, c) IN
         /\ a \in Buffer /\ a.events = b.events /\ a.next = b.next
         /\ \A k \in Key : k # c => a.at[k] = b.at[k]
         /\ c # None => a.at[c] = IF b.at[c] = None THEN channel ELSE b.at[c]
<1>1. CASE c = None \/ b.at[c] \notin {None, channel}
  BY <1>1 DEF Attached
<1>2. CASE ~ (c = None \/ b.at[c] \notin {None, channel})
  <2>1. c \in Case /\ c \in Key
    BY <1>2, KeysAreNotNone
  <2>2. Attached(b, channel, c) = [b EXCEPT !.case[channel] = c, !.at[c] = channel]
    BY <1>2 DEF Attached
  <2> DEFINE d == [b EXCEPT !.case[channel] = c, !.at[c] = channel]
             a == Attached(b, channel, c)
  <2>3. /\ a \in Buffer /\ a.events = b.events /\ a.next = b.next
        /\ a.at = [b.at EXCEPT ![c] = channel]
    <3>1. d \in Buffer
      BY <2>1, KeysAreNotNone DEF Buffer
    <3>2. d.at = [b.at EXCEPT ![c] = channel]
      BY <2>1 DEF Buffer
    <3>3. d.events = b.events /\ d.next = b.next
      BY <2>1 DEF Buffer
    <3>4. a = d
      BY <2>2
    <3> HIDE DEF a, d
    <3> QED
      BY <3>1, <3>2, <3>3, <3>4
  <2> HIDE DEF a
  <2>4. /\ \A k \in Key : k # c => a.at[k] = b.at[k]
        /\ a.at[c] = IF b.at[c] = None THEN channel ELSE b.at[c]
    BY <1>2, <2>1, <2>3, BufferFields
  <2> QED
    BY <2>3, <2>4 DEF a
<1> QED
  BY <1>1, <1>2

\* start changes what two IDs lead to, and no event.
LEMMA StartedEffect ==
  ASSUME NEW b \in Buffer, NEW id \in Key, NEW c \in Case \cup {None}
  PROVE  LET s == Started(b, id, c)
             channel == IF c # None /\ b.at[c] # None THEN b.at[c] ELSE ChannelAt(b, id)
         IN  /\ s \in Buffer /\ s.events = b.events /\ s.next = b.next
             /\ channel \in Key
             /\ s.at[id] = channel
             /\ c # None => s.at[c] = channel
             /\ \A k \in Key : k # id /\ k # c => s.at[k] = b.at[k]
<1> DEFINE channel == IF c # None /\ b.at[c] # None THEN b.at[c] ELSE ChannelAt(b, id)
           d == [b EXCEPT !.at[id] = channel]
<1>1. c # None => c \in Key
  BY KeysAreNotNone
<1>2. channel \in Key /\ channel # None
  BY <1>1, ChannelType, KeysAreNotNone DEF Buffer
<1>3. d \in Buffer /\ d.events = b.events /\ d.next = b.next
  BY <1>2 DEF Buffer
<1>4. d.at[id] = channel /\ \A k \in Key : k # id => d.at[k] = b.at[k]
  BY DEF Buffer
<1>5. Started(b, id, c) = Attached(d, channel, c)
  BY DEF Started
<1> HIDE DEF d, channel
<1>6. LET a == Attached(d, channel, c) IN
         /\ a \in Buffer /\ a.events = d.events /\ a.next = d.next
         /\ \A k \in Key : k # c => a.at[k] = d.at[k]
         /\ c # None => a.at[c] = IF d.at[c] = None THEN channel ELSE d.at[c]
  BY <1>2, <1>3, AttachedEffect
<1>7. c # None /\ c # id => d.at[c] = None \/ d.at[c] = channel
  BY <1>1, <1>4 DEF channel
<1> QED
  <2>1. LET s == Started(b, id, c) IN
          /\ s \in Buffer /\ s.events = b.events /\ s.next = b.next
          /\ channel \in Key
          /\ c # None => s.at[c] = channel
          /\ \A k \in Key : k # id /\ k # c => s.at[k] = b.at[k]
    BY <1>1, <1>2, <1>3, <1>4, <1>5, <1>6, <1>7
  <2>2. Started(b, id, c).at[id] = channel
    <3>1. CASE c = id
      BY <1>2, <2>1, <3>1, KeysAreNotNone
    <3>2. CASE c # id
      BY <1>4, <1>5, <1>6, <3>2
    <3> QED
      BY <3>1, <3>2
  <2> QED
    BY <2>1, <2>2 DEF channel

\* Keeping the last events keeps a sequence of events.
LEMMA LastOfType ==
  ASSUME NEW s \in Seq(Event)
  PROVE  /\ LastOf(s) \in Seq(Event)
         /\ Len(s) = MaxProgressEvents + 1 =>
              /\ Len(LastOf(s)) = MaxProgressEvents
              /\ \A i \in 1 .. MaxProgressEvents : LastOf(s)[i] = s[i + 1]
<1>1. MaxProgressEvents \in Nat /\ MaxProgressEvents > 0 /\ Len(s) \in Nat
  BY ChannelAssumption
<1>2. CASE Len(s) <= MaxProgressEvents
  BY <1>1, <1>2 DEF LastOf
<1>3. CASE ~ (Len(s) <= MaxProgressEvents)
  <2> DEFINE m == Len(s) - MaxProgressEvents + 1
             t == SubSeq(s, m, Len(s))
  <2>1. LastOf(s) = t
    BY <1>3 DEF LastOf
  <2>2. m \in Nat /\ m >= 1 /\ m <= Len(s)
    BY <1>1, <1>3
  <2> HIDE DEF m
  <2>3. /\ t \in Seq(Event) /\ Len(t) = Len(s) - m + 1
        /\ \A i \in 1 .. Len(t) : t[i] = s[i + m - 1]
    BY <2>2, SuffixFacts
  <2> HIDE DEF t
  <2>4. Len(s) = MaxProgressEvents + 1 =>
          /\ Len(t) = MaxProgressEvents
          /\ \A i \in 1 .. MaxProgressEvents : t[i] = s[i + 1]
    BY <1>1, <2>3 DEF m
  <2> QED
    BY <2>1, <2>3, <2>4
<1> QED
  BY <1>2, <1>3

\* What is kept was there.
LEMMA LastOfKeeps ==
  ASSUME NEW s \in Seq(Event)
  PROVE  \A i \in DOMAIN LastOf(s) : \E j \in DOMAIN s : LastOf(s)[i] = s[j]
<1>1. MaxProgressEvents \in Nat /\ MaxProgressEvents > 0 /\ Len(s) \in Nat
  BY ChannelAssumption
<1>2. CASE Len(s) <= MaxProgressEvents
  BY <1>2 DEF LastOf
<1>3. CASE ~ (Len(s) <= MaxProgressEvents)
  <2> DEFINE m == Len(s) - MaxProgressEvents + 1
             t == SubSeq(s, m, Len(s))
  <2>1. LastOf(s) = t
    BY <1>3 DEF LastOf
  <2>2. m \in Nat /\ m >= 1
    BY <1>1, <1>3
  <2> HIDE DEF m
  <2>3. t \in Seq(Event) /\ \A i \in 1 .. Len(t) : i + m - 1 \in 1 .. Len(s) /\ t[i] = s[i + m - 1]
    BY <2>2, SuffixFacts
  <2> HIDE DEF t
  <2>4. DOMAIN t = 1 .. Len(t) /\ DOMAIN s = 1 .. Len(s)
    BY <2>3
  <2> QED
    BY <2>1, <2>3, <2>4
<1> QED
  BY <1>2, <1>3

\* What a channel keeps once it got an event.
Entered(b, k, e) == LastOf(Append(b.events[k], e))

\* What an append to a channel does: the channel gets the next event in line,
\* and a case that is named with it leads to the channel.
AppendsTo(b, a, channel, c, of, stamp, time) ==
  /\ a \in Buffer
  /\ channel \in Key
  /\ c # None => a.at[c] = channel
  /\ \A k \in Key : k # c => a.at[k] = b.at[k]
  /\ \E e \in Event :
       /\ e.channel = channel /\ e.sequence = b.next[channel]
       /\ e.of = of /\ e.stamp = stamp /\ e.life = time
       /\ a.events[channel] = Entered(b, channel, e)
  /\ a.next[channel] = b.next[channel] + 1
  /\ \A k \in Key : k # channel => a.events[k] = b.events[k] /\ a.next[k] = b.next[k]

\* append puts one event into the channel of the ID and changes no other.
LEMMA AppendedEffect ==
  ASSUME NEW b \in Buffer, NEW id \in Key, b.at[id] # None,
         NEW c \in Case \cup {None}, c # None => b.at[c] \in {None, b.at[id]},
         NEW of \in Case, NEW stamp \in Nat, NEW time \in Nat
  PROVE  AppendsTo(b, Appended(b, id, c, of, stamp, time), b.at[id], c, of, stamp, time)
<1> DEFINE channel == b.at[id]
           m == Attached([b EXCEPT !.at[id] = channel], channel, c)
           e == [channel |-> channel, sequence |-> m.next[channel],
                 case |-> m.case[channel], of |-> of, stamp |-> stamp, life |-> time]
           n == LastOf(Append(m.events[channel], e))
           a == [m EXCEPT !.next[channel] = @ + 1, !.events[channel] = n]
<1>1. channel \in Key /\ ChannelAt(b, id) = channel
  BY DEF Buffer, ChannelAt
<1>2. [b EXCEPT !.at[id] = channel] = b
  <2> DEFINE d == [b EXCEPT !.at[id] = channel]
  <2>1. channel \in Key /\ b.at[id] = channel
    BY <1>1
  <2> HIDE DEF channel
  <2> QED
    BY <2>1 DEF Buffer
<1>3. /\ m \in Buffer /\ m.events = b.events /\ m.next = b.next
      /\ \A k \in Key : k # c => m.at[k] = b.at[k]
      /\ c # None => m.at[c] = IF b.at[c] = None THEN channel ELSE b.at[c]
  <2>1. m = Attached(b, channel, c)
    BY <1>2
  <2> HIDE DEF m, channel
  <2> QED
    BY <1>1, <2>1, AttachedEffect
<1>4. Appended(b, id, c, of, stamp, time) = a
  BY <1>1 DEF Appended
<1> HIDE DEF m
<1>5. e \in Event
  BY <1>1, <1>3, BufferFields DEF Event
<1> HIDE DEF e
<1>6. n \in Seq(Event)
  <2>1. m.events[channel] \in Seq(Event)
    BY <1>1, <1>3, BufferFields
  <2> QED
    BY <1>5, <2>1, AppendFacts, LastOfType
<1>7. n = LastOf(Append(b.events[channel], e))
  BY <1>3
<1> HIDE DEF n
<1>8. /\ a \in Buffer /\ a.at = m.at /\ a.events = [m.events EXCEPT ![channel] = n]
      /\ a.next = [m.next EXCEPT ![channel] = @ + 1]
  <2>0. m \in Buffer /\ channel \in Key /\ n \in Seq(Event)
    BY <1>1, <1>3, <1>6
  <2> HIDE DEF channel
  <2>1. a \in Buffer
    <3>1. ASSUME NEW v \in Nat
          PROVE [m EXCEPT !.next[channel] = v, !.events[channel] = n] \in Buffer
      BY <2>0 DEF Buffer
    <3>2. m.next[channel] + 1 \in Nat
      BY <2>0 DEF Buffer
    <3> QED
      BY <3>1, <3>2
  <2>2. a.at = m.at
    BY <2>0 DEF Buffer
  <2>3. a.events = [m.events EXCEPT ![channel] = n]
    BY <2>0 DEF Buffer
  <2>4. a.next = [m.next EXCEPT ![channel] = @ + 1]
    BY <2>0 DEF Buffer
  <2> HIDE DEF a
  <2> QED
    BY <2>1, <2>2, <2>3, <2>4
<1>9. a.events = [b.events EXCEPT ![channel] = n] /\ a.next = [b.next EXCEPT ![channel] = @ + 1]
  BY <1>3, <1>8
<1>10. /\ a.events[channel] = Entered(b, channel, e)
       /\ a.next[channel] = b.next[channel] + 1
       /\ \A k \in Key : k # channel => a.events[k] = b.events[k] /\ a.next[k] = b.next[k]
  <2> HIDE DEF channel, a
  <2> QED
    BY <1>1, <1>7, <1>9, BufferFields DEF Entered
<1>11. /\ e.channel = channel /\ e.sequence = b.next[channel]
       /\ e.of = of /\ e.stamp = stamp /\ e.life = time
  BY <1>3 DEF e
<1> HIDE DEF a
<1> QED
  <2>1. AppendsTo(b, a, channel, c, of, stamp, time)
    BY <1>1, <1>3, <1>5, <1>8, <1>10, <1>11 DEF AppendsTo
  <2> QED
    BY <1>4, <2>1 DEF channel

\* The next event in line keeps a channel a window of its events.
LEMMA AppendKeepsWindow ==
  ASSUME NEW b \in Buffer, NEW a \in Buffer, NEW k \in Key, IsWindow(b, k),
         NEW e \in Event, e.channel = k, e.sequence = b.next[k],
         a.events[k] = Entered(b, k, e), a.next[k] = b.next[k] + 1
  PROVE  IsWindow(a, k)
<1> DEFINE old == b.events[k]
           new == Append(old, e)
           last == b.next[k]
<1>1. old \in Seq(Event) /\ last \in Nat /\ Len(old) \in Nat
      /\ MaxProgressEvents \in Nat /\ MaxProgressEvents > 0
  BY BufferFields, ChannelAssumption
<1>2. /\ Len(old) <= MaxProgressEvents /\ Len(old) < last
      /\ \A i \in 1 .. Len(old) :
           old[i].channel = k /\ old[i].sequence = last - 1 - Len(old) + i
  BY <1>1 DEF IsWindow
<1>3. /\ new \in Seq(Event) /\ Len(new) = Len(old) + 1
      /\ \A i \in 1 .. Len(old) : new[i] = old[i]
      /\ new[Len(old) + 1] = e
  BY <1>1, AppendFacts
<1>4. e.channel = k /\ e.sequence = last /\ a.events[k] = LastOf(new) /\ a.next[k] = last + 1
  BY DEF Entered
<1> HIDE DEF old, new, last
<1>5. \A i \in 1 .. Len(old) + 1 :
        new[i].channel = k /\ new[i].sequence = last - 1 - Len(old) + i
  <2> TAKE i \in 1 .. Len(old) + 1
  <2>1. CASE i = Len(old) + 1
    BY <1>1, <1>3, <1>4, <2>1
  <2>2. CASE i # Len(old) + 1
    <3>1. i \in 1 .. Len(old)
      BY <1>1, <2>2
    <3> QED
      BY <1>2, <1>3, <3>1
  <2> QED
    BY <2>1, <2>2
<1>6. CASE Len(new) <= MaxProgressEvents
  <2>1. a.events[k] = new
    BY <1>4, <1>6 DEF LastOf
  <2>2. Len(new) < last + 1 /\ DOMAIN new = 1 .. Len(old) + 1
    BY <1>1, <1>2, <1>3
  <2>3. \A i \in DOMAIN new : /\ new[i].channel = k
                              /\ new[i].sequence = (last + 1) - 1 - Len(new) + i
    <3> TAKE i \in DOMAIN new
    <3>1. i \in Int /\ new[i].channel = k /\ new[i].sequence = last - 1 - Len(old) + i
      BY <1>5, <2>2
    <3> QED
      BY <1>1, <1>3, <3>1
  <2> QED
    BY <1>4, <1>6, <2>1, <2>2, <2>3 DEF IsWindow
<1>7. CASE ~ (Len(new) <= MaxProgressEvents)
  <2>1. Len(old) = MaxProgressEvents
    BY <1>1, <1>2, <1>3, <1>7
  <2>2. /\ LastOf(new) \in Seq(Event) /\ Len(LastOf(new)) = MaxProgressEvents
        /\ \A i \in 1 .. MaxProgressEvents : LastOf(new)[i] = new[i + 1]
    BY <1>1, <1>3, <2>1, LastOfType
  <2>3. \A i \in 1 .. MaxProgressEvents :
          /\ LastOf(new)[i].channel = k
          /\ LastOf(new)[i].sequence = (last + 1) - 1 - MaxProgressEvents + i
    <3> TAKE i \in 1 .. MaxProgressEvents
    <3>1. i + 1 \in 1 .. Len(old) + 1 /\ LastOf(new)[i] = new[i + 1]
      BY <1>1, <2>1, <2>2
    <3>2. /\ LastOf(new)[i].channel = k
          /\ LastOf(new)[i].sequence = last - 1 - Len(old) + (i + 1)
      BY <1>5, <3>1
    <3> QED
      BY <1>1, <2>1, <3>2
  <2> QED
    BY <1>1, <1>2, <1>4, <2>1, <2>2, <2>3 DEF IsWindow
<1> QED
  BY <1>6, <1>7

\* A channel nothing was put into stays a window.
LEMMA SameWindow ==
  ASSUME NEW b, NEW a, NEW k \in Key, IsWindow(b, k),
         a.events[k] = b.events[k], a.next[k] = b.next[k]
  PROVE  IsWindow(a, k)
BY DEF IsWindow

\* A snapshot is made of events that are kept.
LEMMA SnapshotType ==
  ASSUME NEW b \in Buffer, NEW id \in Key
  PROVE  /\ Snapshot(b, id) \in Seq(Event)
         /\ \A i \in DOMAIN Snapshot(b, id) :
              /\ b.at[id] \in Key
              /\ i \in DOMAIN b.events[b.at[id]]
              /\ Snapshot(b, id)[i] = b.events[b.at[id]][i]
<1>1. CASE b.at[id] = None
  BY <1>1 DEF Snapshot
<1>2. CASE b.at[id] # None
  BY <1>2 DEF Snapshot, Buffer
<1> QED
  BY <1>1, <1>2

\* What a reader is sent next is in the channel.
LEMMA AfterType ==
  ASSUME NEW b \in Buffer, NEW id \in Key, NEW n \in Nat
  PROVE  /\ After(b, id, n) \in Seq(Event)
         /\ \A i \in DOMAIN After(b, id, n) :
              \E j \in DOMAIN Snapshot(b, id) : After(b, id, n)[i] = Snapshot(b, id)[j]
<1> DEFINE kept == Snapshot(b, id)
           seen == {i \in DOMAIN kept : kept[i].sequence <= n}
           m == Cardinality(seen)
<1>1. kept \in Seq(Event) /\ Len(kept) \in Nat /\ DOMAIN kept = 1 .. Len(kept)
  BY SnapshotType
<1>2. m \in Nat
  <2>1. IsFiniteSet(1 .. Len(kept))
    BY <1>1, FS_Interval
  <2>2. IsFiniteSet(seen)
    BY <1>1, <2>1, FS_Subset
  <2> QED
    BY <2>2, FS_CardinalityType
<1>3. After(b, id, n) = SubSeq(kept, m + 1, Len(kept))
  BY DEF After
<1> HIDE DEF kept, m
<1>4. /\ SubSeq(kept, m + 1, Len(kept)) \in Seq(Event)
      /\ \A i \in 1 .. Len(SubSeq(kept, m + 1, Len(kept))) :
           i + m \in 1 .. Len(kept) /\ SubSeq(kept, m + 1, Len(kept))[i] = kept[i + m]
  <2> DEFINE u == m + 1
  <2>1. u \in Nat /\ u >= 1
    BY <1>2
  <2> HIDE DEF u
  <2> DEFINE t == SubSeq(kept, u, Len(kept))
  <2>2. /\ t \in Seq(Event)
        /\ \A i \in 1 .. Len(t) : i + u - 1 \in 1 .. Len(kept) /\ t[i] = kept[i + u - 1]
    BY <1>1, <2>1, SuffixFacts
  <2>3. Len(t) \in Nat
    BY <2>2
  <2> HIDE DEF t
  <2>4. \A i \in 1 .. Len(t) : i + u - 1 = i + m
    BY <1>2, <2>3 DEF u
  <2>5. \A i \in 1 .. Len(t) : i + m \in 1 .. Len(kept) /\ t[i] = kept[i + m]
    BY <2>2, <2>4
  <2> QED
    BY <2>2, <2>5 DEF t, u
<1> DEFINE t == SubSeq(kept, m + 1, Len(kept))
<1>5. t \in Seq(Event) /\ DOMAIN t = 1 .. Len(t)
  BY <1>4
<1> QED
  BY <1>1, <1>3, <1>4, <1>5 DEF kept

\* A reader that has seen the events up to number n has seen the first m kept.
HasSeen(kept, n, m) ==
  /\ Cardinality({i \in DOMAIN kept : kept[i].sequence <= n}) = m
  /\ \A i \in DOMAIN kept : kept[i].sequence <= n <=> i <= m

\* As the numbers ascend, what a reader has seen is the beginning of what is kept.
LEMMA SeenIsBeginning ==
  ASSUME NEW b \in Buffer, NEW k \in Key, IsWindow(b, k), NEW n \in Nat
  PROVE  \E m \in 0 .. Len(b.events[k]) : HasSeen(b.events[k], n, m)
<1> DEFINE kept == b.events[k]
           first == b.next[k] - 1 - Len(kept)
           seen == {i \in DOMAIN kept : kept[i].sequence <= n}
           m == IF n <= first THEN 0 ELSE IF n - first >= Len(kept) THEN Len(kept)
                ELSE n - first
<1>1. /\ kept \in Seq(Event) /\ Len(kept) \in Nat /\ DOMAIN kept = 1 .. Len(kept)
      /\ b.next[k] \in Nat
  BY BufferFields
<1>2. first \in Nat /\ \A i \in DOMAIN kept : kept[i].sequence = first + i
  BY <1>1 DEF IsWindow
<1> HIDE DEF kept, first
<1>3. m \in 0 .. Len(kept) /\ \A i \in 1 .. Len(kept) : first + i <= n <=> i <= m
  BY <1>1, <1>2
<1> HIDE DEF m
<1>4. seen = 1 .. m
  BY <1>1, <1>2, <1>3
<1>5. Cardinality(seen) = m
  <2>1. Cardinality(1 .. m) = m
    BY <1>3, FS_Interval
  <2> QED
    BY <1>4, <2>1
<1>6. \A i \in DOMAIN kept : kept[i].sequence <= n <=> i <= m
  BY <1>1, <1>2, <1>3
<1>7. HasSeen(kept, n, m)
  BY <1>5, <1>6 DEF HasSeen
<1> QED
  BY <1>3, <1>7 DEF kept

\* What a reader is sent next is all of the channel past its cursor, in order.
LEMMA AfterIsRest ==
  ASSUME NEW b \in Buffer, NEW id \in Key, NEW k \in Key, b.at[id] = k, IsWindow(b, k),
         NEW n \in Nat
  PROVE  LET t == After(b, id, n) IN
         /\ \A i \in DOMAIN t : n < t[i].sequence /\ t[i].sequence < b.next[k]
         /\ \A i, j \in DOMAIN t : i < j => t[i].sequence < t[j].sequence
         /\ \A i \in DOMAIN b.events[k] :
              b.events[k][i].sequence > n => \E j \in DOMAIN t : t[j] = b.events[k][i]
<1> DEFINE kept == b.events[k]
           first == b.next[k] - 1 - Len(kept)
<1>0. PICK m \in 0 .. Len(kept) : HasSeen(kept, n, m)
  BY SeenIsBeginning
<1>1. /\ m \in 0 .. Len(kept)
      /\ Cardinality({i \in DOMAIN kept : kept[i].sequence <= n}) = m
      /\ \A i \in DOMAIN kept : kept[i].sequence <= n <=> i <= m
  BY <1>0 DEF HasSeen
<1>2. /\ kept \in Seq(Event) /\ Len(kept) \in Nat /\ DOMAIN kept = 1 .. Len(kept)
      /\ b.next[k] \in Nat
  BY BufferFields
<1>3. first \in Nat /\ \A i \in DOMAIN kept : kept[i].sequence = first + i
  BY <1>2 DEF IsWindow
<1>4. b.next[k] = first + Len(kept) + 1
  BY <1>2
<1>5. After(b, id, n) = SubSeq(kept, m + 1, Len(kept))
  BY <1>1, KeysAreNotNone DEF After, Snapshot
<1> HIDE DEF kept, first
<1> DEFINE t == SubSeq(kept, m + 1, Len(kept))
<1>6. /\ DOMAIN t = 1 .. Len(kept) - m
      /\ \A i \in DOMAIN t : i + m \in DOMAIN kept /\ t[i] = kept[i + m]
  BY <1>2
<1> HIDE DEF t
<1>7. \A i \in DOMAIN t : t[i].sequence = first + m + i
  BY <1>1, <1>2, <1>3, <1>6
<1>8. \A i \in DOMAIN t : n < t[i].sequence /\ t[i].sequence < b.next[k]
  <2> TAKE i \in DOMAIN t
  <2>1. i + m \in DOMAIN kept /\ ~ (i + m <= m) /\ t[i] = kept[i + m] /\ i <= Len(kept) - m
        /\ i \in Nat
    BY <1>1, <1>2, <1>6
  <2>2. ~ (kept[i + m].sequence <= n)
    BY <1>1, <2>1
  <2> QED
    BY <1>1, <1>2, <1>3, <1>4, <1>7, <2>1, <2>2
<1>9. \A i, j \in DOMAIN t : i < j => t[i].sequence < t[j].sequence
  <2> TAKE i, j \in DOMAIN t
  <2>1. i \in Nat /\ j \in Nat /\ m \in Nat
    BY <1>2, <1>6
  <2> QED
    BY <1>3, <1>7, <2>1
<1>10. \A i \in DOMAIN kept : kept[i].sequence > n => \E j \in DOMAIN t : t[j] = kept[i]
  <2> SUFFICES ASSUME NEW i \in DOMAIN kept, kept[i].sequence > n
               PROVE  \E j \in DOMAIN t : t[j] = kept[i]
    OBVIOUS
  <2>1. ~ (i <= m)
    <3>1. kept[i].sequence \in Nat
      BY <1>2, <1>3
    <3> QED
      BY <1>1, <3>1
  <2>2. i - m \in DOMAIN t /\ (i - m) + m = i
    BY <1>1, <1>2, <1>6, <2>1
  <2> QED
    BY <1>6, <2>2
<1>11. t = After(b, id, n)
  BY <1>5 DEF t
<1> QED
  BY <1>8, <1>9, <1>10, <1>11 DEF kept

=============================================================================
