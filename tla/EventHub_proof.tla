-------------------------- MODULE EventHub_proof --------------------------
(***************************************************************************)
(* Proofs about EventHub, for any number of clients, any replay window and *)
(* any queue.  The inductive invariant says of every open stream that what *)
(* its client is still to be given, first of the replay and then of the    *)
(* queue, counts on from its bookmark without a hole, and up to the last   *)
(* published event as long as the client is subscribed.                    *)
(***************************************************************************)
EXTENDS EventHub, TLAPS

\* The bookmark is one of this process.
Mine(c) == last[c] # NoMark /\ last[c].process = process

\* The events of s are numbered from n on; what ends a stream ends s.
Counts(s, n) ==
  \A i \in DOMAIN s :
    IF s[i] = End THEN i = Len(s)
    ELSE s[i].process = process /\ s[i].seq = n + i - 1 /\ s[i].seq <= seq

Whole(s) == \A i \in DOMAIN s : s[i] # End

\* The buffer holds the last events of this process.
BufferInv == Len(buffer) <= seq /\ Whole(buffer) /\ Counts(buffer, seq - Len(buffer) + 1)

\* What the client is still given counts from n on.
LineFrom(c, n) ==
  /\ Whole(replay[c])
  /\ Counts(replay[c], n) /\ Counts(queue[c], n + Len(replay[c]))
  /\ Mine(c) => last[c].seq = n - 1
  /\ c \in subscribers =>
       Whole(queue[c]) /\ n + Len(replay[c]) + Len(queue[c]) = seq + 1

LineInv == \A c \in Clients : streaming[c] => \E n \in Nat : LineFrom(c, n)

BookmarkInv ==
  \A c \in Clients : last[c].process <= process /\ (Mine(c) => last[c].seq <= seq)

SubscriberInv == \A c \in subscribers : streaming[c]

\* Every event stands for a change of the bridge or for a connection to it.
NumberInv ==
  /\ seq + Len(feed) + (IF connected \/ closed THEN 0 ELSE 1) <= piState + drops + 1
  /\ ~connected => feed = <<>>
  /\ closed => ~connected /\ ~runner

Inv == /\ TypeOK /\ NumberInv /\ BufferInv /\ BookmarkInv /\ SubscriberInv
       /\ LineInv /\ NoGapInProcess

-----------------------------------------------------------------------------
(* Sequences.                                                               *)

(***************************************************************************)
(* The tail of a sequence has its elements one place earlier.              *)
(***************************************************************************)
LEMMA TailOf ==
  ASSUME NEW S, NEW s \in Seq(S), s # <<>>
  PROVE  /\ Tail(s) \in Seq(S) /\ Len(Tail(s)) = Len(s) - 1 /\ Head(s) = s[1]
         /\ Head(s) \in S /\ Len(s) \in Nat \ {0}
         /\ \A i \in DOMAIN Tail(s) : i + 1 \in DOMAIN s /\ Tail(s)[i] = s[i + 1]
OBVIOUS

(***************************************************************************)
(* A sequence with one element more.                                       *)
(***************************************************************************)
LEMMA AppendOf ==
  ASSUME NEW S, NEW s \in Seq(S), NEW e \in S
  PROVE  /\ Append(s, e) \in Seq(S) /\ Len(Append(s, e)) = Len(s) + 1
         /\ \A i \in DOMAIN Append(s, e) :
              Append(s, e)[i] = IF i = Len(s) + 1 THEN e ELSE s[i]
OBVIOUS

(***************************************************************************)
(* The replay window keeps the last ReplayLimit events (deque(maxlen)).    *)
(***************************************************************************)
LEMMA RetainedOf ==
  ASSUME NEW S, NEW b \in Seq(S), NEW e \in S, Len(b) <= ReplayLimit
  PROVE  /\ Retained(b, e) \in Seq(S)
         /\ Len(Retained(b, e)) <= ReplayLimit
         /\ Len(Retained(b, e)) \in 1..(Len(b) + 1)
         /\ \A i \in DOMAIN Retained(b, e) :
              Retained(b, e)[i] = IF i = Len(Retained(b, e)) THEN e
                                  ELSE b[i + (Len(b) + 1 - Len(Retained(b, e)))]
<1> DEFINE all == Append(b, e)
           from == IF Len(all) > ReplayLimit THEN 2 ELSE 1
           kept == SubSeq(all, from, Len(all))
<1>1. /\ all \in Seq(S) /\ Len(all) = Len(b) + 1
      /\ \A i \in DOMAIN all : all[i] = IF i = Len(b) + 1 THEN e ELSE b[i]
  BY AppendOf
<1>2. from \in {1, 2} /\ from <= Len(all) /\ Len(all) - from + 1 <= ReplayLimit
  BY <1>1, HubBounds
<1> HIDE DEF all, from
<1>3. /\ kept \in Seq(S) /\ Len(kept) = Len(all) - from + 1
      /\ \A i \in DOMAIN kept : kept[i] = all[i + from - 1]
  BY <1>1, <1>2
<1>4. Retained(b, e) = kept
  BY DEF Retained, kept, all, from
<1> HIDE DEF kept
<1>5. /\ Len(kept) \in 1..(Len(b) + 1) /\ Len(kept) <= ReplayLimit
      /\ from = Len(b) + 2 - Len(kept)
  BY <1>1, <1>2, <1>3
<1>6. ASSUME NEW i \in DOMAIN kept
      PROVE  kept[i] = IF i = Len(kept) THEN e ELSE b[i + (Len(b) + 1 - Len(kept))]
  <2>1. i \in 1..Len(kept) /\ i + from - 1 \in DOMAIN all
    BY <1>1, <1>2, <1>3
  <2>2. kept[i] = IF i + from - 1 = Len(b) + 1 THEN e ELSE b[i + from - 1]
    BY <1>1, <1>3, <2>1
  <2>3. i + from - 1 = i + (Len(b) + 1 - Len(kept)) /\ (i + from - 1 = Len(b) + 1 <=> i = Len(kept))
    BY <1>5, <2>1
  <2> QED
    BY <2>2, <2>3
<1> QED
  BY <1>3, <1>4, <1>5, <1>6

(***************************************************************************)
(* What the least member of a set is.                                      *)
(***************************************************************************)
LEMMA MinOf ==
  ASSUME NEW S, S \subseteq Int, NEW m \in S, \A i \in S : m <= i
  PROVE  Min(S) = m
<1>1. Min(S) \in S /\ \A i \in S : Min(S) <= i
  <2>1. \E x \in S : \A y \in S : x <= y
    OBVIOUS
  <2> QED
    BY <2>1, Zenon DEF Min
<1>2. Min(S) <= m /\ m <= Min(S)
  BY <1>1
<1>3. Min(S) \in Int /\ m \in Int
  BY <1>1
<1> HIDE DEF Min
<1> QED
  BY <1>2, <1>3

(***************************************************************************)
(* A subscription replays just the events that follow its position, for    *)
(* the buffer counts up to the last event (subscribe).                     *)
(***************************************************************************)
LEMMA AfterOf ==
  ASSUME TypeOK, BufferInv, NEW mark, mark.seq \in Nat, ~Gap(mark.seq)
  PROVE  /\ After(mark) \in Seq(Events)
         /\ mark.seq > seq => After(mark) = <<>>
         /\ mark.seq <= seq =>
              /\ Len(After(mark)) = seq - mark.seq
              /\ Whole(After(mark)) /\ Counts(After(mark), mark.seq + 1)
<1> DEFINE newer == {i \in DOMAIN buffer : buffer[i].seq > mark.seq}
           first == mark.seq - (seq - Len(buffer)) + 1
<1>1. /\ buffer \in Seq(Events) /\ Len(buffer) \in Nat /\ seq \in Nat
      /\ DOMAIN buffer = 1..Len(buffer) /\ Len(buffer) <= seq
  BY HubBounds DEF TypeOK, BufferInv, Seqs
<1>2. \A i \in DOMAIN buffer :
        /\ buffer[i] # End /\ buffer[i].process = process
        /\ buffer[i].seq = seq - Len(buffer) + i
  BY <1>1 DEF BufferInv, Whole, Counts
<1>3. mark.seq >= seq - Len(buffer)
  <2>1. OldestSeq = seq - Len(buffer) + 1
    <3>1. CASE buffer = <<>>
      BY <1>1, <3>1 DEF OldestSeq
    <3>2. CASE buffer # <<>>
      BY <1>1, <1>2, <3>2 DEF OldestSeq
    <3> QED
      BY <3>1, <3>2
  <2> QED
    BY <1>1, <2>1 DEF Gap
<1>4. newer = first..Len(buffer) /\ first \in Nat \ {0}
  BY <1>1, <1>2, <1>3
<1>5. CASE mark.seq >= seq
  <2>1. newer = {}
    BY <1>1, <1>4, <1>5
  <2>2. After(mark) = <<>>
    BY <2>1 DEF After
  <2> QED
    BY <1>1, <1>5, <2>2 DEF Whole, Counts
<1>6. CASE mark.seq < seq
  <2>1. first \in newer /\ \A i \in newer : first <= i
    BY <1>1, <1>4, <1>6
  <2>2. Min(newer) = first
    <3>1. newer \subseteq Int
      BY <1>1
    <3> HIDE DEF newer, first
    <3> QED
      BY <2>1, <3>1, MinOf
  <2>3. After(mark) = SubSeq(buffer, first, Len(buffer))
    BY <2>1, <2>2 DEF After
  <2> HIDE DEF newer, first
  <2>4. /\ After(mark) \in Seq(Events) /\ Len(After(mark)) = Len(buffer) - first + 1
        /\ \A i \in DOMAIN After(mark) :
             i + first - 1 \in DOMAIN buffer /\ After(mark)[i] = buffer[i + first - 1]
    BY <1>1, <1>4, <2>1, <2>3
  <2>5. Len(After(mark)) = seq - mark.seq
    BY <1>1, <2>4 DEF first
  <2>6. ASSUME NEW i \in DOMAIN After(mark)
        PROVE  /\ After(mark)[i] # End /\ After(mark)[i].process = process
               /\ After(mark)[i].seq = mark.seq + 1 + i - 1
               /\ After(mark)[i].seq <= seq
    <3>1. i \in 1..Len(After(mark))
      BY <2>4
    <3> QED
      BY SMTT(30), <1>1, <1>2, <2>4, <2>5, <3>1 DEF first
  <2> QED
    BY <1>1, <1>6, <2>4, <2>5, <2>6 DEF Whole, Counts
<1> QED
  BY <1>1, <1>5, <1>6

-----------------------------------------------------------------------------
(* Types, numbers and the buffer.                                           *)

(***************************************************************************)
(* What the next event of this process is.                                 *)
(***************************************************************************)
LEMMA EventTypes ==
  ASSUME TypeOK
  PROVE  /\ NoMark = End /\ End \notin Events
         /\ seq \in Nat /\ process \in Nat /\ process # 0 /\ piState \in Nat /\ drops \in Nat
         /\ \A n \in Seqs, s \in States : Event(process, n, s) \in Events
         /\ 0 \in Seqs /\ 0 \in States
         /\ \A p, n, s : /\ Event(p, n, s).process = p /\ Event(p, n, s).seq = n
                        /\ Event(p, n, s).state = s
         /\ \A e \in Events : e.process \in Nat \ {0} /\ e.seq \in Nat
<1>1. Seqs \subseteq Nat /\ 0 \in Seqs
  <2>1. (MaxChanges + MaxDrops + 1) * (MaxRestarts + 1) \in Nat
    BY HubBounds
  <2> QED
    BY <2>1 DEF Seqs
<1>2. 0 \in States
  BY HubBounds DEF States
<1>3. \A p, n, s : /\ Event(p, n, s).process = p /\ Event(p, n, s).seq = n
                   /\ Event(p, n, s).state = s
  BY DEF Event
<1>4. seq \in Nat /\ process \in 1..(MaxRestarts + 1) /\ piState \in Nat /\ drops \in Nat
  BY <1>1, HubBounds DEF TypeOK, States
<1>5. ASSUME NEW e \in Events PROVE e.process \in Nat \ {0} /\ e.seq \in Nat
  <2>1. e.process \in 1..(MaxRestarts + 1) /\ e.seq \in Seqs
    BY DEF Events
  <2>2. \A k \in 1..(MaxRestarts + 1) : k \in Nat \ {0}
    BY HubBounds
  <2> QED
    BY <1>1, <2>1, <2>2
<1>6. \A n \in Seqs, s \in States : Event(process, n, s) \in Events
  BY <1>4 DEF Events, Event
<1>7. NoMark = End /\ End \notin Events
  <2>1. End.process = 0 /\ NoMark = End
    BY <1>3 DEF NoMark, End
  <2> QED
    BY <1>5, <2>1
<1> QED
  BY <1>1, <1>2, <1>3, <1>4, <1>5, <1>6, <1>7, HubBounds

(***************************************************************************)
(* The bound on the numbers of events is never reached by more.            *)
(***************************************************************************)
LEMMA NextNumber ==
  ASSUME TypeOK, NumberInv, feed # <<>>
  PROVE  seq + 1 \in Seqs
<1>1. Len(feed) \in Nat \ {0}
  BY DEF TypeOK
<1>2. seq + 1 <= MaxChanges + MaxDrops + 1
  BY <1>1, HubBounds, EventTypes DEF TypeOK, NumberInv, States
<1>3. MaxChanges + MaxDrops + 1 <= (MaxChanges + MaxDrops + 1) * (MaxRestarts + 1)
  <2>1. ASSUME NEW a \in Nat, NEW b \in Nat PROVE a <= a * (b + 1)
    <3>1. a * (b + 1) = a * b + a /\ a * b \in Nat
      OBVIOUS
    <3> QED
      BY <3>1
  <2> QED
    BY <2>1, HubBounds
<1>4. (MaxChanges + MaxDrops + 1) * (MaxRestarts + 1) \in Nat
  BY HubBounds
<1> QED
  BY <1>2, <1>3, <1>4, HubBounds, EventTypes DEF Seqs

(***************************************************************************)
(* Every step keeps the types, the size of the replay window and of the    *)
(* queues included.                                                        *)
(***************************************************************************)
LEMMA TypeStep == TypeOK /\ NumberInv /\ BufferInv /\ [Next]_vars => TypeOK'
<1> SUFFICES ASSUME TypeOK, NumberInv, BufferInv, [Next]_vars PROVE TypeOK'
  OBVIOUS
<1> USE DEF hubVars, sourceVars, clientVars
<1>0. End \in Events \cup {End} /\ NoMark \in Events \cup {NoMark}
  OBVIOUS
<1>1. CASE PiChanges
  <2>1. piState' \in States
    BY <1>1, HubBounds DEF PiChanges, TypeOK, States
  <2>2. feed' \in Seq(States)
    <3>1. Append(feed, piState') \in Seq(States)
      BY <2>1, AppendOf DEF TypeOK
    <3> QED
      BY <1>1, <3>1 DEF PiChanges, TypeOK
  <2> QED
    BY <1>1, <2>1, <2>2 DEF PiChanges, TypeOK
<1>2. CASE Connect
  <2>1. feed' \in Seq(States)
    BY <1>2 DEF Connect, TypeOK
  <2> QED
    BY <1>2, <2>1 DEF Connect, TypeOK
<1>3. CASE ConnectionLost
  <2>1. feed' \in Seq(States) /\ drops' \in 0..MaxDrops
    BY <1>3, HubBounds DEF ConnectionLost, TypeOK
  <2> QED
    BY <1>3, <2>1 DEF ConnectionLost, TypeOK
<1>4. CASE Publish
  <2> DEFINE e == Event(process, seq + 1, Head(feed))
             full == {c \in subscribers : Len(queue[c]) >= QueueLimit}
  <2>1. seq' \in Seqs
    BY <1>4, NextNumber DEF Publish
  <2>2. feed' \in Seq(States) /\ e \in Events
    BY <1>4, TailOf, NextNumber, EventTypes DEF Publish, TypeOK
  <2>3. buffer' \in Seq(Events) /\ Len(buffer') <= ReplayLimit
    <3>1. buffer' = Retained(buffer, e)
      BY <1>4 DEF Publish
    <3> HIDE DEF e
    <3> QED
      BY <2>2, <3>1, RetainedOf DEF TypeOK
  <2>4. queue' = [c \in Clients |->
                    IF c \in full THEN <<End>>
                    ELSE IF c \in subscribers THEN Append(queue[c], e) ELSE queue[c]]
        /\ subscribers' = subscribers \ full
    BY <1>4 DEF Publish
  <2>5. ASSUME NEW c \in Clients
        PROVE  queue'[c] \in Seq(Events \cup {End}) /\ Len(queue'[c]) <= QueueLimit
    <3> HIDE DEF e
    <3>0. queue[c] \in Seq(Events \cup {End}) /\ Len(queue[c]) <= QueueLimit
      BY DEF TypeOK
    <3>1. CASE c \in full
      <4>1. queue'[c] = <<End>>
        BY <2>4, <3>1
      <4> QED
        BY <4>1, <1>0, HubBounds
    <3>2. CASE c \notin full /\ c \in subscribers
      <4>1. queue'[c] = Append(queue[c], e) /\ ~(Len(queue[c]) >= QueueLimit)
        BY <2>4, <3>2
      <4>2. Append(queue[c], e) \in Seq(Events \cup {End})
            /\ Len(Append(queue[c], e)) = Len(queue[c]) + 1
        BY <2>2, <3>0, AppendOf
      <4> QED
        BY <3>0, <4>1, <4>2, HubBounds
    <3>3. CASE c \notin full /\ c \notin subscribers
      BY <2>4, <3>0, <3>3
    <3> QED
      BY <3>1, <3>2, <3>3
  <2>6. queue' \in [Clients -> Seq(Events \cup {End})]
    BY <2>4, <2>5
  <2> HIDE DEF e, full
  <2> QED
    BY <1>4, <2>1, <2>2, <2>3, <2>4, <2>5, <2>6 DEF Publish, TypeOK
<1>5. ASSUME NEW c \in Clients, SubscribeFresh(c) \/ SubscribeAfter(c) \/ SubscribeRefused(c)
      PROVE  TypeOK'
  <2>1. CASE SubscribeFresh(c)
    <3>1. <<>> \in Seq(Events) /\ <<>> \in Seq(Events \cup {End})
      OBVIOUS
    <3> QED
      BY <2>1, <3>1, HubBounds DEF SubscribeFresh, Relay, TypeOK
  <2>2. CASE SubscribeAfter(c)
    <3> DEFINE mark == IF last[c] = NoMark THEN Event(process, 0, 0) ELSE last[c]
    <3>1. mark \in Events
      BY EventTypes DEF TypeOK
    <3>2. ~Gap(mark.seq) /\ Relay(c, After(mark)) /\ last' = [last EXCEPT ![c] = mark]
      BY <2>2 DEF SubscribeAfter
    <3> HIDE DEF mark
    <3>3. After(mark) \in Seq(Events) /\ <<>> \in Seq(Events \cup {End})
      BY <3>1, <3>2, AfterOf, EventTypes
    <3> QED
      BY <3>1, <3>2, <3>3, HubBounds DEF Relay, TypeOK
  <2>3. CASE SubscribeRefused(c)
    BY <2>3 DEF SubscribeRefused, TypeOK
  <2> QED
    BY <1>5, <2>1, <2>2, <2>3
<1>6. ASSUME NEW c \in Clients, RelayReplay(c) PROVE TypeOK'
  <2>1. /\ Tail(replay[c]) \in Seq(Events) /\ Head(replay[c]) \in Events
    BY <1>6, TailOf DEF RelayReplay, TypeOK
  <2>2. holes' \in [Clients -> SUBSET {"gap", "foreign"}]
    BY <1>6 DEF RelayReplay, Deliver, TypeOK
  <2> QED
    BY <1>6, <2>1, <2>2 DEF RelayReplay, Deliver, TypeOK
<1>7. ASSUME NEW c \in Clients, RelayQueued(c) PROVE TypeOK'
  <2>1. /\ Tail(queue[c]) \in Seq(Events \cup {End}) /\ Head(queue[c]) \in Events
        /\ Len(Tail(queue[c])) <= QueueLimit
    <3>1. queue[c] \in Seq(Events \cup {End}) /\ queue[c] # <<>> /\ Head(queue[c]) # End
          /\ Len(queue[c]) <= QueueLimit
      BY <1>7 DEF RelayQueued, TypeOK
    <3>2. /\ Tail(queue[c]) \in Seq(Events \cup {End}) /\ Head(queue[c]) \in Events \cup {End}
          /\ Len(Tail(queue[c])) = Len(queue[c]) - 1 /\ Len(queue[c]) \in Nat
      BY <3>1, TailOf
    <3> QED
      BY <3>1, <3>2, HubBounds
  <2>2. holes' \in [Clients -> SUBSET {"gap", "foreign"}]
    BY <1>7 DEF RelayQueued, Deliver, TypeOK
  <2> QED
    BY <1>7, <2>1, <2>2 DEF RelayQueued, Deliver, TypeOK
<1>8. ASSUME NEW c \in Clients, RelayEnds(c) \/ ClientLeaves(c) PROVE TypeOK'
  <2>1. Left(c)
    BY <1>8 DEF RelayEnds, ClientLeaves
  <2>2. <<>> \in Seq(Events) /\ <<>> \in Seq(Events \cup {End}) /\ Len(<<>>) = 0
    OBVIOUS
  <2> QED
    BY <2>1, <2>2, HubBounds DEF Left, TypeOK
<1>9. CASE Close
  <2>1. ASSUME NEW c \in Clients
        PROVE  queue'[c] \in Seq(Events \cup {End}) /\ Len(queue'[c]) <= QueueLimit
    <3>0. queue[c] \in Seq(Events \cup {End}) /\ Len(queue[c]) <= QueueLimit
      BY DEF TypeOK
    <3>1. CASE c \in subscribers /\ Len(queue[c]) < QueueLimit
      <4>1. queue'[c] = Append(queue[c], End)
        BY <1>9, <3>1 DEF Close
      <4>2. Append(queue[c], End) \in Seq(Events \cup {End})
            /\ Len(Append(queue[c], End)) = Len(queue[c]) + 1 /\ Len(queue[c]) \in Nat
        BY <1>0, <3>0, AppendOf
      <4> QED
        BY <3>1, <4>1, <4>2, HubBounds
    <3>2. CASE ~(c \in subscribers /\ Len(queue[c]) < QueueLimit)
      BY <1>9, <3>0, <3>2 DEF Close
    <3> QED
      BY <3>1, <3>2
  <2>2. queue' \in [Clients -> Seq(Events \cup {End})]
    BY <1>9, <2>1 DEF Close
  <2>3. <<>> \in Seq(States)
    OBVIOUS
  <2> QED
    BY <1>9, <2>1, <2>2, <2>3 DEF Close, TypeOK
<1>10. CASE Restart
  <2>1. process' \in 1..(MaxRestarts + 1) /\ seq' \in Seqs
    BY <1>10, HubBounds, EventTypes DEF Restart, TypeOK
  <2>2. <<>> \in Seq(States) /\ <<>> \in Seq(Events) /\ <<>> \in Seq(Events \cup {End})
        /\ Len(<<>>) = 0
    OBVIOUS
  <2>3. last' \in [Clients -> Events \cup {NoMark}]
    BY <1>10 DEF Restart, TypeOK
  <2>4. replay' \in [Clients -> Seq(Events)] /\ queue' \in [Clients -> Seq(Events \cup {End})]
    BY <1>10, <2>2 DEF Restart
  <2>5. \A c \in Clients : Len(queue'[c]) <= QueueLimit
    BY <1>10, <2>2, HubBounds DEF Restart
  <2>6. buffer' \in Seq(Events) /\ Len(buffer') <= ReplayLimit /\ feed' \in Seq(States)
    BY <1>10, <2>2, HubBounds DEF Restart
  <2>7. streaming' \in [Clients -> BOOLEAN] /\ runner' \in BOOLEAN /\ closed' \in BOOLEAN
        /\ connected' \in BOOLEAN /\ subscribers' \subseteq Clients
    BY <1>10 DEF Restart
  <2> QED
    BY <1>10, <2>1, <2>3, <2>4, <2>5, <2>6, <2>7 DEF Restart, TypeOK
<1>11. CASE UNCHANGED vars
  BY <1>11 DEF vars, TypeOK
<1> QED
  BY <1>1, <1>2, <1>3, <1>4, <1>5, <1>6, <1>7, <1>8, <1>9, <1>10, <1>11
     DEF Next, Subscribe, RelayStep

(***************************************************************************)
(* A number is given only to a change of the bridge or to the snapshot of  *)
(* a connection, and a closed hub neither reads nor connects (_run, close).*)
(***************************************************************************)
LEMMA NumberStep == TypeOK /\ NumberInv /\ [Next]_vars => NumberInv'
<1> SUFFICES ASSUME TypeOK, NumberInv, [Next]_vars PROVE NumberInv'
  OBVIOUS
<1> DEFINE idle(a, b) == IF a \/ b THEN 0 ELSE 1
<1>0. /\ seq \in Nat /\ piState \in Nat /\ drops \in Nat /\ feed \in Seq(States)
      /\ Len(feed) \in Nat
      /\ seq + Len(feed) + idle(connected, closed) <= piState + drops + 1
      /\ ~connected => feed = <<>>
      /\ closed => ~connected /\ ~runner
  BY EventTypes DEF TypeOK, NumberInv
<1>1. CASE PiChanges
  <2>1. Len(feed') <= Len(feed) + 1 /\ Len(feed') \in Nat /\ (~connected => feed' = feed)
    <3>1. CASE connected
      BY <1>0, <1>1, <3>1 DEF PiChanges
    <3>2. CASE ~connected
      BY <1>0, <1>1, <3>2 DEF PiChanges
    <3> QED
      BY <3>1, <3>2
  <2>2. piState' = piState + 1 /\ UNCHANGED <<seq, drops, connected, closed, runner>>
    BY <1>1 DEF PiChanges, hubVars
  <2> QED
    BY <1>0, <2>1, <2>2 DEF NumberInv
<1>2. CASE Connect
  <2>1. Len(feed) = 0 /\ ~closed /\ ~connected
    BY <1>0, <1>2 DEF Connect
  <2>2. Len(feed') = 1 /\ connected' /\ UNCHANGED <<seq, piState, drops, closed, runner>>
    BY <1>2 DEF Connect, hubVars
  <2> QED
    BY <1>0, <2>1, <2>2 DEF NumberInv
<1>3. CASE ConnectionLost
  <2>1. feed' = <<>> /\ drops' = drops + 1 /\ ~connected' /\ connected
        /\ UNCHANGED <<seq, piState, closed, runner>>
    BY <1>3 DEF ConnectionLost, hubVars
  <2> QED
    BY <1>0, <2>1 DEF NumberInv
<1>4. CASE Publish
  <2>1. seq' = seq + 1 /\ feed # <<>> /\ feed' = Tail(feed)
        /\ UNCHANGED <<runner, closed, piState, connected, drops>>
    BY <1>4 DEF Publish
  <2>2. Len(feed') = Len(feed) - 1
    BY <1>0, <2>1, TailOf
  <2> QED
    BY <1>0, <2>1, <2>2 DEF NumberInv
<1>5. ASSUME NEW c \in Clients, SubscribeFresh(c) \/ SubscribeAfter(c) \/ SubscribeRefused(c)
      PROVE  NumberInv'
  <2>1. UNCHANGED <<seq, closed, sourceVars>> /\ ~closed
    BY <1>5 DEF SubscribeFresh, SubscribeAfter, SubscribeRefused, Relay, Serving
  <2> QED
    BY <1>0, <2>1 DEF NumberInv, sourceVars
<1>6. ASSUME NEW c \in Clients, RelayStep(c) \/ ClientLeaves(c) PROVE NumberInv'
  <2>1. UNCHANGED <<seq, runner, closed, sourceVars>>
    BY <1>6 DEF RelayStep, RelayReplay, RelayQueued, RelayEnds, ClientLeaves, Left, hubVars
  <2> QED
    BY <1>0, <2>1 DEF NumberInv, sourceVars
<1>7. CASE Close
  <2>1. feed' = <<>> /\ ~connected' /\ ~runner' /\ closed' /\ UNCHANGED <<seq, piState, drops>>
    BY <1>7 DEF Close
  <2>2. Len(feed') = 0
    BY <2>1
  <2> QED
    BY <1>0, <2>1, <2>2 DEF NumberInv
<1>8. CASE Restart
  <2>1. feed' = <<>> /\ ~connected' /\ ~runner' /\ ~closed' /\ seq' = 0
        /\ UNCHANGED <<piState, drops>>
    BY <1>8 DEF Restart
  <2>2. Len(feed') = 0
    BY <2>1
  <2> QED
    BY <1>0, <2>1, <2>2 DEF NumberInv
<1>9. CASE UNCHANGED vars
  BY <1>0, <1>9 DEF NumberInv, vars, hubVars, sourceVars
<1> QED
  BY <1>1, <1>2, <1>3, <1>4, <1>5, <1>6, <1>7, <1>8, <1>9 DEF Next, Subscribe

(***************************************************************************)
(* The buffer counts up to the last event, whatever falls out of it.       *)
(***************************************************************************)
LEMMA BufferStep == TypeOK /\ NumberInv /\ BufferInv /\ [Next]_vars => BufferInv'
<1> SUFFICES ASSUME TypeOK, NumberInv, BufferInv, [Next]_vars PROVE BufferInv'
  OBVIOUS
<1>0. buffer \in Seq(Events) /\ seq \in Nat /\ Len(buffer) \in Nat /\ Len(buffer) <= seq
  BY EventTypes DEF TypeOK, BufferInv
<1>a. ASSUME UNCHANGED <<process, seq, buffer>> PROVE BufferInv'
  BY <1>a DEF BufferInv, Whole, Counts
<1>1. CASE Publish
  <2> DEFINE e == Event(process, seq + 1, Head(feed))
  <2>1. seq' = seq + 1 /\ process' = process /\ buffer' = Retained(buffer, e)
    BY <1>1 DEF Publish
  <2>2. e \in Events /\ e.process = process /\ e.seq = seq + 1
    BY SMTT(30), <1>1, TailOf, NextNumber, EventTypes DEF Publish, TypeOK
  <2> HIDE DEF e
  <2>3. /\ Len(buffer') \in 1..(Len(buffer) + 1)
        /\ \A i \in DOMAIN buffer' :
             buffer'[i] = IF i = Len(buffer') THEN e
                          ELSE buffer[i + (Len(buffer) + 1 - Len(buffer'))]
        /\ buffer' \in Seq(Events)
    <3>1. Len(buffer) <= ReplayLimit
      BY DEF TypeOK
    <3>2. /\ Retained(buffer, e) \in Seq(Events)
          /\ Len(Retained(buffer, e)) \in 1..(Len(buffer) + 1)
          /\ \A i \in DOMAIN Retained(buffer, e) :
               Retained(buffer, e)[i] =
                 IF i = Len(Retained(buffer, e)) THEN e
                 ELSE buffer[i + (Len(buffer) + 1 - Len(Retained(buffer, e)))]
      BY <1>0, <2>2, <3>1, RetainedOf
    <3> QED
      BY <2>1, <3>2
  <2>4. ASSUME NEW i \in DOMAIN buffer'
        PROVE  /\ buffer'[i] # End /\ buffer'[i].process = process'
               /\ buffer'[i].seq = seq' - Len(buffer') + i
    <3>1. i \in 1..Len(buffer')
      BY <2>3
    <3>2. CASE i = Len(buffer')
      BY <1>0, <2>1, <2>2, <2>3, <3>1, <3>2, EventTypes
    <3>3. CASE i # Len(buffer')
      <4> DEFINE j == i + (Len(buffer) + 1 - Len(buffer'))
      <4>1. j \in DOMAIN buffer /\ buffer'[i] = buffer[j]
        BY <1>0, <2>3, <3>1, <3>3
      <4>2. buffer[j] # End /\ buffer[j].process = process
            /\ buffer[j].seq = seq - Len(buffer) + 1 + j - 1
        BY <4>1 DEF BufferInv, Whole, Counts
      <4> QED
        BY <1>0, <2>1, <2>3, <3>1, <4>1, <4>2
    <3> QED
      BY <3>2, <3>3
  <2>5. DOMAIN buffer' = 1..Len(buffer') /\ Len(buffer') <= seq'
    BY <1>0, <2>1, <2>3
  <2> QED
    BY <1>0, <2>1, <2>3, <2>4, <2>5 DEF BufferInv, Whole, Counts
<1>2. CASE Restart
  <2>1. buffer' = <<>> /\ seq' = 0
    BY <1>2 DEF Restart
  <2> QED
    BY <2>1 DEF BufferInv, Whole, Counts
<1>3. CASE PiChanges \/ Connect \/ ConnectionLost \/ Close
  BY <1>a, <1>3 DEF PiChanges, Connect, ConnectionLost, Close, hubVars
<1>4. ASSUME NEW c \in Clients, Subscribe(c) \/ RelayStep(c) \/ ClientLeaves(c)
      PROVE  BufferInv'
  BY <1>a, <1>4 DEF Subscribe, SubscribeFresh, SubscribeAfter, SubscribeRefused, Relay,
       RelayStep, RelayReplay, RelayQueued, RelayEnds, ClientLeaves, Left, hubVars
<1>5. CASE UNCHANGED vars
  BY <1>a, <1>5 DEF vars, hubVars
<1> QED
  BY <1>1, <1>2, <1>3, <1>4, <1>5 DEF Next

-----------------------------------------------------------------------------
(* What a client is still given.                                            *)

(***************************************************************************)
(* A step that touches neither the client nor the hub's numbers leaves its *)
(* line as it is.                                                          *)
(***************************************************************************)
LEMMA LineFrame ==
  ASSUME NEW c \in Clients, NEW n, LineFrom(c, n),
         process' = process, seq' = seq, replay'[c] = replay[c], queue'[c] = queue[c],
         last'[c] = last[c], c \in subscribers' => c \in subscribers
  PROVE  LineFrom(c, n)'
BY DEF LineFrom, Counts, Whole, Mine

(***************************************************************************)
(* The next event a client is given, from the replay or from the queue, is *)
(* the one its bookmark calls for.                                         *)
(***************************************************************************)
LEMMA NextOfLine ==
  ASSUME NEW s \in Seq(Events \cup {End}), NEW m \in Nat, Counts(s, m),
         s # <<>>, Head(s) # End
  PROVE  /\ Head(s).process = process /\ Head(s).seq = m /\ Head(s).seq <= seq
         /\ Counts(Tail(s), m + 1) /\ (Whole(s) => Whole(Tail(s)))
         /\ Len(Tail(s)) = Len(s) - 1
<1>1. /\ Tail(s) \in Seq(Events \cup {End}) /\ Len(Tail(s)) = Len(s) - 1 /\ Head(s) = s[1]
      /\ Len(s) \in Nat \ {0}
      /\ \A i \in DOMAIN Tail(s) : i + 1 \in DOMAIN s /\ Tail(s)[i] = s[i + 1]
  BY TailOf
<1>2. 1 \in DOMAIN s
  BY <1>1
<1>3. Head(s).process = process /\ Head(s).seq = m /\ Head(s).seq <= seq
  BY <1>1, <1>2 DEF Counts
<1>4. ASSUME NEW i \in DOMAIN Tail(s)
      PROVE  IF Tail(s)[i] = End THEN i = Len(Tail(s))
             ELSE /\ Tail(s)[i].process = process /\ Tail(s)[i].seq = m + 1 + i - 1
                  /\ Tail(s)[i].seq <= seq
  <2>1. i \in Nat
    BY <1>1
  <2>a. i + 1 \in DOMAIN s /\ Tail(s)[i] = s[i + 1]
    BY <1>1
  <2>2. CASE Tail(s)[i] = End
    <3>1. s[i + 1] = End
      BY <2>a, <2>2
    <3>2. i + 1 = Len(s)
      BY <2>a, <3>1, Zenon DEF Counts
    <3>3. Len(Tail(s)) = Len(s) - 1
      BY <1>1
    <3>4. i = Len(Tail(s))
      BY <2>1, <3>2, <3>3
    <3> QED
      BY <2>2, <3>4
  <2>3. CASE Tail(s)[i] # End
    <3>1. /\ s[i + 1].process = process /\ s[i + 1].seq = m + (i + 1) - 1
          /\ s[i + 1].seq <= seq
      BY <2>a, <2>3 DEF Counts
    <3>2. m + (i + 1) - 1 = m + 1 + i - 1
      BY <2>1
    <3> QED
      BY <2>a, <2>3, <3>1, <3>2
  <2> QED
    BY <2>2, <2>3
<1>5. Whole(s) => Whole(Tail(s))
  BY <1>1 DEF Whole
<1> QED
  BY <1>1, <1>3, <1>4, <1>5 DEF Counts

(***************************************************************************)
(* A client's bookmark is of this process or of an earlier one, and of     *)
(* this one only events that were published.                               *)
(***************************************************************************)
LEMMA BookmarkStep ==
  TypeOK /\ BookmarkInv /\ LineInv /\ [Next]_vars => BookmarkInv'
<1> SUFFICES ASSUME TypeOK, BookmarkInv, LineInv, [Next]_vars, NEW d \in Clients
             PROVE  last'[d].process <= process' /\ (Mine(d)' => last'[d].seq <= seq')
  BY DEF BookmarkInv
<1>0. /\ seq \in Nat /\ process \in Nat \ {0}
      /\ last[d].process <= process /\ (Mine(d) => last[d].seq <= seq)
      /\ last \in [Clients -> Events \cup {NoMark}]
  BY EventTypes DEF BookmarkInv, TypeOK
<1>a. ASSUME process' = process, seq' = seq \/ seq' = seq + 1, last'[d] = last[d]
      PROVE  last'[d].process <= process' /\ (Mine(d)' => last'[d].seq <= seq')
  <2>1. Mine(d)' => Mine(d) /\ last[d].seq \in Nat
    BY <1>0, <1>a, EventTypes DEF Mine, TypeOK
  <2> QED
    BY <1>0, <1>a, <2>1
<1>1. CASE Publish
  BY <1>1, <1>a DEF Publish
<1>2. CASE PiChanges \/ Connect \/ ConnectionLost \/ Close \/ UNCHANGED vars
  BY <1>a, <1>2 DEF PiChanges, Connect, ConnectionLost, Close, vars, hubVars, clientVars
<1>3. CASE Restart
  <2>1. process' = process + 1 /\ last'[d] \in {NoMark, last[d]}
    BY <1>3 DEF Restart
  <2>2. NoMark.process = 0
    BY EventTypes DEF NoMark
  <2>3. last[d].process \in Nat
    BY <1>0, <2>2, EventTypes
  <2> QED
    BY <1>0, <2>1, <2>2, <2>3 DEF Mine
<1>4. ASSUME NEW c \in Clients, SubscribeFresh(c) \/ RelayEnds(c) \/ ClientLeaves(c)
      PROVE  last'[d].process <= process' /\ (Mine(d)' => last'[d].seq <= seq')
  BY <1>a, <1>4 DEF SubscribeFresh, Relay, RelayEnds, ClientLeaves, Left
<1>5. ASSUME NEW c \in Clients, SubscribeAfter(c) \/ SubscribeRefused(c)
      PROVE  last'[d].process <= process' /\ (Mine(d)' => last'[d].seq <= seq')
  <2>1. process' = process /\ seq' = seq
    BY <1>5 DEF SubscribeAfter, SubscribeRefused, Relay
  <2>2. last'[d] \in {NoMark, last[d], Event(process, 0, 0)}
    BY <1>0, <1>5 DEF SubscribeAfter, SubscribeRefused
  <2>3. NoMark.process = 0 /\ Event(process, 0, 0).process = process
        /\ Event(process, 0, 0).seq = 0
    BY EventTypes DEF NoMark
  <2>4. CASE last'[d] = last[d]
    BY <1>a, <2>1, <2>4
  <2>5. CASE last'[d] = NoMark
    BY <1>0, <2>1, <2>3, <2>5 DEF Mine
  <2>6. CASE last'[d] = Event(process, 0, 0)
    BY <1>0, <2>1, <2>3, <2>6
  <2> QED
    BY <2>2, <2>4, <2>5, <2>6
<1>6. ASSUME NEW c \in Clients, RelayReplay(c) \/ RelayQueued(c)
      PROVE  last'[d].process <= process' /\ (Mine(d)' => last'[d].seq <= seq')
  <2>1. process' = process /\ seq' = seq
    BY <1>6 DEF RelayReplay, RelayQueued, hubVars
  <2>2. CASE d # c
    BY <1>0, <1>6, <1>a, <2>1, <2>2 DEF RelayReplay, RelayQueued, Deliver
  <2>3. CASE d = c
    <3>1. PICK n \in Nat : LineFrom(c, n)
      BY <1>6 DEF LineInv, RelayReplay, RelayQueued
    <3>2. /\ replay[c] \in Seq(Events \cup {End}) /\ queue[c] \in Seq(Events \cup {End})
          /\ Len(replay[c]) \in Nat /\ (replay[c] = <<>> => Len(replay[c]) = 0)
      BY DEF TypeOK
    <3>3. CASE RelayReplay(c)
      <4>1. Head(replay[c]) # End /\ replay[c] # <<>>
        <5>1. replay[c] \in Seq(Events) /\ replay[c] # <<>>
          BY <3>3 DEF TypeOK, RelayReplay
        <5> QED
          BY <5>1, TailOf, EventTypes
      <4>2. Head(replay[c]).process = process /\ Head(replay[c]).seq <= seq
        BY <3>1, <3>2, <4>1, NextOfLine DEF LineFrom
      <4> QED
        BY <1>0, <2>1, <2>3, <3>3, <4>2 DEF RelayReplay, Deliver
    <3>4. CASE RelayQueued(c)
      <4>1. Head(queue[c]).process = process /\ Head(queue[c]).seq <= seq
        <5>1. n + Len(replay[c]) \in Nat /\ Counts(queue[c], n + Len(replay[c]))
              /\ queue[c] # <<>> /\ Head(queue[c]) # End
          BY <3>1, <3>2, <3>4 DEF LineFrom, RelayQueued
        <5> QED
          BY <3>2, <5>1, NextOfLine
      <4> QED
        BY <1>0, <2>1, <2>3, <3>4, <4>1 DEF RelayQueued, Deliver
    <3> QED
      BY <1>6, <3>3, <3>4
  <2> QED
    BY <2>2, <2>3
<1> QED
  BY <1>1, <1>2, <1>3, <1>4, <1>5, <1>6 DEF Next, Subscribe, RelayStep

(***************************************************************************)
(* Only clients with an open stream are subscribed.                        *)
(***************************************************************************)
LEMMA SubscriberStep == TypeOK /\ SubscriberInv /\ [Next]_vars => SubscriberInv'
<1> SUFFICES ASSUME TypeOK, SubscriberInv, [Next]_vars PROVE SubscriberInv'
  OBVIOUS
<1>1. CASE PiChanges \/ Connect \/ ConnectionLost \/ UNCHANGED vars
  BY <1>1 DEF PiChanges, Connect, ConnectionLost, vars, hubVars, clientVars, SubscriberInv
<1>2. CASE Publish \/ Close \/ Restart
  BY <1>2 DEF Publish, Close, Restart, SubscriberInv
<1>3. ASSUME NEW c \in Clients, SubscribeFresh(c) \/ SubscribeAfter(c) PROVE SubscriberInv'
  BY <1>3 DEF SubscribeFresh, SubscribeAfter, Relay, SubscriberInv, TypeOK
<1>4. ASSUME NEW c \in Clients, RelayEnds(c) \/ ClientLeaves(c) PROVE SubscriberInv'
  BY <1>4 DEF RelayEnds, ClientLeaves, Left, SubscriberInv, TypeOK
<1>5. ASSUME NEW c \in Clients, SubscribeRefused(c) \/ RelayReplay(c) \/ RelayQueued(c)
      PROVE  SubscriberInv'
  BY <1>5 DEF SubscribeRefused, RelayReplay, RelayQueued, hubVars, SubscriberInv
<1> QED
  BY <1>1, <1>2, <1>3, <1>4, <1>5 DEF Next, Subscribe, RelayStep

(***************************************************************************)
(* What a client is still given counts on from its bookmark, after every   *)
(* step: a publication is put behind what waits or ends the stream, a      *)
(* subscription begins where the bookmark ends, and each relayed event     *)
(* moves the bookmark by one.                                              *)
(***************************************************************************)
LEMMA LineStep ==
  TypeOK /\ NumberInv /\ BufferInv /\ BookmarkInv /\ SubscriberInv /\ LineInv /\ [Next]_vars
    => LineInv'
<1> SUFFICES ASSUME TypeOK, NumberInv, BufferInv, BookmarkInv, SubscriberInv, LineInv,
                    [Next]_vars, NEW d \in Clients, streaming'[d]
             PROVE  \E n \in Nat : LineFrom(d, n)'
  BY DEF LineInv
<1>0. /\ seq \in Nat /\ process \in Nat \ {0} /\ NoMark = End
      /\ replay[d] \in Seq(Events) /\ queue[d] \in Seq(Events \cup {End})
      /\ Len(replay[d]) \in Nat /\ Len(queue[d]) \in Nat
      /\ DOMAIN queue[d] = 1..Len(queue[d]) /\ DOMAIN replay[d] = 1..Len(replay[d])
  BY EventTypes DEF TypeOK
<1>b. seq \in Nat /\ Len(replay[d]) \in Nat /\ Len(queue[d]) \in Nat
  BY <1>0
<1>c. /\ replay \in [Clients -> Seq(Events)] /\ queue \in [Clients -> Seq(Events \cup {End})]
      /\ replay' \in [Clients -> Seq(Events)] /\ queue' \in [Clients -> Seq(Events \cup {End})]
  BY TypeStep DEF TypeOK
<1>a. ASSUME process' = process, seq' = seq, replay'[d] = replay[d], queue'[d] = queue[d],
             last'[d] = last[d], d \in subscribers' => d \in subscribers, streaming[d]
      PROVE  \E n \in Nat : LineFrom(d, n)'
  <2>1. PICK n \in Nat : LineFrom(d, n)
    BY <1>a DEF LineInv
  <2>2. LineFrom(d, n)'
    BY <1>a, <2>1, LineFrame
  <2> QED
    BY <2>2
<1>1. CASE PiChanges \/ Connect \/ ConnectionLost \/ UNCHANGED vars
  BY <1>a, <1>1 DEF PiChanges, Connect, ConnectionLost, vars, hubVars, clientVars
<1>2. CASE Publish
  <2> DEFINE e == Event(process, seq + 1, Head(feed))
             full == {c \in subscribers : Len(queue[c]) >= QueueLimit}
  <2>1. /\ seq' = seq + 1 /\ process' = process /\ subscribers' = subscribers \ full
        /\ queue'[d] = IF d \in full THEN <<End>>
                       ELSE IF d \in subscribers THEN Append(queue[d], e) ELSE queue[d]
        /\ streaming[d] /\ replay' = replay /\ last' = last
    BY <1>2 DEF Publish
  <2>2. e \in Events /\ e # End /\ e.process = process /\ e.seq = seq + 1
    BY SMTT(30), <1>2, TailOf, NextNumber, EventTypes DEF Publish, TypeOK
  <2> HIDE DEF e
  <2>3. PICK n \in Nat : LineFrom(d, n)
    BY <2>1 DEF LineInv
  <2>4. /\ Whole(replay[d])' /\ Counts(replay[d], n)' /\ (Mine(d)' => last'[d].seq = n - 1)
    <3>1. ASSUME NEW i \in DOMAIN replay[d]
          PROVE  /\ replay[d][i] # End /\ replay[d][i].process = process
                 /\ replay[d][i].seq = n + i - 1 /\ replay[d][i].seq <= seq
      BY <2>3 DEF LineFrom, Whole, Counts
    <3>2. ASSUME NEW i \in DOMAIN replay[d] PROVE replay[d][i].seq <= seq'
      BY <1>0, <2>1, <2>3, <3>1
    <3>3. Whole(replay[d])' /\ Counts(replay[d], n)'
      BY <2>1, <3>1, <3>2 DEF Whole, Counts
    <3> QED
      BY <2>1, <2>3, <3>3 DEF LineFrom, Mine
  <2>5. /\ Counts(queue[d], n + Len(replay[d]))'
        /\ d \in subscribers' =>
             Whole(queue[d])' /\ n + Len(replay[d]) + Len(queue'[d]) = seq' + 1
    <3>0. ASSUME NEW i \in DOMAIN queue[d]
          PROVE  IF queue[d][i] = End THEN i = Len(queue[d])
                 ELSE /\ queue[d][i].process = process
                      /\ queue[d][i].seq = n + Len(replay[d]) + i - 1
                      /\ queue[d][i].seq <= seq /\ queue[d][i].seq <= seq'
      <4>1. Counts(queue[d], n + Len(replay[d]))
        BY <2>3 DEF LineFrom
      <4>2. CASE queue[d][i] = End
        BY <4>1, <4>2 DEF Counts
      <4>3. CASE queue[d][i] # End
        <5>1. /\ queue[d][i].process = process
              /\ queue[d][i].seq = n + Len(replay[d]) + i - 1
              /\ queue[d][i].seq <= seq
          BY <4>1, <4>3 DEF Counts
        <5>2. n + Len(replay[d]) + i - 1 \in Int /\ seq' = seq + 1
          BY <1>0, <2>1
        <5>3. queue[d][i].seq <= seq'
          BY <1>0, <5>1, <5>2
        <5> QED
          BY <4>3, <5>1, <5>3
      <4> QED
        BY <4>2, <4>3
    <3>1. CASE d \in full
      <4>1. queue'[d] = <<End>> /\ d \notin subscribers'
        BY <2>1, <3>1
      <4>2. DOMAIN queue'[d] = {1} /\ Len(queue'[d]) = 1 /\ queue'[d][1] = End
        BY <4>1
      <4> QED
        BY <4>1, <4>2 DEF Counts
    <3>2. CASE d \notin full /\ d \in subscribers
      <4>1. queue'[d] = Append(queue[d], e)
        BY <2>1, <3>2
      <4>2. Whole(queue[d]) /\ n + Len(replay[d]) + Len(queue[d]) = seq + 1
        BY <2>3, <3>2 DEF LineFrom
      <4>3. /\ Len(queue'[d]) = Len(queue[d]) + 1
            /\ queue'[d] \in Seq(Events \cup {End})
            /\ \A i \in DOMAIN queue'[d] :
                 queue'[d][i] = IF i = Len(queue[d]) + 1 THEN e ELSE queue[d][i]
        BY <1>0, <2>2, <4>1, AppendOf
      <4>4. ASSUME NEW i \in DOMAIN queue'[d]
            PROVE  /\ queue'[d][i] # End /\ queue'[d][i].process = process'
                   /\ queue'[d][i].seq = n + Len(replay[d]) + i - 1
                   /\ queue'[d][i].seq <= seq'
        <5>1. i \in 1..(Len(queue[d]) + 1)
          BY <4>3
        <5>2. CASE i = Len(queue[d]) + 1
          <6>1. queue'[d][i] = e
            BY <4>3, <5>2
          <6>2. n + Len(replay[d]) + i - 1 = seq + 1
            <7>1. PICK a \in Nat : a = Len(replay[d])
              BY <1>b
            <7>2. PICK b \in Nat : b = Len(queue[d])
              BY <1>b
            <7>3. n + a + b = seq + 1 /\ i = b + 1
              BY <4>2, <5>2, <7>1, <7>2
            <7>4. n + a + i - 1 = seq + 1
              BY <1>b, <7>3
            <7> QED
              BY <7>1, <7>4
          <6>3. /\ queue'[d][i] # End /\ queue'[d][i].process = process'
                /\ queue'[d][i].seq = seq + 1
            BY <2>1, <2>2, <6>1
          <6> QED
            BY SMTT(30), <1>b, <2>1, <6>2, <6>3
        <5>3. CASE i # Len(queue[d]) + 1
          <6>1. i \in DOMAIN queue[d] /\ queue'[d][i] = queue[d][i]
            BY <1>0, <4>3, <5>1, <5>3
          <6> QED
            BY <2>1, <3>0, <4>2, <6>1 DEF Whole
        <5> QED
          BY <5>2, <5>3
      <4>5. n + Len(replay[d]) + Len(queue'[d]) = seq' + 1
        <5>1. Len(queue'[d]) = Len(queue[d]) + 1
          BY <4>3
        <5>2. seq' = seq + 1
          BY <2>1
        <5> QED
          BY <1>b, <1>c, <4>2, <5>1, <5>2
      <4>6. Whole(queue[d])'
        BY <4>4 DEF Whole
      <4>7. Counts(queue[d], n + Len(replay[d]))'
        BY <2>1, <4>4 DEF Counts
      <4> QED
        BY <4>5, <4>6, <4>7
    <3>3. CASE d \notin full /\ d \notin subscribers
      BY <2>1, <3>0, <3>3 DEF Counts
    <3> QED
      BY <3>1, <3>2, <3>3
  <2>6. LineFrom(d, n)'
    BY <2>1, <2>4, <2>5 DEF LineFrom
  <2> QED
    BY <2>6
<1>3. ASSUME NEW c \in Clients, c # d, Subscribe(c) \/ RelayStep(c) \/ ClientLeaves(c)
      PROVE  \E n \in Nat : LineFrom(d, n)'
  <2>1. /\ UNCHANGED <<process, seq>> /\ streaming'[d] = streaming[d]
        /\ replay'[d] = replay[d] /\ queue'[d] = queue[d] /\ last'[d] = last[d]
    BY <1>3 DEF TypeOK, Subscribe, SubscribeFresh, SubscribeAfter, SubscribeRefused, Relay,
         RelayStep, RelayReplay, RelayQueued, RelayEnds, ClientLeaves, Left, Deliver, hubVars
  <2>2. d \in subscribers' => d \in subscribers
    BY <1>3 DEF Subscribe, SubscribeFresh, SubscribeAfter, SubscribeRefused, Relay,
         RelayStep, RelayReplay, RelayQueued, RelayEnds, ClientLeaves, Left, hubVars
  <2> QED
    BY <1>a, <2>1, <2>2
<1>4. CASE SubscribeFresh(d)
  <2>1. /\ replay'[d] = <<>> /\ queue'[d] = <<>> /\ last'[d] = NoMark
        /\ UNCHANGED <<process, seq>>
    BY <1>4 DEF SubscribeFresh, Relay, TypeOK
  <2>2. LineFrom(d, seq + 1)'
    <3>1. Len(replay'[d]) = 0 /\ Len(queue'[d]) = 0
      BY <2>1
    <3>2. Whole(replay[d])' /\ Whole(queue[d])' /\ (\A n : Counts(replay[d], n)' /\ Counts(queue[d], n)')
      BY <2>1 DEF Whole, Counts
    <3> QED
      BY <1>0, <2>1, <3>1, <3>2 DEF LineFrom, Mine
  <2>3. seq + 1 \in Nat
    BY <1>0
  <2> QED
    BY <2>1, <2>2, <2>3
<1>5. CASE SubscribeAfter(d)
  <2> DEFINE mark == IF last[d] = NoMark THEN Event(process, 0, 0) ELSE last[d]
  <2>1. /\ ~Gap(mark.seq) /\ replay'[d] = After(mark) /\ queue'[d] = <<>> /\ last'[d] = mark
        /\ UNCHANGED <<process, seq>>
    BY <1>5 DEF SubscribeAfter, Relay, TypeOK
  <2>2. mark \in Events /\ mark.seq \in Nat
    BY EventTypes DEF TypeOK
  <2>3. mark.process = process => mark.seq <= seq
    <3>1. CASE last[d] = NoMark
      BY <1>0, <3>1, EventTypes
    <3>2. CASE last[d] # NoMark
      BY <3>2 DEF BookmarkInv, Mine
    <3> QED
      BY <3>1, <3>2
  <2> HIDE DEF mark
  <2>4. /\ After(mark) \in Seq(Events)
        /\ mark.seq > seq => After(mark) = <<>>
        /\ mark.seq <= seq =>
             /\ Len(After(mark)) = seq - mark.seq
             /\ Whole(After(mark)) /\ Counts(After(mark), mark.seq + 1)
    BY <2>1, <2>2, AfterOf
  <2>5. Len(queue'[d]) = 0 /\ Whole(queue[d])' /\ \A n : Counts(queue[d], n)'
    BY <2>1 DEF Whole, Counts
  <2>6. CASE mark.seq <= seq
    <3>1. PICK n \in Nat : n = mark.seq + 1
      BY <2>2
    <3>2. Whole(replay[d])' /\ Counts(replay[d], n)'
      BY <2>1, <2>4, <2>6, <3>1 DEF Whole, Counts
    <3>3. n + Len(replay'[d]) + Len(queue'[d]) = seq' + 1 /\ last'[d].seq = n - 1
      <4>1. Len(replay'[d]) = seq - mark.seq /\ Len(queue'[d]) = 0 /\ seq' = seq
        BY <2>1, <2>4, <2>5, <2>6
      <4>2. last'[d].seq = mark.seq
        BY <2>1
      <4>3. mark.seq \in Nat /\ seq \in Nat
        BY <1>b, <2>2
      <4>4. n + (seq - mark.seq) + 0 = seq + 1 /\ mark.seq = n - 1
        BY <3>1, <4>3
      <4> QED
        BY <4>1, <4>2, <4>4
    <3>4. LineFrom(d, n)'
      BY <2>5, <3>2, <3>3 DEF LineFrom
    <3> QED
      BY <3>4
  <2>7. CASE mark.seq > seq
    <3>1. ~Mine(d)'
      BY <1>0, <2>1, <2>2, <2>3, <2>7 DEF Mine
    <3>2. replay'[d] = <<>> /\ Len(replay'[d]) = 0
      BY <2>1, <2>4, <2>7
    <3>3. Whole(replay[d])' /\ \A n : Counts(replay[d], n)'
      BY <3>2 DEF Whole, Counts
    <3>4. LineFrom(d, seq + 1)'
      BY <1>0, <2>1, <2>5, <3>1, <3>2, <3>3 DEF LineFrom
    <3> QED
      BY <1>0, <2>1, <3>4
  <2> QED
    BY <1>0, <2>2, <2>6, <2>7
<1>6. CASE SubscribeRefused(d)
  <2>1. FALSE
    BY <1>6 DEF SubscribeRefused, Serving
  <2> QED
    BY <2>1
<1>7. CASE RelayReplay(d)
  <2>1. /\ streaming[d] /\ replay[d] # <<>> /\ replay'[d] = Tail(replay[d])
        /\ last'[d] = Head(replay[d]) /\ queue'[d] = queue[d]
        /\ UNCHANGED <<process, seq, subscribers>>
    BY <1>7 DEF RelayReplay, Deliver, hubVars, TypeOK
  <2>2. PICK n \in Nat : LineFrom(d, n)
    BY <2>1 DEF LineInv
  <2>3. Head(replay[d]) # End /\ replay[d] \in Seq(Events \cup {End})
    <3>1. Head(replay[d]) \in Events
      BY <1>0, <2>1, TailOf
    <3> QED
      BY <1>0, <3>1, EventTypes
  <2>4. /\ Head(replay[d]).seq = n /\ Counts(Tail(replay[d]), n + 1)
        /\ Whole(Tail(replay[d])) /\ Len(Tail(replay[d])) = Len(replay[d]) - 1
    BY <2>1, <2>2, <2>3, NextOfLine DEF LineFrom
  <2>5. n + Len(replay[d]) = (n + 1) + Len(replay'[d])
    <3>1. Len(replay'[d]) = Len(replay[d]) - 1
      BY <2>1, <2>4
    <3> QED
      BY <1>b, <1>c, <3>1
  <2>6. Whole(replay[d])' /\ Counts(replay[d], n + 1)' /\ last'[d].seq = (n + 1) - 1
    BY <2>1, <2>2, <2>4 DEF Whole, Counts
  <2>7. Counts(queue[d], (n + 1) + Len(replay[d]))'
    BY <2>1, <2>2, <2>5 DEF LineFrom, Counts
  <2>8. d \in subscribers' =>
          Whole(queue[d])' /\ (n + 1) + Len(replay'[d]) + Len(queue'[d]) = seq' + 1
    BY <2>1, <2>2, <2>5 DEF LineFrom, Whole
  <2>9. LineFrom(d, n + 1)'
    BY <2>6, <2>7, <2>8 DEF LineFrom
  <2> QED
    BY <2>9
<1>8. CASE RelayQueued(d)
  <2>1. /\ streaming[d] /\ replay[d] = <<>> /\ queue[d] # <<>> /\ Head(queue[d]) # End
        /\ queue'[d] = Tail(queue[d]) /\ last'[d] = Head(queue[d]) /\ replay'[d] = replay[d]
        /\ UNCHANGED <<process, seq, subscribers>>
    BY <1>8 DEF RelayQueued, Deliver, hubVars, TypeOK
  <2>2. PICK n \in Nat : LineFrom(d, n)
    BY <2>1 DEF LineInv
  <2>3. Len(replay[d]) = 0 /\ Len(replay'[d]) = 0 /\ n + Len(replay[d]) = n
    BY <2>1, <2>2
  <2>4. Counts(queue[d], n)
    BY <2>2, <2>3 DEF LineFrom
  <2>5. /\ Head(queue[d]).seq = n /\ Counts(Tail(queue[d]), n + 1)
        /\ (Whole(queue[d]) => Whole(Tail(queue[d])))
        /\ Len(Tail(queue[d])) = Len(queue[d]) - 1
    BY <1>0, <2>1, <2>2, <2>4, NextOfLine
  <2>6. Whole(replay[d])' /\ Counts(replay[d], n + 1)' /\ last'[d].seq = (n + 1) - 1
    BY <2>1, <2>2, <2>5 DEF Whole, Counts
  <2>7. Counts(queue[d], (n + 1) + Len(replay[d]))'
    <3>1. (n + 1) + Len(replay'[d]) = n + 1
      BY <2>2, <2>3
    <3>2. Counts(queue[d], n + 1)'
      BY <2>1, <2>5 DEF Counts
    <3> QED
      BY <3>1, <3>2
  <2>8. d \in subscribers' =>
          Whole(queue[d])' /\ (n + 1) + Len(replay'[d]) + Len(queue'[d]) = seq' + 1
    <3>1. d \in subscribers => Whole(queue[d]) /\ n + Len(queue[d]) = seq + 1
      BY <2>2, <2>3 DEF LineFrom
    <3>2. d \in subscribers => Whole(queue[d])'
      BY <2>1, <2>5, <3>1 DEF Whole
    <3>3. d \in subscribers => (n + 1) + Len(replay'[d]) + Len(queue'[d]) = seq' + 1
      <4>1. Len(queue'[d]) = Len(queue[d]) - 1 /\ seq' = seq
        BY <2>1, <2>5
      <4> QED
        BY <1>b, <1>c, <2>3, <3>1, <4>1
    <3> QED
      BY <2>1, <3>2, <3>3
  <2>9. LineFrom(d, n + 1)'
    BY <2>6, <2>7, <2>8 DEF LineFrom
  <2> QED
    BY <2>9
<1>9. CASE RelayEnds(d) \/ ClientLeaves(d)
  <2>1. ~streaming'[d]
    BY <1>9 DEF RelayEnds, ClientLeaves, Left, TypeOK
  <2> QED
    BY <2>1
<1>10. CASE Close
  <2>1. /\ UNCHANGED <<process, seq, streaming, replay, last>> /\ subscribers' = {}
        /\ queue'[d] = IF d \in subscribers /\ Len(queue[d]) < QueueLimit
                       THEN Append(queue[d], End) ELSE queue[d]
    BY <1>10 DEF Close
  <2>2. CASE d \in subscribers /\ Len(queue[d]) < QueueLimit
    <3>1. PICK n \in Nat : LineFrom(d, n)
      BY <2>1 DEF LineInv
    <3>2. /\ Len(queue'[d]) = Len(queue[d]) + 1
          /\ queue'[d] \in Seq(Events \cup {End})
          /\ \A i \in DOMAIN queue'[d] :
               queue'[d][i] = IF i = Len(queue[d]) + 1 THEN End ELSE queue[d][i]
      BY <1>0, <2>1, <2>2, AppendOf
    <3>3. ASSUME NEW i \in DOMAIN queue'[d]
          PROVE  IF queue'[d][i] = End THEN i = Len(queue'[d])
                 ELSE /\ queue'[d][i].process = process
                      /\ queue'[d][i].seq = n + Len(replay[d]) + i - 1
                      /\ queue'[d][i].seq <= seq
      <4>1. CASE i = Len(queue[d]) + 1
        BY <3>2, <4>1
      <4>2. CASE i # Len(queue[d]) + 1
        <5>1. i \in DOMAIN queue[d] /\ queue'[d][i] = queue[d][i]
          BY <1>0, <3>2, <4>2
        <5> QED
          BY <2>2, <3>1, <5>1 DEF LineFrom, Counts, Whole
      <4> QED
        BY <4>1, <4>2
    <3>4. Counts(queue[d], n + Len(replay[d]))'
      BY <2>1, <3>3 DEF Counts
    <3>5. LineFrom(d, n)'
      BY <2>1, <3>1, <3>4 DEF LineFrom, Counts, Whole, Mine
    <3> QED
      BY <3>5
  <2>3. CASE ~(d \in subscribers /\ Len(queue[d]) < QueueLimit)
    BY <1>a, <2>1, <2>3
  <2> QED
    BY <2>2, <2>3
<1>11. CASE Restart
  <2>1. ~streaming'[d]
    BY <1>11 DEF Restart
  <2> QED
    BY <2>1
<1> QED
  BY <1>1, <1>2, <1>3, <1>4, <1>5, <1>6, <1>7, <1>8, <1>9, <1>10, <1>11
     DEF Next, Subscribe, RelayStep

(***************************************************************************)
(* An event that the line gives to a client is the next after its bookmark.*)
(***************************************************************************)
LEMMA NoGapStep ==
  TypeOK /\ LineInv /\ NoGapInProcess /\ [Next]_vars => NoGapInProcess'
<1> SUFFICES ASSUME TypeOK, LineInv, NoGapInProcess, [Next]_vars PROVE NoGapInProcess'
  OBVIOUS
<1>1. ASSUME NEW c \in Clients, RelayReplay(c) \/ RelayQueued(c) PROVE NoGapInProcess'
  <2>1. PICK n \in Nat : LineFrom(c, n)
    BY <1>1 DEF LineInv, RelayReplay, RelayQueued
  <2>2. /\ replay[c] \in Seq(Events) /\ replay[c] \in Seq(Events \cup {End})
        /\ queue[c] \in Seq(Events \cup {End})
        /\ Len(replay[c]) \in Nat /\ (replay[c] = <<>> => Len(replay[c]) = 0)
    BY DEF TypeOK
  <2> DEFINE e == IF RelayReplay(c) THEN Head(replay[c]) ELSE Head(queue[c])
  <2>3. e.process = process /\ e.seq = n
    <3>1. CASE RelayReplay(c)
      <4>1. Head(replay[c]) # End /\ replay[c] # <<>>
        BY <2>2, <3>1, TailOf, EventTypes DEF RelayReplay
      <4> QED
        BY <2>1, <2>2, <3>1, <4>1, NextOfLine DEF LineFrom
    <3>2. CASE ~RelayReplay(c) /\ RelayQueued(c)
      <4>1. Counts(queue[c], n) /\ queue[c] # <<>> /\ Head(queue[c]) # End
        <5>1. n + Len(replay[c]) = n
          BY <2>1, <2>2, <3>2 DEF RelayQueued
        <5> QED
          BY <2>1, <3>2, <5>1 DEF LineFrom, RelayQueued
      <4> QED
        BY <2>1, <2>2, <3>2, <4>1, NextOfLine
    <3> QED
      BY <1>1, <3>1, <3>2
  <2>4. Deliver(c, e)
    BY <1>1 DEF RelayReplay, RelayQueued
  <2> HIDE DEF e
  <2>5. last[c] # NoMark /\ last[c].process = process => last[c].seq + 1 = n
    BY <2>1, EventTypes DEF LineFrom, Mine, TypeOK
  <2>6. ASSUME NEW d \in Clients PROVE "gap" \notin holes'[d]
    <3>1. CASE d # c
      BY <2>4, <3>1 DEF Deliver, TypeOK, NoGapInProcess
    <3>2. CASE d = c
      BY <2>3, <2>4, <2>5, <3>2 DEF Deliver, TypeOK, NoGapInProcess
    <3> QED
      BY <3>1, <3>2
  <2> QED
    BY <2>6 DEF NoGapInProcess
<1>2. CASE UNCHANGED holes
  BY <1>2 DEF NoGapInProcess
<1>3. CASE PiChanges \/ Connect \/ ConnectionLost \/ Publish \/ Close \/ Restart
           \/ UNCHANGED vars
  BY <1>2, <1>3 DEF PiChanges, Connect, ConnectionLost, Publish, Close, Restart, vars, clientVars
<1>4. ASSUME NEW c \in Clients, Subscribe(c) \/ RelayEnds(c) \/ ClientLeaves(c)
      PROVE  NoGapInProcess'
  BY <1>2, <1>4 DEF Subscribe, SubscribeFresh, SubscribeAfter, SubscribeRefused, Relay,
       RelayEnds, ClientLeaves, Left
<1> QED
  BY <1>1, <1>3, <1>4 DEF Next, RelayStep

-----------------------------------------------------------------------------
(* The theorems.                                                            *)

(***************************************************************************)
(* The inductive invariant holds of every state of the hub.                *)
(***************************************************************************)
THEOREM HubInvariant == Spec => []Inv
<1>1. Init => Inv
  <2> SUFFICES ASSUME Init PROVE Inv
    OBVIOUS
  <2>1. TypeOK
    <3>1. process \in 1..(MaxRestarts + 1) /\ piState \in States /\ drops \in 0..MaxDrops
      BY HubBounds DEF Init, States
    <3>2. seq \in Seqs
      <4>1. (MaxChanges + MaxDrops + 1) * (MaxRestarts + 1) \in Nat
        BY HubBounds
      <4> QED
        BY <4>1 DEF Init, Seqs
    <3>3. /\ buffer \in Seq(Events) /\ Len(buffer) <= ReplayLimit /\ feed \in Seq(States)
      BY HubBounds DEF Init
    <3>4. /\ replay \in [Clients -> Seq(Events)] /\ queue \in [Clients -> Seq(Events \cup {End})]
          /\ \A c \in Clients : Len(queue[c]) <= QueueLimit
      BY HubBounds DEF Init
    <3>5. /\ streaming \in [Clients -> BOOLEAN] /\ last \in [Clients -> Events \cup {NoMark}]
          /\ holes \in [Clients -> SUBSET {"gap", "foreign"}] /\ subscribers \subseteq Clients
      BY DEF Init
    <3>6. runner \in BOOLEAN /\ closed \in BOOLEAN /\ connected \in BOOLEAN
      BY DEF Init
    <3> QED
      BY <3>1, <3>2, <3>3, <3>4, <3>5, <3>6 DEF TypeOK
  <2>2. NumberInv /\ BufferInv
    BY HubBounds DEF Init, NumberInv, BufferInv, Whole, Counts
  <2>3. BookmarkInv
    <3>1. NoMark.process = 0
      BY DEF NoMark, Event
    <3> QED
      BY <3>1 DEF Init, BookmarkInv, Mine
  <2>4. SubscriberInv /\ LineInv /\ NoGapInProcess
    BY DEF Init, SubscriberInv, LineInv, NoGapInProcess
  <2> QED
    BY <2>1, <2>2, <2>3, <2>4 DEF Inv
<1>2. Inv /\ [Next]_vars => Inv'
  BY TypeStep, NumberStep, BufferStep, BookmarkStep, SubscriberStep, LineStep, NoGapStep DEF Inv
<1> QED
  BY <1>1, <1>2, PTL DEF Spec

(***************************************************************************)
(* The hub keeps its types: the replay window and the queues never grow    *)
(* past their limits.                                                      *)
(***************************************************************************)
THEOREM HubTypes == Spec => []TypeOK
BY HubInvariant, PTL DEF Inv

(***************************************************************************)
(* Within one process of the kernel no client is given an event that is    *)
(* not the next after its bookmark, for any sizes of window and queue.     *)
(***************************************************************************)
THEOREM NoGapTheorem == Spec => []NoGapInProcess
BY HubInvariant, PTL DEF Inv

=============================================================================
