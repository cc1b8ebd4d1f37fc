----------------------------- MODULE EventHub -----------------------------
(***************************************************************************)
(* OrchestrationEventHub of jack_kernel.py and the stream its endpoint     *)
(* GET /jack/orchestration/events relays.                                  *)
(*                                                                         *)
(* One task of the kernel reads the Pi bridge's event stream, numbers each *)
(* event, keeps the last ones for replay and puts it into the queue of     *)
(* every subscriber.  The hub's lock is never held across an await, so a   *)
(* publication, a subscription and a step of a relay are each one action.  *)
(* The Pi bridge is an external source: it opens a stream with a status    *)
(* snapshot and sends nothing twice; what it sends while nobody reads is   *)
(* lost.  The clients follow the documented protocol: they come back with  *)
(* the number of the last event they processed.                            *)
(***************************************************************************)
EXTENDS Integers, Sequences, FiniteSetsExt

CONSTANTS Clients,
          ReplayLimit,    \* events kept for replay
          QueueLimit,     \* maxsize of a subscriber's queue
          MaxChanges,     \* bound: changes of the Pi bridge's state
          MaxDrops,       \* bound: losses of the connection to the bridge
          MaxRestarts     \* bound: restarts of the kernel

ASSUME HubBounds ==
  /\ ReplayLimit \in Nat \ {0} /\ QueueLimit \in Nat \ {0}
  /\ MaxChanges \in Nat /\ MaxDrops \in Nat /\ MaxRestarts \in Nat

VARIABLES
  \* the hub
  process,       \* which process of the kernel this is
  seq,           \* _seq
  buffer,        \* _buffer
  subscribers,   \* _subscribers
  runner,        \* the reading task runs
  closed,        \* close has been called
  \* the bridge and the connection to it
  piState, feed, connected, drops,
  \* each client and its relay
  streaming,     \* the response is open
  replay,        \* what is left of the replayed events
  queue,         \* its queue; End stands for None
  last,          \* the last event it processed, its bookmark
  holes          \* which kinds of event not the next after its bookmark it was given:
                 \* "gap" in one process, "foreign" from another one than the bookmark

hubVars == <<process, seq, buffer, subscribers, runner, closed>>
sourceVars == <<piState, feed, connected, drops>>
clientVars == <<streaming, replay, queue, last, holes>>
vars == <<hubVars, sourceVars, clientVars>>

Seqs == 0..((MaxChanges + MaxDrops + 1) * (MaxRestarts + 1))
States == 0..MaxChanges
Event(p, n, s) == [process |-> p, seq |-> n, state |-> s]
End == Event(0, 0, 0)
NoMark == Event(0, 0, 0)

-----------------------------------------------------------------------------
Init ==
  /\ process = 1 /\ seq = 0 /\ buffer = <<>> /\ subscribers = {}
  /\ runner = FALSE /\ closed = FALSE
  /\ piState = 0 /\ feed = <<>> /\ connected = FALSE /\ drops = 0
  /\ streaming = [c \in Clients |-> FALSE]
  /\ replay = [c \in Clients |-> <<>>]
  /\ queue = [c \in Clients |-> <<>>]
  /\ last = [c \in Clients |-> NoMark]
  /\ holes = [c \in Clients |-> {}]

-----------------------------------------------------------------------------
(* The bridge and the reading task.                                         *)

PiChanges ==
  /\ piState < MaxChanges
  /\ piState' = piState + 1
  /\ feed' = IF connected THEN Append(feed, piState') ELSE feed
  /\ UNCHANGED <<connected, drops, hubVars, clientVars>>

\* Mutant: the reading task does not reconnect.
ConnectOnce ==
  /\ runner /\ ~connected /\ drops = 0
  /\ connected' = TRUE /\ feed' = <<piState>>
  /\ UNCHANGED <<piState, drops, hubVars, clientVars>>

\* _run connects; the bridge answers with a status snapshot.
Connect ==
  /\ runner /\ ~connected
  /\ connected' = TRUE /\ feed' = <<piState>>
  /\ UNCHANGED <<piState, drops, hubVars, clientVars>>

ConnectionLost ==
  /\ connected /\ drops < MaxDrops
  /\ connected' = FALSE /\ feed' = <<>> /\ drops' = drops + 1
  /\ UNCHANGED <<piState, hubVars, clientVars>>

\* deque(maxlen=replay_limit)
Retained(b, e) == LET all == Append(b, e)
                  IN SubSeq(all, IF Len(all) > ReplayLimit THEN 2 ELSE 1, Len(all))

\* Mutant: a subscriber whose queue is full is dropped without being ended.
PublishDropsQuietly ==
  /\ runner /\ feed # <<>>
  /\ feed' = Tail(feed)
  /\ seq' = seq + 1
  /\ LET e == Event(process, seq + 1, Head(feed))
     IN /\ buffer' = Retained(buffer, e)
        /\ subscribers' = {c \in subscribers : Len(queue[c]) < QueueLimit}
        /\ queue' = [c \in Clients |-> IF c \in subscribers' THEN Append(queue[c], e) ELSE queue[c]]
  /\ UNCHANGED <<process, runner, closed, piState, connected, drops, streaming, replay, last, holes>>

\* _publish: a queue that is full is emptied, ended and dropped.
Publish ==
  /\ runner /\ feed # <<>>
  /\ feed' = Tail(feed)
  /\ seq' = seq + 1
  /\ LET e == Event(process, seq + 1, Head(feed))
         full == {c \in subscribers : Len(queue[c]) >= QueueLimit}
     IN /\ buffer' = Retained(buffer, e)
        /\ subscribers' = subscribers \ full
        /\ queue' = [c \in Clients |->
                       IF c \in full THEN <<End>>
                       ELSE IF c \in subscribers THEN Append(queue[c], e)
                       ELSE queue[c]]
  /\ UNCHANGED <<process, runner, closed, piState, connected, drops, streaming, replay, last, holes>>

-----------------------------------------------------------------------------
(* The endpoint: subscribe and relay.                                       *)

OldestSeq == IF buffer = <<>> THEN seq + 1 ELSE Head(buffer).seq

\* Mutant: the boundary is off by one.
GapTooLate(after) == after < OldestSeq - 2

\* A replay position below the retained events is answered 409.
Gap(after) == after < OldestSeq - 1

Serving(c) == ~closed /\ ~streaming[c]

Relay(c, items) ==
  /\ runner' = TRUE                                   \* ensure_running
  /\ subscribers' = subscribers \cup {c}
  /\ streaming' = [streaming EXCEPT ![c] = TRUE]
  /\ replay' = [replay EXCEPT ![c] = items]
  /\ queue' = [queue EXCEPT ![c] = <<>>]
  /\ UNCHANGED <<process, seq, buffer, closed, sourceVars, holes>>

\* No position given: only what comes next.
SubscribeFresh(c) ==
  /\ Serving(c) /\ last[c] = NoMark
  /\ Relay(c, <<>>) /\ UNCHANGED last

\* The events with a greater number: the numbers ascend, so they are the last.
After(mark) == LET newer == {i \in DOMAIN buffer : buffer[i].seq > mark.seq}
               IN IF newer = {} THEN <<>> ELSE SubSeq(buffer, Min(newer), Len(buffer))

\* Last-Event-ID or ?after=, from the bookmark or, with none, from zero.
SubscribeAfter(c) ==
  /\ Serving(c)
  /\ LET mark == IF last[c] = NoMark THEN Event(process, 0, 0) ELSE last[c]
     IN /\ ~Gap(mark.seq)
        /\ Relay(c, After(mark))
        /\ last' = [last EXCEPT ![c] = mark]

\* 409 orchestration_replay_gap: the client reports it and starts anew.
SubscribeRefused(c) ==
  /\ Serving(c) /\ last[c] # NoMark /\ Gap(last[c].seq)
  /\ last' = [last EXCEPT ![c] = NoMark]
  /\ runner' = TRUE
  /\ UNCHANGED <<process, seq, buffer, subscribers, closed, sourceVars, streaming, replay, queue, holes>>

Deliver(c, e) ==
  /\ last' = [last EXCEPT ![c] = e]
  /\ holes' = [holes EXCEPT ![c] = @ \cup
                 IF last[c] = NoMark THEN {}
                 ELSE IF e.process # last[c].process THEN {"foreign"}
                 ELSE IF e.seq # last[c].seq + 1 THEN {"gap"} ELSE {}]

RelayReplay(c) ==
  /\ streaming[c] /\ replay[c] # <<>>
  /\ Deliver(c, Head(replay[c]))
  /\ replay' = [replay EXCEPT ![c] = Tail(@)]
  /\ UNCHANGED <<hubVars, sourceVars, streaming, queue>>

RelayQueued(c) ==
  /\ streaming[c] /\ replay[c] = <<>> /\ queue[c] # <<>> /\ Head(queue[c]) # End
  /\ Deliver(c, Head(queue[c]))
  /\ queue' = [queue EXCEPT ![c] = Tail(@)]
  /\ UNCHANGED <<hubVars, sourceVars, streaming, replay>>

Left(c) ==
  /\ streaming' = [streaming EXCEPT ![c] = FALSE]
  /\ replay' = [replay EXCEPT ![c] = <<>>]
  /\ queue' = [queue EXCEPT ![c] = <<>>]
  /\ subscribers' = subscribers \ {c}
  /\ UNCHANGED <<process, seq, buffer, runner, closed, sourceVars, last, holes>>

RelayEnds(c) ==
  /\ streaming[c] /\ replay[c] = <<>> /\ queue[c] # <<>> /\ Head(queue[c]) = End
  /\ Left(c)

ClientLeaves(c) == streaming[c] /\ Left(c)

-----------------------------------------------------------------------------
(* The end of the process.                                                  *)

\* close: the subscribers are ended, those whose queue is full are not told.
Close ==
  /\ ~closed /\ closed' = TRUE
  /\ runner' = FALSE /\ connected' = FALSE /\ feed' = <<>>
  /\ subscribers' = {}
  /\ queue' = [c \in Clients |-> IF c \in subscribers /\ Len(queue[c]) < QueueLimit
                                 THEN Append(queue[c], End) ELSE queue[c]]
  /\ UNCHANGED <<process, seq, buffer, piState, drops, streaming, replay, last, holes>>

\* A new process, after close or a crash: no stream, no event, no number is
\* left but the bookmarks of the clients, of those that have processed anything.
Restart ==
  /\ process <= MaxRestarts
  /\ process' = process + 1
  /\ seq' = 0 /\ buffer' = <<>> /\ subscribers' = {}
  /\ runner' = FALSE /\ closed' = FALSE
  /\ connected' = FALSE /\ feed' = <<>>
  /\ streaming' = [c \in Clients |-> FALSE]
  /\ replay' = [c \in Clients |-> <<>>]
  /\ queue' = [c \in Clients |-> <<>>]
  /\ last' = [c \in Clients |-> IF last[c].seq = 0 THEN NoMark ELSE last[c]]
  /\ UNCHANGED <<piState, drops, holes>>

RelayStep(c) == RelayReplay(c) \/ RelayQueued(c) \/ RelayEnds(c)
Subscribe(c) == SubscribeFresh(c) \/ SubscribeAfter(c) \/ SubscribeRefused(c)

Next ==
  \/ PiChanges \/ Connect \/ ConnectionLost \/ Publish
  \/ \E c \in Clients : Subscribe(c) \/ RelayStep(c) \/ ClientLeaves(c)
  \/ Close \/ Restart

Spec == Init /\ [][Next]_vars

\* The event loop runs the reading task and the relays; _run reconnects.
FairSpec ==
  /\ Spec
  /\ WF_vars(Connect) /\ WF_vars(Publish)
  /\ \A c \in Clients : WF_vars(RelayStep(c))

-----------------------------------------------------------------------------
(* Properties.                                                              *)

Events == [process : 1..(MaxRestarts + 1), seq : Seqs, state : States]

\* The state has these types.
TypeOK ==
  /\ process \in 1..(MaxRestarts + 1) /\ seq \in Seqs
  /\ buffer \in Seq(Events) /\ Len(buffer) <= ReplayLimit
  /\ subscribers \subseteq Clients
  /\ runner \in BOOLEAN /\ closed \in BOOLEAN
  /\ piState \in States /\ feed \in Seq(States)
  /\ connected \in BOOLEAN /\ drops \in 0..MaxDrops
  /\ streaming \in [Clients -> BOOLEAN]
  /\ replay \in [Clients -> Seq(Events)]
  /\ queue \in [Clients -> Seq(Events \cup {End})]
  /\ \A c \in Clients : Len(queue[c]) <= QueueLimit
  /\ last \in [Clients -> Events \cup {NoMark}]
  /\ holes \in [Clients -> SUBSET {"gap", "foreign"}]

\* Within one process of the kernel a client that continues from its bookmark
\* gets the next event or a 409, never a later event, an earlier one or one
\* twice, however its queue overflowed and its stream broke (subscribe,
\* _publish, relay).
NoGapInProcess == \A c \in Clients : "gap" \notin holes[c]

\* The same over restarts of the kernel: "a replay gap must not be silently
\* treated as complete history" (subscribe).  The code does not keep this: see
\* README, Divergences.
NoSilentGap == \A c \in Clients : holes[c] = {}

\* A published event reaches a client whose stream is open, or its stream ends and it can
\* come back for it (relay, _publish).
DeliveredOrEnded ==
  \A c \in Clients, n \in Seqs :
    (streaming[c] /\ last[c] # NoMark /\ seq >= n /\ last[c].seq < n)
      ~> (last[c].seq >= n \/ ~streaming[c])

\* Every state of the bridge the hub missed while disconnected is made good by
\* the snapshot of the next connection (_run).
HubCatchesUp ==
  \A s \in States :
    (runner /\ piState = s)
      ~> (~runner \/ (buffer # <<>> /\ buffer[Len(buffer)].state >= s))
=============================================================================
