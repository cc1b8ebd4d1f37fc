---------------------------- MODULE StreamGuard ----------------------------
(***************************************************************************)
(* The release boundary of jack_evidence_guard.py: every text of the model *)
(* passes it on its way to the caller, as one whole answer or as a stream  *)
(* that the backend cuts where it likes.  Two things must not depend on    *)
(* where it is cut: that a configured value (a canary) stops the answer    *)
(* before any of it is released, and that a tag in the name reserved for   *)
(* Jack's tool evidence is replaced by a marker.                           *)
(*                                                                         *)
(* Each text channel is a chain: a detector that looks behind as far as    *)
(* the longest canary, the filter of reserved tags, a quarantine of fixed  *)
(* length.  The arguments of a tool call pass a detector only.  A symbol   *)
(* stands for the characters between two cuts; the escaped spellings of    *)
(* the delimiters, which the filter reads as the delimiters, are left out. *)
(***************************************************************************)
EXTENDS Integers, Sequences, FiniteSets, FiniteSetsExt, SequencesExt

CONSTANTS TextOrder, ToolOrder, \* the channels, in the order of an event
          ChoiceIds, ChoiceOf,    \* of every channel
          Scripts,              \* what the model may say: channel -> text
          Policies, Secrets,    \* startup canaries and credentials, each as
                                \* a sequence of [id, tier, value]
          MinValue, MaxPatterns, MaxWindow, MaxSecretWindow,
          Windows,              \* lengths of the quarantine, 0 as installed
          Reserved, Partial,    \* the tag name, and how much of it is enough
          MaxPiece, MaxEvent    \* bounds: symbols of a channel, of an event

TextChannels == Range(TextOrder)
ToolChannels == Range(ToolOrder)
Channels == TextChannels \union ToolChannels

\* What stands in the place of a reserved tag.  It is public: no configured
\* value is taken to hold it.
Marker == "[blocked]"

Symbols == {Marker} \union UNION {Range(s[c]) : s \in Scripts, c \in Channels}
Texts == Seq(Symbols)

ASSUME GuardConstants ==
  /\ TextOrder \in Seq(TextChannels) /\ ToolOrder \in Seq(ToolChannels)
  /\ \A i, j \in DOMAIN ToolOrder : ToolOrder[i] = ToolOrder[j] => i = j
  /\ TextChannels \intersect ToolChannels = {}
  /\ ChoiceOf \in [Channels -> ChoiceIds]
  /\ Scripts \subseteq [Channels -> Texts]
  /\ \A p \in Policies \union Secrets : p \in Seq(Range(p)) /\ \A i \in DOMAIN p :
       /\ p[i].value \in Seq(Range(p[i].value))
       /\ Marker \notin Range(p[i].value)
  /\ Windows \subseteq Nat
  /\ MinValue \in Nat \ {0} /\ MaxWindow \in Nat /\ MaxSecretWindow \in Nat
  /\ Reserved \in Seq(Range(Reserved)) /\ {Marker, "<"} \intersect Range(Reserved) = {}
  /\ Partial \in 1..Len(Reserved)
  /\ MaxPiece \in Nat /\ MaxEvent \in Nat

VARIABLES
  phase,      \* "starting", "refused", "open", or how the answer ended
  streaming, window,  \* the request; quarantine_window
  canaries,   \* the values of the installed policy
  script, at, \* what the model says on a channel, how much has arrived
  finished,   \* choices with a finish_reason
  carry,      \* of the detectors
  held,       \* of the filters
  tail,       \* of the quarantines
  out,        \* what the caller has received
  match       \* the canary an interrupt reports

chain == <<carry, held, tail>>
vars == <<phase, streaming, window, canaries, script, at, finished, chain, out, match>>

None == <<>>

TypeOK ==
  /\ phase \in {"starting", "refused", "open", "complete", "failed", "interrupted", "left"}
  /\ streaming \in BOOLEAN /\ window \in Windows
  /\ \A v \in canaries : v \in Seq(Range(v)) \ {<<>>}
  /\ script \in Scripts /\ finished \subseteq ChoiceIds
  /\ \A c \in Channels :
       /\ at[c] \in 0..Len(script[c])
       /\ {carry[c], held[c], tail[c], out[c]} \subseteq Texts
  /\ match \in canaries \union {None}

Arrived(c) == SubSeq(script[c], 1, at[c])
-----------------------------------------------------------------------------
\* A policy refuses duplicates, short values and values longer than the
\* look-behind may be.
Span(patterns) == Max({Len(p.value) - 1 : p \in Range(patterns)} \union {0})

Distinct(patterns) ==
  \A i, j \in DOMAIN patterns :
    i # j => patterns[i].id # patterns[j].id /\ patterns[i].value # patterns[j].value

Buildable(patterns) ==
  /\ Len(patterns) <= MaxPatterns
  /\ \A p \in Range(patterns) : p.tier \in {"A", "B"} /\ Len(p.value) >= MinValue
  /\ Distinct(patterns)
  /\ Span(patterns) <= MaxWindow

\* The credentials of the runtime join the policy, or the start fails.
Mergeable(patterns, secrets) ==
  /\ \A p \in Range(secrets) : p.value # None
  /\ Span(secrets) <= MaxSecretWindow
  /\ Distinct(patterns \o secrets)

\* Mutant: one symbol too few.
ShortWindow == Max({Len(v) - 2 : v \in canaries} \union {0})

RequiredWindow == Max({Len(v) - 1 : v \in canaries} \union {0})
-----------------------------------------------------------------------------
\* The detector: where the first canary begins, the shorter one of two.
Occurs(v, text) == {i \in 1..(Len(text) + 1 - Len(v)) : SubSeq(text, i, i + Len(v) - 1) = v}

Find(text) ==
  LET hits == {[start |-> i, value |-> v] : v \in canaries, i \in 1..Len(text)}
      found == {h \in hits : h.start \in Occurs(h.value, text)}
  IN IF found = {} THEN [start |-> Len(text) + 1, value |-> None]
     ELSE CHOOSE h \in found : \A o \in found :
            \/ h.start < o.start
            \/ h.start = o.start /\ Len(h.value) <= Len(o.value)

\* All but the last n symbols, and those.
Split(text, n) ==
  LET cut == IF Len(text) <= n THEN 0 ELSE Len(text) - n
  IN [released |-> SubSeq(text, 1, cut), kept |-> SubSeq(text, cut + 1, Len(text))]

\* Mutant: all of the text that holds a canary is withheld.
DropsThePrefix(before, piece) ==
  LET found == Find(before \o piece)
      split == Split(before \o piece, RequiredWindow)
  IN [released |-> IF found.value = None THEN split.released ELSE <<>>,
      kept |-> IF found.value = None THEN split.kept ELSE <<>>, found |-> found.value]

\* feed_guarded
Guarded(before, piece) ==
  LET data == before \o piece
      found == Find(data)
      split == Split(data, RequiredWindow)
  IN IF found.value # None
     THEN [released |-> SubSeq(data, 1, found.start - 1), kept |-> <<>>, found |-> found.value]
     ELSE [released |-> split.released, kept |-> split.kept, found |-> None]
-----------------------------------------------------------------------------
\* White space may stand anywhere in a tag, and a slash before its name.
Letters[text \in Texts] ==
  IF text = <<>> THEN <<>>
  ELSE IF Head(text) = "_" THEN Letters[Tail(text)]
  ELSE <<Head(text)>> \o Letters[Tail(text)]

Unslashed(letters) == IF letters # <<>> /\ Head(letters) = "/" THEN Tail(letters) ELSE letters
Name(text) == Unslashed(Letters[Tail(text)])

\* What a text begins with, and how much of it that is.
Classify(text, final) ==
  LET ends == {i \in 1..Len(text) : text[i] = ">"}
      verdict(what, size) == [verdict |-> what, size |-> size]
  IN IF Head(text) # "<" THEN verdict("safe", 1)
     ELSE IF IsPrefix(Name(text), Reserved) /\ Name(text) # Reserved
     THEN IF ~final THEN verdict("hold", 0)
          ELSE IF Len(Name(text)) >= Partial THEN verdict("block", Len(text))
          ELSE verdict("safe", Len(text))
     ELSE IF ~IsPrefix(Reserved, Name(text)) THEN verdict("safe", 1)
     ELSE IF ends # {} THEN verdict("block", Min(ends))
     ELSE verdict(IF final THEN "block" ELSE "hold", Len(text))

\* Mutant: every piece is filtered by itself.
PieceByPiece(text) ==
  [shown |-> IF \E i \in 1..Len(text) :
                  text[i] = "<" /\ Classify(SubSeq(text, i, Len(text)), FALSE).verdict = "block"
             THEN <<Marker>> ELSE text,
   held |-> <<>>]

\* feed: what is shown of a text, and what is held from a "<" on.
Scan[text \in Texts] ==
  LET as == Classify(text, FALSE)
      rest == Scan[SubSeq(text, as.size + 1, Len(text))]
  IN IF text = <<>> \/ as.verdict = "hold" THEN [shown |-> <<>>, held |-> text]
     ELSE [shown |-> <<IF as.verdict = "block" THEN Marker ELSE Head(text)>> \o rest.shown,
           held |-> rest.held]

Filter(text) == Scan[text]

\* flush: the end of the channel decides about what is held.
Decide(text) ==
  IF text # <<>> /\ Classify(text, TRUE).verdict = "block" THEN <<Marker>> ELSE text

\* The filter and the quarantine of a text channel behind its detector, while
\* more may come and at its end.  Tool arguments are shown as they are.
Shown(c, state, raw) ==
  IF c \in ToolChannels THEN [shown |-> raw, held |-> <<>>, tail |-> <<>>]
  ELSE LET filtered == Filter(state.held \o raw)
           split == Split(state.tail \o filtered.shown, window)
       IN [shown |-> split.released, held |-> filtered.held, tail |-> split.kept]

\* Mutant: the end forgets what the filter holds.
ForgetsTheFilter(c, state, raw) ==
  IF c \in ToolChannels THEN raw
  ELSE LET filtered == Filter(raw)
       IN state.tail \o filtered.shown \o Decide(filtered.held)

AtEnd(c, state, raw) ==
  IF c \in ToolChannels THEN raw
  ELSE LET filtered == Filter(state.held \o raw)
       IN state.tail \o filtered.shown \o Decide(filtered.held)

\* sanitize_model_text: what a channel shows of a text that is known whole.
Whole(c, text) == AtEnd(c, [held |-> <<>>, tail |-> <<>>], text)

State(c) == [held |-> held[c], tail |-> tail[c]]
Empty == [c \in Channels |-> <<>>]
Emptied == carry' = Empty /\ held' = Empty /\ tail' = Empty
-----------------------------------------------------------------------------
Init ==
  /\ phase = "starting"
  /\ streaming \in BOOLEAN /\ window \in Windows
  /\ canaries = {}
  /\ script \in Scripts /\ at = [c \in Channels |-> 0]
  /\ finished = {}
  /\ carry = Empty /\ held = Empty /\ tail = Empty
  /\ out = Empty
  /\ match = None

Start(patterns, secrets) ==
  /\ phase = "starting"
  /\ IF Buildable(patterns) /\ Mergeable(patterns, secrets)
     THEN /\ phase' = "open"
          /\ canaries' = {p.value : p \in Range(patterns \o secrets)}
     ELSE phase' = "refused" /\ UNCHANGED canaries
  /\ UNCHANGED <<streaming, window, script, at, finished, chain, out, match>>

\* The first channel of an event or an answer that is among the hits.
FirstOf(hits) ==
  LET order == TextOrder \o ToolOrder
  IN order[Min({i \in DOMAIN order : order[i] \in hits})]

\* The channels of a whole answer that hold a canary.
FoundInResult == {c \in Channels : Find(script[c]).value # None}

\* guarded_run: the whole answer or nothing of it.
AnswerWhole ==
  /\ phase = "open" /\ ~streaming
  /\ at' = [c \in Channels |-> Len(script[c])]
  /\ IF FoundInResult # {}
     THEN /\ phase' = "interrupted"
          /\ match' = Find(script[FirstOf(FoundInResult)]).value
          /\ UNCHANGED out
     ELSE /\ phase' = "complete"
          /\ out' = [c \in Channels |-> Whole(c, script[c])]
          /\ UNCHANGED match
  /\ UNCHANGED <<streaming, window, canaries, script, finished, chain>>

\* What the detectors make of one event.  The texts are inspected first; the
\* tool calls only if no text holds a canary, up to the first that does.
Inspected(sizes) ==
  LET fed == [c \in Channels |->
               Guarded(carry[c], SubSeq(script[c], at[c] + 1, at[c] + sizes[c]))]
      hits == {c \in Channels : fed[c].found # None}
      scanned == {c \in Channels :
        \/ c \in TextChannels
        \/ hits \subseteq ToolChannels /\ \A i, j \in DOMAIN ToolOrder :
             ToolOrder[i] = c /\ j < i => ToolOrder[j] \notin hits}
  IN [step |-> [c \in Channels |-> IF c \in scanned THEN fed[c]
                 ELSE [released |-> <<>>, kept |-> carry[c], found |-> None]],
      hits |-> hits]

\* The stream will not go on: the look-behind of the other channels is given
\* up with the safe part of this event, and nothing else of the event.
Interrupt(step, hits) ==
  /\ phase' = "interrupted"
  /\ match' = step[FirstOf(hits)].found
  /\ out' = [c \in Channels |->
               out[c] \o AtEnd(c, State(c), step[c].released \o step[c].kept)]
  /\ Emptied
  /\ UNCHANGED finished

\* The safe part goes through filter and quarantine; the channels of a choice
\* that finishes give up what they keep in the same event.
Release(step, ends) ==
  LET going == [c \in Channels |-> Shown(c, State(c), step[c].released)]
      after == [c \in Channels |->
        IF ChoiceOf[c] \in ends
        THEN [shown |-> going[c].shown \o AtEnd(c, going[c], step[c].kept),
              held |-> <<>>, tail |-> <<>>, kept |-> <<>>]
        ELSE [shown |-> going[c].shown, held |-> going[c].held,
              tail |-> going[c].tail, kept |-> step[c].kept]]
  IN /\ out' = [c \in Channels |-> out[c] \o after[c].shown]
     /\ carry' = [c \in Channels |-> after[c].kept]
     /\ held' = [c \in Channels |-> after[c].held]
     /\ tail' = [c \in Channels |-> after[c].tail]
     /\ finished' = finished \union ends
     /\ UNCHANGED <<phase, match>>

\* One event: pieces of some channels, and the choices that finish with it.
Event(sizes, ends) ==
  /\ phase = "open" /\ streaming
  /\ \A c \in Channels : sizes[c] > 0 => ChoiceOf[c] \notin finished
  /\ ends \intersect finished = {}
  /\ at' = [c \in Channels |-> at[c] + sizes[c]]
  /\ LET seen == Inspected(sizes)
     IN \/ seen.hits # {} /\ Interrupt(seen.step, seen.hits)
        \/ seen.hits = {} /\ Release(seen.step, ends)
  /\ UNCHANGED <<streaming, window, canaries, script>>

\* _flush_event: every channel gives up what it keeps.
Flush(how) ==
  /\ phase = "open" /\ streaming
  /\ phase' = how
  /\ out' = [c \in Channels |-> out[c] \o AtEnd(c, State(c), carry[c])]
  /\ Emptied
  /\ UNCHANGED <<streaming, window, canaries, script, at, finished, match>>

\* "[DONE]", or the end of the stream without it.
StreamEnds == Flush("complete")
\* A frame that is no JSON, or a failure of the stage, which is raised on.
StreamFails == Flush("failed")

\* The caller closes the stream: the generator is closed at a yield.
CallerLeaves ==
  /\ phase = "open" /\ streaming
  /\ phase' = "left"
  /\ UNCHANGED <<streaming, window, canaries, script, at, finished, chain, out, match>>

Sizes == {s \in [Channels -> 0..MaxPiece] : MapThenSumSet(LAMBDA c : s[c], Channels) <= MaxEvent}

Deliver ==
  \E sizes \in Sizes, ends \in SUBSET ChoiceIds :
    /\ \A c \in Channels : at[c] + sizes[c] <= Len(script[c])
    /\ ends # {} \/ \E c \in Channels : sizes[c] > 0
    /\ Event(sizes, ends)

Next ==
  \/ \E p \in Policies, s \in Secrets : Start(p, s)
  \/ AnswerWhole
  \/ Deliver
  \/ StreamEnds
  \/ StreamFails
  \/ CallerLeaves

Spec == Init /\ [][Next]_vars
-----------------------------------------------------------------------------
Clean(text) == Find(text).value = None
BeforeCanary(text) == SubSeq(text, 1, Find(text).start - 1)

\* However the texts are cut, nothing the caller receives holds a configured
\* value, nor, while it may still be completed, the beginning of one: what is
\* out is the start of what the text before its first canary shows.
NothingPastACanary ==
  \A c \in Channels :
    /\ Clean(out[c])
    /\ phase = "open" /\ ChoiceOf[c] \notin finished =>
         IsPrefix(out[c], Whole(c, BeforeCanary(script[c])))

\* An answer that ends, fails or is finished for one choice has shown all
\* that arrived, as the same text would have been shown without streaming:
\* none of the three look-behinds swallows or reorders a symbol.
NothingIsLost ==
  \A c \in Channels :
    \/ phase \in {"complete", "failed"}
    \/ phase = "open" /\ ChoiceOf[c] \in finished
    => out[c] = Whole(c, Arrived(c))

\* An interrupt of a stream still releases what is known to be safe: the text
\* of the offending channel up to its canary, and all of the other texts.
InterruptKeepsTheRest ==
  phase = "interrupted" =>
    /\ match \in canaries
    /\ \E c \in Channels : Find(Arrived(c)).value = match
    /\ streaming => \A c \in TextChannels :
         out[c] = Whole(c, IF Clean(Arrived(c)) THEN Arrived(c) ELSE BeforeCanary(Arrived(c)))

\* No reserved tag is ever shown, whole or in a piece that names it.
NoReservedTagShown ==
  \A c \in TextChannels : \A i \in 1..Len(out[c]) :
    out[c][i] = "<" =>
      Classify(SubSeq(out[c], i, Len(out[c])), phase \in {"complete", "failed"}).verdict # "block"
=============================================================================
