------------------------------- MODULE PubSub -------------------------------
(* Publish and subscribe: internal/storage/pubsub.go, the executors of
   processor/pubsub_processor.go, the handlers of handler/pubsub_handlers.go,
   the message pump of pubsub_pump.go and the clean-up of HandlePipeline.

   The subscription maps change in the processor goroutine, or, on disconnect,
   in that of the client; both hold ps.mu, so each change is one step.  A
   channel and a pattern are sequences of characters.  A client's goroutine and
   its message pump run side by side and share client.Subscriber. *)
EXTENDS Integers, Sequences, FiniteSets, SequencesExt

CONSTANTS Client,       \* connections; an id is never used again
          Channel,
          Pattern,
          Star, One,    \* the characters * and ?
          Capacity,     \* of the channel of a Subscriber, 100 in the code
          MaxMessages   \* bound on the messages published

\* The pattern of a message that is not sent for a pattern is empty.
Direct == <<>>

PubSubConstants ==
    /\ Capacity \in Nat
    /\ MaxMessages \in Nat
    /\ Direct \notin Pattern

-----------------------------------------------------------------------------
(* Patterns. *)

\* Variant: only * ends the prefix.
PrefixToStar(p) ==
    LET plain == {n \in 0 .. Len(p) : \A i \in 1 .. n : p[i] # Star}
    IN  SubSeq(p, 1, CHOOSE n \in plain : \A m \in plain : m <= n)

\* The part of a pattern before its first wildcard.
Prefix(p) ==
    LET plain == {n \in 0 .. Len(p) : \A i \in 1 .. n : p[i] \notin {Star, One}}
    IN  SubSeq(p, 1, CHOOSE n \in plain : \A m \in plain : m <= n)

\* compilePattern: * is any sequence of characters and ? is one.
Matches(p, ch) ==
    LET m[i \in 0 .. Len(p), j \in 0 .. Len(ch)] ==
            \/ i = 0 /\ j = 0
            \/ /\ i > 0 /\ p[i] = Star
               /\ m[i - 1, j] \/ (j > 0 /\ m[i, j - 1])
            \/ /\ i > 0 /\ j > 0 /\ p[i] # Star
               /\ p[i] \in {One, ch[j]}
               /\ m[i - 1, j - 1]
    IN  m[Len(p), Len(ch)]

-----------------------------------------------------------------------------
VARIABLES channels,            \* channel -> its subscribers
          patterns,            \* pattern -> its subscribers
          subscriberChannels,  \* subscriber -> its channels
          subscriberPatterns,  \* subscriber -> its patterns
          subscribers,         \* the ids that have a Subscriber
          patternTrie,         \* how often each pattern is at the node of its prefix
          compiledPatterns,
          queue,               \* the channel of each Subscriber
          conn,                \* the goroutine of each client
          pump,                \* its message pump
          published,           \* the channels of the messages published
          panicked             \* a nil dereference: the process is gone

vars == <<channels, patterns, subscriberChannels, subscriberPatterns, subscribers,
          patternTrie, compiledPatterns, queue, conn, pump, published, panicked>>

maps == <<channels, patterns, subscriberChannels, subscriberPatterns, subscribers,
          patternTrie, compiledPatterns>>

(* pc: where the goroutine is; inPubSub and subscriber: the fields InPubSub and
   Subscriber # nil of the client; started: messagePumpStarted; total: the
   TotalCount it is answered; counts: those of the reply under way. *)
NewConn == [pc |-> "ready", inPubSub |-> FALSE, subscriber |-> FALSE, started |-> FALSE,
            total |-> 0, counts |-> <<>>]

NoMessage == [id |-> 0, pattern |-> Direct, channel |-> Direct]
NoPump    == [pc |-> "none", msg |-> NoMessage]

Init ==
    /\ channels = [ch \in Channel |-> {}]
    /\ patterns = [p \in Pattern |-> {}]
    /\ subscriberChannels = [c \in Client |-> {}]
    /\ subscriberPatterns = [c \in Client |-> {}]
    /\ subscribers = {}
    /\ patternTrie = [p \in Pattern |-> 0]
    /\ compiledPatterns = {}
    /\ queue = [c \in Client |-> <<>>]
    /\ conn = [c \in Client |-> NewConn]
    /\ pump = [c \in Client |-> NoPump]
    /\ published = <<>>
    /\ panicked = FALSE

At(c, point) == ~panicked /\ conn[c].pc = point

-----------------------------------------------------------------------------
(* The commands, as the processor executes them. *)

\* The subscribers of the given topics, with c added or taken out.
With(topics, c, names)    == [x \in DOMAIN topics |->
                                IF x \in names THEN topics[x] \cup {c} ELSE topics[x]]
Without(topics, c, names) == [x \in DOMAIN topics |->
                                IF x \in names THEN topics[x] \ {c} ELSE topics[x]]

\* GetSubscriberCount, after the change.
Total(c) == Cardinality(subscriberChannels'[c]) + Cardinality(subscriberPatterns'[c])

\* executeSubscribe: every confirmation has the same count.
Subscribed(c, names) ==
    /\ subscribers' = subscribers \cup {c}
    /\ conn' = [conn EXCEPT ![c].pc = "subscribed",
                            ![c].counts = [i \in 1 .. Cardinality(names) |-> Total(c)]]
    /\ UNCHANGED <<queue, pump, published, panicked>>

Subscribe(c) == \E names \in SUBSET Channel :
    /\ At(c, "ready") /\ names # {}
    /\ channels' = With(channels, c, names)
    /\ subscriberChannels' = [subscriberChannels EXCEPT ![c] = @ \cup names]
    /\ UNCHANGED <<patterns, subscriberPatterns, patternTrie, compiledPatterns>>
    /\ Subscribed(c, names)

Inserted(trie, new) == [p \in Pattern |-> IF p \in new THEN trie[p] + 1 ELSE trie[p]]
Removed(trie, gone) == [p \in Pattern |-> IF p \in gone /\ trie[p] > 0 THEN trie[p] - 1 ELSE trie[p]]

\* A pattern without subscribers is new: it is inserted in the trie.
PSubscribe(c) == \E names \in SUBSET Pattern :
    LET new == {p \in names : patterns[p] = {}} IN
    /\ At(c, "ready") /\ names # {}
    /\ patterns' = With(patterns, c, names)
    /\ subscriberPatterns' = [subscriberPatterns EXCEPT ![c] = @ \cup names]
    /\ patternTrie' = Inserted(patternTrie, new)
    /\ compiledPatterns' = compiledPatterns \cup new
    /\ UNCHANGED <<channels, subscriberChannels>>
    /\ Subscribed(c, names)

\* executeUnsubscribe: the count decreases from the final one.
Unsubscribed(c, names) ==
    /\ conn' = [conn EXCEPT ![c].pc = "unsubscribed", ![c].total = Total(c),
                            ![c].counts = [i \in 1 .. Cardinality(names) |-> Total(c) - (i - 1)]]
    /\ UNCHANGED <<subscribers, queue, pump, published, panicked>>

\* Without arguments, all of them.
Unsubscribe(c) == \E args \in SUBSET Channel :
    LET names == IF args = {} THEN subscriberChannels[c] ELSE args IN
    /\ At(c, "ready")
    /\ channels' = Without(channels, c, names)
    /\ subscriberChannels' = [subscriberChannels EXCEPT ![c] = @ \ names]
    /\ UNCHANGED <<patterns, subscriberPatterns, patternTrie, compiledPatterns>>
    /\ Unsubscribed(c, names)

\* A pattern that loses its last subscriber leaves the trie.
PUnsubscribe(c) == \E args \in SUBSET Pattern :
    LET names == IF args = {} THEN subscriberPatterns[c] ELSE args
        gone  == {p \in names : patterns[p] = {c}}
    IN  /\ At(c, "ready")
        /\ patterns' = Without(patterns, c, names)
        /\ subscriberPatterns' = [subscriberPatterns EXCEPT ![c] = @ \ names]
        /\ patternTrie' = Removed(patternTrie, gone)
        /\ compiledPatterns' = compiledPatterns \ gone
        /\ UNCHANGED <<channels, subscriberChannels>>
        /\ Unsubscribed(c, names)

\* GetMatchingPatterns: the patterns whose node is on the way from the root
\* along the name of the channel.
Candidates(ch) == {p \in Pattern : patternTrie[p] > 0 /\ IsPrefix(Prefix(p), ch)}

\* What Publish sends to c, the candidates being in the given order.
Sends(c, ch, id, order) ==
    LET Message(p) == [id |-> id, pattern |-> p, channel |-> ch]
        Reaches(p) == c \in patterns[p] /\ p \in compiledPatterns /\ Matches(p, ch)
        Times(p)   == [i \in 1 .. patternTrie[p] |-> Message(p)]
        reached    == SelectSeq(order, Reaches)
    IN  (IF c \in channels[ch] THEN <<Message(Direct)>> ELSE <<>>)
        \o FlattenSeq([i \in DOMAIN reached |-> Times(reached[i])])

\* A send to a full channel is skipped.  (The pumps are taken not to run within
\* one Publish.)
Fit(q, sends) == IF Len(q \o sends) <= Capacity THEN q \o sends
                                               ELSE SubSeq(q \o sends, 1, Capacity)

Publish == \E ch \in Channel : \E order \in SetToSeqs(Candidates(ch)) :
    /\ ~panicked /\ Len(published) < MaxMessages
    /\ published' = Append(published, ch)
    /\ queue' = [c \in Client |-> Fit(queue[c], Sends(c, ch, Len(published'), order))]
    /\ UNCHANGED <<maps, conn, pump, panicked>>

-----------------------------------------------------------------------------
(* The goroutine of a client, after the processor's answer. *)

\* handleSubscribe sets the fields; HandlePipeline starts the pump, once.
EnterPubSub(c) ==
    /\ At(c, "subscribed")
    /\ conn' = [conn EXCEPT ![c].pc = "ready", ![c].inPubSub = TRUE, ![c].subscriber = TRUE,
                            ![c].started = TRUE, ![c].counts = <<>>]
    /\ pump' = IF conn[c].started THEN pump ELSE [pump EXCEPT ![c].pc = "waiting"]
    /\ UNCHANGED <<maps, queue, published, panicked>>

\* Variant: any UNSUBSCRIBE leaves the mode.
LeaveAlways(c) ==
    /\ At(c, "unsubscribed")
    /\ conn' = [conn EXCEPT ![c].pc = "ready", ![c].total = 0, ![c].counts = <<>>,
                            ![c].inPubSub = FALSE, ![c].subscriber = FALSE]
    /\ UNCHANGED <<maps, queue, pump, published, panicked>>

\* handleUnsubscribe: out of the mode when nothing is left.
LeavePubSub(c) ==
    /\ At(c, "unsubscribed")
    /\ conn' = [conn EXCEPT ![c].pc = "ready", ![c].total = 0, ![c].counts = <<>>,
                            ![c].inPubSub = @ /\ conn[c].total # 0,
                            ![c].subscriber = @ /\ conn[c].total # 0]
    /\ UNCHANGED <<maps, queue, pump, published, panicked>>

\* RemoveSubscriber: the trie and the compiled patterns are left alone.
RemoveSubscriber(c) ==
    /\ channels' = Without(channels, c, subscriberChannels[c])
    /\ subscriberChannels' = [subscriberChannels EXCEPT ![c] = {}]
    /\ patterns' = Without(patterns, c, subscriberPatterns[c])
    /\ subscriberPatterns' = [subscriberPatterns EXCEPT ![c] = {}]
    /\ subscribers' = subscribers \ {c}
    /\ UNCHANGED <<patternTrie, compiledPatterns>>

Disconnect(c) ==
    /\ At(c, "ready")
    /\ conn' = [conn EXCEPT ![c].pc = "gone"]
    /\ IF conn[c].inPubSub /\ conn[c].subscriber THEN RemoveSubscriber(c) ELSE UNCHANGED maps
    /\ UNCHANGED <<queue, pump, published, panicked>>

-----------------------------------------------------------------------------
(* The message pump. *)

PumpReceive(c) ==
    /\ ~panicked /\ pump[c].pc = "waiting" /\ queue[c] # <<>>
    /\ pump' = [pump EXCEPT ![c] = [pc |-> "writing", msg |-> Head(queue[c])]]
    /\ queue' = [queue EXCEPT ![c] = Tail(@)]
    /\ UNCHANGED <<maps, conn, published, panicked>>

\* Write the message; a closed connection ends the pump.
PumpWrite(c) ==
    /\ ~panicked /\ pump[c].pc = "writing"
    /\ IF conn[c].pc = "gone"
       THEN pump' = [pump EXCEPT ![c] = [NoPump EXCEPT !.pc = "ended"]]
       ELSE pump' = [pump EXCEPT ![c] = [NoPump EXCEPT !.pc = "looping"]]
    /\ UNCHANGED <<maps, queue, conn, published, panicked>>

\* The next turn of the loop reads client.Subscriber.Channels.
PumpLoop(c) ==
    /\ ~panicked /\ pump[c].pc = "looping"
    /\ IF conn[c].subscriber
       THEN pump' = [pump EXCEPT ![c].pc = "waiting"] /\ UNCHANGED panicked
       ELSE panicked' = TRUE /\ UNCHANGED pump
    /\ UNCHANGED <<maps, queue, conn, published>>

ClientStep(c) ==
    \/ Subscribe(c)
    \/ PSubscribe(c)
    \/ Unsubscribe(c)
    \/ PUnsubscribe(c)
    \/ EnterPubSub(c)
    \/ LeavePubSub(c)
    \/ Disconnect(c)

PumpStep(c) ==
    \/ PumpReceive(c)
    \/ PumpWrite(c)
    \/ PumpLoop(c)

Next ==
    \/ Publish
    \/ \E c \in Client : ClientStep(c) \/ PumpStep(c)

Spec == Init /\ [][Next]_vars

-----------------------------------------------------------------------------
(* Properties. *)

Message == [id : 1 .. MaxMessages, pattern : Pattern \cup {Direct}, channel : Channel]

\* Every variable keeps its type; no channel holds more than its capacity.
TypeOK ==
    /\ channels \in [Channel -> SUBSET Client]
    /\ patterns \in [Pattern -> SUBSET Client]
    /\ subscriberChannels \in [Client -> SUBSET Channel]
    /\ subscriberPatterns \in [Client -> SUBSET Pattern]
    /\ subscribers \subseteq Client
    /\ patternTrie \in [Pattern -> Nat]
    /\ compiledPatterns \subseteq Pattern
    /\ \A c \in Client : queue[c] \in Seq(Message) /\ Len(queue[c]) <= Capacity
    /\ \A c \in Client : conn[c].pc \in {"ready", "subscribed", "unsubscribed", "gone"}
    /\ \A c \in Client : pump[c].pc \in {"none", "waiting", "writing", "looping", "ended"}
    /\ published \in Seq(Channel)
    /\ panicked \in BOOLEAN

\* The two sides of the subscription maps agree, through subscriptions,
\* unsubscriptions and disconnections in any order; who is in one of them has a
\* Subscriber, and no connection that is gone is left in any.
SubscriptionsExact ==
    /\ \A c \in Client, ch \in Channel : c \in channels[ch] <=> ch \in subscriberChannels[c]
    /\ \A c \in Client, p \in Pattern : c \in patterns[p] <=> p \in subscriberPatterns[c]
    /\ \A c \in Client : subscriberChannels[c] \cup subscriberPatterns[c] # {} =>
                             c \in subscribers /\ conn[c].pc # "gone"

\* A pattern with subscribers is at its node of the trie and is compiled, also
\* after RemoveSubscriber left an entry of it behind.
TrieCovers ==
    \A p \in Pattern : patterns[p] # {} =>
        patternTrie[p] > 0 /\ p \in compiledPatterns

\* PUBLISH misses nobody: whoever subscribes to the channel, or to a pattern
\* that matches it, and has room for all of it, is sent the message.  The trie
\* only finds the patterns whose prefix is one of the channel's name.
PublishReaches ==
    [][published' # published =>
         \A c \in Client :
             LET ch   == Last(published')
                 sent == {queue'[c][i].pattern : i \in Len(queue[c]) + 1 .. Len(queue'[c])}
             IN  Len(queue'[c]) < Capacity =>
                     /\ c \in channels[ch] => Direct \in sent
                     /\ \A p \in Pattern : c \in patterns[p] /\ Matches(p, ch) => p \in sent]_vars

\* "At-Most-Once Delivery" (docs/pubsub.md): a subscription sends a message to
\* its client once.
AtMostOnce ==
    \A c \in Client : \A i, j \in DOMAIN queue[c] : queue[c][i] = queue[c][j] => i = j

\* "Exited cleanly, continue in normal mode" (HandlePubSubMode): leaving the
\* mode does not stop the process.
NoPanic == ~panicked

\* "Number of active subscriptions (for subscribe/unsubscribe responses)"
\* (Message.Count): a reply does not give a negative number.
CountsActive ==
    \A c \in Client : \A i \in DOMAIN conn[c].counts : conn[c].counts[i] >= 0
=============================================================================
