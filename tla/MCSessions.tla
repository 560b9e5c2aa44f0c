----------------------------- MODULE MCSessions -----------------------------
(* What the server keeps for a client between its commands, on small          *)
(* instances: its transaction and watched keys, or its subscriptions.  A      *)
(* behaviour is one of the two (part says which).                             *)
EXTENDS Transactions, TLC

CONSTANTS Star, One, Capacity, MaxMessages

VARIABLE part
VARIABLES channels, patterns, subscriberChannels, subscriberPatterns, subscribers, patternTrie,
          compiledPatterns, queue, conn, pump, published, panicked

pubsubVars == <<channels, patterns, subscriberChannels, subscriberPatterns, subscribers,
                patternTrie, compiledPatterns, queue, conn, pump, published, panicked>>

Symmetry == Permutations(Client) \cup Permutations(Key)

\* One channel ab, and the patterns a* and ?b.
MCChannel  == {<<"a", "b">>}
MCPatterns == {<<"a", Star>>, <<One, "b">>}

S == INSTANCE PubSub WITH Channel <- MCChannel, Pattern <- MCPatterns

ASSUME SessionsConstants == S!PubSubConstants

SessionsInit ==
    /\ part \in {"transactions", "pubsub"}
    /\ Init
    /\ S!Init

SessionsNext ==
    /\ UNCHANGED part
    /\ \/ part = "transactions" /\ Next /\ UNCHANGED pubsubVars
       \/ part = "pubsub" /\ S!Next /\ UNCHANGED vars

SessionsSpec == SessionsInit /\ [][SessionsNext]_<<part, vars, pubsubVars>>

\* The two sides of the subscription maps agree, and a pattern with subscribers is at its
\* node of the trie and is compiled, through subscriptions, unsubscriptions and
\* disconnections in any order (storage/pubsub.go: one relation in six structures).
SubscriptionsExact == S!SubscriptionsExact /\ S!TrieCovers

\* PUBLISH misses nobody who subscribes to the channel, or to a pattern that matches it,
\* and has room (storage/pubsub.go: Publish).
PublishReaches == S!PublishReaches

-----------------------------------------------------------------------------
(* Statements of the repository that publish and subscribe does not keep.     *)

\* docs/pubsub.md: at most once.
AtMostOnce == S!AtMostOnce

\* handler/pipeline.go: subscribe mode is left cleanly.
NoPanic == S!NoPanic

\* storage/pubsub.go: the number of active subscriptions.
CountsActive == S!CountsActive
=============================================================================
