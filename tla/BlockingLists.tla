--------------------------- MODULE BlockingLists ----------------------------
(* BLPOP, BRPOP, BLMOVE and BRPOPLPUSH: internal/handler/blocking.go, the
   handlers of blocking_handlers.go and pipeline_blocking.go, and the pushes of
   list_handlers.go that wake the blocked clients.

   The goroutines are those of the clients and, for each registration of a
   blocked client, one that waits for its timeout.  List operations are single
   steps of the processor goroutine.  Elements are numbered in the order they
   are pushed.  Every registration is kept, so that what is left of an old one
   can still act. *)
EXTENDS Naturals, Sequences, FiniteSets, SequencesExt

CONSTANTS Client,
          Key,
          WrongType,    \* keys that hold a value other than a list
          NoKey,        \* the empty string, of DestKey
          Free,         \* the mutex bm.mu is not held
          Requests,     \* the blocking commands clients use; see Request
          MaxBatch,     \* bound on the values of one push
          MaxPushed,    \* bound on the elements pushed
          MaxBlocks     \* bound on the registrations

Side == {"LEFT", "RIGHT"}

Request == [keys : Seq(Key), dir : Side, dest : Key \cup {NoKey}, destDir : Side,
            expires : BOOLEAN]

ASSUME BlockingAssumption ==
    /\ WrongType \subseteq Key
    /\ NoKey \notin Key
    /\ Free \notin Client
    /\ Requests \subseteq Request
    /\ MaxBatch \in Nat
    /\ MaxPushed \in Nat
    /\ MaxBlocks \in Nat

VARIABLES lists,              \* the lists of the store
          pushed,             \* the number of elements pushed
          cl,                 \* the goroutine of each client
          regs,               \* the BlockedClients, in the order of BlockClient
          keyBlockedClients,  \* reverse index, by number of the registration
          clientBlocked,      \* forward index, 0 for none
          mu,                 \* holder of the manager's mutex
          delivered,          \* history: elements handed to a client
          lost,               \* history: elements dropped
          panicked            \* a send on a closed channel: the process is gone

vars == <<lists, pushed, cl, regs, keyBlockedClients, clientBlocked, mu,
          delivered, lost, panicked>>

Idle == [pc |-> "ready", req |-> <<>>, pos |-> 0, hand |-> 0, reg |-> 0, key |-> NoKey]

Init ==
    /\ lists = [k \in Key |-> <<>>]
    /\ pushed = 0
    /\ cl = [c \in Client |-> Idle]
    /\ regs = <<>>
    /\ keyBlockedClients = [k \in Key |-> <<>>]
    /\ clientBlocked = [c \in Client |-> 0]
    /\ mu = Free
    /\ delivered = {}
    /\ lost = {}
    /\ panicked = FALSE

\* LPop, RPop, LPush and RPush of the processor, on a list.
Peek(l, dir)    == IF dir = "LEFT" THEN Head(l) ELSE Last(l)
Popped(l, dir)  == IF dir = "LEFT" THEN Tail(l) ELSE Front(l)
PushOn(l, dir, e) == IF dir = "LEFT" THEN <<e>> \o l ELSE Append(l, e)

\* A push whose error is ignored: on a wrong type the element is gone.
MoveTo(k, dir, e) ==
    IF k \in WrongType
    THEN lost' = lost \cup {e} /\ UNCHANGED lists
    ELSE lists' = [lists EXCEPT ![k] = PushOn(@, dir, e)] /\ UNCHANGED lost

\* The goroutine of c is at the given point, in a process that is still there.
At(c, point) == ~panicked /\ cl[c].pc = point

manager == <<regs, keyBlockedClients, clientBlocked, mu>>

-----------------------------------------------------------------------------
(* The first, non-blocking attempt. *)

Issue(c) == \E r \in Requests :
    /\ At(c, "ready") /\ Len(regs) < MaxBlocks
    /\ cl' = [cl EXCEPT ![c] = [Idle EXCEPT !.pc = "trying", !.req = r, !.pos = 1]]
    /\ UNCHANGED <<lists, pushed, manager, delivered, lost, panicked>>

\* The next key has an element: it is the reply, or is moved on.
TryPop(c) ==
    LET r == cl[c].req
        k == r.keys[cl[c].pos]
        e == Peek(lists[k], r.dir)
    IN  /\ At(c, "trying")
        /\ lists[k] # <<>>
        /\ lists' = [lists EXCEPT ![k] = Popped(@, r.dir)]
        /\ IF r.dest = NoKey
           THEN cl' = [cl EXCEPT ![c] = Idle] /\ delivered' = delivered \cup {e}
           ELSE cl' = [cl EXCEPT ![c].pc = "moving", ![c].hand = e] /\ UNCHANGED delivered
        /\ UNCHANGED <<pushed, manager, lost, panicked>>

TryNext(c) ==
    LET r == cl[c].req IN
    /\ At(c, "trying")
    /\ lists[r.keys[cl[c].pos]] = <<>>
    /\ cl' = [cl EXCEPT ![c].pos = @ + 1,
                        ![c].pc = IF cl[c].pos = Len(r.keys) THEN "register" ELSE "trying"]
    /\ UNCHANGED <<lists, pushed, manager, delivered, lost, panicked>>

\* The second command of an immediate BLMOVE; nobody is notified.
MovePush(c) ==
    /\ At(c, "moving")
    /\ MoveTo(cl[c].req.dest, cl[c].req.destDir, cl[c].hand)
    /\ cl' = [cl EXCEPT ![c] = Idle]
    /\ UNCHANGED <<pushed, manager, delivered, panicked>>

-----------------------------------------------------------------------------
(* The blocking manager.  A registration has the channel of capacity one that
   its result is sent on, and the goroutine of its timeout, if it has one. *)

NewReg(c, r) == [client |-> c, req |-> r, buf |-> <<>>, closed |-> FALSE,
                 timer |-> r.expires, nodes |-> ToSet(r.keys)]

\* Variant: the new registration goes to the front.
BlockClientFront(c) ==
    LET r == cl[c].req
        n == Len(regs) + 1
        Nodes(k) == [i \in 1 .. Cardinality({j \in DOMAIN r.keys : r.keys[j] = k}) |-> n]
    IN  /\ At(c, "register") /\ mu = Free /\ n <= MaxBlocks
        /\ regs' = Append(regs, NewReg(c, r))
        /\ keyBlockedClients' = [k \in Key |-> Nodes(k) \o keyBlockedClients[k]]
        /\ clientBlocked' = [clientBlocked EXCEPT ![c] = n]
        /\ cl' = [cl EXCEPT ![c].pc = "waiting", ![c].reg = n, ![c].pos = 0]
        /\ UNCHANGED <<lists, pushed, mu, delivered, lost, panicked>>

\* One node per occurrence of the key; only the last one is remembered.
BlockClient(c) ==
    LET r == cl[c].req
        n == Len(regs) + 1
        Nodes(k) == [i \in 1 .. Cardinality({j \in DOMAIN r.keys : r.keys[j] = k}) |-> n]
    IN  /\ At(c, "register") /\ mu = Free /\ n <= MaxBlocks
        /\ regs' = Append(regs, NewReg(c, r))
        /\ keyBlockedClients' = [k \in Key |-> keyBlockedClients[k] \o Nodes(k)]
        /\ clientBlocked' = [clientBlocked EXCEPT ![c] = n]
        /\ cl' = [cl EXCEPT ![c].pc = "waiting", ![c].reg = n, ![c].pos = 0]
        /\ UNCHANGED <<lists, pushed, mu, delivered, lost, panicked>>

RemoveLast(q, n) == IF \E i \in DOMAIN q : q[i] = n
                    THEN LET i == CHOOSE i \in DOMAIN q :
                                     q[i] = n /\ \A j \in DOMAIN q : q[j] = n => j <= i
                         IN  SubSeq(q, 1, i - 1) \o SubSeq(q, i + 1, Len(q))
                    ELSE q

\* Variant: only the first key of the request is cleaned up.
RemoveFromFirst(n) ==
    /\ clientBlocked' = [clientBlocked EXCEPT ![regs[n].client] = 0]
    /\ keyBlockedClients' = [keyBlockedClients EXCEPT
                               ![Head(regs[n].req.keys)] = RemoveLast(@, n)]

\* removeBlockedClientLocked, on the two indexes.
RemoveBlockedClient(n) ==
    /\ clientBlocked' = [clientBlocked EXCEPT ![regs[n].client] = 0]
    /\ keyBlockedClients' = [k \in Key |-> IF k \in regs[n].nodes
                                           THEN RemoveLast(keyBlockedClients[k], n)
                                           ELSE keyBlockedClients[k]]

\* Send a result and close the channel: a panic if it is closed already.
SendAndClose(n, result, timer) ==
    /\ panicked' = regs[n].closed
    /\ regs' = [regs EXCEPT ![n].buf = IF regs[n].closed THEN @ ELSE <<result>>,
                            ![n].closed = TRUE, ![n].nodes = {}, ![n].timer = timer]

TimedOut == 0

\* The timer fires; the client is looked up by its ID, not by registration.
HandleTimeout(n) ==
    /\ ~panicked /\ regs[n].timer /\ mu = Free
    /\ IF clientBlocked[regs[n].client] = 0
       THEN /\ regs' = [regs EXCEPT ![n].timer = FALSE]
            /\ UNCHANGED <<keyBlockedClients, clientBlocked, panicked>>
       ELSE /\ RemoveBlockedClient(n)
            /\ SendAndClose(n, TimedOut, FALSE)
    /\ UNCHANGED <<lists, pushed, cl, mu, delivered, lost>>

\* Or it receives from the channel itself: whatever it gets is gone.
TimerReceives(n) ==
    /\ ~panicked /\ regs[n].timer
    /\ regs[n].buf # <<>> \/ regs[n].closed
    /\ regs' = [regs EXCEPT ![n].timer = FALSE, ![n].buf = <<>>]
    /\ lost' = IF regs[n].req.dest = NoKey THEN lost \cup (ToSet(regs[n].buf) \ {TimedOut})
                                           ELSE lost
    /\ UNCHANGED <<lists, pushed, cl, keyBlockedClients, clientBlocked, mu, delivered, panicked>>

\* The client receives an element, a timeout, or the zero value of a closed channel.
Receive(c) ==
    LET n == cl[c].reg IN
    /\ At(c, "waiting")
    /\ regs[n].buf # <<>> \/ regs[n].closed
    /\ regs' = [regs EXCEPT ![n].buf = <<>>]
    /\ delivered' = IF regs[n].req.dest = NoKey
                    THEN delivered \cup (ToSet(regs[n].buf) \ {TimedOut})
                    ELSE delivered
    /\ cl' = [cl EXCEPT ![c] = Idle]
    /\ UNCHANGED <<lists, pushed, keyBlockedClients, clientBlocked, mu, lost, panicked>>

\* The context is cancelled: RemoveClient, and the connection ends.  What the
\* channel holds stays there.
Cancel(c) ==
    LET n == clientBlocked[c] IN
    /\ At(c, "waiting") /\ mu = Free
    /\ IF n = 0
       THEN UNCHANGED <<regs, keyBlockedClients, clientBlocked>>
       ELSE /\ RemoveBlockedClient(n)
            /\ regs' = [regs EXCEPT ![n].closed = TRUE, ![n].nodes = {}]
    /\ cl' = [cl EXCEPT ![c] = [Idle EXCEPT !.pc = "gone"]]
    /\ UNCHANGED <<lists, pushed, mu, delivered, lost, panicked>>

-----------------------------------------------------------------------------
(* Pushes, and the clients they wake. *)

\* LPUSH or RPUSH of the next n elements, one after the other.
PushMany(l, dir, n) ==
    LET new == [i \in 1 .. n |-> pushed + i]
    IN  IF dir = "LEFT" THEN Reverse(new) \o l ELSE l \o new

Push(c) == \E k \in Key \ WrongType, dir \in Side, n \in 1 .. MaxBatch :
    /\ At(c, "ready") /\ pushed + n <= MaxPushed
    /\ lists' = [lists EXCEPT ![k] = PushMany(@, dir, n)]
    /\ pushed' = pushed + n
    /\ cl' = [cl EXCEPT ![c] = [Idle EXCEPT !.pc = "notify", !.key = k]]
    /\ UNCHANGED <<manager, delivered, lost, panicked>>

\* LPOP or RPOP of one element.
Pop(c) == \E k \in Key, dir \in Side :
    /\ At(c, "ready") /\ lists[k] # <<>>
    /\ delivered' = delivered \cup {Peek(lists[k], dir)}
    /\ lists' = [lists EXCEPT ![k] = Popped(@, dir)]
    /\ UNCHANGED <<pushed, cl, manager, lost, panicked>>

\* NotifyListPush looks for waiters, with the lock, before it takes it again.
NotifyListPush(c) ==
    /\ At(c, "notify") /\ mu = Free
    /\ cl' = [cl EXCEPT ![c] = IF keyBlockedClients[@.key] = <<>> THEN Idle
                                ELSE [@ EXCEPT !.pc = "unblock"]]
    /\ UNCHANGED <<lists, pushed, manager, delivered, lost, panicked>>

\* Variant: the element is read and not popped.
UnblockPeek(c) ==
    LET k == cl[c].key
        n == Head(keyBlockedClients[k])
        e == Peek(lists[k], regs[n].req.dir)
    IN  /\ At(c, "unblock") /\ mu = Free
        /\ IF keyBlockedClients[k] = <<>> \/ lists[k] = <<>>
           THEN cl' = [cl EXCEPT ![c] = Idle] /\ UNCHANGED mu
           ELSE /\ cl' = [cl EXCEPT ![c].pc = "deliver", ![c].hand = e, ![c].reg = n]
                /\ mu' = c
        /\ UNCHANGED <<lists, pushed, regs, keyBlockedClients, clientBlocked, delivered,
                       lost, panicked>>

\* UnblockClientWithData: the pop, for the first waiter.
UnblockPop(c) ==
    LET k == cl[c].key
        n == Head(keyBlockedClients[k])
        r == regs[n].req
        e == Peek(lists[k], r.dir)
    IN  /\ At(c, "unblock") /\ mu = Free
        /\ IF keyBlockedClients[k] = <<>> \/ lists[k] = <<>>
           THEN cl' = [cl EXCEPT ![c] = Idle] /\ UNCHANGED <<lists, mu>>
           ELSE /\ lists' = [lists EXCEPT ![k] = Popped(@, r.dir)]
                /\ cl' = [cl EXCEPT ![c].pc = "deliver", ![c].hand = e, ![c].reg = n]
                /\ mu' = c
        /\ UNCHANGED <<pushed, regs, keyBlockedClients, clientBlocked, delivered, lost, panicked>>

\* The push of BLMOVE, the removal and the send, in the same critical section.
UnblockDeliver(c) ==
    LET n == cl[c].reg
        r == regs[n].req
    IN  /\ At(c, "deliver")
        /\ IF r.dest # NoKey
           THEN MoveTo(r.dest, r.destDir, cl[c].hand)
           ELSE /\ lost' = IF regs[n].closed THEN lost \cup {cl[c].hand} ELSE lost
                /\ UNCHANGED lists
        /\ RemoveBlockedClient(n)
        /\ SendAndClose(n, cl[c].hand, regs[n].timer)
        /\ mu' = Free
        /\ cl' = [cl EXCEPT ![c] = Idle]
        /\ UNCHANGED <<pushed, delivered>>

ClientStep(c) ==
    \/ Issue(c) \/ TryPop(c) \/ TryNext(c) \/ MovePush(c)
    \/ BlockClient(c) \/ Receive(c) \/ Cancel(c)
    \/ Push(c) \/ Pop(c) \/ NotifyListPush(c) \/ UnblockPop(c) \/ UnblockDeliver(c)

Next ==
    \/ \E c \in Client : ClientStep(c)
    \/ \E n \in 1 .. Len(regs) : HandleTimeout(n) \/ TimerReceives(n)

Spec == Init /\ [][Next]_vars

-----------------------------------------------------------------------------
\* The type invariant.
TypeOK ==
    /\ lists \in [Key -> Seq(1 .. pushed)]
    /\ pushed \in 0 .. MaxPushed
    /\ \A c \in Client :
        /\ cl[c].pc \in {"ready", "trying", "moving", "register", "waiting",
                         "notify", "unblock", "deliver", "gone"}
        /\ cl[c].hand \in 0 .. pushed /\ cl[c].reg \in 0 .. Len(regs)
        /\ cl[c].req \in Requests \cup {<<>>} /\ cl[c].key \in Key \cup {NoKey}
    /\ regs \in Seq([client : Client, req : Requests, buf : Seq(0 .. pushed),
                     closed : BOOLEAN, timer : BOOLEAN, nodes : SUBSET Key])
    /\ keyBlockedClients \in [Key -> Seq(1 .. Len(regs))]
    /\ clientBlocked \in [Client -> 0 .. Len(regs)]
    /\ mu \in Client \cup {Free}
    /\ delivered \subseteq 1 .. pushed
    /\ lost \subseteq 1 .. pushed
    /\ panicked \in BOOLEAN

\* Where an element can be.  The result of a BLMOVE is a copy: the element
\* itself is in the destination.
Places(e) ==
    UNION {{<<"list", k, i>> : i \in {i \in DOMAIN lists[k] : lists[k][i] = e}} : k \in Key}
    \cup {<<"channel", n>> : n \in {n \in DOMAIN regs :
                                       regs[n].req.dest = NoKey /\ regs[n].buf = <<e>>}}
    \cup {<<"hand", c>> : c \in {c \in Client : cl[c].hand = e}}
    \cup {<<"delivered">> : x \in delivered \cap {e}}
    \cup {<<"lost">> : x \in lost \cap {e}}

\* No element is handed out twice or is in a list and with a client at once,
\* whatever pushes, pops, wakeups, timeouts and cancellations interleave.
ElementsConserved == \A e \in 1 .. pushed : Cardinality(Places(e)) = 1

\* The two indexes agree with each other and with the channels: a registration
\* is in the list of each of its keys exactly once while it waits, and nowhere
\* once it was served, timed out or cancelled.  It takes requests that do not
\* name a key twice.
RegistryExact ==
    ~panicked =>
    \A n \in DOMAIN regs :
        /\ regs[n].closed <=> clientBlocked[regs[n].client] # n
        /\ \A k \in Key :
             Cardinality({i \in DOMAIN keyBlockedClients[k] : keyBlockedClients[k][i] = n}) =
             IF ~regs[n].closed /\ k \in ToSet(regs[n].req.keys) THEN 1 ELSE 0

\* blocking.go:185 "removes a blocked client from all data structures": no key
\* keeps a registration that was served, timed out or cancelled.
RemovedEverywhere ==
    \A n \in DOMAIN regs : regs[n].closed =>
        \A k \in Key : n \notin ToSet(keyBlockedClients[k])

\* docs/BLOCKING_LISTS.md:271 "served in FIFO order": a push serves the client
\* that has waited longest on the key.
ServedInOrder ==
    [][\A c \in Client : UnblockDeliver(c) =>
          \A n \in ToSet(keyBlockedClients[cl[c].key]) : cl[c].reg <= n]_vars

\* blocking.go:140 "Client was served before timeout": an element popped for a blocked
\* client reaches it.
NothingLost == lost = {}

\* docs/BLOCKING_LISTS.md:13 "Block until an element is available": no client
\* is left waiting on a list that has an element, with no push on its way to
\* wake it.
NoLostWakeup ==
    \A k \in Key : lists[k] # <<>> /\ keyBlockedClients[k] # <<>> =>
        \E c \in Client : cl[c].key = k

\* blocking.go:124 "Check if client is still blocked (might have been served
\* already)": the timeout of a registration that was served does nothing.
NoPanic == ~panicked

=============================================================================
