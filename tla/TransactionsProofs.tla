------------------------- MODULE TransactionsProofs -------------------------
(* Proofs about Transactions, for every set of clients, keys and commands. *)
EXTENDS Transactions, TLAPS

\* ChangeIsKnown is inductive together with the exactness of the index.
TransactionsInv == TypeOK /\ WatchIndexExact /\ ChangeIsKnown

\* The commands of the instance are commands.
LEMMA CommandsTyped == Commands \subseteq Command
  BY TransactionsAssumption DEF Commands, Command

\* Reset, ClearWatches and MULTI give transactions.
LEMMA Fresh ==
  ASSUME NEW t \in Transaction
  PROVE  /\ Reset(t) \in Transaction
         /\ Reset(t).watched = t.watched /\ Reset(t).dirty = t.dirty
         /\ ClearWatches(t) \in Transaction /\ ClearWatches(t).watched = {}
         /\ [t EXCEPT !.started = TRUE, !.queue = <<>>] \in Transaction
  <1>1. <<>> \in Seq(Command)
    OBVIOUS
  <1>. QED
    BY <1>1 DEF Transaction, Reset, ClearWatches

\* NewTransactionManager is in the invariant.
LEMMA TransactionsInit == Init => TransactionsInv
  BY DEF Init, TransactionsInv, TypeOK, Transaction, WatchIndexExact, ChangeIsKnown, NewTransaction

\* The keys a command changes or reports are keys.
LEMMA WrittenKeys ==
  ASSUME NEW cmd \in Command \cup {NoCommand}
  PROVE  GetWriteKeys(cmd) \subseteq Key /\ Changes(cmd) \subseteq Key
  BY DEF Command, AllNames, NoCommand, GetWriteKeys, Changes

\* The steps that clear the watches of c.
LEMMA Unwatching ==
  ASSUME TransactionsInv, NEW c \in Client, UnwatchAllKeys(c),
         tx' \in [Client -> Transaction],
         tx'[c].watched = {},
         \A d \in Client \ {c} : tx'[d] = tx[d],
         pc' \in [Client -> {"ready", "submitted", "touch", "exec"}],
         pc[c] \in {"ready", "exec"}, pc'[c] = "ready",
         \A d \in Client \ {c} : pc'[d] = pc[d],
         UNCHANGED <<cur, orphans, version, issued, unreported>>
  PROVE  TransactionsInv'
  <1>1. TypeOK'
    BY DEF TransactionsInv, TypeOK, UnwatchAllKeys
  <1>2. WatchIndexExact'
    BY <1>1 DEF TransactionsInv, TypeOK, UnwatchAllKeys, WatchIndexExact
  <1>3. ASSUME NEW k \in Key, TouchPending(k)
        PROVE  TouchPending(k)'
    BY <1>3 DEF TransactionsInv, TypeOK, TouchPending
  <1>4. ChangeIsKnown'
    BY <1>1, <1>3 DEF TransactionsInv, TypeOK, Transaction, UnwatchAllKeys, ChangeIsKnown
  <1>. QED
    BY <1>1, <1>2, <1>4 DEF TransactionsInv

\* The steps that change neither the store, the watches, nor who has to touch.
LEMMA Quiet ==
  ASSUME TransactionsInv, TypeOK',
         \A d \in Client : tx'[d].watched = tx[d].watched /\ tx'[d].dirty = tx[d].dirty,
         \A d \in Client : pc[d] = "touch" => pc'[d] = "touch" /\ cur'[d] = cur[d],
         UNCHANGED <<keyWatchers, version, seen, unreported>>
  PROVE  TransactionsInv'
  <1>1. ASSUME NEW k \in Key, TouchPending(k)
        PROVE  TouchPending(k)'
    BY <1>1 DEF TouchPending
  <1>2. ChangeIsKnown'
    BY <1>1 DEF TransactionsInv, TypeOK, Transaction, ChangeIsKnown
  <1>3. WatchIndexExact'
    BY DEF TransactionsInv, WatchIndexExact
  <1>. QED
    BY <1>2, <1>3 DEF TransactionsInv

\* Every step of every client's goroutine keeps the invariant.
LEMMA TransactionsStep == TransactionsInv /\ [Next]_vars => TransactionsInv'
  <1>. SUFFICES ASSUME TransactionsInv, [Next]_vars
                PROVE  TransactionsInv'
    OBVIOUS
  <1>. USE DEF TransactionsInv
  <1>1. ASSUME NEW c \in Client, Multi(c)
        PROVE  TransactionsInv'
    <2>1. tx' \in [Client -> Transaction]
      <3>1. tx' = [tx EXCEPT ![c] = [tx[c] EXCEPT !.started = TRUE, !.queue = <<>>]]
        BY <1>1 DEF TypeOK, Transaction, Multi
      <3>. QED
        BY <3>1, Fresh DEF TypeOK
    <2>2. TypeOK'
      BY <1>1, <2>1 DEF TypeOK, Multi
    <2>. QED
      BY <1>1, <2>2, Quiet DEF TypeOK, Transaction, Multi
  <1>2. ASSUME NEW c \in Client, Queue(c)
        PROVE  TransactionsInv'
    <2>. PICK cmd \in Commands : tx' = [tx EXCEPT ![c].queue = Append(@, cmd)]
      BY <1>2 DEF Queue
    <2>1. Append(tx[c].queue, cmd) \in Seq(Command)
      BY CommandsTyped DEF TypeOK, Transaction
    <2>2. tx' \in [Client -> Transaction]
      <3>1. tx[c] \in Transaction
        BY DEF TypeOK
      <3>2. [tx[c] EXCEPT !.queue = Append(tx[c].queue, cmd)] \in Transaction
        BY <2>1, <3>1 DEF Transaction
      <3>. QED
        BY <3>2 DEF TypeOK
    <2>3. TypeOK'
      BY <1>2, <2>2 DEF TypeOK, Queue
    <2>4. \A d \in Client : tx'[d].watched = tx[d].watched /\ tx'[d].dirty = tx[d].dirty
      BY DEF TypeOK, Transaction
    <2>. QED
      BY <1>2, <2>3, <2>4, Quiet DEF Queue
  <1>3. ASSUME NEW c \in Client, Discard(c)
        PROVE  TransactionsInv'
    <2>1. tx' \in [Client -> Transaction]
      BY <1>3, Fresh DEF TypeOK, Discard
    <2>2. TypeOK'
      BY <1>3, <2>1 DEF TypeOK, Discard
    <2>. QED
      BY <1>3, <2>2, Fresh, Quiet DEF TypeOK, Discard
  <1>4. ASSUME NEW c \in Client, NEW k \in Key, Watch(c, k)
        PROVE  TransactionsInv'
    <2>0. tx' \in [Client -> Transaction]
      <3>1. tx[c] \in Transaction
        BY DEF TypeOK
      <3>2. [tx[c] EXCEPT !.watched = tx[c].watched \cup {k}] \in Transaction
        BY <3>1 DEF Transaction
      <3>3. tx' = [tx EXCEPT ![c] = [tx[c] EXCEPT !.watched = tx[c].watched \cup {k}]]
        BY <1>4, <3>1 DEF TypeOK, Watch
      <3>. QED
        BY <3>2, <3>3 DEF TypeOK
    <2>1. TypeOK'
      BY <1>4, <2>0 DEF TypeOK, Watch
    <2>2. WatchIndexExact'
      BY <1>4, <2>1 DEF TypeOK, Transaction, Watch, WatchIndexExact
    <2>3. \A q \in Key : TouchPending(q) => TouchPending(q)'
      BY <1>4 DEF Watch, TouchPending
    <2>4. ASSUME NEW d \in Client, NEW q \in Key, q \in tx'[d].watched
          PROVE  \/ q \in tx[d].watched /\ seen'[d][q] = seen[d][q]
                 \/ seen'[d][q] = version[q]
      <3>1. CASE d = c /\ q = k
        BY <3>1, <2>4, <1>4 DEF TypeOK, Watch
      <3>2. CASE ~(d = c /\ q = k)
        BY <3>2, <2>4, <1>4 DEF TypeOK, Watch
      <3>. QED
        BY <3>1, <3>2
    <2>5. ChangeIsKnown'
      BY <1>4, <2>1, <2>3, <2>4 DEF TypeOK, Transaction, Watch, ChangeIsKnown
    <2>. QED
      BY <2>1, <2>2, <2>5
  <1>5. ASSUME NEW c \in Client, Unwatch(c)
        PROVE  TransactionsInv'
    <2>1. tx' \in [Client -> Transaction] /\ tx'[c].watched = {}
      BY <1>5, Fresh DEF Unwatch, TypeOK
    <2>. QED
      BY <1>5, <2>1, Unwatching DEF Unwatch, TypeOK
  <1>6. ASSUME NEW c \in Client, RemoveClient(c)
        PROVE  TransactionsInv'
    <2>1. tx' \in [Client -> Transaction] /\ tx'[c].watched = {}
      BY <1>6 DEF RemoveClient, NewTransaction, TypeOK, Transaction
    <2>. QED
      BY <1>6, <2>1, Unwatching DEF RemoveClient, TypeOK
  <1>7. ASSUME NEW c \in Client, ExecAbort(c)
        PROVE  TransactionsInv'
    <2>1. tx' \in [Client -> Transaction] /\ tx'[c].watched = {}
      BY <1>7, Fresh DEF ExecAbort, TypeOK
    <2>. QED
      BY <1>7, <2>1, Unwatching DEF ExecAbort, TypeOK
  <1>8. ASSUME NEW c \in Client, ExecCommit(c)
        PROVE  TransactionsInv'
    <2>1. TypeOK'
      BY <1>8 DEF TypeOK, ExecCommit
    <2>. QED
      BY <1>8, <2>1, Quiet DEF TypeOK, ExecCommit
  <1>9. ASSUME NEW c \in Client, ExecNext(c)
        PROVE  TransactionsInv'
    <2>1. Head(tx[c].queue) \in Command /\ Tail(tx[c].queue) \in Seq(Command)
      BY <1>9 DEF TypeOK, Transaction, ExecNext
    <2>. DEFINE t == [tx[c] EXCEPT !.queue = Tail(tx[c].queue)]
    <2>2. t \in Transaction /\ t.watched = tx[c].watched /\ t.dirty = tx[c].dirty
      <3>1. tx[c] \in Transaction
        BY DEF TypeOK
      <3>. QED
        BY <2>1, <3>1 DEF Transaction
    <2>3. tx' = [tx EXCEPT ![c] = t]
      BY <1>9 DEF TypeOK, ExecNext
    <2>. HIDE DEF t
    <2>4. TypeOK'
      BY <1>9, <2>1, <2>2, <2>3 DEF TypeOK, ExecNext
    <2>5. \A d \in Client : tx'[d].watched = tx[d].watched /\ tx'[d].dirty = tx[d].dirty
      BY <2>2, <2>3 DEF TypeOK
    <2>6. \A d \in Client : pc[d] = "touch" => pc'[d] = "touch" /\ cur'[d] = cur[d]
      BY <1>9 DEF TypeOK, ExecNext
    <2>. QED
      BY <1>9, <2>4, <2>5, <2>6, Quiet DEF ExecNext
  <1>10. ASSUME NEW c \in Client, ExecDone(c)
         PROVE  TransactionsInv'
    <2>1. tx' \in [Client -> Transaction] /\ tx'[c].watched = {}
      BY <1>10, Fresh DEF ExecDone, TypeOK
    <2>. QED
      BY <1>10, <2>1, Unwatching DEF ExecDone, TypeOK
  <1>11. ASSUME NEW c \in Client, Issue(c)
         PROVE  TransactionsInv'
    <2>1. TypeOK'
      BY <1>11, CommandsTyped DEF TypeOK, Issue
    <2>. QED
      BY <1>11, <2>1, Quiet DEF TypeOK, Issue
  <1>12. ASSUME NEW c \in Client, Timeout(c)
         PROVE  TransactionsInv'
    <2>1. TypeOK'
      BY <1>12 DEF TypeOK, Timeout
    <2>. QED
      BY <1>12, <2>1, Quiet DEF TypeOK, Timeout
  <1>13. ASSUME NEW c \in Client, TouchKeys(c)
         PROVE  TransactionsInv'
    <2>0. ASSUME NEW d \in Client
          PROVE  tx'[d] \in Transaction
      <3>1. tx[d] \in Transaction
        BY DEF TypeOK
      <3>2. [tx[d] EXCEPT !.dirty = TRUE] \in Transaction
        BY <3>1 DEF Transaction
      <3>. QED
        BY <1>13, <3>1, <3>2 DEF TouchKeys
    <2>1. TypeOK'
      BY <1>13, <2>0 DEF TypeOK, TouchKeys
    <2>2. \A d \in Client : /\ tx'[d].watched = tx[d].watched
                            /\ tx[d].dirty => tx'[d].dirty
      BY <1>13 DEF TypeOK, Transaction, TouchKeys
    <2>3. WatchIndexExact'
      BY <1>13, <2>2 DEF TouchKeys, WatchIndexExact
    <2>4. ASSUME NEW k \in Key, TouchPending(k), ~TouchPending(k)'
          PROVE  k \in GetWriteKeys(cur[c])
      BY <1>13, <2>4 DEF TypeOK, Transaction, TouchKeys, TouchPending
    <2>5. ASSUME NEW d \in Client, NEW k \in tx[d].watched, k \in GetWriteKeys(cur[c])
          PROVE  tx'[d].dirty
      BY <1>13, <2>5 DEF TypeOK, Transaction, TouchKeys, WatchIndexExact
    <2>6. ChangeIsKnown'
      BY <1>13, <2>2, <2>4, <2>5 DEF TypeOK, Transaction, TouchKeys, ChangeIsKnown
    <2>. QED
      BY <2>1, <2>3, <2>6
  <1>14. ASSUME NEW c \in Client, Execute(c)
         PROVE  TransactionsInv'
    <2>0. unreported' \subseteq Key
      BY <1>14, WrittenKeys DEF TypeOK, Execute
    <2>1. TypeOK'
      BY <1>14, <2>0 DEF TypeOK, Execute, Applied
    <2>2. WatchIndexExact'
      BY <1>14 DEF Execute, WatchIndexExact
    <2>3. ASSUME NEW k \in Key
          PROVE  /\ TouchPending(k) => TouchPending(k)'
                 /\ k \in GetWriteKeys(cur[c]) => TouchPending(k)'
      BY <1>14 DEF TypeOK, Execute, TouchPending
    <2>4. ASSUME NEW k \in Key, version'[k] # version[k]
          PROVE  k \in GetWriteKeys(cur[c]) \/ k \in unreported'
      BY <1>14, <2>4 DEF TypeOK, Execute, Applied
    <2>5. ChangeIsKnown'
      BY <1>14, <2>3, <2>4 DEF TypeOK, Transaction, Execute, ChangeIsKnown
    <2>. QED
      BY <2>1, <2>2, <2>5
  <1>15. ASSUME NEW cmd \in orphans, ExecuteOrphan(cmd)
         PROVE  TransactionsInv'
    <2>1. TypeOK'
      BY <1>15, WrittenKeys DEF TypeOK, ExecuteOrphan, Applied
    <2>2. WatchIndexExact'
      BY <1>15 DEF ExecuteOrphan, WatchIndexExact
    <2>3. \A k \in Key : TouchPending(k) => TouchPending(k)'
      BY <1>15 DEF ExecuteOrphan, TouchPending
    <2>4. ASSUME NEW k \in Key, version'[k] # version[k]
          PROVE  k \in unreported'
      BY <1>15, <2>4 DEF TypeOK, ExecuteOrphan, Applied
    <2>5. ChangeIsKnown'
      BY <1>15, <2>3, <2>4 DEF TypeOK, Transaction, ExecuteOrphan, ChangeIsKnown
    <2>. QED
      BY <2>1, <2>2, <2>5
  <1>16. CASE UNCHANGED vars
    BY <1>16, Quiet DEF vars, TypeOK
  <1>. QED
    BY <1>1, <1>2, <1>3, <1>4, <1>5, <1>6, <1>7, <1>8, <1>9, <1>10, <1>11,
       <1>12, <1>13, <1>14, <1>15, <1>16 DEF Next, ClientStep

\* The invariant holds in every reachable state.
THEOREM TransactionsInvariant == Spec => []TransactionsInv
  BY TransactionsInit, TransactionsStep, PTL DEF Spec

\* keyWatchers and the watched keys of the clients are always each other's
\* inverse, whatever TransactionManager calls the clients interleave.
THEOREM WatchIndexTheorem == Spec => []WatchIndexExact
  <1>. TransactionsInv => WatchIndexExact
    BY DEF TransactionsInv
  <1>. QED
    BY TransactionsInvariant, PTL

\* A change of a watched key never goes unnoticed, except through the commands
\* that do not report their keys: what WATCH promises, as far as it goes.
THEOREM ChangeIsKnownTheorem == Spec => []ChangeIsKnown
  <1>. TransactionsInv => ChangeIsKnown
    BY DEF TransactionsInv
  <1>. QED
    BY TransactionsInvariant, PTL

=============================================================================
