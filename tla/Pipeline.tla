------------------------------ MODULE Pipeline ------------------------------
(* One connection: the client that sends commands, the network that cuts them  *)
(* anywhere, and the loop of HandlePipeline that parses, executes and answers  *)
(* them in batches.                                                            *)
(*                                                                             *)
(* A command is two segments, its array header and its arguments, so that it   *)
(* can arrive in part.  The loop waits long for the first command of a batch   *)
(* and a millisecond for each further one; what ParseCommand has consumed when *)
(* that millisecond is over is gone.                                           *)
EXTENDS Integers, Sequences

CONSTANTS
    MaxSent,      \* bound: commands the client sends
    BatchSize,    \* commands in one batch (1000)
    MaxSlow       \* consecutive slow commands that disconnect the client (10)

PipelineConstants == MaxSent \in Nat /\ BatchSize \in Nat \ {0} /\ MaxSlow \in Nat \ {0}

Segments(i) == <<[cmd |-> i, part |-> "head"], [cmd |-> i, part |-> "body"]>>

Garbage == 0
Error == -1

VARIABLES
    sent,       \* commands the client has sent
    net,        \* segments under way
    sock,       \* segments that have arrived
    buf,        \* segments in the bufio.Reader
    closing,    \* the client has closed its end
    loop,       \* the loop: "first", "next", "exec", "flush" or "closed"
    half,       \* the command whose header is parsed, 0 when none is
    parsed,     \* the parsed command
    batch,      \* commands executed in this batch
    slow,       \* consecutive slow commands
    executed,   \* the commands executed, in order
    out,        \* answers in the bufio.Writer
    replies,    \* answers sent
    torn,       \* ghost: a header was consumed and thrown away
    pipelined   \* ghost: the client has sent a command before the answer to the last

vars == <<sent, net, sock, buf, closing, loop, half, parsed, batch, slow, executed, out, replies,
          torn, pipelined>>

client == <<sent, closing, pipelined>>
input == <<net, sock, buf>>

Init ==
    /\ sent = 0 /\ closing = FALSE /\ pipelined = FALSE
    /\ net = <<>> /\ sock = <<>> /\ buf = <<>>
    /\ loop = "first" /\ half = 0 /\ parsed = 0 /\ batch = 0 /\ slow = 0
    /\ executed = <<>> /\ out = <<>> /\ replies = <<>>
    /\ torn = FALSE

-----------------------------------------------------------------------------
(* The client and the network. *)

ClientSends ==
    /\ sent < MaxSent /\ ~closing
    /\ sent' = sent + 1
    /\ net' = net \o Segments(sent + 1)
    /\ pipelined' = (pipelined \/ Len(replies) < sent)
    /\ UNCHANGED <<sock, buf, closing, loop, half, parsed, batch, slow, executed, out, replies, torn>>

ClientCloses ==
    /\ ~closing
    /\ closing' = TRUE
    /\ UNCHANGED <<sent, pipelined, input, loop, half, parsed, batch, slow, executed, out, replies, torn>>

Deliver ==
    /\ net # <<>>
    /\ sock' = Append(sock, Head(net))
    /\ net' = Tail(net)
    /\ UNCHANGED <<client, buf, loop, half, parsed, batch, slow, executed, out, replies, torn>>

-----------------------------------------------------------------------------
(* ParseCommand: the header line, then the arguments, each read as it comes. *)

Parsing == loop \in {"first", "next"}

NothingToRead == buf = <<>> /\ sock = <<>>

Fill ==
    /\ Parsing
    /\ buf = <<>> /\ sock # <<>>
    /\ buf' = sock
    /\ sock' = <<>>
    /\ UNCHANGED <<client, net, loop, half, parsed, batch, slow, executed, out, replies, torn>>

\* The first command of a batch resets the batch when it is complete.
Parsed(i) ==
    /\ parsed' = i
    /\ half' = 0
    /\ batch' = IF loop = "first" THEN 0 ELSE batch
    /\ loop' = "exec"

ParseCommand ==
    /\ Parsing
    /\ buf # <<>>
    /\ buf' = Tail(buf)
    /\ \/ /\ half = 0 /\ Head(buf).part = "head"
          /\ half' = Head(buf).cmd
          /\ UNCHANGED <<parsed, batch, loop>>
       \/ /\ half = Head(buf).cmd /\ Head(buf).part = "body"
          /\ Parsed(half)
       \* Arguments without their header are taken for an inline command.
       \/ /\ half = 0 /\ Head(buf).part = "body"
          /\ Parsed(Garbage)
    /\ UNCHANGED <<client, net, sock, slow, executed, out, replies, torn>>

\* The idle deadline of the first command disconnects the client.
IdleTimeout ==
    /\ loop = "first"
    /\ NothingToRead
    /\ loop' = "closed"
    /\ UNCHANGED <<client, input, half, parsed, batch, slow, executed, out, replies, torn>>

\* Variant: the answers of the batch stay in the buffer.
PipelineTimeoutUnflushed ==
    /\ loop = "next"
    /\ NothingToRead
    /\ loop' = "first"
    /\ torn' = (torn \/ half # 0)
    /\ half' = 0
    /\ UNCHANGED <<client, input, parsed, batch, slow, executed, out, replies>>

\* The short deadline of a further command ends the batch.
PipelineTimeout ==
    /\ loop = "next"
    /\ NothingToRead
    /\ loop' = "flush"
    /\ torn' = (torn \/ half # 0)
    /\ half' = 0
    /\ UNCHANGED <<client, input, parsed, batch, slow, executed, out, replies>>

EndOfFile ==
    /\ Parsing
    /\ closing /\ net = <<>> /\ NothingToRead
    /\ loop' = "closed"
    /\ replies' = IF loop = "next" THEN replies \o out ELSE replies
    /\ out' = <<>>
    /\ UNCHANGED <<client, input, half, parsed, batch, slow, executed, torn>>

-----------------------------------------------------------------------------
(* executeWithTransaction and handleCommandResult, then the next command of the *)
(* batch or its end.                                                            *)

Continue == loop' = IF batch' < BatchSize THEN "next" ELSE "flush"

Answered ==
    /\ executed' = Append(executed, parsed)
    /\ out' = Append(out, parsed)
    /\ batch' = batch + 1
    /\ Continue
    /\ UNCHANGED <<client, input, half, parsed, replies, torn>>

Execute ==
    /\ loop = "exec"
    /\ slow' = 0
    /\ Answered

ExecuteSlowly ==
    /\ loop = "exec"
    /\ slow + 1 < MaxSlow
    /\ slow' = slow + 1
    /\ Answered

\* Variant: the answers before the error are dropped with the connection.
RejectedUnflushed ==
    /\ replies' = Append(replies, Error)
    /\ out' = <<>>
    /\ loop' = "closed"
    /\ UNCHANGED <<client, input, half, parsed, batch, torn>>

\* The client is told why and disconnected; the answer itself is dropped.
Rejected ==
    /\ replies' = replies \o Append(out, Error)
    /\ out' = <<>>
    /\ loop' = "closed"
    /\ UNCHANGED <<client, input, half, parsed, batch, torn>>

TooManySlow ==
    /\ loop = "exec"
    /\ slow + 1 >= MaxSlow
    /\ slow' = slow + 1
    /\ executed' = Append(executed, parsed)
    /\ Rejected

\* The command may still be executed later, by its own goroutine.
CommandTimeout ==
    /\ loop = "exec"
    /\ executed' \in {executed, Append(executed, parsed)}
    /\ UNCHANGED slow
    /\ Rejected

\* REPLCONF and PSYNC answer at once, flushing the answers before them.  REPLCONF ACK, which
\* replicas send and which has no answer, is left out.
ReplicationCommand ==
    /\ loop = "exec"
    /\ executed' = Append(executed, parsed)
    /\ replies' = replies \o Append(out, parsed)
    /\ out' = <<>>
    /\ loop' = IF batch = 0 THEN "first" ELSE "next"
    /\ UNCHANGED <<client, input, half, parsed, batch, slow, torn>>

Flush ==
    /\ loop = "flush"
    /\ replies' = replies \o out
    /\ out' = <<>>
    /\ loop' = "first"
    /\ UNCHANGED <<client, input, half, parsed, batch, slow, executed, torn>>

-----------------------------------------------------------------------------
Step ==
    \/ Fill \/ ParseCommand \/ PipelineTimeout \/ EndOfFile
    \/ Execute \/ ExecuteSlowly \/ TooManySlow \/ CommandTimeout \/ ReplicationCommand
    \/ Flush

Next == ClientSends \/ ClientCloses \/ Deliver \/ IdleTimeout \/ Step

Spec == Init /\ [][Next]_vars

\* The network delivers, and the connection's goroutine runs whenever it can.
FairSpec == Spec /\ WF_vars(Deliver) /\ WF_vars(Step)

-----------------------------------------------------------------------------
TypeOK ==
    /\ sent \in 0..MaxSent
    /\ \A s \in {net, sock, buf} : s \in Seq([cmd : 1..MaxSent, part : {"head", "body"}])
    /\ loop \in {"first", "next", "exec", "flush", "closed"}
    /\ half \in 0..MaxSent /\ parsed \in 0..MaxSent
    /\ batch \in 0..BatchSize /\ slow \in 0..MaxSlow
    /\ executed \in Seq(0..MaxSent)
    /\ \A s \in {out, replies} : s \in Seq(-1..MaxSent)
    /\ closing \in BOOLEAN /\ torn \in BOOLEAN /\ pipelined \in BOOLEAN

\* Unless a header was thrown away, the commands run in the order they were sent, and
\* the answers are theirs, in that order, possibly with an error in place of the last:
\* batches, early flushes, deadlines and a closing client never skip, swap or repeat one.
InOrder ==
    LET all == replies \o out
        n == Len(executed)
    IN ~torn =>
           /\ executed = [i \in 1..n |-> i]
           /\ \A i \in DOMAIN all : all[i] = i \/ (all[i] = Error /\ i = Len(all) /\ loop = "closed")
           /\ Len(all) = n \/ (loop = "closed" /\ Len(all) = n + 1)

\* Only a client that sends a command before it has the answer to the last one can
\* lose a header to the short deadline.
OnlyPipeliningTears == torn => pipelined

\* Every command sent is answered, unless the connection is closed or a header is lost.
Answers == \A i \in 1..MaxSent : sent >= i ~> (Len(replies) >= i \/ loop = "closed" \/ torn)

\* handler/pipeline.go: "Timeout is expected - means no more pipelined commands".
TimeoutLosesNothing == ~torn

=============================================================================
