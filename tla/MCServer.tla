------------------------------ MODULE MCServer ------------------------------
(* One server on small instances: the store with its expiry index and cleanup *)
(* cycle, the skip list of a sorted set, the linked list of a list, the bytes *)
(* of bitmaps, the words of a Bloom filter, the registers of HyperLogLogs,    *)
(* the geohashes of points, the command processor up to its shutdown, and the *)
(* pipeline of a connection.  A behaviour is one of these (part says which);  *)
(* the variables of the others stay as they are.                              *)
EXTENDS MCStore

CONSTANTS Member, Delta, Heights, Value, MaxLength
CONSTANTS ByteBits, MaxBytes, MaxSources
CONSTANTS Item, WordBits, Words, NumHashes, HashBits, Precision, MaxItems
CONSTANTS GeoMember, Steps, Lat, Lon, MaxPoints
CONSTANTS Client, MaxCmds, ChanSize, MaxTicks
CONSTANTS MaxSent, BatchSize, MaxSlow

VARIABLE part
VARIABLES z, zret, l, lret, str, bret
VARIABLES bits, count, added, regs, items, score, point
VARIABLES conn, answered, job, commandChan, proc, cleanup, value, applied, aof, stop, process,
          raced
VARIABLES sent, net, sock, buf, closing, loop, half, parsed, batch, slow, executed, out, replies,
          torn, pipelined

zsetVars == <<z, zret>>
listVars == <<l, lret>>
bitVars == <<str, bret>>
filterVars == <<bits, count, added>>
hllVars == <<regs, items>>
sketchVars == <<filterVars, hllVars>>
geoVars == <<score, point>>
valueVars == <<zsetVars, listVars, bitVars, sketchVars, geoVars>>
procVars == <<conn, answered, job, commandChan, proc, cleanup, value, applied, aof, stop, process,
              raced>>
pipeVars == <<sent, net, sock, buf, closing, loop, half, parsed, batch, slow, executed, out,
              replies, torn, pipelined>>

\* Hashes with and without leading zeros, the hash 0 among them, and sums beyond the range.
MCHash  == [x \in Item |-> (5 * (x - 1)) % 2 ^ HashBits]
MCHash2 == [x \in Item |-> (2 ^ HashBits - x) % 2 ^ HashBits]

\* A latitude beyond the south pole, two between the poles, and the north pole.
MCLatitudes == {-1, 1, 2, 4}

Z == INSTANCE SkipList WITH ret <- zret
L == INSTANCE LinkedList WITH ret <- lret
B == INSTANCE Bitmap WITH ret <- bret
F == INSTANCE BloomFilter WITH HashRange <- 2 ^ HashBits, Hash1 <- MCHash, Hash2 <- MCHash2
H == INSTANCE HyperLogLog WITH Hash <- MCHash
G == INSTANCE Geo WITH Member <- GeoMember
C == INSTANCE Processor
P == INSTANCE Pipeline

ASSUME ServerConstants ==
    /\ Z!SkipListConstants /\ B!BitmapConstants
    /\ F!BloomConstants /\ H!HyperLogLogConstants /\ G!GeoConstants
    /\ C!ProcessorConstants /\ P!PipelineConstants

ServerInit ==
    /\ part \in {"store", "zset", "list", "bitmap", "bloom", "hll", "geo", "processor", "pipeline"}
    /\ Init /\ Z!Init /\ L!Init /\ B!Init /\ F!Init /\ H!Init /\ G!Init
    /\ C!Init /\ P!Init

\* The structures behind the values.
ValueNext ==
    \/ part = "zset" /\ Z!Next /\ UNCHANGED <<listVars, bitVars, sketchVars, geoVars>>
    \/ part = "list" /\ L!Next /\ UNCHANGED <<zsetVars, bitVars, sketchVars, geoVars>>
    \/ part = "bitmap" /\ B!Next /\ UNCHANGED <<zsetVars, listVars, sketchVars, geoVars>>
    \/ part = "bloom" /\ F!Next /\ UNCHANGED <<zsetVars, listVars, bitVars, hllVars, geoVars>>
    \/ part = "hll" /\ H!Next /\ UNCHANGED <<zsetVars, listVars, bitVars, filterVars, geoVars>>
    \/ part = "geo" /\ G!Next /\ UNCHANGED <<zsetVars, listVars, bitVars, sketchVars>>

ServerNext ==
    /\ UNCHANGED part
    /\ \/ part = "store" /\ Next /\ UNCHANGED <<valueVars, procVars, pipeVars>>
       \/ ValueNext /\ UNCHANGED <<vars, procVars, pipeVars>>
       \/ part = "processor" /\ C!Next /\ UNCHANGED <<vars, valueVars, pipeVars>>
       \/ part = "pipeline" /\ P!Next /\ UNCHANGED <<vars, valueVars, procVars>>

\* The fairness of each part, as in its module.
ServerFairness ==
    /\ \A k \in Key : WF_vars(part = "store" /\ CleanupSampling(k))
    /\ WF_procVars(part = "processor" /\ C!ProcessorStep)
    /\ \A k \in 1 .. MaxCmds : SF_procVars(part = "processor" /\ C!Submit(k))
    /\ WF_pipeVars(part = "pipeline" /\ P!Deliver)
    /\ WF_pipeVars(part = "pipeline" /\ P!Step)

ServerSpec ==
    /\ ServerInit
    /\ [][ServerNext]_<<part, vars, valueVars, procVars, pipeVars>>
    /\ ServerFairness

\* Every read of a value answers what was stored in it, whatever the operations so far:
\* ranks and ranges of a sorted set (getRank, getRange, over spans at any height), indexes
\* and ranges of a list (getNodeAt, which walks from the closer end), bits and byte ranges
\* of a bitmap (GetBit, BitCount, BitPos), BF.EXISTS of an added item (setBit, getBit), the
\* registers that PFCOUNT estimates from (Add, Merge) and the cell of a point (GeoPos).
ReadsExact ==
    /\ part = "zset" => Z!OneSet /\ Z!RankExact /\ Z!RangesExact
    /\ part = "list" => L!BothWays /\ L!ReadsExact
    /\ part = "bitmap" => B!BitReadsExact
    /\ part = "bloom" => F!NoFalseNegatives /\ F!CountBounded
    /\ part = "hll" => H!RegistersExact
    /\ part = "geo" => G!GeoPosExact

\* The skip list and its dict implement SortedSet, answers included.
SkipListImplements ==
    Z!Promise!Init /\ [][part = "zset" => [Z!Promise!Next]_<<Z!Contents, zret>>]_zsetVars

\* The linked list implements Deque, answers included.
LinkedListImplements ==
    L!Promise!Init /\ [][part = "list" => [L!Promise!Next]_<<L!Contents, lret>>]_listVars

\* The strings of the bitmap commands implement BitArray, answers included.
BitmapImplements ==
    B!Promise!Init /\ [][part = "bitmap" => [B!Promise!Next]_<<B!Bits, B!Sizes, bret>>]_bitVars

\* No increment is lost, whatever times out, is retried or is drained at shutdown, as
\* long as no script works on the counter beside the processor (Processor.run, Shutdown).
CounterExact == C!CounterExact

\* A write that a client has seen answered is in the log, however the answer races the
\* shutdown, and what ends the program after that, a send on the closed channel or a nil
\* read from it, comes once the log is closed (executeWithTimeout, RedisServer.Shutdown).
NothingAnsweredLost == C!AnsweredLogged /\ C!PanicsAfterFlush

\* Every submitted command is executed in the end, although its client may have given up
\* and the channel may be full (Submit, Processor.run).
SubmittedExecuted == C!SubmittedExecuted

\* Commands run in the order they were sent and the answers are theirs, in that order,
\* unless a header was thrown away, which only a client that pipelines can meet
\* (HandlePipeline).
InOrder == P!InOrder /\ P!OnlyPipeliningTears

\* Every command sent is answered, unless the connection is closed or a header is lost
\* (HandlePipeline).
Answers == P!Answers

-----------------------------------------------------------------------------
(* Statements of the repository that these components do not keep.           *)

\* docs/LUA_SCRIPTING.md: no other command executes while a script does.
ScriptsAtomic == C!ScriptsAtomic

\* docs/rdb-auto-save.md: a graceful shutdown flushes the log.
ExitFlushes == C!ExitFlushes

\* handler/pipeline.go: a timeout means no more pipelined commands.
TimeoutLosesNothing == P!TimeoutLosesNothing

\* docs/geospatial.md: a radius finds all locations within the distance.
RadiusComplete == part = "geo" => G!RadiusComplete

=============================================================================
