------------------------------ MODULE RdbCodec ------------------------------
(* The two snapshot formats, byte by byte: the one a master generates for a    *)
(* full resynchronisation with the loader of its replica, and the one BGSAVE   *)
(* writes with the reader of the next start.                                   *)
(*                                                                             *)
(* Neither writer finds the types it asserts for most values: the store keeps  *)
(* *List, *Set and *Hash, the writers look for slices and maps.  What they     *)
(* leave out, the loader still expects.                                        *)
EXTENDS Integers, Sequences, SequencesExt

CONSTANTS
    Key,     \* the keys, byte strings
    Text,    \* the values of strings, byte strings
    Types,   \* the types of value in the data set
    Lengths  \* the lengths for which the length encoding is checked

CodecConstants == Types \subseteq {"string", "list", "set", "zset", "hash", "sketch"}

Entry == [key : Key, type : Types, text : Text, exp : {"none", "past", "future"}]

\* A data set, in the order in which the map is iterated over.
DataSets ==
    {db \in UNION {[1..n -> Entry] : n \in 0..2} :
        \A i, j \in DOMAIN db : i # j => db[i].key # db[j].key}

SelectDB == 254
ResizeDB == 251
ExpireTimeMs == 252
Aux == 250
EOF == 255
Checksum == <<0, 0, 0, 0, 0, 0, 0, 0>>

-----------------------------------------------------------------------------
(* Lengths and strings, written and read. *)

WriteLength(n) ==
    IF n < 64 THEN <<n>>
    ELSE IF n < 16384 THEN <<64 + n \div 256, n % 256>>
    ELSE <<128, n \div 16777216, (n \div 65536) % 256, (n \div 256) % 256, n % 256>>

WriteString(s) == WriteLength(Len(s)) \o s

Nothing == [val |-> 0, n |-> 0]

\* The length at position p of d and the bytes it takes; nothing where there is none.
ReadLength(d, p) ==
    LET first == d[p]
        At(i) == d[p + i]
    IN IF p > Len(d) THEN Nothing
       ELSE IF first < 64 THEN [val |-> first, n |-> 1]
       ELSE IF first < 128 /\ p + 1 <= Len(d) THEN [val |-> (first % 64) * 256 + At(1), n |-> 2]
       ELSE IF first \in 128..191 /\ p + 4 <= Len(d)
       THEN [val |-> ((At(1) * 256 + At(2)) * 256 + At(3)) * 256 + At(4), n |-> 5]
       ELSE Nothing

\* The string at p, and the position after it.
ReadString(d, p) ==
    LET l == ReadLength(d, p)
        start == p + l.n
    IN IF start + l.val > Len(d) + 1 THEN [ok |-> FALSE, str |-> <<>>, pos |-> start]
       ELSE [ok |-> TRUE, str |-> SubSeq(d, start, start + l.val - 1), pos |-> start + l.val]

-----------------------------------------------------------------------------
(* The writers. *)

TypeByte == [string |-> 0, list |-> 1, set |-> 2, zset |-> 3, hash |-> 4]

\* A time to live that has not run out yet is written before the value, whether or
\* not the value is.
Expiry(e) == IF e.exp = "future" THEN <<ExpireTimeMs, 1, 0, 0, 0, 0, 0, 0, 0>> ELSE <<>>

\* Variant: a sorted set is written without its count, as the other collections are.
GenerateEntryShort(e) ==
    Expiry(e) \o
    CASE e.type = "string" -> <<0>> \o WriteString(e.key) \o WriteString(e.text)
      [] e.type \in {"list", "set", "hash", "zset"} -> <<TypeByte[e.type]>> \o WriteString(e.key)
      [] OTHER -> <<>>

\* generateRDB: a list, set or hash is its type and key, without the members that the
\* failed type assertion skips; a sorted set has no members; a sketch is left out.
GenerateEntry(e) ==
    Expiry(e) \o
    CASE e.type = "string" -> <<0>> \o WriteString(e.key) \o WriteString(e.text)
      [] e.type \in {"list", "set", "hash"} -> <<TypeByte[e.type]>> \o WriteString(e.key)
      [] e.type = "zset" -> <<3>> \o WriteString(e.key) \o WriteLength(0)
      [] OTHER -> <<>>

GenerateRDB(db) ==
    IF db = <<>> THEN <<EOF>> \o Checksum
    ELSE <<SelectDB, 0, ResizeDB>> \o WriteLength(Len(db)) \o WriteLength(0)
         \o FlattenSeq([i \in DOMAIN db |-> GenerateEntry(db[i])]) \o <<EOF>> \o Checksum

\* Writer.Save: the metadata comes first.  Lists and hashes are left out, sets and
\* sorted sets are written in full (one member here), sketches are left out.
SaveEntry(e) ==
    Expiry(e) \o
    CASE e.type = "string" -> <<0>> \o WriteString(e.key) \o WriteString(e.text)
      [] e.type = "set" -> <<2>> \o WriteString(e.key) \o WriteLength(1) \o WriteString(e.text)
      [] e.type = "zset" ->
            <<3>> \o WriteString(e.key) \o WriteLength(1) \o WriteString(e.text) \o Checksum
      [] OTHER -> <<>>

Save(db) ==
    <<Aux>> \o WriteString(<<1>>) \o WriteString(<<2>>)
    \o <<SelectDB, 0, ResizeDB>> \o WriteLength(Len(db)) \o WriteLength(0)
    \o FlattenSeq([i \in DOMAIN db |-> SaveEntry(db[i])]) \o <<EOF>> \o Checksum

-----------------------------------------------------------------------------
VARIABLES
    dataset,   \* the data set that is written
    reader,    \* who reads it: "replica" or "restart"
    data,      \* the bytes after magic and version
    pos,       \* the next byte to read
    value,     \* the value being read: its command, key, the strings still to come and
               \* the arguments of the command that are there
    commands,  \* the commands executed on the store
    result     \* "loading", "loaded" or "error"

vars == <<dataset, reader, data, pos, value, commands, result>>

NoValue == [name |-> "none", key |-> <<>>, left |-> 0, args |-> <<>>]

Init ==
    /\ dataset \in DataSets
    /\ reader \in {"replica", "restart"}
    /\ data = IF reader = "replica" THEN GenerateRDB(dataset) ELSE Save(dataset)
    /\ pos = 1
    /\ value = NoValue
    /\ commands = <<>>
    /\ result = "loading"

Opcode == data[pos]

Loading(who) == reader = who /\ result = "loading" /\ value = NoValue

Fail == result' = "error" /\ UNCHANGED <<dataset, reader, data, pos, value, commands>>

Command == <<"SET", "RPUSH", "SADD", "ZADD", "HSET">>

\* The strings that one command takes after its key.
Arity(name) == IF name \in {"ZADD", "HSET"} THEN 2 ELSE 1

\* loadRDBValue: a string is one string, any other value a length and its members.
StartValue(t, key, p) ==
    LET l == ReadLength(data, p)
        name == Command[t + 1]
        left == IF t = 0 THEN 1 ELSE Arity(name) * l.val
    IN IF t > 4 THEN Fail
       ELSE /\ value' = IF left = 0 THEN NoValue ELSE [name |-> name, key |-> key, left |-> left, args |-> <<>>]
            /\ pos' = IF t = 0 THEN p ELSE p + l.n
            /\ UNCHANGED <<dataset, reader, data, commands, result>>

\* A value whose type byte t is followed, at p, by its key.
LoadEntry(t, p) ==
    LET key == ReadString(data, p) IN IF key.ok THEN StartValue(t, key.str, key.pos) ELSE Fail

\* The next string of the value; a command runs as soon as its arguments are there.
\* SET leaves the expiry aside, and PEXPIRE is no command of the server.
LoadRDBValue ==
    LET s == ReadString(data, pos)
        args == Append(value.args, s.str)
        complete == Len(args) = Arity(value.name)
    IN
    /\ result = "loading" /\ value # NoValue
    /\ IF ~s.ok THEN Fail
       ELSE /\ pos' = s.pos
            /\ commands' = IF complete THEN Append(commands, <<value.name, value.key>> \o args) ELSE commands
            /\ value' = IF value.left = 1 THEN NoValue
                        ELSE [value EXCEPT !.left = @ - 1, !.args = IF complete THEN <<>> ELSE args]
            /\ UNCHANGED <<dataset, reader, data, result>>

-----------------------------------------------------------------------------
(* loadRDBIntoStore: one step per opcode. *)

ReadSelectDB ==
    /\ Loading("replica") /\ pos <= Len(data) /\ Opcode = SelectDB
    /\ IF pos = Len(data) THEN Fail
       ELSE pos' = pos + 2 /\ UNCHANGED <<dataset, reader, data, value, commands, result>>

ReadResizeDB ==
    LET size == ReadLength(data, pos + 1).n IN
    /\ Loading("replica") /\ pos <= Len(data) /\ Opcode = ResizeDB
    /\ pos' = pos + 1 + size + ReadLength(data, pos + 1 + size).n
    /\ UNCHANGED <<dataset, reader, data, value, commands, result>>

\* Eight bytes of time, then the type byte of the value they belong to.
ReadExpiry ==
    /\ Loading("replica") /\ pos <= Len(data) /\ Opcode = ExpireTimeMs
    /\ IF pos + 9 > Len(data) THEN Fail ELSE LoadEntry(data[pos + 9], pos + 10)

ReadValue ==
    /\ Loading("replica") /\ pos <= Len(data)
    /\ Opcode \notin {SelectDB, ResizeDB, ExpireTimeMs, EOF}
    /\ IF Opcode > 14 THEN Fail ELSE LoadEntry(Opcode, pos + 1)

ReadEOF ==
    /\ Loading("replica")
    /\ pos <= Len(data) => Opcode = EOF
    /\ result' = "loaded"
    /\ UNCHANGED <<dataset, reader, data, pos, value, commands>>

\* Reader.Load at the next start: it knows types, expiries and EOF, and gives up on any
\* other byte before a single key is restored.  Every file of Save begins with one.
ReadDump ==
    /\ Loading("restart")
    /\ Opcode \notin {0, 1, 2, 3, 4, ExpireTimeMs, EOF}
    /\ Fail

Next == LoadRDBValue \/ ReadSelectDB \/ ReadResizeDB \/ ReadExpiry \/ ReadValue \/ ReadEOF \/ ReadDump

Spec == Init /\ [][Next]_vars

-----------------------------------------------------------------------------
Byte == 0..255

TypeOK ==
    /\ dataset \in DataSets /\ reader \in {"replica", "restart"}
    /\ data \in Seq(Byte) /\ pos \in 1..(Len(data) + 1)
    /\ result \in {"loading", "loaded", "error"}
    /\ value = NoValue \/ (value.name \in Range(Command) /\ value.left > 0)
    /\ \A i \in DOMAIN commands : Len(commands[i]) = 2 + Arity(commands[i][1])

Intact == {"string", "zset"}

\* A full resynchronisation brings every string of a data set of strings and sorted
\* sets to the replica, with its value, whatever expires and in whatever order.
StringsArrive ==
    LET strings == SelectSeq(dataset, LAMBDA e : e.type = "string") IN
    reader = "replica" /\ (\A i \in DOMAIN dataset : dataset[i].type \in Intact) =>
        /\ result # "error"
        /\ result = "loaded" =>
               commands = [i \in DOMAIN strings |-> <<"SET", strings[i].key, strings[i].text>>]

\* Every length is read back as it was written, with as many bytes.
LengthsExact ==
    \A n \in Lengths :
        ReadLength(WriteLength(n), 1) = [val |-> n, n |-> Len(WriteLength(n))]

\* replication_handlers.go:285 "generates an RDB file with actual database content": the
\* replica ends up with every key that the formats have a type for.
SnapshotComplete ==
    reader = "replica" /\ result # "loading" =>
        \A i \in DOMAIN dataset :
            dataset[i].type # "sketch" =>
                \E j \in DOMAIN commands : commands[j][2] = dataset[i].key

\* docs/rdb-auto-save.md:360 "Smart loading - AOF priority, RDB fallback": a start reads
\* the file that a save wrote.
DumpRestores == reader = "restart" => result # "error"

=============================================================================
