------------------------------ MODULE HashSlot ------------------------------
(***************************************************************************)
(* cluster/slot.go: the hash slot of a key.  A key is a sequence of bytes; *)
(* the keys of an instance are all those of one byte, and longer ones of   *)
(* the bytes of Char, met one after the other.                             *)
(***************************************************************************)
EXTENDS Integers, Sequences, SequencesExt, Bitwise

CONSTANTS NumSlots,     \* 16384
          Char,         \* the bytes of keys
          MaxKey        \* bound on the length of a key

VARIABLE key

LBrace == 123
RBrace == 125

crc16tab ==
    << \H0000, \H1021, \H2042, \H3063, \H4084, \H50a5, \H60c6, \H70e7,
       \H8108, \H9129, \Ha14a, \Hb16b, \Hc18c, \Hd1ad, \He1ce, \Hf1ef,
       \H1231, \H0210, \H3273, \H2252, \H52b5, \H4294, \H72f7, \H62d6,
       \H9339, \H8318, \Hb37b, \Ha35a, \Hd3bd, \Hc39c, \Hf3ff, \He3de,
       \H2462, \H3443, \H0420, \H1401, \H64e6, \H74c7, \H44a4, \H5485,
       \Ha56a, \Hb54b, \H8528, \H9509, \He5ee, \Hf5cf, \Hc5ac, \Hd58d,
       \H3653, \H2672, \H1611, \H0630, \H76d7, \H66f6, \H5695, \H46b4,
       \Hb75b, \Ha77a, \H9719, \H8738, \Hf7df, \He7fe, \Hd79d, \Hc7bc,
       \H48c4, \H58e5, \H6886, \H78a7, \H0840, \H1861, \H2802, \H3823,
       \Hc9cc, \Hd9ed, \He98e, \Hf9af, \H8948, \H9969, \Ha90a, \Hb92b,
       \H5af5, \H4ad4, \H7ab7, \H6a96, \H1a71, \H0a50, \H3a33, \H2a12,
       \Hdbfd, \Hcbdc, \Hfbbf, \Heb9e, \H9b79, \H8b58, \Hbb3b, \Hab1a,
       \H6ca6, \H7c87, \H4ce4, \H5cc5, \H2c22, \H3c03, \H0c60, \H1c41,
       \Hedae, \Hfd8f, \Hcdec, \Hddcd, \Had2a, \Hbd0b, \H8d68, \H9d49,
       \H7e97, \H6eb6, \H5ed5, \H4ef4, \H3e13, \H2e32, \H1e51, \H0e70,
       \Hff9f, \Hefbe, \Hdfdd, \Hcffc, \Hbf1b, \Haf3a, \H9f59, \H8f78,
       \H9188, \H81a9, \Hb1ca, \Ha1eb, \Hd10c, \Hc12d, \Hf14e, \He16f,
       \H1080, \H00a1, \H30c2, \H20e3, \H5004, \H4025, \H7046, \H6067,
       \H83b9, \H9398, \Ha3fb, \Hb3da, \Hc33d, \Hd31c, \He37f, \Hf35e,
       \H02b1, \H1290, \H22f3, \H32d2, \H4235, \H5214, \H6277, \H7256,
       \Hb5ea, \Ha5cb, \H95a8, \H8589, \Hf56e, \He54f, \Hd52c, \Hc50d,
       \H34e2, \H24c3, \H14a0, \H0481, \H7466, \H6447, \H5424, \H4405,
       \Ha7db, \Hb7fa, \H8799, \H97b8, \He75f, \Hf77e, \Hc71d, \Hd73c,
       \H26d3, \H36f2, \H0691, \H16b0, \H6657, \H7676, \H4615, \H5634,
       \Hd94c, \Hc96d, \Hf90e, \He92f, \H99c8, \H89e9, \Hb98a, \Ha9ab,
       \H5844, \H4865, \H7806, \H6827, \H18c0, \H08e1, \H3882, \H28a3,
       \Hcb7d, \Hdb5c, \Heb3f, \Hfb1e, \H8bf9, \H9bd8, \Habbb, \Hbb9a,
       \H4a75, \H5a54, \H6a37, \H7a16, \H0af1, \H1ad0, \H2ab3, \H3a92,
       \Hfd2e, \Hed0f, \Hdd6c, \Hcd4d, \Hbdaa, \Had8b, \H9de8, \H8dc9,
       \H7c26, \H6c07, \H5c64, \H4c45, \H3ca2, \H2c83, \H1ce0, \H0cc1,
       \Hef1f, \Hff3e, \Hcf5d, \Hdf7c, \Haf9b, \Hbfba, \H8fd9, \H9ff8,
       \H6e17, \H7e36, \H4e55, \H5e74, \H2e93, \H3eb2, \H0ed1, \H1ef0 >>

crc16(bytes) ==
    FoldLeft(LAMBDA crc, b : ((crc * 256) % 65536)
                             ^^ crc16tab[((shiftR(crc, 8) ^^ b) & 255) + 1],
             0, bytes)

\* strings.IndexByte of s from place i on; 0 when there is none
IndexByte(s, i, b) ==
    LET at == {j \in i .. Len(s) : s[j] = b}
    IN IF at = {} THEN 0 ELSE CHOOSE j \in at : \A k \in at : j <= k

\* Variant: the tag ends at the first closing brace of the key.
extractHashTagEarly(s) ==
    LET start == IndexByte(s, 1, LBrace)
        end   == IndexByte(s, 1, RBrace)
    IN IF start = 0 \/ end = 0 \/ end <= start + 1 THEN s
       ELSE SubSeq(s, start + 1, end - 1)

extractHashTag(s) ==
    LET start == IndexByte(s, 1, LBrace)
        end   == IndexByte(s, start + 1, RBrace)
    IN IF start = 0 \/ end = 0 \/ end = start + 1 THEN s
       ELSE SubSeq(s, start + 1, end - 1)

KeyHashSlot(s) == crc16(extractHashTag(s)) % NumSlots

-----------------------------------------------------------------------------
Init == key = <<>>

Next ==
    \/ key = <<>> /\ \E b \in 0 .. 255 : key' = <<b>>
    \/ /\ Len(key) < MaxKey /\ Range(key) \subseteq Char
       /\ \E b \in Char : key' = Append(key, b)

-----------------------------------------------------------------------------
(* Properties.                                                              *)

\* One bit of the division by x^16 + x^12 + x^5 + 1.
Shifted(crc) == IF crc >= 32768 THEN ((crc * 2) % 65536) ^^ 4129 ELSE crc * 2

Remainder(bytes) ==
    FoldLeft(LAMBDA crc, b : FoldLeft(LAMBDA r, i : Shifted(r), crc ^^ (b * 256),
                                      <<1, 2, 3, 4, 5, 6, 7, 8>>),
             0, bytes)

\* slot.go:45 "crc16 calculates the CRC16 checksum of data using the XMODEM variant": the
\* table gives the remainder of the division bit by bit.
CrcExact == crc16(key) = Remainder(key)

\* slot.go:56 "if key contains {}, only the part inside {} is hashed": a key that reads x{t}y,
\* x without an opening and t without a closing brace and not empty, is in the slot of t and
\* so of every other key with that tag; any other key is hashed whole.
SameTagSameSlot ==
    LET Tags == {<<i, j>> \in (1 .. Len(key)) \X (1 .. Len(key)) :
                    /\ i + 1 < j /\ key[i] = LBrace /\ key[j] = RBrace
                    /\ \A k \in 1 .. i - 1 : key[k] # LBrace
                    /\ \A k \in i + 1 .. j - 1 : key[k] # RBrace}
    IN /\ \A t \in Tags :
             KeyHashSlot(key) = Remainder(SubSeq(key, t[1] + 1, t[2] - 1)) % NumSlots
       /\ Tags = {} => KeyHashSlot(key) = Remainder(key) % NumSlots
=============================================================================
