------------------------------ MODULE S7String ------------------------------
(***************************************************************************)
(* ag_write_string and ag_read_string: a STRING of the PLC (its maximal     *)
(* length, its current length, its bytes) that one client writes and reads  *)
(* in chunks, and that the program of the PLC assigns at any moment.        *)
(*                                                                         *)
(* A character is its UTF-8 encoding, a sequence of bytes; a byte says      *)
(* which character and which part of it.  What decode_utf8 makes of bytes   *)
(* that do not belong together is that sequence of bytes, which is the      *)
(* encoding of no character that was written.                               *)
(*                                                                         *)
(* After a call that failed the client works on a new connection, so that   *)
(* nothing of the old one is read or stored later (S7Client is about that). *)
(***************************************************************************)
EXTENDS S7Wire, SequencesExt

CONSTANTS
  Alphabet,     \* the characters: records [name, width]
  Texts,        \* the texts that the client writes
  PlcTexts,     \* those that the program of the PLC assigns
  MaxLen,       \* the declared length of the STRING
  ReadLens,     \* the lengths that ag_read_string is called with
  Beyond,       \* the number of bytes of the block behind the STRING
  WriteChunk, ReadChunk,    \* the chunks of chunked_write, chunked_read
  MaxCalls, MaxAssignments  \* bounds

ASSUME LensAssumption ==
  /\ MaxLen \in 0 .. 254 /\ ReadLens \subseteq Nat /\ Beyond \in Nat
  /\ \A r \in ReadLens : r <= MaxLen + Beyond
\* The width of a character is that of its UTF-8; the names of bytes that are
\* none of a text stay free.
ASSUME AlphabetAssumption ==
  \A c \in Alphabet : c.width \in 1 .. 4 /\ c.name \notin {"count", "nul", "other"}
ASSUME ChunksAssumption ==
  {WriteChunk, ReadChunk} \subseteq Nat \ {0}
ASSUME BoundsAssumption == MaxCalls \in Nat /\ MaxAssignments \in Nat

Width(c) == c.width
Encoding(c) == [k \in 1 .. Width(c) |-> [char |-> c.name, width |-> Width(c), part |-> k]]
Bytes(text) == FlattenSeq([k \in DOMAIN text |-> Encoding(text[k])])
Characters(text) == [k \in DOMAIN text |-> Encoding(text[k])]

ASSUME TextsAssumption ==
  /\ Texts \cup PlcTexts \subseteq Seq(Alphabet)
  /\ \A t \in PlcTexts : Len(Bytes(t)) <= MaxLen

\* A byte that holds a length; to_byte() keeps the low 8 bits.
Count(n) == [char |-> "count", width |-> 1, part |-> n % 256]
Nul == [char |-> "nul", width |-> 1, part |-> 1]
Other == [char |-> "other", width |-> 1, part |-> 1]   \* behind the STRING

-----------------------------------------------------------------------------
(***************************************************************************)
(* encode_s7_string and StringField::to_bytes: the two lengths, each in a   *)
(* byte, as much of the UTF-8 as fits, zeros.                               *)
(***************************************************************************)
Least(a, b) == IF a < b THEN a ELSE b

\* Mutation: one byte too many is kept.
encode_one_more(maxLen, text) ==
  LET cur == Least(maxLen + 1, Len(Bytes(text)))
  IN  <<Count(maxLen), Count(cur)>> \o SubSeq(Bytes(text), 1, cur)

encode_s7_string(maxLen, text) ==
  LET cur == Least(maxLen, Len(Bytes(text)))
  IN  <<Count(maxLen), Count(cur)>> \o SubSeq(Bytes(text), 1, cur)

to_bytes(maxLen, text) ==
  LET b == encode_s7_string(maxLen, text)
  IN  b \o [k \in 1 .. maxLen + 2 - Len(b) |-> Nul]

(***************************************************************************)
(* decode_utf8: how many bytes a leading byte calls for (a continuation     *)
(* byte passes for the first of two); a byte with too few behind it is      *)
(* skipped alone.                                                           *)
(***************************************************************************)
Called(b) == IF b.part > 1 THEN 2 ELSE b.width

\* Mutation: a character that ends with the bytes is skipped.
decode_short(bytes) ==
  LET from[i \in 1 .. Len(bytes) + 1] ==
        IF i > Len(bytes) THEN <<>>
        ELSE LET next == i + Called(bytes[i])
             IN  IF next <= Len(bytes)
                 THEN <<SubSeq(bytes, i, next - 1)>> \o from[next]
                 ELSE from[i + 1]
  IN  from[1]

decode_utf8(bytes) ==
  LET from[i \in 1 .. Len(bytes) + 1] ==
        IF i > Len(bytes) THEN <<>>
        ELSE LET next == i + Called(bytes[i])
             IN  IF next <= Len(bytes) + 1
                 THEN <<SubSeq(bytes, i, next - 1)>> \o from[next]
                 ELSE from[i + 1]
  IN  from[1]

decode_s7_string(data) ==
  decode_utf8(SubSeq(data, 3, 2 + Least(data[2].part, Len(data) - 2)))

-----------------------------------------------------------------------------
VARIABLES
  mem,       \* the block: the STRING, and the Beyond behind it
  pc,        \* "idle", "writing" or "reading"
  arg,       \* the text of the write
  data,      \* the bytes being written, or read so far
  off,       \* how many of them are written
  size,      \* how many bytes the read asks for
  returned,  \* what the last call returned
  calls, assignments,
  text,      \* history: what the STRING was last set to ...
  torn,      \* ... unless it is a mixture of several texts
  steady     \* history: no assignment since the call began

stringVars == <<mem, pc, arg, data, off, size, returned, calls, assignments,
          text, torn, steady>>

None == [kind |-> "none", chars |-> <<>>]
CallFailed == [kind |-> "failed", chars |-> <<>>]
Done == [kind |-> "done", chars |-> <<>>]
TextRead(chars) == [kind |-> "read", chars |-> chars]

\* The PLC declares the STRING and starts with an empty one.
StringInit ==
  /\ mem = <<Count(MaxLen), Count(0)>> \o [k \in 1 .. MaxLen |-> Nul]
             \o [k \in 1 .. Beyond |-> Other]
  /\ pc = "idle"
  /\ arg = <<>> /\ data = <<>> /\ off = 0 /\ size = 0
  /\ returned = None
  /\ calls = 0 /\ assignments = 0
  /\ text = <<>> /\ torn = FALSE /\ steady = FALSE

-----------------------------------------------------------------------------
Begin ==
  /\ pc = "idle" /\ calls < MaxCalls
  /\ calls' = calls + 1
  /\ returned' = None
  /\ steady' = TRUE

CallWrite(t) ==
  /\ Begin
  /\ pc' = "writing"
  /\ arg' = t /\ data' = to_bytes(MaxLen, t) /\ off' = 0
  /\ UNCHANGED <<mem, size, assignments, text, torn>>

Size == Chunk(Len(data) - off, WriteChunk)

\* The PLC stores n bytes of a chunk.  The STRING is the text of the call when
\* they are its last ones and none of the earlier ones was overwritten.
Store(n) ==
  /\ mem' = [k \in DOMAIN mem |-> IF k \in off + 1 .. off + n THEN data[k] ELSE mem[k]]
  /\ text' = arg
  /\ torn' = ~(off + n = Len(data) /\ (steady \/ off = 0))

WriteNext ==
  /\ pc = "writing"
  /\ Store(Size)
  /\ off' = off + Size
  /\ IF off' = Len(data) THEN pc' = "idle" /\ returned' = Done
                         ELSE UNCHANGED <<pc, returned>>
  /\ UNCHANGED <<arg, data, size, calls, assignments, steady>>

\* The exchange fails, before or after the PLC stored the chunk, or what it
\* got of a torn one.
WriteFails ==
  /\ pc = "writing"
  /\ (\E n \in 1 .. Size : Store(n)) \/ UNCHANGED <<mem, text, torn>>
  /\ pc' = "idle" /\ returned' = CallFailed
  /\ UNCHANGED <<arg, data, off, size, calls, assignments, steady>>

CallRead(maxLen) ==
  /\ Begin
  /\ pc' = "reading"
  /\ data' = <<>> /\ size' = maxLen + 2
  /\ UNCHANGED <<mem, arg, off, assignments, text, torn>>

ReadNext ==
  /\ pc = "reading"
  /\ LET got == data \o SubSeq(mem, Len(data) + 1,
                               Len(data) + Chunk(size - Len(data), ReadChunk))
     IN  /\ data' = got
         /\ IF Len(got) = size
            THEN pc' = "idle" /\ returned' = TextRead(decode_s7_string(got))
            ELSE UNCHANGED <<pc, returned>>
  /\ UNCHANGED <<mem, arg, off, size, calls, assignments, text, torn, steady>>

ReadFails ==
  /\ pc = "reading"
  /\ pc' = "idle" /\ returned' = CallFailed
  /\ UNCHANGED <<mem, arg, data, off, size, calls, assignments, text, torn, steady>>

\* The program of the PLC assigns a text that fits: the current length and
\* the bytes, whatever was behind them stays.
Assign(t) ==
  /\ assignments < MaxAssignments
  /\ assignments' = assignments + 1
  /\ mem' = [k \in DOMAIN mem |->
               CASE k = 2 -> Count(Len(Bytes(t)))
                 [] k \in 3 .. 2 + Len(Bytes(t)) -> Bytes(t)[k - 2]
                 [] OTHER -> mem[k]]
  /\ text' = t /\ torn' = FALSE /\ steady' = FALSE
  /\ UNCHANGED <<pc, arg, data, off, size, returned, calls>>

StringNext ==
  \/ \E t \in Texts : CallWrite(t)
  \/ \E r \in ReadLens : CallRead(r)
  \/ WriteNext
  \/ WriteFails
  \/ ReadNext
  \/ ReadFails
  \/ \E t \in PlcTexts : Assign(t)

-----------------------------------------------------------------------------
(***************************************************************************)
(* As much of a text as fits: its longest prefix that encodes to n bytes at *)
(* most.                                                                    *)
(***************************************************************************)
Fitting(t, n) ==
  CHOOSE p \in Prefixes(t) :
    /\ Len(Bytes(p)) <= n
    /\ \A q \in Prefixes(t) : Len(Bytes(q)) <= n => Len(q) <= Len(p)

\* The bytes that fit end with three of the four bytes of a character.
CutsFour(t, n) ==
  LET p == Fitting(t, n)
  IN  Len(p) < Len(t) /\ Width(t[Len(p) + 1]) = 4 /\ n - Len(Bytes(p)) = 3

QuietRead == returned.kind = "read" /\ steady /\ ~torn
Readable == Least(MaxLen, size - 2)    \* bytes of text within the read

(***************************************************************************)
(* Reading a STRING that holds one text and is left alone meanwhile returns *)
(* the text as far as it fits, whatever was there before, however often a   *)
(* write failed in between, and with a read length that is not the          *)
(* declared one.  A character of four bytes of which three fit is the       *)
(* exception: decode_utf8 takes its last two for a character.               *)
(***************************************************************************)
ReadBack ==
  QuietRead =>
    LET chars == Characters(Fitting(text, Readable))
    IN  \/ returned.chars = chars
        \/ /\ CutsFour(text, Readable)
           /\ returned.chars # <<>> /\ Front(returned.chars) = chars

(***************************************************************************)
(* A write stores nothing behind the STRING, and a read, though it be       *)
(* called with a length that reaches there and though the STRING be a       *)
(* mixture, returns nothing from there.                                     *)
(***************************************************************************)
NeighbourUntouched ==
  /\ \A k \in 3 + MaxLen .. Len(mem) : mem[k] = Other
  /\ \A i \in DOMAIN returned.chars : \A k \in DOMAIN returned.chars[i] :
       returned.chars[i][k] # Other
=============================================================================
