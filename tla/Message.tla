------------------------------- MODULE Message -------------------------------
(***************************************************************************)
(* Message, lib/libblt/Message.cpp: what the calls of Connection carry.  A    *)
(* header and chunks one after the other in one block of memory, each with a  *)
(* type, an id and data whose length is rounded up to words.                  *)
(***************************************************************************)
EXTENDS Integers, Sequences, FiniteSets, SequencesExt

CONSTANTS
    MsgIds,       \* the ids that values are put under
    MsgLens,      \* lengths of strings, with their end
    GROW_BY,      \* 128
    MaxPuts       \* bound: calls that put something or take over a message

VARIABLES
    chunks,       \* what lies behind the header of each message, in order
    headLen,      \* len of the header
    length,       \* _length
    available,    \* _available
    block,        \* how large the block of memory is
    replyPort,    \* _reply_port
    put,          \* what was put in, since it was made, emptied or taken over
    harm,         \* a chunk was written beyond the block, or NULL was read
    puts          \* so far

messageVars == <<chunks, headLen, length, available, block, replyPort, put, harm, puts>>

Msg == {"mine", "theirs"}
HEADER == 12
Words(len) == (len + 3) \div 4
ChunkSize(len) == HEADER + 4 * Words(len)

MessageInit ==
    /\ chunks = [me \in Msg |-> <<>>] /\ put = [me \in Msg |-> <<>>] /\ headLen = [me \in Msg |-> 0]
    /\ length = [me \in Msg |-> HEADER] /\ available = [me \in Msg |-> GROW_BY - HEADER]
    /\ block = [me \in Msg |-> GROW_BY] /\ replyPort = [me \in Msg |-> 0]
    /\ harm = FALSE /\ puts = 0

Counted == puts < MaxPuts /\ puts' = puts + 1
-----------------------------------------------------------------------------
\* Slip: the length is that of the data alone.
LongerByData(len) == HEADER + len

\* By how much a message grows.
LongerBy(len) == ChunkSize(len)

\* PutData: _available grows by steps until the chunk fits in it, and the block with it;
\* it is not reduced by what is put there.
PutData(me, type, id, data, len) ==
    LET size == ChunkSize(len)
        short == available[me] < size
        steps == (size - available[me] + GROW_BY - 1) \div GROW_BY
        grown == available[me] + GROW_BY * (IF short THEN steps ELSE 0)
        room == IF short THEN length[me] + grown ELSE block[me]
    IN  /\ Counted
        /\ available' = [available EXCEPT ![me] = grown] /\ block' = [block EXCEPT ![me] = room]
        /\ harm' = (length[me] + HEADER + len > room)
        /\ chunks' = [chunks EXCEPT ![me] = Append(@, [type |-> type, id |-> id, len |-> len, data |-> data])]
        /\ length' = [length EXCEPT ![me] = @ + LongerBy(len)]
        /\ headLen' = [headLen EXCEPT ![me] = length'[me] - HEADER]
        /\ put' = [put EXCEPT ![me] = Append(@, <<type, id, data>>)]
        /\ UNCHANGED replyPort

\* PutInt32 and PutPointer: a word each.
PutInt32(me) == \E id \in MsgIds : PutData(me, "int", id, puts, 4)
PutPointer(me) == \E id \in MsgIds : PutData(me, "pointer", id, puts, 4)
PutString(me) == \E id \in MsgIds, len \in MsgLens : PutData(me, "string", id, puts, len)

\* GetPackedData: the whole block, and its length.
Packed(me) == [chunks |-> chunks[me], head |-> headLen[me], length |-> length[me], put |-> put[me]]

\* The other message with its header, as one chunk.
PutMessage(me) == \E o \in Msg \ {me}, id \in MsgIds : PutData(me, "message", id, Packed(o), length[o])

\* What came that is no message: too short, or with another header.
NoMsg == {[chunks |-> <<>>, head |-> 0, length |-> 8, put |-> <<>>],
          [chunks |-> <<>>, head |-> 4, length |-> HEADER, put |-> <<>>]}

IsMessage(packed) == packed.length >= HEADER /\ packed.head = packed.length - HEADER

\* PutPackedData: what was packed by a message takes the place of what was there.
TakeOver(me, packed, from) ==
    IF IsMessage(packed)
    THEN /\ chunks' = [chunks EXCEPT ![me] = packed.chunks] /\ put' = [put EXCEPT ![me] = packed.put]
         /\ headLen' = [headLen EXCEPT ![me] = packed.head]
         /\ length' = [length EXCEPT ![me] = packed.length] /\ block' = [block EXCEPT ![me] = packed.length]
         /\ available' = [available EXCEPT ![me] = 0]
         /\ replyPort' = [replyPort EXCEPT ![me] = from]
    ELSE UNCHANGED <<chunks, put, headLen, length, block, available, replyPort>>

\* From another message of the program, or from a port.
PutPackedData(me) ==
    /\ Counted
    /\ \E packed \in {Packed(o) : o \in Msg \ {me}} \cup NoMsg, from \in {-1, 7} : TakeOver(me, packed, from)
    /\ UNCHANGED harm

\* The count of GetData before the ith chunk: it goes on while that is more than a header.
Left(me, i) == length[me] - HEADER - FoldLeft(LAMBDA sum, c : sum + ChunkSize(c.len), 0, SubSeq(chunks[me], 1, i - 1))
Chunk(me, i) == chunks[me][i]
Reached(me) == {i \in DOMAIN chunks[me] : \A j \in 1..i : Left(me, j) > HEADER}

FirstOf(me, found) == IF found = {} THEN <<>> ELSE <<Chunk(me, CHOOSE i \in found : \A j \in found : i <= j).data>>

\* GetData: the first of a type and an id.
GetData(me, type, id) == FirstOf(me, {i \in Reached(me) : Chunk(me, i).type = type /\ Chunk(me, i).id = id})

\* And GetData of a length that is known: GetInt32, GetPointer.
GetExact(me, type, id, len) ==
    FirstOf(me, {i \in Reached(me) : Chunk(me, i).type = type /\ Chunk(me, i).id = id /\ Chunk(me, i).len = len})

\* GetMessage: the first that is found under the id is taken over by the other one.  If
\* none is, NULL is, with a length that nobody set: it is read if that is not too short.
GetMessage(me) ==
    /\ Counted
    /\ \E o \in Msg \ {me}, id \in MsgIds :
         LET found == GetData(me, "message", id)
         IN  IF found # <<>> THEN TakeOver(o, found[1], -1) /\ UNCHANGED harm
             ELSE /\ harm' \in BOOLEAN
                  /\ UNCHANGED <<chunks, put, headLen, length, block, available, replyPort>>

\* Empty: as if all that was in it had been taken from what is available.
Emptied(me) ==
    /\ available' = [available EXCEPT ![me] = @ + length[me] - HEADER]
    /\ length' = [length EXCEPT ![me] = HEADER] /\ headLen' = [headLen EXCEPT ![me] = 0]
    /\ chunks' = [chunks EXCEPT ![me] = <<>>] /\ put' = [put EXCEPT ![me] = <<>>]
    /\ replyPort' = [replyPort EXCEPT ![me] = 0]
    /\ UNCHANGED <<block, harm, puts>>

MessageNext == ~harm /\ \E me \in Msg :
    \/ PutInt32(me) \/ PutPointer(me) \/ PutString(me) \/ PutMessage(me)
    \/ PutPackedData(me) \/ GetMessage(me) \/ Emptied(me)

MessageSpec == MessageInit /\ [][MessageNext]_messageVars
-----------------------------------------------------------------------------
\* The first value that was put under a type and an id.
FirstPut(me, type, id) == SelectSeq(put[me], LAMBDA v : v[1] = type /\ v[2] = id)

\* As long as no chunk was written beyond its block, a message that was filled, emptied,
\* packed, sent or nested in another one is one for PutPackedData, tells what was put in,
\* and is no longer than its memory.
MessageTells == ~harm =>
    \A me \in Msg :
        /\ length[me] <= block[me] /\ Left(me, Len(chunks[me]) + 1) = 0 /\ IsMessage(Packed(me))
        /\ \A type \in {"int", "pointer", "string", "message"}, id \in MsgIds :
             LET told == IF type \in {"int", "pointer"} THEN GetExact(me, type, id, 4) ELSE GetData(me, type, id)
                 said == FirstPut(me, type, id)
             IN  IF said = <<>> THEN told = <<>> ELSE told = <<said[1][3]>>
=============================================================================
