-------------------------------- MODULE ZText --------------------------------
(***************************************************************************)
(* What the interpreter of hiptop/zmachine does to a line that was typed      *)
(* (readline, encode, find_token) and to the texts of a game (_ZSCII, ZCHAR). *)
(* A letter is its number in the tables of ZCHAR: 6 to 31 small, 32 more      *)
(* for capitals, 64 more for digits and signs; 0 is a space.                  *)
(***************************************************************************)
EXTENDS Integers, Sequences, FiniteSets, FiniteSetsExt, SequencesExt

CONSTANTS
    Letters,     \* what is typed
    Specials,    \* the game's separators, in order
    MaxLine,     \* longest line typed
    TextMax,     \* the size of the text buffer, its first byte
    KEYSZ,       \* letters of a key times 2 div 3: 4 bytes for 6 letters, 6 for 9
    DictWords,   \* words of the dictionary
    Abbrevs,     \* the abbreviations of the game, as Z-characters
    Texts        \* the texts that a game prints

VARIABLES typed, textbuf, tokens,
          ztext      \* a text of the game that was printed, as Z-characters

ztextVars == <<typed, textbuf, tokens, ztext>>

Blank == 0
Capital(x) == x \in 38..63
Sign(x) == x \in 72..95
KeyLen == (KEYSZ * 3) \div 2

-----------------------------------------------------------------------------
\* encode: capitals are made small, signs take a shift, and the rest is filled with 5.
\* A sign in the last place leaves its shift there.
encode(w) ==
    LET of(x) == IF Sign(x) THEN <<5, x - 64>> ELSE <<IF Capital(x) THEN x - 32 ELSE x>>
        all == FlattenSeq([i \in 1..Len(w) |-> of(w[i])])
    IN  [i \in 1..KeyLen |-> IF i <= Len(all) THEN all[i] ELSE 5]

\* The keys in order, as the bytes of the dictionary have them: word by word of three.
KeyLess(k, m) ==
    \E n \in 1..KeyLen : k[n] < m[n] /\ \A j \in 1..n - 1 : k[j] = m[j]
Dict == SetToSortSeq({encode(w) : w \in DictWords}, KeyLess)

\* find_token: the place of the key, counted from 0, or -1.
RECURSIVE SearchKey(_, _, _)
SearchKey(key, low, high) ==
    LET pos == (high + low) \div 2
    IN  IF high - low <= 1 THEN -1
        ELSE IF Dict[pos + 1] = key THEN pos
        ELSE IF KeyLess(Dict[pos + 1], key) THEN SearchKey(key, pos, high) ELSE SearchKey(key, low, pos)

\* Slip: the search begins behind the first entry.
find_tokenSecond(l, off, len) ==
    [entry |-> SearchKey(encode(SubSeq(l, off + 1, off + len)), 0, Len(Dict)), len |-> len, off |-> off + 1]

find_token(l, off, len) ==
    [entry |-> SearchKey(encode(SubSeq(l, off + 1, off + len)), -1, Len(Dict)), len |-> len, off |-> off + 1]

-----------------------------------------------------------------------------
\* The loop of readline over the letters: a word ends at a space or separator, and a
\* separator is a word of its own.
IsSpecial(x) == x = Blank \/ x \in Range(Specials)

\* Slip: a separator that ends a word is dropped.
TokenLoopDrops(l, max, ptr, start, found) ==
    IF ~IsSpecial(l[ptr + 1]) THEN <<start, found>>
    ELSE <<ptr + 1, IF ptr > start THEN Append(found, find_token(l, start, ptr - start))
                    ELSE IF l[ptr + 1] = Blank THEN found ELSE Append(found, find_token(l, ptr, 1))>>

\* One turn of the loop: where the next word starts, and the words so far.
TokenLoop(l, max, ptr, start, found) ==
    LET word == IF ptr > start THEN <<find_token(l, start, ptr - start)>> ELSE <<>>
        sep  == IF l[ptr + 1] = Blank THEN <<>> ELSE <<find_token(l, ptr, 1)>>
    IN  IF ~IsSpecial(l[ptr + 1]) THEN <<start, found>>
        ELSE <<ptr + 1, found \o word \o sep>>

RECURSIVE TokensFrom(_, _, _, _, _)
TokensFrom(l, max, ptr, start, found) ==
    LET turn == TokenLoop(l, max, ptr, start, found)
    IN  IF ptr >= max THEN IF ptr > start THEN Append(found, find_token(l, start, ptr - start)) ELSE found
        ELSE TokensFrom(l, max, ptr + 1, turn[1], turn[2])

\* Slip: the terminator gets no room.
RoomFor(len) == Min({len, TextMax})

\* In version 3 the buffer's size counts the terminator.
TextRoom(len) == Min({len, TextMax - 1})

\* readline in version 3: the text into its buffer behind its size, then the words.  All
\* of them are written, also if the parse buffer has room for fewer.
readline(l) ==
    LET max == TextRoom(Len(l))
    IN  /\ typed' = l
        /\ textbuf' = <<TextMax>> \o SubSeq(l, 1, max) \o <<"end">>
        /\ tokens' = TokensFrom(l, max, 0, 0, <<>>)
        /\ UNCHANGED ztext

-----------------------------------------------------------------------------
\* ZCHAR with the modes A0, A1, A2, abbreviations (3 to 5), and the two halves of a
\* letter by its number; 96 and more are letters that the tables do not have.
ZState == [mode |-> 0, out |-> <<>>, half |-> 0]

\* Slip: a shift lasts.
ShownLocked(s, c) == [s EXCEPT !.out = Append(@, 32 * s.mode + c)]
Shown(s, c) == [s EXCEPT !.out = Append(@, 32 * s.mode + c), !.mode = 0]

\* Slip: the padding of an abbreviation shifts what comes after it.
AfterAbbrevShifted(s) == s
AfterAbbrev(s) == [s EXCEPT !.mode = 0]

RECURSIVE ZCHAR(_, _)
ZCHAR(s, c) ==
    CASE s.mode \in 0..2 /\ c \in 1..3 -> [s EXCEPT !.mode = c + 2]
      [] s.mode \in 0..2 /\ c = 4 -> [s EXCEPT !.mode = 1]
      [] s.mode \in 0..2 /\ c = 5 -> [s EXCEPT !.mode = 2]
      [] s.mode = 2 /\ c = 6 -> [s EXCEPT !.mode = 6]
      [] s.mode \in 0..2 -> Shown(s, c)
      [] s.mode \in 3..5 ->
           AfterAbbrev(FoldLeft(ZCHAR, [s EXCEPT !.mode = 0], Abbrevs[(s.mode - 3) * 32 + c]))
      [] s.mode = 6 -> [s EXCEPT !.half = c, !.mode = 7]
      [] s.mode = 7 -> [s EXCEPT !.out = Append(@, 96 + c + 32 * s.half), !.mode = 0]

ZSCII(chars) == FoldLeft(ZCHAR, ZState, chars).out

ZTextInit == typed = <<>> /\ textbuf = <<TextMax, "end">> /\ tokens = <<>> /\ ztext = <<>>

PrintGameText(chars) == ztext' = chars /\ UNCHANGED <<typed, textbuf, tokens>>

ZTextNext == typed = <<>> /\ ztext = <<>> /\
    \/ \E l \in BoundedSeq(Letters, MaxLine) : readline(l)
    \/ \E chars \in Texts : PrintGameText(chars)

ZTextSpec == ZTextInit /\ [][ZTextNext]_ztextVars
-----------------------------------------------------------------------------
\* The text stays inside its buffer, and ends there.
TextFits == Len(textbuf) <= TextMax + 1 /\ Last(textbuf) = "end"

\* The reference for words: the separators, and what is between them.
KeptLen == Len(textbuf) - 2
OutsideLine(i) == i < 1 \/ i > KeptLen \/ IsSpecial(typed[i])
WordAt(i, j) ==
    /\ 1 <= i /\ i <= j /\ j <= KeptLen
    /\ \/ i = j /\ typed[i] \in Range(Specials)
       \/ OutsideLine(i - 1) /\ OutsideLine(j + 1) /\ \A k \in i..j : ~OutsideLine(k)

\* The words of a line are all of its words, each once, from left to right, and each
\* says where in the text buffer it stands.
WordsAreWords ==
    /\ {<<t.off, t.off + t.len - 1>> : t \in ToSet(tokens)} = {p \in (1..MaxLine) \X (1..MaxLine) : WordAt(p[1], p[2])}
    /\ \A k \in 1..Len(tokens) - 1 : tokens[k].off < tokens[k + 1].off

\* A word is found in the dictionary if one of its words begins with the same letters.
FoundIfThere ==
    \A t \in ToSet(tokens) :
        LET key == encode(SubSeq(typed, t.off, t.off + t.len - 1))
        IN  IF key \in Range(Dict) THEN t.entry >= 0 /\ Dict[t.entry + 1] = key ELSE t.entry = -1

\* What is typed and what the game would print for its key are the same letters, small
\* and as far as the key reaches.
KeyIsText ==
    \A t \in ToSet(tokens) :
        LET w == SubSeq(typed, t.off, t.off + t.len - 1)
            small == [i \in DOMAIN w |-> IF Capital(w[i]) THEN w[i] - 32 ELSE w[i]]
        IN  \E n \in 0..Len(w) :
              /\ ZSCII(encode(w)) = SubSeq(small, 1, n)
              /\ n < Len(w) => Len(FlattenSeq([i \in 1..n + 1 |-> IF Sign(w[i]) THEN <<5, 0>> ELSE <<0>>])) > KeyLen

\* An abbreviation stands for its own text, and the text goes on behind it as if it had
\* just begun.
AbbrevIsItsText ==
    \A i \in 1..Len(ztext) - 1 :
        ztext[i] \in 1..3 /\ FoldLeft(ZCHAR, ZState, SubSeq(ztext, 1, i - 1)).mode = 0 =>
            ZSCII(ztext) = ZSCII(SubSeq(ztext, 1, i - 1)) \o ZSCII(Abbrevs[(ztext[i] - 1) * 32 + ztext[i + 1]])
                             \o ZSCII(SubSeq(ztext, i + 2, Len(ztext)))

\* A line that is typed is cut, found in the dictionary and printed again without
\* loss (ZReader, ZDictionary, ZSCII).
LineUnderstood ==
    /\ TextFits
    /\ WordsAreWords
    /\ FoundIfThere
    /\ KeyIsText
    /\ AbbrevIsItsText
=============================================================================
