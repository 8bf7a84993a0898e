-------------------------------- MODULE Hash --------------------------------
(***************************************************************************)
(* The hash table of libblt (lib/libblt/hash.c), in which the VFS server   *)
(* keeps its clients: open addressing with double hashing, removal by a     *)
(* mark, and a table that grows and shrinks.                                *)
(***************************************************************************)
EXTENDS Integers, Sequences, FiniteSets, FiniteSetsExt

CONSTANTS
    HKey,         \* the keys; they must be unique, says hash.c:39
    table_size,   \* the primes, smallest first
    MaxDirty      \* bound: removals counted since the last rebuild

VARIABLES
    ht,           \* hashtable_t
    held          \* the keys a caller put in and did not take out

hashVars == <<ht, held>>

\* max_load is 0.75 at both callers; x > max_load * n and x > (1 - max_load) * n.
OverLoad(x, n) == 4 * x > 3 * n
OverRest(x, n) == 4 * x > n

Slot == [valid : BOOLEAN, dirty : BOOLEAN, key : HKey \cup {-1}]
EmptySlot == [valid |-> FALSE, dirty |-> FALSE, key |-> -1]
\* Slip: one place too few is allocated.
NewTableShort(index) ==
    [ index |-> index, used |-> 0, dirty |-> 0,
      table |-> [i \in 0..table_size[index] - 2 |-> EmptySlot] ]

NewTable(index) ==
    [ index |-> index, used |-> 0, dirty |-> 0,
      table |-> [i \in 0..table_size[index] - 1 |-> EmptySlot] ]

Size(t) == table_size[t.index]
Live(t) == {i \in DOMAIN t.table : t.table[i].valid /\ ~t.table[i].dirty}

\* hash and rehash: the k-th place that is tried for a key.
Probe(t, key, k) ==
    ((key % Size(t)) - k * (1 + (key % (Size(t) - 2)))) % Size(t)

\* The first place is taken only if it was never used; after it, any that is
\* not in use.
Place(t, key) ==
    IF ~t.table[Probe(t, key, 0)].valid THEN Probe(t, key, 0)
    ELSE Probe(t, key, Min({k \in 1..Size(t) : Probe(t, key, k) \notin Live(t)}))

\* Slip: a place with a removed key ends up counted twice.
PutTwice(t, key) ==
    LET i == Place(t, key)
    IN  [t EXCEPT !.used = @ + 1,
                  !.table[i] = [valid |-> TRUE, dirty |-> FALSE, key |-> key]]

Put(t, key) ==
    LET i == Place(t, key)
    IN  [t EXCEPT !.used = IF t.table[i].dirty THEN @ ELSE @ + 1,
                  !.table[i] = [valid |-> TRUE, dirty |-> FALSE, key |-> key]]

\* hashtable_rebuild moves the keys in the order of their places, through
\* hashtable_insert, which may grow the table again on the way.
RECURSIVE Insert(_, _)
RECURSIVE Move(_, _, _)
Move(new, old, i) ==
    IF i = Size(old) THEN new
    ELSE Move(IF i \in Live(old) THEN Insert(new, old.table[i].key) ELSE new, old, i + 1)

Rebuild(t, dir) ==
    Move(NewTable(IF t.index + dir >= 1 THEN t.index + dir ELSE t.index), t, 0)

Insert(t, key) ==
    Put(IF OverLoad(t.used, Size(t)) THEN Rebuild(t, 1) ELSE t, key)

\* hashtable_lookup and hashtable_remove go on over removed keys, and stop at a
\* place that was never used.
Find(t, key) ==
    LET stops == {k \in 0..Size(t) - 1 : ~t.table[Probe(t, key, k)].valid}
        hits  == {k \in 0..Size(t) - 1 : /\ Probe(t, key, k) \in Live(t)
                                         /\ t.table[Probe(t, key, k)].key = key
                                         /\ \A e \in stops : k < e}
    IN  IF hits = {} THEN -1 ELSE Probe(t, key, Min(hits))

\* Slip: the place of a removed key is marked as never used.
RemoveHole(t, key) ==
    IF Find(t, key) = -1 THEN t ELSE [t EXCEPT !.table[Find(t, key)] = EmptySlot]

RemoveKey(t, key) ==
    LET i == Find(t, key)
        marked == [t EXCEPT !.table[i].dirty = TRUE, !.dirty = @ + 1]
    IN  IF i = -1 THEN t
        ELSE IF OverRest(marked.dirty, Size(t)) /\ t.index > 1 THEN Rebuild(marked, -1)
        ELSE marked

HashInit == ht = NewTable(1) /\ held = {}

HashInsert(key) ==
    /\ key \notin held
    /\ OverLoad(ht.used, Size(ht)) => ht.index < Len(table_size)
    /\ ht' = Insert(ht, key)
    /\ held' = held \cup {key}

HashRemove(key) ==
    /\ ht.dirty < MaxDirty
    /\ ht' = RemoveKey(ht, key)
    /\ held' = held \ {key}

HashNext == \E key \in HKey : HashInsert(key) \/ HashRemove(key)

HashSpec == HashInit /\ [][HashNext]_hashVars
-----------------------------------------------------------------------------
\* The table has the size it says, and the marks and counts are in range.
HashTypeOK ==
    /\ ht.index \in 1..Len(table_size)
    /\ ht.table \in [0..Size(ht) - 1 -> Slot]
    /\ ht.dirty \in 0..MaxDirty
    /\ held \subseteq HKey

\* hashtable_lookup finds every key that was inserted and not removed, and no
\* other, over any sequence of collisions, removals and rebuilds.
LookupFinds == \A key \in HKey : Find(ht, key) # -1 <=> key \in held

\* used counts the places ever used, and one is always left: the loops of
\* lookup, remove and insert, which have no other end, end.
ProbesEnd ==
    /\ ht.used = Cardinality({i \in DOMAIN ht.table : ht.table[i].valid})
    /\ ht.used < Size(ht)

\* Over insertions, removals and rebuilds the table finds exactly what is in it,
\* and its loops end (hashtable_lookup, _insert, _remove).
KeysFound == HashTypeOK /\ LookupFinds /\ ProbesEnd
=============================================================================
