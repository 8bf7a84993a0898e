------------------------------ MODULE ZObjects ------------------------------
(***************************************************************************)
(* The objects of a game (ZObject and ZObjectWide of hiptop/zmachine): the    *)
(* tree that insert and remove keep by three numbers in each object, and the  *)
(* tables of properties, as bytes, that get_prop_addr and the others search.  *)
(***************************************************************************)
EXTENDS Integers, Sequences, FiniteSets, FiniteSetsExt, SequencesExt

CONSTANTS
    Objects,     \* 1..n
    PropsOf,     \* for each object its properties: a sequence of [id, size]
    PropMax,     \* the largest number of a property; 31, or 63 in the wide tables
    MaxPuts      \* bound: changes of a property

VARIABLES
    wide,        \* whether the game has version 4 or later
    tree,        \* parent, sibling and child of every object, 0 for none
    props,       \* the bytes of each object's table
    last_sz,     \* what ZObjectWide.get_prop_addr leaves behind
    propAnswer,      \* the last question about properties, and its propAnswer
    puts

zobjectsVars == <<wide, tree, props, last_sz, propAnswer, puts>>

\* The bytes of a table: headers of one byte, and of two for more than two bytes in a
\* wide table; property `id' starts out as its number in every byte.
HeaderOf(p, w) ==
    IF ~w THEN <<(p.size - 1) * 32 + p.id>>
    ELSE IF p.size <= 2 THEN <<(p.size - 1) * 64 + p.id>>
    ELSE <<128 + p.id, 128 + p.size>>
TableOf(obj, w) ==
    FlattenSeq([i \in DOMAIN PropsOf[obj] |->
        HeaderOf(PropsOf[obj][i], w) \o [j \in 1..PropsOf[obj][i].size |-> PropsOf[obj][i].id]]) \o <<0>>

NoAnswerYet == [op |-> "none", obj |-> 0, id |-> 0, val |-> 0]

ZObjectsInit ==
    /\ wide \in BOOLEAN
    /\ tree = [o \in Objects |-> [parent |-> 0, sibling |-> 0, child |-> 0]]
    /\ props = [o \in Objects |-> TableOf(o, wide)]
    /\ last_sz = 0 /\ propAnswer = NoAnswerYet /\ puts = 0

-----------------------------------------------------------------------------
\* The child of x before obj: the walk of remove() along the siblings.
RECURSIVE Before(_, _, _)
Before(t, c, obj) ==
    IF c = 0 THEN 0 ELSE IF t[c].sibling = obj THEN c ELSE Before(t, t[c].sibling, obj)

\* Slip: only the first child is taken out of the chain.
removeFirst(t, obj) ==
    LET x == t[obj].parent
    IN  IF x = 0 THEN t
        ELSE [t EXCEPT ![x].child = IF @ = obj THEN t[obj].sibling ELSE @,
                       ![obj].sibling = 0, ![obj].parent = 0]

remove(t, obj) ==
    LET x == t[obj].parent
        n == t[obj].sibling
        c == t[x].child
        out == IF c = obj THEN [t EXCEPT ![x].child = n]
               ELSE IF Before(t, c, obj) = 0 THEN t ELSE [t EXCEPT ![Before(t, c, obj)].sibling = n]
    IN  IF x = 0 THEN t ELSE [out EXCEPT ![obj].sibling = 0, ![obj].parent = 0]

insert(t, obj, dest) ==
    LET s == remove(t, obj)
    IN  [s EXCEPT ![obj].sibling = s[dest].child, ![dest].child = obj, ![obj].parent = dest]

\* Games do not put an object into itself, nor into what it holds.
RECURSIVE Holds(_, _)
Holds(obj, o) == o # 0 /\ (o = obj \/ Holds(obj, tree[o].parent))

InsertObj(obj, dest) ==
    /\ ~Holds(obj, dest)
    /\ tree' = insert(tree, obj, dest)
    /\ UNCHANGED <<wide, props, last_sz, propAnswer, puts>>

RemoveObj(obj) ==
    /\ tree' = remove(tree, obj)
    /\ UNCHANGED <<wide, props, last_sz, propAnswer, puts>>

-----------------------------------------------------------------------------
\* Slip: a header's second byte is not counted.
StepShort(b, at) ==
    IF ~wide THEN at + (b[at] \div 32) + 2
    ELSE IF b[at] < 128 THEN at + 2 + (b[at] \div 64) ELSE at + 1 + (b[at + 1] % 64)

\* From one header to the next.
StepOver(b, at) ==
    IF ~wide THEN at + (b[at] \div 32) + 2
    ELSE IF b[at] < 128 THEN at + 2 + (b[at] \div 64) ELSE at + 2 + (b[at + 1] % 64)

\* Slip: the size stays in the number.
IdAtRaw(b, at) == b[at]

IdAt(b, at) == b[at] % IF wide THEN 64 ELSE 32

RECURSIVE HeaderFrom(_, _, _)
HeaderFrom(b, at, id) ==
    IF b[at] = 0 THEN 0 ELSE IF IdAt(b, at) = id THEN at ELSE HeaderFrom(b, StepOver(b, at), id)
HeaderAt(obj, id) == HeaderFrom(props[obj], 1, id)

\* get_prop_addr: where the property's bytes are, or 0.
get_prop_addr(obj, id) ==
    LET h == HeaderAt(obj, id)
    IN  IF h = 0 THEN 0 ELSE IF wide /\ props[obj][h] >= 128 THEN h + 2 ELSE h + 1

\* The wide one remembers the header it has found, if that has one byte.
Remember(obj, id) ==
    LET h == HeaderAt(obj, id)
    IN  last_sz' = IF wide /\ h # 0 /\ props[obj][h] < 128 THEN props[obj][h] ELSE last_sz

\* The size byte that get_prop, put_prop and get_prop_next go on with: in a wide table
\* the remembered one, which may be another property's.
SizeByte(obj, id) ==
    IF wide THEN LET h == HeaderAt(obj, id) IN IF props[obj][h] < 128 THEN props[obj][h] ELSE last_sz
    ELSE props[obj][HeaderAt(obj, id)]

SizeCode(sz) == IF wide THEN (IF sz >= 128 THEN 2 ELSE sz \div 64) ELSE sz \div 32

Word2(b, at) == 256 * b[at] + b[at + 1]

AnswerProp(op, obj, id, val) == propAnswer' = [op |-> op, obj |-> obj, id |-> id, val |-> val]

GetAddr(obj, id) ==
    /\ AnswerProp("addr", obj, id, get_prop_addr(obj, id)) /\ Remember(obj, id)
    /\ UNCHANGED <<wide, tree, props, puts>>

\* get_prop: a byte or a word, or the default; DIE if the property is longer.
GetProp(obj, id) ==
    LET at == get_prop_addr(obj, id)
        size == SizeCode(SizeByte(obj, id))
    IN  /\ AnswerProp("get", obj, id,
             IF at = 0 THEN -1
             ELSE IF size = 0 THEN props[obj][at]
             ELSE IF size = 1 THEN Word2(props[obj], at) ELSE -2)
        /\ Remember(obj, id)
        /\ UNCHANGED <<wide, tree, props, puts>>

\* Slip: a word is written whatever the size.
PutPropWord(obj, id, val) ==
    LET at == get_prop_addr(obj, id)
    IN  /\ puts < MaxPuts /\ at # 0
        /\ props' = [props EXCEPT ![obj][at] = val \div 256, ![obj][at + 1] = val % 256]
        /\ Remember(obj, id) /\ puts' = puts + 1
        /\ propAnswer' = NoAnswerYet
        /\ UNCHANGED <<wide, tree>>

\* put_prop, of a property that is there.
PutProp(obj, id, val) ==
    LET at == get_prop_addr(obj, id)
        size == SizeCode(SizeByte(obj, id))
    IN  /\ puts < MaxPuts /\ at # 0
        /\ props' = IF size = 0 THEN [props EXCEPT ![obj][at] = val % 256]
                    ELSE IF size = 1 THEN [props EXCEPT ![obj][at] = val \div 256, ![obj][at + 1] = val % 256]
                    ELSE props
        /\ Remember(obj, id) /\ puts' = puts + 1
        /\ propAnswer' = NoAnswerYet
        /\ UNCHANGED <<wide, tree>>

\* get_next_prop: of number 0 the first; of one that is there the next.
NextProp(obj, id) ==
    LET b  == props[obj]
        at == get_prop_addr(obj, id)
        size == SizeCode(SizeByte(obj, id))
        after == IF ~wide THEN StepOver(b, HeaderAt(obj, id))
                 ELSE IF size = 2 THEN at + (b[at - 1] % 64) ELSE at + size + 1
    IN  /\ id # 0 => at # 0
        /\ AnswerProp("next", obj, id, IF id = 0 THEN IdAt(b, 1) ELSE IdAt(b, after))
        /\ IF id = 0 THEN UNCHANGED last_sz ELSE Remember(obj, id)
        /\ UNCHANGED <<wide, tree, props, puts>>

ZObjectsNext ==
    \/ \E obj, dest \in Objects : InsertObj(obj, dest)
    \/ \E obj \in Objects : RemoveObj(obj)
    \/ \E obj \in Objects, id \in 1..PropMax : GetAddr(obj, id) \/ GetProp(obj, id)
    \/ \E obj \in Objects, id \in 1..PropMax, val \in {5, 258} : PutProp(obj, id, val)
    \/ \E obj \in Objects, id \in 0..PropMax : NextProp(obj, id)

ZObjectsSpec == ZObjectsInit /\ [][ZObjectsNext]_zobjectsVars
-----------------------------------------------------------------------------
\* The children of an object, as a game walks them: by their siblings.
RECURSIVE Chain(_, _)
Chain(c, n) == IF c = 0 \/ n = 0 THEN <<>> ELSE <<c>> \o Chain(tree[c].sibling, n - 1)

\* The chain of an object's children has every object whose parent it is, once, and no
\* other; an object without parent has no sibling.
TreeSound ==
    /\ \A p \in Objects :
         LET c == Chain(tree[p].child, Cardinality(Objects) + 1)
         IN  /\ ToSet(c) = {o \in Objects : tree[o].parent = p}
             /\ Len(c) = Cardinality(ToSet(c))
    /\ \A o \in Objects : tree[o].parent = 0 => tree[o].sibling = 0

\* The reference: where the i-th property of an object is, by the sizes of all before.
SizeOf(p) == p.size + Len(HeaderOf(p, wide))
DataAt(obj, i) == FoldLeft(LAMBDA n, p : n + SizeOf(p), 1, SubSeq(PropsOf[obj], 1, i - 1))
                  + Len(HeaderOf(PropsOf[obj][i], wide))
Index(obj, id) == CHOOSE i \in DOMAIN PropsOf[obj] : PropsOf[obj][i].id = id
Has(obj, id) == \E i \in DOMAIN PropsOf[obj] : PropsOf[obj][i].id = id

\* A property is found where it is, whatever was put into those before it, and one
\* that is not there is not.
PropsFound ==
    propAnswer.op = "addr" =>
        propAnswer.val = IF Has(propAnswer.obj, propAnswer.id) THEN DataAt(propAnswer.obj, Index(propAnswer.obj, propAnswer.id)) ELSE 0

\* Each property with a header of one byte is followed by the next of the table, and
\* the last one by 0.
NextIsNext ==
    propAnswer.op = "next" /\ propAnswer.id # 0 /\ (wide => PropsOf[propAnswer.obj][Index(propAnswer.obj, propAnswer.id)].size <= 2) =>
        LET i == Index(propAnswer.obj, propAnswer.id)
        IN  propAnswer.val = IF i = Len(PropsOf[propAnswer.obj]) THEN 0 ELSE PropsOf[propAnswer.obj][i + 1].id

\* A put changes no header and no other property.
OthersKept ==
    [][\A obj \in Objects : \A i \in DOMAIN PropsOf[obj] :
         props'[obj] # props[obj] =>
            \/ \A j \in 0..PropsOf[obj][i].size - 1 :
                 props'[obj][DataAt(obj, i) + j] = props[obj][DataAt(obj, i) + j]
            \/ \A k \in DOMAIN props[obj] \ {DataAt(obj, i) + j : j \in 0..PropsOf[obj][i].size - 1} :
                 props'[obj][k] = props[obj][k]]_zobjectsVars

\* insert_obj, remove_obj and the walks over property tables: the tree stays a tree,
\* properties are found, and a put changes one of them.
ObjectsKept == [](TreeSound /\ PropsFound /\ NextIsNext) /\ OthersKept
=============================================================================
