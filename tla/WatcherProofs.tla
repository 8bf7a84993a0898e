---------------------------- MODULE WatcherProofs ----------------------------
(***************************************************************************)
(* The proxy keeps its streams sound and passes on what it reads, for any    *)
(* number of streams, size of buffers and sockets, and bytes.                *)
(***************************************************************************)
EXTENDS Watcher, FunctionTheorems, FiniteSetTheorems, SequenceTheorems, WellFoundedInduction, TLAPS

-----------------------------------------------------------------------------
(* The list of the fdevents that are due.                                   *)

LEMMA HalvesOf ==
    ASSUME NEW S, NEW q \in Seq(S), NEW m \in 0..Len(q)
    PROVE  /\ SubSeq(q, 1, m) \in Seq(S) /\ Len(SubSeq(q, 1, m)) = m
           /\ \A j \in 1..m : SubSeq(q, 1, m)[j] = q[j]
           /\ SubSeq(q, m + 1, Len(q)) \in Seq(S) /\ Len(SubSeq(q, m + 1, Len(q))) = Len(q) - m
           /\ \A j \in 1..(Len(q) - m) : SubSeq(q, m + 1, Len(q))[j] = q[m + j]
<1>. DEFINE n == Len(q)
            a == SubSeq(q, 1, m)
            lo == m + 1
            b == SubSeq(q, lo, n)
<1>1. n \in Nat /\ m \in Nat /\ m <= n /\ (\A k \in 1..n : q[k] \in S) /\ 1 \in Int
    OBVIOUS
<1>. HIDE DEF n
<1>2. lo \in Int /\ (lo <= n <=> m # n) /\ n - lo + 1 = n - m
      /\ (\A k \in lo..n : k \in 1..n) /\ (\A k \in 1..m : k \in 1..n)
    BY <1>1
<1>3. /\ a \in Seq(S) /\ Len(a) = (IF 1 <= m THEN m - 1 + 1 ELSE 0)
      /\ \A k \in 1..m - 1 + 1 : a[k] = q[1 + k - 1]
    BY <1>1, <1>2, SubSeqProperties
<1>. HIDE DEF lo
<1>4. /\ b \in Seq(S) /\ Len(b) = (IF lo <= n THEN n - lo + 1 ELSE 0)
      /\ \A k \in 1..n - lo + 1 : b[k] = q[lo + k - 1]
    BY <1>1, <1>2, SubSeqProperties
<1>. HIDE DEF a, b
<1>5. Len(a) = m /\ \A k \in 1..m : a[k] = q[k]
    BY <1>1, <1>3
<1>6. Len(b) = n - m /\ \A k \in 1..(n - m) : b[k] = q[m + k]
    <2>1. Len(b) = n - m
        BY <1>1, <1>2, <1>4
    <2>2. \A k \in 1..(n - m) : lo + k - 1 = m + k
        BY <1>1 DEF lo
    <2>. QED
        BY <1>2, <1>4, <2>1, <2>2
<1>. QED
    BY <1>3, <1>4, <1>5, <1>6 DEF a, b, n, lo

LEMMA RemovedAt ==
    ASSUME NEW S, NEW q \in Seq(S), NEW i \in 1..Len(q)
    PROVE  /\ RemoveAt(q, i) \in Seq(S) /\ Len(RemoveAt(q, i)) = Len(q) - 1
           /\ \A j \in 1..(Len(q) - 1) : RemoveAt(q, i)[j] = IF j < i THEN q[j] ELSE q[j + 1]
<1>. DEFINE a == SubSeq(q, 1, i - 1)
            b == SubSeq(q, i + 1, Len(q))
            lo == i - 1
            hi == Len(q) - i
<1>1. Len(q) \in Nat /\ lo \in Nat /\ hi \in Nat /\ i = lo + 1 /\ Len(q) = lo + 1 + hi
    OBVIOUS
<1>2. a \in Seq(S) /\ Len(a) = lo /\ \A j \in 1..lo : a[j] = q[j]
    BY HalvesOf
<1>3. b \in Seq(S) /\ Len(b) = hi /\ \A j \in 1..hi : b[j] = q[i + j]
    <2>1. i \in 0..Len(q)
        BY <1>1
    <2>. QED
        BY <2>1, HalvesOf
<1>4. RemoveAt(q, i) = a \o b
    BY DEF RemoveAt
<1>. HIDE DEF a, b, lo, hi
<1>5. /\ a \o b \in Seq(S) /\ Len(a \o b) = lo + hi
      /\ \A j \in 1..(lo + hi) : (a \o b)[j] = IF j <= lo THEN a[j] ELSE b[j - lo]
    BY <1>2, <1>3, ConcatProperties
<1>6. ASSUME NEW j \in 1..(lo + hi) PROVE (a \o b)[j] = IF j < i THEN q[j] ELSE q[j + 1]
    <2>1. CASE j <= lo
        <3>1. (a \o b)[j] = a[j] /\ j \in 1..lo /\ j < i
            BY <1>1, <1>5, <2>1
        <3>. QED
            BY <1>2, <3>1
    <2>2. CASE ~(j <= lo)
        <3>1. (a \o b)[j] = b[j - lo] /\ j - lo \in 1..hi /\ ~(j < i) /\ i + (j - lo) = j + 1
            BY <1>1, <1>5, <2>2
        <3>2. b[j - lo] = q[i + (j - lo)]
            BY <1>3, <3>1
        <3>. QED
            BY <3>1, <3>2
    <2>. QED
        BY <2>1, <2>2
<1>7. Len(q) - 1 = lo + hi
    BY <1>1
<1>. QED
    BY <1>4, <1>5, <1>6, <1>7

\* x is on the list q.
On(q, x) == \E i \in DOMAIN q : q[i] = x
Once(q) == \A i, j \in DOMAIN q : q[i] = q[j] => i = j

LEMMA WithoutIs ==
    ASSUME NEW S, NEW q \in Seq(S), Once(q), NEW x, On(q, x)
    PROVE  /\ Without(q, x) \in Seq(S) /\ Once(Without(q, x))
           /\ \A y : On(Without(q, x), y) <=> On(q, y) /\ y # x
<1>. DEFINE i == CHOOSE j \in DOMAIN q : q[j] = x
            r == RemoveAt(q, i)
<1>1. DOMAIN q = 1..Len(q) /\ Len(q) \in Nat
    OBVIOUS
<1>2. i \in 1..Len(q) /\ q[i] = x
    BY <1>1 DEF On
<1>3. Without(q, x) = r
    BY DEF Without
<1>. HIDE DEF i
<1>4. /\ r \in Seq(S) /\ Len(r) = Len(q) - 1
      /\ \A j \in 1..(Len(q) - 1) : r[j] = IF j < i THEN q[j] ELSE q[j + 1]
    BY <1>2, RemovedAt
<1>. HIDE DEF r
<1>5. DOMAIN r = 1..(Len(q) - 1)
    BY <1>1, <1>4
<1>6. \A j \in DOMAIN r : \E k \in DOMAIN q : r[j] = q[k] /\ k # i /\ k = IF j < i THEN j ELSE j + 1
    <2>. SUFFICES ASSUME NEW j \in DOMAIN r
                  PROVE \E k \in DOMAIN q : r[j] = q[k] /\ k # i /\ k = IF j < i THEN j ELSE j + 1
        OBVIOUS
    <2>1. j \in 1..(Len(q) - 1) /\ j \in 1..Len(q) /\ j + 1 \in 1..Len(q)
        BY <1>1, <1>5
    <2>2. CASE j < i
        BY <1>1, <1>2, <1>4, <2>1, <2>2
    <2>3. CASE ~(j < i)
        <3>1. r[j] = q[j + 1] /\ j + 1 # i
            BY <1>2, <1>4, <2>1, <2>3
        <3>. QED
            BY <1>1, <2>1, <2>3, <3>1
    <2>. QED
        BY <2>2, <2>3
<1>7. Once(r)
    <2>. SUFFICES ASSUME NEW j \in DOMAIN r, NEW l \in DOMAIN r, r[j] = r[l] PROVE j = l
        BY DEF Once
    <2>1. PICK k \in DOMAIN q : r[j] = q[k] /\ k # i /\ k = IF j < i THEN j ELSE j + 1
        BY <1>6
    <2>2. PICK m \in DOMAIN q : r[l] = q[m] /\ m # i /\ m = IF l < i THEN l ELSE l + 1
        BY <1>6
    <2>3. k = m
        BY <2>1, <2>2 DEF Once
    <2>4. j \in Int /\ l \in Int /\ i \in Int
        BY <1>1, <1>2, <1>5
    <2>. QED
        BY <2>1, <2>2, <2>3, <2>4
<1>8. ASSUME NEW y, On(r, y) PROVE On(q, y) /\ y # x
    <2>1. PICK j \in DOMAIN r : r[j] = y
        BY <1>8 DEF On
    <2>2. PICK k \in DOMAIN q : r[j] = q[k] /\ k # i
        BY <1>6
    <2>3. y # x
        BY <1>1, <1>2, <2>1, <2>2 DEF Once
    <2>. QED
        BY <2>1, <2>2, <2>3 DEF On
<1>9. ASSUME NEW y, On(q, y), y # x PROVE On(r, y)
    <2>1. PICK k \in DOMAIN q : q[k] = y
        BY <1>9 DEF On
    <2>2. k # i /\ k \in 1..Len(q)
        BY <1>1, <1>2, <1>9, <2>1
    <2>3. CASE k < i
        <3>1. k \in 1..(Len(q) - 1)
            BY <1>1, <1>2, <2>2, <2>3
        <3>. QED
            BY <1>4, <1>5, <2>1, <2>3, <3>1 DEF On
    <2>4. CASE k > i
        <3>. DEFINE m == k - 1
        <3>1. m \in 1..(Len(q) - 1) /\ ~(m < i) /\ m + 1 = k
            BY <1>1, <1>2, <2>2, <2>4
        <3>. HIDE DEF m
        <3>2. r[m] = q[m + 1]
            BY <1>4, <3>1
        <3>. QED
            BY <1>5, <2>1, <3>1, <3>2 DEF On
    <2>. QED
        BY <1>2, <2>2, <2>3, <2>4
<1>. QED
    BY <1>3, <1>4, <1>7, <1>8, <1>9

LEMMA ListedIs ==
    ASSUME NEW e
    PROVE  PendingListed(e) <=>
             /\ Once(e.plist)
             /\ \A x \in Fde : e.fde[x].pending <=> On(e.plist, x)
             /\ \A x \in Fde : e.fde[x].pending => e.fde[x].active /\ e.fde[x].events # {}
BY DEF PendingListed, Once, On

\* x is k from now on, and on the list only as long as k says so.
Put(e, x, k) ==
    [ fde   |-> [e.fde EXCEPT ![x] = k],
      plist |-> IF e.fde[x].pending /\ ~k.pending THEN Without(e.plist, x) ELSE e.plist ]

LEMMA PutIs ==
    ASSUME NEW e \in Dispatcher, PendingListed(e), NEW x \in Fde, NEW k \in FdeState,
           k.pending => e.fde[x].pending /\ k.active /\ k.events # {}
    PROVE  Put(e, x, k) \in Dispatcher /\ PendingListed(Put(e, x, k)) /\ Put(e, x, k).fde[x] = k
           /\ \A y \in Fde \ {x} : Put(e, x, k).fde[y] = e.fde[y]
<1>. DEFINE r == Put(e, x, k)
<1>0. /\ r.fde = [e.fde EXCEPT ![x] = k] /\ r = [fde |-> r.fde, plist |-> r.plist]
      /\ r.plist = IF e.fde[x].pending /\ ~k.pending THEN Without(e.plist, x) ELSE e.plist
    BY DEF Put
<1>. HIDE DEF r
<1>1. e.fde \in [Fde -> FdeState] /\ e.plist \in Seq(Fde)
    BY DEF Dispatcher
<1>2. /\ Once(e.plist)
      /\ \A y \in Fde : e.fde[y].pending <=> On(e.plist, y)
      /\ \A y \in Fde : e.fde[y].pending => e.fde[y].active /\ e.fde[y].events # {}
    BY ListedIs
<1>3. r.fde \in [Fde -> FdeState] /\ r.fde[x] = k /\ \A y \in Fde \ {x} : r.fde[y] = e.fde[y]
    BY <1>0, <1>1
<1>4. r.plist \in Seq(Fde) /\ Once(r.plist) /\ \A y \in Fde : On(r.plist, y) <=> r.fde[y].pending
    <2>1. CASE e.fde[x].pending /\ ~k.pending
        <3>1. On(e.plist, x) /\ r.plist = Without(e.plist, x)
            BY <1>0, <1>2, <2>1
        <3>2. /\ Without(e.plist, x) \in Seq(Fde) /\ Once(Without(e.plist, x))
              /\ \A y : On(Without(e.plist, x), y) <=> On(e.plist, y) /\ y # x
            BY <1>1, <1>2, <3>1, WithoutIs
        <3>. QED
            BY <1>2, <1>3, <2>1, <3>1, <3>2
    <2>2. CASE ~(e.fde[x].pending /\ ~k.pending)
        <3>1. r.plist = e.plist
            BY <1>0, <2>2
        <3>2. k.pending <=> e.fde[x].pending
            BY <2>2
        <3>. QED
            BY <1>1, <1>2, <1>3, <3>1, <3>2
    <2>. QED
        BY <2>1, <2>2
<1>5. r \in Dispatcher
    BY <1>0, <1>3, <1>4 DEF Dispatcher
<1>6. PendingListed(r)
    BY <1>2, <1>3, <1>4, ListedIs
<1>. QED
    BY <1>3, <1>5, <1>6 DEF r

LEMMA NoFdeIs ==
    /\ NoFde \in FdeState /\ ~NoFde.active /\ ~NoFde.pending /\ NoFde.wanted = {} /\ NoFde.events = {}
    /\ [NoFde EXCEPT !.active = TRUE] \in FdeState
    /\ [NoFde EXCEPT !.active = TRUE].active /\ ~[NoFde EXCEPT !.active = TRUE].pending
    /\ [NoFde EXCEPT !.active = TRUE].wanted = {} /\ [NoFde EXCEPT !.active = TRUE].events = {}
BY DEF NoFde, FdeState, Event

LEMMA FdeRemoveIs ==
    ASSUME NEW e \in Dispatcher, PendingListed(e), NEW x \in Fde
    PROVE  /\ FdeRemove(e, x) \in Dispatcher /\ PendingListed(FdeRemove(e, x))
           /\ FdeRemove(e, x).fde[x] = NoFde
           /\ \A y \in Fde \ {x} : FdeRemove(e, x).fde[y] = e.fde[y]
<1>. DEFINE r == FdeRemove(e, x)
            k == NoFde
<1>1. r = Put(e, x, k)
    BY NoFdeIs DEF FdeRemove, Put
<1>2. k \in FdeState /\ ~k.pending
    BY NoFdeIs
<1>. HIDE DEF r, k
<1>3. r \in Dispatcher /\ PendingListed(r) /\ r.fde[x] = k /\ \A y \in Fde \ {x} : r.fde[y] = e.fde[y]
    BY <1>1, <1>2, PutIs
<1>. QED
    BY <1>3 DEF r, k

LEMMA InstallIs ==
    ASSUME NEW e \in Dispatcher, PendingListed(e), NEW x \in Fde, ~e.fde[x].active
    PROVE  /\ Install(e, x) \in Dispatcher /\ PendingListed(Install(e, x))
           /\ Install(e, x).fde[x] = [NoFde EXCEPT !.active = TRUE]
           /\ \A y \in Fde \ {x} : Install(e, x).fde[y] = e.fde[y]
<1>. DEFINE r == Install(e, x)
            k == [NoFde EXCEPT !.active = TRUE]
<1>1. ~e.fde[x].pending
    BY ListedIs
<1>2. r = Put(e, x, k)
    <2>1. e = [fde |-> e.fde, plist |-> e.plist]
        BY DEF Dispatcher
    <2>2. r = [e EXCEPT !.fde = [e.fde EXCEPT ![x] = k]]
        BY DEF Install
    <2>. HIDE DEF k, r
    <2>. QED
        BY <1>1, <2>1, <2>2 DEF Put
<1>3. k \in FdeState /\ ~k.pending
    BY NoFdeIs
<1>. HIDE DEF r, k
<1>4. r \in Dispatcher /\ PendingListed(r) /\ r.fde[x] = k /\ \A y \in Fde \ {x} : r.fde[y] = e.fde[y]
    BY <1>1, <1>2, <1>3, PutIs
<1>. QED
    BY <1>4 DEF r, k

LEMMA FdeSetIs ==
    ASSUME NEW e \in Dispatcher, PendingListed(e), NEW x \in Fde, NEW wanted \in SUBSET Event
    PROVE  /\ FdeSet(e, x, wanted) \in Dispatcher /\ PendingListed(FdeSet(e, x, wanted))
           /\ FdeSet(e, x, wanted).fde[x].active = e.fde[x].active
           /\ FdeSet(e, x, wanted).fde[x].wanted = wanted
           /\ FdeSet(e, x, wanted).fde[x].events \subseteq e.fde[x].events
           /\ \A y \in Fde \ {x} : FdeSet(e, x, wanted).fde[y] = e.fde[y]
<1>. DEFINE r == FdeSet(e, x, wanted)
            o == e.fde[x]
            kept == o.events \ wanted
<1>1. o \in FdeState /\ e.fde \in [Fde -> FdeState] /\ e = [fde |-> e.fde, plist |-> e.plist]
    BY DEF Dispatcher
<1>2. o.pending => o.active /\ o.events # {}
    BY ListedIs
<1>3. CASE o.wanted = wanted
    <2>1. r = e
        BY <1>3 DEF FdeSet
    <2>. QED
        BY <1>3, <2>1
<1>4. CASE o.wanted # wanted /\ ~o.pending
    <2>. DEFINE k == [o EXCEPT !.wanted = wanted]
    <2>1. k \in FdeState /\ k.active = o.active /\ k.wanted = wanted /\ k.events = o.events /\ ~k.pending
        BY <1>1, <1>4 DEF FdeState
    <2>2. r = [e EXCEPT !.fde[x].wanted = wanted]
        BY <1>4 DEF FdeSet
    <2>3. r = [e EXCEPT !.fde = [e.fde EXCEPT ![x] = k]]
        BY <2>2
    <2>. HIDE DEF r, k
    <2>4. r = Put(e, x, k)
        BY <1>1, <1>4, <2>1, <2>3 DEF Put
    <2>5. r \in Dispatcher /\ PendingListed(r) /\ r.fde[x] = k /\ \A y \in Fde \ {x} : r.fde[y] = e.fde[y]
        BY <1>4, <2>1, <2>4, PutIs
    <2>. QED
        BY <2>1, <2>5 DEF r
<1>5. CASE o.wanted # wanted /\ o.pending
    <2>. DEFINE k == [o EXCEPT !.wanted = wanted, !.events = kept, !.pending = kept # {}]
    <2>1. k.active = o.active /\ k.wanted = wanted /\ k.events = kept /\ (k.pending <=> kept # {})
        BY <1>1 DEF FdeState
    <2>2. k \in FdeState
        <3>1. kept \in SUBSET Event /\ (kept # {}) \in BOOLEAN
            BY <1>1 DEF FdeState
        <3>. DEFINE pending == kept # {}
        <3>2. o.active \in BOOLEAN /\ pending \in BOOLEAN
            BY <1>1 DEF FdeState
        <3>. HIDE DEF kept, pending
        <3>3. [o EXCEPT !.wanted = wanted, !.events = kept, !.pending = pending] \in FdeState
            BY <1>1, <3>1, <3>2 DEF FdeState
        <3>. QED
            BY <3>3 DEF pending
    <2>3. r = [fde |-> [e.fde EXCEPT ![x] = k], plist |-> IF kept = {} THEN Without(e.plist, x) ELSE e.plist]
        BY <1>5 DEF FdeSet
    <2>4. kept \subseteq o.events
        OBVIOUS
    <2>. HIDE DEF r, k, kept
    <2>5. r = Put(e, x, k)
        BY <1>5, <2>1, <2>3 DEF Put
    <2>6. r \in Dispatcher /\ PendingListed(r) /\ r.fde[x] = k /\ \A y \in Fde \ {x} : r.fde[y] = e.fde[y]
        BY <1>2, <1>5, <2>1, <2>2, <2>5, PutIs
    <2>. QED
        BY <2>1, <2>4, <2>6 DEF r
<1>. QED
    BY <1>3, <1>4, <1>5

LEMMA DequeueIs ==
    ASSUME NEW e \in Dispatcher, PendingListed(e), e.plist # <<>>
    PROVE  /\ Head(e.plist) \in Fde /\ e.fde[Head(e.plist)].pending
           /\ Dequeue(e) \in Dispatcher /\ PendingListed(Dequeue(e))
           /\ Dequeue(e).fde[Head(e.plist)].active = e.fde[Head(e.plist)].active
           /\ Dequeue(e).fde[Head(e.plist)].wanted = e.fde[Head(e.plist)].wanted
           /\ Dequeue(e).fde[Head(e.plist)].events = {} /\ ~Dequeue(e).fde[Head(e.plist)].pending
           /\ \A y \in Fde \ {Head(e.plist)} : Dequeue(e).fde[y] = e.fde[y]
<1>. DEFINE q == e.plist
            h == Head(q)
            k == [e.fde[h] EXCEPT !.events = {}, !.pending = FALSE]
            r == Dequeue(e)
<1>1. q \in Seq(Fde) /\ e.fde \in [Fde -> FdeState] /\ q # <<>>
    BY DEF Dispatcher
<1>2. /\ Once(q)
      /\ \A y \in Fde : e.fde[y].pending <=> On(q, y)
      /\ \A y \in Fde : e.fde[y].pending => e.fde[y].active /\ e.fde[y].events # {}
    BY ListedIs
<1>3. r.fde = [e.fde EXCEPT ![h] = k] /\ r = [fde |-> r.fde, plist |-> r.plist] /\ r.plist = Tail(q)
    BY DEF Dequeue
<1>. HIDE DEF r, q
<1>4. /\ h \in Fde /\ h = q[1] /\ Len(q) \in Nat /\ 1 \in DOMAIN q /\ DOMAIN q = 1..Len(q)
      /\ Tail(q) \in Seq(Fde) /\ DOMAIN Tail(q) = 1..(Len(q) - 1)
      /\ \A j \in 1..(Len(q) - 1) : Tail(q)[j] = q[j + 1]
    BY <1>1
<1>5. On(q, h)
    BY <1>4 DEF On
<1>6. Once(Tail(q))
    <2>. SUFFICES ASSUME NEW i \in DOMAIN Tail(q), NEW j \in DOMAIN Tail(q), Tail(q)[i] = Tail(q)[j] PROVE i = j
        BY DEF Once
    <2>1. i + 1 \in DOMAIN q /\ j + 1 \in DOMAIN q /\ q[i + 1] = q[j + 1] /\ i \in Int /\ j \in Int
        BY <1>4
    <2>2. i + 1 = j + 1
        BY <1>2, <2>1 DEF Once
    <2>. QED
        BY <2>1, <2>2
<1>7. \A y : On(Tail(q), y) <=> On(q, y) /\ y # h
    <2>1. ASSUME NEW y, On(Tail(q), y) PROVE On(q, y) /\ y # h
        <3>1. PICK j \in 1..(Len(q) - 1) : Tail(q)[j] = y
            BY <1>4, <2>1 DEF On
        <3>2. j + 1 \in DOMAIN q /\ q[j + 1] = y /\ j + 1 # 1
            BY <1>4, <3>1
        <3>. QED
            BY <1>2, <1>4, <3>2 DEF On, Once
    <2>2. ASSUME NEW y, On(q, y), y # h PROVE On(Tail(q), y)
        <3>1. PICK i \in DOMAIN q : q[i] = y
            BY <2>2 DEF On
        <3>. DEFINE j == i - 1
        <3>2. j \in 1..(Len(q) - 1) /\ j + 1 = i
            BY <1>4, <2>2, <3>1
        <3>. HIDE DEF j
        <3>. QED
            BY <1>4, <3>1, <3>2 DEF On
    <2>. QED
        BY <2>1, <2>2
<1>8. e.fde[h] \in FdeState
    BY <1>1, <1>4
<1>9. k \in FdeState /\ k.active = e.fde[h].active /\ k.wanted = e.fde[h].wanted /\ k.events = {} /\ ~k.pending
    BY <1>8 DEF FdeState
<1>. HIDE DEF k, h
<1>10. r.fde[h] = k /\ r.fde \in [Fde -> FdeState] /\ \A y \in Fde \ {h} : r.fde[y] = e.fde[y]
    BY <1>1, <1>3, <1>4, <1>9
<1>11. r \in Dispatcher
    BY <1>3, <1>4, <1>10 DEF Dispatcher
<1>12. PendingListed(r)
    <2>1. \A y \in Fde : r.fde[y].pending <=> On(r.plist, y)
        BY <1>2, <1>3, <1>7, <1>9, <1>10
    <2>2. \A y \in Fde : r.fde[y].pending => r.fde[y].active /\ r.fde[y].events # {}
        BY <1>2, <1>9, <1>10
    <2>3. Once(r.plist)
        BY <1>3, <1>6
    <2>. QED
        BY <2>1, <2>2, <2>3, ListedIs
<1>13. e.fde[h].pending
    BY <1>2, <1>4, <1>5
<1>. QED
    BY <1>4, <1>9, <1>10, <1>11, <1>12, <1>13 DEF r, h, q

LEMMA OrdersAre ==
    ASSUME NEW S, IsFiniteSet(S), NEW q \in SetToSeqs(S)
    PROVE  q \in Seq(S) /\ Once(q) /\ \A y : On(q, y) <=> y \in S
<1>. DEFINE n == Cardinality(S)
            D == 1..n
<1>1. n \in Nat
    BY FS_CardinalityType
<1>2. q \in [D -> S] /\ \A i, j \in D : i # j => q[i] # q[j]
    BY DEF SetToSeqs
<1>3. q \in Seq(S)
    <2>. HIDE DEF n
    <2>. QED
        BY <1>1, <1>2, SeqDef
<1>4. Once(q)
    BY <1>2 DEF Once
<1>. DEFINE T == {q[i] : i \in D}
<1>5. T \subseteq S /\ Cardinality(T) = Cardinality(S)
    <2>. DEFINE one == 1
    <2>1. IsFiniteSet(one..n) /\ Cardinality(one..n) = IF one > n THEN 0 ELSE n - one + 1
        <3>. HIDE DEF n
        <3>. QED
            BY <1>1, FS_Interval
    <2>2. IsFiniteSet(D) /\ Cardinality(D) = n
        <3>. HIDE DEF n
        <3>. QED
            BY <1>1, <2>1
    <2>3. q \in [D -> T] /\ \A t \in T : \E i \in D : q[i] = t
        BY <1>2
    <2>. HIDE DEF T, n, D
    <2>4. q \in Bijection(D, T)
        BY <1>2, <2>3, Fun_IsBij
    <2>5. ExistsBijection(D, T)
        BY <2>4 DEF ExistsBijection
    <2>6. Cardinality(T) = n
        BY <2>2, <2>5, FS_Bijection
    <2>. QED
        BY <1>2, <2>6 DEF n, T
<1>6. T = S
    BY <1>5, FS_Subset
<1>. QED
    BY <1>2, <1>3, <1>4, <1>6 DEF On

\* The fdevents with something to report that are not due yet.
NotDue(e, ready) == {x \in {y \in Fde : ready[y] # {}} : ~e.fde[x].pending}

LEMMA ProcessIs ==
    ASSUME NEW e \in Dispatcher, PendingListed(e), e.plist = <<>>,
           NEW ready \in [Fde -> SUBSET Event], \A x \in Fde : ready[x] # {} => e.fde[x].active,
           NEW q \in SetToSeqs(NotDue(e, ready))
    PROVE  /\ Process(e, q, ready) \in Dispatcher /\ PendingListed(Process(e, q, ready))
           /\ \A x \in Fde : /\ Process(e, q, ready).fde[x].active = e.fde[x].active
                             /\ Process(e, q, ready).fde[x].wanted = e.fde[x].wanted
                             /\ Process(e, q, ready).fde[x].events = e.fde[x].events \cup ready[x]
                             /\ Process(e, q, ready).fde[x].pending <=> ready[x] # {}
<1>. DEFINE r == Process(e, q, ready)
            S == NotDue(e, ready)
<1>1. /\ \A y \in Fde : e.fde[y].pending <=> On(e.plist, y)
      /\ e.fde \in [Fde -> FdeState]
    BY ListedIs DEF Dispatcher
<1>2. \A y \in Fde : ~e.fde[y].pending
    BY <1>1 DEF On
<1>3. S = {y \in Fde : ready[y] # {}}
    BY <1>2 DEF NotDue
<1>4. IsFiniteSet(S)
    <2>1. IsFiniteSet(Fde)
        BY WatcherAssumption, FS_AddElement DEF Fde
    <2>. QED
        BY <1>3, <2>1, FS_Subset
<1>5. q \in Seq(S) /\ Once(q) /\ \A y : On(q, y) <=> y \in S
    BY <1>4, OrdersAre
<1>6. r.plist = q /\ r = [fde |-> r.fde, plist |-> r.plist] /\ q \in Seq(Fde)
    <2>1. q \in Seq(Fde)
        BY <1>3, <1>5
    <2>2. e.plist \o q = q
        BY <2>1
    <2>. QED
        BY <2>1, <2>2 DEF Process
<1>7. ASSUME NEW x \in Fde
      PROVE  /\ r.fde[x] \in FdeState
             /\ r.fde[x].active = e.fde[x].active /\ r.fde[x].wanted = e.fde[x].wanted
             /\ r.fde[x].events = e.fde[x].events \cup ready[x]
             /\ r.fde[x].pending <=> ready[x] # {}
    <2>1. e.fde[x] \in FdeState /\ ~e.fde[x].pending
        BY <1>1, <1>2
    <2>2. CASE ready[x] = {}
        <3>1. r.fde[x] = e.fde[x]
            BY <2>2 DEF Process
        <3>. QED
            BY <2>1, <2>2, <3>1
    <2>3. CASE ready[x] # {}
        <3>. DEFINE events == e.fde[x].events \cup ready[x]
        <3>1. r.fde[x] = [e.fde[x] EXCEPT !.events = events, !.pending = TRUE]
            BY <2>3 DEF Process
        <3>2. events \in SUBSET Event
            BY <2>1 DEF FdeState
        <3>. HIDE DEF events, r
        <3>. QED
            BY <2>1, <2>3, <3>1, <3>2 DEF FdeState, events
    <2>. QED
        BY <2>2, <2>3
<1>8. r.fde = [x \in Fde |-> r.fde[x]]
    BY DEF Process
<1>. HIDE DEF r, S
<1>9. r \in Dispatcher
    <2>1. r.fde \in [Fde -> FdeState]
        BY <1>7, <1>8
    <2>. QED
        BY <1>6, <2>1 DEF Dispatcher
<1>10. PendingListed(r)
    <2>1. \A y \in Fde : r.fde[y].pending <=> On(r.plist, y)
        BY <1>3, <1>5, <1>6, <1>7
    <2>2. \A y \in Fde : r.fde[y].pending => r.fde[y].active /\ r.fde[y].events # {}
        BY <1>7
    <2>. QED
        BY <1>5, <1>6, <2>1, <2>2, ListedIs
<1>. QED
    BY <1>7, <1>9, <1>10 DEF r

-----------------------------------------------------------------------------
(* What astream_io_cb works on.                                             *)

SockSet == [in : Seq(Nat), out : Seq(Nat), sent : Nat, got : Nat, eof : BOOLEAN, err : BOOLEAN]
Work == [d : Dispatcher, peer : [Stream -> Stream \cup {NULL}], buf : [Stream -> Seq(Nat)],
         sock : [Stream -> SockSet], cut : SUBSET Stream]

Up(w, s) == w.d.fde[s].active

\* The bytes from number from + 1 on.
Run(q, from) == \A i \in DOMAIN q : q[i] = from + i

Bounds(w) == \A s \in Stream : Len(w.buf[s]) <= BufSize /\ Len(w.sock[s].out) <= SockSize
Down(w) == \A s \in Stream : ~Up(w, s) => w.peer[s] = NULL /\ w.buf[s] = <<>> /\ w.sock[s] = NoSock
Pairs(w) == \A s \in Stream : w.peer[s] # NULL => /\ Up(w, s) /\ Up(w, w.peer[s])
                                                  /\ w.peer[w.peer[s]] = s /\ w.peer[s] # s

\* How many of the bytes for s left the buffer, and how many were read.
Put1(w, s) == w.sock[s].got + Len(w.sock[s].out)
Put2(w, s) == Put1(w, s) + Len(w.buf[s])

Passed(w, s) ==
    /\ Run(w.sock[s].out, w.sock[s].got) /\ Run(w.buf[s], Put1(w, s))
    /\ w.peer[s] # NULL => /\ Run(w.sock[w.peer[s]].in, Put2(w, s))
                           /\ Put2(w, s) + Len(w.sock[w.peer[s]].in) = w.sock[w.peer[s]].sent
Ordered(w) == \A s \in Stream : Passed(w, s)

Errors(w) == \A s \in Stream : "ERROR" \in w.d.fde[s].events => w.sock[s].err

\* What holds all through a callback; and between two.
Base(w) == w \in Work /\ PendingListed(w.d) /\ Bounds(w) /\ Down(w) /\ Pairs(w) /\ Ordered(w) /\ Errors(w)

Writes(w) == \A s \in Stream : w.buf[s] # <<>> /\ s \notin w.cut => "WRITE" \in w.d.fde[s].wanted
Reads(w) == \A s \in Stream : w.peer[s] # NULL /\ w.buf[w.peer[s]] = <<>> => "READ" \in w.d.fde[s].wanted

\* A stream without a peer, but for x, has a rest to write.
Fed(w, x) == \A s \in Stream : s # x /\ Up(w, s) /\ w.peer[s] = NULL => w.buf[s] # <<>>

LEMMA WorkIs ==
    ASSUME NEW w \in Work, NEW s \in Stream
    PROVE  /\ s \in Fde /\ w.d \in Dispatcher /\ w.d.fde[s] \in FdeState
           /\ w.peer[s] \in Stream \cup {NULL} /\ w.buf[s] \in Seq(Nat) /\ w.sock[s] \in SockSet
           /\ w.sock[s].in \in Seq(Nat) /\ w.sock[s].out \in Seq(Nat)
           /\ w.sock[s].sent \in Nat /\ w.sock[s].got \in Nat
           /\ w.sock[s].eof \in BOOLEAN /\ w.sock[s].err \in BOOLEAN
<1>1. w.d \in Dispatcher /\ w.peer[s] \in Stream \cup {NULL} /\ w.buf[s] \in Seq(Nat) /\ w.sock[s] \in SockSet
    BY DEF Work
<1>2. s \in Fde
    BY DEF Fde
<1>3. w.d.fde[s] \in FdeState
    BY <1>1, <1>2 DEF Dispatcher
<1>. QED
    BY <1>1, <1>2, <1>3 DEF SockSet

LEMMA NoSockIs == NoSock \in SockSet /\ NoSock.in = <<>> /\ NoSock.out = <<>> /\ NoSock.got = 0
                  /\ NoSock.sent = 0 /\ ~NoSock.err
BY DEF NoSock, SockSet

LEMMA RunNone == \A n : Run(<<>>, n)
BY DEF Run

LEMMA RunJoin ==
    ASSUME NEW q \in Seq(Nat), NEW r \in Seq(Nat), NEW n \in Nat, Run(q, n), Run(r, n + Len(q))
    PROVE  q \o r \in Seq(Nat) /\ Len(q \o r) = Len(q) + Len(r) /\ Run(q \o r, n)
<1>1. /\ q \o r \in Seq(Nat) /\ Len(q \o r) = Len(q) + Len(r)
      /\ \A i \in 1..(Len(q) + Len(r)) : (q \o r)[i] = IF i <= Len(q) THEN q[i] ELSE r[i - Len(q)]
    BY ConcatProperties
<1>2. Len(q) \in Nat /\ Len(r) \in Nat /\ DOMAIN q = 1..Len(q) /\ DOMAIN r = 1..Len(r)
      /\ DOMAIN (q \o r) = 1..Len(q \o r)
    BY <1>1
<1>3. ASSUME NEW i \in 1..(Len(q) + Len(r)) PROVE (q \o r)[i] = n + i
    <2>1. CASE i <= Len(q)
        <3>1. i \in DOMAIN q /\ (q \o r)[i] = q[i]
            BY <1>1, <1>2, <2>1
        <3>. QED
            BY <3>1 DEF Run
    <2>2. CASE ~(i <= Len(q))
        <3>1. i - Len(q) \in DOMAIN r /\ (q \o r)[i] = r[i - Len(q)]
            BY <1>1, <1>2, <2>2
        <3>2. r[i - Len(q)] = n + Len(q) + (i - Len(q))
            BY <3>1 DEF Run
        <3>3. n + Len(q) + (i - Len(q)) = n + i
            BY <1>2
        <3>. QED
            BY <3>1, <3>2, <3>3
    <2>. QED
        BY <2>1, <2>2
<1>. QED
    BY <1>1, <1>2, <1>3 DEF Run

LEMMA RunCut ==
    ASSUME NEW q \in Seq(Nat), NEW n \in Nat, Run(q, n), NEW m \in 0..Len(q)
    PROVE  /\ SubSeq(q, 1, m) \in Seq(Nat) /\ Len(SubSeq(q, 1, m)) = m /\ Run(SubSeq(q, 1, m), n)
           /\ SubSeq(q, m + 1, Len(q)) \in Seq(Nat) /\ Len(SubSeq(q, m + 1, Len(q))) = Len(q) - m
           /\ Run(SubSeq(q, m + 1, Len(q)), n + m)
<1>. DEFINE a == SubSeq(q, 1, m)
            b == SubSeq(q, m + 1, Len(q))
<1>1. Len(q) \in Nat /\ m \in Nat /\ m <= Len(q) /\ DOMAIN q = 1..Len(q)
    OBVIOUS
<1>2. a \in Seq(Nat) /\ Len(a) = m /\ \A j \in 1..m : a[j] = q[j]
    BY HalvesOf
<1>3. b \in Seq(Nat) /\ Len(b) = Len(q) - m /\ \A j \in 1..(Len(q) - m) : b[j] = q[m + j]
    BY HalvesOf
<1>. HIDE DEF a, b
<1>4. Run(a, n)
    <2>1. DOMAIN a = 1..m /\ \A j \in 1..m : j \in DOMAIN q
        BY <1>1, <1>2
    <2>. QED
        BY <1>2, <2>1 DEF Run
<1>5. Run(b, n + m)
    <2>1. DOMAIN b = 1..(Len(q) - m) /\ \A j \in 1..(Len(q) - m) : m + j \in DOMAIN q /\ n + (m + j) = n + m + j
        BY <1>1, <1>3
    <2>. QED
        BY <1>3, <2>1 DEF Run
<1>. QED
    BY <1>2, <1>3, <1>4, <1>5 DEF a, b

-----------------------------------------------------------------------------
(* fdevent_add and fdevent_del, of a stream.                                *)

\* e has the same fdevents as w, and errors only for sockets that broke off.
Alike(e, w) ==
    \A s \in Stream : /\ e.fde[s].active = w.d.fde[s].active
                      /\ "ERROR" \in e.fde[s].events => w.sock[s].err

SetD(w, e) == [w EXCEPT !.d = e]

LEMMA NewD ==
    ASSUME NEW w, Base(w), NEW e \in Dispatcher, PendingListed(e), Alike(e, w)
    PROVE  /\ Base(SetD(w, e)) /\ SetD(w, e).d = e /\ SetD(w, e).peer = w.peer /\ SetD(w, e).buf = w.buf
           /\ SetD(w, e).sock = w.sock /\ SetD(w, e).cut = w.cut
<1>. DEFINE v == SetD(w, e)
<1>1. w \in Work
    BY DEF Base
<1>2. v \in Work /\ v.d = e /\ v.peer = w.peer /\ v.buf = w.buf /\ v.sock = w.sock /\ v.cut = w.cut
    BY <1>1 DEF Work, SetD
<1>. HIDE DEF v
<1>3. \A s \in Stream : Up(v, s) = Up(w, s)
    BY <1>2 DEF Up, Alike
<1>4. Bounds(v)
    BY <1>2 DEF Base, Bounds
<1>5. Down(v)
    BY <1>2, <1>3 DEF Base, Down
<1>6. Pairs(v)
    <2>1. \A s \in Stream : w.peer[s] # NULL => w.peer[s] \in Stream
        BY <1>1, WorkIs
    <2>. QED
        BY <1>2, <1>3, <2>1 DEF Base, Pairs
<1>7. Ordered(v)
    BY <1>2 DEF Base, Ordered, Passed, Put1, Put2
<1>8. Errors(v)
    BY <1>2 DEF Errors, Alike
<1>9. Base(v)
    BY <1>2, <1>4, <1>5, <1>6, <1>7, <1>8 DEF Base
<1>. QED
    BY <1>2, <1>9 DEF v

\* What stays when one stream is watched for something else.
Rewatched(w, v, s, wanted) ==
    /\ Base(v) /\ v.peer = w.peer /\ v.buf = w.buf /\ v.sock = w.sock /\ v.cut = w.cut
    /\ v.d.fde[s].wanted = wanted /\ \A y \in Fde \ {s} : v.d.fde[y] = w.d.fde[y]
    /\ \A y \in Stream : Up(v, y) = Up(w, y)

LEMMA WatchIs ==
    ASSUME NEW w, Base(w), NEW s \in Stream, NEW event \in Event
    PROVE  /\ Rewatched(w, Watch(w, s, event), s, w.d.fde[s].wanted \cup {event})
           /\ Rewatched(w, Unwatch(w, s, event), s, w.d.fde[s].wanted \ {event})
<1>1. w \in Work /\ PendingListed(w.d) /\ w.d \in Dispatcher /\ s \in Fde /\ w.d.fde[s].wanted \in SUBSET Event
    BY WorkIs DEF Base, FdeState
<1>2. ASSUME NEW wanted \in SUBSET Event PROVE Rewatched(w, SetD(w, FdeSet(w.d, s, wanted)), s, wanted)
    <2>. DEFINE e == FdeSet(w.d, s, wanted)
    <2>1. /\ e \in Dispatcher /\ PendingListed(e) /\ e.fde[s].active = w.d.fde[s].active
          /\ e.fde[s].wanted = wanted /\ e.fde[s].events \subseteq w.d.fde[s].events
          /\ \A y \in Fde \ {s} : e.fde[y] = w.d.fde[y]
        BY <1>1, FdeSetIs
    <2>. HIDE DEF e
    <2>2. Alike(e, w)
        BY <2>1 DEF Alike, Fde, Base, Errors
    <2>3. /\ Base(SetD(w, e)) /\ SetD(w, e).d = e /\ SetD(w, e).peer = w.peer /\ SetD(w, e).buf = w.buf
          /\ SetD(w, e).sock = w.sock /\ SetD(w, e).cut = w.cut
        BY <2>1, <2>2, NewD
    <2>4. \A y \in Stream : Up(SetD(w, e), y) = Up(w, y)
        BY <2>2, <2>3 DEF Up, Alike
    <2>. QED
        BY <2>1, <2>3, <2>4 DEF Rewatched, e
<1>3. Watch(w, s, event) = SetD(w, FdeSet(w.d, s, w.d.fde[s].wanted \cup {event}))
    BY DEF Watch, FdeAdd, SetD
<1>4. Unwatch(w, s, event) = SetD(w, FdeSet(w.d, s, w.d.fde[s].wanted \ {event}))
    BY DEF Unwatch, FdeDel, SetD
<1>. QED
    BY <1>1, <1>2, <1>3, <1>4

-----------------------------------------------------------------------------
(* What read and write move.                                                *)

LEMMA MinIs ==
    ASSUME NEW a \in Int, NEW b \in Int
    PROVE  Min({a, b}) = IF a <= b THEN a ELSE b
<1>1. \E x \in {a, b} : \A y \in {a, b} : x <= y
    BY SMT
<1>2. Min({a, b}) \in {a, b} /\ \A y \in {a, b} : Min({a, b}) <= y
    BY <1>1 DEF Min
<1>. QED
    BY <1>2

\* The sockets of v are those of w but for what is in the queues.
SameEnds(w, v) ==
    \A y \in Stream : /\ v.sock[y].eof = w.sock[y].eof /\ v.sock[y].err = w.sock[y].err
                      /\ v.sock[y].sent = w.sock[y].sent /\ v.sock[y].got = w.sock[y].got

LEMMA FillIs ==
    ASSUME NEW w, Base(w), NEW s \in Stream, NEW p \in Stream, w.peer[s] = p, w.buf[p] = <<>>
    PROVE  /\ Base(Fill(w, s, p)) /\ SameEnds(w, Fill(w, s, p)) /\ Fill(w, s, p).d = w.d
           /\ Fill(w, s, p).peer = w.peer /\ Fill(w, s, p).cut = w.cut
           /\ \A y \in Stream : Fill(w, s, p).sock[y].out = w.sock[y].out
           /\ \A y \in Stream \ {p} : Fill(w, s, p).buf[y] = w.buf[y]
           /\ Len(w.sock[s].in) = 0 => Fill(w, s, p).buf[p] = <<>>
<1>. DEFINE v == Fill(w, s, p)
            in == w.sock[s].in
            n == Min({Len(in), BufSize})
            a == SubSeq(in, 1, n)
            b == SubSeq(in, n + 1, Len(in))
            k == [w.sock[s] EXCEPT !.in = b]
<1>1. w \in Work /\ NULL \notin Stream /\ BufSize \in Nat
    BY WatcherAssumption DEF Base
<1>2. Up(w, s) /\ Up(w, p) /\ w.peer[p] = s /\ p # s
    BY <1>1 DEF Base, Pairs
<1>3. in \in Seq(Nat) /\ w.sock[s] \in SockSet
    BY <1>1, WorkIs
<1>4. n \in 0..Len(in) /\ n <= BufSize /\ (Len(in) = 0 => n = 0)
    <2>1. Len(in) \in Nat
        BY <1>3
    <2>2. n = IF Len(in) <= BufSize THEN Len(in) ELSE BufSize
        BY <1>1, <2>1, MinIs
    <2>. QED
        BY <1>1, <2>1, <2>2
<1>5. /\ w.sock[p].got \in Nat /\ w.sock[p].out \in Seq(Nat)
      /\ Run(w.sock[p].out, w.sock[p].got)
      /\ Put1(w, p) \in Nat /\ Run(in, Put1(w, p)) /\ Put1(w, p) + Len(in) = w.sock[s].sent
    <2>1. w.sock[p].got \in Nat /\ w.sock[p].out \in Seq(Nat)
        BY <1>1, WorkIs
    <2>2. Passed(w, p) /\ Put1(w, p) \in Nat
        BY <2>1 DEF Base, Ordered, Put1
    <2>3. Put2(w, p) = Put1(w, p)
        BY <2>2 DEF Put2
    <2>. QED
        BY <1>1, <1>2, <2>1, <2>2, <2>3 DEF Passed
<1>. HIDE DEF n, in
<1>6. /\ a \in Seq(Nat) /\ Len(a) = n /\ Run(a, Put1(w, p))
      /\ b \in Seq(Nat) /\ Len(b) = Len(in) - n /\ Run(b, Put1(w, p) + n)
    BY <1>3, <1>4, <1>5, RunCut
<1>7. w.buf[p] \o a = a
    BY <1>6
<1>. HIDE DEF a, b
<1>8. k \in SockSet /\ k.in = b /\ k.out = w.sock[s].out /\ k.got = w.sock[s].got /\ k.sent = w.sock[s].sent
      /\ k.eof = w.sock[s].eof /\ k.err = w.sock[s].err
    BY <1>3, <1>6 DEF SockSet
<1>9. /\ v.d = w.d /\ v.peer = w.peer /\ v.cut = w.cut
      /\ v.buf = [w.buf EXCEPT ![p] = a] /\ v.sock = [w.sock EXCEPT ![s] = k]
      /\ v = [d |-> w.d, peer |-> w.peer, buf |-> v.buf, sock |-> v.sock, cut |-> w.cut]
    <2>1. v = [w EXCEPT !.buf = [w.buf EXCEPT ![p] = w.buf[p] \o a],
                        !.sock = [w.sock EXCEPT ![s] = k]]
        BY DEF Fill, a, b, n, in
    <2>. HIDE DEF k, v
    <2>. QED
        BY <1>1, <1>7, <2>1 DEF Work
<1>. HIDE DEF k, v
<1>10. /\ v.buf[p] = a /\ v.sock[s] = k
       /\ \A y \in Stream \ {p} : v.buf[y] = w.buf[y]
       /\ \A y \in Stream \ {s} : v.sock[y] = w.sock[y]
    BY <1>1, <1>9 DEF Work
<1>11. v \in Work
    <2>1. v.buf \in [Stream -> Seq(Nat)] /\ v.sock \in [Stream -> SockSet]
        BY <1>1, <1>6, <1>8, <1>9 DEF Work
    <2>. QED
        BY <1>1, <1>9, <2>1 DEF Work
<1>12. SameEnds(w, v) /\ \A y \in Stream : v.sock[y].out = w.sock[y].out
    BY <1>8, <1>10 DEF SameEnds
<1>13. \A y \in Stream : Up(v, y) = Up(w, y)
    BY <1>9 DEF Up
<1>14. Bounds(v)
    <2>1. \A y \in Stream \ {p} : Len(v.buf[y]) <= BufSize
        BY <1>10 DEF Base, Bounds
    <2>2. Len(v.buf[p]) <= BufSize
        BY <1>4, <1>6, <1>10
    <2>. QED
        BY <1>12, <2>1, <2>2 DEF Base, Bounds
<1>15. Down(v)
    BY <1>2, <1>9, <1>10, <1>13 DEF Base, Down
<1>16. Pairs(v)
    <2>1. \A y \in Stream : w.peer[y] # NULL => w.peer[y] \in Stream
        BY <1>1, WorkIs
    <2>. QED
        BY <1>9, <1>13, <2>1 DEF Base, Pairs
<1>17. Ordered(v)
    <2>1. \A y \in Stream : Put1(v, y) = Put1(w, y)
        BY <1>12 DEF Put1, SameEnds
    <2>2. ASSUME NEW y \in Stream \ {p} PROVE Passed(v, y)
        <3>1. Passed(w, y) /\ v.buf[y] = w.buf[y] /\ v.peer[y] = w.peer[y]
            BY <1>9, <1>10 DEF Base, Ordered
        <3>2. v.sock[y].out = w.sock[y].out /\ v.sock[y].got = w.sock[y].got
            BY <1>12 DEF SameEnds
        <3>3. Put2(v, y) = Put2(w, y)
            BY <2>1, <3>1 DEF Put2
        <3>4. w.peer[y] # NULL => w.peer[y] \in Stream \ {s}
            BY <1>1, <1>2, WorkIs DEF Base, Pairs
        <3>5. w.peer[y] # NULL => v.sock[w.peer[y]] = w.sock[w.peer[y]]
            BY <1>10, <3>4
        <3>. QED
            BY <2>1, <3>1, <3>2, <3>3, <3>5 DEF Passed
    <2>3. Passed(v, p)
        <3>1. Put2(v, p) = Put1(w, p) + n
            BY <1>6, <1>10, <2>1 DEF Put2
        <3>2. Put1(w, p) + n + Len(b) = w.sock[s].sent
            BY <1>3, <1>4, <1>5, <1>6
        <3>3. v.peer[p] = s /\ v.sock[s].in = b /\ v.sock[s].sent = w.sock[s].sent
            BY <1>2, <1>8, <1>9, <1>10
        <3>4. v.sock[p].out = w.sock[p].out /\ v.sock[p].got = w.sock[p].got
            BY <1>12 DEF SameEnds
        <3>. QED
            BY <1>5, <1>6, <1>10, <2>1, <3>1, <3>2, <3>3, <3>4 DEF Passed
    <2>. QED
        BY <2>2, <2>3 DEF Ordered
<1>18. Errors(v)
    BY <1>9, <1>12 DEF Base, Errors, SameEnds
<1>19. Base(v)
    BY <1>9, <1>11, <1>14, <1>15, <1>16, <1>17, <1>18 DEF Base
<1>20. Len(in) = 0 => v.buf[p] = <<>>
    BY <1>4, <1>6, <1>10
<1>. QED
    BY <1>9, <1>10, <1>12, <1>19, <1>20 DEF v, in

LEMMA DrainIs ==
    ASSUME NEW w, Base(w), NEW s \in Stream, Up(w, s)
    PROVE  /\ Base(Drain(w, s)) /\ SameEnds(w, Drain(w, s)) /\ Drain(w, s).d = w.d
           /\ Drain(w, s).peer = w.peer /\ Drain(w, s).cut = w.cut
           /\ \A y \in Stream \ {s} : Drain(w, s).buf[y] = w.buf[y] /\ Drain(w, s).sock[y] = w.sock[y]
           /\ Len(Drain(w, s).buf[s]) + Len(Drain(w, s).sock[s].out) = Len(w.buf[s]) + Len(w.sock[s].out)
<1>. DEFINE v == Drain(w, s)
            q == w.buf[s]
            room == SockSize - Len(w.sock[s].out)
            n == Min({Len(q), room})
            a == SubSeq(q, 1, n)
            b == SubSeq(q, n + 1, Len(q))
            o == w.sock[s].out \o a
            k == [w.sock[s] EXCEPT !.out = o]
<1>1. w \in Work /\ NULL \notin Stream /\ SockSize \in Nat
    BY WatcherAssumption DEF Base
<1>2. q \in Seq(Nat) /\ w.sock[s] \in SockSet /\ w.sock[s].out \in Seq(Nat) /\ w.sock[s].got \in Nat
    BY <1>1, WorkIs
<1>3. room \in Nat
    BY <1>1, <1>2 DEF Base, Bounds
<1>. HIDE DEF room, q
<1>4. n \in 0..Len(q) /\ n <= room
    <2>1. Len(q) \in Nat
        BY <1>2
    <2>2. n = IF Len(q) <= room THEN Len(q) ELSE room
        BY <1>3, <2>1, MinIs
    <2>. QED
        BY <1>3, <2>1, <2>2
<1>. HIDE DEF n
<1>5. Passed(w, s) /\ Put1(w, s) \in Nat
    BY <1>2 DEF Base, Ordered, Put1
<1>6. /\ a \in Seq(Nat) /\ Len(a) = n /\ Run(a, Put1(w, s))
      /\ b \in Seq(Nat) /\ Len(b) = Len(q) - n /\ Run(b, Put1(w, s) + n)
    BY <1>2, <1>4, <1>5, RunCut DEF Passed, q
<1>. HIDE DEF a, b
<1>7. o \in Seq(Nat) /\ Len(o) = Len(w.sock[s].out) + n /\ Run(o, w.sock[s].got)
    <2>1. Run(w.sock[s].out, w.sock[s].got) /\ Run(a, w.sock[s].got + Len(w.sock[s].out))
        BY <1>5, <1>6 DEF Passed, Put1
    <2>. QED
        BY <1>2, <1>6, <2>1, RunJoin
<1>. HIDE DEF o
<1>8. k \in SockSet /\ k.out = o /\ k.in = w.sock[s].in /\ k.got = w.sock[s].got /\ k.sent = w.sock[s].sent
      /\ k.eof = w.sock[s].eof /\ k.err = w.sock[s].err
    BY <1>2, <1>7 DEF SockSet
<1>9. /\ v.d = w.d /\ v.peer = w.peer /\ v.cut = w.cut
      /\ v.buf = [w.buf EXCEPT ![s] = b] /\ v.sock = [w.sock EXCEPT ![s] = k]
      /\ v = [d |-> w.d, peer |-> w.peer, buf |-> v.buf, sock |-> v.sock, cut |-> w.cut]
    <2>1. v = [w EXCEPT !.buf = [w.buf EXCEPT ![s] = b], !.sock = [w.sock EXCEPT ![s] = k]]
        BY DEF Drain, a, b, n, q, room, o
    <2>. HIDE DEF k, v
    <2>. QED
        BY <1>1, <2>1 DEF Work
<1>. HIDE DEF k, v
<1>10. /\ v.buf[s] = b /\ v.sock[s] = k
       /\ \A y \in Stream \ {s} : v.buf[y] = w.buf[y] /\ v.sock[y] = w.sock[y]
    BY <1>1, <1>9 DEF Work
<1>11. v \in Work
    <2>1. v.buf \in [Stream -> Seq(Nat)] /\ v.sock \in [Stream -> SockSet]
        BY <1>1, <1>6, <1>8, <1>9 DEF Work
    <2>. QED
        BY <1>1, <1>9, <2>1 DEF Work
<1>12. SameEnds(w, v) /\ \A y \in Stream : v.sock[y].in = w.sock[y].in
    BY <1>8, <1>10 DEF SameEnds
<1>13. \A y \in Stream : Up(v, y) = Up(w, y)
    BY <1>9 DEF Up
<1>14. Len(q) \in Nat /\ Len(w.sock[s].out) \in Nat /\ Len(q) <= BufSize /\ BufSize \in Nat
    BY <1>2, WatcherAssumption DEF Base, Bounds, q
<1>15. Bounds(v)
    <2>1. \A y \in Stream \ {s} : Len(v.buf[y]) <= BufSize /\ Len(v.sock[y].out) <= SockSize
        BY <1>10 DEF Base, Bounds
    <2>2. Len(b) <= BufSize
        BY <1>4, <1>6, <1>14
    <2>3. Len(o) <= SockSize
        BY <1>1, <1>4, <1>7, <1>14 DEF room
    <2>. QED
        BY <1>8, <1>10, <2>1, <2>2, <2>3 DEF Bounds
<1>16. Down(v)
    BY <1>9, <1>10, <1>13 DEF Base, Down
<1>17. Pairs(v)
    <2>1. \A y \in Stream : w.peer[y] # NULL => w.peer[y] \in Stream
        BY <1>1, WorkIs
    <2>. QED
        BY <1>9, <1>13, <2>1 DEF Base, Pairs
<1>18. Put1(v, s) = Put1(w, s) + n /\ Put2(v, s) = Put2(w, s)
    <2>1. v.sock[s].got = w.sock[s].got /\ v.sock[s].out = o /\ v.buf[s] = b
        BY <1>8, <1>10
    <2>2. Put1(v, s) = Put1(w, s) + n
        <3>1. Put1(v, s) = w.sock[s].got + (Len(w.sock[s].out) + n)
            BY <1>7, <2>1 DEF Put1
        <3>. DEFINE g == w.sock[s].got
                    m == Len(w.sock[s].out)
        <3>2. g \in Nat /\ m \in Nat /\ n \in Nat
            BY <1>2, <1>4, <1>14
        <3>. HIDE DEF g, m
        <3>3. g + (m + n) = g + m + n
            BY <3>2
        <3>. QED
            BY <3>1, <3>3 DEF Put1, g, m
    <2>3. Put2(w, s) = Put1(w, s) + Len(q)
        BY DEF Put2, q
    <2>4. Put2(v, s) = Put1(w, s) + n + Len(b)
        BY <2>1, <2>2 DEF Put2
    <2>. QED
        BY <1>4, <1>5, <1>6, <1>14, <2>2, <2>3, <2>4
<1>19. Ordered(v)
    <2>1. ASSUME NEW y \in Stream PROVE w.peer[y] # NULL => /\ v.sock[w.peer[y]].in = w.sock[w.peer[y]].in
                                                            /\ v.sock[w.peer[y]].sent = w.sock[w.peer[y]].sent
        <3>1. w.peer[y] # NULL => w.peer[y] \in Stream
            BY <1>1, WorkIs
        <3>. QED
            BY <1>12, <3>1 DEF SameEnds
    <2>2. ASSUME NEW y \in Stream \ {s} PROVE Passed(v, y)
        <3>1. Passed(w, y) /\ v.buf[y] = w.buf[y] /\ v.peer[y] = w.peer[y] /\ v.sock[y] = w.sock[y]
            BY <1>9, <1>10 DEF Base, Ordered
        <3>2. Put1(v, y) = Put1(w, y) /\ Put2(v, y) = Put2(w, y)
            BY <3>1 DEF Put1, Put2
        <3>. QED
            BY <2>1, <3>1, <3>2 DEF Passed
    <2>3. Passed(v, s)
        BY <1>5, <1>6, <1>7, <1>8, <1>9, <1>10, <1>18, <2>1 DEF Passed
    <2>. QED
        BY <2>2, <2>3 DEF Ordered
<1>20. Errors(v)
    BY <1>9, <1>12 DEF Base, Errors, SameEnds
<1>21. Base(v)
    BY <1>9, <1>11, <1>15, <1>16, <1>17, <1>19, <1>20 DEF Base
<1>22. Len(v.buf[s]) + Len(v.sock[s].out) = Len(w.buf[s]) + Len(w.sock[s].out)
    <2>1. Len(b) + Len(o) = Len(q) + Len(w.sock[s].out)
        BY <1>4, <1>6, <1>7, <1>14
    <2>. QED
        BY <1>8, <1>10, <2>1 DEF q
<1>. QED
    BY <1>9, <1>10, <1>12, <1>21, <1>22 DEF v

-----------------------------------------------------------------------------
(* astream_destroy.                                                         *)

\* p is NULL, or the peer of s with nothing to write.
LEMMA DropIs ==
    ASSUME NEW w, Base(w), Writes(w), Reads(w), NEW s \in Stream, Up(w, s), Fed(w, s),
           NEW p \in {NULL, w.peer[s]}, p # NULL => w.buf[p] = <<>>,
           p = NULL /\ w.peer[s] # NULL => w.buf[w.peer[s]] # <<>>
    PROVE  /\ Base(Drop(w, s, p)) /\ Writes(Drop(w, s, p)) /\ Reads(Drop(w, s, p)) /\ Fed(Drop(w, s, p), NULL)
           /\ \A y \in Stream : Up(Drop(w, s, p), y) <=> Up(w, y) /\ y # s /\ y # p
           /\ Drop(w, s, p).d.fde[Listener] = w.d.fde[Listener]
<1>. DEFINE v == Drop(w, s, p)
            z == w.peer[s]
            e1 == IF p = NULL THEN w.d ELSE FdeRemove(w.d, p)
            e == FdeRemove(e1, s)
<1>1. w \in Work /\ NULL \notin Stream /\ w.d \in Dispatcher /\ PendingListed(w.d)
      /\ \A y \in Stream : y \in Fde /\ y # Listener
    BY WatcherAssumption DEF Base, Work, Fde
<1>2. z \in Stream \cup {NULL} /\ (z # NULL => w.peer[z] = s /\ z # s /\ Up(w, z)) /\ (p # NULL => p = z)
    BY <1>1, WorkIs DEF Base, Pairs
<1>3. /\ e1 \in Dispatcher /\ PendingListed(e1)
      /\ p # NULL => e1.fde[p] = NoFde
      /\ \A y \in Fde : y # p => e1.fde[y] = w.d.fde[y]
    <2>1. CASE p = NULL
        BY <1>1, <2>1
    <2>2. CASE p # NULL
        <3>1. p \in Fde
            BY <1>1, <1>2, <2>2
        <3>. QED
            BY <1>1, <2>2, <3>1, FdeRemoveIs
    <2>. QED
        BY <2>1, <2>2
<1>. HIDE DEF e1
<1>4. /\ e \in Dispatcher /\ PendingListed(e) /\ e.fde[s] = NoFde /\ \A y \in Fde \ {s} : e.fde[y] = e1.fde[y]
    BY <1>1, <1>3, FdeRemoveIs
<1>5. /\ v.d = e
      /\ v.peer = [x \in Stream |-> IF x \in {s, p, z} THEN NULL ELSE w.peer[x]]
      /\ v.buf = [x \in Stream |-> IF x \in {s, p} THEN <<>> ELSE w.buf[x]]
      /\ v.sock = [x \in Stream |-> IF x \in {s, p} THEN NoSock ELSE w.sock[x]]
      /\ v.cut = w.cut \ {s, p}
      /\ v = [d |-> v.d, peer |-> v.peer, buf |-> v.buf, sock |-> v.sock, cut |-> v.cut]
    BY DEF Drop, e1
<1>. HIDE DEF v, e
<1>6. /\ \A y \in Stream : y \in {s, p} => e.fde[y] = NoFde
      /\ \A y \in Fde : y \notin {s, p} => e.fde[y] = w.d.fde[y]
    BY <1>1, <1>2, <1>3, <1>4
<1>7. /\ \A y \in Stream : y \in {s, p} => v.buf[y] = <<>> /\ v.sock[y] = NoSock /\ v.peer[y] = NULL /\ ~Up(v, y)
      /\ \A y \in Stream : y \notin {s, p} => v.buf[y] = w.buf[y] /\ v.sock[y] = w.sock[y] /\ Up(v, y) = Up(w, y)
      /\ \A y \in Stream : y \notin {s, z} => v.peer[y] = w.peer[y]
      /\ \A y \in Stream : y \in {s, z} => v.peer[y] = NULL
    BY <1>1, <1>2, <1>5, <1>6, NoFdeIs DEF Up
<1>8. ASSUME NEW y \in Stream, v.peer[y] # NULL
      PROVE  /\ y \notin {s, p} /\ v.peer[y] = w.peer[y] /\ w.peer[y] \in Stream /\ w.peer[y] \notin {s, p, z}
             /\ w.peer[w.peer[y]] = y
    <2>1. y \notin {s, z} /\ v.peer[y] = w.peer[y] /\ w.peer[y] # NULL
        BY <1>7, <1>8
    <2>2. w.peer[y] \in Stream /\ w.peer[w.peer[y]] = y
        BY <1>1, <2>1, WorkIs DEF Base, Pairs
    <2>3. w.peer[y] # s /\ w.peer[y] # z
        BY <1>2, <2>1, <2>2
    <2>. QED
        BY <1>1, <1>2, <2>1, <2>2, <2>3
<1>9. v \in Work
    <2>1. \A y \in Stream : w.peer[y] \in Stream \cup {NULL} /\ w.buf[y] \in Seq(Nat) /\ w.sock[y] \in SockSet
        BY <1>1, WorkIs
    <2>2. v.peer \in [Stream -> Stream \cup {NULL}] /\ v.buf \in [Stream -> Seq(Nat)]
          /\ v.sock \in [Stream -> SockSet]
        BY <1>5, <2>1, NoSockIs
    <2>3. v.cut \in SUBSET Stream
        BY <1>1, <1>5 DEF Work
    <2>. QED
        BY <1>4, <1>5, <2>2, <2>3 DEF Work
<1>10. Bounds(v)
    <2>1. Len(<<>>) <= BufSize /\ Len(NoSock.out) <= SockSize
        BY NoSockIs, WatcherAssumption
    <2>. QED
        BY <1>7, <2>1 DEF Base, Bounds
<1>11. Down(v)
    BY <1>7 DEF Base, Down
<1>12. Pairs(v)
    <2>. SUFFICES ASSUME NEW y \in Stream, v.peer[y] # NULL
                  PROVE /\ Up(v, y) /\ Up(v, v.peer[y]) /\ v.peer[v.peer[y]] = y /\ v.peer[y] # y
        BY DEF Pairs
    <2>1. /\ y \notin {s, p} /\ v.peer[y] = w.peer[y] /\ w.peer[y] \in Stream /\ w.peer[y] \notin {s, p, z}
          /\ w.peer[w.peer[y]] = y
        BY <1>8
    <2>2. Up(w, y) /\ Up(w, w.peer[y]) /\ w.peer[y] # y
        BY <1>1, <2>1 DEF Base, Pairs
    <2>. QED
        BY <1>7, <2>1, <2>2
<1>13. Ordered(v)
    <2>. SUFFICES ASSUME NEW y \in Stream PROVE Passed(v, y)
        BY DEF Ordered
    <2>1. CASE y \in {s, p}
        BY <1>7, <2>1, NoSockIs, RunNone DEF Passed
    <2>2. CASE y \notin {s, p}
        <3>1. Passed(w, y) /\ Put1(v, y) = Put1(w, y) /\ Put2(v, y) = Put2(w, y)
              /\ v.buf[y] = w.buf[y] /\ v.sock[y] = w.sock[y]
            BY <1>7, <2>2 DEF Base, Ordered, Put1, Put2
        <3>2. v.peer[y] # NULL => w.peer[y] # NULL /\ v.sock[v.peer[y]] = w.sock[w.peer[y]]
            BY <1>1, <1>7, <1>8
        <3>. QED
            BY <3>1, <3>2 DEF Passed
    <2>. QED
        BY <2>1, <2>2
<1>14. Errors(v)
    BY <1>1, <1>5, <1>6, <1>7, NoFdeIs DEF Base, Errors
<1>15. Writes(v)
    BY <1>1, <1>5, <1>6, <1>7 DEF Writes
<1>16. Reads(v)
    <2>. SUFFICES ASSUME NEW y \in Stream, v.peer[y] # NULL, v.buf[v.peer[y]] = <<>>
                  PROVE "READ" \in v.d.fde[y].wanted
        BY DEF Reads
    <2>1. y \notin {s, p} /\ v.peer[y] = w.peer[y] /\ w.peer[y] \in Stream /\ w.peer[y] \notin {s, p}
        BY <1>8
    <2>. QED
        BY <1>1, <1>5, <1>6, <1>7, <2>1 DEF Reads
<1>17. Fed(v, NULL)
    <2>. SUFFICES ASSUME NEW y \in Stream, Up(v, y), v.peer[y] = NULL PROVE v.buf[y] # <<>>
        BY DEF Fed
    <2>1. y \notin {s, p} /\ Up(w, y) /\ v.buf[y] = w.buf[y]
        BY <1>7
    <2>2. CASE y = z
        BY <1>1, <1>2, <2>1, <2>2
    <2>3. CASE y # z
        BY <1>7, <2>1, <2>3 DEF Fed
    <2>. QED
        BY <2>2, <2>3
<1>18. Base(v)
    BY <1>4, <1>5, <1>9, <1>10, <1>11, <1>12, <1>13, <1>14 DEF Base
<1>19. v.d.fde[Listener] = w.d.fde[Listener]
    <2>1. Listener \in Fde /\ Listener \notin {s, p}
        BY <1>1, <1>2, WatcherAssumption DEF Fde
    <2>. QED
        BY <1>5, <1>6, <2>1
<1>20. \A y \in Stream : Up(v, y) <=> Up(w, y) /\ y # s /\ y # p
    BY <1>7
<1>. QED
    BY <1>15, <1>16, <1>17, <1>18, <1>19, <1>20 DEF v

-----------------------------------------------------------------------------
(* The parts of astream_io_cb.                                              *)

\* s may go without a rest that its other end did not give up.
Excused(w, s) == w.buf[s] = <<>> \/ w.sock[s].eof \/ w.sock[s].err
                 \/ Len(w.buf[s]) + Len(w.sock[s].out) <= SockSize

\* w became v in a part of the callback for s.
Middle(w, v, s) ==
    /\ Base(v) /\ Writes(v) /\ Reads(v) /\ SameEnds(w, v) /\ v.peer = w.peer
    /\ \A y \in Stream : Up(v, y) = Up(w, y)
    /\ \A y \in Stream : y # s /\ w.buf[y] # <<>> => v.buf[y] # <<>>
    /\ v.d.fde[Listener] = w.d.fde[Listener]

SameRest(w, v, s) == v.buf[s] = w.buf[s] /\ v.sock[s].out = w.sock[s].out

LEMMA CutIs ==
    ASSUME NEW w, Base(w), NEW p \in Stream
    PROVE  LET v == [w EXCEPT !.cut = @ \cup {p}]
           IN  /\ Base(v) /\ v.d = w.d /\ v.peer = w.peer /\ v.buf = w.buf /\ v.sock = w.sock
               /\ v.cut = w.cut \cup {p}
<1>. DEFINE v == [w EXCEPT !.cut = w.cut \cup {p}]
<1>1. w \in Work
    BY DEF Base
<1>2. v \in Work /\ v.d = w.d /\ v.peer = w.peer /\ v.buf = w.buf /\ v.sock = w.sock /\ v.cut = w.cut \cup {p}
    BY <1>1 DEF Work
<1>. HIDE DEF v
<1>3. Base(v)
    BY <1>2 DEF Base, Bounds, Down, Pairs, Ordered, Passed, Put1, Put2, Errors, Up
<1>. QED
    BY <1>2, <1>3 DEF v

LEMMA IoReadIs ==
    ASSUME NEW w, Base(w), Writes(w), Reads(w), Fed(w, NULL), NEW s \in Stream, Up(w, s)
    PROVE  /\ Middle(w, IoRead(w, s).w, s) /\ Fed(IoRead(w, s).w, NULL) /\ SameRest(w, IoRead(w, s).w, s)
           /\ IoRead(w, s).then \in {"go", "return", "teardown"}
           /\ IoRead(w, s).then = "teardown" => Excused(w, s)
<1>. DEFINE p == w.peer[s]
            r == IoRead(w, s)
            v == r.w
            n == Len(w.sock[s].in)
            failed == n < BufSize /\ w.sock[s].err
            ended == n < BufSize /\ w.sock[s].eof
            got == Fill(w, s, p)
            off == Unwatch(w, s, "READ")
<1>1. w \in Work /\ NULL \notin Stream /\ "READ" \in Event /\ "WRITE" \in Event
    BY WatcherAssumption DEF Base, Event
<1>2. p \in Stream \cup {NULL} /\ (p # NULL => w.peer[p] = s /\ p # s /\ Up(w, p))
    BY <1>1, WorkIs DEF Base, Pairs
<1>3. Listener \in Fde /\ \A y \in Stream : y \in Fde /\ y # Listener
    BY WatcherAssumption DEF Fde
<1>4. Middle(w, w, s) /\ Fed(w, NULL) /\ SameRest(w, w, s)
    BY DEF Middle, SameEnds, SameRest
<1>5. ASSUME p = NULL \/ w.buf[p] # <<>>
      PROVE Middle(w, off, s) /\ Fed(off, NULL) /\ SameRest(w, off, s)
    <2>1. Rewatched(w, off, s, w.d.fde[s].wanted \ {"READ"})
        BY <1>1, WatchIs
    <2>. HIDE DEF off
    <2>2. Writes(off)
        BY <1>3, <2>1 DEF Writes, Rewatched
    <2>3. Reads(off)
        BY <1>3, <1>5, <2>1 DEF Reads, Rewatched
    <2>4. SameEnds(w, off) /\ SameRest(w, off, s)
        BY <2>1 DEF Rewatched, SameEnds, SameRest
    <2>5. Fed(off, NULL)
        BY <2>1 DEF Rewatched, Fed
    <2>. QED
        BY <1>3, <2>1, <2>2, <2>3, <2>4, <2>5 DEF Rewatched, Middle
<1>6. CASE p = NULL
    <2>1. CASE w.buf[s] # <<>>
        <3>1. v = off /\ r.then = "return"
            BY <1>6, <2>1 DEF IoRead, Then
        <3>. QED
            BY <1>5, <1>6, <3>1
    <2>2. CASE w.buf[s] = <<>>
        <3>1. v = w /\ r.then = "teardown"
            BY <1>6, <2>2 DEF IoRead, Then
        <3>. QED
            BY <1>4, <2>2, <3>1 DEF Excused
    <2>. QED
        BY <2>1, <2>2
<1>7. CASE p # NULL /\ w.buf[p] # <<>>
    <2>1. v = off /\ r.then = "go"
        BY <1>7 DEF IoRead, Then
    <2>. QED
        BY <1>5, <1>7, <2>1
<1>8. CASE p # NULL /\ w.buf[p] = <<>>
    <2>0. p \in Stream /\ w.peer[p] = s /\ p # s /\ Up(w, p)
        BY <1>2, <1>8
    <2>1. /\ Base(got) /\ SameEnds(w, got) /\ got.d = w.d /\ got.peer = w.peer /\ got.cut = w.cut
          /\ \A y \in Stream : got.sock[y].out = w.sock[y].out
          /\ \A y \in Stream \ {p} : got.buf[y] = w.buf[y]
          /\ Len(w.sock[s].in) = 0 => got.buf[p] = <<>>
        <3>. HIDE DEF got
        <3>1. got = Fill(w, s, p)
            BY DEF got
        <3>. HIDE DEF p
        <3>. QED
            BY <1>8, <2>0, <3>1, FillIs DEF p
    <2>2. /\ v = IF n = 0 THEN got
                 ELSE IF failed THEN [got EXCEPT !.cut = @ \cup {p}]
                 ELSE Watch(got, p, "WRITE")
          /\ r.then = IF failed \/ ended THEN "teardown" ELSE "go"
        BY <1>8 DEF IoRead, Then
    <2>3. r.then \in {"go", "return", "teardown"} /\ (r.then = "teardown" => Excused(w, s))
        BY <2>2 DEF Excused
    <2>. HIDE DEF got, r
    \* What is left to show of v: it is as got, with more in cut or watched.
    <2>4. ASSUME NEW x, Base(x), x.peer = got.peer, x.buf = got.buf, x.sock = got.sock,
                 Writes(x), \A y \in Stream : Up(x, y) = Up(w, y),
                 \A y \in Stream : "READ" \in w.d.fde[y].wanted => "READ" \in x.d.fde[y].wanted,
                 x.d.fde[Listener] = w.d.fde[Listener]
          PROVE  Middle(w, x, s) /\ Fed(x, NULL) /\ SameRest(w, x, s)
        <3>1. SameEnds(w, x) /\ SameRest(w, x, s)
            BY <2>0, <2>1, <2>4 DEF SameEnds, SameRest
        <3>2. \A y \in Stream : w.buf[y] # <<>> => x.buf[y] # <<>>
            BY <1>8, <2>1, <2>4
        <3>3. \A y \in Stream : w.peer[y] # NULL => w.peer[y] \in Stream
            BY <1>1, WorkIs
        <3>4. Reads(x)
            BY <2>1, <2>4, <3>2, <3>3 DEF Reads
        <3>5. Fed(x, NULL)
            BY <2>1, <2>4, <3>2 DEF Fed
        <3>. QED
            BY <2>1, <2>4, <3>1, <3>2, <3>4, <3>5 DEF Middle
    <2>5. CASE n = 0
        <3>1. v = got
            BY <2>2, <2>5
        <3>2. Writes(got)
            BY <2>1, <2>5 DEF Writes
        <3>. QED
            <4>1. \A y \in Stream : Up(got, y) = Up(w, y)
                BY <2>1 DEF Up
            <4>2. Middle(w, got, s) /\ Fed(got, NULL) /\ SameRest(w, got, s)
                BY <2>1, <2>4, <3>2, <4>1
            <4>. QED
                BY <2>3, <3>1, <4>2 DEF r
    <2>6. CASE n # 0 /\ failed
        <3>. DEFINE x == [got EXCEPT !.cut = @ \cup {p}]
        <3>1. v = x
            BY <2>2, <2>6
        <3>2. Base(x) /\ x.d = got.d /\ x.peer = got.peer /\ x.buf = got.buf /\ x.sock = got.sock
              /\ x.cut = got.cut \cup {p}
            BY <2>0, <2>1, CutIs
        <3>. HIDE DEF x
        <3>3. Writes(x)
            BY <2>1, <3>2 DEF Writes
        <3>4. Middle(w, x, s) /\ Fed(x, NULL) /\ SameRest(w, x, s)
            BY <2>1, <2>4, <3>2, <3>3 DEF Up
        <3>. QED
            BY <2>3, <3>1, <3>4 DEF r
    <2>7. CASE n # 0 /\ ~failed
        <3>. DEFINE x == Watch(got, p, "WRITE")
        <3>1. v = x
            BY <2>2, <2>7
        <3>2. Rewatched(got, x, p, got.d.fde[p].wanted \cup {"WRITE"})
            BY <1>1, <2>0, <2>1, WatchIs
        <3>. HIDE DEF x
        <3>3. Writes(x)
            BY <1>3, <2>1, <3>2 DEF Writes, Rewatched
        <3>4. \A y \in Stream : "READ" \in w.d.fde[y].wanted => "READ" \in x.d.fde[y].wanted
            BY <1>3, <2>1, <3>2 DEF Rewatched
        <3>5. x.d.fde[Listener] = w.d.fde[Listener] /\ \A y \in Stream : Up(x, y) = Up(w, y)
            BY <1>3, <2>0, <2>1, <3>2 DEF Rewatched, Up
        <3>6. Middle(w, x, s) /\ Fed(x, NULL) /\ SameRest(w, x, s)
            BY <2>4, <3>2, <3>3, <3>4, <3>5 DEF Rewatched
        <3>. QED
            BY <2>3, <3>1, <3>6 DEF r
    <2>. QED
        BY <2>5, <2>6, <2>7
<1>. QED
    BY <1>6, <1>7, <1>8

LEMMA IoWriteIs ==
    ASSUME NEW w, Base(w), Writes(w), Reads(w), Fed(w, NULL), NEW s \in Stream, Up(w, s)
    PROVE  /\ Middle(w, IoWrite(w, s).w, s) /\ Fed(IoWrite(w, s).w, s)
           /\ IoWrite(w, s).then \in {"go", "teardown"}
           /\ IoWrite(w, s).then = "go" => Fed(IoWrite(w, s).w, NULL)
           /\ IoWrite(w, s).then = "teardown" => Excused(w, s)
<1>. DEFINE p == w.peer[s]
            r == IoWrite(w, s)
            v == r.w
            put == Drain(w, s)
            off == Unwatch(w, s, "WRITE")
            on == Watch(put, p, "READ")
<1>1. w \in Work /\ NULL \notin Stream /\ "READ" \in Event /\ "WRITE" \in Event
    BY WatcherAssumption DEF Base, Event
<1>2. p \in Stream \cup {NULL} /\ (p # NULL => w.peer[p] = s /\ p # s /\ Up(w, p))
    BY <1>1, WorkIs DEF Base, Pairs
<1>3. Listener \in Fde /\ \A y \in Stream : y \in Fde /\ y # Listener
    BY WatcherAssumption DEF Fde
<1>4. Middle(w, w, s) /\ Fed(w, s)
    BY <1>1 DEF Middle, SameEnds, Fed
<1>5. CASE w.buf[s] = <<>>
    <2>1. v = off /\ r.then = "go"
        BY <1>5 DEF IoWrite, Then
    <2>2. Rewatched(w, off, s, w.d.fde[s].wanted \ {"WRITE"})
        BY <1>1, WatchIs
    <2>. HIDE DEF off, r
    <2>3. Writes(off)
        BY <1>3, <1>5, <2>2 DEF Writes, Rewatched
    <2>4. Reads(off)
        BY <1>3, <2>2 DEF Reads, Rewatched
    <2>5. SameEnds(w, off)
        BY <2>2 DEF Rewatched, SameEnds
    <2>6. Fed(off, NULL) /\ Fed(off, s)
        BY <1>1, <2>2 DEF Rewatched, Fed
    <2>7. Middle(w, off, s)
        BY <1>3, <2>2, <2>3, <2>4, <2>5 DEF Rewatched, Middle
    <2>. QED
        BY <2>1, <2>6, <2>7 DEF r
<1>6. CASE w.buf[s] # <<>> /\ w.sock[s].err
    <2>1. v = w /\ r.then = "teardown"
        BY <1>6 DEF IoWrite, Then
    <2>. QED
        BY <1>4, <1>6, <2>1 DEF Excused
<1>7. CASE w.buf[s] # <<>> /\ ~w.sock[s].err
    <2>1. /\ Base(put) /\ SameEnds(w, put) /\ put.d = w.d /\ put.peer = w.peer /\ put.cut = w.cut
          /\ \A y \in Stream \ {s} : put.buf[y] = w.buf[y] /\ put.sock[y] = w.sock[y]
          /\ Len(put.buf[s]) + Len(put.sock[s].out) = Len(w.buf[s]) + Len(w.sock[s].out)
        BY DrainIs
    <2>2. /\ v = IF put.buf[s] # <<>> \/ p = NULL THEN put ELSE on
          /\ r.then = IF put.buf[s] = <<>> /\ p = NULL THEN "teardown" ELSE "go"
        BY <1>7 DEF IoWrite, Then
    <2>. HIDE DEF put, r
    <2>3. Writes(put)
        BY <1>7, <2>1 DEF Writes
    <2>4. \A y \in Stream : y # s /\ w.buf[y] # <<>> => put.buf[y] # <<>>
        BY <2>1
    <2>5. Fed(put, s) /\ (put.buf[s] # <<>> \/ p # NULL => Fed(put, NULL))
        BY <1>1, <2>1 DEF Fed, Up
    <2>6. CASE put.buf[s] # <<>> \/ p = NULL
        <3>1. v = put
            BY <2>2, <2>6
        <3>2. ASSUME NEW y \in Stream, put.peer[y] # NULL, put.buf[put.peer[y]] = <<>>
              PROVE  "READ" \in put.d.fde[y].wanted
            <4>1. w.peer[y] \in Stream /\ w.peer[w.peer[y]] = y /\ put.peer[y] = w.peer[y]
                BY <1>1, <2>1, <3>2, WorkIs DEF Base, Pairs
            <4>2. w.peer[y] # s
                BY <1>1, <2>6, <3>2, <4>1
            <4>3. w.buf[w.peer[y]] = <<>>
                BY <2>1, <3>2, <4>1, <4>2
            <4>. QED
                BY <1>1, <2>1, <4>1, <4>3 DEF Reads
        <3>3. Reads(put)
            BY <3>2 DEF Reads
        <3>4. Middle(w, put, s)
            BY <2>1, <2>3, <2>4, <3>3 DEF Middle, Up
        <3>5. r.then = "teardown" => Excused(w, s)
            <4>. SUFFICES ASSUME put.buf[s] = <<>> PROVE Excused(w, s)
                BY <2>2
            <4>1. Len(put.sock[s].out) <= SockSize /\ Len(put.buf[s]) = 0
                BY <2>1 DEF Base, Bounds
            <4>2. put \in Work
                BY <2>1 DEF Base
            <4>3. put.sock[s].out \in Seq(Nat)
                BY <4>2, WorkIs
            <4>4. Len(put.sock[s].out) \in Nat
                BY <4>3
            <4>5. Len(put.buf[s]) + Len(put.sock[s].out) = Len(put.sock[s].out)
                BY <4>1, <4>4
            <4>. QED
                BY <2>1, <4>1, <4>5 DEF Excused
        <3>. QED
            BY <2>2, <2>5, <2>6, <3>1, <3>4, <3>5 DEF r
    <2>7. CASE put.buf[s] = <<>> /\ p # NULL
        <3>0. p \in Stream /\ w.peer[p] = s /\ p # s
            BY <1>2, <2>7
        <3>1. v = on /\ r.then = "go"
            BY <2>2, <2>7
        <3>2. Rewatched(put, on, p, put.d.fde[p].wanted \cup {"READ"})
            <4>. HIDE DEF p
            <4>. QED
                BY <1>1, <2>1, <3>0, WatchIs
        <3>. HIDE DEF on
        <3>3. Writes(on)
            BY <1>3, <2>3, <3>2 DEF Writes, Rewatched
        <3>4. \A y \in Stream : "READ" \in w.d.fde[y].wanted \/ y = p => "READ" \in on.d.fde[y].wanted
            BY <1>3, <2>1, <3>2 DEF Rewatched
        <3>5. ASSUME NEW y \in Stream, on.peer[y] # NULL, on.buf[on.peer[y]] = <<>>
              PROVE  "READ" \in on.d.fde[y].wanted
            <4>1. w.peer[y] \in Stream /\ w.peer[w.peer[y]] = y /\ on.peer[y] = w.peer[y]
                BY <1>1, <2>1, <3>2, <3>5, WorkIs DEF Base, Pairs, Rewatched
            <4>2. CASE w.peer[y] = s
                BY <3>4, <4>1, <4>2
            <4>3. CASE w.peer[y] # s
                <5>1. w.buf[w.peer[y]] = <<>>
                    BY <2>1, <3>2, <3>5, <4>1, <4>3 DEF Rewatched
                <5>. QED
                    BY <1>1, <3>4, <4>1, <5>1 DEF Reads
            <4>. QED
                BY <4>2, <4>3
        <3>6. Reads(on)
            BY <3>5 DEF Reads
        <3>7. on.d.fde[Listener] = w.d.fde[Listener] /\ \A y \in Stream : Up(on, y) = Up(w, y)
            BY <1>3, <2>1, <3>0, <3>2 DEF Rewatched, Up
        <3>8. SameEnds(w, on)
            BY <2>1, <3>2 DEF Rewatched, SameEnds
        <3>9. Middle(w, on, s)
            BY <2>1, <2>4, <3>2, <3>3, <3>6, <3>7, <3>8 DEF Rewatched, Middle
        <3>10. Fed(on, NULL) /\ Fed(on, s)
            BY <2>5, <2>7, <3>2 DEF Rewatched, Fed
        <3>. QED
            BY <3>1, <3>9, <3>10 DEF r
    <2>. QED
        BY <2>6, <2>7
<1>. QED
    BY <1>5, <1>6, <1>7

LEMMA IoIs ==
    ASSUME NEW w, Base(w), Writes(w), Reads(w), Fed(w, NULL), NEW s \in Stream, Up(w, s),
           NEW events, "ERROR" \in events => w.sock[s].err
    PROVE  /\ Base(Io(w, s, events)) /\ Writes(Io(w, s, events)) /\ Reads(Io(w, s, events))
           /\ Fed(Io(w, s, events), NULL) /\ Io(w, s, events).d.fde[Listener] = w.d.fde[Listener]
           /\ \A y \in Stream : Up(w, y) /\ ~Up(Io(w, s, events), y) => Excused(w, y)
<1>. DEFINE r1 == IF "READ" \in events THEN IoRead(w, s) ELSE Then(w, "go")
            r2 == IF r1.then = "go" /\ "WRITE" \in events THEN IoWrite(r1.w, s) ELSE r1
            over == r2.then = "teardown" \/ (r2.then = "go" /\ "ERROR" \in events)
            v == Io(w, s, events)
<1>0. w \in Work /\ NULL \notin Stream
    BY WatcherAssumption DEF Base
<1>1. /\ Middle(w, r1.w, s) /\ Fed(r1.w, NULL) /\ SameRest(w, r1.w, s)
      /\ r1.then \in {"go", "return", "teardown"} /\ (r1.then = "teardown" => Excused(w, s))
    <2>1. CASE "READ" \in events
        <3>1. r1 = IoRead(w, s)
            BY <2>1
        <3>. HIDE DEF r1
        <3>. QED
            BY <3>1, IoReadIs
    <2>2. CASE "READ" \notin events
        <3>1. r1.w = w /\ r1.then = "go"
            BY <2>2 DEF Then
        <3>. HIDE DEF r1
        <3>. QED
            BY <3>1 DEF Middle, SameEnds, SameRest
    <2>. QED
        BY <2>1, <2>2
<1>. HIDE DEF r1
<1>2. /\ Middle(w, r2.w, s) /\ Fed(r2.w, s) /\ (r2.then # "teardown" => Fed(r2.w, NULL))
      /\ r2.then \in {"go", "return", "teardown"} /\ (r2.then = "teardown" => Excused(w, s))
    <2>1. CASE r1.then = "go" /\ "WRITE" \in events
        <3>. DEFINE u == r1.w
        <3>1. r2 = IoWrite(u, s)
            BY <2>1
        <3>. HIDE DEF u, r2
        <3>2. Base(u) /\ Writes(u) /\ Reads(u) /\ Fed(u, NULL) /\ Up(u, s) /\ Middle(w, u, s) /\ SameRest(w, u, s)
            BY <1>1 DEF Middle, u
        <3>3. /\ Middle(u, r2.w, s) /\ Fed(r2.w, s) /\ r2.then \in {"go", "teardown"}
              /\ r2.then = "go" => Fed(r2.w, NULL)
              /\ r2.then = "teardown" => Excused(u, s)
            BY <3>1, <3>2, IoWriteIs
        <3>4. Middle(w, r2.w, s)
            BY <3>2, <3>3 DEF Middle, SameEnds
        <3>5. Excused(u, s) => Excused(w, s)
            BY <3>2 DEF Excused, SameRest, Middle, SameEnds
        <3>. QED
            BY <3>3, <3>4, <3>5
    <2>2. CASE ~(r1.then = "go" /\ "WRITE" \in events)
        <3>1. r2 = r1
            BY <2>2
        <3>2. Fed(r1.w, s)
            BY <1>0, <1>1 DEF Fed
        <3>. QED
            BY <1>1, <3>1, <3>2
    <2>. QED
        BY <2>1, <2>2
<1>3. v = IF over THEN Destroy(r2.w, s) ELSE r2.w
    BY DEF Io, Served, Over, r1
<1>. DEFINE u == r2.w
<1>. HIDE DEF r2, v
<1>4. Base(u) /\ Writes(u) /\ Reads(u) /\ Fed(u, s) /\ Up(u, s) /\ u \in Work
    BY <1>2 DEF Middle, Base
<1>5. CASE ~over
    <2>1. v = u /\ Fed(u, NULL)
        BY <1>2, <1>3, <1>5
    <2>. QED
        BY <1>2, <1>4, <2>1 DEF Middle, v
<1>6. CASE over
    <2>. DEFINE p == IF u.peer[s] # NULL /\ u.buf[u.peer[s]] = <<>> THEN u.peer[s] ELSE NULL
    <2>1. v = Drop(u, s, p)
        BY <1>3, <1>6 DEF Destroy, FreesPeer
    <2>2. /\ p \in {NULL, u.peer[s]} /\ (p # NULL => u.buf[p] = <<>>)
          /\ p = NULL /\ u.peer[s] # NULL => u.buf[u.peer[s]] # <<>>
        OBVIOUS
    <2>. HIDE DEF p, u
    <2>3. /\ Base(v) /\ Writes(v) /\ Reads(v) /\ Fed(v, NULL)
          /\ \A y \in Stream : Up(v, y) <=> Up(u, y) /\ y # s /\ y # p
          /\ v.d.fde[Listener] = u.d.fde[Listener]
        BY <1>4, <2>1, <2>2, DropIs
    <2>4. Excused(w, s)
        BY <1>2, <1>6 DEF Excused
    <2>5. ASSUME NEW y \in Stream, Up(w, y), ~Up(v, y) PROVE Excused(w, y)
        <3>1. y = s \/ y = p
            BY <1>2, <2>3, <2>5 DEF Middle, u
        <3>2. CASE y # s
            <4>1. y = p /\ p # NULL /\ u.buf[y] = <<>>
                BY <1>0, <2>2, <3>1, <3>2
            <4>. QED
                BY <1>2, <3>2, <4>1 DEF Middle, Excused, u
        <3>. QED
            BY <2>4, <3>2
    <2>6. v.d.fde[Listener] = w.d.fde[Listener]
        BY <1>2, <2>3 DEF Middle, u
    <2>. QED
        BY <2>3, <2>5, <2>6 DEF v
<1>. QED
    BY <1>5, <1>6

-----------------------------------------------------------------------------
(* The sockets.                                                             *)

\* s has the socket k from now on.
SetSock(w, s, k) == [w EXCEPT !.sock = [w.sock EXCEPT ![s] = k]]

Well(w) == Base(w) /\ Writes(w) /\ Reads(w) /\ Fed(w, NULL)

LEMMA SockIs ==
    ASSUME NEW w, Well(w), NEW s \in Stream, Up(w, s), NEW k \in SockSet,
           Len(k.out) <= SockSize, w.sock[s].err => k.err, Run(k.out, k.got),
           k.got + Len(k.out) = Put1(w, s),
           w.peer[s] # NULL => Run(k.in, Put2(w, w.peer[s])) /\ Put2(w, w.peer[s]) + Len(k.in) = k.sent
    PROVE  Well(SetSock(w, s, k))
<1>. DEFINE v == SetSock(w, s, k)
<1>1. w \in Work /\ Base(w)
    BY DEF Well, Base
<1>2. /\ v \in Work /\ v.d = w.d /\ v.peer = w.peer /\ v.buf = w.buf /\ v.cut = w.cut
      /\ v.sock[s] = k /\ \A y \in Stream \ {s} : v.sock[y] = w.sock[y]
    <2>. DEFINE new == [w.sock EXCEPT ![s] = k]
    <2>1. new \in [Stream -> SockSet] /\ new[s] = k /\ \A y \in Stream \ {s} : new[y] = w.sock[y]
        BY <1>1 DEF Work
    <2>2. v = [w EXCEPT !.sock = new]
        BY DEF SetSock
    <2>. HIDE DEF new, v
    <2>. QED
        BY <1>1, <2>1, <2>2 DEF Work
<1>. HIDE DEF v
<1>3. \A y \in Stream : Up(v, y) = Up(w, y)
    BY <1>2 DEF Up
<1>4. Bounds(v)
    BY <1>1, <1>2 DEF Base, Bounds
<1>5. Down(v)
    BY <1>1, <1>2, <1>3 DEF Base, Down
<1>6. \A y \in Stream : w.peer[y] # NULL => w.peer[y] \in Stream /\ w.peer[w.peer[y]] = y
    BY <1>1, WorkIs DEF Base, Pairs
<1>7. Pairs(v)
    BY <1>1, <1>2, <1>3, <1>6 DEF Base, Pairs
<1>8. Errors(v)
    BY <1>1, <1>2 DEF Base, Errors
<1>9. \A y \in Stream : Put1(v, y) = Put1(w, y) /\ Put2(v, y) = Put2(w, y)
    <2>1. \A y \in Stream \ {s} : Put1(v, y) = Put1(w, y)
        BY <1>2 DEF Put1
    <2>2. Put1(v, s) = Put1(w, s)
        BY <1>2 DEF Put1
    <2>3. \A y \in Stream : Put1(v, y) = Put1(w, y)
        BY <2>1, <2>2
    <2>. QED
        BY <1>2, <2>3 DEF Put2
<1>10. ASSUME NEW y \in Stream PROVE Passed(v, y)
    <2>1. Passed(w, y)
        BY <1>1 DEF Base, Ordered
    <2>2. Run(v.sock[y].out, v.sock[y].got)
        BY <1>2, <2>1 DEF Passed
    <2>3. Run(v.buf[y], Put1(v, y))
        BY <1>2, <1>9, <2>1 DEF Passed
    <2>4. ASSUME w.peer[y] # NULL
          PROVE  /\ Run(v.sock[w.peer[y]].in, Put2(w, y))
                 /\ Put2(w, y) + Len(v.sock[w.peer[y]].in) = v.sock[w.peer[y]].sent
        <3>1. w.peer[y] \in Stream /\ w.peer[w.peer[y]] = y
            BY <1>6, <2>4
        <3>2. CASE w.peer[y] = s
            <4>1. w.peer[s] = y /\ w.peer[s] # NULL
                BY <3>1, <3>2, WatcherAssumption
            <4>. QED
                BY <1>2, <3>2, <4>1
        <3>3. CASE w.peer[y] # s
            <4>1. v.sock[w.peer[y]] = w.sock[w.peer[y]]
                BY <1>2, <3>1, <3>3
            <4>. QED
                BY <2>1, <2>4, <4>1 DEF Passed
        <3>. QED
            BY <3>2, <3>3
    <2>. QED
        BY <1>2, <1>9, <2>2, <2>3, <2>4 DEF Passed
<1>11. Base(v)
    BY <1>1, <1>2, <1>4, <1>5, <1>7, <1>8, <1>10 DEF Base, Ordered
<1>12. Writes(v) /\ Reads(v) /\ Fed(v, NULL)
    BY <1>2, <1>3 DEF Well, Writes, Reads, Fed
<1>. QED
    BY <1>11, <1>12 DEF Well, v

LEMMA RunNext ==
    ASSUME NEW q \in Seq(Nat), NEW n \in Nat, Run(q, n)
    PROVE  /\ Append(q, n + Len(q) + 1) \in Seq(Nat) /\ Len(Append(q, n + Len(q) + 1)) = Len(q) + 1
           /\ Run(Append(q, n + Len(q) + 1), n)
           /\ q # <<>> => Tail(q) \in Seq(Nat) /\ Len(Tail(q)) = Len(q) - 1 /\ Run(Tail(q), n + 1)
<1>. DEFINE x == n + Len(q) + 1
            a == Append(q, x)
            b == Tail(q)
<1>1. Len(q) \in Nat /\ x \in Nat /\ DOMAIN q = 1..Len(q)
    OBVIOUS
<1>2. /\ a \in Seq(Nat) /\ Len(a) = Len(q) + 1 /\ DOMAIN a = 1..(Len(q) + 1) /\ a[Len(q) + 1] = x
      /\ \A i \in 1..Len(q) : a[i] = q[i]
    <2>. HIDE DEF x
    <2>. QED
        BY <1>1
<1>. HIDE DEF a
<1>3. Run(a, n)
    <2>. SUFFICES ASSUME NEW i \in 1..(Len(q) + 1) PROVE a[i] = n + i
        BY <1>2 DEF Run
    <2>1. CASE i = Len(q) + 1
        BY <1>1, <1>2, <2>1
    <2>2. CASE i # Len(q) + 1
        <3>1. i \in 1..Len(q)
            BY <1>1, <2>2
        <3>. QED
            BY <1>1, <1>2, <3>1 DEF Run
    <2>. QED
        BY <2>1, <2>2
<1>4. ASSUME q # <<>> PROVE b \in Seq(Nat) /\ Len(b) = Len(q) - 1 /\ Run(b, n + 1)
    <2>1. b \in Seq(Nat) /\ Len(b) = Len(q) - 1 /\ \A i \in 1..(Len(q) - 1) : b[i] = q[i + 1]
        BY <1>4
    <2>. HIDE DEF b
    <2>2. DOMAIN b = 1..(Len(q) - 1)
        BY <1>1, <2>1
    <2>3. ASSUME NEW i \in 1..(Len(q) - 1) PROVE b[i] = n + 1 + i
        <3>1. i + 1 \in DOMAIN q /\ b[i] = q[i + 1]
            BY <1>1, <2>1
        <3>2. q[i + 1] = n + (i + 1)
            BY <3>1 DEF Run
        <3>. QED
            BY <1>1, <3>1, <3>2
    <2>. QED
        BY <2>1, <2>2, <2>3 DEF Run
<1>. QED
    BY <1>2, <1>3, <1>4 DEF a, b, x

-----------------------------------------------------------------------------
(* What the loop does to the dispatcher.                                    *)

LEMMA LikeIs ==
    ASSUME NEW w, Well(w), NEW e \in Dispatcher, PendingListed(e), Alike(e, w),
           \A s \in Stream : e.fde[s].wanted = w.d.fde[s].wanted
    PROVE  Well(SetD(w, e))
<1>. DEFINE v == SetD(w, e)
<1>1. Base(v) /\ v.d = e /\ v.peer = w.peer /\ v.buf = w.buf /\ v.sock = w.sock /\ v.cut = w.cut
    BY NewD DEF Well
<1>. HIDE DEF v
<1>2. Writes(v) /\ Reads(v)
    BY <1>1 DEF Well, Writes, Reads
<1>3. Fed(v, NULL)
    BY <1>1 DEF Well, Fed, Up, Alike
<1>. QED
    BY <1>1, <1>2, <1>3 DEF Well, v

LEMMA DequeuedIs ==
    ASSUME NEW w, Well(w), w.d.plist # <<>>
    PROVE  /\ Well(SetD(w, Dequeue(w.d))) /\ SetD(w, Dequeue(w.d)).d = Dequeue(w.d)
           /\ \A s \in Stream : Up(SetD(w, Dequeue(w.d)), s) = Up(w, s)
<1>. DEFINE e == Dequeue(w.d)
            h == Head(w.d.plist)
<1>1. w \in Work /\ w.d \in Dispatcher /\ PendingListed(w.d)
    BY DEF Well, Base, Work
<1>2. /\ h \in Fde /\ e \in Dispatcher /\ PendingListed(e)
      /\ e.fde[h].active = w.d.fde[h].active /\ e.fde[h].wanted = w.d.fde[h].wanted /\ e.fde[h].events = {}
      /\ \A y \in Fde \ {h} : e.fde[y] = w.d.fde[y]
    BY <1>1, DequeueIs
<1>. HIDE DEF e, h
<1>3. \A s \in Stream : s \in Fde
    BY DEF Fde
<1>4. \A s \in Stream : e.fde[s].active = w.d.fde[s].active /\ e.fde[s].wanted = w.d.fde[s].wanted
                        /\ e.fde[s].events \subseteq w.d.fde[s].events
    BY <1>2, <1>3
<1>5. Alike(e, w)
    BY <1>4 DEF Alike, Well, Base, Errors
<1>6. Well(SetD(w, e))
    BY <1>2, <1>4, <1>5, LikeIs
<1>7. SetD(w, e).d = e
    BY <1>1 DEF SetD, Work
<1>. QED
    BY <1>4, <1>6, <1>7 DEF Up, e

\* A connection a and the one made for it, b, watched for what they send.
Joined(w, e, a, b) ==
    [d |-> e, peer |-> [w.peer EXCEPT ![a] = b, ![b] = a], buf |-> w.buf, sock |-> w.sock, cut |-> w.cut]

LEMMA JoinedIs ==
    ASSUME NEW w, Well(w), NEW a \in Stream, NEW b \in Stream, a # b, ~Up(w, a), ~Up(w, b),
           NEW e \in Dispatcher, PendingListed(e), e.fde[a].active, e.fde[b].active,
           "READ" \in e.fde[a].wanted, "READ" \in e.fde[b].wanted,
           "ERROR" \notin e.fde[a].events, "ERROR" \notin e.fde[b].events,
           \A y \in Stream \ {a, b} : e.fde[y] = w.d.fde[y]
    PROVE  Well(Joined(w, e, a, b))
<1>. DEFINE new == [w.peer EXCEPT ![a] = b, ![b] = a]
            v == Joined(w, e, a, b)
<1>1. w \in Work /\ NULL \notin Stream
    BY WatcherAssumption DEF Well, Base
<1>2. new \in [Stream -> Stream \cup {NULL}] /\ new[a] = b /\ new[b] = a
      /\ \A y \in Stream \ {a, b} : new[y] = w.peer[y]
    BY <1>1 DEF Work
<1>. HIDE DEF new
<1>3. v \in Work /\ v.d = e /\ v.peer = new /\ v.buf = w.buf /\ v.sock = w.sock /\ v.cut = w.cut
    BY <1>1, <1>2 DEF Work, Joined, new
<1>. HIDE DEF v
<1>4. \A y \in {a, b} : w.peer[y] = NULL /\ w.buf[y] = <<>> /\ w.sock[y] = NoSock /\ Up(v, y)
    BY <1>3 DEF Well, Base, Down, Up
<1>5. \A y \in Stream \ {a, b} : Up(v, y) = Up(w, y)
    BY <1>3 DEF Up
\* No other stream has one of the two as its peer.
<1>6. ASSUME NEW y \in Stream \ {a, b}, w.peer[y] # NULL
      PROVE  w.peer[y] \in Stream \ {a, b} /\ w.peer[w.peer[y]] = y /\ Up(w, y) /\ Up(w, w.peer[y]) /\ w.peer[y] # y
    <2>1. w.peer[y] \in Stream /\ w.peer[w.peer[y]] = y /\ Up(w, y) /\ Up(w, w.peer[y]) /\ w.peer[y] # y
        BY <1>1, <1>6, WorkIs DEF Well, Base, Pairs
    <2>. QED
        BY <2>1
<1>7. Bounds(v)
    BY <1>3 DEF Well, Base, Bounds
<1>8. Down(v)
    BY <1>2, <1>3, <1>4, <1>5 DEF Well, Base, Down
<1>9. Pairs(v)
    <2>. SUFFICES ASSUME NEW y \in Stream, new[y] # NULL
                  PROVE /\ Up(v, y) /\ Up(v, new[y]) /\ new[new[y]] = y /\ new[y] # y
        BY <1>3 DEF Pairs
    <2>1. CASE y \in {a, b}
        BY <1>2, <1>4, <2>1
    <2>2. CASE y \notin {a, b}
        <3>1. w.peer[y] # NULL /\ new[y] = w.peer[y]
            BY <1>2, <2>2
        <3>2. w.peer[y] \in Stream \ {a, b} /\ w.peer[w.peer[y]] = y /\ Up(w, y) /\ Up(w, w.peer[y]) /\ w.peer[y] # y
            BY <1>6, <2>2, <3>1
        <3>. QED
            BY <1>2, <1>5, <2>2, <3>1, <3>2
    <2>. QED
        BY <2>1, <2>2
<1>10. Errors(v)
    <2>1. \A y \in Stream \ {a, b} : "ERROR" \in v.d.fde[y].events => v.sock[y].err
        BY <1>3 DEF Well, Base, Errors
    <2>2. \A y \in {a, b} : "ERROR" \notin v.d.fde[y].events
        BY <1>3
    <2>. QED
        BY <2>1, <2>2 DEF Errors
<1>11. \A y \in Stream : Put1(v, y) = Put1(w, y) /\ Put2(v, y) = Put2(w, y) /\ Passed(w, y)
    BY <1>3 DEF Put1, Put2, Well, Base, Ordered
<1>12. Ordered(v)
    <2>. SUFFICES ASSUME NEW y \in Stream PROVE Passed(v, y)
        BY DEF Ordered
    <2>1. Run(v.sock[y].out, v.sock[y].got) /\ Run(v.buf[y], Put1(v, y))
        BY <1>3, <1>11 DEF Passed
    <2>2. CASE y \in {a, b}
        <3>1. new[y] \in {a, b} /\ v.peer[y] = new[y]
            BY <1>2, <1>3, <2>2
        <3>2. v.sock[new[y]].in = <<>> /\ v.sock[new[y]].sent = 0
            BY <1>3, <1>4, <3>1, NoSockIs
        <3>3. Put2(w, y) = 0
            BY <1>4, <2>2, NoSockIs DEF Put1, Put2
        <3>. QED
            BY <1>11, <2>1, <3>1, <3>2, <3>3, RunNone DEF Passed
    <2>3. CASE y \notin {a, b}
        <3>1. v.peer[y] = w.peer[y]
            BY <1>2, <1>3, <2>3
        <3>. QED
            BY <1>3, <1>11, <2>1, <3>1 DEF Passed
    <2>. QED
        BY <2>2, <2>3
<1>13. Base(v)
    BY <1>3, <1>7, <1>8, <1>9, <1>10, <1>12 DEF Base
<1>14. Writes(v)
    <2>1. \A y \in Stream : v.buf[y] # <<>> => y \notin {a, b}
        BY <1>3, <1>4
    <2>. QED
        BY <1>3, <2>1 DEF Well, Writes
<1>15. Reads(v)
    <2>. SUFFICES ASSUME NEW y \in Stream, new[y] # NULL, w.buf[new[y]] = <<>>
                  PROVE "READ" \in e.fde[y].wanted
        BY <1>3 DEF Reads
    <2>1. CASE y \in {a, b}
        BY <2>1
    <2>2. CASE y \notin {a, b}
        BY <1>2, <2>2 DEF Well, Reads
    <2>. QED
        BY <2>1, <2>2
<1>16. Fed(v, NULL)
    <2>. SUFFICES ASSUME NEW y \in Stream, Up(v, y), new[y] = NULL PROVE w.buf[y] # <<>>
        BY <1>3 DEF Fed
    <2>1. y \notin {a, b} /\ w.peer[y] = NULL /\ Up(w, y)
        BY <1>1, <1>2, <1>5
    <2>. QED
        BY <1>1, <2>1 DEF Well, Fed
<1>. QED
    BY <1>13, <1>14, <1>15, <1>16 DEF Well, v, new

\* fdevent_create of both and fdevent_add.
LEMMA BothIs ==
    ASSUME NEW e \in Dispatcher, PendingListed(e), NEW a \in Fde, NEW b \in Fde, a # b,
           ~e.fde[a].active, ~e.fde[b].active, NEW wanted \in SUBSET Event
    PROVE  LET r == FdeSet(FdeSet(Install(Install(e, a), b), a, wanted), b, wanted)
           IN  /\ r \in Dispatcher /\ PendingListed(r)
               /\ \A y \in {a, b} : r.fde[y].active /\ r.fde[y].wanted = wanted /\ r.fde[y].events = {}
               /\ \A y \in Fde \ {a, b} : r.fde[y] = e.fde[y]
<1>. DEFINE e1 == Install(e, a)
            e2 == Install(e1, b)
            e3 == FdeSet(e2, a, wanted)
            e4 == FdeSet(e3, b, wanted)
            k == [NoFde EXCEPT !.active = TRUE]
<1>0. k.active /\ k.events = {}
    BY NoFdeIs
<1>. HIDE DEF k
<1>1. e1 \in Dispatcher /\ PendingListed(e1) /\ e1.fde[a] = k /\ \A y \in Fde \ {a} : e1.fde[y] = e.fde[y]
    BY InstallIs DEF k
<1>. HIDE DEF e1
<1>2. ~e1.fde[b].active
    BY <1>1
<1>3. e2 \in Dispatcher /\ PendingListed(e2) /\ e2.fde[b] = k /\ \A y \in Fde \ {b} : e2.fde[y] = e1.fde[y]
    BY <1>1, <1>2, InstallIs DEF k
<1>. HIDE DEF e2
<1>4. /\ e3 \in Dispatcher /\ PendingListed(e3) /\ e3.fde[a].active = e2.fde[a].active
      /\ e3.fde[a].wanted = wanted /\ e3.fde[a].events \subseteq e2.fde[a].events
      /\ \A y \in Fde \ {a} : e3.fde[y] = e2.fde[y]
    BY <1>3, FdeSetIs
<1>. HIDE DEF e3
<1>5. /\ e4 \in Dispatcher /\ PendingListed(e4) /\ e4.fde[b].active = e3.fde[b].active
      /\ e4.fde[b].wanted = wanted /\ e4.fde[b].events \subseteq e3.fde[b].events
      /\ \A y \in Fde \ {b} : e4.fde[y] = e3.fde[y]
    BY <1>4, FdeSetIs
<1>6. e4 = FdeSet(FdeSet(Install(Install(e, a), b), a, wanted), b, wanted)
    BY DEF e1, e2, e3
<1>. HIDE DEF e4
<1>7. e2.fde[a] = k /\ e2.fde[b] = k /\ e3.fde[b] = k /\ e4.fde[a] = e3.fde[a]
    BY <1>1, <1>3, <1>4, <1>5
<1>8. \A y \in {a, b} : e4.fde[y].active /\ e4.fde[y].wanted = wanted /\ e4.fde[y].events = {}
    <2>1. e4.fde[a].active /\ e4.fde[a].wanted = wanted /\ e4.fde[a].events = {}
        BY <1>0, <1>4, <1>7
    <2>2. e4.fde[b].active /\ e4.fde[b].wanted = wanted /\ e4.fde[b].events = {}
        BY <1>0, <1>5, <1>7
    <2>. QED
        BY <2>1, <2>2
<1>9. \A y \in Fde \ {a, b} : e4.fde[y] = e.fde[y]
    BY <1>1, <1>3, <1>4, <1>5
<1>. QED
    BY <1>5, <1>6, <1>8, <1>9

LEMMA LeastIs ==
    ASSUME NEW S \in SUBSET Nat, S # {}
    PROVE  Min(S) \in S
<1>1. PICK x \in S : \A y \in S : ~(<<y, x>> \in OpToRel(<, Nat))
    BY NatLessThanWellFounded, WFMin
<1>2. \A y \in S : ~(y < x)
    BY <1>1 DEF OpToRel
<1>3. \A y \in S : x <= y
    BY <1>2
<1>. QED
    BY <1>3 DEF Min

-----------------------------------------------------------------------------
(* The invariant.                                                           *)

Now == [d |-> d, peer |-> peer, buf |-> buf, sock |-> sock, cut |-> cut]

\* The listener is never removed, and is called only when there is a connection.
Listens == d.fde[Listener].active /\ (d.fde[Listener].pending => backlog > 0)
Counted == backlog \in Nat /\ conns \in Nat /\ backlog <= conns /\ conns <= MaxConns

StreamsInv == Well(Now) /\ Listens /\ Counted

LEMMA NowIs ==
    /\ Now.d = d /\ Now.peer = peer /\ Now.buf = buf /\ Now.sock = sock /\ Now.cut = cut
    /\ Now.d' = d' /\ Now.peer' = peer' /\ Now.buf' = buf' /\ Now.sock' = sock' /\ Now.cut' = cut'
    /\ \A s \in Stream : Live(s) = Up(Now, s) /\ Live(s)' = Up(Now', s)
BY DEF Now, Live, Up

\* What a step of the environment or of the loop keeps: the invariant, and the
\* rests of the streams.
Kept == /\ StreamsInv'
        /\ \A s \in Stream : Live(s) /\ ~Live(s)' => Excused(Now, s)

LEMMA InitKeeps ==
    ASSUME Init
    PROVE  StreamsInv
<1>. DEFINE zero == [fde |-> [x \in Fde |-> NoFde], plist |-> <<>>]
            e1 == Install(zero, Listener)
            wanted == {"READ"}
            e2 == FdeSet(e1, Listener, wanted)
<1>1. Listener \in Fde /\ wanted \in SUBSET Event /\ \A s \in Stream : s \in Fde \ {Listener}
    BY WatcherAssumption DEF Fde, Event
<1>2. /\ zero \in Dispatcher /\ PendingListed(zero)
      /\ \A x \in Fde : ~zero.fde[x].active /\ zero.fde[x].events = {}
    <2>1. zero.fde = [x \in Fde |-> NoFde] /\ zero.plist = <<>>
        OBVIOUS
    <2>2. zero \in Dispatcher
        BY NoFdeIs DEF Dispatcher
    <2>. HIDE DEF zero
    <2>3. Once(zero.plist) /\ \A x : ~On(zero.plist, x)
        BY <2>1 DEF Once, On
    <2>4. \A x \in Fde : ~zero.fde[x].pending
        BY <2>1, NoFdeIs
    <2>5. PendingListed(zero)
        BY <2>3, <2>4, ListedIs
    <2>. QED
        BY <2>1, <2>2, <2>5, NoFdeIs
<1>. HIDE DEF zero
<1>3. /\ e1 \in Dispatcher /\ PendingListed(e1) /\ e1.fde[Listener] = [NoFde EXCEPT !.active = TRUE]
      /\ \A y \in Fde \ {Listener} : e1.fde[y] = zero.fde[y]
    BY <1>1, <1>2, InstallIs
<1>. HIDE DEF e1, wanted
<1>. HIDE DEF e2
<1>4. /\ e2 \in Dispatcher /\ PendingListed(e2)
      /\ e2.fde[Listener].active = e1.fde[Listener].active
      /\ e2.fde[Listener].events \subseteq e1.fde[Listener].events
      /\ \A y \in Fde \ {Listener} : e2.fde[y] = e1.fde[y]
    <2>1. e2 = FdeSet(e1, Listener, wanted)
        BY DEF e2
    <2>2. e1 \in Dispatcher /\ PendingListed(e1) /\ Listener \in Fde /\ wanted \in SUBSET Event
        BY <1>1, <1>3
    <2>3. /\ FdeSet(e1, Listener, wanted) \in Dispatcher /\ PendingListed(FdeSet(e1, Listener, wanted))
          /\ FdeSet(e1, Listener, wanted).fde[Listener].active = e1.fde[Listener].active
          /\ FdeSet(e1, Listener, wanted).fde[Listener].events \subseteq e1.fde[Listener].events
          /\ \A y \in Fde \ {Listener} : FdeSet(e1, Listener, wanted).fde[y] = e1.fde[y]
        BY <2>2, FdeSetIs
    <2>. QED
        BY <2>1, <2>3
<1>5. d = e2
    BY DEF Init, e1, zero, wanted, e2
<1>6. d.fde[Listener].active /\ d.fde[Listener].events = {}
    BY <1>3, <1>4, <1>5, NoFdeIs
<1>7. ~d.fde[Listener].pending
    <2>1. PendingListed(d)
        BY <1>4, <1>5
    <2>. QED
        BY <1>1, <1>6, <2>1, ListedIs
<1>8. \A s \in Stream : ~Up(Now, s) /\ Now.d.fde[s].events = {}
    BY <1>1, <1>2, <1>3, <1>4, <1>5, NowIs DEF Up
<1>9. /\ Now.peer = [s \in Stream |-> NULL] /\ Now.buf = [s \in Stream |-> <<>>]
      /\ Now.sock = [s \in Stream |-> NoSock] /\ Now.cut = {} /\ Now.d = e2
    BY <1>5, NowIs DEF Init
<1>10. Now \in Work
    <2>1. /\ [s \in Stream |-> NULL] \in [Stream -> Stream \cup {NULL}]
          /\ [s \in Stream |-> <<>>] \in [Stream -> Seq(Nat)]
          /\ [s \in Stream |-> NoSock] \in [Stream -> SockSet]
        BY NoSockIs
    <2>2. Now = [d |-> Now.d, peer |-> Now.peer, buf |-> Now.buf, sock |-> Now.sock, cut |-> Now.cut]
        BY DEF Now
    <2>. QED
        BY <1>4, <1>9, <2>1, <2>2 DEF Work
<1>11. Bounds(Now)
    BY <1>9, NoSockIs, WatcherAssumption DEF Bounds
<1>12. Down(Now) /\ Pairs(Now) /\ Errors(Now)
    BY <1>8, <1>9 DEF Down, Pairs, Errors
<1>13. Ordered(Now)
    BY <1>9, NoSockIs, RunNone DEF Ordered, Passed
<1>14. Writes(Now) /\ Reads(Now) /\ Fed(Now, NULL)
    BY <1>8, <1>9 DEF Writes, Reads, Fed
<1>15. PendingListed(Now.d)
    BY <1>4, <1>9
<1>16. Well(Now)
    BY <1>10, <1>11, <1>12, <1>13, <1>14, <1>15 DEF Well, Base
<1>17. Listens /\ Counted
    BY <1>6, <1>7, WatcherAssumption DEF Listens, Counted, Init
<1>. QED
    BY <1>16, <1>17 DEF StreamsInv

LEMMA StutterKeeps ==
    ASSUME StreamsInv, UNCHANGED vars
    PROVE  Kept
<1>1. Now' = Now /\ Listens' = Listens /\ Counted' = Counted /\ \A s \in Stream : Live(s)' = Live(s)
    BY DEF vars, Now, Listens, Counted, Live
<1>2. Well(Now)'
    BY <1>1 DEF StreamsInv
<1>. QED
    BY <1>1, <1>2 DEF Kept, StreamsInv

LEMMA ConnectKeeps ==
    ASSUME StreamsInv, Connect
    PROVE  Kept
<1>1. Now' = Now /\ \A s \in Stream : Live(s)' = Live(s)
    BY DEF Connect, Now, Live
<1>2. Well(Now)'
    BY <1>1 DEF StreamsInv
<1>3. Listens'
    BY DEF StreamsInv, Listens, Counted, Connect
<1>4. Counted'
    BY WatcherAssumption DEF StreamsInv, Counted, Connect
<1>. QED
    BY <1>1, <1>2, <1>3, <1>4 DEF Kept, StreamsInv

\* A step of the environment gives one stream another socket.
LEMMA SocketKeeps ==
    ASSUME StreamsInv, NEW s \in Stream, NEW k, sock' = [sock EXCEPT ![s] = k],
           UNCHANGED <<d, peer, buf, backlog, conns, cut>>, Well(SetSock(Now, s, k))
    PROVE  Kept
<1>1. Now' = SetSock(Now, s, k) /\ \A y \in Stream : Live(y)' = Live(y)
    BY DEF Now, SetSock, Live
<1>2. Well(Now)'
    BY <1>1
<1>3. Listens' /\ Counted'
    BY DEF StreamsInv, Listens, Counted
<1>. QED
    BY <1>1, <1>2, <1>3 DEF Kept, StreamsInv

LEMMA RemoteKeeps ==
    ASSUME StreamsInv, NEW s \in Stream,
           RemoteSend(s) \/ RemoteRead(s) \/ RemoteEof(s) \/ RemoteReset(s)
    PROVE  Kept
<1>. DEFINE o == sock[s]
            p == peer[s]
<1>1. Well(Now) /\ Base(Now) /\ Now \in Work /\ Now.sock = sock /\ Now.peer = peer
    BY NowIs DEF StreamsInv, Well, Base
<1>2. Up(Now, s)
    BY NowIs DEF RemoteSend, RemoteRead, RemoteEof, RemoteReset, Unbroken
<1>3. /\ o \in SockSet /\ o.in \in Seq(Nat) /\ o.out \in Seq(Nat) /\ o.sent \in Nat /\ o.got \in Nat
      /\ Len(o.out) <= SockSize /\ Run(o.out, o.got) /\ Put1(Now, s) = o.got + Len(o.out)
    <2>1. Now.sock[s] = o
        BY <1>1
    <2>2. Passed(Now, s) /\ Len(Now.sock[s].out) <= SockSize
        BY <1>1 DEF Base, Ordered, Bounds
    <2>. QED
        BY <1>1, <2>1, <2>2, WorkIs DEF Passed, Put1
<1>4. p # NULL => Run(o.in, Put2(Now, p)) /\ Put2(Now, p) + Len(o.in) = o.sent /\ Put2(Now, p) \in Nat
    <2>. SUFFICES ASSUME p # NULL
                  PROVE  Run(o.in, Put2(Now, p)) /\ Put2(Now, p) + Len(o.in) = o.sent /\ Put2(Now, p) \in Nat
        OBVIOUS
    <2>1. p \in Stream /\ peer[p] = s
        BY <1>1, WorkIs DEF Base, Pairs
    <2>2. Passed(Now, p) /\ Now.peer[p] # NULL /\ Now.sock[s] = o /\ Now.peer[p] = s
        BY <1>1, <2>1, WatcherAssumption DEF Base, Ordered
    <2>3. Now.buf[p] \in Seq(Nat) /\ Now.sock[p].out \in Seq(Nat) /\ Now.sock[p].got \in Nat
        BY <1>1, <2>1, WorkIs
    <2>4. Put2(Now, p) \in Nat
        <3>. DEFINE a == Len(Now.buf[p])
                    b == Len(Now.sock[p].out)
                    c == Now.sock[p].got
        <3>1. a \in Nat /\ b \in Nat /\ c \in Nat /\ Put2(Now, p) = c + b + a
            BY <2>3 DEF Put1, Put2
        <3>. HIDE DEF a, b, c
        <3>. QED
            BY <3>1
    <2>. QED
        BY <2>2, <2>4 DEF Passed
<1>. HIDE DEF o, p
<1>5. ASSUME NEW k \in SockSet, sock' = [sock EXCEPT ![s] = k], UNCHANGED <<d, peer, buf, backlog, conns, cut>>,
             Len(k.out) <= SockSize, o.err => k.err, Run(k.out, k.got), k.got + Len(k.out) = Put1(Now, s),
             p # NULL => Run(k.in, Put2(Now, p)) /\ Put2(Now, p) + Len(k.in) = k.sent
      PROVE  Kept
    <2>1. Now.sock[s] = o /\ Now.peer[s] = p
        BY <1>1 DEF o, p
    <2>2. Well(SetSock(Now, s, k))
        BY <1>1, <1>2, <1>5, <2>1, SockIs
    <2>. QED
        BY <1>5, <2>2, SocketKeeps
<1>6. CASE RemoteSend(s)
    <2>. DEFINE in == Append(o.in, o.sent + 1)
                k1 == [o EXCEPT !.sent = o.sent + 1]
                k == [k1 EXCEPT !.in = in]
    <2>1. in \in Seq(Nat) /\ Len(in) = Len(o.in) + 1 /\ o.sent + 1 \in Nat
        BY <1>3
    <2>2. p # NULL => Run(in, Put2(Now, p)) /\ Put2(Now, p) + Len(in) = o.sent + 1
        <3>. SUFFICES ASSUME p # NULL PROVE Run(in, Put2(Now, p)) /\ Put2(Now, p) + Len(in) = o.sent + 1
            OBVIOUS
        <3>. DEFINE m == Put2(Now, p)
        <3>1. m \in Nat /\ Run(o.in, m) /\ m + Len(o.in) = o.sent
            BY <1>4
        <3>. HIDE DEF m
        <3>2. Len(o.in) \in Nat /\ in = Append(o.in, m + Len(o.in) + 1)
            BY <1>3, <3>1
        <3>. HIDE DEF in
        <3>3. Run(in, m) /\ Len(in) = Len(o.in) + 1
            BY <1>3, <3>1, <3>2, RunNext
        <3>. QED
            BY <3>1, <3>2, <3>3 DEF m
    <2>3. k1 \in SockSet /\ k1.sent = o.sent + 1 /\ k1.got = o.got /\ k1.out = o.out /\ k1.err = o.err
        BY <1>3, <2>1 DEF SockSet
    <2>4. sock' = [sock EXCEPT ![s] = k]
        BY <1>6 DEF RemoteSend, o
    <2>. HIDE DEF in, k1
    <2>5. /\ k \in SockSet /\ k.sent = o.sent + 1 /\ k.in = in /\ k.got = o.got /\ k.out = o.out
          /\ k.err = o.err
        BY <2>1, <2>3 DEF SockSet
    <2>6. UNCHANGED <<d, peer, buf, backlog, conns, cut>>
        BY <1>6 DEF RemoteSend
    <2>. HIDE DEF k
    <2>. QED
        BY <1>3, <1>5, <2>2, <2>4, <2>5, <2>6
<1>7. CASE RemoteRead(s)
    <2>. DEFINE k1 == [o EXCEPT !.out = Tail(o.out)]
                k == [k1 EXCEPT !.got = o.got + 1]
    <2>1. /\ Tail(o.out) \in Seq(Nat) /\ Len(Tail(o.out)) = Len(o.out) - 1 /\ Run(Tail(o.out), o.got + 1)
          /\ o.got + 1 \in Nat
        BY <1>3, <1>7, RunNext DEF RemoteRead, o
    <2>2. Len(o.out) \in Nat /\ SockSize \in Nat
        BY <1>3, WatcherAssumption
    <2>3. k1 \in SockSet /\ k1.sent = o.sent /\ k1.in = o.in /\ k1.out = Tail(o.out) /\ k1.err = o.err
        BY <1>3, <2>1 DEF SockSet
    <2>4. sock' = [sock EXCEPT ![s] = k]
        BY <1>7 DEF RemoteRead, o
    <2>. HIDE DEF k1
    <2>5. /\ k \in SockSet /\ k.sent = o.sent /\ k.in = o.in /\ k.got = o.got + 1 /\ k.out = Tail(o.out)
          /\ k.err = o.err
        BY <2>1, <2>3 DEF SockSet
    <2>6. UNCHANGED <<d, peer, buf, backlog, conns, cut>>
        BY <1>7 DEF RemoteRead
    <2>. HIDE DEF k
    <2>7. Len(k.out) <= SockSize /\ k.got + Len(k.out) = Put1(Now, s)
        <3>. DEFINE g == o.got
                    m == Len(o.out)
        <3>1. g \in Nat /\ m \in Nat /\ m <= SockSize /\ Put1(Now, s) = g + m /\ k.got = g + 1 /\ Len(k.out) = m - 1
            BY <1>3, <2>1, <2>2, <2>5
        <3>. HIDE DEF g, m
        <3>. QED
            BY <2>2, <3>1
    <2>. QED
        BY <1>3, <1>4, <1>5, <2>1, <2>4, <2>5, <2>6, <2>7
<1>8. CASE RemoteEof(s)
    <2>. DEFINE k == [o EXCEPT !.eof = TRUE]
    <2>1. /\ k \in SockSet /\ k.sent = o.sent /\ k.in = o.in /\ k.got = o.got /\ k.out = o.out
          /\ k.err = o.err
        BY <1>3 DEF SockSet
    <2>2. sock' = [sock EXCEPT ![s] = k] /\ UNCHANGED <<d, peer, buf, backlog, conns, cut>>
        BY <1>8 DEF RemoteEof, o
    <2>. HIDE DEF k
    <2>. QED
        BY <1>3, <1>4, <1>5, <2>1, <2>2
<1>9. CASE RemoteReset(s)
    <2>. DEFINE k == [o EXCEPT !.err = TRUE]
    <2>1. k \in SockSet /\ k.sent = o.sent /\ k.in = o.in /\ k.got = o.got /\ k.out = o.out /\ k.err
        BY <1>3 DEF SockSet
    <2>2. sock' = [sock EXCEPT ![s] = k] /\ UNCHANGED <<d, peer, buf, backlog, conns, cut>>
        BY <1>9 DEF RemoteReset, o
    <2>. HIDE DEF k
    <2>. QED
        BY <1>3, <1>4, <1>5, <2>1, <2>2
<1>. QED
    BY <1>6, <1>7, <1>8, <1>9

LEMMA ReadyIs ==
    ASSUME NEW x \in Fde
    PROVE  /\ Ready(x) \in SUBSET Event
           /\ x \in Stream => ("ERROR" \in Ready(x) => sock[x].err)
           /\ x = Listener => (Ready(x) # {} => backlog > 0)
<1>1. x \in Stream => x # Listener
    BY WatcherAssumption
<1>2. "READ" \in Event /\ "WRITE" \in Event /\ "ERROR" \in Event
    BY DEF Event
<1>3. CASE x = Listener
    BY <1>1, <1>2, <1>3 DEF Ready
<1>4. CASE x # Listener
    <2>. DEFINE k == sock[x]
                r == IF k.in # <<>> \/ k.eof \/ k.err THEN d.fde[x].wanted \cap {"READ"} ELSE {}
                t == IF Len(k.out) < SockSize \/ k.err THEN d.fde[x].wanted \cap {"WRITE"} ELSE {}
                z == IF k.err THEN {"ERROR"} ELSE {}
    <2>1. Ready(x) = r \cup t \cup z
        BY <1>4 DEF Ready
    <2>2. r \subseteq {"READ"} /\ t \subseteq {"WRITE"} /\ z \subseteq {"ERROR"} /\ (z # {} => k.err)
        OBVIOUS
    <2>. HIDE DEF r, t, z
    <2>3. "ERROR" \in Ready(x) => "ERROR" \in z
        BY <2>1, <2>2
    <2>. QED
        BY <1>2, <1>4, <2>1, <2>2, <2>3
<1>. QED
    BY <1>3, <1>4

LEMMA PollKeeps ==
    ASSUME StreamsInv, Poll
    PROVE  Kept
<1>. DEFINE ready == [x \in Fde |-> IF d.fde[x].active THEN Ready(x) ELSE {}]
            S == NotDue(d, ready)
<1>1. Well(Now) /\ Base(Now) /\ d \in Dispatcher /\ PendingListed(d) /\ Now.d = d /\ Now \in Work
    BY NowIs DEF StreamsInv, Well, Base, Work
<1>2. d.plist = <<>> /\ UNCHANGED <<peer, buf, sock, backlog, conns, cut>>
      /\ \E q \in SetToSeqs(S) : d' = Process(d, q, ready)
    BY DEF Poll, NotDue
<1>3. PICK q \in SetToSeqs(S) : d' = Process(d, q, ready)
    BY <1>2
<1>4. /\ ready \in [Fde -> SUBSET Event] /\ \A x \in Fde : ready[x] # {} => d.fde[x].active
      /\ \A s \in Stream : "ERROR" \in ready[s] => sock[s].err
      /\ ready[Listener] # {} => backlog > 0
    <2>1. \A x \in Fde : ready[x] \in SUBSET Event /\ (ready[x] # {} => d.fde[x].active /\ ready[x] = Ready(x))
        BY ReadyIs
    <2>2. Listener \in Fde /\ \A s \in Stream : s \in Fde
        BY DEF Fde
    <2>3. \A s \in Stream : "ERROR" \in ready[s] => sock[s].err
        BY <2>1, <2>2, ReadyIs
    <2>4. ready[Listener] # {} => backlog > 0
        BY <2>1, <2>2, ReadyIs
    <2>. QED
        BY <2>1, <2>3, <2>4
<1>. HIDE DEF ready
<1>5. /\ d' \in Dispatcher /\ PendingListed(d')
      /\ \A x \in Fde : /\ d'.fde[x].active = d.fde[x].active /\ d'.fde[x].wanted = d.fde[x].wanted
                        /\ d'.fde[x].events = d.fde[x].events \cup ready[x]
                        /\ d'.fde[x].pending <=> ready[x] # {}
    BY <1>1, <1>2, <1>3, <1>4, ProcessIs
<1>6. Listener \in Fde /\ \A s \in Stream : s \in Fde
    BY DEF Fde
<1>7. Alike(d', Now) /\ \A s \in Stream : d'.fde[s].wanted = Now.d.fde[s].wanted
    <2>1. \A s \in Stream : "ERROR" \in d.fde[s].events => sock[s].err
        BY <1>1, NowIs DEF Base, Errors
    <2>. QED
        BY <1>1, <1>4, <1>5, <1>6, <2>1, NowIs DEF Alike
<1>8. Well(SetD(Now, d'))
    BY <1>1, <1>5, <1>7, LikeIs
<1>9. Now' = SetD(Now, d')
    BY <1>2 DEF Now, SetD
<1>10. Well(Now)'
    BY <1>8, <1>9
<1>11. Listens' /\ Counted'
    BY <1>2, <1>4, <1>5, <1>6 DEF StreamsInv, Listens, Counted
<1>12. \A s \in Stream : Live(s)' = Live(s)
    BY <1>5, <1>6 DEF Live
<1>. QED
    BY <1>10, <1>11, <1>12 DEF Kept, StreamsInv

LEMMA AcceptKeeps ==
    ASSUME StreamsInv, NEW connects \in BOOLEAN, Accept(connects)
    PROVE  Kept
<1>. DEFINE free == {s \in Stream : ~Live(s)}
            a == Min(free)
            b == Min(free \ {a})
            wanted == {"READ", "ERROR"}
            e == Dequeue(d)
            w == SetD(Now, e)
<1>1. Well(Now) /\ d \in Dispatcher /\ PendingListed(d) /\ Now.d = d /\ Now \in Work
    BY NowIs DEF StreamsInv, Well, Base, Work
<1>2. d.plist # <<>> /\ Head(d.plist) = Listener /\ UNCHANGED <<buf, sock, conns, cut>>
      /\ backlog' = backlog - (IF free = {} THEN 0 ELSE 1)
    BY DEF Accept
<1>3. /\ e \in Dispatcher /\ PendingListed(e) /\ d.fde[Listener].pending
      /\ e.fde[Listener].active = d.fde[Listener].active /\ ~e.fde[Listener].pending
      /\ \A y \in Fde \ {Listener} : e.fde[y] = d.fde[y]
    BY <1>1, <1>2, DequeueIs
<1>. HIDE DEF e
<1>4. Well(w) /\ w.d = e /\ w.peer = peer /\ \A s \in Stream : Up(w, s) = Live(s)
    <2>1. Well(SetD(Now, Dequeue(Now.d))) /\ SetD(Now, Dequeue(Now.d)).d = Dequeue(Now.d)
          /\ \A s \in Stream : Up(SetD(Now, Dequeue(Now.d)), s) = Up(Now, s)
        BY <1>1, <1>2, DequeuedIs
    <2>2. w.peer = peer
        BY NowIs DEF SetD, Now
    <2>. QED
        BY <1>1, <2>1, <2>2, NowIs DEF e
<1>5. \A s \in Stream : s \in Fde \ {Listener}
    BY WatcherAssumption DEF Fde
<1>6. Counted'
    <2>1. backlog > 0
        BY <1>3 DEF StreamsInv, Listens
    <2>. HIDE DEF free
    <2>. QED
        BY <1>2, <2>1 DEF StreamsInv, Counted
<1>7. CASE connects /\ Cardinality(free) >= 2
    <2>1. /\ d' = FdeSet(FdeSet(Install(Install(e, a), b), a, wanted), b, wanted)
          /\ peer' = [peer EXCEPT ![a] = b, ![b] = a]
        BY <1>7 DEF Accept, e
    <2>2. a \in free /\ b \in free /\ a # b
        <3>1. free \in SUBSET Nat /\ IsFiniteSet(free)
            BY WatcherAssumption, FS_Subset
        <3>. HIDE DEF free
        <3>2. free # {}
            BY <1>7, FS_EmptySet
        <3>3. a \in free
            BY <3>1, <3>2, LeastIs
        <3>. HIDE DEF a
        <3>4. free \ {a} # {}
            <4>. SUFFICES ASSUME free \ {a} = {} PROVE FALSE
                OBVIOUS
            <4>1. free = {a}
                BY <3>3
            <4>2. Cardinality(free) = 1
                BY <4>1, FS_Singleton
            <4>. QED
                BY <1>7, <4>2
        <3>5. b \in free \ {a}
            BY <3>1, <3>4, LeastIs
        <3>. QED
            BY <3>3, <3>5
    <2>3. a \in Stream /\ b \in Stream /\ ~Live(a) /\ ~Live(b) /\ a # b
        BY <2>2
    <2>4. wanted \in SUBSET Event /\ "READ" \in wanted
        BY DEF Event
    <2>. HIDE DEF a, b, wanted, free
    <2>5. /\ d' \in Dispatcher /\ PendingListed(d')
          /\ \A y \in {a, b} : d'.fde[y].active /\ d'.fde[y].wanted = wanted /\ d'.fde[y].events = {}
          /\ \A y \in Fde \ {a, b} : d'.fde[y] = e.fde[y]
        <3>1. a \in Fde /\ b \in Fde /\ ~e.fde[a].active /\ ~e.fde[b].active
            BY <1>3, <1>5, <2>3 DEF Live
        <3>. QED
            BY <1>3, <2>1, <2>3, <2>4, <3>1, BothIs
    <2>6. Now' = Joined(w, d', a, b)
        BY <1>2, <2>1 DEF Now, SetD, Joined
    <2>7. Well(Joined(w, d', a, b))
        <3>1. \A y \in Stream \ {a, b} : d'.fde[y] = w.d.fde[y]
            BY <1>4, <1>5, <2>5
        <3>2. /\ d'.fde[a].active /\ d'.fde[b].active
              /\ "READ" \in d'.fde[a].wanted /\ "READ" \in d'.fde[b].wanted
              /\ "ERROR" \notin d'.fde[a].events /\ "ERROR" \notin d'.fde[b].events
            BY <2>4, <2>5
        <3>3. ~Up(w, a) /\ ~Up(w, b)
            BY <1>4, <2>3
        <3>. HIDE DEF w
        <3>. QED
            BY <1>4, <2>3, <2>5, <3>1, <3>2, <3>3, JoinedIs
    <2>8. Well(Now)'
        BY <2>6, <2>7
    <2>9. d'.fde[Listener] = e.fde[Listener]
        BY <1>5, <2>3, <2>5 DEF Fde
    <2>10. \A s \in Stream : Live(s) => Live(s)'
        <3>1. \A s \in Stream : Live(s) => s \notin {a, b} /\ s \in Fde \ {a, b}
            BY <1>5, <2>3
        <3>. QED
            BY <1>3, <1>5, <2>5, <3>1 DEF Live
    <2>11. Listens'
        BY <1>3, <2>9 DEF StreamsInv, Listens
    <2>. QED
        BY <1>6, <2>8, <2>10, <2>11 DEF Kept, StreamsInv
<1>8. CASE ~(connects /\ Cardinality(free) >= 2)
    <2>1. d' = e /\ peer' = peer
        BY <1>8 DEF Accept, e
    <2>2. Now' = w
        BY <1>2, <2>1 DEF Now, SetD
    <2>3. Well(Now)'
        BY <1>4, <2>2
    <2>4. Listens'
        BY <1>3, <2>1 DEF StreamsInv, Listens
    <2>5. \A s \in Stream : Live(s)' = Live(s)
        BY <1>3, <1>5, <2>1 DEF Live
    <2>. QED
        BY <1>6, <2>3, <2>4, <2>5 DEF Kept, StreamsInv
<1>. QED
    BY <1>7, <1>8

LEMMA CallbackKeeps ==
    ASSUME StreamsInv, Callback
    PROVE  Kept
<1>. DEFINE s == Head(d.plist)
            e == Dequeue(d)
            u == [d |-> e, peer |-> peer, buf |-> buf, sock |-> sock, cut |-> cut]
            events == d.fde[s].events
            v == Io(u, s, events)
<1>1. Well(Now) /\ d \in Dispatcher /\ PendingListed(d) /\ Now.d = d
    BY NowIs DEF StreamsInv, Well, Base, Work
<1>2. d.plist # <<>> /\ s # Listener /\ UNCHANGED <<backlog, conns>>
      /\ d' = v.d /\ peer' = v.peer /\ buf' = v.buf /\ sock' = v.sock /\ cut' = v.cut
    BY DEF Callback
<1>3. /\ s \in Fde /\ d.fde[s].pending /\ \A y \in Fde \ {s} : e.fde[y] = d.fde[y]
    BY <1>1, <1>2, DequeueIs
<1>4. s \in Stream
    BY <1>2, <1>3 DEF Fde
<1>. HIDE DEF e, v
<1>5. Well(u) /\ \A y \in Stream : Up(u, y) = Live(y)
    <2>1. Well(SetD(Now, Dequeue(Now.d))) /\ \A y \in Stream : Up(SetD(Now, Dequeue(Now.d)), y) = Up(Now, y)
        BY <1>1, <1>2, DequeuedIs
    <2>2. SetD(Now, e) = u
        BY DEF Now, SetD
    <2>. QED
        BY <1>1, <2>1, <2>2, NowIs DEF e
<1>6. Up(u, s)
    <2>1. d.fde[s].active
        BY <1>1, <1>3, ListedIs
    <2>. QED
        BY <1>4, <1>5, <2>1 DEF Live
<1>7. "ERROR" \in events => u.sock[s].err
    BY <1>1, <1>4, NowIs DEF Well, Base, Errors
<1>8. u.d = e
    OBVIOUS
<1>9. \A y \in Stream : Excused(u, y) = Excused(Now, y)
    BY NowIs DEF Excused
<1>. HIDE DEF u, s, events
<1>10. /\ Base(v) /\ Writes(v) /\ Reads(v) /\ Fed(v, NULL) /\ v.d.fde[Listener] = u.d.fde[Listener]
       /\ \A y \in Stream : Up(u, y) /\ ~Up(v, y) => Excused(u, y)
    <2>1. v = Io(u, s, events)
        BY DEF v
    <2>2. Base(u) /\ Writes(u) /\ Reads(u) /\ Fed(u, NULL)
        BY <1>5 DEF Well
    <2>. QED
        BY <1>4, <1>6, <1>7, <2>1, <2>2, IoIs
<1>11. Now' = v
    <2>1. v \in Work
        BY <1>10 DEF Base
    <2>2. v = [d |-> v.d, peer |-> v.peer, buf |-> v.buf, sock |-> v.sock, cut |-> v.cut]
        BY <2>1 DEF Work
    <2>. QED
        BY <1>2, <2>2 DEF Now
<1>12. Well(Now)'
    BY <1>10, <1>11 DEF Well
<1>13. Listens' /\ Counted'
    <2>1. Listener \in Fde \ {s}
        BY <1>2 DEF Fde, s
    <2>2. d'.fde[Listener] = d.fde[Listener]
        BY <1>2, <1>3, <1>8, <1>10, <2>1
    <2>. QED
        BY <1>2, <2>2 DEF StreamsInv, Listens, Counted
<1>14. \A y \in Stream : Live(y)' = Up(v, y)
    BY <1>2 DEF Live, Up
<1>15. \A y \in Stream : Live(y) /\ ~Live(y)' => Excused(Now, y)
    BY <1>5, <1>9, <1>10, <1>14
<1>. QED
    BY <1>12, <1>13, <1>15 DEF Kept, StreamsInv

LEMMA StepKeeps ==
    ASSUME StreamsInv, [Next]_vars
    PROVE  Kept
<1>1. CASE Connect
    BY <1>1, ConnectKeeps
<1>2. CASE Poll
    BY <1>2, PollKeeps
<1>3. CASE Callback
    BY <1>3, CallbackKeeps
<1>4. ASSUME NEW connects \in BOOLEAN, Accept(connects) PROVE Kept
    BY <1>4, AcceptKeeps
<1>5. ASSUME NEW s \in Stream, RemoteSend(s) \/ RemoteRead(s) \/ RemoteEof(s) \/ RemoteReset(s) PROVE Kept
    BY <1>5, RemoteKeeps
<1>6. CASE UNCHANGED vars
    BY <1>6, StutterKeeps
<1>. QED
    BY <1>1, <1>2, <1>3, <1>4, <1>5, <1>6 DEF Next, Loop

\* What happens to memory that was freed.
LateInv == up \in BOOLEAN /\ late \subseteq {"clear"} /\ (up \/ "clear" \in late)

LEMMA LateKeeps ==
    ASSUME StreamsInv, LateInv, [Next]_vars
    PROVE  LateInv'
<1>1. CASE UNCHANGED <<up, late>>
    BY <1>1 DEF LateInv
<1>2. CASE Callback
    <2>. DEFINE s == Head(d.plist)
                e == Dequeue(d)
                events == d.fde[s].events
                u == [d |-> e, peer |-> peer, buf |-> buf, sock |-> sock, cut |-> cut]
                freed == Late(u, s, events)
    <2>1. /\ d.plist # <<>> /\ s # Listener /\ late' = late \cup freed
          /\ up' \in (IF freed = {} THEN {TRUE} ELSE BOOLEAN)
        BY <1>2 DEF Callback
    <2>2. Well(Now) /\ d \in Dispatcher /\ PendingListed(d) /\ Now.d = d /\ Now \in Work /\ Pairs(Now)
        BY NowIs DEF StreamsInv, Well, Base, Work
    <2>3. s \in Fde /\ e.fde[s].active = d.fde[s].active /\ \A y \in Fde \ {s} : e.fde[y] = d.fde[y]
        BY <2>1, <2>2, DequeueIs
    <2>4. s \in Stream
        BY <2>1, <2>3 DEF Fde
    <2>5. peer[s] # NULL => e.fde[peer[s]].active
        <3>1. SUFFICES ASSUME peer[s] # NULL PROVE e.fde[peer[s]].active
            OBVIOUS
        <3>2. peer[s] \in Stream /\ Now.peer[s] = peer[s]
            BY <2>2, <2>4, <3>1, WorkIs, NowIs
        <3>3. Up(Now, peer[s])
            BY <2>2, <2>4, <3>1, <3>2 DEF Pairs
        <3>4. peer[s] \in Fde /\ d.fde[peer[s]].active
            BY <2>2, <3>2, <3>3 DEF Up, Fde
        <3>. QED
            BY <2>3, <3>4
    <2>6. u.d = e /\ u.peer = peer
        OBVIOUS
    <2>. HIDE DEF e, u, s, events
    <2>7. freed \subseteq {"clear"}
        BY <2>5, <2>6 DEF Late
    <2>. HIDE DEF freed
    <2>. QED
        BY <2>1, <2>7 DEF LateInv
<1>3. ASSUME NEW connects \in BOOLEAN, Accept(connects) PROVE UNCHANGED <<up, late>>
    BY <1>3 DEF Accept
<1>4. CASE Connect \/ Poll \/ UNCHANGED vars
    BY <1>1, <1>4 DEF Connect, Poll, vars
<1>5. ASSUME NEW s \in Stream, RemoteSend(s) \/ RemoteRead(s) \/ RemoteEof(s) \/ RemoteReset(s)
      PROVE  UNCHANGED <<up, late>>
    BY <1>5 DEF RemoteSend, RemoteRead, RemoteEof, RemoteReset
<1>. QED
    BY <1>1, <1>2, <1>3, <1>4, <1>5 DEF Next, Loop

-----------------------------------------------------------------------------
(* What the invariant says.                                                 *)

LEMMA SoundIs ==
    ASSUME StreamsInv, LateInv
    PROVE  StreamsSound /\ BytesInOrder
<1>1. /\ Base(Now) /\ Writes(Now) /\ Reads(Now) /\ Fed(Now, NULL) /\ Now \in Work /\ NULL \notin Stream
      /\ Now.d = d /\ Now.peer = peer /\ Now.buf = buf /\ Now.sock = sock /\ Now.cut = cut
      /\ \A s \in Stream : Live(s) = Up(Now, s)
    BY NowIs, WatcherAssumption DEF StreamsInv, Well, Base
<1>2. TypeOK
    <2>1. d \in Dispatcher /\ peer \in [Stream -> Stream \cup {NULL}] /\ cut \subseteq Stream
        BY <1>1 DEF Work
    <2>2. backlog \in 0..MaxConns /\ conns \in 0..MaxConns
        BY WatcherAssumption DEF StreamsInv, Counted
    <2>3. \A s \in Stream : Len(buf[s]) <= BufSize /\ Len(sock[s].out) <= SockSize
        BY <1>1 DEF Base, Bounds
    <2>. QED
        BY <2>1, <2>2, <2>3 DEF TypeOK, LateInv
<1>3. PendingSound
    BY <1>1 DEF Base, PendingSound
<1>4. PeersSound
    <2>1. \A s \in Stream : peer[s] # NULL => peer[s] \in Stream
        BY <1>1, WorkIs
    <2>2. \A s \in Stream : peer[s] # NULL => Live(s) /\ Live(peer[s]) /\ peer[peer[s]] = s
        BY <1>1, <2>1 DEF Base, Pairs
    <2>3. \A s \in Stream : Live(s) /\ peer[s] = NULL => buf[s] # <<>>
        BY <1>1 DEF Fed
    <2>. QED
        BY <2>2, <2>3 DEF PeersSound
<1>5. TurnsKept
    BY <1>1 DEF Writes, Reads, TurnsKept
<1>6. BytesInOrder
    <2>. SUFFICES ASSUME NEW s \in Stream
                  PROVE LET after == IF peer[s] = NULL THEN <<>> ELSE sock[peer[s]].in
                            way == sock[s].out \o buf[s] \o after
                        IN  /\ \A i \in DOMAIN way : way[i] = sock[s].got + i
                            /\ peer[s] # NULL => sock[s].got + Len(way) = sock[peer[s]].sent
        BY DEF BytesInOrder
    <2>. DEFINE out == sock[s].out
                g == sock[s].got
                rest == buf[s]
                after == IF peer[s] = NULL THEN <<>> ELSE sock[peer[s]].in
                first == out \o rest
                way == first \o after
    <2>1. out \in Seq(Nat) /\ rest \in Seq(Nat) /\ g \in Nat /\ peer[s] \in Stream \cup {NULL}
        BY <1>1, WorkIs
    <2>2. Passed(Now, s) /\ Put1(Now, s) = g + Len(out) /\ Put2(Now, s) = g + Len(out) + Len(rest)
        BY <1>1 DEF Base, Ordered, Put1, Put2
    <2>3. Run(out, g) /\ Run(rest, g + Len(out))
        BY <1>1, <2>2 DEF Passed
    <2>4. after \in Seq(Nat) /\ Run(after, g + Len(out) + Len(rest))
          /\ (peer[s] # NULL => g + Len(out) + Len(rest) + Len(after) = sock[peer[s]].sent)
        <3>1. CASE peer[s] = NULL
            <4>1. after = <<>>
                BY <3>1
            <4>2. <<>> \in Seq(Nat)
                OBVIOUS
            <4>3. after \in Seq(Nat)
                BY <4>1, <4>2
            <4>. QED
                BY <3>1, <4>1, <4>3, RunNone
        <3>2. CASE peer[s] # NULL
            <4>1. after = sock[peer[s]].in /\ peer[s] \in Stream
                BY <2>1, <3>2
            <4>2. after \in Seq(Nat)
                BY <1>1, <4>1, WorkIs
            <4>. QED
                BY <1>1, <2>2, <3>2, <4>1, <4>2 DEF Passed
        <3>. QED
            BY <3>1, <3>2
    <2>. HIDE DEF out, g, rest, after
    <2>5. first \in Seq(Nat) /\ Len(first) = Len(out) + Len(rest) /\ Run(first, g)
        BY <2>1, <2>3, RunJoin
    <2>. HIDE DEF first
    <2>6. Len(out) \in Nat /\ Len(rest) \in Nat /\ Len(after) \in Nat
        BY <2>1, <2>4
    <2>7. g + Len(out) + Len(rest) = g + Len(first)
        BY <2>1, <2>5, <2>6
    <2>8. way \in Seq(Nat) /\ Len(way) = Len(first) + Len(after) /\ Run(way, g)
        BY <2>1, <2>4, <2>5, <2>7, RunJoin
    <2>9. peer[s] # NULL => g + Len(way) = sock[peer[s]].sent
        BY <2>1, <2>4, <2>5, <2>6, <2>8
    <2>. HIDE DEF way
    <2>10. \A i \in DOMAIN way : way[i] = g + i
        BY <2>8 DEF Run
    <2>. QED
        BY <2>9, <2>10 DEF way, first, out, rest, after, g
<1>7. FreedLeftAlone
    BY DEF LateInv, FreedLeftAlone
<1>. QED
    BY <1>2, <1>3, <1>4, <1>5, <1>6, <1>7 DEF StreamsSound

\* No callback throws a rest away.
LEMMA RestIs ==
    ASSUME Kept
    PROVE  \A s \in Stream :
             Live(s) /\ buf[s] # <<>> /\ ~Live(s)' => sock[s].eof \/ sock[s].err
                                                      \/ Len(buf[s]) + Len(sock[s].out) <= SockSize
BY NowIs DEF Kept, Excused

LEMMA StreamsInvariance == Spec => [](StreamsInv /\ LateInv)
<1>1. Init => StreamsInv /\ LateInv
    BY InitKeeps DEF Init, LateInv
<1>2. StreamsInv /\ LateInv /\ [Next]_vars => StreamsInv' /\ LateInv'
    BY StepKeeps, LateKeeps DEF Kept
<1>. QED
    BY <1>1, <1>2, PTL DEF Spec

\* Whatever callbacks do to each other's streams and fdevents, the loop calls only
\* live ones, on a sound list, and each stream is watched for what it needs
\* (fdevent_loop, fdevent_set, fdevent_remove, astream_io_cb, astream_destroy); no
\* callback touches a stream that was freed, but for astream_destroy, which clears the
\* pointer of the peer it has just freed: for any number of streams and any sizes.
THEOREM ProxySound == Spec => []StreamsSound
<1>1. StreamsInv /\ LateInv => StreamsSound
    BY SoundIs
<1>. QED
    BY <1>1, StreamsInvariance, PTL

\* The proxy passes on what it reads, in order, and drops no rest that the other
\* end still takes (astream_io_cb, astream_destroy).
THEOREM ProxyKeepsBytes == Spec => BytesKept
<1>1. StreamsInv /\ LateInv => BytesInOrder
    BY SoundIs
<1>2. StreamsInv /\ [Next]_vars =>
        [\A s \in Stream :
           Live(s) /\ buf[s] # <<>> /\ ~Live(s)' => sock[s].eof \/ sock[s].err
                                                    \/ Len(buf[s]) + Len(sock[s].out) <= SockSize]_vars
    BY StepKeeps, RestIs
<1>. QED
    BY <1>1, <1>2, StreamsInvariance, PTL DEF Spec, BytesKept, RestKept
=============================================================================
