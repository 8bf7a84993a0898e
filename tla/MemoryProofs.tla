---------------------------- MODULE MemoryProofs ----------------------------
(***************************************************************************)
(* The fish tank: a fish is in one tank or on its way, once, and each tank  *)
(* counts its own: for any number of tanks, fish and packets, and any fate  *)
(* of the packets. The kernel's memory: each page and block has one holder, *)
(* for any number of pages and pools and any order of the calls.            *)
(***************************************************************************)
EXTENDS FishTank, Kmem, FunctionTheorems, FiniteSetTheorems, SequenceTheorems, TLAPS

Place == Int \X Int
FishState == [id : Fish \cup {Rubbish}, uid : UidType, state : {"DEAD", "LIVE", "XMIT"},
              xt : Nat, dest : Dir \cup {"unset"}, held : BOOLEAN]
Hand == [pc : {"recv", "sync", "insert"}, fish : Fish \cup {Rubbish, NoFish}, uid : UidType,
         peer : Place, welcome : BOOLEAN, freed : BOOLEAN]
PacketSet == [type : {"PING", "PONG", "SEND", "ACK", "SYNC"}, from : Place, to : Place,
              uid : UidType, fish : Fish \cup {Rubbish, NoFish}, seen : BOOLEAN]
Beside4 == [Dir -> [live : BOOLEAN, to : Place]]

Walk == [pc : {"sleep", "walk"}, f : Nat, lf : Nat]
Fates == {"unborn", "kept", "purged", "lost", "freed", "left out"}

MapTypes == my \in [Tank -> Place] /\ ticks \in [Tank -> Nat] /\ cnxn \in [Tank -> Beside4]
ListTypes == fishes \in [Tank -> Seq(FishState)] /\ count \in [Tank -> Int]
FateTypes == fate \in [Fish -> Fates] /\ doubled \subseteq Fish \cup {Rubbish} /\ skewed \subseteq Tank

\* A walk has its lf behind it.
WalkTypes == walk \in [Tank -> Walk] /\ \A k \in Tank : walk[k].pc = "walk" => walk[k].lf < walk[k].f

\* What fishmain has in its hands, and what a SYNC carries, is a fish.
HandTypes == main \in [Tank -> Hand] /\ \A k \in Tank : main[k].pc # "recv" => main[k].fish # NoFish
NetTypes == net \subseteq PacketSet /\ \A p \in net : p.type = "SYNC" => p.fish # NoFish

TankTypes == MapTypes /\ ListTypes /\ FateTypes /\ WalkTypes /\ HandTypes /\ NetTypes

LEMMA TypesFollow == TankTypes => FishTypeOK
BY DEF TankTypes, MapTypes, ListTypes, FateTypes, WalkTypes, HandTypes, NetTypes,
       FishTypeOK, Place, FishState, Hand, PacketSet, Beside4, Walk, Fates

LEMMA ListOf ==
    ASSUME NEW S, NEW n \in Nat, NEW q, q = [i \in 1..n |-> q[i]], \A i \in 1..n : q[i] \in S
    PROVE  q \in Seq(S)
<1>1. q \in [1..n -> S]
    OBVIOUS
<1>. QED
    BY <1>1, SeqDef

LEMMA BesideType ==
    ASSUME NEW spot \in Place
    PROVE  Unknown(spot) \in Beside4
<1>1. \A d \in Dir : Beside(spot, d) \in Place
    BY DEF Dir, Beside, Place
<1>. QED
    BY <1>1 DEF Unknown, Beside4

LEMMA SettankType ==
    ASSUME NEW c \in Beside4, NEW from
    PROVE  settank(c, from) \in Beside4
BY DEF settank, Beside4

LEMMA UidIs ==
    ASSUME NEW spot \in Place, NEW time \in Nat
    PROVE  Uid(spot, time) \in UidType
BY DEF Uid, UidType, Place

LEMMA PacketIs ==
    ASSUME NEW type \in {"PING", "PONG", "SEND", "ACK", "SYNC"}, NEW from \in Place, NEW to \in Place,
           NEW uid \in UidType, NEW id \in Fish \cup {Rubbish, NoFish}
    PROVE  /\ Packet(type, from, to, uid, id) \in PacketSet
           /\ Packet(type, from, to, uid, id).type = type /\ Packet(type, from, to, uid, id).fish = id
           /\ Packet(type, from, to, uid, id).seen = FALSE
BY DEF Packet, PacketSet

LEMMA PingsAre ==
    ASSUME NEW spot \in Place, NEW c \in Beside4
    PROVE  Pings(spot, c) \subseteq PacketSet /\ \A p \in Pings(spot, c) : p.type = "PING"
<1>. SUFFICES ASSUME NEW p \in Pings(spot, c) PROVE p \in PacketSet /\ p.type = "PING"
    OBVIOUS
<1>1. PICK d \in Dir : p = Packet("PING", spot, c[d].to, NoUid, NoFish)
    BY DEF Pings
<1>2. c[d].to \in Place /\ <<0, 0>> \in Place
    BY DEF Beside4, Place
<1>3. NoUid \in UidType /\ 0 \in Nat
    BY <1>2, UidIs DEF NoUid
<1>. DEFINE to == c[d].to
<1>4. to \in Place
    BY <1>2
<1>. HIDE DEF to
<1>5. /\ Packet("PING", spot, to, NoUid, NoFish) \in PacketSet
      /\ Packet("PING", spot, to, NoUid, NoFish).type = "PING"
    BY <1>3, <1>4 DEF Packet, PacketSet
<1>. QED
    BY <1>1, <1>5 DEF to

LEMMA NewFishIs ==
    ASSUME NEW id \in Fish \cup {Rubbish}, NEW uid \in UidType
    PROVE  /\ NewFish(id, uid) \in FishState /\ NewFish(id, uid).id = id
           /\ NewFish(id, uid).state = "LIVE"
BY DEF NewFish, FishState

LEMMA ReceivedIs ==
    ASSUME net \subseteq PacketSet, NEW p \in net, NEW twice \in BOOLEAN
    PROVE  /\ Received(p, twice) \subseteq PacketSet
           /\ \A q \in Received(p, twice) : \/ q \in net /\ q # p
                                            \/ q.type = p.type /\ q.fish = p.fish /\ q.seen
           /\ \A q \in net : q # p => q \in Received(p, twice)
<1>1. p \in PacketSet
    OBVIOUS
<1>2. [p EXCEPT !.seen = TRUE] \in PacketSet /\ [p EXCEPT !.seen = TRUE].type = p.type
      /\ [p EXCEPT !.seen = TRUE].fish = p.fish /\ [p EXCEPT !.seen = TRUE].seen
    BY <1>1 DEF PacketSet
<1>. QED
    BY <1>1, <1>2 DEF Received

LEMMA InRecvIs == InRecv \in Hand
<1>1. <<0, 0>> \in Place
    BY DEF Place
<1>2. NoUid \in UidType
    BY <1>1, UidIs DEF NoUid
<1>. QED
    BY <1>1, <1>2 DEF InRecv, Hand

LEMMA ShippedIs ==
    ASSUME NEW o \in FishState, NEW now \in Nat
    PROVE  Shipped(o, now) \in FishState /\ Shipped(o, now).id = o.id /\ Shipped(o, now).state = "XMIT"
<1>1. now + TIMEOUT \in Nat
    BY FishAssumption
<1>. QED
    BY <1>1 DEF Shipped, FishState

LEMMA FirstLiveIs ==
    ASSUME NEW c \in Beside4, \E d \in Dir : c[d].live
    PROVE  FirstLive(c) \in Dir
<1>. DEFINE S == {i \in 1..4 : c[Order[i]].live}
<1>1. \E i \in 1..4 : i \in S
    <2>1. \A d \in Dir : \E i \in 1..4 : Order[i] = d
        BY DEF Dir, Order
    <2>. QED
        BY <2>1
<1>2. \E i \in S : \A j \in S : i <= j
    <2>1. CASE 1 \in S
        BY <2>1
    <2>2. CASE 1 \notin S /\ 2 \in S
        BY <2>2
    <2>3. CASE 1 \notin S /\ 2 \notin S /\ 3 \in S
        BY <2>3
    <2>4. CASE 1 \notin S /\ 2 \notin S /\ 3 \notin S /\ 4 \in S
        BY <2>4
    <2>. QED
        BY <1>1, <2>1, <2>2, <2>3, <2>4
<1>3. Min(S) \in 1..4
    BY <1>2 DEF Min
<1>4. \A i \in 1..4 : Order[i] \in Dir
    BY DEF Dir, Order
<1>. QED
    BY <1>3, <1>4 DEF FirstLive

LEMMA WayIs ==
    ASSUME NEW c, NEW out \in SUBSET Dir
    PROVE  Way(c, out) = "none" \/ Way(c, out) \in Dir
BY DEF Way

-----------------------------------------------------------------------------
(* Types.                                                                   *)

\* What the types say of the tank of an action.
LEMMA TypesOf ==
    ASSUME TankTypes, NEW k \in Tank
    PROVE  /\ my[k] \in Place /\ ticks[k] \in Nat /\ cnxn[k] \in Beside4
           /\ fishes[k] \in Seq(FishState) /\ count[k] \in Int /\ main[k] \in Hand
           /\ main[k].pc # "recv" => main[k].fish # NoFish
           /\ walk[k] \in Walk /\ walk[k].f \in Nat /\ walk[k].lf \in Nat
           /\ walk[k].pc = "walk" => walk[k].lf < walk[k].f
<1>1. my[k] \in Place /\ ticks[k] \in Nat /\ cnxn[k] \in Beside4
    BY DEF TankTypes, MapTypes
<1>2. fishes[k] \in Seq(FishState) /\ count[k] \in Int
    BY DEF TankTypes, ListTypes
<1>3. main[k] \in Hand /\ (main[k].pc # "recv" => main[k].fish # NoFish)
    BY DEF TankTypes, HandTypes
<1>4. walk[k] \in Walk /\ (walk[k].pc = "walk" => walk[k].lf < walk[k].f)
    BY DEF TankTypes, WalkTypes
<1>. QED
    BY <1>1, <1>2, <1>3, <1>4 DEF Walk

LEMMA Untouched ==
    ASSUME TankTypes
    PROVE  /\ UNCHANGED <<my, ticks, cnxn>> => MapTypes'
           /\ UNCHANGED <<fishes, count>> => ListTypes'
           /\ UNCHANGED <<fate, doubled, skewed>> => FateTypes'
           /\ UNCHANGED walk => WalkTypes'
           /\ UNCHANGED main => HandTypes'
           /\ UNCHANGED net => NetTypes'
<1>1. UNCHANGED <<my, ticks, cnxn>> => MapTypes'
    BY DEF TankTypes, MapTypes
<1>2. UNCHANGED <<fishes, count>> => ListTypes'
    BY DEF TankTypes, ListTypes
<1>3. UNCHANGED <<fate, doubled, skewed>> => FateTypes'
    BY DEF TankTypes, FateTypes
<1>4. UNCHANGED walk => WalkTypes'
    BY DEF TankTypes, WalkTypes
<1>5. UNCHANGED main => HandTypes'
    BY DEF TankTypes, HandTypes
<1>6. UNCHANGED net => NetTypes'
    BY DEF TankTypes, NetTypes
<1>. QED
    BY <1>1, <1>2, <1>3, <1>4, <1>5, <1>6

\* The parts of a state that an action sets at one tank.
LEMMA WalkSet ==
    ASSUME TankTypes, NEW k \in Tank, NEW w \in Walk, w.pc = "walk" => w.lf < w.f,
           walk' = [walk EXCEPT ![k] = w]
    PROVE  WalkTypes'
BY DEF TankTypes, WalkTypes

LEMMA HandSet ==
    ASSUME TankTypes, NEW k \in Tank, NEW h \in Hand, h.pc # "recv" => h.fish # NoFish,
           main' = [main EXCEPT ![k] = h]
    PROVE  HandTypes'
BY DEF TankTypes, HandTypes

LEMMA ListSet ==
    ASSUME TankTypes, NEW k \in Tank, NEW q \in Seq(FishState), NEW n \in Int,
           fishes' = [fishes EXCEPT ![k] = q], count' = [count EXCEPT ![k] = n]
    PROVE  ListTypes'
BY DEF TankTypes, ListTypes

LEMMA ListOnly ==
    ASSUME TankTypes, NEW k \in Tank, NEW q \in Seq(FishState),
           fishes' = [fishes EXCEPT ![k] = q], count' = count
    PROVE  ListTypes'
BY DEF TankTypes, ListTypes

LEMMA NeighboursSet ==
    ASSUME TankTypes, NEW k \in Tank, NEW c \in Beside4, cnxn' = [cnxn EXCEPT ![k] = c],
           UNCHANGED <<my, ticks>>
    PROVE  MapTypes'
BY DEF TankTypes, MapTypes

LEMMA NetAdds ==
    ASSUME TankTypes, NEW new \in SUBSET PacketSet, \A p \in new : p.type = "SYNC" => p.fish # NoFish,
           net' \subseteq net \cup new
    PROVE  NetTypes'
BY DEF TankTypes, NetTypes

LEMMA TickTypes ==
    ASSUME TankTypes, NEW k \in Tank, Tick(k)
    PROVE  TankTypes'
<1>1. my[k] \in Place /\ ticks[k] \in Nat /\ cnxn[k] \in Beside4
    BY TypesOf
<1>2. MapTypes'
    <2>1. [d \in Dir |-> [cnxn[k][d] EXCEPT !.live = FALSE]] \in Beside4
        BY <1>1 DEF Beside4
    <2>2. ticks[k] + 1 \in Nat
        BY <1>1
    <2>3. ticks' \in [Tank -> Nat] /\ my' = my
        BY <2>2 DEF Tick, TankTypes, MapTypes
    <2>4. cnxn' = cnxn \/ cnxn' = [cnxn EXCEPT ![k] = [d \in Dir |-> [cnxn[k][d] EXCEPT !.live = FALSE]]]
        BY DEF Tick
    <2>. QED
        BY <2>1, <2>3, <2>4 DEF TankTypes, MapTypes
<1>3. WalkTypes'
    <2>. DEFINE w == [pc |-> "walk", f |-> 1, lf |-> 0]
    <2>1. walk' = [walk EXCEPT ![k] = w]
        BY DEF Tick
    <2>2. w \in Walk /\ w.lf < w.f
        BY DEF Walk
    <2>. HIDE DEF w
    <2>. QED
        BY <2>1, <2>2, WalkSet
<1>4. NetTypes'
    <2>1. Pings(my[k], cnxn[k]) \in SUBSET PacketSet /\ \A p \in Pings(my[k], cnxn[k]) : p.type = "PING"
        BY <1>1, PingsAre
    <2>2. net' \subseteq net \cup Pings(my[k], cnxn[k])
        BY DEF Tick
    <2>. QED
        BY <2>1, <2>2, NetAdds
<1>. QED
    BY <1>2, <1>3, <1>4, Untouched DEF Tick, TankTypes

LEMMA ExpireTypes ==
    ASSUME TankTypes, NEW k \in Tank, Expire(k)
    PROVE  TankTypes'
<1>. DEFINE f == walk[k].f
            lf == walk[k].lf
            q == fishes[k]
<1>1. q \in Seq(FishState) /\ main[k] \in Hand /\ walk[k] \in Walk /\ f \in Nat /\ lf \in Nat
      /\ (main[k].pc # "recv" => main[k].fish # NoFish) /\ (walk[k].pc = "walk" => lf < f)
    BY TypesOf
<1>2. f \in DOMAIN q /\ lf # 0 /\ walk[k].pc = "walk"
    BY DEF Expire, WalkAt, Locked
<1>3. f \in 1..Len(q) /\ lf \in 1..Len(q) /\ lf < f
    BY <1>1, <1>2
<1>4. ListTypes'
    <2>. DEFINE r == SubSeq(q, 1, lf) \o SubSeq(q, f + 1, Len(q))
    <2>1. fishes' = [fishes EXCEPT ![k] = r] /\ count' = count
        BY DEF Expire
    <2>2. r \in Seq(FishState)
        <3>. HIDE DEF q, f, lf
        <3>. QED
            BY <1>1, <1>3
    <2>. HIDE DEF r
    <2>. QED
        BY <2>1, <2>2, ListOnly
<1>5. WalkTypes'
    <2>1. walk' = [walk EXCEPT ![k] = [walk[k] EXCEPT !.f = lf + 1]]
        BY DEF Expire, TankTypes, WalkTypes
    <2>2. [walk[k] EXCEPT !.f = lf + 1] \in Walk
        BY <1>1 DEF Walk
    <2>3. [walk[k] EXCEPT !.f = lf + 1].lf < [walk[k] EXCEPT !.f = lf + 1].f
        BY <1>1 DEF Walk
    <2>. QED
        BY <2>1, <2>2, <2>3, WalkSet
<1>6. HandTypes'
    <2>. DEFINE freed == main[k].freed \/ q[f].held
                h == [main[k] EXCEPT !.freed = freed]
    <2>1. main' = [main EXCEPT ![k] = h]
        BY DEF Expire, TankTypes, HandTypes
    <2>2. q[f] \in FishState
        BY <1>1, <1>3
    <2>3. freed \in BOOLEAN
        BY <1>1, <2>2 DEF FishState, Hand
    <2>. HIDE DEF freed
    <2>4. h \in Hand /\ h.pc = main[k].pc /\ h.fish = main[k].fish
        BY <1>1, <2>3 DEF Hand
    <2>. HIDE DEF h
    <2>. QED
        BY <1>1, <2>1, <2>4, HandSet
<1>7. FateTypes'
    <2>1. fate' \in [Fish -> Fates]
        BY DEF Expire, TankTypes, FateTypes, Fates
    <2>2. doubled' = doubled /\ (skewed' = skewed \/ skewed' = skewed \cup {k})
        BY DEF Expire
    <2>. QED
        BY <2>1, <2>2 DEF TankTypes, FateTypes
<1>8. MapTypes' /\ NetTypes'
    BY Untouched DEF Expire
<1>. QED
    BY <1>4, <1>5, <1>6, <1>7, <1>8 DEF TankTypes

LEMMA WalkEndTypes ==
    ASSUME TankTypes, NEW k \in Tank, WalkEnd(k)
    PROVE  TankTypes'
<1>1. WalkTypes'
    <2>1. Asleep \in Walk /\ Asleep.pc = "sleep"
        BY DEF Asleep, Walk
    <2>2. walk' = [walk EXCEPT ![k] = Asleep]
        BY DEF WalkEnd
    <2>. QED
        BY <2>1, <2>2, WalkSet
<1>. QED
    BY <1>1, Untouched DEF WalkEnd, TankTypes

LEMMA VisitTypes ==
    ASSUME TankTypes, NEW k \in Tank, Visit(k)
    PROVE  TankTypes'
<1>. DEFINE f == walk[k].f
            o == fishes[k][f]
            late == Late(k, o)
            here == IF late THEN [o EXCEPT !.state = "LIVE"] ELSE o
            c == [d \in Dir |-> IF late /\ d = o.dest THEN [cnxn[k][d] EXCEPT !.live = FALSE] ELSE cnxn[k][d]]
            goes == ~alone[k].sticky /\ ~alone[k].recluse
<1>1. PICK out \in IF here.state = "LIVE" THEN Edges ELSE {{}} :
         LET way == Way(c, out)
         IN  /\ fishes' = [fishes EXCEPT ![k][f] =
                    IF way # "none" /\ goes THEN [Shipped(here, ticks[k]) EXCEPT !.dest = way] ELSE here]
             /\ net' = IF way # "none" /\ goes THEN net \cup {SendFish(k, here, c[way].to)} ELSE net
             /\ walk' = [walk EXCEPT ![k].f = f + 1, ![k].lf = IF way # "none" THEN @ ELSE f]
    BY DEF Visit
<1>. DEFINE way == Way(c, out)
            ship == [Shipped(here, ticks[k]) EXCEPT !.dest = way]
            g == IF way # "none" /\ goes THEN ship ELSE here
<1>2. way = "none" \/ way \in Dir
    <2>1. out \in SUBSET Dir
        BY <1>1 DEF Edges
    <2>. QED
        BY <2>1, WayIs
<1>3. /\ my[k] \in Place /\ ticks[k] \in Nat /\ cnxn[k] \in Beside4 /\ fishes[k] \in Seq(FishState)
      /\ walk[k] \in Walk /\ f \in Nat /\ (walk[k].pc = "walk" => walk[k].lf < f)
    BY TypesOf
<1>4. f \in DOMAIN fishes[k] /\ walk[k].pc = "walk"
    BY DEF Visit, WalkAt, Locked
<1>5. fishes' = [fishes EXCEPT ![k][f] = g] /\ count' = count
    BY <1>1 DEF Visit
<1>6. net' \subseteq net \cup (IF way = "none" THEN {} ELSE {SendFish(k, here, c[way].to)})
    BY <1>1
<1>7. walk' = [walk EXCEPT ![k].f = f + 1, ![k].lf = IF way # "none" THEN walk[k].lf ELSE f]
    BY <1>1
<1>8. cnxn' = [cnxn EXCEPT ![k] = c] /\ UNCHANGED <<my, ticks>>
    BY DEF Visit
<1>9. o \in FishState
    BY <1>3, <1>4
<1>10. c \in Beside4
    BY <1>3 DEF Beside4
<1>. HIDE DEF o, c, late, goes
<1>11. here \in FishState /\ here.id = o.id
    BY <1>9 DEF FishState
<1>. HIDE DEF here
<1>12. way \in Dir => ship \in FishState
    <2>1. Shipped(here, ticks[k]) \in FishState
        BY <1>3, <1>11, ShippedIs
    <2>. QED
        BY <2>1 DEF FishState
<1>. HIDE DEF ship
<1>13. g \in FishState
    BY <1>2, <1>11, <1>12
<1>. HIDE DEF g, f, way
<1>14. ListTypes'
    <2>. DEFINE q == [fishes[k] EXCEPT ![f] = g]
    <2>1. fishes' = [fishes EXCEPT ![k] = q]
        BY <1>5 DEF TankTypes, ListTypes
    <2>2. q \in Seq(FishState)
        BY <1>3, <1>4, <1>13, ExceptSeq
    <2>. HIDE DEF q
    <2>. QED
        BY <1>5, <2>1, <2>2, ListOnly
<1>15. NetTypes'
    <2>. DEFINE new == IF way = "none" THEN {} ELSE {SendFish(k, here, c[way].to)}
    <2>1. way # "none" => SendFish(k, here, c[way].to) \in PacketSet /\ SendFish(k, here, c[way].to).type = "SEND"
        <3>1. way # "none" => c[way].to \in Place
            BY <1>2, <1>10 DEF Beside4
        <3>2. here.uid \in UidType /\ here.id \in Fish \cup {Rubbish, NoFish}
            BY <1>11 DEF FishState
        <3>. QED
            BY <1>3, <3>1, <3>2 DEF SendFish, Packet, PacketSet
    <2>2. new \in SUBSET PacketSet /\ \A p \in new : p.type = "SYNC" => p.fish # NoFish
        BY <2>1
    <2>. HIDE DEF new
    <2>. QED
        BY <1>6, <2>2, NetAdds DEF new
<1>16. WalkTypes'
    <2>. DEFINE lf == IF way # "none" THEN walk[k].lf ELSE f
                w == [walk[k] EXCEPT !.f = f + 1, !.lf = lf]
    <2>1. walk' = [walk EXCEPT ![k] = w]
        BY <1>7 DEF TankTypes, WalkTypes
    <2>2. lf \in Nat /\ lf < f + 1
        BY <1>3, <1>4 DEF Walk
    <2>. HIDE DEF lf
    <2>3. w \in Walk /\ w.lf < w.f
        <3>. DEFINE r == walk[k]
                    g1 == f + 1
        <3>1. r \in Walk /\ g1 \in Nat /\ w = [r EXCEPT !.f = g1, !.lf = lf]
            BY <1>3
        <3>. HIDE DEF r, g1, w
        <3>2. w = [pc |-> r.pc, f |-> g1, lf |-> lf]
            BY <3>1 DEF Walk
        <3>3. w \in Walk /\ w.lf = lf /\ w.f = g1
            BY <2>2, <3>1, <3>2 DEF Walk
        <3>. QED
            BY <2>2, <3>3 DEF g1
    <2>. HIDE DEF w
    <2>. QED
        BY <2>1, <2>3, WalkSet
<1>17. MapTypes'
    BY <1>8, <1>10, NeighboursSet
<1>18. FateTypes' /\ HandTypes'
    BY Untouched DEF Visit
<1>. QED
    BY <1>14, <1>15, <1>16, <1>17, <1>18 DEF TankTypes

\* The packets fishmain answers with.
LEMMA NetReceived ==
    ASSUME TankTypes, NEW p \in net, NEW twice \in BOOLEAN, NEW new \in SUBSET PacketSet,
           \A q \in new : q.type # "SYNC", net' = Received(p, twice) \cup new
    PROVE  NetTypes'
<1>1. net \subseteq PacketSet /\ \A q \in net : q.type = "SYNC" => q.fish # NoFish
    BY DEF TankTypes, NetTypes
<1>2. /\ Received(p, twice) \subseteq PacketSet
      /\ \A q \in Received(p, twice) : \/ q \in net /\ q # p
                                       \/ q.type = p.type /\ q.fish = p.fish /\ q.seen
    BY <1>1, ReceivedIs
<1>. QED
    BY <1>1, <1>2 DEF NetTypes

LEMMA PacketTypes ==
    ASSUME TankTypes, NEW k \in Tank, NEW p \in net, NEW twice \in BOOLEAN,
           DoPing(k, p, twice) \/ DoPong(k, p, twice) \/ DoSend(k, p, twice)
             \/ DoAck(k, p, twice) \/ DoSync(k, p, twice)
    PROVE  TankTypes'
<1>1. /\ my[k] \in Place /\ ticks[k] \in Nat /\ cnxn[k] \in Beside4 /\ fishes[k] \in Seq(FishState)
      /\ count[k] \in Int /\ main[k] \in Hand
    BY TypesOf
<1>2. p \in PacketSet /\ (p.type = "SYNC" => p.fish # NoFish)
    BY DEF TankTypes, NetTypes
<1>3. p.from \in Place /\ p.uid \in UidType /\ p.fish \in Fish \cup {Rubbish, NoFish}
    BY <1>2 DEF PacketSet
<1>4. NoUid \in UidType
    BY UidIs DEF NoUid, Place
<1>5. ASSUME NEW type \in {"PONG", "ACK"}, NEW uid \in UidType
      PROVE  Packet(type, my[k], p.from, uid, NoFish) \in PacketSet
             /\ Packet(type, my[k], p.from, uid, NoFish).type = type
    BY <1>1, <1>3 DEF Packet, PacketSet
<1>6. settank(cnxn[k], p.from) \in Beside4
    BY <1>1, SettankType
<1>7. ASSUME net' = Received(p, twice) PROVE NetTypes'
    <2>. DEFINE none == {}
    <2>1. net' = Received(p, twice) \cup none
        BY <1>7
    <2>2. none \in SUBSET PacketSet /\ \A q \in none : q.type # "SYNC"
        OBVIOUS
    <2>. HIDE DEF none
    <2>. QED
        BY <2>1, <2>2, NetReceived
<1>8. CASE DoPing(k, p, twice)
    <2>. DEFINE new == {Packet("PONG", my[k], p.from, NoUid, NoFish)}
    <2>1. new \in SUBSET PacketSet /\ \A q \in new : q.type # "SYNC"
        BY <1>4, <1>5
    <2>2. net' = Received(p, twice) \cup new
        BY <1>8 DEF DoPing
    <2>. HIDE DEF new
    <2>3. NetTypes'
        BY <2>1, <2>2, NetReceived
    <2>4. MapTypes'
        BY <1>6, <1>8, NeighboursSet DEF DoPing
    <2>. QED
        BY <1>8, <2>3, <2>4, Untouched DEF DoPing, TankTypes
<1>9. CASE DoPong(k, p, twice)
    <2>1. NetTypes'
        BY <1>7, <1>9 DEF DoPong
    <2>2. MapTypes'
        BY <1>6, <1>9, NeighboursSet DEF DoPong
    <2>. QED
        BY <1>9, <2>1, <2>2, Untouched DEF DoPong, TankTypes
<1>10. CASE DoSend(k, p, twice)
    <2>. DEFINE new == IF alone[k].recluse THEN {} ELSE {Packet("ACK", my[k], p.from, p.uid, NoFish)}
    <2>1. new \in SUBSET PacketSet /\ \A q \in new : q.type # "SYNC"
        BY <1>3, <1>5
    <2>2. net' = Received(p, twice) \cup new
        BY <1>10 DEF DoSend
    <2>. HIDE DEF new
    <2>3. NetTypes'
        BY <2>1, <2>2, NetReceived
    <2>. QED
        BY <1>10, <2>3, Untouched DEF DoSend, TankTypes
<1>11. CASE DoAck(k, p, twice)
    <2>1. NetTypes'
        BY <1>7, <1>11 DEF DoAck
    <2>2. MapTypes' /\ FateTypes' /\ WalkTypes'
        BY <1>11, Untouched DEF DoAck
    <2>3. CASE InTransfer(k, p.uid) = {}
        BY <1>11, <2>1, <2>2, <2>3, Untouched DEF DoAck, TankTypes
    <2>4. CASE InTransfer(k, p.uid) # {}
        <3>1. PICK i \in InTransfer(k, p.uid) :
                  /\ fishes' = [fishes EXCEPT ![k][i].state = "DEAD", ![k][i].held = TRUE]
                  /\ count' = [count EXCEPT ![k] = @ - 1]
                  /\ main' = [main EXCEPT ![k] = [InRecv EXCEPT !.pc = "sync", !.fish = fishes[k][i].id,
                                                     !.uid = p.uid, !.peer = p.from]]
            BY <1>11, <2>4 DEF DoAck
        <3>2. i \in DOMAIN fishes[k]
            BY DEF InTransfer
        <3>3. fishes[k][i] \in FishState
            BY <1>1, <3>2
        <3>. DEFINE d == [fishes[k][i] EXCEPT !.state = "DEAD", !.held = TRUE]
                    q == [fishes[k] EXCEPT ![i] = d]
                    h == [InRecv EXCEPT !.pc = "sync", !.fish = fishes[k][i].id, !.uid = p.uid, !.peer = p.from]
        <3>4. d \in FishState
            BY <3>3 DEF FishState
        <3>5. fishes' = [fishes EXCEPT ![k] = q]
            BY <3>1 DEF TankTypes, ListTypes
        <3>. HIDE DEF d
        <3>6. q \in Seq(FishState)
            BY <1>1, <3>2, <3>4, ExceptSeq
        <3>. HIDE DEF q
        <3>7. ListTypes'
            <4>1. count' = [count EXCEPT ![k] = count[k] - 1] /\ count[k] - 1 \in Int
                BY <1>1, <3>1
            <4>. QED
                BY <3>5, <3>6, <4>1, ListSet
        <3>8. fishes[k][i].id \in Fish \cup {Rubbish}
            BY <3>3 DEF FishState
        <3>9. h \in Hand /\ h.fish = fishes[k][i].id
            BY <1>3, <3>8, <1>4 DEF InRecv, Hand, Place
        <3>10. fishes[k][i].id # NoFish
            BY <3>8, FishAssumption
        <3>11. main' = [main EXCEPT ![k] = h]
            BY <3>1
        <3>. HIDE DEF h
        <3>12. HandTypes'
            BY <3>9, <3>10, <3>11, HandSet
        <3>. QED
            BY <2>1, <2>2, <3>7, <3>12 DEF TankTypes
    <2>. QED
        BY <2>3, <2>4
<1>12. CASE DoSync(k, p, twice)
    <2>1. NetTypes'
        BY <1>7, <1>12 DEF DoSync
    <2>. DEFINE h == [InRecv EXCEPT !.pc = "insert", !.fish = p.fish,
                          !.uid = Uid(my[k], ticks[k]), !.peer = p.from, !.welcome = TRUE]
    <2>2. p.fish # NoFish
        BY <1>2, <1>12 DEF DoSync
    <2>3. h \in Hand /\ h.fish = p.fish
        <3>1. Uid(my[k], ticks[k]) \in UidType
            BY <1>1, UidIs
        <3>. QED
            BY <1>3, <3>1, <1>4 DEF InRecv, Hand, Place
    <2>4. main' = [main EXCEPT ![k] = h]
        BY <1>12 DEF DoSync
    <2>. HIDE DEF h
    <2>5. HandTypes'
        BY <2>2, <2>3, <2>4, HandSet
    <2>6. FateTypes'
        <3>1. p.fish \in Fish \cup {Rubbish}
            BY <1>3, <2>2
        <3>2. doubled' \subseteq doubled \cup {p.fish} /\ UNCHANGED <<fate, skewed>>
            BY <1>12 DEF DoSync
        <3>. QED
            BY <3>1, <3>2 DEF TankTypes, FateTypes
    <2>. QED
        BY <1>12, <2>1, <2>5, <2>6, Untouched DEF DoSync, TankTypes
<1>. QED
    BY <1>8, <1>9, <1>10, <1>11, <1>12

LEMMA HandTypesStep ==
    ASSUME TankTypes, NEW k \in Tank, SendSync(k) \/ Newfish(k)
    PROVE  TankTypes'
<1>1. /\ my[k] \in Place /\ cnxn[k] \in Beside4 /\ fishes[k] \in Seq(FishState)
      /\ count[k] \in Int /\ main[k] \in Hand /\ (main[k].pc # "recv" => main[k].fish # NoFish)
    BY TypesOf
<1>2. main[k].peer \in Place /\ main[k].uid \in UidType
      /\ (main[k].pc # "recv" => main[k].fish \in Fish \cup {Rubbish})
    BY <1>1 DEF Hand
<1>3. ASSUME main' = [main EXCEPT ![k] = InRecv] PROVE HandTypes'
    BY <1>3, InRecvIs, HandSet DEF InRecv
<1>4. CASE SendSync(k)
    <2>1. PICK x \in IF main[k].freed THEN {main[k].fish, Rubbish} ELSE {main[k].fish} :
             /\ net' = net \cup {Packet("SYNC", my[k], main[k].peer, main[k].uid, x)}
             /\ fate' = IF x = main[k].fish THEN fate
                        ELSE [y \in Fish |-> IF y = main[k].fish THEN "freed" ELSE fate[y]]
        BY <1>4 DEF SendSync
    <2>2. x \in Fish \cup {Rubbish}
        BY <1>2, <1>4, <2>1 DEF SendSync
    <2>3. NetTypes'
        <3>. DEFINE new == {Packet("SYNC", my[k], main[k].peer, main[k].uid, x)}
        <3>1. new \in SUBSET PacketSet /\ \A p \in new : p.type = "SYNC" => p.fish # NoFish
            BY <1>1, <1>2, <2>2, FishAssumption DEF Packet, PacketSet
        <3>2. net' \subseteq net \cup new
            BY <2>1
        <3>. HIDE DEF new
        <3>. QED
            BY <3>1, <3>2, NetAdds
    <2>4. FateTypes'
        <3>1. fate' \in [Fish -> Fates]
            BY <2>1 DEF TankTypes, FateTypes, Fates
        <3>. QED
            BY <1>4, <3>1 DEF SendSync, TankTypes, FateTypes
    <2>5. ListTypes'
        <3>. DEFINE q == [i \in DOMAIN fishes[k] |-> [fishes[k][i] EXCEPT !.held = FALSE]]
        <3>1. fishes' = [fishes EXCEPT ![k] = q] /\ count' = count
            BY <1>4 DEF SendSync
        <3>2. q \in Seq(FishState)
            <4>1. \A o \in FishState : [o EXCEPT !.held = FALSE] \in FishState
                BY DEF FishState
            <4>2. \A i \in 1..Len(fishes[k]) : q[i] \in FishState
                BY <1>1, <4>1
            <4>3. q = [i \in 1..Len(fishes[k]) |-> q[i]] /\ Len(fishes[k]) \in Nat
                BY <1>1
            <4>. HIDE DEF q
            <4>. QED
                BY <4>2, <4>3, ListOf
        <3>. HIDE DEF q
        <3>. QED
            BY <3>1, <3>2, ListOnly
    <2>6. HandTypes'
        BY <1>3, <1>4 DEF SendSync
    <2>. QED
        BY <1>4, <2>3, <2>4, <2>5, <2>6, Untouched DEF SendSync, TankTypes
<1>5. CASE Newfish(k)
    <2>1. HandTypes'
        BY <1>3, <1>5 DEF Newfish
    <2>2. ListTypes'
        <3>. DEFINE o == NewFish(main[k].fish, main[k].uid)
                    q == <<o>> \o fishes[k]
                    n == count[k] + 1
        <3>1. fishes' = [fishes EXCEPT ![k] = q] /\ count' = [count EXCEPT ![k] = n]
            BY <1>5 DEF Newfish
        <3>2. o \in FishState
            BY <1>2, <1>5, NewFishIs DEF Newfish
        <3>. HIDE DEF o
        <3>3. q \in Seq(FishState) /\ n \in Int
            BY <1>1, <3>2
        <3>. HIDE DEF q, n
        <3>. QED
            BY <3>1, <3>3, ListSet
    <2>3. MapTypes'
        <3>1. settank(cnxn[k], main[k].peer) \in Beside4
            BY <1>1, SettankType
        <3>2. cnxn' = cnxn \/ cnxn' = [cnxn EXCEPT ![k] = settank(cnxn[k], main[k].peer)]
            BY <1>5 DEF Newfish
        <3>3. UNCHANGED <<my, ticks>>
            BY <1>5 DEF Newfish
        <3>. QED
            BY <3>1, <3>2, <3>3, NeighboursSet, Untouched
    <2>. QED
        BY <1>5, <2>1, <2>2, <2>3, Untouched DEF Newfish, TankTypes
<1>. QED
    BY <1>4, <1>5

LEMMA CommandTypes ==
    ASSUME TankTypes, NEW k \in Tank,
           Relocate(k) \/ Sticky(k) \/ Recluse(k) \/ Purge(k) \/ Eject(k) \/ New(k)
    PROVE  TankTypes'
<1>1. /\ my[k] \in Place /\ ticks[k] \in Nat /\ cnxn[k] \in Beside4 /\ fishes[k] \in Seq(FishState)
      /\ count[k] \in Int /\ main[k] \in Hand
    BY TypesOf
<1>2. \A i \in DOMAIN fishes[k] : fishes[k][i] \in FishState
    BY <1>1
<1>3. CASE Relocate(k)
    <2>1. PICK spot \in Moves :
             /\ my' = [my EXCEPT ![k] = spot] /\ cnxn' = [cnxn EXCEPT ![k] = Unknown(spot)]
             /\ net' = net \cup Pings(spot, Unknown(spot))
        BY <1>3 DEF Relocate
    <2>2. spot \in Place
        BY FishAssumption DEF Place
    <2>3. Unknown(spot) \in Beside4
        BY <2>2, BesideType
    <2>4. MapTypes'
        BY <1>3, <2>1, <2>2, <2>3 DEF Relocate, TankTypes, MapTypes
    <2>5. NetTypes'
        <3>1. Pings(spot, Unknown(spot)) \in SUBSET PacketSet
              /\ \A p \in Pings(spot, Unknown(spot)) : p.type = "PING"
            BY <2>2, <2>3, PingsAre
        <3>2. net' \subseteq net \cup Pings(spot, Unknown(spot))
            BY <2>1
        <3>. QED
            BY <3>1, <3>2, NetAdds
    <2>. QED
        BY <1>3, <2>4, <2>5, Untouched DEF Relocate, TankTypes
<1>4. CASE Sticky(k)
    BY <1>4, Untouched DEF Sticky, TankTypes
<1>5. CASE Recluse(k)
    BY <1>5, Untouched DEF Recluse, TankTypes
<1>6. CASE Purge(k)
    <2>. DEFINE lives == {i \in DOMAIN fishes[k] : fishes[k][i].state = "LIVE"}
                q == [i \in DOMAIN fishes[k] |->
                         IF i \in lives THEN [fishes[k][i] EXCEPT !.state = "DEAD"] ELSE fishes[k][i]]
    <2>1. fishes' = [fishes EXCEPT ![k] = q] /\ count' = [count EXCEPT ![k] = 0]
        BY <1>6 DEF Purge
    <2>2. q \in Seq(FishState)
        <3>3. \A o \in FishState : [o EXCEPT !.state = "DEAD"] \in FishState
            BY DEF FishState
        <3>1. \A i \in 1..Len(fishes[k]) : q[i] \in FishState
            BY <1>1, <1>2, <3>3
        <3>2. q = [i \in 1..Len(fishes[k]) |-> q[i]] /\ Len(fishes[k]) \in Nat
            BY <1>1
        <3>. HIDE DEF q
        <3>. QED
            BY <3>1, <3>2, ListOf
    <2>. HIDE DEF q
    <2>3. ListTypes'
        <3>. DEFINE n == 0
        <3>1. count' = [count EXCEPT ![k] = n] /\ n \in Int
            BY <2>1
        <3>. HIDE DEF n
        <3>. QED
            BY <2>1, <2>2, <3>1, ListSet
    <2>4. FateTypes'
        <3>1. fate' \in [Fish -> Fates]
            BY <1>6 DEF Purge, TankTypes, FateTypes, Fates
        <3>2. doubled' = doubled /\ (skewed' = skewed \/ skewed' = skewed \cup {k})
            BY <1>6 DEF Purge
        <3>. QED
            BY <3>1, <3>2 DEF TankTypes, FateTypes
    <2>. QED
        BY <1>6, <2>3, <2>4, Untouched DEF Purge, TankTypes
<1>7. CASE Eject(k)
    <2>. DEFINE lives == {i \in DOMAIN fishes[k] : fishes[k][i].state = "LIVE"}
                to == cnxn[k][FirstLive(cnxn[k])].to
                q == [i \in DOMAIN fishes[k] |->
                         IF i \in lives THEN Shipped(fishes[k][i], ticks[k]) ELSE fishes[k][i]]
                new == {SendFish(k, fishes[k][i], to) : i \in lives}
    <2>1. fishes' = [fishes EXCEPT ![k] = q] /\ count' = count /\ net' \subseteq net \cup new
        BY <1>7 DEF Eject
    <2>2. q \in Seq(FishState)
        <3>1. \A i \in 1..Len(fishes[k]) : q[i] \in FishState
            BY <1>1, <1>2, ShippedIs
        <3>2. q = [i \in 1..Len(fishes[k]) |-> q[i]] /\ Len(fishes[k]) \in Nat
            BY <1>1
        <3>. HIDE DEF q
        <3>. QED
            BY <3>1, <3>2, ListOf
    <2>3. to \in Place
        <3>1. FirstLive(cnxn[k]) \in Dir
            BY <1>1, <1>7, FirstLiveIs DEF Eject
        <3>. QED
            BY <1>1, <3>1 DEF Beside4
    <2>. HIDE DEF q, to
    <2>4. new \in SUBSET PacketSet /\ \A p \in new : p.type = "SYNC" => p.fish # NoFish
        <3>1. \A i \in lives : SendFish(k, fishes[k][i], to) \in PacketSet
                                /\ SendFish(k, fishes[k][i], to).type = "SEND"
            BY <1>1, <1>2, <2>3 DEF SendFish, Packet, PacketSet, FishState
        <3>. QED
            BY <3>1
    <2>. HIDE DEF new
    <2>5. ListTypes'
        BY <2>1, <2>2, ListOnly
    <2>6. NetTypes'
        BY <2>1, <2>4, NetAdds
    <2>. QED
        BY <1>7, <2>5, <2>6, Untouched DEF Eject, TankTypes
<1>8. CASE New(k)
    <2>1. PICK x \in Fish :
             /\ fate[x] = "unborn" /\ fate' = [fate EXCEPT ![x] = "kept"]
             /\ main' = [main EXCEPT ![k] = [InRecv EXCEPT !.pc = "insert", !.fish = x,
                                                !.uid = Uid(my[k], ticks[k])]]
        BY <1>8 DEF New
    <2>. DEFINE h == [InRecv EXCEPT !.pc = "insert", !.fish = x, !.uid = Uid(my[k], ticks[k])]
    <2>2. h \in Hand /\ h.fish = x
        <3>. DEFINE u == Uid(my[k], ticks[k])
        <3>1. u \in UidType
            BY <1>1, UidIs
        <3>. HIDE DEF u
        <3>2. h = [InRecv EXCEPT !.pc = "insert", !.fish = x, !.uid = u]
            BY DEF u
        <3>. HIDE DEF h
        <3>. QED
            BY <3>1, <3>2, InRecvIs DEF Hand
    <2>3. main' = [main EXCEPT ![k] = h]
        BY <2>1
    <2>. HIDE DEF h
    <2>4. HandTypes'
        BY <2>2, <2>3, HandSet, FishAssumption
    <2>5. FateTypes'
        BY <1>8, <2>1 DEF New, TankTypes, FateTypes, Fates
    <2>. QED
        BY <1>8, <2>4, <2>5, Untouched DEF New, TankTypes
<1>. QED
    BY <1>3, <1>4, <1>5, <1>6, <1>7, <1>8

LEMMA LostTypes ==
    ASSUME TankTypes, NEW p \in net, LoseSync(p)
    PROVE  TankTypes'
<1>1. NetTypes'
    BY DEF LoseSync, TankTypes, NetTypes
<1>2. FateTypes'
    <2>1. fate' \in [Fish -> Fates]
        BY DEF LoseSync, TankTypes, FateTypes, Fates
    <2>. QED
        BY <2>1 DEF LoseSync, TankTypes, FateTypes
<1>. QED
    BY <1>1, <1>2, Untouched DEF LoseSync, TankTypes

-----------------------------------------------------------------------------
(* Where fish x is, of lists f, hands h and packets n.                      *)

InTank(f, x, k, i) == k \in Tank /\ i \in DOMAIN f[k] /\ f[k][i].state # "DEAD" /\ f[k][i].id = x
InHand(h, x, k) == k \in Tank /\ h[k].pc # "recv" /\ h[k].fish = x
InSync(n, x, p) == p \in n /\ p.type = "SYNC" /\ p.fish = x /\ ~p.seen

Alone(f, h, n, x) ==
    /\ \A k, l, i, j : InTank(f, x, k, i) /\ InTank(f, x, l, j) => k = l /\ i = j
    /\ \A k, l : InHand(h, x, k) /\ InHand(h, x, l) => k = l
    /\ \A p, q : InSync(n, x, p) /\ InSync(n, x, q) => p = q
    /\ \A k, i, l : ~(InTank(f, x, k, i) /\ InHand(h, x, l))
    /\ \A k, i, p : ~(InTank(f, x, k, i) /\ InSync(n, x, p))
    /\ \A l, p : ~(InHand(h, x, l) /\ InSync(n, x, p))

Somewhere(f, h, n, x) ==
    (\E k, i : InTank(f, x, k, i)) \/ (\E k : InHand(h, x, k)) \/ (\E p : InSync(n, x, p))

Placed(f, h, n, d, a) ==
    \A x \in Fish \ d : Alone(f, h, n, x) /\ (a[x] = "kept" <=> Somewhere(f, h, n, x))

WhereOf(f, h, n, x) ==
    (UNION {{<<"tank", k, i>> : i \in {j \in {e \in DOMAIN f[k] : f[k][e].state # "DEAD"} : f[k][j].id = x}}
              : k \in Tank})
    \cup {<<"hand", k>> : k \in {l \in Tank : h[l].pc # "recv" /\ h[l].fish = x}}
    \cup {<<"sync", p>> : p \in {q \in n : q.type = "SYNC" /\ q.fish = x /\ ~q.seen}}

LEMMA WhereIs ==
    ASSUME NEW f, NEW h, NEW n, NEW x, NEW e
    PROVE  e \in WhereOf(f, h, n, x) <=>
             \/ \E k, i : InTank(f, x, k, i) /\ e = <<"tank", k, i>>
             \/ \E k : InHand(h, x, k) /\ e = <<"hand", k>>
             \/ \E p : InSync(n, x, p) /\ e = <<"sync", p>>
<1>. DEFINE T(k) == {<<"tank", k, i>> : i \in {j \in {a \in DOMAIN f[k] : f[k][a].state # "DEAD"} : f[k][j].id = x}}
            H == {<<"hand", k>> : k \in {l \in Tank : h[l].pc # "recv" /\ h[l].fish = x}}
            S == {<<"sync", p>> : p \in {q \in n : q.type = "SYNC" /\ q.fish = x /\ ~q.seen}}
<1>1. \A k : e \in T(k) <=> \E i : i \in DOMAIN f[k] /\ f[k][i].state # "DEAD" /\ f[k][i].id = x
                                    /\ e = <<"tank", k, i>>
    OBVIOUS
<1>2. e \in H <=> \E k : InHand(h, x, k) /\ e = <<"hand", k>>
    BY DEF InHand
<1>3. e \in S <=> \E p : InSync(n, x, p) /\ e = <<"sync", p>>
    BY DEF InSync
<1>4. e \in WhereOf(f, h, n, x) <=> (\E k \in Tank : e \in T(k)) \/ e \in H \/ e \in S
    <2>1. WhereOf(f, h, n, x) = (UNION {T(k) : k \in Tank}) \cup H \cup S
        BY DEF WhereOf
    <2>. HIDE DEF T, H, S
    <2>2. e \in UNION {T(k) : k \in Tank} <=> \E k \in Tank : e \in T(k)
        OBVIOUS
    <2>. QED
        BY <2>1, <2>2
<1>. HIDE DEF T, H, S
<1>5. (\E k \in Tank : e \in T(k)) <=> \E k, i : InTank(f, x, k, i) /\ e = <<"tank", k, i>>
    <2>1. ASSUME NEW k \in Tank, e \in T(k) PROVE \E i : InTank(f, x, k, i) /\ e = <<"tank", k, i>>
        BY <1>1, <2>1 DEF InTank
    <2>2. ASSUME NEW k, NEW i, InTank(f, x, k, i), e = <<"tank", k, i>> PROVE k \in Tank /\ e \in T(k)
        BY <1>1, <2>2 DEF InTank
    <2>. QED
        BY <2>1, <2>2
<1>. QED
    BY <1>2, <1>3, <1>4, <1>5

LEMMA AloneIs ==
    ASSUME NEW f, NEW h, NEW n, NEW x
    PROVE  /\ Alone(f, h, n, x) <=> \A a, b \in WhereOf(f, h, n, x) : a = b
           /\ Somewhere(f, h, n, x) <=> WhereOf(f, h, n, x) # {}
<1>. DEFINE W == WhereOf(f, h, n, x)
<1>1. \A e : e \in W <=> \/ \E k, i : InTank(f, x, k, i) /\ e = <<"tank", k, i>>
                         \/ \E k : InHand(h, x, k) /\ e = <<"hand", k>>
                         \/ \E p : InSync(n, x, p) /\ e = <<"sync", p>>
    BY WhereIs
<1>. HIDE DEF W
<1>2. \A k, i, l, j : <<"tank", k, i>> = <<"tank", l, j>> => k = l /\ i = j
    OBVIOUS
<1>3. \A k, l : (<<"hand", k>> = <<"hand", l>> => k = l) /\ (<<"sync", k>> = <<"sync", l>> => k = l)
                 /\ <<"hand", k>> # <<"sync", l>>
    OBVIOUS
<1>4. \A k, i, l : <<"tank", k, i>> # <<"hand", l>> /\ <<"tank", k, i>> # <<"sync", l>>
    OBVIOUS
<1>5. Somewhere(f, h, n, x) <=> W # {}
    BY <1>1 DEF Somewhere
<1>6. ASSUME Alone(f, h, n, x), NEW a \in W, NEW b \in W PROVE a = b
    BY <1>1, <1>6 DEF Alone
<1>7. ASSUME \A a, b \in W : a = b PROVE Alone(f, h, n, x)
    <2>1. \A k, i : InTank(f, x, k, i) => <<"tank", k, i>> \in W
        BY <1>1
    <2>2. \A k : InHand(h, x, k) => <<"hand", k>> \in W
        BY <1>1
    <2>3. \A p : InSync(n, x, p) => <<"sync", p>> \in W
        BY <1>1
    <2>4. ASSUME NEW k, NEW l, NEW i, NEW j, InTank(f, x, k, i), InTank(f, x, l, j) PROVE k = l /\ i = j
        <3>1. <<"tank", k, i>> \in W /\ <<"tank", l, j>> \in W
            BY <2>1, <2>4
        <3>2. <<"tank", k, i>> = <<"tank", l, j>>
            BY <1>7, <3>1
        <3>. QED
            BY <1>2, <3>2
    <2>5. ASSUME NEW k, NEW l, InHand(h, x, k), InHand(h, x, l) PROVE k = l
        <3>1. <<"hand", k>> \in W /\ <<"hand", l>> \in W
            BY <2>2, <2>5
        <3>2. <<"hand", k>> = <<"hand", l>>
            BY <1>7, <3>1
        <3>. QED
            BY <1>3, <3>2
    <2>6. ASSUME NEW p, NEW q, InSync(n, x, p), InSync(n, x, q) PROVE p = q
        <3>1. <<"sync", p>> \in W /\ <<"sync", q>> \in W
            BY <2>3, <2>6
        <3>2. <<"sync", p>> = <<"sync", q>>
            BY <1>7, <3>1
        <3>. QED
            BY <1>3, <3>2
    <2>7. ASSUME NEW k, NEW i, NEW l, InTank(f, x, k, i), InHand(h, x, l) PROVE FALSE
        <3>1. <<"tank", k, i>> \in W /\ <<"hand", l>> \in W
            BY <2>1, <2>2, <2>7
        <3>2. <<"tank", k, i>> = <<"hand", l>>
            BY <1>7, <3>1
        <3>. QED
            BY <1>4, <3>2
    <2>8. ASSUME NEW k, NEW i, NEW p, InTank(f, x, k, i), InSync(n, x, p) PROVE FALSE
        <3>1. <<"tank", k, i>> \in W /\ <<"sync", p>> \in W
            BY <2>1, <2>3, <2>8
        <3>2. <<"tank", k, i>> = <<"sync", p>>
            BY <1>7, <3>1
        <3>. QED
            BY <1>4, <3>2
    <2>9. ASSUME NEW l, NEW p, InHand(h, x, l), InSync(n, x, p) PROVE FALSE
        <3>1. <<"hand", l>> \in W /\ <<"sync", p>> \in W
            BY <2>2, <2>3, <2>9
        <3>2. <<"hand", l>> = <<"sync", p>>
            BY <1>7, <3>1
        <3>. QED
            BY <1>3, <3>2
    <2>. QED
        BY <2>4, <2>5, <2>6, <2>7, <2>8, <2>9 DEF Alone
<1>. QED
    BY <1>5, <1>6, <1>7 DEF W

LEMMA PlacedIs ==
    /\ FishKept <=> Placed(fishes, main, net, doubled, fate)
    /\ FishKept' <=> Placed(fishes', main', net', doubled', fate')
<1>1. \A x : Where(x) = WhereOf(fishes, main, net, x)
    BY DEF Where, WhereOf, Swimming
<1>2. \A x : Where(x)' = WhereOf(fishes', main', net', x)
    BY DEF Where, WhereOf, Swimming
<1>3. FishKept <=> Placed(fishes, main, net, doubled, fate)
    BY <1>1, AloneIs DEF FishKept, Placed
<1>4. FishKept' <=> Placed(fishes', main', net', doubled', fate')
    BY <1>2, AloneIs DEF FishKept, Placed
<1>. QED
    BY <1>3, <1>4

-----------------------------------------------------------------------------
(* Where each action takes the fish.                                        *)

LEMMA Stays ==
    ASSUME FishKept, doubled \subseteq doubled', UNCHANGED fate,
           \A x, k, i : InTank(fishes', x, k, i) <=> InTank(fishes, x, k, i),
           \A x, k : InHand(main', x, k) <=> InHand(main, x, k),
           \A x, p : InSync(net', x, p) <=> InSync(net, x, p)
    PROVE  FishKept'
<1>1. Placed(fishes, main, net, doubled, fate)
    BY PlacedIs
<1>2. ASSUME NEW x \in Fish \ doubled'
      PROVE  Alone(fishes', main', net', x) /\ (fate'[x] = "kept" <=> Somewhere(fishes', main', net', x))
    <2>1. Alone(fishes, main, net, x) /\ (fate[x] = "kept" <=> Somewhere(fishes, main, net, x))
        BY <1>1 DEF Placed
    <2>. QED
        BY <2>1 DEF Alone, Somewhere
<1>3. Placed(fishes', main', net', doubled', fate')
    BY <1>2 DEF Placed
<1>. QED
    BY <1>3, PlacedIs

LEMMA CountStays ==
    ASSUME CountKept, skewed \subseteq skewed', UNCHANGED count,
           \A k \in Tank : Swimming(k)' = Swimming(k)
    PROVE  CountKept'
BY DEF CountKept

\* A list whose fish keep their names, and live or are dead as before.
SameList(q, r) ==
    /\ DOMAIN q = DOMAIN r
    /\ \A i \in DOMAIN q : q[i].id = r[i].id /\ (q[i].state = "DEAD" <=> r[i].state = "DEAD")

LEMMA SameFish ==
    ASSUME TankTypes, NEW k \in Tank, NEW q, fishes' = [fishes EXCEPT ![k] = q],
           SameList(q, fishes[k])
    PROVE  /\ \A x, l, i : InTank(fishes', x, l, i) <=> InTank(fishes, x, l, i)
           /\ \A l \in Tank : Swimming(l)' = Swimming(l)
<1>1. fishes'[k] = q /\ \A l \in Tank \ {k} : fishes'[l] = fishes[l]
    BY DEF TankTypes, ListTypes
<1>2. \A x, l, i : InTank(fishes', x, l, i) <=> InTank(fishes, x, l, i)
    BY <1>1 DEF InTank, SameList
<1>3. \A l \in Tank : Swimming(l)' = Swimming(l)
    BY <1>1 DEF Swimming, SameList
<1>. QED
    BY <1>2, <1>3

LEMMA SameLists ==
    ASSUME UNCHANGED fishes
    PROVE  /\ \A x, l, i : InTank(fishes', x, l, i) <=> InTank(fishes, x, l, i)
           /\ \A l \in Tank : Swimming(l)' = Swimming(l)
BY DEF InTank, Swimming

LEMMA SameHands ==
    ASSUME UNCHANGED main
    PROVE  \A x, l : InHand(main', x, l) <=> InHand(main, x, l)
BY DEF InHand

\* Packets that are no SYNC come and go.
LEMMA SameSyncs ==
    ASSUME \A p : p.type = "SYNC" => (p \in net' <=> p \in net)
    PROVE  \A x, p : InSync(net', x, p) <=> InSync(net, x, p)
BY DEF InSync

LEMMA OtherReceived ==
    ASSUME TankTypes, NEW p \in net, NEW twice \in BOOLEAN, p.type # "SYNC", NEW new,
           \A q \in new : q.type # "SYNC", net' = Received(p, twice) \cup new
    PROVE  \A x, q : InSync(net', x, q) <=> InSync(net, x, q)
<1>1. net \subseteq PacketSet
    BY DEF TankTypes, NetTypes
<1>2. \A q \in Received(p, twice) : (q \in net /\ q # p) \/ q.type = p.type
    BY <1>1, ReceivedIs
<1>3. \A q \in net : q # p => q \in Received(p, twice)
    BY <1>1, ReceivedIs
<1>4. \A q : q.type = "SYNC" => (q \in net' <=> q \in net)
    BY <1>2, <1>3
<1>. QED
    BY <1>4, SameSyncs

LEMMA QuietKeeps ==
    ASSUME TankTypes, FishKept, CountKept, NEW k \in Tank,
           Tick(k) \/ Visit(k) \/ WalkEnd(k) \/ Relocate(k) \/ Sticky(k) \/ Recluse(k) \/ Eject(k)
    PROVE  FishKept' /\ CountKept'
<1>1. /\ my[k] \in Place /\ ticks[k] \in Nat /\ cnxn[k] \in Beside4 /\ fishes[k] \in Seq(FishState)
    BY TypesOf
<1>2. UNCHANGED <<count, main, fate, doubled, skewed>>
    BY DEF Tick, Visit, WalkEnd, Relocate, Sticky, Recluse, Eject
<1>3. \A x, l : InHand(main', x, l) <=> InHand(main, x, l)
    BY <1>2, SameHands
<1>4. ASSUME \A p : p.type = "SYNC" => (p \in net' <=> p \in net),
             \A x, l, i : InTank(fishes', x, l, i) <=> InTank(fishes, x, l, i),
             \A l \in Tank : Swimming(l)' = Swimming(l)
      PROVE  FishKept' /\ CountKept'
    <2>1. \A x, p : InSync(net', x, p) <=> InSync(net, x, p)
        BY <1>4, SameSyncs
    <2>. QED
        BY <1>2, <1>3, <1>4, <2>1, Stays, CountStays
<1>5. CASE Tick(k)
    <2>1. \A p \in Pings(my[k], cnxn[k]) : p.type = "PING"
        BY <1>1, PingsAre
    <2>2. \A p : p.type = "SYNC" => (p \in net' <=> p \in net)
        BY <1>5, <2>1 DEF Tick
    <2>3. UNCHANGED fishes
        BY <1>5 DEF Tick
    <2>. QED
        BY <1>4, <2>2, <2>3, SameLists
<1>6. CASE Visit(k)
    <2>. DEFINE f == walk[k].f
                o == fishes[k][f]
                late == Late(k, o)
                here == IF late THEN [o EXCEPT !.state = "LIVE"] ELSE o
                c == [d \in Dir |-> IF late /\ d = o.dest THEN [cnxn[k][d] EXCEPT !.live = FALSE] ELSE cnxn[k][d]]
                goes == ~alone[k].sticky /\ ~alone[k].recluse
    <2>1. PICK out \in IF here.state = "LIVE" THEN Edges ELSE {{}} :
             LET way == Way(c, out)
             IN  /\ fishes' = [fishes EXCEPT ![k][f] =
                        IF way # "none" /\ goes THEN [Shipped(here, ticks[k]) EXCEPT !.dest = way] ELSE here]
                 /\ net' = IF way # "none" /\ goes THEN net \cup {SendFish(k, here, c[way].to)} ELSE net
                 /\ walk' = [walk EXCEPT ![k].f = f + 1, ![k].lf = IF way # "none" THEN @ ELSE f]
        BY <1>6 DEF Visit
    <2>. DEFINE way == Way(c, out)
                g == IF way # "none" /\ goes THEN [Shipped(here, ticks[k]) EXCEPT !.dest = way] ELSE here
                q == [fishes[k] EXCEPT ![f] = g]
    <2>2. fishes' = [fishes EXCEPT ![k] = q]
        BY <2>1 DEF TankTypes, ListTypes
    <2>3. f \in DOMAIN fishes[k]
        BY <1>6 DEF Visit, WalkAt
    <2>4. o \in FishState
        BY <1>1, <2>3
    <2>5. here.state # "LIVE" => way = "none"
        BY <2>1 DEF Way
    <2>6. net' = net \/ net' = net \cup {SendFish(k, here, c[way].to)}
        BY <2>1
    <2>7. late => o.state = "XMIT"
        BY DEF Late
    <2>. HIDE DEF o, late, c, goes, way
    <2>8. here \in FishState /\ here.id = o.id /\ (here.state = "DEAD" <=> o.state = "DEAD")
        BY <2>4, <2>7 DEF FishState
    <2>. HIDE DEF here
    <2>9. g.id = o.id /\ (g.state = "DEAD" <=> o.state = "DEAD")
        <3>1. CASE way # "none" /\ goes
            <4>1. Shipped(here, ticks[k]) \in FishState /\ Shipped(here, ticks[k]).id = here.id
                  /\ Shipped(here, ticks[k]).state = "XMIT"
                BY <1>1, <2>8, ShippedIs
            <4>2. g = [Shipped(here, ticks[k]) EXCEPT !.dest = way]
                BY <3>1
            <4>. HIDE DEF g
            <4>3. g.id = here.id /\ g.state = "XMIT"
                BY <4>1, <4>2 DEF FishState
            <4>. QED
                BY <2>5, <2>8, <3>1, <4>3
        <3>2. CASE ~(way # "none" /\ goes)
            BY <2>8, <3>2
        <3>. QED
            BY <3>1, <3>2
    <2>. HIDE DEF g
    <2>10. SameList(q, fishes[k])
        BY <1>1, <2>3, <2>9 DEF o, SameList
    <2>. HIDE DEF q
    <2>11. \A p : p.type = "SYNC" => (p \in net' <=> p \in net)
        <3>1. SendFish(k, here, c[way].to).type = "SEND"
            BY DEF SendFish, Packet
        <3>. QED
            BY <2>6, <3>1
    <2>12. /\ \A x, l, i : InTank(fishes', x, l, i) <=> InTank(fishes, x, l, i)
           /\ \A l \in Tank : Swimming(l)' = Swimming(l)
        BY <2>2, <2>10, SameFish
    <2>. QED
        BY <1>4, <2>11, <2>12
<1>7. CASE WalkEnd(k) \/ Sticky(k) \/ Recluse(k)
    <2>1. UNCHANGED <<fishes, net>>
        BY <1>7 DEF WalkEnd, Sticky, Recluse
    <2>. QED
        BY <1>4, <2>1, SameLists
<1>8. CASE Relocate(k)
    <2>1. PICK spot \in Moves : net' = net \cup Pings(spot, Unknown(spot))
        BY <1>8 DEF Relocate
    <2>2. spot \in Place
        BY FishAssumption DEF Place
    <2>3. \A p \in Pings(spot, Unknown(spot)) : p.type = "PING"
        BY <2>2, BesideType, PingsAre
    <2>4. \A p : p.type = "SYNC" => (p \in net' <=> p \in net)
        BY <2>1, <2>3
    <2>5. UNCHANGED fishes
        BY <1>8 DEF Relocate
    <2>. QED
        BY <1>4, <2>4, <2>5, SameLists
<1>9. CASE Eject(k)
    <2>. DEFINE lives == {i \in DOMAIN fishes[k] : fishes[k][i].state = "LIVE"}
                to == cnxn[k][FirstLive(cnxn[k])].to
                q == [i \in DOMAIN fishes[k] |->
                         IF i \in lives THEN Shipped(fishes[k][i], ticks[k]) ELSE fishes[k][i]]
                new == {SendFish(k, fishes[k][i], to) : i \in lives}
    <2>1. fishes' = [fishes EXCEPT ![k] = q] /\ net' = net \cup new
        BY <1>9 DEF Eject
    <2>2. \A i \in DOMAIN fishes[k] : fishes[k][i] \in FishState
        BY <1>1
    <2>3. SameList(q, fishes[k])
        BY <1>1, <2>2, ShippedIs DEF SameList
    <2>4. \A p \in new : p.type = "SEND"
        BY DEF SendFish, Packet
    <2>. HIDE DEF q, new
    <2>5. \A p : p.type = "SYNC" => (p \in net' <=> p \in net)
        BY <2>1, <2>4
    <2>6. /\ \A x, l, i : InTank(fishes', x, l, i) <=> InTank(fishes, x, l, i)
          /\ \A l \in Tank : Swimming(l)' = Swimming(l)
        <3>1. fishes' = [fishes EXCEPT ![k] = q]
            BY <2>1
        <3>. QED
            BY <3>1, <2>3, SameFish
    <2>. QED
        BY <1>4, <2>5, <2>6
<1>. QED
    BY <1>5, <1>6, <1>7, <1>8, <1>9

LEMMA AskedKeeps ==
    ASSUME TankTypes, FishKept, CountKept, NEW k \in Tank, NEW p \in net, NEW twice \in BOOLEAN,
           DoPing(k, p, twice) \/ DoPong(k, p, twice) \/ DoSend(k, p, twice)
    PROVE  FishKept' /\ CountKept'
<1>1. p.type # "SYNC" /\ UNCHANGED <<fishes, count, main, fate, doubled, skewed>>
    BY DEF DoPing, DoPong, DoSend
<1>2. \E new : (\A q \in new : q.type # "SYNC") /\ net' = Received(p, twice) \cup new
    <2>1. CASE DoPing(k, p, twice)
        <3>. DEFINE new == {Packet("PONG", my[k], p.from, NoUid, NoFish)}
        <3>1. \A q \in new : q.type # "SYNC"
            BY DEF Packet
        <3>2. net' = Received(p, twice) \cup new
            BY <2>1 DEF DoPing
        <3>. HIDE DEF new
        <3>. QED
            BY <3>1, <3>2
    <2>2. CASE DoPong(k, p, twice)
        <3>. DEFINE new == {}
        <3>1. \A q \in new : q.type # "SYNC"
            BY DEF Packet
        <3>2. net' = Received(p, twice) \cup new
            BY <2>2 DEF DoPong
        <3>. HIDE DEF new
        <3>. QED
            BY <3>1, <3>2
    <2>3. CASE DoSend(k, p, twice)
        <3>. DEFINE new == IF alone[k].recluse THEN {} ELSE {Packet("ACK", my[k], p.from, p.uid, NoFish)}
        <3>1. \A q \in new : q.type # "SYNC"
            BY DEF Packet
        <3>2. net' = Received(p, twice) \cup new
            BY <2>3 DEF DoSend
        <3>. HIDE DEF new
        <3>. QED
            BY <3>1, <3>2
    <2>. QED
        BY <2>1, <2>2, <2>3
<1>3. \A x, q : InSync(net', x, q) <=> InSync(net, x, q)
    BY <1>1, <1>2, OtherReceived
<1>. QED
    BY <1>1, <1>3, SameLists, SameHands, Stays, CountStays

\* For the actions that move a fish: what is left to show of each one.
LEMMA OneByOne ==
    ASSUME FishKept, doubled \subseteq doubled',
           \A x \in Fish \ doubled' :
              Alone(fishes, main, net, x) /\ (fate[x] = "kept" <=> Somewhere(fishes, main, net, x))
                => Alone(fishes', main', net', x) /\ (fate'[x] = "kept" <=> Somewhere(fishes', main', net', x))
    PROVE  FishKept'
<1>1. Placed(fishes, main, net, doubled, fate)
    BY PlacedIs
<1>2. Placed(fishes', main', net', doubled', fate')
    BY <1>1 DEF Placed
<1>. QED
    BY <1>2, PlacedIs

LEMMA SwimmingIs ==
    ASSUME TankTypes, NEW k \in Tank
    PROVE  /\ Swimming(k) \subseteq 1..Len(fishes[k]) /\ IsFiniteSet(Swimming(k))
           /\ Cardinality(Swimming(k)) \in Nat
<1>1. fishes[k] \in Seq(FishState)
    BY TypesOf
<1>2. Swimming(k) \subseteq 1..Len(fishes[k])
    BY <1>1 DEF Swimming
<1>3. IsFiniteSet(1..Len(fishes[k]))
    BY <1>1, FS_Interval
<1>4. IsFiniteSet(Swimming(k))
    BY <1>2, <1>3, FS_Subset
<1>. QED
    BY <1>2, <1>4, FS_CardinalityType

LEMMA SameSize ==
    ASSUME NEW S, NEW T, NEW b \in [S -> T], IsFiniteSet(S),
           \A i, j \in S : b[i] = b[j] => i = j, \A t \in T : \E i \in S : b[i] = t
    PROVE  IsFiniteSet(T) /\ Cardinality(T) = Cardinality(S)
<1>1. b \in Bijection(S, T)
    BY Fun_IsBij
<1>2. ExistsBijection(S, T)
    BY <1>1 DEF ExistsBijection
<1>. QED
    BY <1>2, FS_Bijection

LEMMA AckKeeps ==
    ASSUME TankTypes, FishKept, CountKept, NEW k \in Tank, NEW p \in net, NEW twice \in BOOLEAN,
           DoAck(k, p, twice)
    PROVE  FishKept' /\ CountKept'
<1>1. p.type = "ACK" /\ main[k].pc = "recv" /\ net' = Received(p, twice)
      /\ UNCHANGED <<fate, doubled, skewed>>
    BY DEF DoAck, Hears
<1>2. \A x, q : InSync(net', x, q) <=> InSync(net, x, q)
    <2>. DEFINE none == {}
    <2>1. net' = Received(p, twice) \cup none /\ \A q \in none : q.type # "SYNC"
        BY <1>1
    <2>. HIDE DEF none
    <2>. QED
        BY <1>1, <2>1, OtherReceived
<1>3. CASE InTransfer(k, p.uid) = {}
    BY <1>1, <1>2, <1>3, SameLists, SameHands, Stays, CountStays DEF DoAck
<1>4. CASE InTransfer(k, p.uid) # {}
    <2>1. PICK i \in InTransfer(k, p.uid) :
              /\ fishes' = [fishes EXCEPT ![k][i].state = "DEAD", ![k][i].held = TRUE]
              /\ count' = [count EXCEPT ![k] = @ - 1]
              /\ main' = [main EXCEPT ![k] = [InRecv EXCEPT !.pc = "sync", !.fish = fishes[k][i].id,
                                                 !.uid = p.uid, !.peer = p.from]]
        BY <1>4 DEF DoAck
    <2>2. i \in DOMAIN fishes[k] /\ fishes[k][i].state = "XMIT" /\ fishes[k] \in Seq(FishState)
        BY TypesOf DEF InTransfer
    <2>3. fishes[k][i] \in FishState
        BY <2>2
    <2>. DEFINE id == fishes[k][i].id
                d == [fishes[k][i] EXCEPT !.state = "DEAD", !.held = TRUE]
                q == [fishes[k] EXCEPT ![i] = d]
    <2>4. d.state = "DEAD" /\ d.id = id
        BY <2>3 DEF FishState
    <2>5. fishes' = [fishes EXCEPT ![k] = q]
        BY <2>1 DEF TankTypes, ListTypes
    <2>6. main'[k].pc = "sync" /\ main'[k].fish = id /\ \A l \in Tank \ {k} : main'[l] = main[l]
        BY <2>1, InRecvIs DEF TankTypes, HandTypes, Hand
    <2>7. fishes'[k] = q /\ \A l \in Tank \ {k} : fishes'[l] = fishes[l]
        BY <2>5 DEF TankTypes, ListTypes
    <2>. HIDE DEF d
    <2>8. /\ \A x, j : InTank(fishes', x, k, j) <=> InTank(fishes, x, k, j) /\ j # i
          /\ \A x, l, j : l # k => (InTank(fishes', x, l, j) <=> InTank(fishes, x, l, j))
        BY <2>2, <2>4, <2>7 DEF InTank
    <2>9. InTank(fishes, id, k, i) /\ \A x, j : InTank(fishes, x, k, i) => x = id
        BY <2>2 DEF InTank
    <2>. HIDE DEF id, q
    <2>10. \A x, l : InHand(main', x, l) <=> InHand(main, x, l) \/ (l = k /\ x = id)
        BY <1>1, <2>6 DEF InHand
    <2>11. FishKept'
        <3>1. ASSUME NEW x \in Fish \ doubled', Alone(fishes, main, net, x),
                     fate[x] = "kept" <=> Somewhere(fishes, main, net, x)
              PROVE  Alone(fishes', main', net', x) /\ (fate'[x] = "kept" <=> Somewhere(fishes', main', net', x))
            <4>1. CASE x = id
                <5>1. /\ \A l, j : InTank(fishes, x, l, j) => l = k /\ j = i
                      /\ \A l : ~InHand(main, x, l)
                      /\ \A s : ~InSync(net, x, s)
                    BY <2>9, <3>1, <4>1 DEF Alone
                <5>2. /\ \A l, j : ~InTank(fishes', x, l, j)
                      /\ \A s : ~InSync(net', x, s)
                      /\ \A l : InHand(main', x, l) <=> l = k
                    BY <1>2, <2>8, <2>10, <4>1, <5>1
                <5>3. fate'[x] = "kept"
                    BY <1>1, <2>9, <3>1, <4>1 DEF Somewhere
                <5>. QED
                    BY <5>2, <5>3 DEF Alone, Somewhere
            <4>2. CASE x # id
                <5>1. \A l, j : InTank(fishes', x, l, j) <=> InTank(fishes, x, l, j)
                    BY <2>8, <2>9, <4>2
                <5>2. \A l : InHand(main', x, l) <=> InHand(main, x, l)
                    BY <2>10, <4>2
                <5>. QED
                    BY <1>1, <1>2, <3>1, <5>1, <5>2 DEF Alone, Somewhere
            <4>. QED
                BY <4>1, <4>2
        <3>. QED
            BY <1>1, <3>1, OneByOne
    <2>12. CountKept'
        <3>1. Swimming(k)' = Swimming(k) \ {i} /\ i \in Swimming(k)
            BY <2>2, <2>4, <2>7 DEF Swimming, q
        <3>2. \A l \in Tank \ {k} : Swimming(l)' = Swimming(l) /\ count'[l] = count[l]
            BY <2>1, <2>7 DEF Swimming, TankTypes, ListTypes
        <3>3. Cardinality(Swimming(k)') = Cardinality(Swimming(k)) - 1
            BY <3>1, SwimmingIs, FS_RemoveElement
        <3>4. count'[k] = count[k] - 1
            BY <2>1 DEF TankTypes, ListTypes
        <3>. QED
            BY <1>1, <3>2, <3>3, <3>4 DEF CountKept
    <2>. QED
        BY <2>11, <2>12
<1>. QED
    BY <1>3, <1>4

LEMMA SentSyncKeeps ==
    ASSUME TankTypes, FishKept, CountKept, NEW k \in Tank, SendSync(k)
    PROVE  FishKept' /\ CountKept'
<1>. DEFINE r == main[k]
            q == [i \in DOMAIN fishes[k] |-> [fishes[k][i] EXCEPT !.held = FALSE]]
<1>1. PICK y \in IF r.freed THEN {r.fish, Rubbish} ELSE {r.fish} :
         /\ net' = net \cup {Packet("SYNC", my[k], r.peer, r.uid, y)}
         /\ fate' = IF y = r.fish THEN fate ELSE [z \in Fish |-> IF z = r.fish THEN "freed" ELSE fate[z]]
    BY DEF SendSync
<1>2. r.pc = "sync" /\ fishes' = [fishes EXCEPT ![k] = q] /\ main' = [main EXCEPT ![k] = InRecv]
      /\ UNCHANGED <<count, doubled, skewed>>
    BY DEF SendSync
<1>3. y = r.fish \/ y = Rubbish
    BY <1>1
<1>4. SameList(q, fishes[k])
    <2>1. \A o \in FishState : [o EXCEPT !.held = FALSE].id = o.id /\ [o EXCEPT !.held = FALSE].state = o.state
        BY DEF FishState
    <2>2. \A i \in DOMAIN fishes[k] : fishes[k][i] \in FishState
        BY TypesOf
    <2>. QED
        BY <2>1, <2>2 DEF SameList
<1>. HIDE DEF q
<1>5. /\ \A x, l, i : InTank(fishes', x, l, i) <=> InTank(fishes, x, l, i)
      /\ \A l \in Tank : Swimming(l)' = Swimming(l)
    <2>1. fishes' = [fishes EXCEPT ![k] = q]
        BY <1>2
    <2>. QED
        BY <1>4, <2>1, SameFish
<1>6. CountKept'
    BY <1>2, <1>5, CountStays
<1>. DEFINE s == Packet("SYNC", my[k], r.peer, r.uid, y)
<1>7. \A x, p : InSync(net', x, p) <=> InSync(net, x, p) \/ (p = s /\ x = y)
    <2>1. s.type = "SYNC" /\ s.fish = y /\ ~s.seen
        BY DEF Packet
    <2>2. net' = net \cup {s}
        BY <1>1
    <2>. HIDE DEF s
    <2>. QED
        BY <2>1, <2>2 DEF InSync
<1>8. InHand(main, r.fish, k) /\ \A x : InHand(main, x, k) => x = r.fish
    BY <1>2 DEF InHand
<1>9. \A x, l : InHand(main', x, l) <=> InHand(main, x, l) /\ l # k
    <2>1. main'[k].pc = "recv" /\ \A l \in Tank \ {k} : main'[l] = main[l]
        BY <1>2 DEF TankTypes, HandTypes, InRecv
    <2>. QED
        BY <2>1 DEF InHand
<1>. HIDE DEF s, r
<1>10. ASSUME NEW x \in Fish \ doubled', Alone(fishes, main, net, x),
              fate[x] = "kept" <=> Somewhere(fishes, main, net, x)
       PROVE  Alone(fishes', main', net', x) /\ (fate'[x] = "kept" <=> Somewhere(fishes', main', net', x))
    <2>1. CASE x = r.fish
        <3>1. /\ \A l, j : ~InTank(fishes, x, l, j)
              /\ \A l : InHand(main, x, l) => l = k
              /\ \A p : ~InSync(net, x, p)
            BY <1>8, <1>10, <2>1 DEF Alone
        <3>2. (\A l, j : ~InTank(fishes', x, l, j)) /\ (\A l : ~InHand(main', x, l))
            BY <1>5, <1>9, <3>1
        <3>3. CASE y = r.fish
            <4>1. \A p : InSync(net', x, p) <=> p = s
                BY <1>7, <2>1, <3>1, <3>3
            <4>2. fate'[x] = "kept"
                BY <1>1, <1>8, <1>10, <2>1, <3>3 DEF Somewhere, r
            <4>. QED
                BY <3>2, <4>1, <4>2 DEF Alone, Somewhere
        <3>4. CASE y # r.fish
            <4>1. \A p : ~InSync(net', x, p)
                BY <1>7, <2>1, <3>1, <3>4
            <4>2. fate'[x] # "kept"
                BY <1>1, <2>1, <3>4 DEF r
            <4>. QED
                BY <3>2, <4>1, <4>2 DEF Alone, Somewhere
        <3>. QED
            BY <3>3, <3>4
    <2>2. CASE x # r.fish
        <3>1. x # y
            BY <1>3, <2>2, FishAssumption
        <3>2. \A p : InSync(net', x, p) <=> InSync(net, x, p)
            BY <1>7, <3>1
        <3>3. \A l : InHand(main', x, l) <=> InHand(main, x, l)
            BY <1>8, <1>9, <2>2
        <3>4. fate'[x] = fate[x]
            BY <1>1, <2>2 DEF r
        <3>. QED
            BY <1>5, <1>10, <3>2, <3>3, <3>4 DEF Alone, Somewhere
    <2>. QED
        BY <2>1, <2>2
<1>11. FishKept'
    BY <1>2, <1>10, OneByOne
<1>. QED
    BY <1>6, <1>11

LEMMA SyncKeeps ==
    ASSUME TankTypes, FishKept, CountKept, NEW k \in Tank, NEW p \in net, NEW twice \in BOOLEAN,
           DoSync(k, p, twice)
    PROVE  FishKept' /\ CountKept'
<1>1. p.type = "SYNC" /\ main[k].pc = "recv" /\ net' = Received(p, twice)
      /\ doubled' = (IF p.seen THEN doubled \cup {p.fish} ELSE doubled)
      /\ UNCHANGED <<fishes, count, fate, skewed>>
    BY DEF DoSync, Hears
<1>2. net \subseteq PacketSet
    BY DEF TankTypes, NetTypes
<1>3. \A x, q : InSync(net', x, q) <=> InSync(net, x, q) /\ q # p
    <2>1. \A q \in Received(p, twice) : (q \in net /\ q # p) \/ q.seen
        BY <1>2, ReceivedIs
    <2>2. \A q \in net : q # p => q \in Received(p, twice)
        BY <1>2, ReceivedIs
    <2>3. p \in net' => p.seen
        BY <1>1, <2>1
    <2>. QED
        BY <1>1, <2>1, <2>2, <2>3 DEF InSync
<1>4. \A x, l : InHand(main', x, l) <=> InHand(main, x, l) \/ (l = k /\ x = p.fish)
    <2>. DEFINE h == [InRecv EXCEPT !.pc = "insert", !.fish = p.fish,
                          !.uid = Uid(my[k], ticks[k]), !.peer = p.from, !.welcome = TRUE]
    <2>1. main' = [main EXCEPT ![k] = h]
        BY DEF DoSync
    <2>2. h.pc = "insert" /\ h.fish = p.fish
        BY DEF InRecv
    <2>. HIDE DEF h
    <2>3. main'[k] = h /\ \A l \in Tank \ {k} : main'[l] = main[l]
        BY <2>1 DEF TankTypes, HandTypes
    <2>. QED
        BY <1>1, <2>2, <2>3 DEF InHand
<1>5. /\ \A x, l, i : InTank(fishes', x, l, i) <=> InTank(fishes, x, l, i)
      /\ \A l \in Tank : Swimming(l)' = Swimming(l)
    BY <1>1, SameLists
<1>6. CountKept'
    BY <1>1, <1>5, CountStays
<1>7. ASSUME NEW x \in Fish \ doubled', Alone(fishes, main, net, x),
             fate[x] = "kept" <=> Somewhere(fishes, main, net, x)
      PROVE  Alone(fishes', main', net', x) /\ (fate'[x] = "kept" <=> Somewhere(fishes', main', net', x))
    <2>1. CASE x = p.fish
        <3>1. InSync(net, x, p)
            BY <1>1, <1>7, <2>1 DEF InSync
        <3>2. /\ \A l, j : ~InTank(fishes, x, l, j)
              /\ \A l : ~InHand(main, x, l)
              /\ \A q : InSync(net, x, q) => q = p
            BY <1>7, <3>1 DEF Alone
        <3>3. /\ \A l, j : ~InTank(fishes', x, l, j)
              /\ \A l : InHand(main', x, l) <=> l = k
              /\ \A q : ~InSync(net', x, q)
            BY <1>3, <1>4, <1>5, <2>1, <3>2
        <3>4. fate'[x] = "kept"
            BY <1>1, <1>7, <3>1 DEF Somewhere
        <3>. QED
            BY <3>3, <3>4 DEF Alone, Somewhere
    <2>2. CASE x # p.fish
        <3>1. \A q : InSync(net', x, q) <=> InSync(net, x, q)
            BY <1>3, <2>2 DEF InSync
        <3>2. \A l : InHand(main', x, l) <=> InHand(main, x, l)
            BY <1>4, <2>2
        <3>. QED
            BY <1>1, <1>5, <1>7, <3>1, <3>2 DEF Alone, Somewhere
    <2>. QED
        BY <2>1, <2>2
<1>8. FishKept'
    BY <1>1, <1>7, OneByOne
<1>. QED
    BY <1>6, <1>8

\* A fish that may have another number in its list by now.
LEMMA Moved ==
    ASSUME NEW x, Alone(fishes, main, net, x), fate[x] = "kept" <=> Somewhere(fishes, main, net, x),
           fate'[x] = fate[x],
           \A l, m, i, j : InTank(fishes', x, l, i) /\ InTank(fishes', x, m, j) => l = m /\ i = j,
           \A l, i : InTank(fishes', x, l, i) => \E j : InTank(fishes, x, l, j),
           \A l, i : InTank(fishes, x, l, i) => \E j : InTank(fishes', x, l, j),
           \A l : InHand(main', x, l) <=> InHand(main, x, l),
           \A p : InSync(net', x, p) <=> InSync(net, x, p)
    PROVE  Alone(fishes', main', net', x) /\ (fate'[x] = "kept" <=> Somewhere(fishes', main', net', x))
<1>1. Somewhere(fishes', main', net', x) <=> Somewhere(fishes, main, net, x)
    BY DEF Somewhere
<1>2. /\ \A k, l : InHand(main', x, k) /\ InHand(main', x, l) => k = l
      /\ \A p, q : InSync(net', x, p) /\ InSync(net', x, q) => p = q
      /\ \A l, p : ~(InHand(main', x, l) /\ InSync(net', x, p))
    BY DEF Alone
<1>3. /\ \A k, i, l : ~(InTank(fishes', x, k, i) /\ InHand(main', x, l))
      /\ \A k, i, p : ~(InTank(fishes', x, k, i) /\ InSync(net', x, p))
    BY DEF Alone
<1>. QED
    BY <1>1, <1>2, <1>3 DEF Alone

LEMMA NewfishKeeps ==
    ASSUME TankTypes, FishKept, CountKept, NEW k \in Tank, Newfish(k)
    PROVE  FishKept' /\ CountKept'
<1>. DEFINE y == main[k].fish
            new == NewFish(y, main[k].uid)
            q == fishes[k]
<1>1. main[k].pc = "insert" /\ fishes' = [fishes EXCEPT ![k] = <<new>> \o q]
      /\ count' = [count EXCEPT ![k] = @ + 1] /\ main' = [main EXCEPT ![k] = InRecv]
      /\ UNCHANGED <<net, fate, doubled, skewed>>
    BY DEF Newfish
<1>2. q \in Seq(FishState) /\ count[k] \in Int
    BY TypesOf
<1>3. new.state = "LIVE" /\ new.id = y
    BY DEF NewFish
<1>4. \A l \in Tank \ {k} : fishes'[l] = fishes[l] /\ main'[l] = main[l] /\ count'[l] = count[l]
    BY <1>1 DEF TankTypes, ListTypes, HandTypes
<1>5. fishes'[k] = <<new>> \o q /\ main'[k].pc = "recv" /\ count'[k] = count[k] + 1
    BY <1>1 DEF TankTypes, ListTypes, HandTypes, InRecv
<1>6. /\ DOMAIN fishes'[k] = 1..(Len(q) + 1) /\ fishes'[k][1] = new
      /\ \A j \in 2..(Len(q) + 1) : fishes'[k][j] = q[j - 1]
      /\ DOMAIN q = 1..Len(q) /\ Len(q) \in Nat
    <2>. HIDE DEF new, q
    <2>. QED
        BY <1>2, <1>5
<1>. HIDE DEF new
<1>7. \A x, j : InTank(fishes', x, k, j) <=> (j = 1 /\ x = y)
                     \/ (j \in 2..(Len(q) + 1) /\ InTank(fishes, x, k, j - 1))
    <2>1. ASSUME NEW x, NEW j, InTank(fishes', x, k, j), ~(j = 1 /\ x = y)
          PROVE  j \in 2..(Len(q) + 1) /\ InTank(fishes, x, k, j - 1)
        <3>1. j \in 1..(Len(q) + 1) /\ j # 1
            BY <1>3, <1>6, <2>1 DEF InTank
        <3>2. j \in 2..(Len(q) + 1) /\ j - 1 \in 1..Len(q)
            BY <1>6, <3>1
        <3>. QED
            BY <1>6, <2>1, <3>2 DEF InTank
    <2>2. ASSUME NEW x, NEW j, j \in 2..(Len(q) + 1), InTank(fishes, x, k, j - 1)
          PROVE  InTank(fishes', x, k, j)
        <3>1. j \in 1..(Len(q) + 1)
            BY <1>6, <2>2
        <3>. QED
            BY <1>6, <2>2, <3>1 DEF InTank
    <2>3. InTank(fishes', y, k, 1)
        <3>1. 1 \in 1..(Len(q) + 1)
            BY <1>6
        <3>. QED
            BY <1>3, <1>6, <3>1 DEF InTank
    <2>. QED
        BY <2>1, <2>2, <2>3
<1>8. \A x, l, j : l # k => (InTank(fishes', x, l, j) <=> InTank(fishes, x, l, j))
    BY <1>4 DEF InTank
<1>9. InHand(main, y, k) /\ \A x : InHand(main, x, k) => x = y
    BY <1>1 DEF InHand
<1>10. \A x, l : InHand(main', x, l) <=> InHand(main, x, l) /\ l # k
    BY <1>4, <1>5 DEF InHand
<1>11. \A x, p : InSync(net', x, p) <=> InSync(net, x, p)
    BY <1>1 DEF InSync
<1>12. \A x, j : InTank(fishes, x, k, j) => j \in 1..Len(q) /\ Len(q) \in Nat
    BY <1>6 DEF InTank
<1>13. CountKept'
    <2>. DEFINE S == Swimming(k)
                M == {j \in 2..(Len(q) + 1) : j - 1 \in S}
                b == [i \in S |-> i + 1]
    <2>1. IsFiniteSet(S) /\ S \subseteq 1..Len(q) /\ Cardinality(S) \in Nat
        BY SwimmingIs
    <2>2. \A i \in S : b[i] \in M
        BY <1>6, <2>1
    <2>3. IsFiniteSet(M) /\ Cardinality(M) = Cardinality(S)
        <3>1. \A i, j \in S : b[i] = b[j] => i = j
            BY <1>6, <2>1
        <3>2. \A j \in M : \E i \in S : b[i] = j
            <4>. SUFFICES ASSUME NEW j \in M PROVE \E i \in S : b[i] = j
                OBVIOUS
            <4>1. j - 1 \in S /\ j \in Int
                BY <1>6
            <4>2. b[j - 1] = j
                BY <4>1
            <4>. QED
                BY <4>1, <4>2
        <3>3. b \in [S -> M]
            BY <2>2
        <3>. HIDE DEF b, M, S
        <3>. QED
            BY <2>1, <3>1, <3>2, <3>3, SameSize
    <2>. HIDE DEF b
    <2>4. Swimming(k)' = M \cup {1}
        <3>1. \A j : j \in Swimming(k)' <=> j \in 1..(Len(q) + 1) /\ fishes'[k][j].state # "DEAD"
            BY <1>6 DEF Swimming
        <3>2. 1 \in Swimming(k)'
            BY <1>3, <1>6, <3>1
        <3>3. \A j \in 2..(Len(q) + 1) : j \in Swimming(k)' <=> j \in M
            <4>1. \A j \in 2..(Len(q) + 1) : j \in 1..(Len(q) + 1) /\ j - 1 \in 1..Len(q)
                BY <1>6
            <4>. QED
                BY <1>6, <3>1, <4>1 DEF Swimming
        <3>4. \A j : j \in 1..(Len(q) + 1) => j = 1 \/ j \in 2..(Len(q) + 1)
            BY <1>6
        <3>. QED
            BY <3>1, <3>2, <3>3, <3>4
    <2>5. 1 \notin M
        BY <1>6
    <2>. HIDE DEF M, S
    <2>6. Cardinality(M \cup {1}) = Cardinality(S) + 1
        BY <2>3, <2>5, FS_AddElement
    <2>7. Cardinality(Swimming(k)') = Cardinality(Swimming(k)) + 1
        BY <2>4, <2>6 DEF S
    <2>8. \A l \in Tank \ {k} : Swimming(l)' = Swimming(l) /\ count'[l] = count[l]
        BY <1>4 DEF Swimming
    <2>. QED
        BY <1>1, <1>5, <2>7, <2>8 DEF CountKept
<1>. HIDE DEF y, q
<1>14. ASSUME NEW x \in Fish \ doubled', Alone(fishes, main, net, x),
              fate[x] = "kept" <=> Somewhere(fishes, main, net, x)
       PROVE  Alone(fishes', main', net', x) /\ (fate'[x] = "kept" <=> Somewhere(fishes', main', net', x))
    <2>1. CASE x = y
        <3>1. /\ \A l, j : ~InTank(fishes, x, l, j)
              /\ \A l : InHand(main, x, l) => l = k
              /\ \A p : ~InSync(net, x, p)
            BY <1>9, <1>14, <2>1 DEF Alone
        <3>2. /\ \A l, j : InTank(fishes', x, l, j) <=> l = k /\ j = 1
              /\ \A l : ~InHand(main', x, l)
              /\ \A p : ~InSync(net', x, p)
            BY <1>7, <1>8, <1>10, <1>11, <2>1, <3>1
        <3>3. fate'[x] = "kept"
            BY <1>1, <1>9, <1>14, <2>1 DEF Somewhere
        <3>. QED
            BY <3>2, <3>3 DEF Alone, Somewhere
    <2>2. CASE x # y
        <3>1. \A l : InHand(main', x, l) <=> InHand(main, x, l)
            BY <1>9, <1>10, <2>2
        <3>2. \A j : InTank(fishes', x, k, j) <=> j \in 2..(Len(q) + 1) /\ InTank(fishes, x, k, j - 1)
            BY <1>7, <2>2
        <3>3. ASSUME NEW l, NEW m, NEW i, NEW j, InTank(fishes', x, l, i), InTank(fishes', x, m, j)
              PROVE  l = m /\ i = j
            <4>. DEFINE ii == IF l = k THEN i - 1 ELSE i
                        jj == IF m = k THEN j - 1 ELSE j
            <4>1. InTank(fishes, x, l, ii) /\ InTank(fishes, x, m, jj)
                BY <1>8, <3>2, <3>3
            <4>2. l = m /\ ii = jj
                BY <1>14, <4>1 DEF Alone
            <4>3. CASE l = k
                <5>1. i \in 2..(Len(q) + 1) /\ j \in 2..(Len(q) + 1) /\ i - 1 = j - 1
                    BY <3>2, <3>3, <4>2, <4>3
                <5>. QED
                    BY <4>2, <5>1
            <4>. QED
                BY <4>2, <4>3
        <3>4. \A l, i : InTank(fishes', x, l, i) => \E j : InTank(fishes, x, l, j)
            BY <1>8, <3>2
        <3>6. \A p : InSync(net', x, p) <=> InSync(net, x, p)
            BY <1>11
        <3>7. fate'[x] = fate[x]
            BY <1>1
        <3>5. ASSUME NEW l, NEW i, InTank(fishes, x, l, i) PROVE \E j : InTank(fishes', x, l, j)
            <4>1. CASE l = k
                <5>1. i \in 1..Len(q) /\ Len(q) \in Nat
                    BY <1>12, <3>5, <4>1
                <5>2. i + 1 \in 2..(Len(q) + 1) /\ (i + 1) - 1 = i
                    BY <5>1
                <5>3. InTank(fishes', x, k, i + 1)
                    BY <3>2, <3>5, <4>1, <5>2
                <5>. QED
                    BY <4>1, <5>3
            <4>. QED
                BY <1>8, <3>5, <4>1
        <3>. QED
            BY <1>14, <3>1, <3>3, <3>4, <3>5, <3>6, <3>7, Moved
    <2>. QED
        BY <2>1, <2>2
<1>15. FishKept'
    BY <1>1, <1>14, OneByOne
<1>. QED
    BY <1>13, <1>15

LEMMA PurgeKeeps ==
    ASSUME TankTypes, FishKept, CountKept, NEW k \in Tank, Purge(k)
    PROVE  FishKept' /\ CountKept'
<1>. DEFINE lives == {i \in DOMAIN fishes[k] : fishes[k][i].state = "LIVE"}
            q == [i \in DOMAIN fishes[k] |->
                     IF i \in lives THEN [fishes[k][i] EXCEPT !.state = "DEAD"] ELSE fishes[k][i]]
<1>1. /\ fishes' = [fishes EXCEPT ![k] = q] /\ count' = [count EXCEPT ![k] = 0]
      /\ fate' = [x \in Fish |-> IF \E i \in lives : fishes[k][i].id = x THEN "purged" ELSE fate[x]]
      /\ skewed' = IF k \in skewed \/ \E i \in DOMAIN fishes[k] : fishes[k][i].state = "XMIT"
                   THEN skewed \cup {k} ELSE skewed
      /\ UNCHANGED <<main, net, doubled>>
    BY DEF Purge
<1>2. \A i \in DOMAIN fishes[k] : fishes[k][i] \in FishState
    BY TypesOf
<1>3. \A o \in FishState : [o EXCEPT !.state = "DEAD"].state = "DEAD"
                            /\ (o.state # "LIVE" /\ o.state # "DEAD" => o.state = "XMIT")
    BY DEF FishState
<1>4. \A j \in DOMAIN fishes[k] : q[j].state # "DEAD" => j \notin lives /\ q[j] = fishes[k][j]
    BY <1>2, <1>3
<1>5. \A j \in DOMAIN fishes[k] : j \notin lives => q[j] = fishes[k][j]
    OBVIOUS
<1>6. DOMAIN q = DOMAIN fishes[k]
    OBVIOUS
<1>7. \A j : j \in lives <=> j \in DOMAIN fishes[k] /\ fishes[k][j].state = "LIVE"
    OBVIOUS
<1>. HIDE DEF q, lives
<1>8. /\ fishes'[k] = q /\ count'[k] = 0
      /\ \A l \in Tank \ {k} : fishes'[l] = fishes[l] /\ count'[l] = count[l]
    BY <1>1 DEF TankTypes, ListTypes
<1>9. /\ \A x, j : InTank(fishes', x, k, j) <=> InTank(fishes, x, k, j) /\ j \notin lives
      /\ \A x, l, j : l # k => (InTank(fishes', x, l, j) <=> InTank(fishes, x, l, j))
    BY <1>4, <1>5, <1>6, <1>8 DEF InTank
<1>10. /\ \A x, l : InHand(main', x, l) <=> InHand(main, x, l)
       /\ \A x, p : InSync(net', x, p) <=> InSync(net, x, p)
    BY <1>1 DEF InHand, InSync
<1>11. CountKept'
    <2>1. ASSUME k \notin skewed' PROVE Swimming(k)' = {}
        <3>1. \A i \in DOMAIN fishes[k] : fishes[k][i].state # "XMIT"
            BY <1>1, <2>1
        <3>2. \A i \in DOMAIN fishes[k] : q[i].state = "DEAD"
            BY <1>2, <1>3, <1>4, <1>7, <3>1
        <3>. QED
            BY <1>6, <1>8, <3>2 DEF Swimming
    <2>2. k \notin skewed' => Cardinality(Swimming(k)') = 0
        BY <2>1, FS_EmptySet
    <2>3. \A l \in Tank \ {k} : Swimming(l)' = Swimming(l)
        BY <1>8 DEF Swimming
    <2>4. \A l \in Tank : l \notin skewed' => l \notin skewed
        BY <1>1
    <2>. QED
        BY <1>8, <2>2, <2>3, <2>4 DEF CountKept
<1>12. ASSUME NEW x \in Fish \ doubled', Alone(fishes, main, net, x),
              fate[x] = "kept" <=> Somewhere(fishes, main, net, x)
       PROVE  Alone(fishes', main', net', x) /\ (fate'[x] = "kept" <=> Somewhere(fishes', main', net', x))
    <2>1. CASE \E i \in lives : fishes[k][i].id = x
        <3>1. PICK i \in lives : fishes[k][i].id = x
            BY <2>1
        <3>2. InTank(fishes, x, k, i)
            BY <1>7, <3>1 DEF InTank
        <3>3. /\ \A l, j : InTank(fishes, x, l, j) => l = k /\ j = i
              /\ \A l : ~InHand(main, x, l)
              /\ \A p : ~InSync(net, x, p)
            BY <1>12, <3>2 DEF Alone
        <3>4. /\ \A l, j : ~InTank(fishes', x, l, j)
              /\ \A l : ~InHand(main', x, l)
              /\ \A p : ~InSync(net', x, p)
            BY <1>9, <1>10, <3>1, <3>3
        <3>5. fate'[x] # "kept"
            BY <1>1, <2>1
        <3>. QED
            BY <3>4, <3>5 DEF Alone, Somewhere
    <2>2. CASE ~\E i \in lives : fishes[k][i].id = x
        <3>1. \A l, j : InTank(fishes', x, l, j) <=> InTank(fishes, x, l, j)
            BY <1>9, <2>2 DEF InTank
        <3>2. fate'[x] = fate[x]
            BY <1>1, <2>2
        <3>. QED
            BY <1>10, <1>12, <3>1, <3>2 DEF Alone, Somewhere
    <2>. QED
        BY <2>1, <2>2
<1>13. FishKept'
    BY <1>1, <1>12, OneByOne
<1>. QED
    BY <1>11, <1>13

LEMMA NewKeeps ==
    ASSUME TankTypes, FishKept, CountKept, NEW k \in Tank, New(k)
    PROVE  FishKept' /\ CountKept'
<1>1. PICK y \in Fish :
         /\ fate[y] = "unborn" /\ fate' = [fate EXCEPT ![y] = "kept"]
         /\ main' = [main EXCEPT ![k] = [InRecv EXCEPT !.pc = "insert", !.fish = y,
                                            !.uid = Uid(my[k], ticks[k])]]
    BY DEF New
<1>2. main[k].pc = "recv" /\ UNCHANGED <<fishes, count, net, doubled, skewed>>
    BY DEF New, Commanded
<1>. DEFINE h == [InRecv EXCEPT !.pc = "insert", !.fish = y, !.uid = Uid(my[k], ticks[k])]
<1>3. h.pc = "insert" /\ h.fish = y
    BY DEF InRecv
<1>4. main' = [main EXCEPT ![k] = h]
    BY <1>1
<1>. HIDE DEF h
<1>5. main'[k] = h /\ \A l \in Tank \ {k} : main'[l] = main[l]
    BY <1>4 DEF TankTypes, HandTypes
<1>6. \A x, l : InHand(main', x, l) <=> InHand(main, x, l) \/ (l = k /\ x = y)
    BY <1>2, <1>3, <1>5 DEF InHand
<1>7. /\ \A x, l, i : InTank(fishes', x, l, i) <=> InTank(fishes, x, l, i)
      /\ \A l \in Tank : Swimming(l)' = Swimming(l)
    BY <1>2, SameLists
<1>8. \A x, p : InSync(net', x, p) <=> InSync(net, x, p)
    BY <1>2 DEF InSync
<1>9. CountKept'
    BY <1>2, <1>7, CountStays
<1>10. fate'[y] = "kept" /\ \A x \in Fish \ {y} : fate'[x] = fate[x]
    BY <1>1 DEF TankTypes, FateTypes
<1>11. ASSUME NEW x \in Fish \ doubled', Alone(fishes, main, net, x),
              fate[x] = "kept" <=> Somewhere(fishes, main, net, x)
       PROVE  Alone(fishes', main', net', x) /\ (fate'[x] = "kept" <=> Somewhere(fishes', main', net', x))
    <2>1. CASE x = y
        <3>1. ~Somewhere(fishes, main, net, x)
            BY <1>1, <1>11, <2>1
        <3>2. /\ \A l, i : ~InTank(fishes', x, l, i)
              /\ \A l : InHand(main', x, l) <=> l = k
              /\ \A p : ~InSync(net', x, p)
            BY <1>6, <1>7, <1>8, <2>1, <3>1 DEF Somewhere
        <3>. QED
            BY <1>10, <2>1, <3>2 DEF Alone, Somewhere
    <2>2. CASE x # y
        <3>1. \A l : InHand(main', x, l) <=> InHand(main, x, l)
            BY <1>6, <2>2
        <3>2. fate'[x] = fate[x]
            BY <1>10, <2>2
        <3>. QED
            BY <1>7, <1>8, <1>11, <3>1, <3>2 DEF Alone, Somewhere
    <2>. QED
        BY <2>1, <2>2
<1>12. FishKept'
    BY <1>2, <1>11, OneByOne
<1>. QED
    BY <1>9, <1>12

LEMMA LostKeeps ==
    ASSUME TankTypes, FishKept, CountKept, NEW p \in net, LoseSync(p)
    PROVE  FishKept' /\ CountKept'
<1>1. /\ p.type = "SYNC" /\ net' = net \ {p}
      /\ fate' = IF p.seen THEN fate ELSE [x \in Fish |-> IF x = p.fish THEN "lost" ELSE fate[x]]
      /\ UNCHANGED <<fishes, count, main, doubled, skewed>>
    BY DEF LoseSync
<1>2. CountKept'
    BY <1>1, SameLists, CountStays
<1>3. /\ \A x, l, i : InTank(fishes', x, l, i) <=> InTank(fishes, x, l, i)
      /\ \A x, l : InHand(main', x, l) <=> InHand(main, x, l)
      /\ \A x, s : InSync(net', x, s) <=> InSync(net, x, s) /\ s # p
    BY <1>1 DEF InTank, InHand, InSync
<1>4. ASSUME NEW x \in Fish \ doubled', Alone(fishes, main, net, x),
             fate[x] = "kept" <=> Somewhere(fishes, main, net, x)
      PROVE  Alone(fishes', main', net', x) /\ (fate'[x] = "kept" <=> Somewhere(fishes', main', net', x))
    <2>1. CASE x = p.fish /\ ~p.seen
        <3>1. InSync(net, x, p)
            BY <1>1, <2>1 DEF InSync
        <3>2. /\ \A l, j : ~InTank(fishes', x, l, j)
              /\ \A l : ~InHand(main', x, l)
              /\ \A s : ~InSync(net', x, s)
            BY <1>3, <1>4, <3>1 DEF Alone
        <3>3. fate'[x] # "kept"
            BY <1>1, <2>1
        <3>. QED
            BY <3>2, <3>3 DEF Alone, Somewhere
    <2>2. CASE x # p.fish \/ p.seen
        <3>1. \A s : InSync(net', x, s) <=> InSync(net, x, s)
            BY <1>3, <2>2 DEF InSync
        <3>2. fate'[x] = fate[x]
            BY <1>1, <2>2
        <3>. QED
            BY <1>3, <1>4, <3>1, <3>2 DEF Alone, Somewhere
    <2>. QED
        BY <2>1, <2>2
<1>5. FishKept'
    BY <1>1, <1>4, OneByOne
<1>. QED
    BY <1>2, <1>5

\* The number of a fish in the list that lacks numbers lf + 1 to f, and back.
Short(q, lf, f) == SubSeq(q, 1, lf) \o SubSeq(q, f + 1, Len(q))

LEMMA Shortened ==
    ASSUME NEW S, NEW q \in Seq(S), NEW lf \in Nat, NEW f \in Nat, 0 < lf, lf < f, f <= Len(q)
    PROVE  /\ DOMAIN Short(q, lf, f) = 1..(Len(q) - f + lf)
           /\ \A j \in 1..lf : Short(q, lf, f)[j] = q[j]
           /\ \A j \in (lf + 1)..(Len(q) - f + lf) : Short(q, lf, f)[j] = q[j - lf + f]
<1>. DEFINE r == Short(q, lf, f)
            a == SubSeq(q, 1, lf)
            b == SubSeq(q, f + 1, Len(q))
<1>1. a \in Seq(S) /\ Len(a) = lf /\ \A j \in 1..lf : a[j] = q[j]
    OBVIOUS
<1>2. b \in Seq(S) /\ Len(b) = Len(q) - f /\ \A j \in 1..(Len(q) - f) : b[j] = q[f + j]
    OBVIOUS
<1>. HIDE DEF a, b
<1>3. /\ DOMAIN (a \o b) = 1..(lf + (Len(q) - f))
      /\ \A j \in 1..(lf + (Len(q) - f)) : (a \o b)[j] = IF j <= lf THEN a[j] ELSE b[j - lf]
    <2>1. /\ a \o b \in Seq(S) /\ Len(a \o b) = Len(a) + Len(b)
          /\ \A j \in 1..(Len(a) + Len(b)) : (a \o b)[j] = IF j <= Len(a) THEN a[j] ELSE b[j - Len(a)]
        BY <1>1, <1>2, ConcatProperties
    <2>2. DOMAIN (a \o b) = 1..Len(a \o b)
        BY <2>1
    <2>. QED
        BY <1>1, <1>2, <2>1, <2>2
<1>4. r = a \o b
    BY DEF a, b, Short
<1>. HIDE DEF r
<1>5. Len(q) \in Nat
    OBVIOUS
<1>6. 1..(lf + (Len(q) - f)) = 1..(Len(q) - f + lf)
    BY <1>5
<1>7. ASSUME NEW j \in (lf + 1)..(Len(q) - f + lf) PROVE r[j] = q[j - lf + f]
    <2>1. j \in 1..(lf + (Len(q) - f)) /\ ~(j <= lf) /\ j - lf \in 1..(Len(q) - f)
        BY <1>5
    <2>2. r[j] = b[j - lf] /\ b[j - lf] = q[f + (j - lf)]
        BY <1>2, <1>3, <1>4, <2>1
    <2>3. f + (j - lf) = j - lf + f
        BY <1>5
    <2>. QED
        BY <2>2, <2>3
<1>8. ASSUME NEW j \in 1..lf PROVE r[j] = q[j]
    <2>1. j \in 1..(lf + (Len(q) - f)) /\ j <= lf
        BY <1>5
    <2>. QED
        BY <1>1, <1>3, <1>4, <2>1
<1>. QED
    BY <1>3, <1>4, <1>6, <1>7, <1>8 DEF r

LEMMA ExpireKeeps ==
    ASSUME TankTypes, FishKept, CountKept, NEW k \in Tank, Expire(k)
    PROVE  FishKept' /\ CountKept'
<1>. DEFINE f == walk[k].f
            lf == walk[k].lf
            q == fishes[k]
            r == Short(q, lf, f)
            n == Len(q) - f + lf
            left == {i \in (lf + 1)..(f - 1) : q[i].state # "DEAD"}
            Old(j) == IF j <= lf THEN j ELSE j - lf + f
<1>1. /\ f \in DOMAIN q /\ walk[k].pc = "walk" /\ q[f].state = "DEAD" /\ lf # 0
      /\ fishes' = [fishes EXCEPT ![k] = r]
      /\ main' = [main EXCEPT ![k].freed = @ \/ q[f].held]
      /\ fate' = [x \in Fish |-> IF \E i \in left : q[i].id = x THEN "left out" ELSE fate[x]]
      /\ skewed' = IF left # {} THEN skewed \cup {k} ELSE skewed
      /\ UNCHANGED <<count, net, doubled>>
    BY DEF Expire, WalkAt, Locked, Short
<1>2. q \in Seq(FishState) /\ f \in Nat /\ lf \in Nat /\ lf < f /\ count[k] \in Int
    BY <1>1, TypesOf
<1>3. f \in 1..Len(q) /\ f <= Len(q) /\ 0 < lf /\ Len(q) \in Nat /\ DOMAIN q = 1..Len(q)
    <2>1. f \in DOMAIN q /\ lf # 0
        BY <1>1
    <2>. HIDE DEF left, f, lf, q, r
    <2>2. DOMAIN q = 1..Len(q) /\ Len(q) \in Nat
        BY <1>2
    <2>. QED
        BY <1>2, <2>1, <2>2
<1>4. /\ fishes'[k] = r
      /\ \A l \in Tank \ {k} : fishes'[l] = fishes[l]
    BY <1>1 DEF TankTypes, ListTypes
<1>5. left = {i \in (lf + 1)..(f - 1) : q[i].state # "DEAD"}
    OBVIOUS
<1>. HIDE DEF left, f, lf, q, r
<1>6. /\ DOMAIN r = 1..n
      /\ \A j \in 1..lf : r[j] = q[j]
      /\ \A j \in (lf + 1)..n : r[j] = q[j - lf + f]
    <2>1. r = Short(q, lf, f)
        BY DEF r
    <2>2. /\ DOMAIN r = 1..(Len(q) - f + lf)
          /\ \A j \in 1..lf : r[j] = q[j]
          /\ \A j \in (lf + 1)..(Len(q) - f + lf) : r[j] = q[j - lf + f]
        <3>. HIDE DEF n, Old
        <3>1. q \in Seq(FishState) /\ lf \in Nat /\ f \in Nat /\ 0 < lf /\ lf < f /\ f <= Len(q)
            BY <1>2, <1>3
        <3>. QED
            BY ONLY <2>1, <3>1, Shortened
    <2>. QED
        BY <2>2
<1>7. n \in Nat /\ lf \in 1..n
    <2>1. n >= lf /\ n \in Int
        BY <1>2, <1>3
    <2>. HIDE DEF n
    <2>. QED
        BY <1>2, <1>3, <2>1
<1>8. \A j \in 1..n : Old(j) \in 1..Len(q) /\ r[j] = q[Old(j)]
    <2>. SUFFICES ASSUME NEW j \in 1..n PROVE Old(j) \in 1..Len(q) /\ r[j] = q[Old(j)]
        OBVIOUS
    <2>1. CASE j <= lf
        <3>1. j \in 1..lf /\ j \in 1..Len(q)
            BY <1>2, <1>3, <2>1
        <3>. QED
            BY <1>6, <2>1, <3>1
    <2>2. CASE ~(j <= lf)
        <3>1. j \in (lf + 1)..n /\ j - lf + f \in 1..Len(q)
            BY <1>2, <1>3, <1>7, <2>2
        <3>. QED
            BY <1>6, <2>2, <3>1
    <2>. QED
        BY <2>1, <2>2
<1>9. \A i, j \in 1..n : Old(i) = Old(j) => i = j
    BY <1>2, <1>7
<1>10. \A i \in 1..Len(q) : i \notin (lf + 1)..f => \E j \in 1..n : Old(j) = i
    <2>. SUFFICES ASSUME NEW i \in 1..Len(q), i \notin (lf + 1)..f PROVE \E j \in 1..n : Old(j) = i
        OBVIOUS
    <2>1. CASE i <= lf
        <3>1. i \in 1..n
            BY <1>7, <2>1
        <3>. QED
            BY <2>1, <3>1
    <2>2. CASE ~(i <= lf)
        <3>1. i > f
            BY <1>2, <2>2
        <3>2. i - f + lf \in 1..n /\ ~(i - f + lf <= lf) /\ (i - f + lf) - lf + f = i
            BY <1>2, <1>3, <3>1
        <3>. QED
            BY <3>2
    <2>. QED
        BY <2>1, <2>2
<1>11. \A j \in 1..n : Old(j) \notin (lf + 1)..f
    BY <1>2, <1>7
<1>. HIDE DEF n, Old
<1>12. /\ \A x, j : InTank(fishes', x, k, j) <=> j \in 1..n /\ InTank(fishes, x, k, Old(j))
       /\ \A x, l, j : l # k => (InTank(fishes', x, l, j) <=> InTank(fishes, x, l, j))
    BY <1>3, <1>4, <1>6, <1>8 DEF InTank, q
<1>13. \A x, l : InHand(main', x, l) <=> InHand(main, x, l)
    <2>1. main[k] \in Hand
        BY TypesOf
    <2>2. main'[k] = [main[k] EXCEPT !.freed = @ \/ q[f].held] /\ \A l \in Tank \ {k} : main'[l] = main[l]
        BY <1>1 DEF TankTypes, HandTypes
    <2>3. main'[k].pc = main[k].pc /\ main'[k].fish = main[k].fish
        BY <2>1, <2>2 DEF Hand
    <2>. QED
        BY <2>2, <2>3 DEF InHand
<1>14. \A x, p : InSync(net', x, p) <=> InSync(net, x, p)
    BY <1>1 DEF InSync
<1>15. CountKept'
    <2>1. ASSUME left = {} PROVE Cardinality(Swimming(k)') = Cardinality(Swimming(k))
        <3>. DEFINE S == Swimming(k)
                    M == Swimming(k)'
                    b == [j \in M |-> Old(j)]
        <3>1. \A i : i \in S <=> i \in 1..Len(q) /\ q[i].state # "DEAD"
            BY <1>3 DEF Swimming, q
        <3>2. \A j : j \in M <=> j \in 1..n /\ q[Old(j)].state # "DEAD"
            BY <1>4, <1>6, <1>8 DEF Swimming
        <3>3. IsFiniteSet(M)
            <4>1. M \subseteq 1..n /\ IsFiniteSet(1..n)
                BY <1>7, <3>2, FS_Interval
            <4>. QED
                BY <4>1, FS_Subset
        <3>4. b \in [M -> S]
            BY <1>8, <3>1, <3>2
        <3>5. \A i, j \in M : b[i] = b[j] => i = j
            BY <1>9, <3>2
        <3>6. \A i \in S : \E j \in M : b[j] = i
            <4>. SUFFICES ASSUME NEW i \in S PROVE \E j \in M : Old(j) = i
                OBVIOUS
            <4>1. i \notin (lf + 1)..(f - 1) /\ i # f
                BY <1>1, <1>5, <2>1, <3>1
            <4>2. i \notin (lf + 1)..f
                BY <1>2, <1>3, <3>1, <4>1
            <4>. QED
                BY <1>10, <3>1, <3>2, <4>2
        <3>. HIDE DEF b, S, M
        <3>7. Cardinality(S) = Cardinality(M)
            BY <3>3, <3>4, <3>5, <3>6, SameSize
        <3>. QED
            BY <3>7 DEF S, M
    <2>2. \A l \in Tank \ {k} : Swimming(l)' = Swimming(l)
        BY <1>4 DEF Swimming
    <2>3. (k \notin skewed' => left = {}) /\ skewed \subseteq skewed'
        BY <1>1
    <2>. QED
        BY <1>1, <2>1, <2>2, <2>3 DEF CountKept
<1>16. ASSUME NEW x \in Fish \ doubled', Alone(fishes, main, net, x),
              fate[x] = "kept" <=> Somewhere(fishes, main, net, x)
       PROVE  Alone(fishes', main', net', x) /\ (fate'[x] = "kept" <=> Somewhere(fishes', main', net', x))
    <2>1. CASE \E i \in left : q[i].id = x
        <3>1. PICK i \in left : q[i].id = x
            BY <2>1
        <3>2. i \in (lf + 1)..(f - 1) /\ q[i].state # "DEAD"
            BY <1>5, <3>1
        <3>3. i \in 1..Len(q) /\ i \in (lf + 1)..f
            BY <1>2, <1>3, <3>2
        <3>4. InTank(fishes, x, k, i)
            BY <1>3, <3>1, <3>2, <3>3 DEF InTank, q
        <3>5. /\ \A l, j : InTank(fishes, x, l, j) => l = k /\ j = i
              /\ \A l : ~InHand(main, x, l)
              /\ \A p : ~InSync(net, x, p)
            BY <1>16, <3>4 DEF Alone
        <3>6. /\ \A l, j : ~InTank(fishes', x, l, j)
              /\ \A l : ~InHand(main', x, l)
              /\ \A p : ~InSync(net', x, p)
            BY <1>11, <1>12, <1>13, <1>14, <3>3, <3>5
        <3>7. fate'[x] # "kept"
            BY <1>1, <2>1
        <3>. QED
            BY <3>6, <3>7 DEF Alone, Somewhere
    <2>2. CASE ~\E i \in left : q[i].id = x
        <3>1. fate'[x] = fate[x]
            BY <1>1, <2>2
        <3>2. \A l, m, i, j : InTank(fishes', x, l, i) /\ InTank(fishes', x, m, j) => l = m /\ i = j
            <4>. SUFFICES ASSUME NEW l, NEW m, NEW i, NEW j, InTank(fishes', x, l, i), InTank(fishes', x, m, j)
                          PROVE  l = m /\ i = j
                OBVIOUS
            <4>1. CASE l = k /\ m = k
                <5>1. i \in 1..n /\ j \in 1..n /\ Old(i) = Old(j)
                    BY <1>12, <1>16, <4>1 DEF Alone
                <5>. QED
                    BY <1>9, <4>1, <5>1
            <4>2. CASE l = k /\ m # k
                BY <1>12, <1>16, <4>2 DEF Alone
            <4>3. CASE l # k /\ m = k
                BY <1>12, <1>16, <4>3 DEF Alone
            <4>4. CASE l # k /\ m # k
                BY <1>12, <1>16, <4>4 DEF Alone
            <4>. QED
                BY <4>1, <4>2, <4>3, <4>4
        <3>3. \A l, i : InTank(fishes', x, l, i) => \E j : InTank(fishes, x, l, j)
            BY <1>12
        <3>4. ASSUME NEW l, NEW i, InTank(fishes, x, l, i) PROVE \E j : InTank(fishes', x, l, j)
            <4>1. CASE l = k
                <5>1. i \in 1..Len(q) /\ q[i].state # "DEAD" /\ q[i].id = x
                    BY <1>3, <3>4, <4>1 DEF InTank, q
                <5>2. i \notin (lf + 1)..(f - 1) /\ i # f
                    BY <1>1, <1>5, <2>2, <5>1
                <5>3. i \notin (lf + 1)..f
                    BY <1>2, <1>3, <5>1, <5>2
                <5>4. PICK j \in 1..n : Old(j) = i
                    BY <1>10, <5>1, <5>3
                <5>. QED
                    BY <1>12, <3>4, <4>1, <5>4
            <4>2. CASE l # k
                BY <1>12, <3>4, <4>2
            <4>. QED
                BY <4>1, <4>2
        <3>5. \A l : InHand(main', x, l) <=> InHand(main, x, l)
            BY <1>13
        <3>6. \A p : InSync(net', x, p) <=> InSync(net, x, p)
            BY <1>14
        <3>. QED
            BY <1>16, <3>1, <3>2, <3>3, <3>4, <3>5, <3>6, Moved
    <2>. QED
        BY <2>1, <2>2
<1>17. FishKept'
    BY <1>1, <1>16, OneByOne
<1>. QED
    BY <1>15, <1>17

-----------------------------------------------------------------------------
(* The theorem.                                                             *)

FishInv == TankTypes /\ FishKept /\ CountKept

LEMMA InitTypes == FishInit => TankTypes
<1>. SUFFICES ASSUME FishInit PROVE TankTypes
    OBVIOUS
<1>1. my \in [Tank -> Place] /\ \A k \in Tank : my[k] \in Place
    BY FishAssumption DEF FishInit, Place
<1>2. cnxn = [k \in Tank |-> Unknown(my[k])]
    BY DEF FishInit
<1>3. \A k \in Tank : cnxn[k] \in Beside4
    BY <1>1, <1>2, BesideType
<1>4. MapTypes
    <2>1. ticks \in [Tank -> Nat]
        BY DEF FishInit
    <2>2. cnxn \in [Tank -> Beside4]
        BY <1>2, <1>3
    <2>. QED
        BY <1>1, <2>1, <2>2 DEF MapTypes
<1>5. ListTypes
    <2>1. ASSUME NEW k \in Tank PROVE fishes[k] \in Seq(FishState) /\ count[k] \in Int
        <3>. DEFINE q == fishes[k]
                    b == Born[k]
        <3>1. b \in Seq(Fish)
            BY FishAssumption
        <3>. DEFINE u == Uid(<<2, 2>>, 0)
        <3>2. u \in UidType
            <4>. DEFINE spot == <<2, 2>>
                        zero == 0
            <4>1. spot \in Place /\ zero \in Nat
                BY DEF Place
            <4>. HIDE DEF spot, zero
            <4>2. Uid(spot, zero) \in UidType
                BY <4>1, UidIs
            <4>. QED
                BY <4>2 DEF spot, zero
        <3>3. q = [i \in DOMAIN b |-> NewFish(b[Len(b) + 1 - i], u)]
            BY DEF FishInit
        <3>. HIDE DEF q, b, u
        <3>4. DOMAIN b = 1..Len(b) /\ Len(b) \in Nat
            BY <3>1
        <3>5. \A i \in 1..Len(b) : b[Len(b) + 1 - i] \in Fish
            <4>1. \A i \in 1..Len(b) : Len(b) + 1 - i \in 1..Len(b)
                BY <3>4
            <4>. QED
                BY <3>1, <3>4, <4>1
        <3>6. \A i \in 1..Len(b) : q[i] \in FishState
            BY <3>2, <3>3, <3>4, <3>5, NewFishIs
        <3>7. q = [i \in 1..Len(b) |-> q[i]]
            BY <3>3, <3>4
        <3>8. q \in Seq(FishState)
            BY <3>4, <3>6, <3>7, ListOf
        <3>9. count[k] = Len(b)
            BY DEF FishInit, b
        <3>. QED
            BY <3>4, <3>8, <3>9 DEF q
    <2>2. DOMAIN fishes = Tank /\ fishes = [k \in Tank |-> fishes[k]]
          /\ count = [k \in Tank |-> count[k]]
        BY DEF FishInit
    <2>. QED
        BY <2>1, <2>2 DEF ListTypes
<1>6. FateTypes
    BY DEF FishInit, FateTypes, Fates
<1>7. WalkTypes
    <2>1. Asleep \in Walk /\ Asleep.pc # "walk"
        BY DEF Asleep, Walk
    <2>2. walk = [k \in Tank |-> Asleep]
        BY DEF FishInit
    <2>. QED
        BY <2>1, <2>2 DEF WalkTypes
<1>8. HandTypes
    <2>1. InRecv.pc = "recv"
        BY DEF InRecv
    <2>2. main = [k \in Tank |-> InRecv]
        BY DEF FishInit
    <2>. QED
        BY <2>1, <2>2, InRecvIs DEF HandTypes
<1>9. NetTypes
    <2>1. \A k \in Tank : Pings(my[k], cnxn[k]) \subseteq PacketSet
                           /\ \A p \in Pings(my[k], cnxn[k]) : p.type = "PING"
        BY <1>1, <1>3, PingsAre
    <2>2. \A p \in net : \E k \in Tank : p \in Pings(my[k], cnxn[k])
        BY DEF FishInit
    <2>. QED
        BY <2>1, <2>2 DEF NetTypes
<1>. QED
    BY <1>4, <1>5, <1>6, <1>7, <1>8, <1>9 DEF TankTypes

LEMMA InitKept == FishInit => FishKept /\ CountKept
<1>. SUFFICES ASSUME FishInit PROVE FishKept /\ CountKept
    OBVIOUS
<1>1. \A k \in Tank : Born[k] \in Seq(Fish)
    BY FishAssumption
<1>2. \A k \in Tank : DOMAIN Born[k] = 1..Len(Born[k]) /\ Len(Born[k]) \in Nat
    BY <1>1
<1>3. \A k \in Tank : \A i \in 1..Len(Born[k]) : Len(Born[k]) + 1 - i \in 1..Len(Born[k])
    BY <1>2
<1>4. \A k \in Tank : /\ DOMAIN fishes[k] = 1..Len(Born[k])
                       /\ \A i \in DOMAIN fishes[k] : fishes[k][i].state = "LIVE"
                              /\ fishes[k][i].id = Born[k][Len(Born[k]) + 1 - i]
    BY <1>2 DEF FishInit, NewFish
<1>5. \A x, k, i : InTank(fishes, x, k, i) <=> k \in Tank /\ i \in 1..Len(Born[k])
                                             /\ Born[k][Len(Born[k]) + 1 - i] = x
    BY <1>4 DEF InTank
<1>6. \A x, k : ~InHand(main, x, k)
    BY DEF FishInit, InRecv, InHand
<1>7. \A x, p : ~InSync(net, x, p)
    <2>1. TankTypes
        BY InitTypes
    <2>2. \A k \in Tank : my[k] \in Place /\ cnxn[k] \in Beside4
        BY <2>1, TypesOf
    <2>3. \A k \in Tank : \A p \in Pings(my[k], cnxn[k]) : p.type = "PING"
        BY <2>2, PingsAre
    <2>4. \A p \in net : \E k \in Tank : p \in Pings(my[k], cnxn[k])
        BY DEF FishInit
    <2>. QED
        BY <2>3, <2>4 DEF InSync
<1>8. ASSUME NEW x \in Fish PROVE Alone(fishes, main, net, x) /\ (fate[x] = "kept" <=> Somewhere(fishes, main, net, x))
    <2>1. ASSUME NEW k, NEW l, NEW i, NEW j, InTank(fishes, x, k, i), InTank(fishes, x, l, j)
          PROVE  k = l /\ i = j
        <3>1. k \in Tank /\ l \in Tank /\ i \in 1..Len(Born[k]) /\ j \in 1..Len(Born[l])
              /\ Born[k][Len(Born[k]) + 1 - i] = x /\ Born[l][Len(Born[l]) + 1 - j] = x
            BY <1>5, <2>1
        <3>2. Len(Born[k]) + 1 - i \in DOMAIN Born[k] /\ Len(Born[l]) + 1 - j \in DOMAIN Born[l]
            BY <1>2, <1>3, <3>1
        <3>3. k = l /\ Len(Born[k]) + 1 - i = Len(Born[l]) + 1 - j
            <4>. DEFINE a == Len(Born[k]) + 1 - i
                        b == Len(Born[l]) + 1 - j
            <4>1. k \in Tank /\ l \in Tank /\ a \in DOMAIN Born[k] /\ b \in DOMAIN Born[l]
                  /\ Born[k][a] = Born[l][b]
                BY <3>1, <3>2
            <4>. HIDE DEF a, b
            <4>2. k = l /\ a = b
                BY <4>1, FishAssumption
            <4>. QED
                BY <4>2 DEF a, b
        <3>. QED
            BY <1>2, <3>1, <3>3
    <2>2. Alone(fishes, main, net, x)
        BY <1>6, <1>7, <2>1 DEF Alone
    <2>3. Somewhere(fishes, main, net, x) <=> \E k \in Tank : \E i \in DOMAIN Born[k] : Born[k][i] = x
        <3>1. ASSUME NEW k \in Tank, NEW i \in DOMAIN Born[k], Born[k][i] = x
              PROVE  InTank(fishes, x, k, Len(Born[k]) + 1 - i)
            <4>1. i \in 1..Len(Born[k]) /\ Len(Born[k]) \in Nat
                BY <1>2
            <4>2. Len(Born[k]) + 1 - (Len(Born[k]) + 1 - i) = i
                BY <4>1
            <4>. QED
                BY <1>3, <1>5, <3>1, <4>1, <4>2
        <3>2. ASSUME NEW k, NEW i, InTank(fishes, x, k, i)
              PROVE  k \in Tank /\ \E j \in DOMAIN Born[k] : Born[k][j] = x
            BY <1>2, <1>3, <1>5, <3>2
        <3>. QED
            BY <1>6, <1>7, <3>1, <3>2 DEF Somewhere
    <2>4. fate[x] = "kept" <=> \E k \in Tank : \E i \in DOMAIN Born[k] : Born[k][i] = x
        BY DEF FishInit
    <2>. QED
        BY <2>2, <2>3, <2>4
<1>9. FishKept
    <2>1. Placed(fishes, main, net, doubled, fate)
        BY <1>8 DEF Placed
    <2>. QED
        BY <2>1, PlacedIs
<1>10. CountKept
    <2>1. ASSUME NEW k \in Tank PROVE count[k] = Cardinality(Swimming(k))
        <3>1. Swimming(k) = 1..Len(Born[k])
            BY <1>4 DEF Swimming
        <3>2. count[k] = Len(Born[k])
            BY DEF FishInit
        <3>3. Len(Born[k]) \in Nat
            BY <1>2
        <3>. DEFINE m == Len(Born[k])
                    one == 1
        <3>4. Cardinality(one..m) = IF one > m THEN 0 ELSE m - one + 1
            <4>. HIDE DEF m
            <4>. QED
                BY <3>3, FS_Interval DEF m
        <3>. QED
            BY <3>1, <3>2, <3>3, <3>4
    <2>. QED
        BY <2>1 DEF CountKept
<1>. QED
    BY <1>9, <1>10

LEMMA FishStep == FishInv /\ [FishNext]_fishVars => FishInv'
<1>. SUFFICES ASSUME FishInv, [FishNext]_fishVars PROVE FishInv'
    OBVIOUS
<1>. USE DEF FishInv
<1>1. ASSUME NEW k \in Tank, Tick(k) \/ Visit(k) \/ WalkEnd(k) PROVE FishInv'
    BY <1>1, TickTypes, VisitTypes, WalkEndTypes, QuietKeeps
<1>2. ASSUME NEW k \in Tank, Expire(k) PROVE FishInv'
    BY <1>2, ExpireTypes, ExpireKeeps
<1>3. ASSUME NEW k \in Tank, SendSync(k) PROVE FishInv'
    BY <1>3, HandTypesStep, SentSyncKeeps
<1>4. ASSUME NEW k \in Tank, Newfish(k) PROVE FishInv'
    BY <1>4, HandTypesStep, NewfishKeeps
<1>5. ASSUME NEW k \in Tank, Relocate(k) \/ Sticky(k) \/ Recluse(k) \/ Eject(k) PROVE FishInv'
    BY <1>5, CommandTypes, QuietKeeps
<1>6. ASSUME NEW k \in Tank, Purge(k) PROVE FishInv'
    BY <1>6, CommandTypes, PurgeKeeps
<1>7. ASSUME NEW k \in Tank, New(k) PROVE FishInv'
    BY <1>7, CommandTypes, NewKeeps
<1>8. ASSUME NEW k \in Tank, NEW p \in net, NEW twice \in BOOLEAN,
             DoPing(k, p, twice) \/ DoPong(k, p, twice) \/ DoSend(k, p, twice)
      PROVE  FishInv'
    BY <1>8, PacketTypes, AskedKeeps
<1>9. ASSUME NEW k \in Tank, NEW p \in net, NEW twice \in BOOLEAN, DoAck(k, p, twice) PROVE FishInv'
    BY <1>9, PacketTypes, AckKeeps
<1>10. ASSUME NEW k \in Tank, NEW p \in net, NEW twice \in BOOLEAN, DoSync(k, p, twice) PROVE FishInv'
    BY <1>10, PacketTypes, SyncKeeps
<1>11. ASSUME NEW p \in net, LoseSync(p) PROVE FishInv'
    BY <1>11, LostTypes, LostKeeps
<1>12. CASE UNCHANGED fishVars
    <2>1. TankTypes'
        BY <1>12, Untouched DEF fishVars, TankTypes
    <2>2. FishKept'
        BY <1>12, SameLists, SameHands, Stays DEF fishVars, InSync
    <2>3. CountKept'
        BY <1>12, SameLists, CountStays DEF fishVars
    <2>. QED
        BY <2>1, <2>2, <2>3
<1>. QED
    BY <1>1, <1>2, <1>3, <1>4, <1>5, <1>6, <1>7, <1>8, <1>9, <1>10, <1>11, <1>12 DEF FishNext

\* Packets are lost, come late and come twice, vloop and fishmain take turns: a fish is
\* where it is known to be and nowhere else, and the tank's count is right, but for what
\* dofish, vloop and command are known to lose (fish.c).
THEOREM FishSafe == FishSpec => []FishSwim
<1>1. FishInit => FishInv
    BY InitTypes, InitKept DEF FishInv
<1>2. FishInv /\ [FishNext]_fishVars => FishInv'
    BY FishStep
<1>3. FishInv => FishSwim
    BY TypesFollow DEF FishInv, FishSwim
<1>. QED
    BY <1>1, <1>2, <1>3, PTL DEF FishSpec

-----------------------------------------------------------------------------
(* Kmem: pages and blocks. The invariant: what is free, mapped and handed    *)
(* out, as sets; U is what is held and not mapped, which is a page only in   *)
(* the middle of kfreepage.                                                  *)

Els(l) == {l[i] : i \in DOMAIN l}
Once(l) == \A i, j \in DOMAIN l : l[i] = l[j] => i = j

Entry == [v : VPage, node : Block]

Mem ==
    [ stop : {"no", "panic"}, free : Seq(KPage), high : [VPage -> 0..KPages], freev : Seq(Entry),
      nextmem : Int, chain : [Pool -> Seq(Block)], fresh : [Pool -> Block],
      fresh_count : [Pool -> Int], pools : [Pool -> SUBSET VPage], pages : SUBSET Int,
      vpages : SUBSET Int, blocks : [Pool -> SUBSET Block] ]

Frames(F, high, P) ==
    /\ F \subseteq KPage /\ P \subseteq KPage /\ F \cap P = {}
    /\ \A v \in VPage : high[v] \notin F /\ high[v] \notin P
    /\ \A v, w \in VPage : high[v] = high[w] /\ high[v] # 0 => v = w
    /\ \A p \in KPage : p \in F \/ p \in P \/ \E v \in VPage : high[v] = p

\* The page table once page p, or none, is behind virtual page w.
Behind(high, w, p) == [high EXCEPT ![w] = p]

\* The virtual page that is given next.
Below(next) == next - 1

PagesOf(L) == {a.v : a \in L}
NodesOf(c, L) == {a.node : a \in {a \in L : c = Node}}

Virtuals(L, pools, high, next, V, U) ==
    /\ next \in (VLow - 1)..VTop /\ U \subseteq V
    /\ \A a, b \in L : a.v = b.v => a = b
    /\ \A v \in VPage :
         /\ v \in PagesOf(L) => v \notin V
         /\ v \in PagesOf(L) \/ v \in V => \A c \in Pool : v \notin pools[c]
         /\ v >= next <=> v \in PagesOf(L) \/ v \in V \/ \E c \in Pool : v \in pools[c]
         /\ high[v] = 0 <=> v < next \/ v \in PagesOf(L) \/ v \in U
    /\ \A c, d \in Pool : \A v \in VPage : v \in pools[c] /\ v \in pools[d] => c = d
    /\ V \subseteq VPage

PoolBlocks(C, H, N, f, PG, k) ==
    /\ C \cap H = {} /\ C \cap N = {} /\ H \cap N = {} /\ f.v \in PG
    /\ C \cup H \cup N = {b \in Block : b.v \in PG /\ b.i < k /\ (b.v = f.v => b.i < f.i)}

Good(x, P, V, U, B) ==
    /\ Once(x.free) /\ Once(x.freev) /\ \A c \in Pool : Once(x.chain[c])
    /\ \A a, b \in Els(x.freev) : a.node = b.node => a = b
    /\ Frames(Els(x.free), x.high, P)
    /\ Virtuals(Els(x.freev), x.pools, x.high, x.nextmem, V, U)
    /\ \A c \in Pool : PoolBlocks(Els(x.chain[c]), B[c], NodesOf(c, Els(x.freev)), x.fresh[c],
                                  x.pools[c], PerPage[c])

Counts(x) ==
    \A c \in Pool : x.fresh_count[c] \in 1..PerPage[c] /\ x.fresh[c].i + x.fresh_count[c] = PerPage[c]

KmemInv ==
    kmem \in Mem /\ (kmem.stop = "no" => Good(kmem, kmem.pages, kmem.vpages, {}, kmem.blocks) /\ Counts(kmem))

-----------------------------------------------------------------------------
(* Lists without duplicates, as sets.                                       *)

LEMMA TailOnce ==
    ASSUME NEW S, NEW l \in Seq(S), l # <<>>, Once(l)
    PROVE  /\ Tail(l) \in Seq(S) /\ Once(Tail(l)) /\ Head(l) \in S
           /\ Head(l) \in Els(l) /\ Els(Tail(l)) = Els(l) \ {Head(l)}
<1>1. Len(l) \in Nat \ {0} /\ DOMAIN l = 1..Len(l)
  OBVIOUS
<1>2. Tail(l) \in Seq(S) /\ DOMAIN Tail(l) = 1..(Len(l) - 1) /\ Len(Tail(l)) = Len(l) - 1
  BY <1>1
<1>3. \A i \in 1..(Len(l) - 1) : Tail(l)[i] = l[i + 1]
  BY <1>1, <1>2
<1>4. Head(l) = l[1] /\ 1 \in DOMAIN l
  BY <1>1
<1>5. Once(Tail(l))
  BY <1>1, <1>2, <1>3 DEF Once
<1>6. Els(Tail(l)) \subseteq Els(l) \ {Head(l)}
  BY <1>1, <1>2, <1>3, <1>4 DEF Once, Els
<1>7. ASSUME NEW i \in DOMAIN l, l[i] # Head(l) PROVE l[i] \in Els(Tail(l))
  <2>1. i - 1 \in 1..(Len(l) - 1) /\ Tail(l)[i - 1] = l[i]
    BY <1>1, <1>3, <1>4, <1>7
  <2> QED
    BY <2>1, <1>2 DEF Els
<1>8. Els(l) \ {Head(l)} \subseteq Els(Tail(l))
  BY <1>7 DEF Els
<1>9. Head(l) \in Els(l) /\ Head(l) \in S
  BY <1>1, <1>4 DEF Els
<1> QED
  BY <1>2, <1>5, <1>6, <1>8, <1>9

LEMMA ConsOnce ==
    ASSUME NEW S, NEW l \in Seq(S), NEW e \in S, Once(l), e \notin Els(l)
    PROVE  <<e>> \o l \in Seq(S) /\ Once(<<e>> \o l) /\ Els(<<e>> \o l) = Els(l) \cup {e}
<1> DEFINE k == <<e>> \o l
<1>1. Len(l) \in Nat /\ DOMAIN l = 1..Len(l)
  OBVIOUS
<1>2. k \in Seq(S) /\ DOMAIN k = 1..(Len(l) + 1) /\ k[1] = e
  BY <1>1
<1>3. \A i \in 1..Len(l) : k[i + 1] = l[i]
  BY <1>1
<1>4. \A i \in DOMAIN k : i = 1 \/ (i - 1 \in DOMAIN l /\ k[i] = l[i - 1])
  <2> SUFFICES ASSUME NEW i \in DOMAIN k, i # 1 PROVE i - 1 \in DOMAIN l /\ k[i] = l[i - 1]
    OBVIOUS
  <2>1. i - 1 \in 1..Len(l) /\ (i - 1) + 1 = i
    BY <1>1, <1>2
  <2> QED
    BY <2>1, <1>1, <1>3
<1> HIDE DEF k
<1>5. Once(k)
  <2> SUFFICES ASSUME NEW i \in DOMAIN k, NEW j \in DOMAIN k, k[i] = k[j] PROVE i = j
    BY DEF Once
  <2> QED
    BY <1>1, <1>2, <1>4 DEF Once, Els
<1>6. Els(k) \subseteq Els(l) \cup {e}
  BY <1>2, <1>4 DEF Els
<1>7. e \in Els(k)
  BY <1>1, <1>2 DEF Els
<1>8. ASSUME NEW i \in DOMAIN l PROVE l[i] \in Els(k)
  <2>1. i + 1 \in DOMAIN k /\ k[i + 1] = l[i]
    BY <1>1, <1>2, <1>3
  <2> QED
    BY <2>1 DEF Els
<1> QED
  BY <1>2, <1>5, <1>6, <1>7, <1>8 DEF Els, k

-----------------------------------------------------------------------------
(* Frames.                                                                  *)

LEMMA FrameTaken ==
    ASSUME NEW F, NEW high, NEW P, NEW p \in F, Frames(F, high, P)
    PROVE  Frames(F \ {p}, high, P \cup {p}) /\ p \in KPage /\ p \notin P
BY DEF Frames

LEMMA FramePut ==
    ASSUME NEW F, NEW high, NEW P, NEW p \in P, Frames(F, high, P)
    PROVE  Frames(F \cup {p}, high, P \ {p}) /\ p \in KPage /\ p \notin F
BY DEF Frames

LEMMA FrameMapped ==
    ASSUME NEW F, NEW high \in [VPage -> 0..KPages], NEW P, NEW p \in P, NEW w \in VPage,
           high[w] = 0, Frames(F, high, P), KPages \in Nat
    PROVE  Frames(F, Behind(high, w, p), P \ {p}) /\ Behind(high, w, p) \in [VPage -> 0..KPages]
<1> DEFINE new == [high EXCEPT ![w] = p]
<1>1. new \in [VPage -> 0..KPages] /\ new[w] = p /\ p \in KPage /\ p # 0
  BY DEF Frames, KPage
<1>2. \A v \in VPage : v # w => new[v] = high[v]
  OBVIOUS
<1>3. \A v \in VPage : high[v] # p
  BY DEF Frames
<1> HIDE DEF new
<1>4. \A v \in VPage : new[v] \notin F /\ new[v] \notin P \ {p}
  BY <1>1, <1>2 DEF Frames
<1>5. \A v, u \in VPage : new[v] = new[u] /\ new[v] # 0 => v = u
  BY <1>1, <1>2, <1>3 DEF Frames
<1>6. \A q \in KPage : q \in F \/ q \in P \ {p} \/ \E v \in VPage : new[v] = q
  <2> SUFFICES ASSUME NEW q \in KPage, q \notin F, q \notin P, q # p PROVE \E v \in VPage : new[v] = q
    BY <1>1
  <2>1. PICK v \in VPage : high[v] = q
    BY DEF Frames
  <2>2. v # w
    BY <2>1 DEF KPage
  <2> QED
    BY <2>1, <2>2, <1>2
<1>7. Frames(F, new, P \ {p})
  BY <1>4, <1>5, <1>6 DEF Frames
<1> QED
  BY <1>1, <1>7 DEF Behind, new

LEMMA FrameUnmapped ==
    ASSUME NEW F, NEW high \in [VPage -> 0..KPages], NEW P, NEW w \in VPage,
           high[w] # 0, Frames(F, high, P), KPages \in Nat
    PROVE  Frames(F, Behind(high, w, 0), P \cup {high[w]}) /\ Behind(high, w, 0) \in [VPage -> 0..KPages]
<1> DEFINE new == [high EXCEPT ![w] = 0]
<1>1. new \in [VPage -> 0..KPages] /\ new[w] = 0 /\ high[w] \in KPage
  BY DEF KPage
<1>2. \A v \in VPage : v # w => new[v] = high[v]
  OBVIOUS
<1> HIDE DEF new
<1>3. 0 \notin KPage
  BY DEF KPage
<1>4. \A v \in VPage : new[v] \notin F /\ new[v] \notin P \cup {high[w]}
  <2> SUFFICES ASSUME NEW v \in VPage PROVE new[v] \notin F /\ new[v] \notin P \cup {high[w]}
    OBVIOUS
  <2>1. CASE v = w
    BY <2>1, <1>1, <1>3 DEF Frames
  <2>2. CASE v # w
    BY <2>2, <1>1, <1>2 DEF Frames
  <2> QED
    BY <2>1, <2>2
<1>5. \A v, u \in VPage : new[v] = new[u] /\ new[v] # 0 => v = u
  BY <1>1, <1>2 DEF Frames
<1>6. \A q \in KPage : q \in F \/ q \in P \cup {high[w]} \/ \E v \in VPage : new[v] = q
  BY <1>1, <1>2 DEF Frames
<1>7. P \cup {high[w]} \subseteq KPage /\ F \cap (P \cup {high[w]}) = {}
  BY <1>1 DEF Frames
<1>8. Frames(F, new, P \cup {high[w]})
  BY <1>4, <1>5, <1>6, <1>7 DEF Frames
<1> QED
  BY <1>1, <1>8 DEF Behind, new

-----------------------------------------------------------------------------
(* Virtual pages.                                                           *)

LEMMA PageNew ==
    ASSUME KmemAssumption, NEW L, NEW pools, NEW high \in [VPage -> 0..KPages], NEW next, NEW V, NEW U,
           NEW p \in KPage, next >= VLow, Virtuals(L, pools, high, next, V, U)
    PROVE  /\ Virtuals(L, pools, Behind(high, Below(next), p), Below(next), V \cup {Below(next)}, U)
           /\ Below(next) \in VPage /\ Below(next) \notin V /\ high[Below(next)] = 0
<1> DEFINE w == next - 1
           new == [high EXCEPT ![w] = p]
<1>0. VLow \in Nat /\ VTop \in Nat /\ KPages \in Nat /\ p # 0 /\ next \in Int
  BY DEF KmemAssumption, KPage, Virtuals
<1>1. w \in VPage /\ new \in [VPage -> 0..KPages] /\ new[w] = p
  BY <1>0 DEF Virtuals, VPage, KPage
<1>2. \A v \in VPage : v # w => new[v] = high[v]
  OBVIOUS
<1>3. \A v \in VPage : v \in Int /\ (v >= w <=> v >= next \/ v = w)
  BY <1>0 DEF VPage
<1>4. ~(w >= next)
  BY <1>0
<1>5. w \notin PagesOf(L) /\ w \notin V /\ \A c \in Pool : w \notin pools[c]
  BY <1>1, <1>4 DEF Virtuals
<1>6. w \in (VLow - 1)..VTop
  BY <1>0 DEF Virtuals
<1>7. high[w] = 0
  BY <1>1, <1>4, <1>3, <1>0 DEF Virtuals
<1>8. w \notin U
  BY <1>5 DEF Virtuals
<1>9. \A v \in VPage : v < w <=> v < next /\ v # w
  BY <1>0 DEF VPage
<1> HIDE DEF w, new
<1>10. ASSUME NEW v \in VPage
       PROVE  /\ v \in PagesOf(L) => v \notin V \cup {w}
              /\ v \in PagesOf(L) \/ v \in V \cup {w} => \A c \in Pool : v \notin pools[c]
              /\ v >= w <=> v \in PagesOf(L) \/ v \in V \cup {w} \/ \E c \in Pool : v \in pools[c]
              /\ new[v] = 0 <=> v < w \/ v \in PagesOf(L) \/ v \in U
  <2>1. CASE v = w
    BY <2>1, <1>0, <1>1, <1>3, <1>5, <1>8, <1>9
  <2>2. CASE v # w
    <3>1. new[v] = high[v] /\ (v >= w <=> v >= next) /\ (v < w <=> v < next)
      BY <2>2, <1>2, <1>3, <1>9
    <3> QED
      BY <2>2, <3>1 DEF Virtuals
  <2> QED
    BY <2>1, <2>2
<1>11. Virtuals(L, pools, new, w, V \cup {w}, U)
  BY <1>1, <1>6, <1>10 DEF Virtuals
<1> QED
  BY <1>1, <1>5, <1>7, <1>11 DEF Behind, Below, w, new

LEMMA PageOff ==
    ASSUME NEW L, NEW pools, NEW high \in [VPage -> 0..KPages], NEW next, NEW V, NEW U,
           NEW n \in L, n.v \in VPage, Virtuals(L, pools, high, next, V, U)
    PROVE  /\ Virtuals(L \ {n}, pools, high, next, V \cup {n.v}, U \cup {n.v})
           /\ n.v \notin V /\ n.v \notin U /\ high[n.v] = 0
<1> DEFINE w == n.v
           K == L \ {n}
<1>1. w \in VPage /\ w \in PagesOf(L)
  BY DEF PagesOf
<1>2. \A v : v \in PagesOf(K) <=> v \in PagesOf(L) /\ v # w
  BY DEF PagesOf, Virtuals
<1>3. w \notin V /\ w \notin U /\ high[w] = 0 /\ (\A c \in Pool : w \notin pools[c]) /\ w >= next
  BY <1>1 DEF Virtuals
<1>4. \A a, b \in K : a.v = b.v => a = b
  BY DEF Virtuals
<1> HIDE DEF w, K
<1>5. ASSUME NEW v \in VPage
      PROVE  /\ v \in PagesOf(K) => v \notin V \cup {w}
             /\ v \in PagesOf(K) \/ v \in V \cup {w} => \A c \in Pool : v \notin pools[c]
             /\ v >= next <=> v \in PagesOf(K) \/ v \in V \cup {w} \/ \E c \in Pool : v \in pools[c]
             /\ high[v] = 0 <=> v < next \/ v \in PagesOf(K) \/ v \in U \cup {w}
  <2>1. CASE v = w
    BY <2>1, <1>1, <1>2, <1>3
  <2>2. CASE v # w
    BY <2>2, <1>2 DEF Virtuals
  <2> QED
    BY <2>1, <2>2
<1>6. Virtuals(K, pools, high, next, V \cup {w}, U \cup {w})
  BY <1>1, <1>4, <1>5 DEF Virtuals
<1> QED
  BY <1>3, <1>6 DEF w, K

LEMMA PageMapped ==
    ASSUME KmemAssumption, NEW L, NEW pools, NEW high \in [VPage -> 0..KPages], NEW next, NEW V, NEW U,
           NEW p \in KPage, NEW w \in U, Virtuals(L, pools, high, next, V, U)
    PROVE  Virtuals(L, pools, Behind(high, w, p), next, V, U \ {w}) /\ w \in VPage /\ high[w] = 0
<1> DEFINE new == [high EXCEPT ![w] = p]
<1>1. w \in VPage /\ new[w] = p /\ p # 0
  BY DEF Virtuals, KPage
<1>2. \A v \in VPage : v # w => new[v] = high[v]
  OBVIOUS
<1> HIDE DEF new
<1>3. w \notin PagesOf(L) /\ w >= next /\ high[w] = 0
  BY <1>1 DEF Virtuals
<1>4. ~(w < next)
  BY <1>1, <1>3 DEF VPage, Virtuals, KmemAssumption
<1>5. ASSUME NEW v \in VPage PROVE new[v] = 0 <=> v < next \/ v \in PagesOf(L) \/ v \in U \ {w}
  <2>1. CASE v = w
    BY <2>1, <1>1, <1>3, <1>4
  <2>2. CASE v # w
    BY <2>2, <1>2 DEF Virtuals
  <2> QED
    BY <2>1, <2>2
<1>6. Virtuals(L, pools, new, next, V, U \ {w})
  BY <1>1, <1>5 DEF Virtuals
<1> QED
  BY <1>1, <1>3, <1>6 DEF Behind, new

LEMMA PageUnmapped ==
    ASSUME KmemAssumption, NEW L, NEW pools, NEW high \in [VPage -> 0..KPages], NEW next, NEW V, NEW U,
           NEW w \in V, w \notin U, Virtuals(L, pools, high, next, V, U)
    PROVE  Virtuals(L, pools, Behind(high, w, 0), next, V, U \cup {w}) /\ w \in VPage /\ high[w] # 0
<1> DEFINE new == [high EXCEPT ![w] = 0]
<1>1. w \in VPage /\ new[w] = 0
  BY DEF Virtuals
<1>2. \A v \in VPage : v # w => new[v] = high[v]
  OBVIOUS
<1> HIDE DEF new
<1>3. w \notin PagesOf(L) /\ w >= next
  BY <1>1 DEF Virtuals
<1>4. ASSUME NEW v \in VPage PROVE new[v] = 0 <=> v < next \/ v \in PagesOf(L) \/ v \in U \cup {w}
  BY <1>1, <1>2 DEF Virtuals
<1>5. Virtuals(L, pools, new, next, V, U \cup {w})
  BY <1>1, <1>4 DEF Virtuals
<1>6. ~(w < next)
  BY <1>1, <1>3 DEF VPage, Virtuals, KmemAssumption
<1>7. high[w] # 0
  BY <1>1, <1>3, <1>6 DEF Virtuals
<1> QED
  BY <1>1, <1>5, <1>7 DEF Behind, new

LEMMA PageFreed ==
    ASSUME NEW L, NEW pools, NEW high \in [VPage -> 0..KPages], NEW next, NEW V, NEW U,
           NEW b, NEW w \in U, Virtuals(L, pools, high, next, V, U)
    PROVE  Virtuals(L \cup {[v |-> w, node |-> b]}, pools, high, next, V \ {w}, U \ {w})
<1> DEFINE e == [v |-> w, node |-> b]
           K == L \cup {e}
<1>1. w \in VPage /\ w \in V /\ e.v = w
  BY DEF Virtuals
<1>2. \A v : v \in PagesOf(K) <=> v \in PagesOf(L) \/ v = w
  BY <1>1 DEF PagesOf
<1>3. w \notin PagesOf(L)
  BY <1>1 DEF Virtuals
<1>4. \A a \in L : a.v # w
  BY <1>3 DEF PagesOf
<1> HIDE DEF e
<1>5. \A a, d \in K : a.v = d.v => a = d
  BY <1>1, <1>4 DEF Virtuals
<1> HIDE DEF K
<1>6. ASSUME NEW v \in VPage
      PROVE  /\ v \in PagesOf(K) => v \notin V \ {w}
             /\ v \in PagesOf(K) \/ v \in V \ {w} => \A c \in Pool : v \notin pools[c]
             /\ v >= next <=> v \in PagesOf(K) \/ v \in V \ {w} \/ \E c \in Pool : v \in pools[c]
             /\ high[v] = 0 <=> v < next \/ v \in PagesOf(K) \/ v \in U \ {w}
  BY <1>1, <1>2, <1>3 DEF Virtuals
<1>7. Virtuals(K, pools, high, next, V \ {w}, U \ {w})
  BY <1>5, <1>6 DEF Virtuals
<1> QED
  BY <1>7 DEF K, e

LEMMA PagePooled ==
    ASSUME NEW L, NEW pools \in [Pool -> SUBSET VPage], NEW high, NEW next, NEW V, NEW U,
           NEW w \in V, w \notin U, NEW c \in Pool, Virtuals(L, pools, high, next, V, U)
    PROVE  /\ Virtuals(L, [pools EXCEPT ![c] = @ \cup {w}], high, next, V \ {w}, U)
           /\ [pools EXCEPT ![c] = @ \cup {w}] \in [Pool -> SUBSET VPage]
           /\ \A d \in Pool : w \notin pools[d]
<1> DEFINE new == [pools EXCEPT ![c] = @ \cup {w}]
<1>1. w \in VPage /\ w \notin PagesOf(L) /\ \A d \in Pool : w \notin pools[d]
  BY DEF Virtuals
<1>2. new \in [Pool -> SUBSET VPage] /\ \A d \in Pool, v \in VPage : v \in new[d] <=> v \in pools[d] \/ (d = c /\ v = w)
  BY <1>1
<1> HIDE DEF new
<1>3. ASSUME NEW v \in VPage
      PROVE  /\ v \in PagesOf(L) => v \notin V \ {w}
             /\ v \in PagesOf(L) \/ v \in V \ {w} => \A d \in Pool : v \notin new[d]
             /\ v >= next <=> v \in PagesOf(L) \/ v \in V \ {w} \/ \E d \in Pool : v \in new[d]
             /\ high[v] = 0 <=> v < next \/ v \in PagesOf(L) \/ v \in U
  <2>1. CASE v = w
    BY <2>1, <1>1, <1>2 DEF Virtuals
  <2>2. CASE v # w
    BY <2>2, <1>1, <1>2 DEF Virtuals
  <2> QED
    BY <2>1, <2>2
<1>4. \A d, f \in Pool : \A v \in VPage : v \in new[d] /\ v \in new[f] => d = f
  BY <1>1, <1>2 DEF Virtuals
<1>5. Virtuals(L, new, high, next, V \ {w}, U)
  BY <1>3, <1>4 DEF Virtuals
<1> QED
  BY <1>1, <1>2, <1>5 DEF new

-----------------------------------------------------------------------------
(* The blocks of a pool.                                                    *)

LEMMA BlockTaken ==
    ASSUME NEW C, NEW H, NEW N, NEW f, NEW PG, NEW k, NEW b \in C, PoolBlocks(C, H, N, f, PG, k)
    PROVE  PoolBlocks(C \ {b}, H \cup {b}, N, f, PG, k) /\ b \notin H /\ b \in Block
BY DEF PoolBlocks

LEMMA BlockFreed ==
    ASSUME NEW C, NEW H, NEW N, NEW f, NEW PG, NEW k, NEW b \in H, PoolBlocks(C, H, N, f, PG, k)
    PROVE  PoolBlocks(C \cup {b}, H \ {b}, N, f, PG, k) /\ b \notin C /\ b \in Block
BY DEF PoolBlocks

LEMMA NodeIn ==
    ASSUME NEW C, NEW H, NEW N, NEW f, NEW PG, NEW k, NEW b \in H, PoolBlocks(C, H, N, f, PG, k)
    PROVE  PoolBlocks(C, H \ {b}, N \cup {b}, f, PG, k) /\ b \notin N /\ b \in Block
BY DEF PoolBlocks

LEMMA NodeOut ==
    ASSUME NEW C, NEW H, NEW N, NEW f, NEW PG, NEW k, NEW b \in N, PoolBlocks(C, H, N, f, PG, k)
    PROVE  PoolBlocks(C, H \cup {b}, N \ {b}, f, PG, k) /\ b \notin H /\ b \in Block
BY DEF PoolBlocks

LEMMA BlockIs ==
    ASSUME NEW a \in Block, NEW b \in Block, a.v = b.v, a.i = b.i
    PROVE  a = b
BY DEF Block

\* A fresh block of the page, while there is another.
LEMMA BlockFresh ==
    ASSUME NEW C, NEW H, NEW N, NEW f \in Block, NEW g \in Block, NEW PG, NEW k \in Nat,
           g.v = f.v, g.i = f.i + 1, f.i < k, PoolBlocks(C, H, N, f, PG, k)
    PROVE  PoolBlocks(C, H \cup {f}, N, g, PG, k) /\ f \notin H
<1> DEFINE Before == {b \in Block : b.v \in PG /\ b.i < k /\ (b.v = f.v => b.i < f.i)}
           After == {b \in Block : b.v \in PG /\ b.i < k /\ (b.v = g.v => b.i < g.i)}
<1>1. f.i \in Nat /\ \A b \in Block : b.i \in Nat
  BY DEF Block
<1>2. f \notin Before /\ f.v \in PG
  BY <1>1 DEF PoolBlocks
<1>3. After = Before \cup {f}
  <2>1. ASSUME NEW b \in After PROVE b \in Before \cup {f}
    <3>1. CASE b.v = f.v /\ b.i = f.i
      BY <3>1, BlockIs
    <3>2. CASE ~(b.v = f.v /\ b.i = f.i)
      BY <3>2, <1>1
    <3> QED
      BY <3>1, <3>2
  <2>2. Before \subseteq After
    BY <1>1
  <2>3. f \in After
    BY <1>1, <1>2
  <2> QED
    BY <2>1, <2>2, <2>3
<1>4. C \cup H \cup N = Before /\ C \cap H = {} /\ C \cap N = {} /\ H \cap N = {}
  BY DEF PoolBlocks
<1> HIDE DEF Before
<1>5. C \cup (H \cup {f}) \cup N = After /\ C \cap (H \cup {f}) = {} /\ C \cap N = {} /\ (H \cup {f}) \cap N = {} /\ g.v \in PG
  BY <1>2, <1>3, <1>4
<1> QED
  BY <1>2, <1>4, <1>5 DEF PoolBlocks

\* The last one: its page is full, and the fresh blocks are those of page w.
LEMMA BlockLast ==
    ASSUME NEW C, NEW H, NEW N, NEW f \in Block, NEW g \in Block, NEW PG, NEW k \in Nat,
           g.v \notin PG, g.i = 0, f.i + 1 = k, PoolBlocks(C, H, N, f, PG, k)
    PROVE  PoolBlocks(C, H \cup {f}, N, g, PG \cup {g.v}, k) /\ f \notin H
<1> DEFINE Before == {b \in Block : b.v \in PG /\ b.i < k /\ (b.v = f.v => b.i < f.i)}
           After == {b \in Block : b.v \in PG \cup {g.v} /\ b.i < k /\ (b.v = g.v => b.i < g.i)}
<1>1. f.i \in Nat /\ \A b \in Block : b.i \in Nat
  BY DEF Block
<1>2. f \notin Before /\ f.v \in PG
  BY <1>1 DEF PoolBlocks
<1>3. After = Before \cup {f}
  <2>1. ASSUME NEW b \in After PROVE b \in Before \cup {f}
    <3>0. b.v # g.v /\ b.v \in PG /\ b \in Block /\ b.i < k
      BY <1>1
    <3>1. CASE b.v = f.v /\ b.i = f.i
      BY <3>1, BlockIs
    <3>2. CASE ~(b.v = f.v /\ b.i = f.i)
      BY <3>0, <3>2, <1>1
    <3> QED
      BY <3>1, <3>2
  <2>2. Before \subseteq After
    BY <1>1
  <2>3. f \in After
    BY <1>1, <1>2
  <2> QED
    BY <2>1, <2>2, <2>3
<1>4. C \cup H \cup N = Before /\ C \cap H = {} /\ C \cap N = {} /\ H \cap N = {}
  BY DEF PoolBlocks
<1> HIDE DEF Before
<1>5. C \cup (H \cup {f}) \cup N = After /\ C \cap (H \cup {f}) = {} /\ C \cap N = {} /\ (H \cup {f}) \cap N = {}
      /\ g.v \in PG \cup {g.v}
  BY <1>2, <1>3, <1>4
<1> QED
  BY <1>2, <1>4, <1>5 DEF PoolBlocks

-----------------------------------------------------------------------------
(* The functions.                                                           *)

Same(x, y) == y.pages = x.pages /\ y.vpages = x.vpages /\ y.blocks = x.blocks

Without(B, c, b) == [B EXCEPT ![c] = @ \ {b}]
Taken(B, c, b) == [B EXCEPT ![c] = @ \cup {b}]

LEMMA GetpageGood ==
    ASSUME KmemAssumption, NEW x \in Mem, NEW P, NEW V, NEW U, NEW B, x.stop = "no", Good(x, P, V, U, B)
    PROVE  LET r == Getpage(x)
           IN  /\ r.m \in Mem /\ r.ret \in Int
               /\ \/ r.m.stop = "panic"
                  \/ /\ r.m.stop = "no" /\ r.ret \in KPage /\ r.ret \notin P /\ Same(x, r.m)
                     /\ Good(r.m, P \cup {r.ret}, V, U, B)
                     /\ r.m.high = x.high /\ r.m.freev = x.freev /\ r.m.nextmem = x.nextmem
                     /\ r.m.chain = x.chain /\ r.m.fresh = x.fresh /\ r.m.fresh_count = x.fresh_count
                     /\ r.m.pools = x.pools
<1>1. CASE x.free = <<>>
  <2>1. Getpage(x).m = [x EXCEPT !.stop = "panic"] /\ Getpage(x).ret = 0
    BY <1>1 DEF Getpage, Ret
  <2>2. [x EXCEPT !.stop = "panic"] \in Mem /\ [x EXCEPT !.stop = "panic"].stop = "panic"
    BY DEF Mem
  <2> QED
    BY <2>1, <2>2
<1>2. CASE x.free # <<>>
  <2> DEFINE p == Head(x.free)
             y == [x EXCEPT !.free = Tail(@)]
  <2>1. Getpage(x).m = y /\ Getpage(x).ret = p
    BY <1>2 DEF Getpage, Ret
  <2>2. x.free \in Seq(KPage)
    BY DEF Mem
  <2>3. Once(x.free)
    BY DEF Good
  <2>4. /\ Tail(x.free) \in Seq(KPage) /\ Once(Tail(x.free)) /\ p \in KPage
        /\ p \in Els(x.free) /\ Els(Tail(x.free)) = Els(x.free) \ {p}
    BY <1>2, <2>2, <2>3, TailOnce
  <2>5. y \in Mem
    BY <2>4 DEF Mem
  <2>6. /\ y.free = Tail(x.free) /\ y.stop = x.stop /\ y.high = x.high /\ y.freev = x.freev
        /\ y.nextmem = x.nextmem /\ y.chain = x.chain /\ y.fresh = x.fresh
        /\ y.fresh_count = x.fresh_count /\ y.pools = x.pools /\ y.pages = x.pages
        /\ y.vpages = x.vpages /\ y.blocks = x.blocks
    BY DEF Mem
  <2> HIDE DEF p, y
  <2>7. Frames(Els(x.free) \ {p}, x.high, P \cup {p}) /\ p \notin P
    BY <2>4, FrameTaken DEF Good
  <2>8. Good(y, P \cup {p}, V, U, B)
    BY <2>4, <2>6, <2>7 DEF Good
  <2> QED
    BY <2>1, <2>4, <2>5, <2>6, <2>7, <2>8 DEF Same, KPage
<1> QED
  BY <1>1, <1>2

LEMMA PutpageGood ==
    ASSUME NEW x \in Mem, NEW P, NEW V, NEW U, NEW B, NEW p \in P, Good(x, P, V, U, B)
    PROVE  LET y == Putpage(x, p)
           IN  /\ y \in Mem /\ Same(x, y) /\ Good(y, P \ {p}, V, U, B)
               /\ y.stop = x.stop /\ y.high = x.high /\ y.freev = x.freev
               /\ y.fresh = x.fresh /\ y.fresh_count = x.fresh_count /\ y.nextmem = x.nextmem
               /\ y.chain = x.chain /\ y.pools = x.pools
<1> DEFINE y == [x EXCEPT !.free = <<p>> \o @]
<1>1. Putpage(x, p) = y
  BY DEF Putpage
<1>2. Frames(Els(x.free) \cup {p}, x.high, P \ {p}) /\ p \in KPage /\ p \notin Els(x.free)
  BY FramePut DEF Good
<1>3. x.free \in Seq(KPage) /\ Once(x.free)
  BY DEF Mem, Good
<1>4. <<p>> \o x.free \in Seq(KPage) /\ Once(<<p>> \o x.free) /\ Els(<<p>> \o x.free) = Els(x.free) \cup {p}
  BY <1>2, <1>3, ConsOnce
<1>5. y \in Mem
  BY <1>4 DEF Mem
<1>6. /\ y.free = <<p>> \o x.free /\ y.stop = x.stop /\ y.high = x.high /\ y.freev = x.freev
      /\ y.nextmem = x.nextmem /\ y.chain = x.chain /\ y.fresh = x.fresh
      /\ y.fresh_count = x.fresh_count /\ y.pools = x.pools /\ y.pages = x.pages
      /\ y.vpages = x.vpages /\ y.blocks = x.blocks
  BY DEF Mem
<1> HIDE DEF y
<1>7. Good(y, P \ {p}, V, U, B)
  BY <1>2, <1>4, <1>6 DEF Good
<1> QED
  BY <1>1, <1>5, <1>6, <1>7 DEF Same

\* A page that nobody else has, behind virtual page w: what y is, of x.
LEMMA MappedIs ==
    ASSUME KmemAssumption, NEW x \in Mem, NEW w \in VPage, NEW p \in 0..KPages
    PROVE  LET y == [x EXCEPT !.high[w] = p]
           IN  /\ y \in Mem /\ y.high = [x.high EXCEPT ![w] = p]
               /\ y.free = x.free /\ y.stop = x.stop /\ y.freev = x.freev
               /\ y.nextmem = x.nextmem /\ y.chain = x.chain /\ y.fresh = x.fresh
               /\ y.fresh_count = x.fresh_count /\ y.pools = x.pools /\ Same(x, y)
<1>1. [x.high EXCEPT ![w] = p] \in [VPage -> 0..KPages]
  BY DEF Mem
<1> QED
  BY <1>1 DEF Mem, Same

\* A block of pool c goes to its list: y is x but for that.
LEMMA ChainedIs ==
    ASSUME NEW x \in Mem, NEW c \in Pool, NEW l \in Seq(Block)
    PROVE  LET y == [x EXCEPT !.chain[c] = l]
           IN  /\ y \in Mem /\ y.chain = [x.chain EXCEPT ![c] = l]
               /\ y.free = x.free /\ y.stop = x.stop /\ y.freev = x.freev
               /\ y.nextmem = x.nextmem /\ y.high = x.high /\ y.fresh = x.fresh
               /\ y.fresh_count = x.fresh_count /\ y.pools = x.pools /\ Same(x, y)
<1>1. [x.chain EXCEPT ![c] = l] \in [Pool -> Seq(Block)]
  BY DEF Mem
<1> QED
  BY <1>1 DEF Mem, Same

LEMMA KfreePGood ==
    ASSUME NEW x \in Mem, NEW P, NEW V, NEW U, NEW B \in [Pool -> SUBSET Block], NEW c \in Pool,
           NEW b \in B[c], Good(x, P, V, U, B)
    PROVE  LET y == KfreeP(x, c, b)
           IN  /\ y \in Mem /\ Same(x, y) /\ Good(y, P, V, U, Without(B, c, b))
               /\ y.stop = x.stop /\ y.fresh = x.fresh /\ y.fresh_count = x.fresh_count
<1> DEFINE l == <<b>> \o x.chain[c]
           y == [x EXCEPT !.chain[c] = l]
           D == Without(B, c, b)
           N == NodesOf(c, Els(x.freev))
<1>1. KfreeP(x, c, b) = y
  BY DEF KfreeP
<1>2. /\ PoolBlocks(Els(x.chain[c]) \cup {b}, B[c] \ {b}, N, x.fresh[c], x.pools[c], PerPage[c])
      /\ b \notin Els(x.chain[c]) /\ b \in Block
  <2>1. PoolBlocks(Els(x.chain[c]), B[c], N, x.fresh[c], x.pools[c], PerPage[c])
    BY DEF Good
  <2> HIDE DEF N
  <2> QED
    BY <2>1, BlockFreed
<1>3. x.chain[c] \in Seq(Block) /\ Once(x.chain[c]) /\ x.chain \in [Pool -> Seq(Block)]
  BY DEF Mem, Good
<1>4. l \in Seq(Block) /\ Once(l) /\ Els(l) = Els(x.chain[c]) \cup {b}
  BY <1>2, <1>3, ConsOnce
<1> HIDE DEF l
<1>5. /\ y \in Mem /\ y.chain = [x.chain EXCEPT ![c] = l]
      /\ y.free = x.free /\ y.stop = x.stop /\ y.freev = x.freev
      /\ y.nextmem = x.nextmem /\ y.high = x.high /\ y.fresh = x.fresh
      /\ y.fresh_count = x.fresh_count /\ y.pools = x.pools /\ Same(x, y)
  BY <1>4, ChainedIs
<1> HIDE DEF y
<1>6. D[c] = B[c] \ {b} /\ \A d \in Pool : d # c => D[d] = B[d]
  BY DEF Without
<1>7. y.chain[c] = l /\ \A d \in Pool : d # c => y.chain[d] = x.chain[d]
  BY <1>3, <1>5
<1> HIDE DEF D
<1>8. \A d \in Pool : PoolBlocks(Els(y.chain[d]), D[d], NodesOf(d, Els(y.freev)), y.fresh[d], y.pools[d], PerPage[d])
  <2> SUFFICES ASSUME NEW d \in Pool
               PROVE  PoolBlocks(Els(y.chain[d]), D[d], NodesOf(d, Els(x.freev)), x.fresh[d], x.pools[d], PerPage[d])
    BY <1>5
  <2>1. CASE d = c
    BY <2>1, <1>2, <1>4, <1>6, <1>7
  <2>2. CASE d # c
    BY <2>2, <1>6, <1>7 DEF Good
  <2> QED
    BY <2>1, <2>2
<1>9. \A d \in Pool : Once(y.chain[d])
  BY <1>4, <1>7 DEF Good
<1>10. Good(y, P, V, U, D)
  BY <1>5, <1>8, <1>9 DEF Good
<1> QED
  BY <1>1, <1>5, <1>10 DEF D

LEMMA NodesLeft ==
    ASSUME NEW L, NEW n \in L, \A a, b \in L : a.node = b.node => a = b
    PROVE  /\ NodesOf(Node, L \ {n}) = NodesOf(Node, L) \ {n.node} /\ n.node \in NodesOf(Node, L)
           /\ \A d : d # Node => NodesOf(d, L \ {n}) = NodesOf(d, L)
BY DEF NodesOf

LEMMA NodesMore ==
    ASSUME NEW L, NEW n
    PROVE  /\ NodesOf(Node, L \cup {n}) = NodesOf(Node, L) \cup {n.node}
           /\ \A d : d # Node => NodesOf(d, L \cup {n}) = NodesOf(d, L)
BY DEF NodesOf

\* The first page of the free list, with its node, is in somebody's hands.
LEMMA TakenOff ==
    ASSUME KmemAssumption, NEW x \in Mem, NEW P, NEW V, NEW U, NEW B \in [Pool -> SUBSET Block],
           Good(x, P, V, U, B), x.freev # <<>>
    PROVE  LET n == Head(x.freev)
               y == [x EXCEPT !.freev = Tail(@)]
           IN  /\ n \in Entry /\ n.v \notin V /\ n.v \notin U /\ x.high[n.v] = 0
               /\ y \in Mem /\ Same(x, y) /\ y.stop = x.stop /\ y.high = x.high
               /\ y.fresh = x.fresh /\ y.fresh_count = x.fresh_count /\ y.pools = x.pools
               /\ n.node \notin B[Node]
               /\ Good(y, P, V \cup {n.v}, U \cup {n.v}, Taken(B, Node, n.node))
<1> DEFINE n == Head(x.freev)
           y == [x EXCEPT !.freev = Tail(@)]
           L == Els(x.freev)
           D == Taken(B, Node, n.node)
<1>1. x.freev \in Seq(Entry) /\ Once(x.freev) /\ x.high \in [VPage -> 0..KPages]
  BY DEF Mem, Good
<1>2. Tail(x.freev) \in Seq(Entry) /\ Once(Tail(x.freev)) /\ n \in Entry /\ n \in L /\ Els(Tail(x.freev)) = L \ {n}
  BY <1>1, TailOnce
<1>3. y \in Mem
  BY <1>2 DEF Mem
<1>4. /\ y.freev = Tail(x.freev) /\ y.free = x.free /\ y.stop = x.stop /\ y.chain = x.chain
      /\ y.nextmem = x.nextmem /\ y.high = x.high /\ y.fresh = x.fresh
      /\ y.fresh_count = x.fresh_count /\ y.pools = x.pools /\ Same(x, y)
  BY DEF Mem, Same
<1> HIDE DEF n, y, L
<1>5. n.v \in VPage /\ n.node \in Block
  BY <1>2 DEF Entry
<1>6. /\ Virtuals(L \ {n}, x.pools, x.high, x.nextmem, V \cup {n.v}, U \cup {n.v})
      /\ n.v \notin V /\ n.v \notin U /\ x.high[n.v] = 0
  <2>1. Virtuals(L, x.pools, x.high, x.nextmem, V, U)
    BY DEF Good, L
  <2> QED
    BY <2>1, <1>1, <1>2, <1>5, PageOff
<1>7. \A a, b \in L : a.node = b.node => a = b
  BY DEF Good, L
<1>8. /\ NodesOf(Node, L \ {n}) = NodesOf(Node, L) \ {n.node} /\ n.node \in NodesOf(Node, L)
      /\ \A d : d # Node => NodesOf(d, L \ {n}) = NodesOf(d, L)
  BY <1>2, <1>7, NodesLeft
<1>9. Node \in Pool
  BY DEF KmemAssumption
<1>10. PoolBlocks(Els(x.chain[Node]), B[Node] \cup {n.node}, NodesOf(Node, L) \ {n.node}, x.fresh[Node],
                  x.pools[Node], PerPage[Node]) /\ n.node \notin B[Node]
  <2>1. PoolBlocks(Els(x.chain[Node]), B[Node], NodesOf(Node, L), x.fresh[Node], x.pools[Node], PerPage[Node])
    BY <1>9 DEF Good, L
  <2> QED
    BY <2>1, <1>8, NodeOut
<1>11. D[Node] = B[Node] \cup {n.node} /\ \A d \in Pool : d # Node => D[d] = B[d]
  BY <1>9 DEF Taken
<1> HIDE DEF D
<1>12. \A d \in Pool : PoolBlocks(Els(y.chain[d]), D[d], NodesOf(d, Els(y.freev)), y.fresh[d], y.pools[d], PerPage[d])
  <2> SUFFICES ASSUME NEW d \in Pool
               PROVE  PoolBlocks(Els(x.chain[d]), D[d], NodesOf(d, L \ {n}), x.fresh[d], x.pools[d], PerPage[d])
    BY <1>2, <1>4
  <2>1. CASE d = Node
    BY <2>1, <1>8, <1>10, <1>11
  <2>2. CASE d # Node
    BY <2>2, <1>8, <1>11 DEF Good, L
  <2> QED
    BY <2>1, <2>2
<1>13. Good(y, P, V \cup {n.v}, U \cup {n.v}, D)
  BY <1>2, <1>4, <1>6, <1>7, <1>12 DEF Good
<1> QED
  BY <1>2, <1>3, <1>4, <1>6, <1>10, <1>13 DEF n, y, D

LEMMA KgetpageGood ==
    ASSUME KmemAssumption, NEW x \in Mem, NEW P, NEW V, NEW U, NEW B \in [Pool -> SUBSET Block],
           x.stop = "no", Good(x, P, V, U, B)
    PROVE  LET r == Kgetpage(x)
           IN  /\ r.m \in Mem /\ r.ret \in Int
               /\ \/ r.m.stop = "panic"
                  \/ /\ r.m.stop = "no" /\ r.ret \in VPage /\ r.ret \notin V /\ Same(x, r.m)
                     /\ Good(r.m, P, V \cup {r.ret}, U, B)
                     /\ r.m.fresh = x.fresh /\ r.m.fresh_count = x.fresh_count
<1> DEFINE g == Getpage(x)
           y == g.m
           p == g.ret
           n == Head(y.freev)
<1>0. KPages \in Nat /\ Node \in Pool /\ VLow \in Int
  BY DEF KmemAssumption
<1>1. y \in Mem /\ (y.stop = "panic" \/
         /\ y.stop = "no" /\ p \in KPage /\ p \notin P /\ Same(x, y) /\ Good(y, P \cup {p}, V, U, B)
         /\ y.fresh = x.fresh /\ y.fresh_count = x.fresh_count)
  BY GetpageGood
<1>2. CASE ~Running(g) \/ y.nextmem < VLow
  <2>1. Kgetpage(x).m = [y EXCEPT !.stop = "panic"] /\ Kgetpage(x).ret = 0
    BY <1>2 DEF Kgetpage, Ret
  <2>2. [y EXCEPT !.stop = "panic"] \in Mem /\ [y EXCEPT !.stop = "panic"].stop = "panic"
    BY <1>1 DEF Mem
  <2> QED
    BY <2>1, <2>2
<1>9. \A v \in VPage : v \in Int
  BY DEF VPage, KmemAssumption
<1> HIDE DEF y, p
<1>3. CASE Running(g) /\ ~(y.nextmem < VLow) /\ y.freev = <<>>
  <2> DEFINE w == y.nextmem - 1
             q == [y EXCEPT !.nextmem = w, !.high[w] = p]
  <2>1. Kgetpage(x).m = q /\ Kgetpage(x).ret = w
    BY <1>3 DEF Kgetpage, Ret, y, p
  <2>2. y.stop = "no"
    BY <1>3 DEF Running, y
  <2>3. p \in KPage /\ p \notin P /\ Same(x, y) /\ Good(y, P \cup {p}, V, U, B)
    BY <1>1, <2>2
  <2>4. y.nextmem \in Int /\ y.nextmem >= VLow /\ y.high \in [VPage -> 0..KPages]
    <3>1. y.nextmem \in Int /\ y.high \in [VPage -> 0..KPages]
      BY <1>1 DEF Mem
    <3>2. ~(y.nextmem < VLow)
      BY <1>3
    <3> QED
      BY <3>1, <3>2, <1>0
  <2>5. /\ Virtuals(Els(y.freev), y.pools, Behind(y.high, w, p), w, V \cup {w}, U)
        /\ w \in VPage /\ w \notin V /\ y.high[w] = 0
    <3>1. Virtuals(Els(y.freev), y.pools, y.high, y.nextmem, V, U)
      BY <2>3 DEF Good
    <3>2. w = Below(y.nextmem)
      BY DEF Below
    <3> HIDE DEF w
    <3>3. p \in KPage /\ y.nextmem >= VLow /\ y.high \in [VPage -> 0..KPages]
      BY <2>3, <2>4
    <3>4. /\ Virtuals(Els(y.freev), y.pools, Behind(y.high, Below(y.nextmem), p), Below(y.nextmem),
                      V \cup {Below(y.nextmem)}, U)
          /\ Below(y.nextmem) \in VPage /\ Below(y.nextmem) \notin V /\ y.high[Below(y.nextmem)] = 0
      BY ONLY KmemAssumption, <3>1, <3>3, PageNew
    <3> QED
      BY <3>2, <3>4
  <2>6. /\ Frames(Els(y.free), Behind(y.high, w, p), (P \cup {p}) \ {p})
        /\ Behind(y.high, w, p) \in [VPage -> 0..KPages]
    BY <1>0, <2>3, <2>4, <2>5, FrameMapped DEF Good
  <2>7. (P \cup {p}) \ {p} = P
    BY <2>3
  <2>8. q \in Mem
    <3>1. w \in Int
      BY <2>4
    <3> DEFINE nh == Behind(y.high, w, p)
    <3>2. q = [y EXCEPT !.nextmem = w, !.high = nh] /\ nh \in [VPage -> 0..KPages]
      BY <2>6 DEF Behind
    <3> HIDE DEF w, nh, q
    <3>3. [y EXCEPT !.nextmem = w, !.high = nh] \in Mem
      BY <1>1, <3>1, <3>2 DEF Mem
    <3> QED
      BY <3>2, <3>3
  <2>9. /\ q.nextmem = w /\ q.high = Behind(y.high, w, p) /\ q.free = y.free /\ q.freev = y.freev
        /\ q.stop = y.stop /\ q.chain = y.chain /\ q.fresh = y.fresh /\ q.fresh_count = y.fresh_count
        /\ q.pools = y.pools /\ Same(y, q)
    BY <1>1 DEF Mem, Same, Behind
  <2> HIDE DEF q, w
  <2>10. Good(q, P, V \cup {w}, U, B)
    BY <2>3, <2>5, <2>6, <2>7, <2>9 DEF Good
  <2> QED
    BY <1>1, <1>9, <2>1, <2>2, <2>3, <2>5, <2>8, <2>9, <2>10 DEF Same
<1>4. CASE Running(g) /\ ~(y.nextmem < VLow) /\ y.freev # <<>>
  <2> DEFINE o == [y EXCEPT !.freev = Tail(@)]
             k == KfreeP(o, Node, n.node)
             w == n.v
             z == [k EXCEPT !.high[w] = p]
             D == Taken(B, Node, n.node)
  <2>1. y.stop = "no"
    BY <1>4 DEF Running, y
  <2>2. p \in KPage /\ p \notin P /\ Same(x, y) /\ Good(y, P \cup {p}, V, U, B)
        /\ y.fresh = x.fresh /\ y.fresh_count = x.fresh_count
    BY <1>1, <2>1
  <2>3. /\ n \in Entry /\ n.v \notin V /\ n.v \notin U /\ y.high[n.v] = 0
        /\ o \in Mem /\ Same(y, o) /\ o.stop = y.stop /\ o.high = y.high
        /\ o.fresh = y.fresh /\ o.fresh_count = y.fresh_count
        /\ n.node \notin B[Node]
        /\ Good(o, P \cup {p}, V \cup {n.v}, U \cup {n.v}, D)
    BY <1>1, <1>4, <2>2, TakenOff
  <2>4. Kgetpage(x).m = z /\ Kgetpage(x).ret = w
    BY <1>4, <2>3 DEF Kgetpage, Ret, y, p
  <2> HIDE DEF o, n
  <2>5. w \in VPage /\ n.node \in Block
    BY <2>3 DEF Entry
  <2>6. D \in [Pool -> SUBSET Block] /\ n.node \in D[Node] /\ Without(D, Node, n.node) = B
    <3>1. n.node \in Block /\ n.node \notin B[Node]
      BY <2>3, <2>5
    <3> DEFINE b == n.node
    <3> HIDE DEF b
    <3>2. D \in [Pool -> SUBSET Block] /\ D[Node] = B[Node] \cup {b} /\ \A d \in Pool : d # Node => D[d] = B[d]
      BY <1>0, <3>1 DEF Taken, b
    <3>3. (B[Node] \cup {b}) \ {b} = B[Node]
      BY <3>1 DEF b
    <3> HIDE DEF D
    <3>4. /\ Without(D, Node, b) \in [Pool -> SUBSET Block] /\ Without(D, Node, b)[Node] = B[Node]
          /\ \A d \in Pool : d # Node => Without(D, Node, b)[d] = B[d]
      BY <1>0, <3>2, <3>3 DEF Without
    <3>5. Without(D, Node, b) = B
      BY <3>4
    <3> QED
      BY <3>2, <3>5 DEF b
  <2> HIDE DEF w, D
  <2>7. /\ k \in Mem /\ Same(o, k) /\ k.stop = o.stop /\ k.fresh = o.fresh /\ k.fresh_count = o.fresh_count
        /\ Good(k, P \cup {p}, V \cup {w}, U \cup {w}, Without(D, Node, n.node))
    <3> DEFINE b == n.node
               VV == V \cup {n.v}
               UU == U \cup {n.v}
               PP == P \cup {p}
    <3>1. Good(o, PP, VV, UU, D) /\ o \in Mem /\ b \in D[Node] /\ D \in [Pool -> SUBSET Block]
      BY <2>3, <2>6
    <3> HIDE DEF b, VV, UU, PP
    <3>2. /\ KfreeP(o, Node, b) \in Mem /\ Same(o, KfreeP(o, Node, b))
          /\ Good(KfreeP(o, Node, b), PP, VV, UU, Without(D, Node, b))
          /\ KfreeP(o, Node, b).stop = o.stop /\ KfreeP(o, Node, b).fresh = o.fresh
          /\ KfreeP(o, Node, b).fresh_count = o.fresh_count
      BY <1>0, <3>1, KfreePGood
    <3> QED
      BY <3>2 DEF b, VV, UU, PP, w
  <2>8. Good(k, P \cup {p}, V \cup {w}, U \cup {w}, B)
    BY <2>6, <2>7
  <2> HIDE DEF k
  <2>9. k.high \in [VPage -> 0..KPages]
    BY <2>7 DEF Mem
  <2>10. /\ Virtuals(Els(k.freev), k.pools, Behind(k.high, w, p), k.nextmem, V \cup {w}, (U \cup {w}) \ {w})
         /\ k.high[w] = 0
    <3>1. Virtuals(Els(k.freev), k.pools, k.high, k.nextmem, V \cup {w}, U \cup {w})
      BY <2>8 DEF Good
    <3> QED
      BY <3>1, <2>2, <2>9, PageMapped
  <2>11. Frames(Els(k.free), Behind(k.high, w, p), (P \cup {p}) \ {p})
    BY <1>0, <2>5, <2>8, <2>9, <2>10, FrameMapped DEF Good
  <2>12. (P \cup {p}) \ {p} = P /\ (U \cup {w}) \ {w} = U
    BY <2>2, <2>3 DEF w
  <2>13. /\ z \in Mem /\ z.high = Behind(k.high, w, p)
         /\ z.free = k.free /\ z.stop = k.stop /\ z.freev = k.freev
         /\ z.nextmem = k.nextmem /\ z.chain = k.chain /\ z.fresh = k.fresh
         /\ z.fresh_count = k.fresh_count /\ z.pools = k.pools /\ Same(k, z)
    <3>1. p \in 0..KPages
      BY <2>2, <1>0 DEF KPage
    <3> QED
      BY <3>1, <2>5, <2>7, MappedIs DEF Behind
  <2> HIDE DEF z
  <2>14. Good(z, P, V \cup {w}, U, B)
    BY <2>8, <2>10, <2>11, <2>12, <2>13 DEF Good
  <2>15. Same(x, z)
    BY <2>2, <2>3, <2>7, <2>13 DEF Same
  <2>16. w \notin V
    BY <2>3 DEF w
  <2>17. z.stop = "no" /\ z.fresh = x.fresh /\ z.fresh_count = x.fresh_count
    BY <2>1, <2>2, <2>3, <2>7, <2>13
  <2> QED
    BY <1>9, <2>4, <2>5, <2>13, <2>14, <2>15, <2>16, <2>17
<1> QED
  BY <1>2, <1>3, <1>4

\* From x to y, and from what is held to D, only pool c changes: its list, its fresh
\* blocks and its pages.
OnlyPool(x, y, c, B, D) ==
    /\ y.free = x.free /\ y.high = x.high /\ y.freev = x.freev /\ y.nextmem = x.nextmem
    /\ \A d \in Pool \ {c} :
         y.chain[d] = x.chain[d] /\ y.fresh[d] = x.fresh[d] /\ y.pools[d] = x.pools[d] /\ D[d] = B[d]

LEMMA PoolsRest ==
    ASSUME NEW x \in Mem, NEW y \in Mem, NEW c \in Pool, NEW P, NEW V, NEW U, NEW W, NEW B, NEW D,
           Good(x, P, V, U, B), OnlyPool(x, y, c, B, D),
           Virtuals(Els(y.freev), y.pools, y.high, y.nextmem, W, U),
           Once(y.chain[c]),
           PoolBlocks(Els(y.chain[c]), D[c], NodesOf(c, Els(y.freev)), y.fresh[c], y.pools[c], PerPage[c])
    PROVE  Good(y, P, W, U, D)
<1>1. \A d \in Pool : PoolBlocks(Els(y.chain[d]), D[d], NodesOf(d, Els(y.freev)), y.fresh[d], y.pools[d], PerPage[d])
  <2> SUFFICES ASSUME NEW d \in Pool
               PROVE  PoolBlocks(Els(y.chain[d]), D[d], NodesOf(d, Els(y.freev)), y.fresh[d], y.pools[d], PerPage[d])
    OBVIOUS
  <2>1. CASE d = c
    BY <2>1
  <2>2. CASE d # c
    BY <2>2 DEF Good, OnlyPool
  <2> QED
    BY <2>1, <2>2
<1>2. \A d \in Pool : Once(y.chain[d])
  BY DEF Good, OnlyPool
<1>3. /\ Once(y.free) /\ Once(y.freev) /\ Frames(Els(y.free), y.high, P)
      /\ \A a, b \in Els(y.freev) : a.node = b.node => a = b
  BY DEF Good, OnlyPool
<1> QED
  BY <1>1, <1>2, <1>3 DEF Good

\* What kmalloc promises.
Malloced(x, c, r, P, V, U, B) ==
    /\ r.m \in Mem /\ r.ret \in Block
    /\ \/ r.m.stop = "panic"
       \/ /\ r.m.stop = "no" /\ Same(x, r.m) /\ r.ret \notin B[c] /\ Counts(r.m)
          /\ Good(r.m, P, V, U, Taken(B, c, r.ret))

LEMMA MallocFreed ==
    ASSUME KmemAssumption, NEW x \in Mem, NEW c \in Pool, NEW P, NEW V, NEW U, NEW B \in [Pool -> SUBSET Block],
           x.stop = "no", Good(x, P, V, U, B), Counts(x), x.chain[c] # <<>>
    PROVE  Malloced(x, c, KmallocP(x, c), P, V, U, B)
<1> DEFINE b == Head(x.chain[c])
           l == Tail(x.chain[c])
           y == [x EXCEPT !.chain[c] = l]
           D == Taken(B, c, b)
<1>1. KmallocP(x, c).m = y /\ KmallocP(x, c).ret = b
  BY DEF KmallocP, Ret
<1>2. x.chain[c] \in Seq(Block) /\ Once(x.chain[c]) /\ x.chain \in [Pool -> Seq(Block)]
  BY DEF Mem, Good
<1>3. l \in Seq(Block) /\ Once(l) /\ b \in Block /\ b \in Els(x.chain[c]) /\ Els(l) = Els(x.chain[c]) \ {b}
  BY <1>2, TailOnce
<1> HIDE DEF l, b
<1>4. /\ y \in Mem /\ y.chain = [x.chain EXCEPT ![c] = l]
      /\ y.free = x.free /\ y.stop = x.stop /\ y.freev = x.freev
      /\ y.nextmem = x.nextmem /\ y.high = x.high /\ y.fresh = x.fresh
      /\ y.fresh_count = x.fresh_count /\ y.pools = x.pools /\ Same(x, y)
  BY <1>3, ChainedIs
<1> HIDE DEF y
<1>5. y.chain[c] = l /\ \A d \in Pool : d # c => y.chain[d] = x.chain[d]
  BY <1>2, <1>4
<1>6. D[c] = B[c] \cup {b} /\ \A d \in Pool : d # c => D[d] = B[d]
  BY DEF Taken
<1>7. /\ PoolBlocks(Els(l), B[c] \cup {b}, NodesOf(c, Els(x.freev)), x.fresh[c], x.pools[c], PerPage[c])
      /\ b \notin B[c]
  <2>1. PoolBlocks(Els(x.chain[c]), B[c], NodesOf(c, Els(x.freev)), x.fresh[c], x.pools[c], PerPage[c])
    BY DEF Good
  <2> QED
    BY <2>1, <1>3, BlockTaken
<1> HIDE DEF D
<1>8. Virtuals(Els(y.freev), y.pools, y.high, y.nextmem, V, U)
  BY <1>4 DEF Good
<1>9. Good(y, P, V, U, D)
  <2>1. PoolBlocks(Els(y.chain[c]), D[c], NodesOf(c, Els(y.freev)), y.fresh[c], y.pools[c], PerPage[c])
    BY <1>4, <1>5, <1>6, <1>7
  <2>2. OnlyPool(x, y, c, B, D)
    BY <1>4, <1>5, <1>6 DEF OnlyPool
  <2> QED
    BY <2>1, <2>2, <1>3, <1>4, <1>5, <1>8, PoolsRest
<1>10. Counts(y)
  BY <1>4 DEF Counts
<1> QED
  BY <1>1, <1>3, <1>4, <1>7, <1>9, <1>10 DEF Malloced, D

LEMMA NextBlock ==
    ASSUME NEW b \in Block
    PROVE  [b EXCEPT !.i = @ + 1] \in Block /\ [b EXCEPT !.i = @ + 1].v = b.v /\ [b EXCEPT !.i = @ + 1].i = b.i + 1
BY DEF Block

LEMMA MallocFresh ==
    ASSUME KmemAssumption, NEW x \in Mem, NEW c \in Pool, NEW P, NEW V, NEW U, NEW B \in [Pool -> SUBSET Block],
           x.stop = "no", Good(x, P, V, U, B), Counts(x), x.chain[c] = <<>>, x.fresh_count[c] > 1
    PROVE  Malloced(x, c, KmallocP(x, c), P, V, U, B)
<1> DEFINE b == x.fresh[c]
           nf == [x.fresh EXCEPT ![c] = [b EXCEPT !.i = @ + 1]]
           nc == [x.fresh_count EXCEPT ![c] = @ - 1]
           y == [x EXCEPT !.fresh_count = nc, !.fresh = nf]
           D == Taken(B, c, b)
<1>1. KmallocP(x, c).m = y /\ KmallocP(x, c).ret = b
  <2> DEFINE u == [x EXCEPT !.fresh_count[c] = @ - 1]
  <2>1. KmallocP(x, c) = Ret([u EXCEPT !.fresh[c].i = @ + 1], b)
    BY DEF KmallocP
  <2>2. u = [x EXCEPT !.fresh_count = nc]
    OBVIOUS
  <2> HIDE DEF nc, u
  <2>3. [u EXCEPT !.fresh[c].i = @ + 1] = y
    BY <2>2 DEF Mem
  <2> HIDE DEF y
  <2> QED
    BY <2>1, <2>3 DEF Ret
<1>2. x.fresh \in [Pool -> Block] /\ b \in Block /\ x.fresh_count \in [Pool -> Int] /\ b.i \in Nat /\ b.v \in VPage
      /\ x.fresh_count[c] \in Int
  BY DEF Mem, Block
<1>3. [b EXCEPT !.i = @ + 1] \in Block /\ [b EXCEPT !.i = @ + 1].v = b.v /\ [b EXCEPT !.i = @ + 1].i = b.i + 1
  BY <1>2, NextBlock
<1>4. nf \in [Pool -> Block] /\ nf[c].v = b.v /\ nf[c].i = b.i + 1 /\ \A d \in Pool : d # c => nf[d] = x.fresh[d]
  BY <1>2, <1>3
<1>5. nc \in [Pool -> Int] /\ nc[c] = x.fresh_count[c] - 1 /\ \A d \in Pool : d # c => nc[d] = x.fresh_count[d]
  BY <1>2
<1> HIDE DEF nf, nc, b
<1>6. y \in Mem
  BY <1>4, <1>5 DEF Mem
<1>7. /\ y.fresh = nf /\ y.fresh_count = nc /\ y.free = x.free /\ y.stop = x.stop /\ y.freev = x.freev
      /\ y.nextmem = x.nextmem /\ y.high = x.high /\ y.chain = x.chain /\ y.pools = x.pools /\ Same(x, y)
  BY DEF Mem, Same
<1> HIDE DEF y
<1>8. D[c] = B[c] \cup {b} /\ \A d \in Pool : d # c => D[d] = B[d]
  BY DEF Taken
<1>9. PerPage[c] \in Nat /\ x.fresh_count[c] \in 1..PerPage[c] /\ b.i + x.fresh_count[c] = PerPage[c]
  BY DEF KmemAssumption, Counts, b
<1>10. /\ PoolBlocks(Els(x.chain[c]), B[c] \cup {b}, NodesOf(c, Els(x.freev)), nf[c], x.pools[c], PerPage[c])
       /\ b \notin B[c]
  <2>1. PoolBlocks(Els(x.chain[c]), B[c], NodesOf(c, Els(x.freev)), b, x.pools[c], PerPage[c])
    BY DEF Good, b
  <2>2. nf[c] \in Block /\ b.i < PerPage[c]
    BY <1>2, <1>4, <1>9
  <2> QED
    BY <2>1, <2>2, <1>2, <1>4, <1>9, BlockFresh
<1> HIDE DEF D
<1>11. Virtuals(Els(y.freev), y.pools, y.high, y.nextmem, V, U) /\ Once(y.chain[c])
  BY <1>7 DEF Good
<1>12. Good(y, P, V, U, D)
  <2>1. PoolBlocks(Els(y.chain[c]), D[c], NodesOf(c, Els(y.freev)), y.fresh[c], y.pools[c], PerPage[c])
    BY <1>7, <1>8, <1>10
  <2>2. OnlyPool(x, y, c, B, D)
    BY <1>4, <1>7, <1>8 DEF OnlyPool
  <2> QED
    BY <2>1, <2>2, <1>6, <1>11, PoolsRest
<1>13. Counts(y)
  <2> SUFFICES ASSUME NEW d \in Pool
               PROVE  y.fresh_count[d] \in 1..PerPage[d] /\ y.fresh[d].i + y.fresh_count[d] = PerPage[d]
    BY DEF Counts
  <2>1. CASE d = c
    <3>1. y.fresh[c].i = b.i + 1 /\ y.fresh_count[c] = x.fresh_count[c] - 1
      BY <1>4, <1>5, <1>7
    <3>2. x.fresh_count[c] - 1 \in 1..PerPage[c]
      BY <1>2, <1>9
    <3>3. (b.i + 1) + (x.fresh_count[c] - 1) = PerPage[c]
      <4>1. ASSUME NEW i \in Int, NEW n \in Int PROVE (i + 1) + (n - 1) = i + n
        OBVIOUS
      <4>3. b.i \in Int
        BY <1>2
      <4>4. x.fresh_count[c] \in Int
        BY <1>2
      <4>2. (b.i + 1) + (x.fresh_count[c] - 1) = b.i + x.fresh_count[c]
        BY <4>1, <4>3, <4>4
      <4> QED
        BY <4>2, <1>9
    <3> QED
      BY <2>1, <3>1, <3>2, <3>3
  <2>2. CASE d # c
    BY <2>2, <1>4, <1>5, <1>7 DEF Counts
  <2> QED
    BY <2>1, <2>2
<1> QED
  BY <1>1, <1>2, <1>6, <1>7, <1>10, <1>12, <1>13 DEF Malloced, D

LEMMA MallocPage ==
    ASSUME KmemAssumption, NEW x \in Mem, NEW c \in Pool, NEW P, NEW V, NEW U \in SUBSET V,
           NEW B \in [Pool -> SUBSET Block],
           x.stop = "no", Good(x, P, V, U, B), Counts(x), x.chain[c] = <<>>, ~(x.fresh_count[c] > 1)
    PROVE  Malloced(x, c, KmallocP(x, c), P, V, U, B)
<1> DEFINE b == x.fresh[c]
           y == [x EXCEPT !.fresh_count[c] = @ - 1]
           r == Kgetpage(y)
           k == r.m
           w == r.ret
           f == [v |-> w, i |-> 0]
           nf == [k.fresh EXCEPT ![c] = f]
           nc == [k.fresh_count EXCEPT ![c] = PerPage[c]]
           np == [k.pools EXCEPT ![c] = @ \cup {w}]
           z == [k EXCEPT !.fresh = nf, !.fresh_count = nc, !.pools = np]
           D == Taken(B, c, b)
<1>1. /\ y \in Mem /\ y.fresh_count = [x.fresh_count EXCEPT ![c] = @ - 1]
      /\ y.free = x.free /\ y.stop = x.stop /\ y.freev = x.freev /\ y.nextmem = x.nextmem
      /\ y.high = x.high /\ y.chain = x.chain /\ y.pools = x.pools /\ y.fresh = x.fresh /\ Same(x, y)
  <2>1. x.fresh_count \in [Pool -> Int]
    BY DEF Mem
  <2>2. [x.fresh_count EXCEPT ![c] = @ - 1] \in [Pool -> Int]
    BY <2>1
  <2> QED
    BY <2>2 DEF Mem, Same
<1>2. b \in Block /\ x.fresh_count \in [Pool -> Int] /\ b.i \in Nat
  BY DEF Mem, Block
<1> HIDE DEF y
<1>3. Good(y, P, V, U, B) /\ y.stop = "no"
  BY <1>1 DEF Good
<1>4. /\ k \in Mem
      /\ \/ k.stop = "panic"
         \/ /\ k.stop = "no" /\ w \in VPage /\ w \notin V /\ Same(y, k) /\ Good(k, P, V \cup {w}, U, B)
            /\ k.fresh = y.fresh /\ k.fresh_count = y.fresh_count
  BY <1>1, <1>3, KgetpageGood
<1>5. CASE ~Running(r)
  <2>1. KmallocP(x, c).m = k /\ KmallocP(x, c).ret = b
    BY <1>5 DEF KmallocP, Ret, y
  <2>2. k.stop = "panic"
    BY <1>4, <1>5 DEF Running
  <2> QED
    BY <2>1, <2>2, <1>2, <1>4 DEF Malloced
<1>6. CASE Running(r)
  <2>1. KmallocP(x, c) = Ret([k EXCEPT !.fresh[c] = f, !.fresh_count[c] = PerPage[c], !.pools[c] = @ \cup {w}], b)
    BY <1>6 DEF KmallocP, y
  <2>2. k.stop = "no"
    BY <1>6 DEF Running
  <2> HIDE DEF k, w, r
  <2>3. [k EXCEPT !.fresh[c] = f, !.fresh_count[c] = PerPage[c], !.pools[c] = @ \cup {w}] = z
    BY <1>4 DEF Mem
  <2>4. KmallocP(x, c).m = z /\ KmallocP(x, c).ret = b
    BY <2>1, <2>3 DEF Ret
  <2>5. /\ w \in VPage /\ w \notin V /\ Same(y, k) /\ Good(k, P, V \cup {w}, U, B)
        /\ k.fresh = x.fresh /\ k.fresh_count = y.fresh_count /\ k \in Mem
    BY <1>1, <1>4, <2>2
  <2>6. f \in Block /\ f.v = w /\ f.i = 0
    BY <2>5 DEF Block
  <2> HIDE DEF f
  <2>7. PerPage[c] \in Nat /\ PerPage[c] \in 1..PerPage[c] /\ b.i + 1 = PerPage[c]
    <3>1. PerPage[c] \in Nat \ {0, 1}
      BY DEF KmemAssumption
    <3>2. x.fresh_count[c] \in 1..PerPage[c] /\ b.i + x.fresh_count[c] = PerPage[c]
      BY DEF Counts
    <3> QED
      BY <3>1, <3>2, <1>2
  <2>8. nf \in [Pool -> Block] /\ nf[c] = f /\ \A d \in Pool : d # c => nf[d] = x.fresh[d]
    BY <2>5, <2>6 DEF Mem
  <2>9. nc \in [Pool -> Int] /\ nc[c] = PerPage[c] /\ \A d \in Pool : d # c => nc[d] = x.fresh_count[d]
    BY <1>1, <1>2, <2>5, <2>7
  <2>10. w \notin U
    BY <2>5
  <2>11. /\ np \in [Pool -> SUBSET VPage] /\ \A d \in Pool : w \notin k.pools[d]
         /\ Virtuals(Els(k.freev), np, k.high, k.nextmem, (V \cup {w}) \ {w}, U)
    <3>1. Virtuals(Els(k.freev), k.pools, k.high, k.nextmem, V \cup {w}, U) /\ k.pools \in [Pool -> SUBSET VPage]
      BY <2>5 DEF Good, Mem
    <3>2. w \in V \cup {w}
      OBVIOUS
    <3> QED
      BY <3>1, <3>2, <2>10, PagePooled
  <2>12. (V \cup {w}) \ {w} = V
    BY <2>5
  <2>13. np[c] = k.pools[c] \cup {w} /\ \A d \in Pool : d # c => np[d] = k.pools[d]
    BY <2>5 DEF Mem
  <2> HIDE DEF nf, nc, np, b
  <2>14. z \in Mem
    BY <2>5, <2>8, <2>9, <2>11 DEF Mem
  <2>15. /\ z.fresh = nf /\ z.fresh_count = nc /\ z.pools = np /\ z.free = k.free /\ z.stop = k.stop
         /\ z.freev = k.freev /\ z.nextmem = k.nextmem /\ z.high = k.high /\ z.chain = k.chain /\ Same(k, z)
    BY <2>5 DEF Mem, Same
  <2> HIDE DEF z
  <2>16. D[c] = B[c] \cup {b} /\ \A d \in Pool : d # c => D[d] = B[d]
    BY DEF Taken
  <2> HIDE DEF D
  <2>17. /\ PoolBlocks(Els(k.chain[c]), B[c] \cup {b}, NodesOf(c, Els(k.freev)), f, k.pools[c] \cup {f.v}, PerPage[c])
         /\ b \notin B[c]
    <3>1. PoolBlocks(Els(k.chain[c]), B[c], NodesOf(c, Els(k.freev)), b, k.pools[c], PerPage[c])
      BY <2>5 DEF Good, b
    <3>2. f.v \notin k.pools[c]
      BY <2>6, <2>11
    <3> QED
      BY <3>1, <3>2, <1>2, <2>6, <2>7, BlockLast
  <2>18. PoolBlocks(Els(z.chain[c]), D[c], NodesOf(c, Els(z.freev)), z.fresh[c], z.pools[c], PerPage[c])
    BY <2>6, <2>8, <2>13, <2>15, <2>16, <2>17
  <2>19. Virtuals(Els(z.freev), z.pools, z.high, z.nextmem, V, U) /\ Once(z.chain[c])
    BY <2>5, <2>11, <2>12, <2>15 DEF Good
  <2>20. OnlyPool(k, z, c, B, D)
    BY <2>5, <2>8, <2>13, <2>15, <2>16 DEF OnlyPool
  <2>21. Good(z, P, V, U, D)
    BY <2>5, <2>14, <2>18, <2>19, <2>20, PoolsRest
  <2>22. Counts(z)
    <3> SUFFICES ASSUME NEW d \in Pool
                 PROVE  z.fresh_count[d] \in 1..PerPage[d] /\ z.fresh[d].i + z.fresh_count[d] = PerPage[d]
      BY DEF Counts
    <3>1. CASE d = c
      BY <3>1, <2>6, <2>7, <2>8, <2>9, <2>15
    <3>2. CASE d # c
      BY <3>2, <2>8, <2>9, <2>15 DEF Counts
    <3> QED
      BY <3>1, <3>2
  <2>23. Same(x, z) /\ z.stop = "no"
    BY <1>1, <2>2, <2>5, <2>15 DEF Same
  <2> QED
    BY <1>2, <2>4, <2>14, <2>17, <2>21, <2>22, <2>23 DEF Malloced, D, b
<1> QED
  BY <1>5, <1>6

LEMMA KmallocPGood ==
    ASSUME KmemAssumption, NEW x \in Mem, NEW c \in Pool, NEW P, NEW V, NEW U \in SUBSET V,
           NEW B \in [Pool -> SUBSET Block], x.stop = "no", Good(x, P, V, U, B), Counts(x)
    PROVE  Malloced(x, c, KmallocP(x, c), P, V, U, B)
<1>1. CASE x.chain[c] # <<>>
  BY <1>1, MallocFreed
<1>2. CASE x.chain[c] = <<>> /\ x.fresh_count[c] > 1
  BY <1>2, MallocFresh
<1>3. CASE x.chain[c] = <<>> /\ ~(x.fresh_count[c] > 1)
  BY <1>3, MallocPage
<1> QED
  BY <1>1, <1>2, <1>3

\* kfreepage: in the middle of it the page is held and not mapped, and kmalloc, which
\* it calls for the node, may use the physical page that was behind it.
LEMMA KfreepageGood ==
    ASSUME KmemAssumption, NEW x \in Mem, NEW P, NEW V, NEW B \in [Pool -> SUBSET Block], NEW v \in V,
           x.stop = "no", Good(x, P, V, {}, B), Counts(x)
    PROVE  LET y == Kfreepage(x, v)
           IN  /\ y \in Mem
               /\ \/ y.stop = "panic"
                  \/ /\ y.stop = "no" /\ Same(x, y) /\ Counts(y) /\ Good(y, P, V \ {v}, {}, B)
<1> DEFINE p == x.high[v]
           u == [x EXCEPT !.high[v] = 0]
           o == Putpage(u, p)
           r == KmallocP(o, Node)
           k == r.m
           b == r.ret
           e == [v |-> v, node |-> b]
           z == [k EXCEPT !.freev = <<e>> \o @]
           D == Taken(B, Node, b)
<1>0. KPages \in Nat /\ Node \in Pool /\ x.high \in [VPage -> 0..KPages] /\ 0 \in 0..KPages
  BY DEF KmemAssumption, Mem
<1>1. Virtuals(Els(x.freev), x.pools, x.high, x.nextmem, V, {}) /\ Frames(Els(x.free), x.high, P)
  BY DEF Good
<1>2. /\ Virtuals(Els(x.freev), x.pools, Behind(x.high, v, 0), x.nextmem, V, {} \cup {v})
      /\ v \in VPage /\ p # 0
  BY <1>0, <1>1, PageUnmapped
<1>3. Frames(Els(x.free), Behind(x.high, v, 0), P \cup {p}) /\ p \notin P
  <2>1. Frames(Els(x.free), Behind(x.high, v, 0), P \cup {x.high[v]})
    BY <1>0, <1>1, <1>2, FrameUnmapped
  <2>2. x.high[v] \notin P
    BY <1>1, <1>2 DEF Frames
  <2> QED
    BY <2>1, <2>2
<1>4. /\ u \in Mem /\ u.high = Behind(x.high, v, 0) /\ u.free = x.free /\ u.stop = x.stop /\ u.freev = x.freev
      /\ u.nextmem = x.nextmem /\ u.chain = x.chain /\ u.fresh = x.fresh
      /\ u.fresh_count = x.fresh_count /\ u.pools = x.pools /\ Same(x, u)
  BY <1>0, <1>2, MappedIs DEF Behind
<1>5. [Putpage(x, p) EXCEPT !.high[v] = 0] = o
  BY DEF Putpage, Mem
<1>6. Kfreepage(x, v) = z
  BY <1>2, <1>5 DEF Kfreepage
<1> HIDE DEF u, p
<1>7. Good(u, P \cup {p}, V, {v}, B)
  BY <1>2, <1>3, <1>4 DEF Good
<1>8. /\ o \in Mem /\ Same(u, o) /\ Good(o, (P \cup {p}) \ {p}, V, {v}, B)
      /\ o.stop = u.stop /\ o.fresh = u.fresh /\ o.fresh_count = u.fresh_count
  BY <1>4, <1>7, PutpageGood
<1>9. (P \cup {p}) \ {p} = P
  BY <1>3
<1> HIDE DEF o
<1>10. Good(o, P, V, {v}, B) /\ Counts(o) /\ o.stop = "no" /\ Same(x, o)
  <2>1. Good(o, P, V, {v}, B) /\ o.stop = "no"
    BY <1>4, <1>8, <1>9
  <2>2. Counts(o)
    BY <1>4, <1>8 DEF Counts
  <2>3. Same(x, o)
    BY <1>4, <1>8 DEF Same
  <2> QED
    BY <2>1, <2>2, <2>3
<1>11. Malloced(o, Node, r, P, V, {v}, B)
  <2>1. {v} \in SUBSET V
    OBVIOUS
  <2> QED
    BY <1>0, <1>8, <1>10, <2>1, KmallocPGood
<1> HIDE DEF r
<1>12. k \in Mem /\ b \in Block /\ k.freev \in Seq(Entry)
  BY <1>11 DEF Malloced, Mem
<1>13. e \in Entry /\ e.v = v /\ e.node = b
  BY <1>2, <1>12 DEF Entry
<1> HIDE DEF e
<1>14. <<e>> \o k.freev \in Seq(Entry)
  BY <1>12, <1>13
<1> HIDE DEF k
<1>15. z \in Mem
  BY <1>12, <1>14 DEF Mem
<1>16. /\ z.freev = <<e>> \o k.freev /\ z.free = k.free /\ z.stop = k.stop /\ z.high = k.high
       /\ z.nextmem = k.nextmem /\ z.chain = k.chain /\ z.fresh = k.fresh
       /\ z.fresh_count = k.fresh_count /\ z.pools = k.pools /\ Same(k, z)
  BY <1>12 DEF Mem, Same
<1> HIDE DEF z
<1>17. CASE k.stop = "panic"
  BY <1>6, <1>15, <1>16, <1>17
<1>18. CASE k.stop # "panic"
  <2>1. k.stop = "no" /\ Same(o, k) /\ b \notin B[Node] /\ Counts(k) /\ Good(k, P, V, {v}, D)
    BY <1>11, <1>18 DEF Malloced, k
  <2> DEFINE L == Els(k.freev)
  <2>2. e \notin L
    <3>1. v \notin PagesOf(L)
      BY <1>2, <2>1 DEF Good, Virtuals
    <3> QED
      BY <3>1, <1>13 DEF PagesOf
  <2>3. Once(<<e>> \o k.freev) /\ Els(<<e>> \o k.freev) = L \cup {e}
    <3>1. Once(k.freev)
      BY <2>1 DEF Good
    <3> QED
      BY <3>1, <2>2, <1>12, <1>13, ConsOnce
  <2>4. Virtuals(L \cup {e}, k.pools, k.high, k.nextmem, V \ {v}, {v} \ {v})
    <3>1. Virtuals(L, k.pools, k.high, k.nextmem, V, {v}) /\ k.high \in [VPage -> 0..KPages] /\ v \in {v}
      BY <2>1, <1>12 DEF Good, Mem
    <3> HIDE DEF L
    <3>2. Virtuals(L \cup {[v |-> v, node |-> b]}, k.pools, k.high, k.nextmem, V \ {v}, {v} \ {v})
      BY <3>1, PageFreed
    <3> QED
      BY <3>2 DEF e
  <2> HIDE DEF b
  <2>5. /\ NodesOf(Node, L \cup {e}) = NodesOf(Node, L) \cup {b}
        /\ \A d : d # Node => NodesOf(d, L \cup {e}) = NodesOf(d, L)
    BY <1>13, NodesMore
  <2>6. /\ D[Node] = B[Node] \cup {b} /\ D[Node] \ {b} = B[Node] /\ b \in D[Node]
        /\ \A d \in Pool : d # Node => D[d] = B[d]
    BY <1>0, <2>1 DEF Taken
  <2> HIDE DEF D
  <2>7. /\ PoolBlocks(Els(k.chain[Node]), B[Node], NodesOf(Node, L) \cup {b}, k.fresh[Node], k.pools[Node],
                      PerPage[Node])
        /\ b \notin NodesOf(Node, L)
    <3>1. PoolBlocks(Els(k.chain[Node]), D[Node], NodesOf(Node, L), k.fresh[Node], k.pools[Node], PerPage[Node])
      BY <1>0, <2>1 DEF Good
    <3> HIDE DEF L
    <3>2. /\ PoolBlocks(Els(k.chain[Node]), D[Node] \ {b}, NodesOf(Node, L) \cup {b}, k.fresh[Node],
                        k.pools[Node], PerPage[Node])
          /\ b \notin NodesOf(Node, L)
      BY <3>1, <2>6, NodeIn
    <3> QED
      BY <3>2, <2>6
  <2>8. \A f, g \in L \cup {e} : f.node = g.node => f = g
    <3>1. \A f \in L : f.node # b
      BY <2>7 DEF NodesOf
    <3>2. \A f, g \in L : f.node = g.node => f = g
      BY <2>1 DEF Good
    <3> HIDE DEF L
    <3> QED
      BY <3>1, <3>2, <1>13
  <2>9. \A d \in Pool : PoolBlocks(Els(k.chain[d]), B[d], NodesOf(d, L \cup {e}), k.fresh[d], k.pools[d], PerPage[d])
    <3> SUFFICES ASSUME NEW d \in Pool
                 PROVE  PoolBlocks(Els(k.chain[d]), B[d], NodesOf(d, L \cup {e}), k.fresh[d], k.pools[d], PerPage[d])
      OBVIOUS
    <3>1. CASE d = Node
      BY <3>1, <2>5, <2>7
    <3>2. CASE d # Node
      BY <3>2, <2>1, <2>5, <2>6 DEF Good
    <3> QED
      BY <3>1, <3>2
  <2>10. {v} \ {v} = {}
    OBVIOUS
  <2>11. Once(k.free) /\ Frames(Els(k.free), k.high, P) /\ \A d \in Pool : Once(k.chain[d])
    BY <2>1 DEF Good
  <2>12. Good(z, P, V \ {v}, {}, B)
    <3> HIDE DEF L
    <3> QED
      BY <1>16, <2>3, <2>4, <2>8, <2>9, <2>10, <2>11 DEF Good
  <2>13. Counts(z) /\ Same(x, z) /\ z.stop = "no"
    BY <1>10, <1>16, <2>1 DEF Counts, Same
  <2> QED
    BY <1>6, <1>15, <2>12, <2>13
<1> QED
  BY <1>17, <1>18

-----------------------------------------------------------------------------
(* The steps.                                                               *)

LEMMA PagesAre ==
    ASSUME NEW x \in Mem, NEW S \in SUBSET Int
    PROVE  LET z == [x EXCEPT !.pages = S]
           IN  /\ z \in Mem /\ z.pages = S /\ z.vpages = x.vpages /\ z.blocks = x.blocks /\ z.stop = x.stop
               /\ \A P, V, U, B : Good(x, P, V, U, B) => Good(z, P, V, U, B)
               /\ Counts(x) => Counts(z)
<1> DEFINE z == [x EXCEPT !.pages = S]
<1>1. /\ z \in Mem /\ z.pages = S /\ z.vpages = x.vpages /\ z.blocks = x.blocks /\ z.stop = x.stop
      /\ z.free = x.free /\ z.high = x.high /\ z.freev = x.freev /\ z.nextmem = x.nextmem /\ z.chain = x.chain
      /\ z.fresh = x.fresh /\ z.fresh_count = x.fresh_count /\ z.pools = x.pools
  BY DEF Mem
<1> HIDE DEF z
<1>2. (\A P, V, U, B : Good(x, P, V, U, B) => Good(z, P, V, U, B)) /\ (Counts(x) => Counts(z))
  BY <1>1 DEF Good, Counts
<1> QED
  BY <1>1, <1>2 DEF z

LEMMA VpagesAre ==
    ASSUME NEW x \in Mem, NEW S \in SUBSET Int
    PROVE  LET z == [x EXCEPT !.vpages = S]
           IN  /\ z \in Mem /\ z.vpages = S /\ z.pages = x.pages /\ z.blocks = x.blocks /\ z.stop = x.stop
               /\ \A P, V, U, B : Good(x, P, V, U, B) => Good(z, P, V, U, B)
               /\ Counts(x) => Counts(z)
<1> DEFINE z == [x EXCEPT !.vpages = S]
<1>1. /\ z \in Mem /\ z.vpages = S /\ z.pages = x.pages /\ z.blocks = x.blocks /\ z.stop = x.stop
      /\ z.free = x.free /\ z.high = x.high /\ z.freev = x.freev /\ z.nextmem = x.nextmem /\ z.chain = x.chain
      /\ z.fresh = x.fresh /\ z.fresh_count = x.fresh_count /\ z.pools = x.pools
  BY DEF Mem
<1> HIDE DEF z
<1>2. (\A P, V, U, B : Good(x, P, V, U, B) => Good(z, P, V, U, B)) /\ (Counts(x) => Counts(z))
  BY <1>1 DEF Good, Counts
<1> QED
  BY <1>1, <1>2 DEF z

LEMMA BlocksAre ==
    ASSUME NEW x \in Mem, NEW S \in [Pool -> SUBSET Block]
    PROVE  LET z == [x EXCEPT !.blocks = S]
           IN  /\ z \in Mem /\ z.blocks = S /\ z.pages = x.pages /\ z.vpages = x.vpages /\ z.stop = x.stop
               /\ \A P, V, U, B : Good(x, P, V, U, B) => Good(z, P, V, U, B)
               /\ Counts(x) => Counts(z)
<1> DEFINE z == [x EXCEPT !.blocks = S]
<1>1. /\ z \in Mem /\ z.blocks = S /\ z.pages = x.pages /\ z.vpages = x.vpages /\ z.stop = x.stop
      /\ z.free = x.free /\ z.high = x.high /\ z.freev = x.freev /\ z.nextmem = x.nextmem /\ z.chain = x.chain
      /\ z.fresh = x.fresh /\ z.fresh_count = x.fresh_count /\ z.pools = x.pools
  BY DEF Mem
<1> HIDE DEF z
<1>2. (\A P, V, U, B : Good(x, P, V, U, B) => Good(z, P, V, U, B)) /\ (Counts(x) => Counts(z))
  BY <1>1 DEF Good, Counts
<1> QED
  BY <1>1, <1>2 DEF z

LEMMA KmemInits ==
    ASSUME KmemAssumption, KmemInit PROVE KmemInv
<1> DEFINE n == Cardinality(Pool)
           first == VTop - n
           top == first..(VTop - 1)
<1>1. n \in Nat /\ n # 0
  <2>1. IsFiniteSet(Pool) /\ Pool # {}
    BY DEF KmemAssumption
  <2> QED
    BY <2>1, FS_CardinalityType, FS_EmptySet
<1> HIDE DEF n
<1>2. KPages \in Nat /\ VTop \in Nat /\ VLow \in Nat /\ VLow >= 1 /\ n <= KPages /\ n <= VTop - VLow
      /\ \A c \in Pool : PerPage[c] \in Nat \ {0, 1}
  BY DEF KmemAssumption, n
<1> DEFINE free == [i \in 1..(KPages - n) |-> i + n]
           high == [v \in VPage |-> IF v >= first THEN VTop - v ELSE 0]
<1>3. PICK page \in [Pool -> top] :
        /\ \A v \in top : \E c \in Pool : page[c] = v
        /\ \A c, d \in Pool : page[c] = page[d] => c = d
        /\ kmem =
             [ stop |-> "no", free |-> free, high |-> high, freev |-> <<>>, nextmem |-> first,
               chain |-> [c \in Pool |-> <<>>],
               fresh |-> [c \in Pool |-> [v |-> page[c], i |-> 0]],
               fresh_count |-> [c \in Pool |-> PerPage[c]],
               pools |-> [c \in Pool |-> {page[c]}],
               pages |-> {}, vpages |-> {}, blocks |-> [c \in Pool |-> {}] ]
  BY DEF KmemInit, n
<1>4. /\ kmem.stop = "no" /\ kmem.free = free /\ kmem.high = high /\ kmem.freev = <<>> /\ kmem.nextmem = first
      /\ kmem.chain = [c \in Pool |-> <<>>] /\ kmem.fresh = [c \in Pool |-> [v |-> page[c], i |-> 0]]
      /\ kmem.fresh_count = [c \in Pool |-> PerPage[c]] /\ kmem.pools = [c \in Pool |-> {page[c]}]
      /\ kmem.pages = {} /\ kmem.vpages = {} /\ kmem.blocks = [c \in Pool |-> {}]
  BY <1>3
<1>5. first \in Int /\ first >= VLow /\ first < VTop /\ top \subseteq VPage
  BY <1>1, <1>2 DEF VPage
<1>6. \A c \in Pool : page[c] \in VPage
  BY <1>3, <1>5
<1>7. free \in Seq(KPage) /\ DOMAIN free = 1..(KPages - n) /\ \A i \in DOMAIN free : free[i] = i + n
  <2>1. \A i \in 1..(KPages - n) : i + n \in KPage
    BY <1>1, <1>2 DEF KPage
  <2> QED
    BY <2>1, <1>1, <1>2
<1>8. high \in [VPage -> 0..KPages]
  <2>1. ASSUME NEW v \in VPage, v >= first PROVE VTop - v \in 0..KPages
    BY <2>1, <1>1, <1>2, <1>5 DEF VPage
  <2> QED
    BY <2>1, <1>2
<1> HIDE DEF free, high, first
<1>9. \A c \in Pool : [v |-> page[c], i |-> 0] \in Block
  BY <1>6 DEF Block
<1>10. kmem \in Mem
  <2>1. /\ [c \in Pool |-> <<>>] \in [Pool -> Seq(Block)]
        /\ [c \in Pool |-> [v |-> page[c], i |-> 0]] \in [Pool -> Block]
        /\ [c \in Pool |-> PerPage[c]] \in [Pool -> Int]
        /\ [c \in Pool |-> {page[c]}] \in [Pool -> SUBSET VPage]
        /\ [c \in Pool |-> {}] \in [Pool -> SUBSET Block]
        /\ <<>> \in Seq(Entry)
    BY <1>2, <1>6, <1>9
  <2> QED
    BY <1>3, <1>5, <1>7, <1>8, <2>1 DEF Mem
<1>11. Els(<<>>) = {} /\ Once(<<>>)
  BY DEF Els, Once
<1>12. Once(free)
  BY <1>1, <1>2, <1>7 DEF Once
<1>13. \A q : q \in Els(free) <=> q \in (n + 1)..KPages
  <2>1. ASSUME NEW q \in Els(free) PROVE q \in (n + 1)..KPages
    <3>1. PICK i \in DOMAIN free : q = free[i]
      BY DEF Els
    <3>2. i \in 1..(KPages - n) /\ q = i + n
      BY <3>1, <1>7
    <3> QED
      BY <3>2, <1>1, <1>2
  <2>2. ASSUME NEW q \in (n + 1)..KPages PROVE q \in Els(free)
    <3>1. q - n \in 1..(KPages - n) /\ (q - n) + n = q
      BY <1>1, <1>2
    <3> QED
      BY <3>1, <1>7 DEF Els
  <2> QED
    BY <2>1, <2>2
<1>14. \A v \in VPage : /\ v >= first => high[v] = VTop - v /\ VTop - v \in 1..n
                        /\ ~(v >= first) => high[v] = 0
  <2>1. \A v \in VPage : high[v] = IF v >= first THEN VTop - v ELSE 0
    BY DEF high
  <2>2. \A v \in VPage : v >= first => VTop - v \in 1..n
    BY <1>1, <1>2 DEF VPage, first
  <2> QED
    BY <2>1, <2>2
<1>15. Frames(Els(free), high, {})
  <2>1. Els(free) \subseteq KPage
    BY <1>1, <1>2, <1>13 DEF KPage
  <2>2. \A v \in VPage : high[v] \notin Els(free)
    BY <1>1, <1>2, <1>13, <1>14
  <2>3. ASSUME NEW v \in VPage, NEW w \in VPage, high[v] = high[w], high[v] # 0 PROVE v = w
    <3>1. VTop - v = VTop - w
      BY <2>3, <1>14
    <3>2. v \in Int /\ w \in Int
      BY <1>2 DEF VPage
    <3> QED
      BY <3>1, <3>2, <1>2
  <2>4. ASSUME NEW q \in KPage, q \notin Els(free) PROVE \E v \in VPage : high[v] = q
    <3>1. q \in 1..n
      BY <2>4, <1>1, <1>2, <1>13 DEF KPage
    <3>2. VTop - q \in VPage /\ VTop - q >= first /\ VTop - (VTop - q) = q
      BY <3>1, <1>1, <1>2, <1>5 DEF VPage, first
    <3> QED
      BY <3>2, <1>14
  <2> QED
    BY <2>1, <2>2, <2>3, <2>4 DEF Frames
<1>16. Virtuals({}, kmem.pools, high, first, {}, {})
  <2>1. PagesOf({}) = {}
    BY DEF PagesOf
  <2>2. first \in (VLow - 1)..VTop
    BY <1>2, <1>5
  <2>3. \A c \in Pool, v \in VPage : v \in kmem.pools[c] <=> v = page[c]
    BY <1>4
  <2>4. ASSUME NEW v \in VPage PROVE v >= first <=> \E c \in Pool : v = page[c]
    <3>1. v >= first <=> v \in top
      BY <1>2, <1>5 DEF VPage
    <3> QED
      BY <3>1, <1>3
  <2>5. ASSUME NEW v \in VPage PROVE high[v] = 0 <=> v < first
    <3>1. v \in Int /\ first \in Int
      BY <1>2, <1>5 DEF VPage
    <3> QED
      BY <3>1, <1>1, <1>14
  <2>6. ASSUME NEW c \in Pool, NEW d \in Pool, NEW v \in VPage, v \in kmem.pools[c], v \in kmem.pools[d]
        PROVE  c = d
    BY <2>3, <2>6, <1>3
  <2> QED
    BY <2>1, <2>2, <2>3, <2>4, <2>5, <2>6 DEF Virtuals
<1>17. \A c \in Pool : PoolBlocks({}, {}, {}, kmem.fresh[c], kmem.pools[c], PerPage[c])
  <2> SUFFICES ASSUME NEW c \in Pool PROVE PoolBlocks({}, {}, {}, kmem.fresh[c], kmem.pools[c], PerPage[c])
    OBVIOUS
  <2>1. kmem.fresh[c].v = page[c] /\ kmem.fresh[c].i = 0 /\ kmem.pools[c] = {page[c]}
    BY <1>4
  <2>2. \A b \in Block : b.i \in Nat
    BY DEF Block
  <2>3. {b \in Block : b.v \in kmem.pools[c] /\ b.i < PerPage[c]
                       /\ (b.v = kmem.fresh[c].v => b.i < kmem.fresh[c].i)} = {}
    BY <2>1, <2>2
  <2> QED
    BY <2>1, <2>3 DEF PoolBlocks
<1>18. \A c : NodesOf(c, {}) = {}
  BY DEF NodesOf
<1>19. \A c \in Pool : kmem.chain[c] = <<>> /\ kmem.blocks[c] = {}
  BY <1>4
<1>20. Good(kmem, kmem.pages, kmem.vpages, {}, kmem.blocks)
  <2>1. Els(kmem.freev) = {} /\ Once(kmem.freev) /\ Once(kmem.free)
    BY <1>4, <1>11, <1>12
  <2>2. Frames(Els(kmem.free), kmem.high, kmem.pages)
    BY <1>4, <1>15
  <2>3. Virtuals(Els(kmem.freev), kmem.pools, kmem.high, kmem.nextmem, kmem.vpages, {})
    BY <1>4, <1>16, <2>1
  <2>4. \A c \in Pool : Once(kmem.chain[c])
    BY <1>11, <1>19
  <2>5. ASSUME NEW c \in Pool
        PROVE  PoolBlocks(Els(kmem.chain[c]), kmem.blocks[c], NodesOf(c, Els(kmem.freev)), kmem.fresh[c],
                          kmem.pools[c], PerPage[c])
    BY <1>11, <1>17, <1>18, <1>19, <2>1
  <2> QED
    BY <2>1, <2>2, <2>3, <2>4, <2>5 DEF Good
<1>21. Counts(kmem)
  <2> SUFFICES ASSUME NEW c \in Pool
               PROVE  kmem.fresh_count[c] \in 1..PerPage[c] /\ kmem.fresh[c].i + kmem.fresh_count[c] = PerPage[c]
    BY DEF Counts
  <2>1. kmem.fresh[c].i = 0 /\ kmem.fresh_count[c] = PerPage[c]
    BY <1>4
  <2> QED
    BY <2>1, <1>2
<1> QED
  BY <1>10, <1>20, <1>21 DEF KmemInv

LEMMA KmemSteps ==
    ASSUME KmemAssumption, KmemInv, [KmemNext]_kmem PROVE KmemInv'
<1> DEFINE P == kmem.pages
           V == kmem.vpages
           B == kmem.blocks
<1>0. /\ kmem \in Mem /\ P \in SUBSET Int /\ V \in SUBSET Int /\ B \in [Pool -> SUBSET Block]
      /\ kmem.stop = "no" => Good(kmem, P, V, {}, B) /\ Counts(kmem)
  BY DEF KmemInv, Mem
<1> SUFFICES kmem' \in Mem /\ (kmem'.stop = "no" => Good(kmem', kmem'.pages, kmem'.vpages, {}, kmem'.blocks) /\ Counts(kmem'))
  BY DEF KmemInv
<1>1. CASE UNCHANGED kmem
  BY <1>0, <1>1
<1> HIDE DEF P, V, B
<1>2. CASE TakePage
  <2> DEFINE r == Getpage(kmem)
             y == r.m
             p == r.ret
             S == y.pages \cup {p}
  <2>1. kmem.stop = "no" /\ kmem' = [y EXCEPT !.pages = S]
    BY <1>2 DEF TakePage
  <2>2. /\ y \in Mem /\ p \in Int
        /\ \/ y.stop = "panic"
           \/ Same(kmem, y) /\ Good(y, P \cup {p}, V, {}, B) /\ y.fresh = kmem.fresh /\ y.fresh_count = kmem.fresh_count
    BY <1>0, <2>1, GetpageGood
  <2> HIDE DEF y, p
  <2>3. S \in SUBSET Int
    BY <2>2 DEF Mem
  <2>4. /\ kmem' \in Mem /\ kmem'.pages = S /\ kmem'.vpages = y.vpages /\ kmem'.blocks = y.blocks
        /\ kmem'.stop = y.stop /\ (Counts(y) => Counts(kmem'))
        /\ \A Q, W, U, D : Good(y, Q, W, U, D) => Good(kmem', Q, W, U, D)
    BY <2>1, <2>2, <2>3, PagesAre
  <2>5. CASE y.stop = "panic"
    BY <2>4, <2>5
  <2>6. CASE y.stop # "panic"
    <3>1. Counts(y) /\ S = P \cup {p} /\ y.vpages = V /\ y.blocks = B
      BY <1>0, <2>1, <2>2, <2>6 DEF Counts, Same, P, V, B
    <3> QED
      BY <3>1, <2>2, <2>4, <2>6
  <2> QED
    BY <2>5, <2>6
<1>3. CASE GivePage
  <2>1. PICK p \in P : kmem' = [Putpage(kmem, p) EXCEPT !.pages = @ \ {p}]
    BY <1>3 DEF GivePage, P
  <2> DEFINE y == Putpage(kmem, p)
             S == y.pages \ {p}
  <2>2. kmem.stop = "no" /\ kmem' = [y EXCEPT !.pages = S]
    BY <1>3, <2>1 DEF GivePage
  <2>3. /\ y \in Mem /\ Same(kmem, y) /\ Good(y, P \ {p}, V, {}, B)
        /\ y.fresh = kmem.fresh /\ y.fresh_count = kmem.fresh_count
    BY <1>0, <2>2, PutpageGood
  <2> HIDE DEF y
  <2>4. S \in SUBSET Int
    BY <2>3 DEF Mem
  <2>5. /\ kmem' \in Mem /\ kmem'.pages = S /\ kmem'.vpages = y.vpages /\ kmem'.blocks = y.blocks
        /\ (Counts(y) => Counts(kmem'))
        /\ \A Q, W, U, D : Good(y, Q, W, U, D) => Good(kmem', Q, W, U, D)
    BY <2>2, <2>3, <2>4, PagesAre
  <2>6. Counts(y) /\ S = P \ {p} /\ y.vpages = V /\ y.blocks = B
    BY <1>0, <2>2, <2>3 DEF Counts, Same, P, V, B
  <2> QED
    BY <2>3, <2>5, <2>6
<1>4. CASE TakeKpage
  <2> DEFINE r == Kgetpage(kmem)
             y == r.m
             v == r.ret
             S == y.vpages \cup {v}
  <2>1. kmem.stop = "no" /\ kmem' = [y EXCEPT !.vpages = S]
    BY <1>4 DEF TakeKpage
  <2>2. /\ y \in Mem /\ v \in Int
        /\ \/ y.stop = "panic"
           \/ Same(kmem, y) /\ Good(y, P, V \cup {v}, {}, B) /\ y.fresh = kmem.fresh /\ y.fresh_count = kmem.fresh_count
    BY <1>0, <2>1, KgetpageGood
  <2> HIDE DEF y, v
  <2>3. S \in SUBSET Int
    BY <2>2 DEF Mem
  <2>4. /\ kmem' \in Mem /\ kmem'.vpages = S /\ kmem'.pages = y.pages /\ kmem'.blocks = y.blocks
        /\ kmem'.stop = y.stop /\ (Counts(y) => Counts(kmem'))
        /\ \A Q, W, U, D : Good(y, Q, W, U, D) => Good(kmem', Q, W, U, D)
    BY <2>1, <2>2, <2>3, VpagesAre
  <2>5. CASE y.stop = "panic"
    BY <2>4, <2>5
  <2>6. CASE y.stop # "panic"
    <3>1. Counts(y) /\ S = V \cup {v} /\ y.pages = P /\ y.blocks = B
      BY <1>0, <2>1, <2>2, <2>6 DEF Counts, Same, P, V, B
    <3> QED
      BY <3>1, <2>2, <2>4, <2>6
  <2> QED
    BY <2>5, <2>6
<1>5. CASE GiveKpage
  <2>1. PICK v \in V : kmem' = [Kfreepage(kmem, v) EXCEPT !.vpages = @ \ {v}]
    BY <1>5 DEF GiveKpage, V
  <2> DEFINE y == Kfreepage(kmem, v)
             S == y.vpages \ {v}
  <2>2. kmem.stop = "no" /\ kmem' = [y EXCEPT !.vpages = S]
    BY <1>5, <2>1 DEF GiveKpage
  <2>3. /\ y \in Mem
        /\ \/ y.stop = "panic"
           \/ Same(kmem, y) /\ Counts(y) /\ Good(y, P, V \ {v}, {}, B)
    BY <1>0, <2>2, KfreepageGood
  <2> HIDE DEF y
  <2>4. S \in SUBSET Int
    BY <2>3 DEF Mem
  <2>5. /\ kmem' \in Mem /\ kmem'.vpages = S /\ kmem'.pages = y.pages /\ kmem'.blocks = y.blocks
        /\ kmem'.stop = y.stop /\ (Counts(y) => Counts(kmem'))
        /\ \A Q, W, U, D : Good(y, Q, W, U, D) => Good(kmem', Q, W, U, D)
    BY <2>2, <2>3, <2>4, VpagesAre
  <2>6. CASE y.stop = "panic"
    BY <2>5, <2>6
  <2>7. CASE y.stop # "panic"
    <3>1. S = V \ {v} /\ y.pages = P /\ y.blocks = B
      BY <2>3, <2>7 DEF Same, P, V, B
    <3> QED
      BY <3>1, <2>3, <2>5, <2>7
  <2> QED
    BY <2>6, <2>7
<1>6. ASSUME NEW c \in Pool, TakeBlock(c) PROVE kmem' \in Mem /\ (kmem'.stop = "no" =>
        Good(kmem', kmem'.pages, kmem'.vpages, {}, kmem'.blocks) /\ Counts(kmem'))
  <2> DEFINE r == KmallocP(kmem, c)
             y == r.m
             b == r.ret
             S == Taken(y.blocks, c, b)
  <2>1. kmem.stop = "no" /\ kmem' = [y EXCEPT !.blocks[c] = @ \cup {b}]
    BY <1>6 DEF TakeBlock
  <2>2. Malloced(kmem, c, r, P, V, {}, B)
    <3>1. {} \in SUBSET V
      OBVIOUS
    <3> QED
      BY <1>0, <2>1, <3>1, KmallocPGood
  <2>3. /\ y \in Mem /\ b \in Block
        /\ y.stop = "panic" \/ (Same(kmem, y) /\ Counts(y) /\ Good(y, P, V, {}, Taken(B, c, b)))
    BY <2>2 DEF Malloced
  <2>4. kmem' = [y EXCEPT !.blocks = S]
    BY <2>1 DEF Taken
  <2> HIDE DEF y, b
  <2>5. S \in [Pool -> SUBSET Block]
    BY <2>3 DEF Mem, Taken
  <2> HIDE DEF S
  <2>6. /\ kmem' \in Mem /\ kmem'.vpages = y.vpages /\ kmem'.pages = y.pages /\ kmem'.blocks = S
        /\ kmem'.stop = y.stop /\ (Counts(y) => Counts(kmem'))
        /\ \A Q, W, U, D : Good(y, Q, W, U, D) => Good(kmem', Q, W, U, D)
    BY <2>3, <2>4, <2>5, BlocksAre
  <2>7. CASE y.stop = "panic"
    BY <2>6, <2>7
  <2>8. CASE y.stop # "panic"
    <3>1. y.vpages = V /\ y.pages = P /\ S = Taken(B, c, b)
      BY <2>3, <2>8 DEF Same, P, V, B, S
    <3> QED
      BY <3>1, <2>3, <2>6, <2>8
  <2> QED
    BY <2>7, <2>8
<1>7. ASSUME NEW c \in Pool, GiveBlock(c) PROVE kmem' \in Mem /\ (kmem'.stop = "no" =>
        Good(kmem', kmem'.pages, kmem'.vpages, {}, kmem'.blocks) /\ Counts(kmem'))
  <2>1. PICK b \in B[c] : kmem' = [KfreeP(kmem, c, b) EXCEPT !.blocks[c] = @ \ {b}]
    BY <1>7 DEF GiveBlock, B
  <2> DEFINE y == KfreeP(kmem, c, b)
             S == Without(y.blocks, c, b)
  <2>2. kmem.stop = "no" /\ kmem' = [y EXCEPT !.blocks = S]
    BY <1>7, <2>1 DEF GiveBlock, Without
  <2>3. /\ y \in Mem /\ Same(kmem, y) /\ Good(y, P, V, {}, Without(B, c, b))
        /\ y.fresh = kmem.fresh /\ y.fresh_count = kmem.fresh_count
    BY <1>0, <2>2, KfreePGood
  <2> HIDE DEF y
  <2>4. S \in [Pool -> SUBSET Block]
    BY <2>3 DEF Mem, Without
  <2> HIDE DEF S
  <2>5. /\ kmem' \in Mem /\ kmem'.vpages = y.vpages /\ kmem'.pages = y.pages /\ kmem'.blocks = S
        /\ (Counts(y) => Counts(kmem'))
        /\ \A Q, W, U, D : Good(y, Q, W, U, D) => Good(kmem', Q, W, U, D)
    BY <2>2, <2>3, <2>4, BlocksAre
  <2>6. Counts(y) /\ S = Without(B, c, b) /\ y.vpages = V /\ y.pages = P
    BY <1>0, <2>2, <2>3 DEF Counts, Same, P, V, B, S
  <2> QED
    BY <2>3, <2>5, <2>6
<1> QED
  BY <1>1, <1>2, <1>3, <1>4, <1>5, <1>6, <1>7 DEF KmemNext, KmemStopped

LEMMA KmemInvariance == KmemSpec => []KmemInv
<1>1. KmemInit => KmemInv
  BY KmemAssumption, KmemInits
<1>2. KmemInv /\ [KmemNext]_kmem => KmemInv'
  BY KmemAssumption, KmemSteps
<1> QED
  BY <1>1, <1>2, PTL DEF KmemSpec

LEMMA FramesOnce ==
    ASSUME KmemInv, KmemRuns, NEW p \in KPage
    PROVE  One(FrameUses(p))
<1>1. /\ Once(kmem.free) /\ Frames(Els(kmem.free), kmem.high, kmem.pages) /\ KPages \in Nat
      /\ kmem.high \in [VPage -> 0..KPages]
  <2>1. KPages \in Nat /\ kmem.high \in [VPage -> 0..KPages]
    BY KmemAssumption DEF KmemAssumption, KmemInv, Mem
  <2> QED
    BY <2>1 DEF KmemInv, KmemRuns, Good
<1>2. p # 0
  BY DEF KPage
<1>3. FrameUses(p) # {}
  <2>1. CASE p \in Els(kmem.free)
    <3>1. PICK i \in DOMAIN kmem.free : kmem.free[i] = p
      BY <2>1 DEF Els
    <3>2. <<"free", i>> \in FrameUses(p)
      BY <3>1 DEF FrameUses
    <3> QED
      BY <3>2
  <2>2. CASE p \in kmem.pages
    <3>1. <<"taken", p>> \in FrameUses(p)
      BY <2>2 DEF FrameUses
    <3> QED
      BY <3>1
  <2>3. CASE \E v \in VPage : kmem.high[v] = p
    <3>1. PICK v \in VPage : kmem.high[v] = p
      BY <2>3
    <3>2. <<"mapped", v>> \in FrameUses(p)
      BY <3>1 DEF FrameUses
    <3> QED
      BY <3>2
  <2> QED
    BY <1>1, <2>1, <2>2, <2>3 DEF Frames
<1>4. ASSUME NEW a \in FrameUses(p)
      PROVE  \/ \E i \in DOMAIN kmem.free : a = <<"free", i>> /\ kmem.free[i] = p
             \/ \E v \in VPage : a = <<"mapped", v>> /\ kmem.high[v] = p
             \/ a = <<"taken", p>> /\ p \in kmem.pages
  BY DEF FrameUses
<1>5. (p \in Els(kmem.free) => p \notin kmem.pages) /\ \A v \in VPage : kmem.high[v] = p => p \notin Els(kmem.free) \cup kmem.pages
  BY <1>1 DEF Frames
<1>6. \A i \in DOMAIN kmem.free : kmem.free[i] = p => p \in Els(kmem.free)
  BY DEF Els
<1>7. \A i, j \in DOMAIN kmem.free : kmem.free[i] = p /\ kmem.free[j] = p => i = j
  BY <1>1 DEF Once
<1>8. \A v, w \in VPage : kmem.high[v] = p /\ kmem.high[w] = p => v = w
  BY <1>1, <1>2 DEF Frames
<1>9. ASSUME NEW a \in FrameUses(p), NEW b \in FrameUses(p) PROVE a = b
  <2>1. \/ \E i \in DOMAIN kmem.free : a = <<"free", i>> /\ kmem.free[i] = p
        \/ \E v \in VPage : a = <<"mapped", v>> /\ kmem.high[v] = p
        \/ a = <<"taken", p>> /\ p \in kmem.pages
    BY <1>4
  <2>2. \/ \E i \in DOMAIN kmem.free : b = <<"free", i>> /\ kmem.free[i] = p
        \/ \E v \in VPage : b = <<"mapped", v>> /\ kmem.high[v] = p
        \/ b = <<"taken", p>> /\ p \in kmem.pages
    BY <1>4
  <2> QED
    BY <2>1, <2>2, <1>5, <1>6, <1>7, <1>8
<1> QED
  BY <1>3, <1>9 DEF One

LEMMA VirtualOnce ==
    ASSUME KmemInv, KmemRuns, NEW v \in GivenPages
    PROVE  One(PageUses(v)) /\ (kmem.high[v] = 0 <=> OnFreev(v) # {})
<1> DEFINE L == Els(kmem.freev)
<1>1. /\ Once(kmem.freev) /\ Virtuals(L, kmem.pools, kmem.high, kmem.nextmem, kmem.vpages, {})
      /\ VTop \in Nat /\ VLow \in 1..VTop
  <2>1. VTop \in Nat /\ VLow \in 1..VTop
    BY KmemAssumption DEF KmemAssumption
  <2> QED
    BY <2>1 DEF KmemInv, KmemRuns, Good
<1>2. v \in VPage /\ v >= kmem.nextmem /\ ~(v < kmem.nextmem)
  <2>1. kmem.nextmem \in (VLow - 1)..VTop
    BY <1>1 DEF Virtuals
  <2> QED
    BY <2>1, <1>1 DEF GivenPages, VPage
<1>3. v \in PagesOf(L) <=> OnFreev(v) # {}
  <2>1. ASSUME v \in PagesOf(L) PROVE OnFreev(v) # {}
    <3>1. PICK i \in DOMAIN kmem.freev : kmem.freev[i].v = v
      BY <2>1 DEF PagesOf, Els
    <3>2. i \in OnFreev(v)
      BY <3>1 DEF OnFreev
    <3> QED
      BY <3>2
  <2>2. ASSUME OnFreev(v) # {} PROVE v \in PagesOf(L)
    <3>1. PICK i \in DOMAIN kmem.freev : kmem.freev[i].v = v
      BY <2>2 DEF OnFreev
    <3> QED
      BY <3>1 DEF PagesOf, Els
  <2> QED
    BY <2>1, <2>2
<1>4. /\ v \in PagesOf(L) => v \notin kmem.vpages
      /\ v \in PagesOf(L) \/ v \in kmem.vpages => \A c \in Pool : v \notin kmem.pools[c]
      /\ v \in PagesOf(L) \/ v \in kmem.vpages \/ \E c \in Pool : v \in kmem.pools[c]
      /\ kmem.high[v] = 0 <=> v \in PagesOf(L)
      /\ \A c, d \in Pool : v \in kmem.pools[c] /\ v \in kmem.pools[d] => c = d
  BY <1>1, <1>2 DEF Virtuals
<1>5. \A i, j \in OnFreev(v) : i = j
  <2> SUFFICES ASSUME NEW i \in OnFreev(v), NEW j \in OnFreev(v) PROVE i = j
    OBVIOUS
  <2>1. /\ i \in DOMAIN kmem.freev /\ j \in DOMAIN kmem.freev /\ kmem.freev[i].v = kmem.freev[j].v
        /\ kmem.freev[i] \in L /\ kmem.freev[j] \in L
    BY DEF OnFreev, Els
  <2>2. kmem.freev[i] = kmem.freev[j]
    BY <2>1, <1>1 DEF Virtuals
  <2> QED
    BY <2>1, <2>2, <1>1 DEF Once
<1> HIDE DEF L
<1>6. ASSUME NEW a \in PageUses(v)
      PROVE  \/ \E i \in OnFreev(v) : a = <<"freev", i>>
             \/ \E c \in Pool : a = <<"pool", c>> /\ v \in kmem.pools[c]
             \/ a = <<"given", v>> /\ v \in kmem.vpages
  BY DEF PageUses
<1>7. PageUses(v) # {}
  <2>1. CASE OnFreev(v) # {}
    <3>1. PICK i \in OnFreev(v) : TRUE
      BY <2>1
    <3>2. <<"freev", i>> \in PageUses(v)
      BY <3>1 DEF PageUses
    <3> QED
      BY <3>2
  <2>2. CASE v \in kmem.vpages
    <3>1. <<"given", v>> \in PageUses(v)
      BY <2>2 DEF PageUses
    <3> QED
      BY <3>1
  <2>3. CASE \E c \in Pool : v \in kmem.pools[c]
    <3>1. PICK c \in Pool : v \in kmem.pools[c]
      BY <2>3
    <3>2. <<"pool", c>> \in PageUses(v)
      BY <3>1 DEF PageUses
    <3> QED
      BY <3>2
  <2> QED
    BY <1>3, <1>4, <2>1, <2>2, <2>3
<1>8. ASSUME NEW a \in PageUses(v), NEW b \in PageUses(v) PROVE a = b
  <2>1. \/ \E i \in OnFreev(v) : a = <<"freev", i>>
        \/ \E c \in Pool : a = <<"pool", c>> /\ v \in kmem.pools[c]
        \/ a = <<"given", v>> /\ v \in kmem.vpages
    BY <1>6
  <2>2. \/ \E i \in OnFreev(v) : b = <<"freev", i>>
        \/ \E c \in Pool : b = <<"pool", c>> /\ v \in kmem.pools[c]
        \/ b = <<"given", v>> /\ v \in kmem.vpages
    BY <1>6
  <2> QED
    BY <2>1, <2>2, <1>3, <1>4, <1>5
<1> QED
  BY <1>3, <1>4, <1>7, <1>8 DEF One

LEMMA BlocksOnce ==
    ASSUME KmemInv, KmemRuns, NEW c \in Pool, NEW v \in kmem.pools[c], NEW i \in 0..(PerPage[c] - 1)
    PROVE  One(BlockUses(c, [v |-> v, i |-> i]))
<1> DEFINE b == [v |-> v, i |-> i]
           f == kmem.fresh[c]
           ch == kmem.chain[c]
           L == Els(kmem.freev)
           N == NodesOf(c, L)
           H == kmem.blocks[c]
<1>1. /\ Once(ch) /\ Once(kmem.freev) /\ PoolBlocks(Els(ch), H, N, f, kmem.pools[c], PerPage[c])
      /\ \A a, d \in L : a.node = d.node => a = d
  BY DEF KmemInv, KmemRuns, Good
<1>2. kmem.pools[c] \subseteq VPage /\ PerPage[c] \in Nat \ {0, 1} /\ f \in Block
  <2>1. PerPage[c] \in Nat \ {0, 1}
    BY KmemAssumption DEF KmemAssumption
  <2>2. kmem.pools \in [Pool -> SUBSET VPage] /\ kmem.fresh \in [Pool -> Block]
    BY DEF KmemInv, Mem
  <2> QED
    BY <2>1, <2>2
<1>3. b \in Block /\ b.v = v /\ b.i = i /\ i \in Nat /\ i < PerPage[c] /\ f.i \in Nat
  BY <1>2 DEF Block
<1> HIDE DEF b
<1>4. b \in Els(ch) \/ b \in H \/ b \in N <=> ~(b.v = f.v /\ b.i >= f.i)
  <2>1. b \in Els(ch) \/ b \in H \/ b \in N <=> (b.v = f.v => b.i < f.i)
    BY <1>1, <1>3 DEF PoolBlocks
  <2> QED
    BY <2>1, <1>3
<1>5. (b \in Els(ch) => b \notin H /\ b \notin N) /\ (b \in H => b \notin N)
  BY <1>1 DEF PoolBlocks
<1>6. b \in N <=> \E j \in DOMAIN kmem.freev : c = Node /\ kmem.freev[j].node = b
  BY DEF NodesOf, Els
<1>7. b \in Els(ch) <=> \E j \in DOMAIN ch : ch[j] = b
  BY DEF Els
<1>8. \A j, k \in DOMAIN ch : ch[j] = b /\ ch[k] = b => j = k
  BY <1>1 DEF Once
<1>9. \A j, k \in DOMAIN kmem.freev : kmem.freev[j].node = b /\ kmem.freev[k].node = b => j = k
  <2> SUFFICES ASSUME NEW j \in DOMAIN kmem.freev, NEW k \in DOMAIN kmem.freev,
                      kmem.freev[j].node = b, kmem.freev[k].node = b
               PROVE  j = k
    OBVIOUS
  <2>1. kmem.freev[j] \in L /\ kmem.freev[k] \in L
    BY DEF Els
  <2>2. kmem.freev[j] = kmem.freev[k]
    BY <1>1, <2>1
  <2> QED
    BY <2>2, <1>1 DEF Once
<1>10. ASSUME NEW a \in BlockUses(c, b)
       PROVE  \/ \E j \in DOMAIN ch : a = <<"chain", j>> /\ ch[j] = b
              \/ a = <<"held", b>> /\ b \in H
              \/ \E j \in DOMAIN kmem.freev : a = <<"node", j>> /\ c = Node /\ kmem.freev[j].node = b
              \/ a = <<"fresh", f>> /\ b.v = f.v /\ b.i >= f.i
  BY DEF BlockUses
<1>11. BlockUses(c, b) # {}
  <2>1. CASE b \in Els(ch)
    <3>1. PICK j \in DOMAIN ch : ch[j] = b
      BY <2>1, <1>7
    <3>2. <<"chain", j>> \in BlockUses(c, b)
      BY <3>1 DEF BlockUses
    <3> QED
      BY <3>2
  <2>2. CASE b \in H
    <3>1. <<"held", b>> \in BlockUses(c, b)
      BY <2>2 DEF BlockUses
    <3> QED
      BY <3>1
  <2>3. CASE b \in N
    <3>1. PICK j \in DOMAIN kmem.freev : c = Node /\ kmem.freev[j].node = b
      BY <2>3, <1>6
    <3>2. <<"node", j>> \in BlockUses(c, b)
      BY <3>1 DEF BlockUses
    <3> QED
      BY <3>2
  <2>4. CASE b.v = f.v /\ b.i >= f.i
    <3>1. <<"fresh", f>> \in BlockUses(c, b)
      BY <2>4 DEF BlockUses
    <3> QED
      BY <3>1
  <2> QED
    BY <1>4, <2>1, <2>2, <2>3, <2>4
<1> HIDE DEF N, H, ch, f
<1>12. ASSUME NEW a \in BlockUses(c, b), NEW d \in BlockUses(c, b) PROVE a = d
  <2>1. \/ \E j \in DOMAIN ch : a = <<"chain", j>> /\ ch[j] = b
        \/ a = <<"held", b>> /\ b \in H
        \/ \E j \in DOMAIN kmem.freev : a = <<"node", j>> /\ c = Node /\ kmem.freev[j].node = b
        \/ a = <<"fresh", f>> /\ b.v = f.v /\ b.i >= f.i
    BY <1>10
  <2>2. \/ \E j \in DOMAIN ch : d = <<"chain", j>> /\ ch[j] = b
        \/ d = <<"held", b>> /\ b \in H
        \/ \E j \in DOMAIN kmem.freev : d = <<"node", j>> /\ c = Node /\ kmem.freev[j].node = b
        \/ d = <<"fresh", f>> /\ b.v = f.v /\ b.i >= f.i
    BY <1>10
  <2> QED
    BY <2>1, <2>2, <1>4, <1>5, <1>6, <1>7, <1>8, <1>9
<1>13. One(BlockUses(c, b))
  BY <1>11, <1>12 DEF One
<1> QED
  BY <1>13 DEF b

\* Every physical page, virtual page and block of the kernel's memory has one holder,
\* and neither DEBUGGER() is reached, for any number of pages and pools.
THEOREM KmemSafe == KmemSpec => []PoolsKept
<1>1. KmemInv => PoolsKept
  <2> SUFFICES ASSUME KmemInv PROVE PoolsKept
    OBVIOUS
  <2>1. kmem.stop \in {"no", "panic"} /\ kmem.free \in Seq(KPage) /\ kmem.high \in [VPage -> 0..KPages]
    BY DEF KmemInv, Mem
  <2>2. ASSUME KmemRuns, NEW c \in Pool
        PROVE  /\ \A i \in DOMAIN kmem.chain[c] : kmem.chain[c][i].i < PerPage[c]
               /\ kmem.fresh_count[c] \in 1..PerPage[c]
               /\ kmem.fresh[c].i + kmem.fresh_count[c] = PerPage[c]
    <3>1. Counts(kmem) /\ PoolBlocks(Els(kmem.chain[c]), kmem.blocks[c], NodesOf(c, Els(kmem.freev)),
                                     kmem.fresh[c], kmem.pools[c], PerPage[c])
      BY <2>2 DEF KmemInv, KmemRuns, Good
    <3>2. \A i \in DOMAIN kmem.chain[c] : kmem.chain[c][i] \in Els(kmem.chain[c])
      BY DEF Els
    <3>3. \A b \in Els(kmem.chain[c]) : b.i < PerPage[c]
      BY <3>1 DEF PoolBlocks
    <3> QED
      BY <3>1, <3>2, <3>3 DEF Counts
  <2>3. KmemTypeOK
    BY <2>1, <2>2 DEF KmemTypeOK
  <2>4. FramesApart
    BY FramesOnce DEF FramesApart
  <2>5. VirtualApart
    BY VirtualOnce DEF VirtualApart
  <2>6. BlocksApart
    BY BlocksOnce DEF BlocksApart
  <2>7. NoDebugger
    BY <2>1 DEF NoDebugger
  <2> QED
    BY <2>3, <2>4, <2>5, <2>6, <2>7 DEF PoolsKept
<1> QED
  BY <1>1, KmemInvariance, PTL
=============================================================================
