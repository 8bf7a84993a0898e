------------------------------ MODULE FishTank ------------------------------
(***************************************************************************)
(* The fish server, srv/fish/fish.c with dfp.h: tanks on a network that     *)
(* hand each other fish with SEND, ACK and SYNC packets, timeouts and no    *)
(* retries.  Each tank has two threads: fishmain, which takes packets and   *)
(* commands, and vloop, which walks through the list of fish.               *)
(*                                                                         *)
(* A packet is broadcast (NET_SEND of srv/ne2000): it may be lost, late, or *)
(* received twice.  Where a fish is in its tank is left out; it may cross   *)
(* any edge at any step.                                                    *)
(***************************************************************************)
EXTENDS Integers, Sequences, FiniteSets, FiniteSetsExt

CONSTANTS
    Tank,        \* the tanks there are
    Fish,        \* the fish there will be
    Born,        \* those vinit makes in each tank, one after the other
    FirstAt,     \* where each tank is, from the last byte of its address
    Moves,       \* where the command `tank' may move one to
    NoFish,      \* what a packet carries that is about no fish
    Rubbish,        \* what a freed block of memory may have in it
    TIMEOUT,     \* 8 ticks
    PING_EVERY,  \* 200 ticks
    MaxTicks,    \* bound of the model on the ticks of each tank
    MaxOdd       \* bound of the model on commands, and packets received twice

Dir == {"UP", "DN", "LF", "RT"}

ASSUME FishAssumption ==
    /\ Born \in [Tank -> Seq(Fish)]
    /\ \A k, l \in Tank : \A i \in DOMAIN Born[k], j \in DOMAIN Born[l] :
          Born[k][i] = Born[l][j] => k = l /\ i = j
    /\ FirstAt \in [Tank -> Int \X Int] /\ Moves \subseteq Int \X Int
    /\ Rubbish \notin Fish /\ NoFish \notin Fish /\ Rubbish # NoFish
    /\ TIMEOUT \in Nat /\ PING_EVERY \in Nat \ {0}

VARIABLES
    my,          \* myX, myY
    ticks,
    cnxn,        \* the four neighbours: live, and where they are
    fishes,      \* of fish, from `first' on
    count,       \* st_count
    alone,       \* sticky, recluse
    walk,        \* vloop: asleep, or with sem_fish at f, with its lf
    main,        \* fishmain: in recv, or in the middle of dofish or newfish
    net,         \* packets on their way
    wild,        \* cnxn[f->dest] was written with a dest nobody had set
    fate,        \* what became of each fish: kept, unless it was purged or lost
    doubled,     \* the fish whose SYNC was received twice
    skewed,      \* tanks where purge left fish in XMIT, or the walk lost one
    odd          \* commands, and packets received twice, so far

fishVars == <<my, ticks, cnxn, fishes, count, alone, walk, main, net, wild, fate, doubled, skewed, odd>>

Beside(spot, d) ==
    CASE d = "UP" -> <<spot[1], spot[2] - 1>>
      [] d = "DN" -> <<spot[1], spot[2] + 1>>
      [] d = "LF" -> <<spot[1] - 1, spot[2]>>
      [] d = "RT" -> <<spot[1] + 1, spot[2]>>

\* newfish.  The uid is the tank and the tick, so fish of one tick share it; dest is
\* what malloc left there.
NewFish(id, uid) ==
    [id |-> id, uid |-> uid, state |-> "LIVE", xt |-> 0, dest |-> "unset", held |-> FALSE]

Packet(type, from, to, uid, id) ==
    [type |-> type, from |-> from, to |-> to, uid |-> uid, fish |-> id, seen |-> FALSE]

Uid(spot, time) == [tank |-> spot, time |-> time]
UidType == [tank : Int \X Int, time : Nat]
NoUid == Uid(<<0, 0>>, 0)

Asleep == [pc |-> "sleep", f |-> 1, lf |-> 0]
InRecv == [pc |-> "recv", fish |-> NoFish, uid |-> NoUid, peer |-> <<0, 0>>, welcome |-> FALSE, freed |-> FALSE]

\* prep: nobody is known to live beside, and all four are pinged.
Unknown(spot) == [d \in Dir |-> [live |-> FALSE, to |-> Beside(spot, d)]]
\* A packet to a spot where no tank can be is left out: nobody takes it.
Heard == {FirstAt[k] : k \in Tank} \cup Moves
Pings(spot, to) == {Packet("PING", spot, to[d].to, NoUid, NoFish) : d \in {e \in Dir : to[e].to \in Heard}}

FishInit ==
    /\ my = FirstAt /\ ticks = [k \in Tank |-> 0]
    /\ cnxn = [k \in Tank |-> Unknown(my[k])]
    /\ fishes = [k \in Tank |-> [i \in DOMAIN Born[k] |->
                  NewFish(Born[k][Len(Born[k]) + 1 - i], Uid(<<2, 2>>, 0))]]
    /\ count = [k \in Tank |-> Len(Born[k])]
    /\ alone = [k \in Tank |-> [sticky |-> FALSE, recluse |-> FALSE]]
    /\ walk = [k \in Tank |-> Asleep] /\ main = [k \in Tank |-> InRecv]
    /\ net = UNION {Pings(my[k], cnxn[k]) : k \in Tank}
    /\ wild = FALSE
    /\ fate = [x \in Fish |-> IF \E k \in Tank : \E i \in DOMAIN Born[k] : Born[k][i] = x
                              THEN "kept" ELSE "unborn"]
    /\ doubled = {} /\ skewed = {} /\ odd = 0

-----------------------------------------------------------------------------
(* vloop: between Tick and WalkEnd it has sem_fish.                         *)

Locked(k) == walk[k].pc = "walk"

Tick(k) ==
    /\ ~Locked(k) /\ ticks[k] < MaxTicks[k]
    /\ ticks' = [ticks EXCEPT ![k] = @ + 1]
    /\ IF (ticks[k] + 1) % PING_EVERY = 0
       THEN /\ cnxn' = [cnxn EXCEPT ![k] = [d \in Dir |-> [cnxn[k][d] EXCEPT !.live = FALSE]]]
            /\ net' = net \cup Pings(my[k], cnxn[k])
       ELSE UNCHANGED <<cnxn, net>>
    /\ walk' = [walk EXCEPT ![k] = [pc |-> "walk", f |-> 1, lf |-> 0]]
    /\ UNCHANGED <<my, fishes, count, alone, main, wild, fate, doubled, skewed, odd>>

WalkAt(k) == Locked(k) /\ walk[k].f \in DOMAIN fishes[k]

\* The dead fish f is taken out: lf goes on with what is behind f, and so does without
\* any fish between them.
Expire(k) ==
    LET f == walk[k].f
        lf == walk[k].lf
        left == {i \in (lf + 1)..(f - 1) : fishes[k][i].state # "DEAD"}
    IN  /\ WalkAt(k) /\ fishes[k][f].state = "DEAD" /\ lf # 0
        /\ fishes' = [fishes EXCEPT ![k] = SubSeq(@, 1, lf) \o SubSeq(@, f + 1, Len(@))]
        /\ walk' = [walk EXCEPT ![k].f = lf + 1]
        /\ main' = [main EXCEPT ![k].freed = @ \/ fishes[k][f].held]
        /\ fate' = [x \in Fish |-> IF \E i \in left : fishes[k][i].id = x THEN "left out" ELSE fate[x]]
        /\ skewed' = IF left # {} THEN skewed \cup {k} ELSE skewed
        /\ UNCHANGED <<my, ticks, cnxn, count, alone, net, wild, doubled, odd>>

\* Where a fish beyond the edges out goes: left and right come first.
Way(c, out) ==
    LET open == {d \in out : c[d].live}
        aside == open \cap {"LF", "RT"}
    IN  IF aside # {} THEN CHOOSE d \in aside : TRUE
        ELSE IF open # {} THEN CHOOSE d \in open : TRUE ELSE "none"

Edges == {out \in SUBSET Dir : ~{"LF", "RT"} \subseteq out /\ ~{"UP", "DN"} \subseteq out}

\* sendfish
Shipped(o, now) == [o EXCEPT !.state = "XMIT", !.xt = now + TIMEOUT]
SendFish(k, o, to) == Packet("SEND", my[k], to, o.uid, o.id)

Late(k, o) == o.state = "XMIT" /\ ticks[k] > o.xt

\* One fish of the walk: its transfer may have timed out, it may swim on, or cross an
\* edge where a neighbour lives.  After a crossing lf stays where it was.
Visit(k) ==
    LET f == walk[k].f
        o == fishes[k][f]
        late == Late(k, o)
        here == IF late THEN [o EXCEPT !.state = "LIVE"] ELSE o
        c == [d \in Dir |-> IF late /\ d = o.dest THEN [cnxn[k][d] EXCEPT !.live = FALSE] ELSE cnxn[k][d]]
        goes == ~alone[k].sticky /\ ~alone[k].recluse
    IN  /\ WalkAt(k) /\ ~(o.state = "DEAD" /\ walk[k].lf # 0)
        /\ cnxn' = [cnxn EXCEPT ![k] = c]
        /\ wild' = (wild \/ (late /\ o.dest = "unset"))
        /\ \E out \in IF here.state = "LIVE" THEN Edges ELSE {{}} :
             LET way == Way(c, out)
             IN  /\ fishes' = [fishes EXCEPT ![k][f] =
                        IF way # "none" /\ goes THEN [Shipped(here, ticks[k]) EXCEPT !.dest = way] ELSE here]
                 /\ net' = IF way # "none" /\ goes THEN net \cup {SendFish(k, here, c[way].to)} ELSE net
                 /\ walk' = [walk EXCEPT ![k].f = f + 1, ![k].lf = IF way # "none" THEN @ ELSE f]
        /\ UNCHANGED <<my, ticks, count, alone, main, fate, doubled, skewed, odd>>

WalkEnd(k) ==
    /\ Locked(k) /\ walk[k].f \notin DOMAIN fishes[k]
    /\ walk' = [walk EXCEPT ![k] = Asleep]
    /\ UNCHANGED <<my, ticks, cnxn, fishes, count, alone, main, net, wild, fate, doubled, skewed, odd>>

-----------------------------------------------------------------------------
(* fishmain: dofish.  A packet for another tank is dropped.                 *)

Hears(k, p, twice) ==
    /\ main[k].pc = "recv" /\ p \in net /\ p.to = my[k]
    /\ twice => p.type \notin {"PING", "PONG"} /\ ~p.seen /\ odd < MaxOdd
    /\ odd' = odd + (IF twice THEN 1 ELSE 0)

\* The net after p was received, for the only time or for the first of two.
Received(p, twice) == (net \ {p}) \cup (IF twice THEN {[p EXCEPT !.seen = TRUE]} ELSE {})

settank(c, from) == [d \in Dir |-> IF c[d].to = from THEN [c[d] EXCEPT !.live = TRUE] ELSE c[d]]

DoPing(k, p, twice) ==
    /\ Hears(k, p, twice) /\ p.type = "PING"
    /\ net' = Received(p, twice) \cup {Packet("PONG", my[k], p.from, NoUid, NoFish)}
    /\ cnxn' = [cnxn EXCEPT ![k] = settank(@, p.from)]
    /\ UNCHANGED <<my, ticks, fishes, count, alone, walk, main, wild, fate, doubled, skewed>>

DoPong(k, p, twice) ==
    /\ Hears(k, p, twice) /\ p.type = "PONG"
    /\ net' = Received(p, twice)
    /\ cnxn' = [cnxn EXCEPT ![k] = settank(@, p.from)]
    /\ UNCHANGED <<my, ticks, fishes, count, alone, walk, main, wild, fate, doubled, skewed>>

\* The fish is not taken in yet: only asked for.
DoSend(k, p, twice) ==
    /\ Hears(k, p, twice) /\ p.type = "SEND"
    /\ net' = Received(p, twice) \cup
                 (IF alone[k].recluse THEN {} ELSE {Packet("ACK", my[k], p.from, p.uid, NoFish)})
    /\ UNCHANGED <<my, ticks, cnxn, fishes, count, alone, walk, main, wild, fate, doubled, skewed>>

\* Slip: the fish that was asked for, whatever it does by now.
InTransferAny(k, uid) == {i \in DOMAIN fishes[k] : fishes[k][i].uid = uid}

\* The first fish on its way with that uid is dead here.
InTransfer(k, uid) == {i \in DOMAIN fishes[k] : fishes[k][i].state = "XMIT" /\ fishes[k][i].uid = uid}

DoAck(k, p, twice) ==
    LET on == InTransfer(k, p.uid)
    IN  /\ Hears(k, p, twice) /\ p.type = "ACK" /\ ~Locked(k)
        /\ net' = Received(p, twice)
        /\ IF on = {} THEN UNCHANGED <<fishes, count, main>>
           ELSE \E i \in on :
                  /\ \A j \in on : i <= j
                  /\ fishes' = [fishes EXCEPT ![k][i].state = "DEAD", ![k][i].held = TRUE]
                  /\ count' = [count EXCEPT ![k] = @ - 1]
                  /\ main' = [main EXCEPT ![k] = [InRecv EXCEPT !.pc = "sync", !.fish = fishes[k][i].id,
                                                     !.uid = p.uid, !.peer = p.from]]
        /\ UNCHANGED <<my, ticks, cnxn, alone, walk, wild, fate, doubled, skewed>>

\* The SYNC is read from the dead fish after sem_fish was released: vloop may have
\* freed it.
SendSync(k) ==
    LET r == main[k]
    IN  /\ r.pc = "sync"
        /\ \E x \in IF r.freed THEN {r.fish, Rubbish} ELSE {r.fish} :
             /\ net' = net \cup {Packet("SYNC", my[k], r.peer, r.uid, x)}
             /\ fate' = IF x = r.fish THEN fate ELSE [y \in Fish |-> IF y = r.fish THEN "freed" ELSE fate[y]]
        /\ fishes' = [fishes EXCEPT ![k] = [i \in DOMAIN @ |-> [@[i] EXCEPT !.held = FALSE]]]
        /\ main' = [main EXCEPT ![k] = InRecv]
        /\ UNCHANGED <<my, ticks, cnxn, count, alone, walk, wild, doubled, skewed, odd>>

DoSync(k, p, twice) ==
    /\ Hears(k, p, twice) /\ p.type = "SYNC"
    /\ net' = Received(p, twice)
    /\ doubled' = IF p.seen THEN doubled \cup {p.fish} ELSE doubled
    /\ main' = [main EXCEPT ![k] = [InRecv EXCEPT !.pc = "insert", !.fish = p.fish,
                                       !.uid = Uid(my[k], ticks[k]), !.peer = p.from, !.welcome = TRUE]]
    /\ UNCHANGED <<my, ticks, cnxn, fishes, count, alone, walk, wild, fate, skewed>>

\* The rest of newfish, which takes sem_fish for it; and what dofish does then.
Newfish(k) ==
    LET r == main[k]
    IN  /\ r.pc = "insert" /\ ~Locked(k)
        /\ fishes' = [fishes EXCEPT ![k] = <<NewFish(r.fish, r.uid)>> \o @]
        /\ count' = [count EXCEPT ![k] = @ + 1]
        /\ cnxn' = IF r.welcome THEN [cnxn EXCEPT ![k] = settank(@, r.peer)] ELSE cnxn
        /\ main' = [main EXCEPT ![k] = InRecv]
        /\ UNCHANGED <<my, ticks, alone, walk, net, wild, fate, doubled, skewed, odd>>

-----------------------------------------------------------------------------
(* fishmain: command, of a program that sends a line to fish:tell.          *)

Commanded(k) == main[k].pc = "recv" /\ odd < MaxOdd /\ odd' = odd + 1

Relocate(k) ==
    /\ Commanded(k)
    /\ \E spot \in Moves :
         /\ my' = [my EXCEPT ![k] = spot]
         /\ cnxn' = [cnxn EXCEPT ![k] = Unknown(spot)]
         /\ net' = net \cup Pings(spot, Unknown(spot))
    /\ UNCHANGED <<ticks, fishes, count, alone, walk, main, wild, fate, doubled, skewed>>

Sticky(k) ==
    /\ Commanded(k) /\ alone' = [alone EXCEPT ![k].sticky = ~@]
    /\ UNCHANGED <<my, ticks, cnxn, fishes, count, walk, main, net, wild, fate, doubled, skewed>>

Recluse(k) ==
    /\ Commanded(k) /\ alone' = [alone EXCEPT ![k].recluse = ~@]
    /\ UNCHANGED <<my, ticks, cnxn, fishes, count, walk, main, net, wild, fate, doubled, skewed>>

\* st_count = 0, whatever is in XMIT.
Purge(k) ==
    LET lives == {i \in DOMAIN fishes[k] : fishes[k][i].state = "LIVE"}
    IN  /\ Commanded(k) /\ ~Locked(k)
        /\ fishes' = [fishes EXCEPT ![k] = [i \in DOMAIN @ |->
                       IF i \in lives THEN [@[i] EXCEPT !.state = "DEAD"] ELSE @[i]]]
        /\ count' = [count EXCEPT ![k] = 0]
        /\ fate' = [x \in Fish |-> IF \E i \in lives : fishes[k][i].id = x THEN "purged" ELSE fate[x]]
        /\ skewed' = IF k \in skewed \/ \E i \in DOMAIN fishes[k] : fishes[k][i].state = "XMIT"
                     THEN skewed \cup {k} ELSE skewed
        /\ UNCHANGED <<my, ticks, cnxn, alone, walk, main, net, wild, doubled>>

\* All fish go to the first neighbour that lives; their dest is not set.
Order == <<"UP", "DN", "LF", "RT">>
FirstLive(c) == Order[Min({i \in 1..4 : c[Order[i]].live})]

Eject(k) ==
    LET c == cnxn[k]
        to == c[FirstLive(c)].to
        lives == {i \in DOMAIN fishes[k] : fishes[k][i].state = "LIVE"}
    IN  /\ Commanded(k) /\ ~Locked(k) /\ \E d \in Dir : c[d].live
        /\ fishes' = [fishes EXCEPT ![k] = [i \in DOMAIN @ |->
                       IF i \in lives THEN Shipped(@[i], ticks[k]) ELSE @[i]]]
        /\ net' = net \cup {SendFish(k, fishes[k][i], to) : i \in lives}
        /\ UNCHANGED <<my, ticks, cnxn, count, alone, walk, main, wild, fate, doubled, skewed>>

New(k) ==
    /\ Commanded(k)
    /\ \E x \in Fish :
         /\ fate[x] = "unborn" /\ fate' = [fate EXCEPT ![x] = "kept"]
         /\ main' = [main EXCEPT ![k] = [InRecv EXCEPT !.pc = "insert", !.fish = x,
                                            !.uid = Uid(my[k], ticks[k])]]
    /\ UNCHANGED <<my, ticks, cnxn, fishes, count, alone, walk, net, wild, doubled, skewed>>

-----------------------------------------------------------------------------
\* A SYNC is lost.  Any other packet that is lost is as one that is never received.
LoseSync(p) ==
    /\ p \in net /\ p.type = "SYNC" /\ net' = net \ {p}
    /\ fate' = IF p.seen THEN fate ELSE [x \in Fish |-> IF x = p.fish THEN "lost" ELSE fate[x]]
    /\ UNCHANGED <<my, ticks, cnxn, fishes, count, alone, walk, main, wild, doubled, skewed, odd>>

FishNext == ~wild /\
    \/ \E k \in Tank : Tick(k) \/ Expire(k) \/ Visit(k) \/ WalkEnd(k) \/ SendSync(k) \/ Newfish(k)
    \/ \E k \in Tank : Relocate(k) \/ Sticky(k) \/ Recluse(k) \/ Purge(k) \/ Eject(k) \/ New(k)
    \/ \E k \in Tank, p \in net, twice \in BOOLEAN :
         DoPing(k, p, twice) \/ DoPong(k, p, twice) \/ DoSend(k, p, twice) \/ DoAck(k, p, twice)
           \/ DoSync(k, p, twice)
    \/ \E p \in net : LoseSync(p)

FishSpec == FishInit /\ [][FishNext]_fishVars
-----------------------------------------------------------------------------
\* The fish of a tank, those on their way to another one included.
Swimming(k) == {i \in DOMAIN fishes[k] : fishes[k][i].state # "DEAD"}

\* Where fish x is: in a tank, in the hands of its fishmain, or in a SYNC that nobody
\* received.
Where(x) ==
    (UNION {{<<"tank", k, i>> : i \in {j \in Swimming(k) : fishes[k][j].id = x}} : k \in Tank})
    \cup {<<"hand", k>> : k \in {l \in Tank : main[l].pc # "recv" /\ main[l].fish = x}}
    \cup {<<"sync", p>> : p \in {q \in net : q.type = "SYNC" /\ q.fish = x /\ ~q.seen}}

FishTypeOK ==
    /\ my \in [Tank -> Int \X Int] /\ ticks \in [Tank -> Nat] /\ count \in [Tank -> Int]
    /\ cnxn \in [Tank -> [Dir -> [live : BOOLEAN, to : Int \X Int]]]
    /\ fishes \in [Tank -> Seq([id : Fish \cup {Rubbish}, uid : UidType, state : {"DEAD", "LIVE", "XMIT"},
                             xt : Nat, dest : Dir \cup {"unset"}, held : BOOLEAN])]
    /\ walk \in [Tank -> [pc : {"sleep", "walk"}, f : Nat, lf : Nat]]
    /\ main \in [Tank -> [pc : {"recv", "sync", "insert"}, fish : Fish \cup {Rubbish, NoFish}, uid : UidType,
                          peer : Int \X Int, welcome : BOOLEAN, freed : BOOLEAN]]
    /\ net \subseteq [type : {"PING", "PONG", "SEND", "ACK", "SYNC"}, from : Int \X Int, to : Int \X Int,
                      uid : UidType, fish : Fish \cup {Rubbish, NoFish}, seen : BOOLEAN]
    /\ fate \in [Fish -> {"unborn", "kept", "purged", "lost", "freed", "left out"}]
    /\ doubled \subseteq Fish \cup {Rubbish} /\ skewed \subseteq Tank

\* Whatever is lost, late or received twice, whatever times out and is sent again: a
\* fish is in one spot.  It is gone only when it was purged, when its SYNC was lost
\* (nothing answers a SYNC, and its tank has forgotten it), when vloop freed it before
\* dofish had read it, or left it out with a dead fish behind it; and it is in two
\* places only when its SYNC was received twice (dofish, vloop).
FishKept ==
    \A x \in Fish \ doubled : /\ \A a, b \in Where(x) : a = b
                              /\ fate[x] = "kept" <=> Where(x) # {}

\* `stats' tells how many fish swim, unless purge or the walk took some out uncounted
\* (st_count of newfish, dofish and command).
CountKept == \A k \in Tank \ skewed : count[k] = Cardinality(Swimming(k))

\* Fish change tanks over the network, and each is counted where it is.
FishSwim == FishTypeOK /\ FishKept /\ CountKept
=============================================================================
