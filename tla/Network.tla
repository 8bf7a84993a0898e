------------------------------ MODULE Network ------------------------------
(***************************************************************************)
(* The network server srv/network: its commands load modules (with the      *)
(* dynamic loader of libdl) and bring up a card; then the thread of the     *)
(* card's interrupt makes mbufs of frames, and the thread of eth hands      *)
(* them to arp, which answers through the driver.  The memory of the mbufs  *)
(* is kept word by word where pointers are: m_data of a header points past  *)
(* its mbuf, to m_next of its neighbour.                                    *)
(***************************************************************************)
EXTENDS Integers, Sequences, FiniteSets, FiniteSetsExt, SequencesExt

CONSTANTS
    Pools,        \* how many mbufs mbinit makes, one of these; the code has 32
    NE_LOAD,      \* MAX_LOAD of this driver
    CardRoom,     \* frames the card's ring holds
    MaxEthFrames, \* bound: frames the card stores
    Scripts       \* what is told to the server, each a sequence of commands

VARIABLES
    tell,         \* the commands: those left, all of them, and whether one does not end
    dl,           \* file, modlist, which ipv4 the arp sees, and which have an address
    mb,           \* the mbufs: m_next, m_nextpkt and m_data's content, and free_mbuf
    ethq,         \* eth_input_queue and the count of eth_input_length_sem
    ne,           \* snic: tx_packet[] (all are pbuf), its page, send, sending
    board,        \* the card
    neMutex,      \* who has the card's mutex
    ei, ip,       \* the thread of the interrupt, and eth_input_thread
    past,         \* what happened
    down          \* what the server died of, or ""

networkVars == <<tell, dl, mb, ethq, ne, board, neMutex, ei, ip, past, down>>

Dev == -1
TxSlot == 0..1
Rc == << [cmd |-> "load", arg |-> "eth"], [cmd |-> "load", arg |-> "ipv4"],
         [cmd |-> "load", arg |-> "arp"], [cmd |-> "load", arg |-> "ne"],
         [cmd |-> "probe", arg |-> "ne"],
         [cmd |-> "config", arg |-> "ne", digits |-> 1, prot |-> "ipv4"] >>

NMb == Max(Pools)
\* mbinit: each mbuf is put before the one made before it.
MbInit(n) == [next |-> [i \in 1..NMb |-> i - 1], pkt |-> [i \in 1..NMb |-> 0],
              body |-> [i \in 1..NMb |-> 0], free |-> n]

\* nic_init.
NeInit == [packet |-> [f \in TxSlot |-> FALSE], page |-> 0, send |-> 0, sending |-> FALSE]

NetworkInit ==
    /\ \E s \in Scripts : tell = [left |-> s, all |-> s, stuck |-> FALSE]
    /\ dl = [n |-> 0, file |-> <<>>, modlist |-> <<>>, arp |-> 0, iflist |-> {}]
    /\ \E n \in Pools : mb = MbInit(n)
    /\ ethq = [head |-> 0, count |-> 0]
    /\ ne = NeInit
    /\ board = [isr |-> {}, ring |-> <<>>, on |-> FALSE, sends |-> -1, mem |-> [f \in TxSlot |-> 0]]
    /\ neMutex = ""
    /\ ei = [pc |-> "none", got |-> {}, load |-> 0, m |-> 0, h |-> 0]
    /\ ip = [pc |-> "none", h |-> 0, dev |-> 0, rh |-> 0, r |-> 0]
    /\ past = [stored |-> 0, mine |-> {}, handed |-> 0, asked |-> <<>>, sent |-> <<>>,
               crossed |-> FALSE, shed |-> FALSE]
    /\ down = ""

Dies(why) == down' = why /\ UNCHANGED <<tell, dl, mb, ethq, ne, board, neMutex, ei, ip, past>>

-----------------------------------------------------------------------------
\* The loader.  What a module needs of others, and what its _init returns.
NeedsOf(m) == CASE m = "arp" -> {"eth", "ipv4"} [] m = "ne" -> {"eth"} [] OTHER -> {}
InitOf(m) == IF m \in {"eth", "ipv4"} THEN 1 ELSE 0

\* __dl_patch_section: the first library in the list that has the symbol.
Having(x) == {i \in DOMAIN dl.file : dl.file[i].mod = x}
PatchUp(m) == \A x \in NeedsOf(m) : Having(x) # {}
Bound(x) == dl.file[Min(Having(x))].inst

\* Slip: a library is listed when its _init returns 0.
DlListedZero(m) == IF InitOf(m) = 0 THEN Append(dl.file, [mod |-> m, inst |-> dl.n + 1]) ELSE dl.file

\* _dlopen lists a library for others only when its _init returns something else than 0.
DlListed(m) == IF InitOf(m) # 0 THEN Append(dl.file, [mod |-> m, inst |-> dl.n + 1]) ELSE dl.file

\* network_cmd: load.
Load(m) ==
    IF ~PatchUp(m) THEN UNCHANGED <<dl, ip>>
    ELSE /\ dl' = [dl EXCEPT !.n = @ + 1, !.file = DlListed(m),
                             !.modlist = <<[mod |-> m, inst |-> dl.n + 1]>> \o @,
                             !.arp = IF m = "arp" THEN Bound("ipv4") ELSE @]
         /\ ip' = IF m = "eth" /\ ip.pc = "none" THEN [ip EXCEPT !.pc = "wait"] ELSE ip

ModNamed(x) == {i \in DOMAIN dl.modlist : dl.modlist[i].mod = x}

\* dlsym: probe and config are functions of ne only.
DlSym(m) == m = "ne"

\* Slip: the search does not go on past a module of another name.
StuckAtFirst(c) == ModNamed(c.arg) # {} /\ (~DlSym(c.arg) \/ Min(ModNamed(c.arg)) # 1)

\* The search stays at a module of this name that has no such function.
StuckAt(c) == ModNamed(c.arg) # {} /\ ~DlSym(c.arg)

\* nic_start: the card stores frames and raises interrupts.
NeStart == [board EXCEPT !.on = TRUE]
\* probe of the driver, and its thread for the interrupt.
Probe ==
    /\ board' = NeStart
    /\ ei' = [ei EXCEPT !.pc = "sleep"]

\* ipv4_config_up of that copy of ipv4.
Ipv4ConfigUp(inst) == [dl EXCEPT !.iflist = @ \cup {inst}]
\* config of the driver and eth_config: up or down, both bring the address up.
Config(prot) ==
    dl' = IF prot = "ipv4" /\ ModNamed(prot) # {}
          THEN Ipv4ConfigUp(dl.modlist[Min(ModNamed(prot))].inst) ELSE dl

\* network_tell and network_cmd, one command.  A device number of two digits is
\* never read to its end.  The server probes once.
NetworkTell ==
    LET c == Head(tell.left)
        stuck == c.cmd # "load" /\ (StuckAt(c) \/ (c.cmd = "config" /\ c.digits > 1))
        here == ~stuck /\ ModNamed(c.arg) # {}
    IN  /\ tell.left # <<>> /\ ~tell.stuck
        /\ IF here /\ c.cmd = "config" /\ ei.pc = "none" THEN Dies("no device")
           ELSE /\ tell' = IF stuck THEN [tell EXCEPT !.stuck = TRUE] ELSE [tell EXCEPT !.left = Tail(@)]
                /\ IF c.cmd = "load" THEN Load(c.arg) /\ UNCHANGED <<board, ei>>
                   ELSE IF here /\ c.cmd = "probe" /\ ei.pc = "none" THEN Probe /\ UNCHANGED <<dl, ip>>
                   ELSE IF here /\ c.cmd = "config" THEN Config(c.prot) /\ UNCHANGED <<board, ei, ip>>
                   ELSE UNCHANGED <<dl, ip, board, ei>>
                /\ UNCHANGED <<mb, ethq, ne, neMutex, past, down>>

-----------------------------------------------------------------------------
\* The card: it stores a frame, an ARP request for us or another one, and ends sending.
BoardStores(mine) ==
    /\ board.on /\ past.stored < MaxEthFrames
    /\ IF Len(board.ring) = CardRoom
       THEN board' = [board EXCEPT !.isr = @ \cup {"OVW"}, !.on = FALSE] /\ UNCHANGED past
       ELSE /\ board' = [board EXCEPT !.isr = @ \cup {"PRX"}, !.ring = Append(@, past.stored + 1)]
            /\ past' = [past EXCEPT !.stored = @ + 1,
                          !.mine = IF mine THEN @ \cup {past.stored + 1} ELSE @]
    /\ UNCHANGED <<tell, dl, mb, ethq, ne, neMutex, ei, ip, down>>

BoardEnds(event) ==
    /\ board.sends # -1
    /\ board' = [board EXCEPT !.sends = -1, !.isr = @ \cup {event}]
    /\ UNCHANGED <<tell, dl, mb, ethq, ne, neMutex, ei, ip, past, down>>

-----------------------------------------------------------------------------
\* mget, with free_mbuf_sem; without an mbuf it writes to address 0.  Its last step,
\* m_next = NULL, comes after the semaphore and is part of the next action here.
\* Slip: the head of the list stays.
MgetKept == mb.free
Mget == mb.next[mb.free]

\* isr and nic_isr.
EnGoes(pc) == ei' = [ei EXCEPT !.pc = pc]

EnWake ==
    /\ ei.pc = "sleep" /\ board.isr # {}
    /\ EnGoes("lock")
    /\ UNCHANGED <<tell, dl, mb, ethq, ne, board, neMutex, ip, past, down>>

EnLock ==
    /\ ei.pc = "lock" /\ neMutex = ""
    /\ neMutex' = "ei"
    /\ ei' = [ei EXCEPT !.pc = "read", !.load = NE_LOAD + 1]
    /\ UNCHANGED <<tell, dl, mb, ethq, ne, board, ip, past, down>>

\* After NE_LOAD rounds all that the card says is acknowledged unread.  nic_overrun
\* stops the card until the ring is read.
EnRead ==
    /\ ei.pc = "read"
    /\ IF board.isr = {} \/ ei.load = 1
       THEN /\ ei' = [ei EXCEPT !.pc = "unlock", !.got = {}]
            /\ board' = [board EXCEPT !.isr = {}]
            /\ past' = [past EXCEPT !.shed = @ \/ board.isr # {}]
       ELSE /\ ei' = [ei EXCEPT !.load = @ - 1, !.got = board.isr,
                 !.pc = IF board.isr \cap {"OVW", "PRX"} = {} THEN "tx" ELSE "rx"]
            /\ board' = [board EXCEPT !.on = @ /\ "OVW" \notin board.isr]
            /\ UNCHANGED past
    /\ UNCHANGED <<tell, dl, mb, ethq, ne, neMutex, ip, down>>

\* nic_block_input: the frame that is next in the ring.
NeBlockInput == Head(board.ring)

\* nic_rx and receive: an mbuf for the frame,
EnTake ==
    /\ ei.pc = "rx" /\ board.ring # <<>>
    /\ IF mb.free = 0 THEN Dies("no mbuf")
       ELSE /\ ei' = [ei EXCEPT !.pc = "header", !.m = mb.free]
            /\ mb' = [mb EXCEPT !.free = Mget]
            /\ UNCHANGED <<tell, dl, ethq, ne, board, neMutex, ip, past, down>>

\* the copy of the frame, and another mbuf for the header,
EnHeader ==
    /\ ei.pc = "header"
    /\ IF mb.free = 0 THEN Dies("no mbuf")
       ELSE /\ ei' = [ei EXCEPT !.pc = "device", !.h = mb.free]
            /\ mb' = [mb EXCEPT !.free = Mget, !.next[ei.m] = 0,
                                !.body[ei.m] = NeBlockInput]
            /\ UNCHANGED <<tell, dl, ethq, ne, board, neMutex, ip, past, down>>

\* Slip: the device is not written.
EnNoDevice ==
    /\ ei.pc = "device"
    /\ mb' = [mb EXCEPT !.next[ei.h] = ei.m]
    /\ past' = [past EXCEPT !.crossed = @ \/ ei.h + 1 # ei.m]
    /\ EnGoes("queue")
    /\ UNCHANGED <<tell, dl, ethq, ne, board, neMutex, ip, down>>

\* and the device where m_data of the header points to: the mbuf after it, which is
\* that of the frame unless the other thread took one in between.
EnDevice ==
    /\ ei.pc = "device"
    /\ mb' = [mb EXCEPT !.next = [@ EXCEPT ![ei.h] = ei.m, ![ei.h + 1] = Dev]]
    /\ past' = [past EXCEPT !.crossed = @ \/ ei.h + 1 # ei.m]
    /\ EnGoes("queue")
    /\ UNCHANGED <<tell, dl, ethq, ne, board, neMutex, ip, down>>

\* The queue n mbufs from q on, or 0 past its end.
Follow[q \in 0..NMb, n \in 0..MaxEthFrames] ==
    IF n = 0 \/ q = 0 THEN q ELSE Follow[mb.pkt[q], n - 1]
\* Slip: the new packet is put after the first.
EthSecond(h) == [mb.pkt EXCEPT ![ethq.head] = h]

\* What appending does to m_nextpkt.
EthAppend(h) == [mb.pkt EXCEPT ![Follow[ethq.head, ethq.count - 1]] = h]

\* eth_input, with its lock, and the boundary's move past the frame.
EthInput ==
    /\ ei.pc = "queue"
    /\ ethq' = [head |-> IF ethq.head = 0 THEN ei.h ELSE ethq.head, count |-> ethq.count + 1]
    /\ mb' = [mb EXCEPT !.pkt = IF ethq.head = 0 THEN [@ EXCEPT ![ei.h] = 0] ELSE EthAppend(ei.h)]
    /\ board' = [board EXCEPT !.ring = Tail(@)]
    /\ EnGoes("rx")
    /\ UNCHANGED <<tell, dl, ne, neMutex, ip, past, down>>

EnAck ==
    /\ ei.pc = "rx" /\ board.ring = <<>>
    /\ EnGoes("ack")
    /\ UNCHANGED <<tell, dl, mb, ethq, ne, board, neMutex, ip, past, down>>

EnAcked ==
    /\ ei.pc = "ack"
    /\ board' = [board EXCEPT !.isr = @ \ ({"PRX"} \cup (ei.got \cap {"OVW"})),
                            !.on = @ \/ "OVW" \in ei.got]
    /\ EnGoes("tx")
    /\ UNCHANGED <<tell, dl, mb, ethq, ne, neMutex, ip, past, down>>

\* nic_send: the card sends what is at the page that pbuf says.
NeSend(b, page) == [b EXCEPT !.sends = page]

\* Slip: the place is free only after the next packet is looked for.
TxFreedLate == {f \in TxSlot : ne.packet[f]}

\* nic_tx: the packets that are left when one was sent.
TxLeft == {f \in TxSlot : f # ne.send /\ ne.packet[f]}

\* nic_tx, also of nic_tx_err (it tests the command register).  free_buffer gives
\* pbuf to free, a variable that malloc never made: the heap may break.
EnTx ==
    LET ended == ei.got \cap {"PTX", "TXE"}
        more  == TxLeft
    IN  /\ ei.pc = "tx"
        /\ \/ /\ ended # {} /\ ne.packet[ne.send]
              /\ Dies("heap")
           \/ /\ EnGoes("read")
              /\ IF ended = {} \/ ~ne.packet[ne.send] THEN UNCHANGED <<board, ne, past>>
                 ELSE /\ ne' = [ne EXCEPT !.packet[ne.send] = FALSE, !.sending = more # {},
                                          !.send = IF more = {} THEN @ ELSE Min(more)]
                      /\ board' = LET b == [board EXCEPT !.isr = @ \ (ended \cup {"PTX"})]
                                  IN  IF more = {} THEN b ELSE NeSend(b, ne.page)
                      /\ past' = IF more = {} THEN past
                                 ELSE [past EXCEPT !.sent = Append(@, board.mem[ne.page])]
              /\ UNCHANGED <<tell, dl, mb, ethq, neMutex, ip, down>>

EnUnlock ==
    /\ ei.pc = "unlock"
    /\ neMutex' = ""
    /\ EnGoes("sleep")
    /\ UNCHANGED <<tell, dl, mb, ethq, ne, board, ip, past, down>>

-----------------------------------------------------------------------------
\* eth_input_thread and arp_input.
InGoes(pc) == ip' = [ip EXCEPT !.pc = pc]
FrameOf(h) == mb.body[mb.next[h]]

InDequeue ==
    /\ ip.pc = "wait" /\ ethq.count > 0
    /\ ip' = [ip EXCEPT !.pc = "frame", !.h = ethq.head]
    /\ ethq' = [head |-> mb.pkt[ethq.head], count |-> ethq.count - 1]
    /\ past' = [past EXCEPT !.handed = FrameOf(ethq.head)]
    /\ UNCHANGED <<tell, dl, mb, ne, board, neMutex, ei, down>>

\* A frame that no protocol wants, or no address, is dropped with its mbufs.
ArpInput ==
    /\ ip.pc = "frame"
    /\ IF dl.arp \notin dl.iflist \/ FrameOf(ip.h) \notin past.mine
       THEN InGoes("wait") /\ UNCHANGED <<tell, dl, mb, ethq, ne, board, neMutex, ei, past, down>>
       ELSE IF mb.free = 0 THEN Dies("no mbuf")
       ELSE /\ ip' = [ip EXCEPT !.pc = "reply", !.dev = mb.next[ip.h + 1], !.rh = mb.free]
            /\ mb' = [mb EXCEPT !.free = Mget]
            /\ UNCHANGED <<tell, dl, ethq, ne, board, neMutex, ei, past, down>>

ArpTake ==
    /\ ip.pc = "reply"
    /\ IF mb.free = 0 THEN Dies("no mbuf")
       ELSE /\ ip' = [ip EXCEPT !.pc = "link", !.r = mb.free]
            /\ mb' = [mb EXCEPT !.free = Mget, !.next[ip.rh] = 0]
            /\ UNCHANGED <<tell, dl, ethq, ne, board, neMutex, ei, past, down>>

ArpReply ==
    /\ ip.pc = "link"
    /\ mb' = [mb EXCEPT !.next = [@ EXCEPT ![ip.r] = 0, ![ip.rh] = ip.r],
                        !.body[ip.r] = FrameOf(ip.h)]
    /\ InGoes("send")
    /\ UNCHANGED <<tell, dl, ethq, ne, board, neMutex, ei, past, down>>

\* dev->dev_driver->output, which is send; it copies the reply before it takes the mutex.
DrvSend ==
    /\ ip.pc = "send"
    /\ IF ip.dev # Dev \/ mb.next[ip.rh] # ip.r THEN Dies("stray")
       ELSE /\ InGoes("lock")
            /\ UNCHANGED <<tell, dl, mb, ethq, ne, board, neMutex, ei, past, down>>

DrvLock ==
    /\ ip.pc = "lock" /\ neMutex = ""
    /\ neMutex' = "ip"
    /\ InGoes("out")
    /\ UNCHANGED <<tell, dl, mb, ethq, ne, board, ei, past, down>>

\* nic_block_output: the reply goes to the place f of the card's memory.
NeBlockOutput(f, reply) == [board EXCEPT !.mem[f] = reply]

\* nic_send_packet.  When both places are taken it waits in
\* vain: who could free one waits for the mutex.
DrvOut ==
    LET places == {f \in TxSlot : ~ne.packet[f]}
        f == Min(places)
        reply == mb.body[ip.r]
    IN  /\ ip.pc = "out"
        /\ IF places = {} THEN UNCHANGED <<ne, board, past>>
           ELSE /\ ne' = [packet |-> [ne.packet EXCEPT ![f] = TRUE], page |-> f, sending |-> TRUE,
                          send |-> IF ne.sending THEN ne.send ELSE f]
                /\ board' = LET b == NeBlockOutput(f, reply) IN IF ne.sending THEN b ELSE NeSend(b, f)
                /\ past' = [past EXCEPT !.asked = Append(@, reply),
                                        !.sent = IF ne.sending THEN @ ELSE Append(@, reply)]
        /\ neMutex' = ""
        /\ InGoes("put")
        /\ UNCHANGED <<tell, dl, mb, ethq, ei, down>>

\* mput, which leaves the list as it is: free_mbuf = mbuf->m_next undoes its insertion.
Mput(n, m) == [n EXCEPT ![m] = mb.free]

\* send puts away the reply, arp_input the request, each the mbuf of the data first.
ArpPut ==
    /\ ip.pc = "put"
    /\ mb' = [mb EXCEPT !.next = Mput(Mput(Mput(Mput(@, ip.r), ip.rh), mb.next[ip.h]), ip.h)]
    /\ InGoes("wait")
    /\ UNCHANGED <<tell, dl, ethq, ne, board, neMutex, ei, past, down>>

NetworkNext == down = "" /\
    \/ NetworkTell
    \/ \E mine \in BOOLEAN : BoardStores(mine)
    \/ BoardEnds("PTX") \/ BoardEnds("TXE")
    \/ EnWake \/ EnLock \/ EnRead \/ EnTake \/ EnHeader \/ EnDevice \/ EthInput
    \/ EnAck \/ EnAcked \/ EnTx \/ EnUnlock
    \/ InDequeue \/ ArpInput \/ ArpTake \/ ArpReply \/ DrvSend \/ DrvLock \/ DrvOut \/ ArpPut

NetworkSpec == NetworkInit /\ [][NetworkNext]_networkVars
-----------------------------------------------------------------------------
Queue == SelectSeq([i \in 1..ethq.count |-> Follow[ethq.head, i - 1]], LAMBDA h : h # 0)
MbHeld ==
    (IF ei.pc \in {"header", "device", "queue"} THEN <<ei.m>> ELSE <<>>)
    \o (IF ei.pc \in {"device", "queue"} THEN <<ei.h>> ELSE <<>>)
    \o Queue \o [i \in DOMAIN Queue |-> mb.next[Queue[i]]]
    \o (IF ip.pc \in {"reply", "link", "send", "lock", "out", "put"} THEN <<ip.rh>> ELSE <<>>)
    \o (IF ip.pc \in {"link", "send", "lock", "out", "put"} THEN <<ip.r>> ELSE <<>>)
    \o (IF ip.pc \in {"none", "wait"} THEN <<>> ELSE <<ip.h, mb.next[ip.h]>>)

\* The list of free mbufs is whole, whatever is written past a header, and no mbuf in
\* it, in the queue or in a thread's hands is at a second place.
MbufsApart ==
    down = "" =>
      /\ \A i \in 1..mb.free : mb.next[i] = i - 1
      /\ \A k \in DOMAIN MbHeld : MbHeld[k] \in mb.free + 1..NMb
      /\ IsInjective(MbHeld)

\* The frames go from the card to the protocols each once and in the order in which
\* they came, though the queue is a list in the mbufs that two threads change.
FramesInTurn ==
    LET n == past.stored - Len(board.ring)   \* the frames that were queued
    IN  /\ Len(Queue) = n - past.handed /\ Len(Queue) = ethq.count
        /\ \A i \in DOMAIN Queue : FrameOf(Queue[i]) = past.handed + i
        /\ ethq.count = 0 <=> ethq.head = 0

\* A header leads to its device, and a reply to its data, unless the two threads took
\* their mbufs in turns: only then can the server die of a stray pointer.
HeadersLead ==
    ~past.crossed =>
      /\ down # "stray"
      /\ \A i \in DOMAIN Queue : mb.next[Queue[i] + 1] = Dev

\* Though every packet the driver sends is described by the one pbuf, what the card
\* transmits are the replies that were asked for, in order; and while one is left the
\* card sends or has said that it ended.
RepliesSent ==
    /\ IsPrefix(past.sent, past.asked)
    /\ past.sent # past.asked => ne.sending
    /\ ne.sending /\ ~past.shed => board.sends # -1 \/ board.isr \cap {"PTX", "TXE"} # {}

\* The commands of etc/rc leave a server that answers: its modules found each other
\* when they were loaded, and the address is where arp looks.
RcWorks ==
    tell.all = Rc /\ tell.left = <<>> =>
      dl.arp # 0 /\ dl.arp \in dl.iflist /\ ip.pc # "none" /\ ei.pc # "none"

\* A command that never ends names a module without that function, or a device number
\* of two digits.
CommandsEnd ==
    tell.stuck => LET c == Head(tell.left) IN
                  c.arg # "ne" \/ (c.cmd = "config" /\ c.digits > 1)

\* From the modules that are loaded to the replies on the wire: mbufs, frames,
\* headers and commands, each where it belongs.
FramesAnswered ==
    /\ MbufsApart
    /\ FramesInTurn
    /\ HeadersLead
    /\ RepliesSent
    /\ RcWorks
    /\ CommandsEnd
=============================================================================
