------------------------------- MODULE Netboot -------------------------------
(***************************************************************************)
(* Booting over the network: the tool util/netboot.c sends an image in       *)
(* blocks, one at a time, until each is acknowledged; the loader, netboot/    *)
(* netboot.c with its driver netboot/ne2000.c, polls the card, stores blocks  *)
(* and acknowledges them, and starts the image when told to.  The network     *)
(* loses, repeats and reorders: it is the set of what was ever sent.          *)
(***************************************************************************)
EXTENDS Integers, Sequences, FiniteSets, FiniteSetsExt

CONSTANTS
    MaxBlk,       \* the last block of an image
    RingRoom,     \* frames that fit the card's ring
    BOOT_LOAD     \* MAX_LOAD of netboot/ne2000.h, 12 there

ASSUME NetbootAssumption == MaxBlk \in Nat /\ RingRoom \in Nat /\ BOOT_LOAD \in Nat

VARIABLES
    tool,         \* the tool: its pc and block
    lanIn, lanOut,\* what was sent to the loader, and acknowledgements for the tool
    card,         \* the frames in its ring, what it sends, its events; is it on; see NicOverrun
    slots,        \* snic: tx_packet[] and send
    loader,       \* its pc, its address, reset, the round of nic_isr and its events but PRX
    mem,          \* the blocks of the image that are in memory
    shed          \* an event was acknowledged unseen

netbootVars == <<tool, lanIn, lanOut, card, slots, loader, mem, shed>>

Blk == 0..MaxBlk
Slot == 0..1
NoMsg == [cmd |-> "none"]
LoadMsg(b) == [cmd |-> "LOAD", blk |-> b]
ExecMsg == [cmd |-> "EXEC"]
AckMsg(b) == [cmd |-> "ACK", blk |-> b]
ArpMsg == [cmd |-> "arp"]            \* a request in, and what the loader says of ARP or RARP
RarpMsg == [cmd |-> "rarp"]          \* a RARP reply, to an earlier start's request perhaps
InMsg == {LoadMsg(b) : b \in Blk} \cup {ExecMsg, ArpMsg, RarpMsg}
OutMsg == {AckMsg(b) : b \in Blk} \cup {ArpMsg}

NoSlots == [packet |-> [f \in Slot |-> NoMsg], send |-> 0]
NoCard == [ring |-> <<>>, sends |-> NoMsg, isr |-> {}, on |-> TRUE, cut |-> "no"]

NetbootInit ==
    /\ tool = [pc |-> "send", blk |-> 0]
    /\ lanIn = {ArpMsg, RarpMsg} /\ lanOut = {}
    /\ card = NoCard /\ slots = NoSlots
    /\ loader = [pc |-> "rarp", left |-> 3, ip |-> "default", reset |-> FALSE, got |-> {},
                 load |-> 0, rarped |-> FALSE]
    /\ mem = {} /\ shed = FALSE

-----------------------------------------------------------------------------
\* The tool, main of util/netboot.c.
ToolSend ==
    /\ tool.pc = "send"
    /\ lanIn' = lanIn \cup {LoadMsg(tool.blk)}
    /\ tool' = [tool EXCEPT !.pc = "select"]
    /\ UNCHANGED <<lanOut, card, slots, loader, mem, shed>>

ToolTimeout ==
    /\ tool.pc = "select"
    /\ tool' = [tool EXCEPT !.pc = "send"]
    /\ UNCHANGED <<lanIn, lanOut, card, slots, loader, mem, shed>>

\* Slip: any acknowledgement will do.
ToolRecvAny(m) ==
    /\ tool.pc = "select" /\ m \in lanOut
    /\ tool' = IF tool.blk < MaxBlk THEN [tool EXCEPT !.pc = "send", !.blk = @ + 1]
               ELSE [tool EXCEPT !.pc = "exec"]
    /\ UNCHANGED <<lanIn, lanOut, card, slots, loader, mem, shed>>

\* An acknowledgement of another block makes it send this one again, at once.
ToolRecv(m) ==
    /\ tool.pc = "select" /\ m \in lanOut
    /\ tool' = IF m # AckMsg(tool.blk) THEN [tool EXCEPT !.pc = "send"]
               ELSE IF tool.blk < MaxBlk THEN [tool EXCEPT !.pc = "send", !.blk = @ + 1]
               ELSE [tool EXCEPT !.pc = "exec"]
    /\ UNCHANGED <<lanIn, lanOut, card, slots, loader, mem, shed>>

\* EXEC is sent once and nothing is waited for.
ToolExec ==
    /\ tool.pc = "exec"
    /\ lanIn' = lanIn \cup {ExecMsg}
    /\ tool' = [tool EXCEPT !.pc = "done"]
    /\ UNCHANGED <<lanOut, card, slots, loader, mem, shed>>

\* The tool is run again, EXEC being lost perhaps.  It is the same image here: nothing
\* in an acknowledgement tells one image from another.
ToolAgain ==
    /\ tool.pc = "done"
    /\ tool' = [pc |-> "send", blk |-> 0]
    /\ UNCHANGED <<lanIn, lanOut, card, slots, loader, mem, shed>>

\* The card takes a frame, if there is room, and else is off until nic_overrun; also
\* what somebody asks for the loader's Ethernet address.
CardTakes(m) ==
    /\ m \in lanIn /\ card.on
    /\ card' = IF Len(card.ring) < RingRoom
               THEN [card EXCEPT !.ring = Append(@, m), !.isr = @ \cup {"PRX"}]
               ELSE [card EXCEPT !.isr = @ \cup {"OVW"}, !.on = FALSE]
    /\ UNCHANGED <<tool, lanIn, lanOut, slots, loader, mem, shed>>

\* While nic_overrun reads the ring what the card sends stays in the card.
Looped == loader.pc \in {"rx", "ack"} /\ "OVW" \in loader.got

\* What nic_overrun will start again stays at hand.
CardEnds(event) ==
    /\ card.sends # NoMsg /\ card.cut # "cut"
    /\ card' = [card EXCEPT !.isr = @ \cup {event},
                   !.sends = IF card.cut = "no" THEN NoMsg ELSE @,
                   !.cut = IF @ = "no" THEN "no" ELSE "cut"]
    /\ lanOut' = IF event = "PTX" /\ ~Looped /\ card.sends.cmd = "ACK"
                 THEN lanOut \cup {card.sends} ELSE lanOut
    /\ UNCHANGED <<tool, lanIn, slots, loader, mem, shed>>

-----------------------------------------------------------------------------
LoaderGoes(pc) == loader' = [loader EXCEPT !.pc = pc]

\* nic_send_packet with nic_send, the card being at c: the packet takes a free slot,
\* and `send' is moved there, but while the card is busy the slot is made free again.
\* It is not busy with what was cut off.
NicSendPacket(c, m) ==
    LET free == {f \in Slot : slots.packet[f] = NoMsg}
    IN  IF free = {} THEN card' = c /\ UNCHANGED slots
        ELSE IF c.sends # NoMsg /\ c.cut # "cut"
        THEN card' = c /\ slots' = [slots EXCEPT !.send = Min(free)]
        ELSE /\ card' = [c EXCEPT !.sends = m, !.cut = IF @ = "no" THEN "no" ELSE "again"]
             /\ slots' = [packet |-> [slots.packet EXCEPT ![Min(free)] = m], send |-> Min(free)]

\* main: after every start of the card three requests for an address, unless the
\* answer to one ever came.
Rarps ==
    /\ loader.pc = "rarp"
    /\ IF loader.rarped \/ loader.left = 0
       THEN loader' = [loader EXCEPT !.pc = "poll", !.left = 0] /\ UNCHANGED <<card, slots>>
       ELSE NicSendPacket(card, ArpMsg) /\ loader' = [loader EXCEPT !.left = @ - 1]
    /\ UNCHANGED <<tool, lanIn, lanOut, mem, shed>>

Restart(ip) ==
    /\ loader' = [loader EXCEPT !.pc = "rarp", !.left = 3, !.reset = FALSE, !.ip = ip]
    /\ card' = NoCard
    /\ slots' = [NoSlots EXCEPT !.send = slots.send]

Poll ==
    /\ loader.pc = "poll"
    /\ IF loader.reset THEN Restart(loader.ip)
       ELSE /\ card.isr # {}
            /\ loader' = [loader EXCEPT !.pc = "read", !.load = BOOT_LOAD + 1]
            /\ UNCHANGED <<card, slots>>
    /\ UNCHANGED <<tool, lanIn, lanOut, mem, shed>>

\* console: the user sets an address, or not, and says go.  Nothing is polled before,
\* and what the card took meanwhile is lost when it is started again: one step.
UseConsole ==
    /\ loader.pc = "poll" /\ ~loader.reset
    /\ \E ip \in {loader.ip, "given"} : Restart(ip)
    /\ UNCHANGED <<tool, lanIn, lanOut, mem, shed>>

\* Slip: there is no end to the rounds.
IsrRoundOn ==
    /\ loader.pc = "read"
    /\ loader' = [loader EXCEPT !.load = @ - 1, !.got = card.isr \ {"PRX"},
                     !.pc = IF card.isr = {} THEN "poll"
                            ELSE IF card.isr \cap {"PRX", "OVW"} # {} THEN "rx" ELSE "tx"]
    /\ UNCHANGED <<tool, lanIn, lanOut, card, slots, mem, shed>>

\* The first half of nic_overrun: the card stops.  What it sends is cut off, to be
\* started again, or not if an event says that something was sent.
NicOverrun == [card EXCEPT !.sends = IF card.isr \cap {"PTX", "TXE"} = {} THEN @ ELSE NoMsg,
                        !.cut = IF card.sends # NoMsg /\ card.isr \cap {"PTX", "TXE"} = {}
                                THEN "cut" ELSE "no"]

\* nic_isr: after MAX_LOAD rounds every event is acknowledged unseen.
IsrRound ==
    /\ loader.pc = "read"
    /\ IF card.isr = {} \/ loader.load = 1
       THEN /\ loader' = [loader EXCEPT !.pc = "poll", !.load = 0]
            /\ card' = [card EXCEPT !.isr = {}]
            /\ shed' = (shed \/ card.isr # {})
       ELSE /\ loader' = [loader EXCEPT !.load = @ - 1, !.got = card.isr \ {"PRX"},
                  !.pc = IF card.isr \cap {"PRX", "OVW"} # {} THEN "rx" ELSE "tx"]
            /\ card' = IF "OVW" \in card.isr THEN NicOverrun ELSE card
            /\ UNCHANGED shed
    /\ UNCHANGED <<tool, lanIn, lanOut, slots, mem>>

\* receive, the frame being taken from the ring once it was handled.
RingNext(c) == [c EXCEPT !.ring = Tail(@)]
Receiving(m) == loader.pc = "rx" /\ card.ring # <<>> /\ Head(card.ring) = m
Answer(m) == NicSendPacket(RingNext(card), m)

\* Slip: memory is cleared when block 0 comes, also when it comes again.
ReceiveLoadClears(b) ==
    /\ Receiving(LoadMsg(b))
    /\ IF loader.ip = "given"
       THEN Answer(AckMsg(b)) /\ mem' = IF b = 0 THEN {0} ELSE mem \cup {b}
       ELSE card' = RingNext(card) /\ UNCHANGED <<slots, mem>>
    /\ UNCHANGED <<tool, lanIn, lanOut, loader, shed>>

\* handle_udp with LOAD, if handle_ip finds the loader's own address.
ReceiveLoad(b) ==
    /\ Receiving(LoadMsg(b))
    /\ IF loader.ip = "given"
       THEN Answer(AckMsg(b)) /\ mem' = mem \cup {b}
       ELSE card' = RingNext(card) /\ UNCHANGED <<slots, mem>>
    /\ UNCHANGED <<tool, lanIn, lanOut, loader, shed>>

\* handle_udp with EXEC: the image never returns.
ReceiveExec ==
    /\ Receiving(ExecMsg)
    /\ IF loader.ip = "given" THEN LoaderGoes("image") ELSE UNCHANGED loader
    /\ card' = RingNext(card)
    /\ UNCHANGED <<tool, lanIn, lanOut, slots, mem, shed>>

\* handle_rarp: a new address, and the card is started again after this nic_isr.
ReceiveRarp ==
    /\ Receiving(RarpMsg)
    /\ loader' = IF loader.ip = "given" THEN loader
                 ELSE [loader EXCEPT !.ip = "given", !.reset = TRUE, !.rarped = TRUE]
    /\ card' = RingNext(card)
    /\ UNCHANGED <<tool, lanIn, lanOut, slots, mem, shed>>

ReceiveArp ==
    /\ Receiving(ArpMsg)
    /\ IF loader.ip = "given" THEN Answer(ArpMsg) ELSE card' = RingNext(card) /\ UNCHANGED slots
    /\ UNCHANGED <<tool, lanIn, lanOut, loader, mem, shed>>

RingRead ==
    /\ loader.pc = "rx" /\ card.ring = <<>>
    /\ LoaderGoes("ack")
    /\ UNCHANGED <<tool, lanIn, lanOut, card, slots, mem, shed>>

\* The events that were handled are acknowledged, and nic_overrun ends.
RingAck ==
    /\ loader.pc = "ack"
    /\ card' = [card EXCEPT !.isr = @ \ ({"PRX"} \cup (loader.got \cap {"OVW"})),
                            !.on = @ \/ "OVW" \in loader.got, !.cut = "no"]
    /\ LoaderGoes("tx")
    /\ UNCHANGED <<tool, lanIn, lanOut, slots, mem, shed>>

\* Slip: the slot of a packet that was sent is not made free.
SentKept ==
    /\ loader.pc = "tx"
    /\ loader' = [loader EXCEPT !.pc = "read", !.got = {}]
    /\ card' = [card EXCEPT !.isr = @ \ (loader.got \cap {"PTX", "TXE"})]
    /\ UNCHANGED <<tool, lanIn, lanOut, slots, mem, shed>>

\* nic_tx, and nic_tx_err before it if there was an error only.  If `send' is at a
\* free slot, the event PTX is left as it is.  The other slot is sent, again.
Sent ==
    LET err   == "PTX" \notin loader.got
        event == IF err THEN "TXE" ELSE "PTX"
        next  == [slots EXCEPT !.packet[slots.send] = NoMsg]
        more  == {f \in Slot : next.packet[f] # NoMsg}
        acked == card.isr \ ({"PTX"} \cup (IF err THEN {"TXE"} ELSE {}))
    IN  /\ loader.pc = "tx"
        /\ loader' = [loader EXCEPT !.pc = "read", !.got = {}]
        /\ IF event \notin loader.got THEN UNCHANGED <<card, slots>>
           ELSE IF slots.packet[slots.send] = NoMsg
           THEN card' = [card EXCEPT !.isr = @ \ (IF err THEN {"TXE"} ELSE {})] /\ UNCHANGED slots
           ELSE IF more = {} \/ card.sends # NoMsg
           THEN card' = [card EXCEPT !.isr = acked] /\ slots' = [next EXCEPT !.packet = NoSlots.packet]
           ELSE card' = [card EXCEPT !.isr = acked, !.sends = next.packet[Min(more)]] /\ slots' = next
        /\ UNCHANGED <<tool, lanIn, lanOut, mem, shed>>

NetbootNext == loader.pc # "image" /\
    \/ ToolSend \/ ToolTimeout \/ ToolExec \/ ToolAgain
    \/ \E m \in OutMsg : ToolRecv(m)
    \/ \E m \in InMsg : CardTakes(m)
    \/ \E event \in {"PTX", "TXE"} : CardEnds(event)
    \/ Rarps \/ Poll \/ UseConsole \/ IsrRound
    \/ \E b \in Blk : ReceiveLoad(b)
    \/ ReceiveExec \/ ReceiveRarp \/ ReceiveArp \/ RingRead \/ RingAck \/ Sent

NetbootSpec == NetbootInit /\ [][NetbootNext]_netbootVars
-----------------------------------------------------------------------------
\* The messages are known ones, and the events those that the driver handles.
NetbootTypeOK ==
    /\ lanIn \subseteq InMsg /\ lanOut \subseteq {AckMsg(b) : b \in Blk}
    /\ Len(card.ring) <= RingRoom /\ card.sends \in OutMsg \cup {NoMsg}
    /\ card.isr \subseteq {"PRX", "PTX", "TXE", "OVW"}
    /\ slots \in [packet : [Slot -> OutMsg \cup {NoMsg}], send : Slot]
    /\ loader.load \in 0..BOOT_LOAD + 1 /\ mem \subseteq Blk

\* An acknowledgement, wherever it is, is of a block that was stored: and so every
\* block that the tool has gone past is in memory.
AcksAreTrue ==
    /\ \A b \in Blk : AckMsg(b) \in lanOut \cup {card.sends, slots.packet[0], slots.packet[1]}
                        => b \in mem
    /\ \A b \in Blk : b < tool.blk \/ tool.pc \in {"exec", "done"} => b \in mem

\* When the image is started all of its blocks are there, whatever was lost,
\* repeated or reordered before.
WholeImage == loader.pc = "image" => mem = Blk

\* Both slots are taken only while the card sends, or its word of the end waits to
\* be heard: otherwise no packet is ever sent again.  Unheard words do that.
SlotComesFree ==
    (\A f \in Slot : slots.packet[f] # NoMsg) /\ ~shed =>
        card.sends # NoMsg \/ card.isr \cap {"PTX", "TXE"} # {}

\* Over a network that loses, repeats and reorders: what is acknowledged is there,
\* what is started is whole, and the card can go on sending.
ImageIsWhole == NetbootTypeOK /\ AcksAreTrue /\ WholeImage /\ SlotComesFree
=============================================================================
