------------------------------- MODULE Ne2000 -------------------------------
(***************************************************************************)
(* The network server srv/ne2000: its three threads (interrupts, sender,    *)
(* control) over one pool of packet buffers, the driver's core with its     *)
(* receive ring and two places for packets to send, and the card, which     *)
(* stores frames and ends transmissions whenever it likes.                  *)
(***************************************************************************)
EXTENDS Integers, Sequences, FiniteSets, FiniteSetsExt, SequencesExt

CONSTANTS
    Buf,          \* the packet buffers but p_discard; the code has 15
    XmitRoom,     \* MAX_MSGCOUNT, of the port to the sender
    ClientRoom,   \* the same of a port of a client
    RxPages,      \* pages of the receive ring; a frame has one or two of them
    MAX_LOAD,
    MaxFrames,    \* bound: frames the card stores
    MaxSends      \* bound: packets that clients send

CONSTANT NoBuf

VARIABLES
    chip,         \* the card's registers, and the pages of its ring
    tx,           \* snic: tx_packet[], send, sending
    pool,         \* p_next: the free buffers
    xmitq,        \* messages at port_xmit
    inbox,        \* how many messages are at the client's port
    mutex2, done, \* who has `mutex', the count of sem_xmit_done
    irq, snd, ctl,\* the three threads
    seen          \* what happened: frames stored and read, events lost

ne2000Vars == <<chip, tx, pool, xmitq, inbox, mutex2, done, irq, snd, ctl, seen>>

Kind == {"arp", "icmp", "udp"}
Place == 0..1
Event == {"PRX", "PTX", "TXE", "OVW"}

Ring == SetToSeq(Buf)

\* nic_init and nic_start: the boundary is a page behind the next frame.
Ne2000Init ==
    /\ chip = [isr |-> {}, sends |-> NoBuf, on |-> TRUE, curr |-> 1, bnry |-> RxPages,
               page |-> [p \in 1..RxPages |-> [id |-> 0, next |-> 0]]]
    /\ tx = [packet |-> [f \in Place |-> NoBuf], send |-> 0, sending |-> FALSE]
    /\ pool = Ring
    /\ xmitq = <<>> /\ inbox = 0 /\ mutex2 = "" /\ done = 0
    /\ irq = [pc |-> "sleep", got |-> {}, load |-> 0, buf |-> NoBuf, reply |-> NoBuf]
    /\ snd = [pc |-> "recv", buf |-> NoBuf]
    /\ ctl = [pc |-> "recv", buf |-> NoBuf]
    /\ seen = [stored |-> 0, read |-> 0, sends |-> 0, lapped |-> FALSE, shed |-> FALSE]

WrapPage(p) == IF p > RxPages THEN 1 ELSE p
Frame == WrapPage(chip.bnry + 1)
\* The n pages from p on.
PagesFrom(p, n) == {IF q > RxPages THEN q - RxPages ELSE q : q \in p..p + n - 1}
UnreadPages == PagesFrom(Frame, (chip.curr - Frame) % RxPages)

\* The list of free buffers.  p_discard, NoBuf, is for a packet that is not sent.
AllocBufferData == pool' = Tail(pool)
FreeBufferData(b) == pool' = <<b>> \o pool
GetPbuf == IF pool = <<>> THEN NoBuf ELSE Head(pool)
\* Slip: get_pbuf leaves the buffer in the list.
GotPbufShared == UNCHANGED pool

GotPbuf == pool' = IF pool = <<>> THEN pool ELSE Tail(pool)
FreeBuffer(b) == pool' = <<b>> \o pool /\ done' = done + 1

-----------------------------------------------------------------------------
\* nic_send: the card begins to send what is at its place `send'.
NicSend(c, t) == [c EXCEPT !.sends = t.packet[t.send]]
\* nic_block_output: the packet is copied to the place f of the card's memory.
NicBlockOutput(f, b) == [tx EXCEPT !.packet[f] = b, !.sending = TRUE,
                                   !.send = IF tx.sending THEN @ ELSE f]

\* The card.  It looks at the boundary only when it reaches that page: a boundary
\* outside of the ring does not stop it.
CardReceive(n) ==
    LET into == PagesFrom(chip.curr, n)
        to   == IF chip.curr + n > RxPages THEN chip.curr + n - RxPages ELSE chip.curr + n
    IN  /\ chip.on /\ seen.stored < MaxFrames
        /\ IF chip.bnry \in into
           THEN chip' = [chip EXCEPT !.isr = @ \cup {"OVW"}, !.on = FALSE] /\ UNCHANGED seen
           ELSE /\ chip' = [chip EXCEPT !.isr = @ \cup {"PRX"}, !.curr = to,
                     !.page = [p \in 1..RxPages |->
                         IF p \in into THEN [id |-> seen.stored + 1, next |-> to]
                         ELSE @[p]]]
                /\ seen' = [seen EXCEPT !.stored = @ + 1,
                               !.lapped = into \cap UnreadPages # {} \/ to = Frame]
        /\ UNCHANGED <<tx, pool, xmitq, inbox, mutex2, done, irq, snd, ctl>>

CardSent(event) ==
    /\ chip.sends # NoBuf
    /\ chip' = [chip EXCEPT !.sends = NoBuf, !.isr = @ \cup {event}]
    /\ UNCHANGED <<tx, pool, xmitq, inbox, mutex2, done, irq, snd, ctl, seen>>

-----------------------------------------------------------------------------
\* ISR and nic_isr.
IrqGoes(pc) == irq' = [irq EXCEPT !.pc = pc]

IrqWake ==
    /\ irq.pc = "sleep" /\ chip.isr # {}
    /\ IrqGoes("lock")
    /\ UNCHANGED <<chip, tx, pool, xmitq, inbox, mutex2, done, snd, ctl, seen>>

IrqLock ==
    /\ irq.pc = "lock" /\ mutex2 = ""
    /\ mutex2' = "irq"
    /\ irq' = [irq EXCEPT !.pc = "read", !.load = MAX_LOAD + 1]
    /\ UNCHANGED <<chip, tx, pool, xmitq, inbox, done, snd, ctl, seen>>

\* After MAX_LOAD rounds everything the card says is acknowledged unread.
IrqRead ==
    /\ irq.pc = "read"
    /\ IF chip.isr = {} \/ irq.load = 1
       THEN /\ irq' = [irq EXCEPT !.pc = "unlock", !.got = {}]
            /\ chip' = [chip EXCEPT !.isr = {}]
            /\ seen' = [seen EXCEPT !.shed = @ \/ chip.isr # {}]
       ELSE /\ irq' = [irq EXCEPT !.load = @ - 1, !.got = chip.isr,
                 !.pc = IF "OVW" \in chip.isr THEN "overrun"
                        ELSE IF "PRX" \in chip.isr THEN "rx" ELSE "tx"]
            /\ UNCHANGED <<chip, seen>>
    /\ UNCHANGED <<tx, pool, xmitq, inbox, mutex2, done, snd, ctl>>

\* Slip: the mutex is given back while the ring is read.
OverrunUnlocked ==
    /\ irq.pc = "overrun"
    /\ chip' = [chip EXCEPT !.on = FALSE]
    /\ IrqGoes("rx")
    /\ mutex2' = ""
    /\ UNCHANGED <<tx, pool, xmitq, inbox, done, snd, ctl, seen>>

\* nic_overrun stops the card while it reads the ring; a transmission that was cut
\* off is started again.
Overrun ==
    /\ irq.pc = "overrun"
    /\ chip' = [chip EXCEPT !.on = FALSE]
    /\ IrqGoes("rx")
    /\ UNCHANGED <<tx, pool, xmitq, inbox, mutex2, done, snd, ctl, seen>>

\* Slip: the boundary is moved as if every frame had one page.
AdvanceOne == chip' = [chip EXCEPT !.bnry = Frame]

\* The boundary follows: nic_rx writes the page before the next frame, whatever that is.
Advance == chip' = [chip EXCEPT !.bnry = chip.page[Frame].next - 1]
Reads == seen' = [seen EXCEPT !.read = chip.page[Frame].id]

\* nic_rx with alloc_buffer_data: without a buffer the frame is skipped.  Of what kind
\* a frame is matters, and is chosen, here; receive and handle_ip tell them apart.
RxTake ==
    /\ irq.pc = "rx" /\ Frame # chip.curr
    /\ IF pool = <<>>
       THEN Advance /\ Reads /\ UNCHANGED <<irq, pool>>
       ELSE /\ \E kind \in Kind : irq' = [irq EXCEPT !.pc = kind, !.buf = Head(pool)]
            /\ AllocBufferData
            /\ UNCHANGED <<chip, seen>>
    /\ UNCHANGED <<tx, xmitq, inbox, mutex2, done, snd, ctl>>

\* handle_arp and handle_icmp: the answer to a request.
Answers ==
    /\ irq' = [irq EXCEPT !.pc = IF GetPbuf = NoBuf THEN "free" ELSE "xmit", !.reply = GetPbuf]
    /\ GotPbuf
    /\ UNCHANGED <<chip, tx, xmitq, inbox, mutex2, done, snd, ctl, seen>>

HandleArp == irq.pc = "arp" /\ Answers
HandleIcmp == irq.pc = "icmp" /\ Answers

\* xmit, which waits while the port is full, NOWAIT or not: that is asked of the
\* port the message is for.
IrqXmit ==
    /\ irq.pc = "xmit" /\ Len(xmitq) < XmitRoom
    /\ xmitq' = Append(xmitq, irq.reply)
    /\ irq' = [irq EXCEPT !.pc = "free", !.reply = NoBuf]
    /\ UNCHANGED <<chip, tx, pool, inbox, mutex2, done, snd, ctl, seen>>

\* handle_udp, which waits for the client in the same way, with the mutex.
HandleUdp ==
    /\ irq.pc = "udp" /\ inbox < ClientRoom
    /\ inbox' = inbox + 1
    /\ IrqGoes("free")
    /\ UNCHANGED <<chip, tx, pool, xmitq, mutex2, done, snd, ctl, seen>>

RxFree ==
    /\ irq.pc = "free"
    /\ FreeBufferData(irq.buf)
    /\ irq' = [irq EXCEPT !.pc = "rx", !.buf = NoBuf]
    /\ Advance /\ Reads
    /\ UNCHANGED <<tx, xmitq, inbox, mutex2, done, snd, ctl>>

\* A frame that comes between the last look at the ring and the acknowledgement
\* waits for the next one.
RxAck ==
    /\ irq.pc = "rx" /\ Frame = chip.curr
    /\ IrqGoes("rxack")
    /\ UNCHANGED <<chip, tx, pool, xmitq, inbox, mutex2, done, snd, ctl, seen>>

RxAcked ==
    /\ irq.pc = "rxack"
    /\ chip' = [chip EXCEPT !.isr = @ \ ({"PRX"} \cup (irq.got \cap {"OVW"})),
                            !.on = @ \/ "OVW" \in irq.got]
    /\ IrqGoes("tx")
    /\ UNCHANGED <<tx, pool, xmitq, inbox, mutex2, done, snd, ctl, seen>>

\* Slip: the interrupt is acknowledged, and the buffer is not given back.
NicTxKeep ==
    /\ irq.pc = "tx"
    /\ tx' = [tx EXCEPT !.packet[tx.send] = NoBuf, !.sending = FALSE]
    /\ chip' = [chip EXCEPT !.isr = @ \ (irq.got \cap {"PTX", "TXE"})]
    /\ IrqGoes("read")
    /\ UNCHANGED <<pool, done, xmitq, inbox, mutex2, snd, ctl, seen>>

\* nic_tx, and nic_tx_err, which tests the command register for the bits of the
\* status: the one it tests is set, so every error ends the transmission.  The
\* other packet, if there is one, is sent next.
NicTx ==
    LET ended == irq.got \cap {"PTX", "TXE"}
        more  == {f \in Place : f # tx.send /\ tx.packet[f] # NoBuf}
        next  == [tx EXCEPT !.packet[tx.send] = NoBuf, !.sending = more # {},
                            !.send = IF more = {} THEN @ ELSE Min(more)]
    IN  /\ irq.pc = "tx"
        /\ IrqGoes("read")
        /\ IF ended = {} \/ tx.packet[tx.send] = NoBuf
           THEN UNCHANGED <<chip, tx, pool, done>>
           ELSE /\ FreeBuffer(tx.packet[tx.send])
                /\ tx' = next
                /\ chip' = LET c == [chip EXCEPT !.isr = @ \ (ended \cup {"PTX"})]
                           IN  IF more = {} THEN c ELSE NicSend(c, next)
        /\ UNCHANGED <<xmitq, inbox, mutex2, snd, ctl, seen>>

IrqUnlock ==
    /\ irq.pc = "unlock"
    /\ mutex2' = ""
    /\ IrqGoes("sleep")
    /\ UNCHANGED <<chip, tx, pool, xmitq, inbox, done, snd, ctl, seen>>

-----------------------------------------------------------------------------
\* sender: one packet at a time, until its buffer comes back.
SndRecv ==
    /\ snd.pc = "recv" /\ xmitq # <<>>
    /\ snd' = [pc |-> "lock", buf |-> Head(xmitq)]
    /\ xmitq' = Tail(xmitq)
    /\ UNCHANGED <<chip, tx, pool, inbox, mutex2, done, irq, ctl, seen>>

SndLock ==
    /\ snd.pc = "lock" /\ mutex2 = ""
    /\ mutex2' = "snd"
    /\ snd' = [snd EXCEPT !.pc = "send"]
    /\ UNCHANGED <<chip, tx, pool, xmitq, inbox, done, irq, ctl, seen>>

\* nic_send_packet.  The interrupt's thread waits for the mutex meanwhile.
SndSend ==
    LET free == {f \in Place : tx.packet[f] = NoBuf}
    IN  /\ snd.pc = "send"
        /\ IF free = {} THEN UNCHANGED <<tx, chip>>
           ELSE /\ tx' = NicBlockOutput(Min(free), snd.buf)
                /\ chip' = IF tx.sending THEN chip ELSE NicSend(chip, tx')
        /\ snd' = [pc |-> "wait", buf |-> NoBuf]
        /\ mutex2' = ""
        /\ UNCHANGED <<pool, xmitq, inbox, done, irq, ctl, seen>>

\* Slip: the sender does not wait.
SndDoneSoon ==
    /\ snd.pc = "wait"
    /\ done' = IF done > 0 THEN done - 1 ELSE 0
    /\ snd' = [snd EXCEPT !.pc = "recv"]
    /\ UNCHANGED <<chip, tx, pool, xmitq, inbox, mutex2, irq, ctl, seen>>

SndDone ==
    /\ snd.pc = "wait" /\ done > 0
    /\ done' = done - 1
    /\ snd' = [snd EXCEPT !.pc = "recv"]
    /\ UNCHANGED <<chip, tx, pool, xmitq, inbox, mutex2, irq, ctl, seen>>

\* control with NET_SEND: send_udp takes a buffer, and xmit hands it on.
CtlSend ==
    /\ ctl.pc = "recv" /\ seen.sends < MaxSends
    /\ seen' = [seen EXCEPT !.sends = @ + 1]
    /\ ctl' = IF GetPbuf = NoBuf THEN ctl ELSE [pc |-> "xmit", buf |-> GetPbuf]
    /\ GotPbuf
    /\ UNCHANGED <<chip, tx, xmitq, inbox, mutex2, done, irq, snd>>

CtlXmit ==
    /\ ctl.pc = "xmit" /\ Len(xmitq) < XmitRoom
    /\ xmitq' = Append(xmitq, ctl.buf)
    /\ ctl' = [pc |-> "recv", buf |-> NoBuf]
    /\ UNCHANGED <<chip, tx, pool, inbox, mutex2, done, irq, snd, seen>>

ClientRead ==
    /\ inbox > 0
    /\ inbox' = inbox - 1
    /\ UNCHANGED <<chip, tx, pool, xmitq, mutex2, done, irq, snd, ctl, seen>>

Ne2000Next == ~seen.lapped /\
    \/ \E n \in 1..2 : CardReceive(n)
    \/ CardSent("PTX") \/ CardSent("TXE")
    \/ IrqWake \/ IrqLock \/ IrqRead \/ Overrun \/ RxTake \/ HandleArp \/ HandleIcmp \/ IrqXmit \/ HandleUdp
    \/ RxFree \/ RxAck \/ RxAcked \/ NicTx \/ IrqUnlock
    \/ SndRecv \/ SndLock \/ SndSend \/ SndDone
    \/ CtlSend \/ CtlXmit \/ ClientRead

Ne2000Spec == Ne2000Init /\ [][Ne2000Next]_ne2000Vars
-----------------------------------------------------------------------------
Holders ==
    <<irq.buf, irq.reply, snd.buf, ctl.buf, tx.packet[0], tx.packet[1]>> \o pool \o xmitq

\* The registers and threads are in their ranges.
Ne2000TypeOK ==
    /\ chip.isr \subseteq Event /\ chip.curr \in 1..RxPages /\ chip.bnry \in 0..RxPages
    /\ tx.send \in Place /\ done \in 0..Cardinality(Buf)
    /\ mutex2 = "snd" <=> snd.pc = "send"
    /\ mutex2 = "irq" <=> irq.pc \notin {"sleep", "lock"}

\* Every packet buffer is in one place: in the list, in a message, in a thread's
\* hands or at the card, and none is lost on the ways of errors.
BuffersInOnePlace ==
    \A b \in Buf : Cardinality({i \in DOMAIN Holders : Holders[i] = b}) = 1

\* The thread of the interrupt holds the mutex that the sender needs while it
\* queues an answer: there is always room, for there are more places in a port
\* than buffers, so it never waits for the sender.
AnswerHasRoom == irq.pc = "xmit" => Len(xmitq) < XmitRoom

\* When the sender waits for its packet, the card has it or has said so, unless
\* that word was shed: and of the two places for packets one is enough.
SenderIsWoken ==
    /\ \E f \in Place : tx.packet[f] = NoBuf
    /\ snd.pc = "wait" /\ done = 0 /\ ~seen.shed =>
         \/ chip.sends # NoBuf /\ chip.sends = tx.packet[tx.send]
         \/ chip.isr \cap {"PTX", "TXE"} # {} /\ tx.packet[tx.send] # NoBuf

\* What the driver takes for the next frame is the next one that the card stored,
\* whole: as long as the card did not go around past a boundary outside of the ring.
NextFrameIsWhole ==
    ~seen.lapped =>
      /\ Frame # chip.curr => \A p \in PagesFrom(Frame, (chip.page[Frame].next - Frame) % RxPages) :
                                 chip.page[p].id = seen.read + 1
      /\ Frame = chip.curr => seen.read = seen.stored

\* The three threads of the ne2000 server and its card: no buffer is lost or in two
\* places, nobody waits for what does not come, and frames come whole.
PacketsFlow ==
    /\ Ne2000TypeOK
    /\ BuffersInOnePlace
    /\ AnswerHasRoom
    /\ SenderIsWoken
    /\ NextFrameIsWhole
=============================================================================
