--------------------------------- MODULE Wire ---------------------------------
(***************************************************************************)
(* The clients of the window server, lib/libwin (Window.cpp, Canvas.cpp,      *)
(* Connection.cpp), and how WindowManager.cpp reads what they send: commands  *)
(* of several bytes, many in a message, from several clients at one port.     *)
(***************************************************************************)
EXTENDS Integers, Sequences, FiniteSets, SequencesExt

CONSTANTS
    WClient,      \* clients, each with one Window and its Connection
    Canvas,       \* the canvases of a window
    SendRoom,     \* kSendBufferSize, 4096
    MaxCommand,   \* kMaxCommandSize, 270
    SizeOf,       \* bytes of each command
    Programs      \* the calls that the clients make: client to sequence of calls

NoCanvas == "none"
TheWindow == "window"

VARIABLES
    calls,        \* the calls that a client still makes
    at,           \* what its thread does, in a call: with the lock of the window
    issued,       \* the commands it issued so far
    buffer,       \* fSendBuffer, what is in it
    level,        \* fShowLevel of its window and its canvases
    inPaint,      \* the canvases that are painted
    list,         \* fCanvasList: its head, and each canvas's fWinListNext, fWinListPrev
    stale,        \* a canvas of the list points back to one that was removed
    service,      \* messages at the server's port
    rest,         \* what the server has not read of its message
    asker,        \* fRequestorPort: who sent it
    got,          \* what it read of a command
    falls,        \* it drew a string, and goes on as if to destroy a window
    garbled,      \* it took the bytes of one command for those of another
    executed,     \* the commands of each client that the server executed
    answers,      \* messages at the port of each client
    visible       \* the windows that the server was told to show

wireVars == <<calls, at, issued, buffer, level, inPaint, list, stale, service, rest, asker, got, falls,
              garbled, executed, answers, visible>>
clientVars == <<calls, at, issued, buffer, level, inPaint, list, stale>>
serverVars == <<service, rest, asker, got, falls, garbled, executed, answers, visible>>

BytesOf(c, n, size) == [k \in 1..size |-> [by |-> c, cmd |-> n, k |-> k]]
SizeAt(b) == SizeOf[issued[b.by][b.cmd].op]
Asks(op) == op \in {"create", "begin paint"}
\* Commands that are left in the buffer if there is room for another one.
Draws(op) == op \in {"pen", "line", "string", "long string"}

WireInit ==
    /\ calls \in Programs
    /\ at = [c \in WClient |-> [pc |-> "idle"]]
    /\ issued = [c \in WClient |-> <<>>] /\ buffer = [c \in WClient |-> <<>>]
    /\ level = [c \in WClient |-> [w \in Canvas \cup {TheWindow} |-> 0]]
    /\ inPaint = [c \in WClient |-> {}] /\ stale = [c \in WClient |-> FALSE]
    /\ list = [c \in WClient |-> [head |-> NoCanvas, next |-> [w \in Canvas |-> NoCanvas],
                                  prev |-> [w \in Canvas |-> "head"]]]
    /\ service = <<>> /\ rest = <<>> /\ asker = "nobody" /\ got = <<>> /\ falls = FALSE
    /\ garbled = FALSE /\ executed = [c \in WClient |-> <<>>] /\ answers = [c \in WClient |-> <<>>] /\ visible = {}

-----------------------------------------------------------------------------
\* The list of canvases.
RECURSIVE ChainFrom(_, _)
ChainFrom(l, w) == IF w = NoCanvas THEN <<>> ELSE <<w>> \o ChainFrom(l, l.next[w])
InList(c) == ToSet(ChainFrom(list[c], list[c].head))

\* fWinListPrev points to the head of the list, or to a canvas's fWinListNext.
StoreAt(l, place, w) == IF place = "head" THEN [l EXCEPT !.head = w] ELSE [l EXCEPT !.next[place] = w]
Linked(l, w) ==
    LET new == [l EXCEPT !.head = w, !.next[w] = l.head, !.prev[w] = "head"]
    IN  IF l.head = NoCanvas THEN new ELSE [new EXCEPT !.prev[l.head] = w]
Unlinked(l, w) == StoreAt(l, l.prev[w], l.next[w])
\* Window::RemoveChild; Canvas::RemoveChild leaves the next one's pointer as it was.
Removed(l, w) ==
    LET new == Unlinked(l, w) IN IF l.next[w] = NoCanvas THEN new ELSE [new EXCEPT !.prev[l.next[w]] = l.prev[w]]

-----------------------------------------------------------------------------
\* Connection.

\* Write: into the buffer as far as there is room; a full one is sent.
Filled(c) == [src |-> c, bytes |-> buffer[c]]
Write(c) ==
    /\ at[c].pc = "write" /\ at[c].todo # <<>>
    /\ IF Len(buffer[c]) = SendRoom
       THEN service' = Append(service, Filled(c)) /\ buffer' = [buffer EXCEPT ![c] = <<>>] /\ UNCHANGED at
       ELSE LET todo == at[c].todo
                room == SendRoom - Len(buffer[c])
                n == IF Len(todo) < room THEN Len(todo) ELSE room
            IN  /\ buffer' = [buffer EXCEPT ![c] = @ \o SubSeq(todo, 1, n)]
                /\ at' = [at EXCEPT ![c].todo = SubSeq(todo, n + 1, Len(todo))]
                /\ UNCHANGED service
    /\ UNCHANGED <<calls, issued, level, inPaint, list, stale, rest, asker, got, falls, garbled, executed, answers,
                   visible>>

\* Slip: a command may begin as long as there is any room.
FlushesLate(op, filled) == ~Draws(op) \/ filled = SendRoom

\* EndCommand, Flush.
Flushes(op, filled) == ~Draws(op) \/ filled > SendRoom - MaxCommand

EndOfCommand(c) ==
    /\ at[c].pc = "write" /\ at[c].todo = <<>>
    /\ IF Flushes(at[c].call.op, Len(buffer[c]))
       THEN service' = Append(service, Filled(c)) /\ buffer' = [buffer EXCEPT ![c] = <<>>]
       ELSE UNCHANGED <<service, buffer>>
    /\ at' = [at EXCEPT ![c] = [pc |-> IF Asks(at[c].call.op) THEN "read" ELSE "end", call |-> at[c].call]]
    /\ UNCHANGED <<calls, issued, level, inPaint, list, stale, rest, asker, got, falls, garbled, executed, answers,
                   visible>>

\* Read, of the answer.
ReadAnswer(c) ==
    /\ at[c].pc = "read" /\ answers[c] # <<>>
    /\ at' = [at EXCEPT ![c].pc = "end"] /\ answers' = [answers EXCEPT ![c] = Tail(@)]
    /\ UNCHANGED <<calls, issued, buffer, level, inPaint, list, stale, service, rest, asker, got, falls, garbled,
                   executed, visible>>

-----------------------------------------------------------------------------
\* Window, Canvas: what a call sends, if anything.
LevelAfter(c, call) ==
    level[c][call.on] + (CASE call.op = "show" -> 1 [] call.op = "hide" -> -1 [] OTHER -> 0)
Sends(c, call) ==
    CASE call.op = "show"        -> LevelAfter(c, call) = 1
      [] call.op = "hide"        -> LevelAfter(c, call) = 0
      [] call.op = "begin paint" -> call.on \notin inPaint[c]
      [] call.op = "end paint"   -> call.on \in inPaint[c]
      [] OTHER -> TRUE

Begin(c) ==
    LET call == Head(calls[c])
    IN  /\ at[c].pc = "idle" /\ calls[c] # <<>> /\ call.op \notin {"paint", "quit"}
        /\ level' = [level EXCEPT ![c][call.on] = LevelAfter(c, call)]
        /\ inPaint' = [inPaint EXCEPT ![c] = CASE call.op = "begin paint" -> @ \cup {call.on}
                                              [] call.op = "end paint" -> @ \ {call.on} [] OTHER -> @]
        /\ IF Sends(c, call)
           THEN /\ issued' = [issued EXCEPT ![c] = Append(@, call)]
                /\ at' = [at EXCEPT ![c] = [pc |-> "write", call |-> call,
                                            todo |-> BytesOf(c, Len(issued[c]) + 1, SizeOf[call.op])]]
                /\ UNCHANGED calls
           ELSE calls' = [calls EXCEPT ![c] = Tail(@)] /\ UNCHANGED <<issued, at>>
        /\ UNCHANGED <<buffer, list, stale, serverVars>>

\* The rest of AddChild, which shows the canvas then, and of RemoveChild.
End(c) ==
    LET call == at[c].call
        l == list[c]
    IN  /\ at[c].pc = "end"
        /\ at' = [at EXCEPT ![c] = [pc |-> "idle"]]
        /\ IF call.op = "create" /\ call.on # TheWindow
           THEN /\ list' = [list EXCEPT ![c] = Linked(l, call.on)]
                /\ calls' = [calls EXCEPT ![c] = <<[op |-> "show", on |-> call.on]>> \o Tail(@)]
                /\ UNCHANGED stale
           ELSE /\ calls' = [calls EXCEPT ![c] = Tail(@)]
                /\ IF call.op = "destroy" /\ call.on # TheWindow
                   THEN /\ list' = [list EXCEPT ![c] = IF call.by = "window" THEN Removed(l, call.on)
                                                       ELSE Unlinked(l, call.on)]
                        /\ stale' = [stale EXCEPT ![c] = @ \/ (call.by = "canvas" /\ l.next[call.on] # NoCanvas)]
                   ELSE UNCHANGED <<list, stale>>
        /\ UNCHANGED <<issued, buffer, level, inPaint, serverVars>>

\* An event, by the window's own thread: EVT_PAINT for a canvas, if it is found, and
\* EVT_QUIT, which destroys what is in the list.
Event(c) ==
    LET call == Head(calls[c])
        Doomed(w) == [op |-> "destroy", on |-> w, by |-> "window"]
        rows == ChainFrom(list[c], list[c].head)
        todo == CASE call.op = "paint" /\ call.on \in InList(c) ->
                       <<[op |-> "begin paint", on |-> call.on], [op |-> "line", on |-> call.on],
                         [op |-> "end paint", on |-> call.on]>>
                  [] call.op = "paint" -> <<>>
                  [] OTHER -> [i \in DOMAIN rows |-> Doomed(rows[i])] \o <<Doomed(TheWindow)>>
    IN  /\ at[c].pc = "idle" /\ calls[c] # <<>> /\ call.op \in {"paint", "quit"}
        /\ calls' = [calls EXCEPT ![c] = todo \o Tail(@)]
        /\ UNCHANGED <<at, issued, buffer, level, inPaint, list, stale, serverVars>>

-----------------------------------------------------------------------------
\* The server: ReadServicePort receives a message when it has read all of the last one.
ServerReceive ==
    /\ rest = <<>> /\ service # <<>>
    /\ rest' = Head(service).bytes /\ asker' = Head(service).src /\ service' = Tail(service)
    /\ UNCHANGED <<clientVars, got, falls, garbled, executed, answers, visible>>

Follows(b) == IF got = <<>> THEN b.k = 1 ELSE b = [Last(got) EXCEPT !.k = @ + 1]

\* What it reads next are not the bytes of the command that it takes them for: those of
\* the window to destroy, after a string, never are.  No more is said after that.
Garble ==
    /\ rest # <<>> /\ (falls \/ ~Follows(Head(rest)))
    /\ garbled' = TRUE
    /\ UNCHANGED <<clientVars, service, rest, asker, got, falls, executed, answers, visible>>

\* DispatchThread: a command is read, and executed when it is complete; what asks is
\* answered, to where the message came from.
Execute(bytes) ==
    LET by  == Head(bytes).by
        cmd == issued[by][Head(bytes).cmd]
    IN  /\ executed' = [executed EXCEPT ![by] = Append(@, Head(bytes).cmd)]
        /\ answers' = IF Asks(cmd.op) THEN [answers EXCEPT ![asker] = Append(@, <<by, Head(bytes).cmd>>)] ELSE answers
        /\ visible' = CASE cmd.op = "show" -> visible \cup {<<by, cmd.on>>}
                        [] cmd.op \in {"hide", "destroy"} -> visible \ {<<by, cmd.on>>} [] OTHER -> visible
        /\ falls' = (cmd.op \in {"string", "long string"})
        /\ got' = <<>>

ReadCommand ==
    /\ rest # <<>> /\ ~falls /\ Follows(Head(rest))
    /\ LET more == SizeAt(Head(rest)) - Len(got)
           n == IF more < Len(rest) THEN more ELSE Len(rest)
       IN  /\ rest' = SubSeq(rest, n + 1, Len(rest))
           /\ IF n = more THEN Execute(got \o SubSeq(rest, 1, n))
              ELSE got' = got \o SubSeq(rest, 1, n) /\ UNCHANGED <<falls, executed, answers, visible>>
    /\ UNCHANGED <<clientVars, service, asker, garbled>>

WireNext == ~garbled /\
    \/ \E c \in WClient : Begin(c) \/ Write(c) \/ EndOfCommand(c) \/ ReadAnswer(c) \/ End(c) \/ Event(c)
    \/ ServerReceive \/ Garble \/ ReadCommand

WireSpec == WireInit /\ [][WireNext]_wireVars
-----------------------------------------------------------------------------
\* The bytes of a client, in a sequence of bytes.
Of(c, bytes) == SelectSeq(bytes, LAMBDA b : b.by = c)

\* Nothing of what a client issued is lost, doubled or out of order on its way.
AllOnTheWay ==
    \A c \in WClient :
        LET sent  == FlattenSeq([i \in DOMAIN service |-> service[i].bytes])
            todo  == IF at[c].pc = "write" THEN at[c].todo ELSE <<>>
            all   == [n \in DOMAIN issued[c] |-> BytesOf(c, n, SizeOf[issued[c][n].op])]
        IN  FlattenSeq([i \in DOMAIN executed[c] |-> all[executed[c][i]]])
              \o Of(c, got \o rest \o sent) \o buffer[c] \o todo = FlattenSeq(all)

\* Commands of several clients are not mixed up, and each answer goes to who asked: but
\* for strings, after which the server reads a window to destroy, and those that are
\* longer than kMaxCommandSize allows for.
NotMixed ==
    /\ garbled => falls \/ (got # <<>> /\ SizeAt(Head(got)) > MaxCommand)
    /\ \A c \in WClient : answers[c] # <<>> => at[c].pc = "read" /\ answers[c] = <<<<c, Len(issued[c])>>>>

\* When all was executed a window is visible that its client shows, and when no canvas
\* points back to one that was removed events find exactly the canvases that there are.
ClientsKnow ==
    \A c \in WClient : at[c].pc = "idle" /\ buffer[c] = <<>> =>
        LET Has(op) == {issued[c][n].on : n \in {n \in DOMAIN issued[c] : issued[c][n].op = op}}
            done == Len(executed[c]) = Len(issued[c])
        IN  /\ done => \A w \in DOMAIN level[c] \ Has("destroy") : (<<c, w>> \in visible) <=> level[c][w] >= 1
            /\ ~stale[c] => InList(c) = (Has("create") \ Has("destroy")) \ {TheWindow}

WireSound == AllOnTheWay /\ NotMixed /\ ClientsKnow
=============================================================================
