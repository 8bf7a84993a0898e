------------------------------ MODULE Console ------------------------------
(***************************************************************************)
(* The virtual consoles of the console server, srv/console2/console.c: the *)
(* thread that prints what programs send and the thread of the keyboard     *)
(* share the consoles and their locks; the keyboard changes the console on  *)
(* the screen.  What a console shows is the number of characters it has.    *)
(***************************************************************************)
EXTENDS Integers, Sequences, FiniteSets

CONSTANTS
    Console,      \* the consoles; the code has ten
    First,        \* the one shown at the start
    MaxText       \* bound: characters printed on one console

ASSUME ConsoleAssumption == First \in Console /\ MaxText \in Nat

VARIABLES
    active,
    vscr,         \* each console: who holds its lock, where its data is
    screen,       \* whose characters the screen's memory has, and how many
    back,         \* how many characters each buffer has
    written,      \* how many were printed on each console
    kbd, out      \* the threads: where they are, for which console

consoleVars == <<active, vscr, screen, back, written, kbd, out>>

Nobody == "nobody"

\* console_main has loaded con[0] and started the keyboard's thread.
ConsoleInit ==
    /\ active = First
    /\ vscr = [i \in Console |-> [lock |-> Nobody, data |-> IF i = First THEN "screen" ELSE "back"]]
    /\ screen = [of |-> First, n |-> 0]
    /\ back = [i \in Console |-> 0]
    /\ written = [i \in Console |-> 0]
    /\ kbd = [pc |-> "irq", at |-> First]
    /\ out = [pc |-> "recv", at |-> First]

SemAcquireC(i, t) == vscr[i].lock = Nobody /\ vscr' = [vscr EXCEPT ![i].lock = t]
SemReleaseC(i) == vscr' = [vscr EXCEPT ![i].lock = Nobody]

\* char_to_virtscreen: one more character in the memory the console's data is in.
PutChar(i) ==
    /\ written[i] < MaxText
    /\ written' = [written EXCEPT ![i] = @ + 1]
    /\ IF vscr[i].data = "screen"
       THEN screen' = (IF screen.of = i THEN [screen EXCEPT !.n = @ + 1] ELSE [of |-> Nobody, n |-> 0])
            /\ UNCHANGED back
       ELSE back' = [back EXCEPT ![i] = @ + 1] /\ UNCHANGED screen

-----------------------------------------------------------------------------
\* console_thread: `active' is read once, for the whole message, before its lock.
OutRecv ==
    /\ out.pc = "recv"
    /\ out' = [pc |-> "lock", at |-> active]
    /\ UNCHANGED <<active, vscr, screen, back, written, kbd>>

OutLock ==
    /\ out.pc = "lock"
    /\ SemAcquireC(out.at, "out")
    /\ out' = [out EXCEPT !.pc = "puts"]
    /\ UNCHANGED <<active, screen, back, written, kbd>>

OutPut ==
    /\ out.pc = "puts"
    /\ PutChar(out.at)
    /\ UNCHANGED <<active, vscr, kbd, out>>

OutUnlock ==
    /\ out.pc = "puts"
    /\ SemReleaseC(out.at)
    /\ out' = [out EXCEPT !.pc = "recv"]
    /\ UNCHANGED <<active, screen, back, written, kbd>>

-----------------------------------------------------------------------------
KbdGoes(pc) == kbd' = [kbd EXCEPT !.pc = pc]

\* A key is shown on the active console and sent on, and a function key, or the
\* debugger, leaves the active console.
Key ==
    /\ kbd.pc = "irq"
    /\ \/ KbdGoes("key") \/ \E i \in Console : kbd' = [pc |-> "save", at |-> i]
    /\ UNCHANGED <<active, vscr, screen, back, written, out>>

KeyPress ==
    /\ kbd.pc = "key"
    /\ SemAcquireC(active, "kbd")
    /\ KbdGoes("echo")
    /\ UNCHANGED <<active, screen, back, written, out>>

KeyEcho ==
    /\ kbd.pc = "echo"
    /\ PutChar(active) \/ UNCHANGED <<written, screen, back>>
    /\ SemReleaseC(active)
    /\ KbdGoes("irq")
    /\ UNCHANGED <<active, out>>

\* Slip: save does not wait for the lock.
SaveCopyUnlocked ==
    /\ kbd.pc = "save"
    /\ back' = IF vscr[active].data = "screen" THEN [back EXCEPT ![active] = screen.n] ELSE back
    /\ KbdGoes("saved")
    /\ UNCHANGED <<active, vscr, screen, written, out>>

\* save(active), in two steps under the lock: the text is copied, and the console
\* goes on in its own memory.
SaveCopy ==
    /\ kbd.pc = "save"
    /\ SemAcquireC(active, "kbd")
    /\ back' = IF vscr[active].data = "screen" THEN [back EXCEPT ![active] = screen.n] ELSE back
    /\ KbdGoes("saved")
    /\ UNCHANGED <<active, screen, written, out>>

\* Slip: the console that was on the screen keeps writing there.
SaveDoneKeep ==
    /\ kbd.pc = "saved"
    /\ vscr' = [vscr EXCEPT ![active].lock = Nobody]
    /\ KbdGoes("function")
    /\ UNCHANGED <<active, screen, back, written, out>>

SaveDone ==
    /\ kbd.pc = "saved"
    /\ vscr' = [vscr EXCEPT ![active] = [lock |-> Nobody, data |-> "back"]]
    /\ KbdGoes("function")
    /\ UNCHANGED <<active, screen, back, written, out>>

Function ==
    /\ kbd.pc = "function"
    /\ active' = kbd.at
    /\ KbdGoes("load")
    /\ UNCHANGED <<vscr, screen, back, written, out>>

\* load: the console writes to the screen from now on, and then its text is copied.
Load ==
    /\ kbd.pc = "load"
    /\ SemAcquireC(kbd.at, "kbd")
    /\ KbdGoes("copy")
    /\ UNCHANGED <<active, screen, back, written, out>>

LoadCopy ==
    /\ kbd.pc = "copy"
    /\ screen' = IF vscr[kbd.at].data = "back" THEN [of |-> kbd.at, n |-> back[kbd.at]] ELSE screen
    /\ vscr' = [vscr EXCEPT ![kbd.at] = [lock |-> Nobody, data |-> "screen"]]
    /\ active' = kbd.at
    /\ KbdGoes("irq")
    /\ UNCHANGED <<back, written, out>>

ConsoleNext ==
    \/ OutRecv \/ OutLock \/ OutPut \/ OutUnlock
    \/ Key \/ KeyPress \/ KeyEcho \/ SaveCopy \/ SaveDone \/ Function \/ Load \/ LoadCopy

ConsoleSpec == ConsoleInit /\ [][ConsoleNext]_consoleVars
-----------------------------------------------------------------------------
\* At most one console writes to the screen, the active one, and unless a switch is
\* under way it is on the screen.
OneOnScreen ==
    /\ \A i \in Console : vscr[i].data = "screen" => i = active
    /\ kbd.pc \in {"irq", "key", "echo", "save"} => vscr[active].data = "screen"

\* Whatever is printed while consoles are switched is shown, now or when its
\* console comes back: nothing is lost, and nothing lands on another console.
TextKept ==
    \A i \in Console : written[i] =
        IF vscr[i].data = "back" THEN back[i] ELSE IF screen.of = i THEN screen.n ELSE -1

\* vcswitch and the output of a console that is switched away: one console on the
\* screen, and each one's text complete.
ConsolesKept == OneOnScreen /\ TextKept
=============================================================================
