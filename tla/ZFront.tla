------------------------------- MODULE ZFront -------------------------------
(***************************************************************************)
(* The front end of the interpreter: hiptop/zmachine/ZDanger.java, which      *)
(* prints, pauses and reads, and ZWindow.java with its dialogs.  The thread   *)
(* of the interpreter (eng) and the one that delivers keys and events (ui)    *)
(* share the fields of ZDanger and the monitor `zm', which KeyPress takes     *)
(* only to notify.  Of the screen the model has where is written, not what.   *)
(***************************************************************************)
EXTENDS Integers, Sequences, FiniteSets, FiniteSetsExt, SequencesExt

CONSTANTS
    ScrW, ScrH,     \* size of the screen, in letters
    PrintTexts,     \* what a game prints: sequences of "x", " " and "nl"
    Splits,         \* heights of the upper window
    MaxTyped,       \* bound: letters of a line
    MaxScrCalls     \* bound: calls of the interpreter

VARIABLES
    eng,            \* the interpreter's thread: where it is, what is left to print
    ui,             \* the other: where it is, with which key, and whether it was inside Read
    scr,            \* the fields of ZDanger
    dialog,         \* ZWindow: the event sent, the dialog, success, saved games
    zmOwner,        \* who is inside synchronized(zm)
    scrCalls,
    prompt          \* where the line being read began, the letters and backspaces since

zfrontVars == <<eng, ui, scr, dialog, zmOwner, scrCalls, prompt>>

Keys == {"x", "back", "enter"}
NoChar == "-1"

ZFrontInit ==
    /\ eng = [pc |-> "run", text |-> <<>>]
    /\ ui = [pc |-> "idle", key |-> "x", raced |-> FALSE]
    /\ scr = [cx |-> 0, cy |-> ScrH - 1, buf |-> <<>>, count |-> 0, buffered |-> TRUE,
              win0h |-> ScrH, win1h |-> 0, win1cx |-> 0, win1cy |-> 0, selected |-> 0,
              input_active |-> FALSE, readchar |-> "0", line |-> FALSE, line_sz |-> 0,
              paused |-> FALSE, moved |-> FALSE, wrong |-> {}, thrown |-> FALSE]
    /\ dialog = [event |-> "none", asked |-> "none", open |-> "none", success |-> FALSE, games |-> 0, early |-> FALSE]
    /\ zmOwner = "none" /\ scrCalls = 0 /\ prompt = [at |-> 0, len |-> 0, backs |-> 0]

-----------------------------------------------------------------------------
\* What went wrong, by whose doing: a line of the lower window that runs on into the
\* next, or an index outside of the screen, which throws an exception.  wrong keeps the
\* first for the properties: whether MoveCursor had `moved' the line's cursor.
Beyond(at, n) == at < 0 \/ at + n > ScrW * ScrH
Wrong(s, why, runsOn, throws) ==
    [s EXCEPT !.wrong = IF runsOn \/ throws THEN @ \cup {why} ELSE @, !.thrown = @ \/ throws]
Moved(s) == IF s.moved THEN "moved" ELSE "plain"

\* What was buffered gets onto the screen, if it belongs to the lower window.
Flush(s) ==
    IF s.selected # 0 \/ ~s.buffered THEN s
    ELSE [Wrong(s, Moved(s), s.cx + Len(s.buf) > ScrW, Beyond(s.cx + s.cy * ScrW, Len(s.buf)))
            EXCEPT !.cx = @ + Len(s.buf), !.buf = <<>>]

\* Slip: the cursor stays where the line ended.
NewLineKeeps(s) ==
    LET f == Flush(s)
    IN  [f EXCEPT !.cy = IF @ + 1 = ScrH THEN @ ELSE @ + 1, !.count = @ + 1]

\* DoNewLine, up to the pause; at the bottom the lower window is scrolled.
NewLine(s) ==
    LET f == Flush(s)
    IN  [Wrong(f, "plain", FALSE, f.cy + 1 = ScrH /\ f.win0h < 1)
            EXCEPT !.cx = 0, !.cy = IF @ + 1 = ScrH THEN @ ELSE @ + 1, !.count = @ + 1, !.moved = FALSE]
MustPause(s) == s.count = s.win0h - 1

\* A letter into the upper window, which does not scroll.
PrintUpper(s, c) ==
    LET wrap == s.win1cx + 1 = ScrW
        put == [Wrong(s, IF s.win1cy < 0 THEN "above" ELSE "plain", FALSE, Beyond(s.win1cx + s.win1cy * ScrW, 1))
                  EXCEPT !.win1cx = IF ~wrap THEN @ + 1 ELSE IF s.win1cy + 1 < s.win1h THEN 0 ELSE @,
                         !.win1cy = IF wrap /\ @ + 1 < s.win1h THEN @ + 1 ELSE @]
        new == IF c = "nl" THEN [s EXCEPT !.win1cy = @ + 1, !.win1cx = 0] ELSE put
    IN  IF s.win1h = 0 THEN s ELSE [new EXCEPT !.win1cy = Min({@, s.win1h - 1})]

\* A letter into the lower one.  A full buffer is broken at its last space, if it has
\* one that is not its first letter.
PrintLower(s, c) ==
    LET full == [s EXCEPT !.buf = Append(@, c)]
        gaps == {i \in 2..Len(full.buf) : full.buf[i] = " "}
        at   == Max(gaps)
        put  == [Wrong(s, Moved(s), s.cx >= ScrW, Beyond(s.cx + s.cy * ScrW, 1)) EXCEPT !.cx = @ + 1]
    IN  IF c = "nl" THEN NewLine(s)
        ELSE IF ~s.buffered THEN IF put.cx = ScrW THEN NewLine(put) ELSE put
        ELSE IF Len(full.buf) < ScrW THEN full
        ELSE IF gaps = {} THEN NewLine(full)
        ELSE [NewLine([full EXCEPT !.buf = SubSeq(@, 1, at - 1)]) EXCEPT
                !.buf = SubSeq(full.buf, at + 1, Len(full.buf))]

PrintOne(s, c) == IF s.selected = 1 THEN PrintUpper(s, c) ELSE PrintLower(s, c)
Paused(s, t) == t.count # s.count /\ MustPause(t)

-----------------------------------------------------------------------------
Unlocked == zmOwner = "none"
CallScr == eng.pc = "run" /\ scrCalls < MaxScrCalls /\ scrCalls' = scrCalls + 1

PrintOut(text) ==
    /\ CallScr /\ eng' = [pc |-> "print", text |-> text]
    /\ UNCHANGED <<ui, scr, dialog, zmOwner, prompt>>

PrintLetter ==
    /\ eng.pc = "print"
    /\ IF eng.text = <<>> THEN eng' = [eng EXCEPT !.pc = "run"] /\ UNCHANGED scr
       ELSE LET t == PrintOne(scr, Head(eng.text))
            IN  /\ scr' = t
                /\ eng' = [pc |-> IF Paused(scr, t) THEN "pause" ELSE "print", text |-> Tail(eng.text)]
    /\ UNCHANGED <<ui, dialog, zmOwner, scrCalls, prompt>>

\* Slip: the pause is announced before the monitor is taken.
PauseEarly ==
    \/ /\ eng.pc = "pause" /\ ~scr.paused
       /\ scr' = [scr EXCEPT !.paused = TRUE]
       /\ UNCHANGED <<eng, ui, dialog, zmOwner, scrCalls, prompt>>
    \/ /\ eng.pc = "pause" /\ Unlocked
       /\ eng' = [eng EXCEPT !.pc = "paused"]
       /\ UNCHANGED <<ui, scr, dialog, zmOwner, scrCalls, prompt>>

\* [MORE]: inside the monitor, `paused' and then the wait.
Pause ==
    /\ eng.pc = "pause" /\ Unlocked
    /\ scr' = [scr EXCEPT !.paused = TRUE]
    /\ eng' = [eng EXCEPT !.pc = "paused"]
    /\ UNCHANGED <<ui, dialog, zmOwner, scrCalls, prompt>>

Resume ==
    /\ eng.pc = "resumed" /\ Unlocked
    /\ scr' = [scr EXCEPT !.count = 0] /\ eng' = [eng EXCEPT !.pc = "print"]
    /\ UNCHANGED <<ui, dialog, zmOwner, scrCalls, prompt>>

\* SetWindow, SplitWindow, EraseWindow(-1) and MoveCursor.
SetWindow(num) ==
    /\ CallScr
    /\ scr' = IF num = 1 THEN [scr EXCEPT !.selected = 1, !.win1cx = 0, !.win1cy = 0]
              ELSE [scr EXCEPT !.selected = 0]
    /\ UNCHANGED <<eng, ui, dialog, zmOwner, prompt>>

SplitWindow(height) ==
    /\ CallScr
    /\ scr' = [scr EXCEPT !.win1h = height, !.win0h = ScrH - height]
    /\ UNCHANGED <<eng, ui, dialog, zmOwner, prompt>>

EraseWindow ==
    /\ CallScr
    /\ scr' = [scr EXCEPT !.win1h = 0, !.win0h = ScrH, !.cx = 0, !.cy = 0, !.win1cx = 0, !.win1cy = 0,
                          !.selected = 0, !.count = 0, !.moved = FALSE]
    /\ UNCHANGED <<eng, ui, dialog, zmOwner, prompt>>

Within(n, limit) == Min({Max({n - 1, 0}), limit - 1})

\* The column and line count from 1.  What is buffered goes where the cursor is moved
\* to; and an upper window without lines has its cursor above the screen.
MoveCursor(x, y) ==
    /\ CallScr
    /\ scr' = IF scr.selected = 0
              THEN [scr EXCEPT !.cx = Within(x, ScrW), !.cy = Min({scr.win1h + Max({y - 1, 0}), ScrH - 1}),
                               !.moved = Within(x, ScrW) > 0]
              ELSE [scr EXCEPT !.win1cx = Within(x, ScrW), !.win1cy = Within(y, scr.win1h)]
    /\ UNCHANGED <<eng, ui, dialog, zmOwner, prompt>>

-----------------------------------------------------------------------------
\* Read: inside the monitor, and yet KeyPress looks in between.
ReadChar ==
    /\ CallScr /\ Unlocked
    /\ zmOwner' = "eng" /\ eng' = [eng EXCEPT !.pc = "read"]
    /\ scr' = [scr EXCEPT !.input_active = TRUE]
    /\ UNCHANGED <<ui, dialog, prompt>>

ReadWait ==
    /\ eng.pc = "read"
    /\ scr' = [scr EXCEPT !.readchar = NoChar]
    /\ zmOwner' = "none" /\ eng' = [eng EXCEPT !.pc = "char"]
    /\ UNCHANGED <<ui, dialog, scrCalls, prompt>>

\* Slip: lines that the user has read still count.
CountOn(s) == s
CountAgain(s) == [s EXCEPT !.count = 0]

\* ReadLine, from the prompt's way to the screen.  Games read lines in the lower window.
ReadLine ==
    LET s == CountAgain(Flush(scr))
    IN  /\ CallScr /\ Unlocked /\ scr.selected = 0
        /\ zmOwner' = "eng" /\ eng' = [eng EXCEPT !.pc = "readline"]
        /\ scr' = [s EXCEPT !.buffered = FALSE, !.line = TRUE, !.input_active = TRUE]
        /\ prompt' = [at |-> s.cx, len |-> 0, backs |-> 0]
        /\ UNCHANGED <<ui, dialog>>

ReadLineWait ==
    /\ eng.pc = "readline"
    /\ scr' = [scr EXCEPT !.line_sz = 0]
    /\ zmOwner' = "none" /\ eng' = [eng EXCEPT !.pc = "line"]
    /\ UNCHANGED <<ui, dialog, scrCalls, prompt>>

ReadDone ==
    /\ eng.pc \in {"gotchar", "gotline"} /\ Unlocked
    /\ eng' = [eng EXCEPT !.pc = "run"]
    /\ scr' = IF eng.pc = "gotline" THEN [scr EXCEPT !.line = FALSE, !.buffered = TRUE] ELSE scr
    /\ UNCHANGED <<ui, dialog, zmOwner, scrCalls, prompt>>

-----------------------------------------------------------------------------
\* KeyPress.  What it finds decides; it does not hold the monitor meanwhile.
KeyDown(key) ==
    /\ ui.pc = "idle" /\ ui' = [ui EXCEPT !.pc = "key", !.key = key]
    /\ UNCHANGED <<eng, scr, dialog, zmOwner, scrCalls, prompt>>

\* Somebody who waits on zm goes on; if nobody does, nothing happens.
Woken == CASE eng.pc = "paused" -> "resumed" [] eng.pc = "char" -> "gotchar" [] eng.pc = "line" -> "gotline"
           [] OTHER -> eng.pc

\* The key ends a pause.
KeyEndsPause ==
    /\ ui.pc = "key" /\ scr.paused /\ Unlocked
    /\ scr' = [scr EXCEPT !.paused = FALSE]
    /\ eng' = [eng EXCEPT !.pc = Woken] /\ ui' = [ui EXCEPT !.pc = "idle"]
    /\ UNCHANGED <<dialog, zmOwner, scrCalls, prompt>>

KeyIgnored ==
    /\ ui.pc = "key" /\ ~scr.paused /\ ~scr.input_active
    /\ ui' = [ui EXCEPT !.pc = "idle"]
    /\ UNCHANGED <<eng, scr, dialog, zmOwner, scrCalls, prompt>>

Typing == ui.pc = "key" /\ ~scr.paused /\ scr.input_active
After(pc) == [ui EXCEPT !.pc = pc, !.raced = @ \/ eng.pc \in {"read", "readline"}]

KeyIsChar ==
    /\ Typing /\ scr.readchar = NoChar
    /\ scr' = [scr EXCEPT !.readchar = ui.key] /\ ui' = [ui EXCEPT !.pc = "answer"]
    /\ UNCHANGED <<eng, dialog, zmOwner, scrCalls, prompt>>

\* Enter: a new line, for which this thread may have to wait itself.
KeyEnter ==
    LET t == NewLine(scr)
    IN  /\ Typing /\ scr.readchar # NoChar /\ ui.key = "enter"
        /\ scr' = t /\ ui' = After(IF MustPause(t) THEN "pause" ELSE "answer")
        /\ UNCHANGED <<eng, dialog, zmOwner, scrCalls, prompt>>

KeyBack ==
    /\ Typing /\ prompt.backs < MaxTyped /\ scr.readchar # NoChar /\ ui.key = "back"
    /\ scr' = IF scr.line_sz = 0 THEN scr
              ELSE IF scr.cx > 0 THEN [scr EXCEPT !.cx = @ - 1, !.line_sz = @ - 1]
              ELSE [Wrong(scr, "plain", FALSE, scr.cy = 0) EXCEPT !.cx = ScrW - 1, !.cy = @ - 1, !.line_sz = @ - 1]
    /\ prompt' = [prompt EXCEPT !.backs = @ + 1]
    /\ ui' = After("idle")
    /\ UNCHANGED <<eng, dialog, zmOwner, scrCalls>>

\* A letter is put into the line, if there is one (else NullPointerException), and shown.
KeyLetter ==
    LET t == PrintOne([scr EXCEPT !.line_sz = @ + 1], "x")
    IN  /\ Typing /\ scr.readchar # NoChar /\ ui.key = "x" /\ Max({scr.line_sz, prompt.len}) < MaxTyped
        /\ prompt' = IF scr.line THEN [prompt EXCEPT !.len = @ + 1] ELSE prompt
        /\ scr' = IF scr.line THEN t ELSE [scr EXCEPT !.line_sz = @ + 1]
        /\ ui' = After(IF scr.line /\ Paused(scr, t) THEN "pause" ELSE "idle")
        /\ UNCHANGED <<eng, dialog, zmOwner, scrCalls>>

KeyAnswers ==
    /\ ui.pc = "answer" /\ Unlocked
    /\ scr' = [scr EXCEPT !.input_active = FALSE]
    /\ eng' = [eng EXCEPT !.pc = Woken] /\ ui' = [ui EXCEPT !.pc = "idle"]
    /\ UNCHANGED <<dialog, zmOwner, scrCalls, prompt>>

\* The thread of the keys waits for a key.
UiPause ==
    /\ ui.pc = "pause" /\ Unlocked
    /\ scr' = [scr EXCEPT !.paused = TRUE] /\ ui' = [ui EXCEPT !.pc = "waits"]
    /\ UNCHANGED <<eng, dialog, zmOwner, scrCalls, prompt>>

-----------------------------------------------------------------------------
\* Save and Restore of ZWindow: the event, and then waitForUI.
SaveOrRestore(event) ==
    /\ CallScr
    /\ dialog' = [dialog EXCEPT !.event = event, !.asked = event, !.early = FALSE] /\ eng' = [eng EXCEPT !.pc = "ask"]
    /\ UNCHANGED <<ui, scr, zmOwner, prompt>>

WaitForUI ==
    /\ eng.pc = "ask"
    /\ dialog' = [dialog EXCEPT !.success = FALSE] /\ eng' = [eng EXCEPT !.pc = "asked"]
    /\ UNCHANGED <<ui, scr, zmOwner, scrCalls, prompt>>

\* notifyEngine, which nobody may be waiting for yet.
NotifyEngine(status) ==
    eng' = IF eng.pc = "asked" THEN [eng EXCEPT !.pc = "answered"] ELSE eng

\* receiveEvent: without saved games there is nothing to choose from.
DoEvent ==
    /\ ui.pc = "idle" /\ dialog.event # "none"
    /\ IF dialog.event = "restore" /\ dialog.games = 0
       THEN /\ NotifyEngine(FALSE)
            /\ dialog' = [dialog EXCEPT !.event = "none", !.success = FALSE, !.early = eng.pc # "asked"]
       ELSE dialog' = [dialog EXCEPT !.event = "none", !.open = dialog.event] /\ UNCHANGED eng
    /\ UNCHANGED <<ui, scr, zmOwner, scrCalls, prompt>>

\* Slip: a cancelled dialog tells nobody.
DialogClosedSilent(ok) ==
    /\ ui.pc = "idle" /\ dialog.open # "none"
    /\ IF ok THEN NotifyEngine(ok) ELSE UNCHANGED eng
    /\ dialog' = [dialog EXCEPT !.open = "none", !.success = ok, !.early = ok /\ eng.pc # "asked"]
    /\ UNCHANGED <<ui, scr, zmOwner, scrCalls, prompt>>

DialogClosed(ok) ==
    /\ ui.pc = "idle" /\ dialog.open # "none"
    /\ NotifyEngine(ok)
    /\ dialog' = [dialog EXCEPT !.open = "none", !.success = ok, !.early = eng.pc # "asked"]
    /\ UNCHANGED <<ui, scr, zmOwner, scrCalls, prompt>>

\* Save() writes a record and says so if the user agreed, and returns TRUE in any case.
DialogAnswered ==
    LET saves == dialog.asked = "save" /\ dialog.success
    IN  /\ eng.pc = "answered"
        /\ dialog' = IF saves THEN [dialog EXCEPT !.games = Min({1, @ + 1})] ELSE dialog
        /\ eng' = IF saves THEN [pc |-> "print", text |-> <<"x", "nl">>] ELSE [eng EXCEPT !.pc = "run"]
        /\ UNCHANGED <<ui, scr, zmOwner, scrCalls, prompt>>

\* An exception ends the game.  ZDanger.run begins another with the fields as they are;
\* nothing is said of that.
ZFrontStep ==
    \/ \E text \in PrintTexts : PrintOut(text)
    \/ PrintLetter \/ Pause \/ Resume
    \/ \E num \in {0, 1} : SetWindow(num)
    \/ \E height \in Splits : SplitWindow(height)
    \/ EraseWindow
    \/ \E x \in {0, ScrW + 1}, y \in {0, ScrH + 1} : MoveCursor(x, y)
    \/ ReadChar \/ ReadWait \/ ReadLine \/ ReadLineWait \/ ReadDone
    \/ \E key \in Keys : KeyDown(key)
    \/ KeyEndsPause \/ KeyIgnored \/ KeyIsChar \/ KeyEnter \/ KeyBack \/ KeyLetter \/ KeyAnswers \/ UiPause
    \/ \E event \in {"save", "restore"} : SaveOrRestore(event)
    \/ WaitForUI \/ DoEvent
    \/ \E ok \in BOOLEAN : DialogClosed(ok)
    \/ DialogAnswered

ZFrontNext == ~scr.thrown /\ ZFrontStep

ZFrontSpec == ZFrontInit /\ [][ZFrontNext]_zfrontVars
-----------------------------------------------------------------------------
\* Nothing is written outside the screen, and no line of the lower window runs on into
\* the next, in whatever order a game prints, reads and changes windows; but for a line
\* whose cursor MoveCursor has put beyond its first column, as the buffer is as long as
\* a whole line; an upper window that was without lines when MoveCursor put its cursor
\* there; and a key that is handled while Read or ReadLine has not yet begun to wait.
WritesOnScreen == scr.wrong \subseteq {"moved", "above"} \/ ui.raced

\* The interpreter waits only for what the next key, or the answer to a dialog that is
\* open or asked for, will end; only an answer that came before the wait is missed.
WaiterCanBeWoken ==
    /\ eng.pc = "paused" => scr.paused
    /\ eng.pc \in {"char", "line"} => scr.input_active
    /\ eng.pc = "asked" => dialog.event # "none" \/ dialog.open # "none" \/ dialog.early

\* The thread that delivers the keys waits for a key itself only when a line is so long
\* that, with its prompt, it fills the lower window, or in that same race; a line that is
\* shortened over its left edge counts as a new one.
UiWaitsForLongLines ==
    ui.pc = "waits" /\ ~ui.raced => (prompt.at + prompt.len) \div ScrW + 1 + prompt.backs >= scr.win0h - 1

\* The two threads of the front end, the game's and that of the keys: both stay on
\* the screen, and neither waits for what nobody will do.
GameGoesOn == WritesOnScreen /\ WaiterCanBeWoken /\ UiWaitsForLongLines
=============================================================================
