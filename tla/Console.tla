------------------------------- MODULE Console -------------------------------
(***************************************************************************)
(* The text console (stdio.c): one task prints and erases, and the clock's *)
(* and the keyboard's handlers use the cursor in the middle of it, between *)
(* any two accesses (a ++ is a load and a store).  A handler runs to its   *)
(* end, with interrupts off.  Colours are left out.                        *)
(*                                                                         *)
(* Cells are numbered row by row, as in g_ScreenBuffer.                    *)
(*                                                                         *)
(* A definition with a suffix like _Late is the one without it with a slip *)
(* the code could have; no action uses it.                                 *)
(***************************************************************************)
EXTENDS Printk, FiniteSets

CONSTANTS
    SCREEN_WIDTH, SCREEN_HEIGHT,
    BYTE,                          \* a register of the CRTC wraps here
    CLOCK_X, CLOCK_Y, CLOCK_LEN,   \* where the clock prints, and at most how much
    Prints,                        \* the calls of printk: [fmt, args]
    KEYS                           \* a bound on the cursor keys struck during one putc

ASSUME ScreenAssumption ==
    /\ SCREEN_WIDTH \in Nat /\ SCREEN_WIDTH > 3
    /\ SCREEN_HEIGHT \in Nat /\ SCREEN_HEIGHT > 1
    /\ BYTE \in Nat \ {0} /\ SCREEN_WIDTH * (SCREEN_HEIGHT + 1) < BYTE * BYTE
\* 60 + 20 <= 80 and 23 < 24: the clock's text ends its row at most.
ASSUME ClockAssumption ==
    /\ CLOCK_X \in Nat /\ CLOCK_Y \in Nat /\ CLOCK_LEN \in Nat \ {0}
    /\ CLOCK_X + CLOCK_LEN <= SCREEN_WIDTH /\ CLOCK_Y < SCREEN_HEIGHT - 1
\* A putc is over before a held key has taken the cursor across the screen.
ASSUME KeysAssumption == KEYS \in Nat /\ KEYS < SCREEN_WIDTH

VARIABLES
    g_ScreenX, g_ScreenY,
    clock,     \* the cells that show what the clock's handler wrote
    crtc,      \* the CRTC: [index, lo, hi]
    text,      \* what the printing task has still to print
    pc,        \* where it is in putc, setcursor or eatc
    loaded,    \* the g_ScreenX a ++ or -- has loaded
    cell,      \* where scrollback is
    pos,       \* the pos of the setcursor under way
    tab,       \* i of the loop of '\t', or -1
    erasing,   \* it is in eatc, not in putc
    struck,    \* history: a cursor key came between the port writes of the last setcursor
    strikes    \* cursor keys struck since the task was last at rest

cursor == <<g_ScreenX, g_ScreenY>>
locals == <<loaded, cell, pos, tab, erasing>>
history == <<struck, strikes>>
vars == <<cursor, clock, crtc, text, pc, locals, history>>

Cell(x, y) == y * SCREEN_WIDTH + x
Goto(place) == pc' = place

\* setcursor() in a handler; it leaves the high register selected.
SetCursor(x, y) ==
    [index |-> "hi", lo |-> Cell(x, y) % BYTE, hi |-> (Cell(x, y) \div BYTE) % BYTE]

\* clrscr(), and nothing printed yet.
Init ==
    /\ g_ScreenX = 0 /\ g_ScreenY = 0
    /\ clock = {}
    /\ crtc = SetCursor(0, 0)
    /\ text = <<>> /\ pc = "rest"
    /\ loaded = 0 /\ cell = 0 /\ pos = 0 /\ tab = -1 /\ erasing = FALSE
    /\ struck = FALSE /\ strikes = 0

-----------------------------------------------------------------------------
(* The printing task *)

CallPrintk(call) ==
    /\ pc = "rest" /\ text = <<>>
    /\ text' = printk(call.fmt, call.args)
    /\ UNCHANGED <<cursor, clock, crtc, pc, locals, history>>

\* putc(c), for the next character or for a blank of a tab.
Char == IF tab >= 0 THEN " " ELSE Head(text)

putc ==
    /\ pc = "rest" /\ text # <<>>
    /\ CASE Char = "\n" -> g_ScreenX' = 0 /\ Goto("down") /\ UNCHANGED tab
         [] Char = "\r" -> g_ScreenX' = 0 /\ Goto("wrap") /\ UNCHANGED tab
         [] Char = "\t" -> tab' = 0 /\ Goto("tab") /\ UNCHANGED g_ScreenX
         [] OTHER -> Goto("glyph") /\ UNCHANGED <<tab, g_ScreenX>>
    /\ strikes' = 0
    /\ UNCHANGED <<g_ScreenY, clock, crtc, text, loaded, cell, pos, erasing, struck>>
Down ==
    /\ pc = "down"
    /\ g_ScreenY' = g_ScreenY + 1
    /\ Goto("wrap")
    /\ UNCHANGED <<g_ScreenX, clock, crtc, text, locals, history>>

\* for (int i = 0; i < 4 - (g_ScreenX % 4); ++i) putc(' ')
Tab ==
    /\ pc = "tab"
    /\ Goto(IF tab < 4 - (g_ScreenX % 4) THEN "glyph" ELSE "wrap")
    /\ tab' = IF tab < 4 - (g_ScreenX % 4) THEN tab ELSE -1
    /\ UNCHANGED <<cursor, clock, crtc, text, loaded, cell, pos, erasing, history>>

putchr ==
    /\ pc = "glyph"
    /\ clock' = clock \ {Cell(g_ScreenX, g_ScreenY)}
    /\ Goto("load")
    /\ UNCHANGED <<cursor, crtc, text, locals, history>>
LoadX ==
    /\ pc = "load"
    /\ loaded' = g_ScreenX
    /\ Goto("store")
    /\ UNCHANGED <<cursor, clock, crtc, text, cell, pos, tab, erasing, history>>
StoreX ==
    /\ pc = "store"
    /\ g_ScreenX' = IF erasing THEN loaded - 1 ELSE loaded + 1
    /\ loaded' = 0
    /\ Goto(IF erasing THEN "setcursor" ELSE "wrap")
    /\ UNCHANGED <<g_ScreenY, clock, crtc, text, cell, pos, tab, erasing, history>>

Wrap ==
    /\ pc = "wrap"
    /\ IF g_ScreenX >= SCREEN_WIDTH
       THEN g_ScreenY' = g_ScreenY + 1 /\ Goto("return")
       ELSE UNCHANGED g_ScreenY /\ Goto("bottom")
    /\ UNCHANGED <<g_ScreenX, clock, crtc, text, locals, history>>
CarriageReturn ==
    /\ pc = "return"
    /\ g_ScreenX' = 0
    /\ Goto("bottom")
    /\ UNCHANGED <<g_ScreenY, clock, crtc, text, locals, history>>

Bottom_Late ==
    /\ pc = "bottom"
    /\ Goto(IF g_ScreenY > SCREEN_HEIGHT THEN "scroll" ELSE "setcursor")
    /\ UNCHANGED <<cursor, clock, crtc, text, locals, history>>
Bottom ==
    /\ pc = "bottom"
    /\ Goto(IF g_ScreenY >= SCREEN_HEIGHT THEN "scroll" ELSE "setcursor")
    /\ UNCHANGED <<cursor, clock, crtc, text, locals, history>>

\* scrollback(1): each cell takes the one below it, the last row's take blanks.
Scrolled_OffByOne(c) ==
    IF c + SCREEN_WIDTH + 1 \in clock /\ c + SCREEN_WIDTH + 1 < SCREEN_WIDTH * SCREEN_HEIGHT
    THEN clock \cup {c} ELSE clock \ {c}
Scrolled(c) ==
    IF c + SCREEN_WIDTH \in clock /\ c + SCREEN_WIDTH < SCREEN_WIDTH * SCREEN_HEIGHT
    THEN clock \cup {c} ELSE clock \ {c}
scrollback ==
    /\ pc = "scroll"
    /\ IF cell < SCREEN_WIDTH * SCREEN_HEIGHT
       THEN clock' = Scrolled(cell) /\ cell' = cell + 1 /\ UNCHANGED <<g_ScreenY, pc>>
       ELSE g_ScreenY' = g_ScreenY - 1 /\ cell' = 0 /\ Goto("setcursor") /\ UNCHANGED clock
    /\ UNCHANGED <<g_ScreenX, crtc, text, loaded, pos, tab, erasing, history>>

\* setcursor(g_ScreenX, g_ScreenY): pos, then four port writes.
ComputePos ==
    /\ pc = "setcursor"
    /\ pos' = Cell(g_ScreenX, g_ScreenY)
    /\ struck' = FALSE
    /\ Goto("select_lo")
    /\ UNCHANGED <<cursor, clock, crtc, text, loaded, cell, tab, erasing, strikes>>
Select(register, at, next) ==
    /\ pc = at
    /\ crtc' = [crtc EXCEPT !.index = register]
    /\ Goto(next)
    /\ UNCHANGED <<cursor, clock, text, locals, history>>
WriteLo ==
    /\ pc = "write_lo"
    /\ crtc' = [crtc EXCEPT ![crtc.index] = pos % BYTE]
    /\ Goto("select_hi")
    /\ UNCHANGED <<cursor, clock, text, locals, history>>

\* The last write; then eatc erases, or putc returns: to the loop of a tab or
\* to its caller, who goes on with the next character.
WriteHi_TabStuck ==
    /\ pc = "write_hi"
    /\ crtc' = [crtc EXCEPT ![crtc.index] = (pos \div BYTE) % BYTE]
    /\ IF erasing THEN Goto("erase") /\ UNCHANGED <<text, tab>>
       ELSE IF tab >= 0 THEN Goto("tab") /\ UNCHANGED <<text, tab>>
       ELSE Goto("rest") /\ text' = Tail(text) /\ UNCHANGED tab
    /\ pos' = 0
    /\ UNCHANGED <<cursor, clock, loaded, cell, erasing, history>>
WriteHi ==
    /\ pc = "write_hi"
    /\ crtc' = [crtc EXCEPT ![crtc.index] = (pos \div BYTE) % BYTE]
    /\ IF erasing THEN Goto("erase") /\ UNCHANGED <<text, tab>>
       ELSE IF tab >= 0 THEN Goto("tab") /\ tab' = tab + 1 /\ UNCHANGED text
       ELSE Goto("rest") /\ text' = Tail(text) /\ UNCHANGED tab
    /\ pos' = 0
    /\ UNCHANGED <<cursor, clock, loaded, cell, erasing, history>>

\* eatc().  At column 0 it goes one column past the end of the row above.
eatc ==
    /\ pc = "rest" /\ text = <<>>
    /\ cursor # <<0, 0>>
    /\ erasing' = TRUE
    /\ IF g_ScreenX > 0
       THEN Goto("load") /\ UNCHANGED cursor
       ELSE /\ g_ScreenX' = SCREEN_WIDTH /\ g_ScreenY' = g_ScreenY - 1
            /\ Goto("setcursor")
    /\ strikes' = 0
    /\ UNCHANGED <<clock, crtc, text, loaded, cell, pos, tab, struck>>
Erase ==
    /\ pc = "erase"
    /\ clock' = clock \ {Cell(g_ScreenX, g_ScreenY)}
    /\ erasing' = FALSE
    /\ Goto("rest")
    /\ UNCHANGED <<cursor, crtc, text, loaded, cell, pos, tab, history>>

PrintStep ==
    \/ putc \/ Down \/ Tab \/ putchr \/ LoadX \/ StoreX \/ Wrap \/ CarriageReturn
    \/ Bottom \/ scrollback
    \/ ComputePos \/ Select("lo", "select_lo", "write_lo") \/ WriteLo
    \/ Select("hi", "select_hi", "write_hi") \/ WriteHi
    \/ Erase

-----------------------------------------------------------------------------
(* The handlers *)

\* print_datetime() or blank_datetime(): n characters at the clock's place, and
\* the cursor back where it was.
ClockCells(n) == Cell(CLOCK_X, CLOCK_Y) .. Cell(CLOCK_X, CLOCK_Y) + n - 1
Clock_LowOnly(n) ==
    /\ clock' = clock \cup ClockCells(n)
    /\ crtc' = [SetCursor(g_ScreenX, g_ScreenY) EXCEPT !.hi = crtc.hi, !.index = "lo"]
    /\ UNCHANGED <<cursor, text, pc, locals, history>>
Clock(n) ==
    /\ clock' = clock \cup ClockCells(n)
    /\ crtc' = SetCursor(g_ScreenX, g_ScreenY)
    /\ UNCHANGED <<cursor, text, pc, locals, history>>

\* The cursor keys: movecursor(75) and movecursor(77).
MoveTo(x) ==
    /\ pc = "rest" \/ strikes < KEYS
    /\ strikes' = IF pc = "rest" THEN 0 ELSE strikes + 1
    /\ g_ScreenX' = x
    /\ crtc' = SetCursor(x, g_ScreenY)
    /\ struck' = (struck \/ pc \in {"select_lo", "write_lo", "select_hi", "write_hi"})
    /\ UNCHANGED <<g_ScreenY, clock, text, pc, locals>>
CursorLeft == g_ScreenX > 2 /\ MoveTo(g_ScreenX - 1)
CursorRight_Unbounded == g_ScreenX <= SCREEN_WIDTH /\ MoveTo(g_ScreenX + 1)
CursorRight == g_ScreenX < SCREEN_WIDTH /\ MoveTo(g_ScreenX + 1)

Next ==
    \/ \E call \in Prints : CallPrintk(call)
    \/ eatc
    \/ PrintStep
    \/ \E n \in 1 .. CLOCK_LEN : Clock(n)
    \/ CursorLeft
    \/ CursorRight

\* The processor goes on with the interrupted task.
Spec == Init /\ [][Next]_vars /\ WF_vars(PrintStep)

-----------------------------------------------------------------------------
(* Properties *)

TypeOK ==
    /\ g_ScreenX \in 0 .. SCREEN_WIDTH + 1
    /\ g_ScreenY \in 0 .. SCREEN_HEIGHT
    /\ crtc \in [index : {"lo", "hi"}, lo : 0 .. BYTE - 1, hi : 0 .. BYTE - 1]
    /\ pc \in {"rest", "down", "tab", "glyph", "load", "store", "wrap", "return", "bottom",
               "scroll", "setcursor", "select_lo", "write_lo", "select_hi", "write_hi", "erase"}
    /\ tab \in -1 .. 4
    /\ pc = "rest" => tab = -1 /\ ~ erasing /\ g_ScreenY < SCREEN_HEIGHT

\* putchr checks nothing, and a cursor key may leave the cursor past the end of the
\* last row.  Whatever the keys do in the middle of putc or eatc, a character is put in
\* a cell of the screen or in the one after the last, and never further.
GlyphsAtMostOneOff ==
    pc \in {"glyph", "erase"} =>
        Cell(g_ScreenX, g_ScreenY) \in 0 .. SCREEN_WIDTH * SCREEN_HEIGHT

\* The clock, printing with the console's cursor in the middle of anything, spoils
\* only its own columns; and of these only its row and what scrolled up from it.
ClockKeepsToItsColumns ==
    \A c \in clock :
        /\ c % SCREEN_WIDTH \in CLOCK_X .. CLOCK_X + CLOCK_LEN - 1
        /\ c \div SCREEN_WIDTH <= CLOCK_Y

\* At rest the hardware's cursor is where the next character goes, although the
\* clock's setcursor can come between any two port writes of another and leaves
\* the other register selected: it writes the same position.  A cursor key struck
\* between them is not followed.
HardwareCursorFollows ==
    pc = "rest" /\ ~ struck => crtc.lo + BYTE * crtc.hi = Cell(g_ScreenX, g_ScreenY)

\* printk prints what the format means.
PrintkRenders ==
    [][\A call \in Prints : CallPrintk(call) => text' = Rendered(call.fmt, call.args)]_vars

\* Every print ends, whatever keys are struck meanwhile; the loop of a tab computes
\* its bound anew each time from a column that moves.
PrintingEnds == text # <<>> ~> text = <<>>
=============================================================================
