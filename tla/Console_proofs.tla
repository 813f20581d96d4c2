--------------------------- MODULE Console_proofs ---------------------------
(***************************************************************************)
(* Theorems about Console for every size of screen, every place of the     *)
(* clock and every way the handlers interrupt the task that prints.        *)
(***************************************************************************)
EXTENDS Console, TLAPS

-----------------------------------------------------------------------------
(* Arithmetic of cells                                                     *)

\* A quotient and a remainder are the only ones.
LEMMA DivisionIsUnique ==
    ASSUME NEW m \in Nat \ {0}, NEW q \in Nat, NEW r \in 0 .. m - 1
    PROVE  (q * m + r) % m = r /\ (q * m + r) \div m = q
<1> DEFINE n == q * m + r
           q2 == n \div m
           r2 == n % m
<1>1. n \in Nat /\ q2 \in Nat /\ r2 \in 0 .. m - 1 /\ n = q2 * m + r2
  OBVIOUS
<1>2. (q - q2) * m = r2 - r
  BY <1>1
<1>3. q = q2
  <2>1. CASE q > q2
    <3>1. (q - q2) * m >= m
      BY <1>1, <2>1
    <3> QED BY <1>1, <1>2, <3>1
  <2>2. CASE q < q2
    <3>1. (q2 - q) * m >= m
      BY <1>1, <2>2
    <3>2. (q2 - q) * m = r - r2
      BY <1>1
    <3> QED BY <1>1, <3>1, <3>2
  <2> QED BY <1>1, <2>1, <2>2
<1>4. r = r2
  BY <1>1, <1>3
<1> QED BY <1>3, <1>4

\* Quotient and remainder.
LEMMA Division ==
    ASSUME NEW m \in Nat \ {0}, NEW n \in Nat
    PROVE  n \div m \in Nat /\ n % m \in 0 .. m - 1 /\ n = (n \div m) * m + (n % m)
  OBVIOUS

\* A cell on the screen, the one past a row's end included.
LEMMA CellRange ==
    ASSUME NEW x \in 0 .. SCREEN_WIDTH, NEW y \in 0 .. SCREEN_HEIGHT - 1
    PROVE  Cell(x, y) \in 0 .. SCREEN_WIDTH * SCREEN_HEIGHT
<1>1. SCREEN_WIDTH \in Nat /\ SCREEN_HEIGHT \in Nat
  BY ScreenAssumption
<1>2. y * SCREEN_WIDTH <= (SCREEN_HEIGHT - 1) * SCREEN_WIDTH
  BY <1>1
<1>3. (SCREEN_HEIGHT - 1) * SCREEN_WIDTH + SCREEN_WIDTH = SCREEN_WIDTH * SCREEN_HEIGHT
  BY <1>1
<1>4. y * SCREEN_WIDTH \in Nat
  BY <1>1
<1> QED BY <1>1, <1>2, <1>3, <1>4 DEF Cell

LEMMA CellIsNat ==
    ASSUME NEW x \in Nat, NEW y \in Nat
    PROVE  Cell(x, y) \in Nat
<1>1. y * SCREEN_WIDTH \in Nat
  BY ScreenAssumption
<1> QED BY <1>1 DEF Cell

-----------------------------------------------------------------------------
(* Where the cursor can be at each place of putc and eatc                  *)

Ports == {"select_lo", "write_lo", "select_hi", "write_hi"}
Erasing ==
    {"load", "store", "setcursor", "select_lo", "write_lo", "select_hi", "write_hi", "erase"}
Printing ==
    {"rest", "down", "tab", "glyph", "load", "store", "wrap", "return", "bottom", "scroll",
     "setcursor", "select_lo", "write_lo", "select_hi", "write_hi", "erase"}

\* The task's own column is at most one past the row's end, and there only until
\* the row is wrapped.  A row is counted up twice, by '\n' and by a wrap, only if the
\* cursor keys take the cursor across the row in between.
CursorInv ==
    /\ g_ScreenX \in 0 .. SCREEN_WIDTH + 1 /\ g_ScreenY \in 0 .. SCREEN_HEIGHT
    /\ loaded \in 0 .. SCREEN_WIDTH /\ strikes \in 0 .. KEYS
    /\ pc \in Printing /\ tab \in -1 .. 4
    /\ g_ScreenX = SCREEN_WIDTH + 1 => pc \in {"wrap", "return"}
    /\ g_ScreenY = SCREEN_HEIGHT => pc \in {"wrap", "return", "bottom", "scroll"}
    /\ pc = "down" \/ (pc = "wrap" /\ g_ScreenY = SCREEN_HEIGHT) => g_ScreenX <= strikes
    /\ pc = "scroll" => g_ScreenY = SCREEN_HEIGHT
    /\ pc \in {"rest", "down"} => tab = -1 /\ ~ erasing
    /\ tab = 4 => pc = "tab"
    /\ pc = "tab" => tab >= 0
    /\ erasing => pc \in Erasing /\ tab = -1
    /\ erasing /\ pc = "load" => g_ScreenX > 0
    /\ erasing /\ pc = "store" => loaded > 0
    /\ pc = "erase" => erasing

LEMMA Sizes ==
    /\ SCREEN_WIDTH \in Nat /\ SCREEN_WIDTH > 3 /\ SCREEN_HEIGHT \in Nat /\ SCREEN_HEIGHT > 1
    /\ KEYS \in Nat /\ KEYS < SCREEN_WIDTH
  BY ScreenAssumption, KeysAssumption

LEMMA CursorInit == Init => CursorInv
  BY Sizes DEF Init, CursorInv, Printing

LEMMA CursorNext == CursorInv /\ [Next]_vars => CursorInv'
<1> SUFFICES ASSUME CursorInv, [Next]_vars PROVE CursorInv'
  OBVIOUS
<1> USE Sizes DEF CursorInv, Printing, Erasing, Goto
<1>1. ASSUME NEW call \in Prints, CallPrintk(call) PROVE CursorInv'
  BY <1>1 DEF CallPrintk, cursor, locals, history
<1>2. CASE eatc
  BY <1>2 DEF eatc, cursor
<1>3. CASE putc
  BY <1>3 DEF putc
<1>4. CASE Down
  BY <1>4 DEF Down, locals, history
<1>5. CASE Tab
  <2>1. g_ScreenX % 4 \in 0 .. 3
    OBVIOUS
  <2> QED BY <1>5, <2>1 DEF Tab, cursor, history
<1>6. CASE putchr
  BY <1>6 DEF putchr, cursor, locals, history
<1>7. CASE LoadX
  BY <1>7 DEF LoadX, cursor, history
<1>8. CASE StoreX
  BY <1>8 DEF StoreX, history
<1>9. CASE Wrap
  BY <1>9 DEF Wrap, locals, history
<1>10. CASE CarriageReturn
  BY <1>10 DEF CarriageReturn, locals, history
<1>11. CASE Bottom
  BY <1>11 DEF Bottom, cursor, locals, history
<1>12. CASE scrollback
  BY <1>12 DEF scrollback, history
<1>13. CASE ComputePos
  BY <1>13 DEF ComputePos, cursor
<1>14. CASE Select("lo", "select_lo", "write_lo") \/ Select("hi", "select_hi", "write_hi")
  BY <1>14 DEF Select, cursor, locals, history
<1>15. CASE WriteLo
  BY <1>15 DEF WriteLo, cursor, locals, history
<1>16. CASE WriteHi
  BY <1>16 DEF WriteHi, cursor, history
<1>17. CASE Erase
  BY <1>17 DEF Erase, cursor, history
<1>18. ASSUME NEW n \in 1 .. CLOCK_LEN, Clock(n) PROVE CursorInv'
  BY <1>18 DEF Clock, cursor, locals, history
<1>19. CASE CursorLeft
  BY <1>19 DEF CursorLeft, MoveTo, locals
<1>20. CASE CursorRight
  BY <1>20 DEF CursorRight, MoveTo, locals
<1>21. CASE UNCHANGED vars
  BY <1>21 DEF vars, cursor, locals, history
<1> QED BY <1>1, <1>2, <1>3, <1>4, <1>5, <1>6, <1>7, <1>8, <1>9, <1>10, <1>11, <1>12, <1>13,
           <1>14, <1>15, <1>16, <1>17, <1>18, <1>19, <1>20, <1>21
        DEF Next, PrintStep

\* The cursor is where CursorInv says at every moment.
THEOREM CursorAlways == Spec => []CursorInv
  BY CursorInit, CursorNext, PTL DEF Spec

\* putchr checks nothing; but a character is put at most one cell after the last of the
\* screen, whenever the cursor keys move the cursor in the middle of putc or eatc.
THEOREM GlyphsAtMostOneOffAlways == Spec => []GlyphsAtMostOneOff
<1>1. CursorInv => GlyphsAtMostOneOff
  <2> SUFFICES ASSUME CursorInv, pc \in {"glyph", "erase"}
               PROVE  Cell(g_ScreenX, g_ScreenY) \in 0 .. SCREEN_WIDTH * SCREEN_HEIGHT
    BY DEF GlyphsAtMostOneOff
  <2>1. g_ScreenX \in 0 .. SCREEN_WIDTH /\ g_ScreenY \in 0 .. SCREEN_HEIGHT - 1
    BY Sizes DEF CursorInv
  <2> QED BY <2>1, CellRange
<1> QED BY <1>1, CursorAlways, PTL

-----------------------------------------------------------------------------
(* The cursor of the hardware                                              *)

Registers == [index : {"lo", "hi"}, lo : 0 .. BYTE - 1, hi : 0 .. BYTE - 1]
Shows(n) == crtc.lo = n % BYTE /\ crtc.hi = (n \div BYTE) % BYTE

\* The clock can leave the high register selected before the low one is written:
\* the low byte then goes to the high register, but the clock has written it to the
\* low one too, and the high register is written once more.
CrtcInv ==
    /\ crtc \in Registers /\ pos \in Nat
    /\ pc \in Ports /\ ~ struck => pos = Cell(g_ScreenX, g_ScreenY)
    /\ pc = "write_lo" /\ crtc.index = "hi" /\ ~ struck => crtc.lo = pos % BYTE
    /\ pc \in {"select_hi", "write_hi"} /\ ~ struck => crtc.lo = pos % BYTE
    /\ pc = "write_hi" => crtc.index = "hi"
    /\ pc \in {"rest", "erase"} /\ ~ struck => Shows(Cell(g_ScreenX, g_ScreenY))

\* A byte of a number.
LEMMA ByteRange ==
    ASSUME NEW n \in Nat
    PROVE  n % BYTE \in 0 .. BYTE - 1 /\ (n \div BYTE) % BYTE \in 0 .. BYTE - 1
<1>1. BYTE \in Nat \ {0}
  BY ScreenAssumption
<1>2. n \div BYTE \in Nat
  BY <1>1
<1> QED BY <1>1, <1>2

\* What setcursor does in a handler.
LEMMA SetCursorShows ==
    ASSUME NEW x \in Nat, NEW y \in Nat
    PROVE  /\ SetCursor(x, y) \in Registers
           /\ SetCursor(x, y).index = "hi"
           /\ SetCursor(x, y).lo = Cell(x, y) % BYTE
           /\ SetCursor(x, y).hi = (Cell(x, y) \div BYTE) % BYTE
<1>1. Cell(x, y) \in Nat
  BY CellIsNat
<1> QED BY <1>1, ByteRange DEF SetCursor, Registers

\* A write goes to the register that is selected.
LEMMA Written ==
    ASSUME NEW r \in Registers, NEW b \in 0 .. BYTE - 1
    PROVE  /\ [r EXCEPT ![r.index] = b] \in Registers
           /\ [r EXCEPT ![r.index] = b].index = r.index
           /\ r.index = "lo" => [r EXCEPT ![r.index] = b].lo = b
           /\ r.index = "hi" => /\ [r EXCEPT ![r.index] = b].hi = b
                                /\ [r EXCEPT ![r.index] = b].lo = r.lo
<1>1. CASE r.index = "lo"
  BY <1>1 DEF Registers
<1>2. CASE r.index = "hi"
  BY <1>2 DEF Registers
<1> QED BY <1>1, <1>2 DEF Registers

LEMMA CrtcInit == Init => CrtcInv
  BY SetCursorShows DEF Init, CrtcInv, Shows, Ports

LEMMA CrtcNext == CursorInv /\ CursorInv' /\ CrtcInv /\ [Next]_vars => CrtcInv'
<1> SUFFICES ASSUME CursorInv, CursorInv', CrtcInv, [Next]_vars PROVE CrtcInv'
  OBVIOUS
<1> USE DEF CrtcInv, Shows, Ports, Goto
<1>1. g_ScreenX \in Nat /\ g_ScreenY \in Nat /\ g_ScreenX' \in Nat /\ g_ScreenY' \in Nat
  BY Sizes DEF CursorInv
<1>2. ASSUME NEW call \in Prints, CallPrintk(call) PROVE CrtcInv'
  BY <1>2 DEF CallPrintk, cursor, locals, history, Cell
<1>3. CASE eatc
  BY <1>3 DEF eatc
<1>4. CASE putc
  <2>1. UNCHANGED <<crtc, pos, struck>> /\ pc' \in {"down", "wrap", "tab", "glyph"}
    BY <1>4 DEF putc
  <2> QED BY <2>1
<1>5. CASE Down \/ CarriageReturn
  BY <1>5 DEF Down, CarriageReturn, locals, history
<1>6. CASE Tab
  BY <1>6 DEF Tab, history
<1>7. CASE putchr
  BY <1>7 DEF putchr, locals, history
<1>8. CASE LoadX \/ StoreX
  BY <1>8 DEF LoadX, StoreX, history
<1>9. CASE Wrap \/ Bottom
  BY <1>9 DEF Wrap, Bottom, locals, history
<1>10. CASE scrollback
  BY <1>10 DEF scrollback, history
<1>11. CASE ComputePos
  <2>1. Cell(g_ScreenX, g_ScreenY) \in Nat
    BY <1>1, CellIsNat
  <2> QED BY <1>11, <2>1 DEF ComputePos, cursor, Cell
<1>12. CASE Select("lo", "select_lo", "write_lo")
  BY <1>12 DEF Select, cursor, locals, history, Registers, Cell
<1>13. CASE WriteLo
  <2>1. pos % BYTE \in 0 .. BYTE - 1
    BY ByteRange
  <2>2. crtc' \in Registers /\ (crtc.index = "lo" => crtc'.lo = pos % BYTE)
                            /\ (crtc.index = "hi" => crtc'.lo = crtc.lo)
    BY <1>13, <2>1, Written DEF WriteLo
  <2>3. crtc.index \in {"lo", "hi"}
    BY DEF Registers
  <2> QED BY <1>13, <2>2, <2>3 DEF WriteLo, cursor, locals, history, Cell
<1>14. CASE Select("hi", "select_hi", "write_hi")
  BY <1>14 DEF Select, cursor, locals, history, Registers, Cell
<1>15. CASE WriteHi
  <2>1. (pos \div BYTE) % BYTE \in 0 .. BYTE - 1
    BY ByteRange
  <2>2. crtc' \in Registers /\ crtc'.hi = (pos \div BYTE) % BYTE /\ crtc'.lo = crtc.lo
    BY <1>15, <2>1, Written DEF WriteHi
  <2>3. pc' \in {"erase", "tab", "rest"} /\ pos' = 0
    BY <1>15 DEF WriteHi
  <2> QED BY <1>15, <2>2, <2>3 DEF WriteHi, cursor, history, Cell
<1>16. CASE Erase
  BY <1>16 DEF Erase, cursor, history, Cell
<1>17. ASSUME NEW n \in 1 .. CLOCK_LEN, Clock(n) PROVE CrtcInv'
  <2>1. crtc' = SetCursor(g_ScreenX, g_ScreenY) /\ UNCHANGED <<cursor, pc, pos, struck>>
    BY <1>17 DEF Clock, locals, history
  <2> QED BY <1>1, <2>1, SetCursorShows DEF cursor, Cell
<1>18. ASSUME NEW x, MoveTo(x), g_ScreenX' = x PROVE CrtcInv'
  <2>1. crtc' = SetCursor(g_ScreenX', g_ScreenY') /\ UNCHANGED <<pc, pos>>
        /\ struck' = (struck \/ pc \in Ports)
    BY <1>18 DEF MoveTo, locals
  <2> QED BY <1>1, <2>1, SetCursorShows
<1>19. CASE CursorLeft \/ CursorRight
  BY <1>18, <1>19 DEF CursorLeft, CursorRight, MoveTo
<1>20. CASE UNCHANGED vars
  BY <1>20 DEF vars, cursor, locals, history, Cell
<1> QED BY <1>2, <1>3, <1>4, <1>5, <1>6, <1>7, <1>8, <1>9, <1>10, <1>11, <1>12, <1>13, <1>14,
           <1>15, <1>16, <1>17, <1>19, <1>20
        DEF Next, PrintStep

THEOREM CrtcAlways == Spec => []CrtcInv
  BY CrtcInit, CrtcNext, CursorAlways, PTL DEF Spec

\* Two bytes are enough for a cell.
LEMMA TwoBytes ==
    ASSUME NEW n \in 0 .. BYTE * BYTE - 1
    PROVE  (n % BYTE) + BYTE * ((n \div BYTE) % BYTE) = n
<1> DEFINE q == n \div BYTE
<1>1. BYTE \in Nat \ {0}
  BY ScreenAssumption
<1> HIDE DEF q
<1>2. n \in Nat
  BY <1>1
<1>3. q \in Nat /\ n % BYTE \in 0 .. BYTE - 1 /\ n = q * BYTE + (n % BYTE)
  BY <1>1, <1>2, Division DEF q
<1>4. q < BYTE
  <2>1. CASE q >= BYTE
    <3>1. q * BYTE >= BYTE * BYTE
      BY <1>1, <1>3, <2>1
    <3>2. BYTE * BYTE \in Nat /\ q * BYTE \in Nat /\ n <= BYTE * BYTE - 1
      BY <1>1, <1>3
    <3>3. q * BYTE + (n % BYTE) >= q * BYTE
      BY <1>3, <3>2
    <3> QED BY <1>2, <1>3, <3>1, <3>2, <3>3
  <2> QED BY <1>1, <1>3, <2>1
<1>5. q % BYTE = q
  BY <1>1, <1>3, <1>4
<1> QED BY <1>1, <1>3, <1>5 DEF q

\* At rest the hardware's cursor is the console's, unless a cursor key was struck
\* between the port writes of the last setcursor, wherever the clock came between them.
THEOREM HardwareCursorFollowsAlways == Spec => []HardwareCursorFollows
<1>1. CursorInv /\ CrtcInv => HardwareCursorFollows
  <2> SUFFICES ASSUME CursorInv, CrtcInv, pc = "rest", ~ struck
               PROVE  crtc.lo + BYTE * crtc.hi = Cell(g_ScreenX, g_ScreenY)
    BY DEF HardwareCursorFollows
  <2>1. g_ScreenX \in 0 .. SCREEN_WIDTH /\ g_ScreenY \in 0 .. SCREEN_HEIGHT - 1
    BY Sizes DEF CursorInv
  <2>2. SCREEN_WIDTH * (SCREEN_HEIGHT + 1) = SCREEN_WIDTH * SCREEN_HEIGHT + SCREEN_WIDTH
    BY Sizes
  <2>3. SCREEN_WIDTH * SCREEN_HEIGHT \in Nat /\ BYTE * BYTE \in Nat
    BY ScreenAssumption
  <2>4. SCREEN_WIDTH * SCREEN_HEIGHT < BYTE * BYTE
    BY <2>2, <2>3, Sizes, ScreenAssumption
  <2>5. Cell(g_ScreenX, g_ScreenY) \in 0 .. SCREEN_WIDTH * SCREEN_HEIGHT
    BY <2>1, CellRange
  <2>6. Cell(g_ScreenX, g_ScreenY) \in 0 .. BYTE * BYTE - 1
    BY <2>3, <2>4, <2>5
  <2> QED BY <2>6, TwoBytes DEF CrtcInv, Shows
<1> QED BY <1>1, CursorAlways, CrtcAlways, PTL

\* Wherever putc and eatc are interrupted, the column is at most one past the cell
\* after the row, the row at most the one below the screen, the loop of a tab within
\* its four turns, and the CRTC's registers hold bytes.
THEOREM TypeOKAlways == Spec => []TypeOK
<1>1. CursorInv /\ CrtcInv => TypeOK
  <2> SUFFICES ASSUME CursorInv, CrtcInv PROVE TypeOK
    OBVIOUS
  <2>1. crtc \in Registers
    BY DEF CrtcInv
  <2> QED BY <2>1, Sizes DEF CursorInv, Printing, Registers, TypeOK
<1> QED BY <1>1, CursorAlways, CrtcAlways, PTL

-----------------------------------------------------------------------------
(* The cells that show the clock                                           *)

ClockInv ==
    /\ cell \in Nat
    /\ clock \subseteq Nat
    /\ ClockKeepsToItsColumns

\* What the clock writes stays in its row.
LEMMA ClockCellsPlace ==
    ASSUME NEW n \in 1 .. CLOCK_LEN, NEW c \in ClockCells(n)
    PROVE  /\ c \in Nat
           /\ c % SCREEN_WIDTH \in CLOCK_X .. CLOCK_X + CLOCK_LEN - 1
           /\ c \div SCREEN_WIDTH = CLOCK_Y
<1> DEFINE column == c - CLOCK_Y * SCREEN_WIDTH
<1>1. CLOCK_Y * SCREEN_WIDTH \in Nat /\ SCREEN_WIDTH \in Nat \ {0}
  BY ScreenAssumption, ClockAssumption
<1>2. column \in CLOCK_X .. CLOCK_X + CLOCK_LEN - 1 /\ column \in 0 .. SCREEN_WIDTH - 1
      /\ c = CLOCK_Y * SCREEN_WIDTH + column
  BY <1>1, ScreenAssumption, ClockAssumption DEF ClockCells, Cell
<1> HIDE DEF column
<1>3. (CLOCK_Y * SCREEN_WIDTH + column) % SCREEN_WIDTH = column
      /\ (CLOCK_Y * SCREEN_WIDTH + column) \div SCREEN_WIDTH = CLOCK_Y
  BY <1>1, <1>2, ClockAssumption, DivisionIsUnique
<1>4. CLOCK_Y * SCREEN_WIDTH + column \in Nat
  BY <1>1, <1>2
<1> QED BY <1>2, <1>3, <1>4

\* The cell above: the same column, one row less.
LEMMA CellAbove ==
    ASSUME NEW c \in Nat
    PROVE  /\ (c + SCREEN_WIDTH) % SCREEN_WIDTH = c % SCREEN_WIDTH
           /\ (c + SCREEN_WIDTH) \div SCREEN_WIDTH = (c \div SCREEN_WIDTH) + 1
<1> DEFINE q == c \div SCREEN_WIDTH
           r == c % SCREEN_WIDTH
<1>1. SCREEN_WIDTH \in Nat \ {0}
  BY ScreenAssumption
<1>2. q \in Nat /\ r \in 0 .. SCREEN_WIDTH - 1 /\ c = q * SCREEN_WIDTH + r
  BY <1>1
<1>3. c + SCREEN_WIDTH = (q + 1) * SCREEN_WIDTH + r
  BY <1>1, <1>2
<1>4. q + 1 \in Nat
  BY <1>2
<1> HIDE DEF q, r
<1>5. ((q + 1) * SCREEN_WIDTH + r) % SCREEN_WIDTH = r
      /\ ((q + 1) * SCREEN_WIDTH + r) \div SCREEN_WIDTH = q + 1
  BY <1>1, <1>2, <1>4, DivisionIsUnique
<1> QED BY <1>3, <1>5 DEF q, r

LEMMA ClockInit == Init => ClockInv
  BY DEF Init, ClockInv, ClockKeepsToItsColumns

LEMMA ClockNext == ClockInv /\ [Next]_vars => ClockInv'
<1> SUFFICES ASSUME ClockInv, [Next]_vars PROVE ClockInv'
  OBVIOUS
<1> USE DEF ClockInv, ClockKeepsToItsColumns
<1>1. CASE UNCHANGED <<clock, cell>>
  BY <1>1
<1>2. CASE putchr \/ Erase
  BY <1>2 DEF putchr, Erase, locals
<1>3. CASE scrollback
  <2>1. CASE cell < SCREEN_WIDTH * SCREEN_HEIGHT
    <3>1. clock' = Scrolled(cell) /\ cell' = cell + 1
      BY <1>3, <2>1 DEF scrollback
    <3>2. CASE cell + SCREEN_WIDTH \in clock
      <4>1. cell \div SCREEN_WIDTH + 1 <= CLOCK_Y
            /\ cell % SCREEN_WIDTH \in CLOCK_X .. CLOCK_X + CLOCK_LEN - 1
        BY <3>2, CellAbove
      <4>2. cell \div SCREEN_WIDTH \in Nat
        BY ScreenAssumption
      <4>3. cell \div SCREEN_WIDTH <= CLOCK_Y
        BY <4>1, <4>2, ClockAssumption
      <4> QED BY <3>1, <4>1, <4>3 DEF Scrolled
    <3>3. CASE cell + SCREEN_WIDTH \notin clock
      BY <3>1, <3>3 DEF Scrolled
    <3> QED BY <3>2, <3>3
  <2>2. CASE ~ (cell < SCREEN_WIDTH * SCREEN_HEIGHT)
    <3>1. clock' = clock /\ cell' = 0
      BY <1>3, <2>2 DEF scrollback
    <3> QED BY <3>1
  <2> QED BY <2>1, <2>2
<1>4. ASSUME NEW n \in 1 .. CLOCK_LEN, Clock(n) PROVE ClockInv'
  <2>1. clock' = clock \cup ClockCells(n) /\ cell' = cell
    BY <1>4 DEF Clock, locals
  <2>2. CLOCK_Y \in Nat
    BY ClockAssumption
  <2>3. \A c \in ClockCells(n) :
            /\ c \in Nat
            /\ c % SCREEN_WIDTH \in CLOCK_X .. CLOCK_X + CLOCK_LEN - 1
            /\ c \div SCREEN_WIDTH <= CLOCK_Y
    BY <2>2, ClockCellsPlace
  <2> QED BY <2>1, <2>3
<1>5. ASSUME NEW call \in Prints, CallPrintk(call) PROVE UNCHANGED <<clock, cell>>
  BY <1>5 DEF CallPrintk, locals
<1>6. ASSUME PrintStep, ~ putchr, ~ Erase, ~ scrollback PROVE UNCHANGED <<clock, cell>>
  <2>1. ASSUME putc \/ Tab \/ LoadX \/ StoreX \/ ComputePos \/ WriteHi
        PROVE  UNCHANGED <<clock, cell>>
    BY <2>1 DEF putc, Tab, LoadX, StoreX, ComputePos, WriteHi
  <2>2. ASSUME Down \/ Wrap \/ CarriageReturn \/ Bottom \/ WriteLo
        PROVE  UNCHANGED <<clock, cell>>
    BY <2>2 DEF Down, Wrap, CarriageReturn, Bottom, WriteLo, locals
  <2>3. ASSUME Select("lo", "select_lo", "write_lo") \/ Select("hi", "select_hi", "write_hi")
        PROVE  UNCHANGED <<clock, cell>>
    BY <2>3 DEF Select, locals
  <2> QED BY <1>6, <2>1, <2>2, <2>3 DEF PrintStep
<1>7. ASSUME eatc \/ CursorLeft \/ CursorRight PROVE UNCHANGED <<clock, cell>>
  BY <1>7 DEF eatc, CursorLeft, CursorRight, MoveTo, locals
<1>8. CASE UNCHANGED vars
  BY <1>1, <1>8 DEF vars, locals
<1> QED BY <1>1, <1>2, <1>3, <1>4, <1>5, <1>6, <1>7, <1>8 DEF Next

\* The clock spoils its own columns only, and what scrolled up from its row.
THEOREM ClockKeepsToItsColumnsAlways == Spec => []ClockKeepsToItsColumns
<1>1. ClockInv => ClockKeepsToItsColumns
  BY DEF ClockInv
<1> QED BY <1>1, ClockInit, ClockNext, PTL DEF Spec
=============================================================================
