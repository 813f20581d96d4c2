------------------------------ MODULE Keyboard ------------------------------
(***************************************************************************)
(* The keyboard path: the IRQ 1 handler that translates scan codes and     *)
(* pushes characters into a ring buffer (dev/keyboard.c), and the shell    *)
(* that takes them out and edits a line (shell/shell.c).                   *)
(*                                                                         *)
(* The handler runs with interrupts off, so it is one step; it can come    *)
(* between any two steps of the shell, also inside keyboard_getchar().     *)
(* A character is the key and whether it was shifted: the tables           *)
(* uppercase[] and lowercase[] give two keys two characters.               *)
(*                                                                         *)
(* A definition with a suffix (Advance_Stuck) is the one without it with   *)
(* a slip the code could have; no action uses it.                          *)
(***************************************************************************)
EXTENDS Integers, Sequences

CONSTANTS
    MAX_SIZE,   \* size of kb_buffer (keyboard.c)
    LINE_SIZE,  \* sizeof(input) in Shell_Run
    Codes       \* the bytes the keyboard controller may deliver

ASSUME SizeAssumption ==
    /\ MAX_SIZE \in Nat /\ MAX_SIZE >= 2
    /\ LINE_SIZE \in Nat /\ LINE_SIZE >= 1
    /\ Codes \subseteq 0 .. 255

VARIABLES
    kb_buffer, kb_head, kb_tail,
    g_capsOn, g_capsLock,
    pc,     \* where Shell_Run is: "poll" | "get" | "read" | "advance" | "handle" | "command"
    kb_c,   \* local c of keyboard_getchar
    c,      \* local c of Shell_Run
    input, pos,
    line    \* history: the line as edited so far

keys == <<kb_buffer, kb_head, kb_tail>>
caps == <<g_capsOn, g_capsLock>>
editor == <<input, pos, line>>
vars == <<keys, caps, pc, kb_c, c, editor>>

Slots == 0 .. MAX_SIZE - 1
-----------------------------------------------------------------------------
(* keyboardHandler *)

\* The cases of its switch over the scan code.
EraseCodes == {1, 14}
EnterCode == 28
ShiftCodes == {29, 54, 42}
CapsLockCode == 58
CursorCodes == {56} \cup 59 .. 68 \cup {75, 77}  \* movecursor(), no character
DeadCodes == {87, 88}
ExtendedPrefix == 224

IsRelease(code) == code >= 128
ScanCode(code) == code % 128

\* lowercase[scancode] and uppercase[scancode]
Glyph(scancode, shifted) == [key |-> scancode, upper |-> shifted]
Chars == [key : 0 .. 127, upper : BOOLEAN]
BS == Glyph(14, FALSE)  \* '\b'
NL == Glyph(28, FALSE)  \* '\n'
NUL == Glyph(-1, FALSE) \* '\0', which no key types

\* The character a key press stands for, for the keys that have one.
CharOf(scancode) ==
    CASE scancode \in EraseCodes -> BS
      [] scancode = EnterCode -> NL
      [] OTHER -> Glyph(scancode, g_capsOn \/ g_capsLock)
HasChar(scancode) ==
    scancode \notin ShiftCodes \cup {CapsLockCode} \cup CursorCodes \cup DeadCodes

\* kb_buffer_push(ch): dropped when the slot after the head is the tail.
kb_buffer_push_DropsOldest(ch) ==
    LET following == (kb_head + 1) % MAX_SIZE
    IN  /\ kb_buffer' = [kb_buffer EXCEPT ![kb_head] = ch]
        /\ kb_head' = following
        /\ kb_tail' = IF following = kb_tail THEN (kb_tail + 1) % MAX_SIZE ELSE kb_tail
kb_buffer_push(ch) ==
    LET following == (kb_head + 1) % MAX_SIZE
    IN  IF following # kb_tail
        THEN /\ kb_buffer' = [kb_buffer EXCEPT ![kb_head] = ch]
             /\ kb_head' = following
             /\ UNCHANGED kb_tail
        ELSE UNCHANGED keys

\* A key that types a character, pressed while the cursor is below row 0.
TypeKey(code) ==
    /\ ~ IsRelease(code) /\ HasChar(ScanCode(code))
    /\ kb_buffer_push(CharOf(ScanCode(code)))
    /\ UNCHANGED caps

\* Shift: on while pressed.  (Control, 29, falls into the same case.)
ShiftKey(code) ==
    /\ ScanCode(code) \in ShiftCodes
    /\ g_capsOn' = ~ IsRelease(code)
    /\ UNCHANGED <<keys, g_capsLock>>

CapsLockKey(code) ==
    /\ ScanCode(code) = CapsLockCode /\ ~ IsRelease(code)
    /\ g_capsLock' = ~ g_capsLock
    /\ UNCHANGED <<keys, g_capsOn>>

\* keyboardHandler, on a byte that changes something.  The others (the 0xE0
\* prefix, a released key, a cursor or dead key, a key typed with the cursor
\* on row 0) leave all of this as it is.
keyboardHandler(code) ==
    /\ code # ExtendedPrefix
    /\ TypeKey(code) \/ ShiftKey(code) \/ CapsLockKey(code)
    /\ UNCHANGED <<pc, kb_c, c, editor>>

-----------------------------------------------------------------------------
(* Shell_Run *)

Goto(from, to) == pc = from /\ pc' = to

\* keyboard_haschar() is true; when it is not, the shell yields and polls again.
keyboard_haschar_Unchecked ==
    /\ Goto("poll", "get")
    /\ UNCHANGED <<keys, caps, kb_c, c, editor>>
keyboard_haschar ==
    /\ Goto("poll", "get")
    /\ kb_head # kb_tail
    /\ UNCHANGED <<keys, caps, kb_c, c, editor>>

\* keyboard_getchar(): 0 when empty, else read the slot, and then step past it.
CheckEmpty ==
    /\ pc = "get"
    /\ IF kb_head = kb_tail
       THEN pc' = "handle" /\ c' = NUL
       ELSE pc' = "read" /\ UNCHANGED c
    /\ UNCHANGED <<keys, caps, kb_c, editor>>
ReadSlot ==
    /\ Goto("read", "advance")
    /\ kb_c' = kb_buffer[kb_tail]
    /\ UNCHANGED <<keys, caps, c, editor>>
Advance_Stuck ==
    /\ Goto("advance", "handle")
    /\ c' = kb_c
    /\ UNCHANGED <<keys, caps, kb_c, editor>>
Advance ==
    /\ Goto("advance", "handle")
    /\ kb_tail' = (kb_tail + 1) % MAX_SIZE
    /\ c' = kb_c
    /\ UNCHANGED <<kb_buffer, kb_head, caps, kb_c, editor>>

\* Enter: terminate the line and hand it to send_command().
SubmitLine_Unterminated ==
    /\ c = NL
    /\ Goto("handle", "command")
    /\ UNCHANGED editor
SubmitLine ==
    /\ c = NL
    /\ Goto("handle", "command")
    /\ input' = [input EXCEPT ![pos] = NUL]
    /\ UNCHANGED <<pos, line>>

\* Backspace on a line that has something to erase.
Erase ==
    /\ c = BS /\ pos > 0
    /\ Goto("handle", "poll")
    /\ pos' = pos - 1
    /\ line' = SubSeq(line, 1, Len(line) - 1)
    /\ UNCHANGED input

\* Anything else, a backspace on an empty line included, is kept when there
\* is room beside the terminator.
HasRoom_OffByOne == pos < LINE_SIZE
HasRoom == pos < LINE_SIZE - 1
Insert ==
    /\ c # NL /\ ~ (c = BS /\ pos > 0)
    /\ Goto("handle", "poll")
    /\ IF HasRoom
       THEN /\ input' = [input EXCEPT ![pos] = c]
            /\ pos' = pos + 1
            /\ line' = Append(line, c)
       ELSE UNCHANGED editor

\* send_command(input) returns, and a new prompt is printed.
CommandDone ==
    /\ Goto("command", "poll")
    /\ pos' = 0
    /\ line' = <<>>
    /\ UNCHANGED input

EditLine ==
    /\ SubmitLine \/ Erase \/ Insert \/ CommandDone
    /\ UNCHANGED <<keys, caps, kb_c, c>>

-----------------------------------------------------------------------------
Init ==
    /\ kb_buffer = [s \in Slots |-> NUL]
    /\ kb_head = 0 /\ kb_tail = 0
    /\ g_capsOn = FALSE /\ g_capsLock = FALSE
    /\ pc = "poll"
    /\ kb_c = NUL /\ c = NUL
    /\ input = [i \in 0 .. LINE_SIZE - 1 |-> NUL]
    /\ pos = 0
    /\ line = <<>>

Shell == keyboard_haschar \/ CheckEmpty \/ ReadSlot \/ Advance \/ EditLine

Next == (\E code \in Codes : keyboardHandler(code)) \/ Shell

Spec == Init /\ [][Next]_vars

\* The shell task keeps getting the CPU (Scheduler: EveryReadyTaskRuns), and
\* its commands return.
FairSpec == Spec /\ WF_vars(Shell)

-----------------------------------------------------------------------------
(* Properties *)

\* Every variable keeps its type; above all, the shell's index stays in input[].
TypeOK ==
    /\ kb_buffer \in [Slots -> Chars \cup {NUL}]
    /\ kb_head \in Slots /\ kb_tail \in Slots
    /\ g_capsOn \in BOOLEAN /\ g_capsLock \in BOOLEAN
    /\ pc \in {"poll", "get", "read", "advance", "handle", "command"}
    /\ kb_c \in Chars \cup {NUL} /\ c \in Chars \cup {NUL}
    /\ input \in [0 .. LINE_SIZE - 1 -> Chars \cup {NUL}]
    /\ pos \in 0 .. LINE_SIZE - 1
    /\ line \in Seq(Chars)

\* The buffer's unread characters, from the tail up to the head.
Count == IF kb_head >= kb_tail THEN kb_head - kb_tail ELSE kb_head - kb_tail + MAX_SIZE
SlotAt(i) == IF kb_tail + i < MAX_SIZE THEN kb_tail + i ELSE kb_tail + i - MAX_SIZE
Unread == [i \in 1 .. Count |-> kb_buffer[SlotAt(i - 1)]]

KQ == INSTANCE KeyQueue
        WITH Capacity <- MAX_SIZE - 1, NoChar <- NUL, queue <- Unread, taken <- c

\* With the handler striking at any point of keyboard_getchar(), the ring
\* buffer is a queue: what it accepts comes out once, whole and in order.
FifoDelivery == KQ!Spec

\* The shell never acts on the NUL of an empty keyboard_getchar(): between its
\* keyboard_haschar() and the read, nothing empties the buffer.
NoSpuriousChar == pc = "handle" => c # NUL

\* What send_command() reads from input[], up to the first NUL, is the line as
\* edited: nothing of an earlier, longer line shows behind it.
CommandIsLine ==
    pc = "command" =>
        /\ input[Len(line)] = NUL
        /\ \A i \in 1 .. Len(line) : input[i - 1] = line[i] /\ line[i] # NUL

\* Whatever was typed so far is read in the end, however fast keys come.
KeysAreRead == \A h \in Slots : (kb_head = h) ~> (kb_tail = h)
=============================================================================
