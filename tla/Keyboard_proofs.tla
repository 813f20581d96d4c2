--------------------------- MODULE Keyboard_proofs ---------------------------
(***************************************************************************)
(* Theorems about Keyboard for every size of the buffer and of the line.   *)
(***************************************************************************)
EXTENDS Keyboard, SequenceTheorems, TLAPS

\* Stepping an index of the buffer wraps at its end.
Step(x) == IF x = MAX_SIZE - 1 THEN 0 ELSE x + 1

LEMMA StepIsModulo ==
    ASSUME NEW x \in Slots
    PROVE  (x + 1) % MAX_SIZE = Step(x) /\ Step(x) \in Slots
<1>1. x \in Nat /\ x < MAX_SIZE /\ MAX_SIZE \in Nat /\ MAX_SIZE > 0
  BY SizeAssumption DEF Slots
<1>2. CASE x = MAX_SIZE - 1
  BY <1>1, <1>2 DEF Step, Slots
<1>3. CASE x # MAX_SIZE - 1
  BY <1>1, <1>3 DEF Step, Slots
<1> QED BY <1>2, <1>3

LEMMA CountSlot ==
    ASSUME kb_head \in Slots, kb_tail \in Slots
    PROVE  /\ Count \in 0 .. MAX_SIZE - 1
           /\ Count = 0 <=> kb_head = kb_tail
           /\ Count = MAX_SIZE - 1 <=> Step(kb_head) = kb_tail
           /\ SlotAt(0) = kb_tail
           /\ SlotAt(Count) = kb_head
           /\ \A i \in 0 .. MAX_SIZE - 1 : SlotAt(i) \in Slots
           /\ \A i \in 0 .. Count - 1 : SlotAt(i) # kb_head
  BY SizeAssumption DEF Count, SlotAt, Step, Slots

-----------------------------------------------------------------------------
(* The ring buffer: what handler and shell keep between them.              *)

Places == {"poll", "get", "read", "advance", "handle", "command"}

BufferInv ==
    /\ kb_buffer \in [Slots -> Chars \cup {NUL}]
    /\ kb_head \in Slots /\ kb_tail \in Slots
    /\ g_capsOn \in BOOLEAN /\ g_capsLock \in BOOLEAN
    /\ pc \in Places
    /\ kb_c \in Chars \cup {NUL} /\ c \in Chars \cup {NUL}
    /\ \A i \in 0 .. Count - 1 : kb_buffer[SlotAt(i)] \in Chars
    /\ pc \in {"get", "read", "advance"} => kb_head # kb_tail
    /\ pc = "advance" => kb_c = kb_buffer[kb_tail]
    /\ pc = "handle" => c \in Chars

LEMMA CharTypes ==
    /\ NUL \notin Chars /\ BS \in Chars /\ NL \in Chars /\ BS # NL
    /\ \A code \in Codes : CharOf(ScanCode(code)) \in Chars
<1>1. NUL \notin Chars /\ BS \in Chars /\ NL \in Chars /\ BS # NL
  BY DEF NUL, Chars, BS, NL, Glyph
<1>2. ASSUME NEW code \in Codes PROVE CharOf(ScanCode(code)) \in Chars
  <2>1. ScanCode(code) \in 0 .. 127
    BY SizeAssumption DEF ScanCode
  <2>2. (g_capsOn \/ g_capsLock) \in BOOLEAN
    OBVIOUS
  <2>3. Glyph(ScanCode(code), g_capsOn \/ g_capsLock) \in Chars
    BY <2>1, <2>2 DEF Chars, Glyph
  <2> QED BY <1>1, <2>3 DEF CharOf
<1> QED BY <1>1, <1>2

\* A push either finds MAX_SIZE - 1 unread characters and changes nothing, or
\* adds its character behind them.
LEMMA PushEffect ==
    ASSUME BufferInv, NEW ch \in Chars, kb_buffer_push(ch)
    PROVE  /\ kb_tail' = kb_tail
           /\ \/ UNCHANGED keys
              \/ /\ Count < MAX_SIZE - 1
                 /\ kb_head' = Step(kb_head)
                 /\ kb_buffer' = [kb_buffer EXCEPT ![SlotAt(Count)] = ch]
                 /\ Count' = Count + 1
                 /\ \A i : SlotAt(i)' = SlotAt(i)
<1>1. (kb_head + 1) % MAX_SIZE = Step(kb_head) /\ Step(kb_head) \in Slots
  BY StepIsModulo DEF BufferInv
<1>2. CASE Step(kb_head) = kb_tail
  BY <1>1, <1>2 DEF kb_buffer_push, keys
<1>3. CASE Step(kb_head) # kb_tail
  <2>1. kb_buffer' = [kb_buffer EXCEPT ![kb_head] = ch] /\ kb_head' = Step(kb_head)
        /\ kb_tail' = kb_tail
    BY <1>1, <1>3 DEF kb_buffer_push
  <2>2. SlotAt(Count) = kb_head /\ Count < MAX_SIZE - 1
    BY <1>3, CountSlot, SizeAssumption DEF BufferInv
  <2>3. Count' = Count + 1
    BY <1>1, <1>3, <2>1, SizeAssumption DEF Count, Step, Slots, BufferInv
  <2>4. \A i : SlotAt(i)' = SlotAt(i)
    BY <2>1 DEF SlotAt
  <2> QED BY <2>1, <2>2, <2>3, <2>4
<1> QED BY <1>2, <1>3

\* Stepping the tail takes the first unread character away.
LEMMA AdvanceEffect ==
    ASSUME BufferInv, Advance
    PROVE  /\ kb_tail' = Step(kb_tail) /\ kb_tail' \in Slots
           /\ Count >= 1 /\ Count' = Count - 1
           /\ \A i \in 0 .. Count - 2 : SlotAt(i)' = SlotAt(i + 1)
           /\ c' = kb_buffer[SlotAt(0)] /\ c' \in Chars
           /\ UNCHANGED <<kb_buffer, kb_head>>
<1>1. kb_tail' = Step(kb_tail) /\ kb_tail' \in Slots
  BY StepIsModulo DEF BufferInv, Advance
<1>2. /\ kb_head # kb_tail /\ c' = kb_buffer[kb_tail]
      /\ UNCHANGED <<kb_buffer, kb_head>>
  BY DEF BufferInv, Advance, Goto
<1>3. Count \in 0 .. MAX_SIZE - 1 /\ Count >= 1 /\ SlotAt(0) = kb_tail
  BY <1>2, CountSlot DEF BufferInv
<1>4. Count' = Count - 1
  BY <1>1, <1>2, SizeAssumption DEF Count, Step, Slots, BufferInv
<1>5. \A i \in 0 .. Count - 2 : SlotAt(i)' = SlotAt(i + 1)
  BY <1>1, <1>3, SizeAssumption DEF SlotAt, Step, Slots, BufferInv
<1>6. c' \in Chars
  BY <1>2, <1>3 DEF BufferInv
<1> QED BY <1>1, <1>2, <1>3, <1>4, <1>5, <1>6

\* No action but these two touches the ring or the character taken from it.
LEMMA RingFrame ==
    ASSUME BufferInv, [Next]_vars
    PROVE  \/ UNCHANGED <<keys, c>>
           \/ \E ch \in Chars : kb_buffer_push(ch) /\ UNCHANGED <<pc, kb_c, c>>
           \/ Advance
<1>1. ASSUME NEW code \in Codes, keyboardHandler(code)
      PROVE  \/ UNCHANGED <<keys, c>>
             \/ \E ch \in Chars : kb_buffer_push(ch) /\ UNCHANGED <<pc, kb_c, c>>
  BY <1>1, CharTypes DEF keyboardHandler, TypeKey, ShiftKey, CapsLockKey
<1>2. CASE CheckEmpty
  BY <1>2 DEF CheckEmpty, BufferInv
<1>3. CASE keyboard_haschar \/ ReadSlot \/ EditLine \/ UNCHANGED vars
  BY <1>3 DEF keyboard_haschar, ReadSlot, EditLine, vars
<1> QED BY <1>1, <1>2, <1>3 DEF Next, Shell

LEMMA BufferInvInit == Init => BufferInv
<1> SUFFICES ASSUME Init PROVE BufferInv
  OBVIOUS
<1>1. Count = 0 /\ 0 \in Slots
  BY SizeAssumption DEF Init, Count, Slots
<1> QED BY <1>1 DEF Init, BufferInv, Places

LEMMA BufferInvNext == BufferInv /\ [Next]_vars => BufferInv'
<1> SUFFICES ASSUME BufferInv, [Next]_vars PROVE BufferInv'
  OBVIOUS
<1>1. ASSUME UNCHANGED keys
      PROVE  Count' = Count /\ \A i : SlotAt(i)' = SlotAt(i)
  BY <1>1 DEF keys, Count, SlotAt
<1>2. ASSUME NEW code \in Codes, keyboardHandler(code) PROVE BufferInv'
  <2>1. g_capsOn' \in BOOLEAN /\ g_capsLock' \in BOOLEAN /\ UNCHANGED <<pc, kb_c, c>>
    BY <1>2 DEF keyboardHandler, TypeKey, ShiftKey, CapsLockKey, caps, BufferInv
  <2>2. CASE UNCHANGED keys
    BY <1>1, <2>1, <2>2 DEF BufferInv, keys
  <2>3. CASE TypeKey(code)
    <3> DEFINE ch == CharOf(ScanCode(code))
    <3>1. ch \in Chars /\ kb_buffer_push(ch)
      BY <2>3, CharTypes DEF TypeKey
    <3> HIDE DEF ch
    <3>2. CASE UNCHANGED keys
      BY <2>2, <3>2
    <3>3. CASE /\ Count < MAX_SIZE - 1 /\ kb_head' = Step(kb_head) /\ kb_tail' = kb_tail
               /\ kb_buffer' = [kb_buffer EXCEPT ![SlotAt(Count)] = ch]
               /\ Count' = Count + 1
               /\ \A i : SlotAt(i)' = SlotAt(i)
      <4>1. /\ Count \in 0 .. MAX_SIZE - 1 /\ SlotAt(Count) = kb_head /\ SlotAt(0) = kb_tail
            /\ \A i \in 0 .. MAX_SIZE - 1 : SlotAt(i) \in Slots
            /\ \A i \in 0 .. Count - 1 : SlotAt(i) # kb_head
            /\ Count = 0 <=> kb_head = kb_tail
        BY CountSlot DEF BufferInv
      <4>2. kb_head' \in Slots /\ kb_buffer' \in [Slots -> Chars \cup {NUL}]
        BY <3>1, <3>3, <4>1, StepIsModulo DEF BufferInv
      <4>3. \A i \in 0 .. Count' - 1 : kb_buffer'[SlotAt(i)'] \in Chars
        <5> SUFFICES ASSUME NEW i \in 0 .. Count PROVE kb_buffer'[SlotAt(i)] \in Chars
          BY <3>3, <4>1
        <5>1. CASE i = Count
          BY <3>1, <3>3, <4>1, <5>1 DEF BufferInv
        <5>2. CASE i # Count
          <6>1. Count \in Nat /\ Count <= MAX_SIZE - 1 /\ MAX_SIZE \in Nat
            BY <4>1, SizeAssumption
          <6>2. i \in 0 .. Count - 1 /\ i \in 0 .. MAX_SIZE - 1
            BY <5>2, <6>1
          <6>3. SlotAt(i) # kb_head /\ SlotAt(i) \in Slots
            BY <4>1, <6>2
          <6> QED BY <3>3, <4>1, <6>2, <6>3 DEF BufferInv
        <5> QED BY <5>1, <5>2
      <4>4. pc \in {"get", "read", "advance"} => kb_head' # kb_tail' /\ kb_head # kb_tail
        <5>1. Step(kb_head) # kb_tail
          BY <3>3, CountSlot, SizeAssumption DEF BufferInv
        <5>2. kb_head' # kb_tail'
          BY <3>3, <5>1
        <5> QED BY <5>2 DEF BufferInv
      <4>5. pc = "advance" => kb_buffer'[kb_tail'] = kb_buffer[kb_tail]
        BY <3>3, <4>1, <4>4 DEF BufferInv
      <4> QED BY <2>1, <3>3, <4>2, <4>3, <4>4, <4>5 DEF BufferInv
    <3> QED BY <3>1, <3>2, <3>3, PushEffect
  <2> QED BY <1>2, <2>2, <2>3 DEF keyboardHandler, ShiftKey, CapsLockKey
<1>3. CASE keyboard_haschar
  BY <1>1, <1>3 DEF keyboard_haschar, Goto, keys, caps, BufferInv, Places
<1>4. CASE CheckEmpty
  BY <1>1, <1>4 DEF CheckEmpty, keys, caps, BufferInv, Places
<1>5. CASE ReadSlot
  BY <1>1, <1>5 DEF ReadSlot, Goto, keys, caps, BufferInv, Places
<1>6. CASE Advance
  <2>1. \A i \in 0 .. Count' - 1 : kb_buffer'[SlotAt(i)'] \in Chars
    <3>1. Count \in 0 .. MAX_SIZE - 1
      BY CountSlot DEF BufferInv
    <3> QED BY <1>6, <3>1, AdvanceEffect DEF BufferInv
  <2> QED BY <1>6, <2>1, AdvanceEffect DEF Advance, Goto, caps, BufferInv, Places
<1>7. CASE EditLine
  <2>1. pc' \in {"poll", "command"} /\ UNCHANGED <<keys, caps, kb_c, c>>
    BY <1>7 DEF EditLine, SubmitLine, Erase, Insert, CommandDone, Goto
  <2> QED BY <1>1, <2>1 DEF keys, caps, BufferInv, Places
<1>8. CASE UNCHANGED vars
  BY <1>1, <1>8 DEF vars, keys, caps, BufferInv
<1> QED BY <1>2, <1>3, <1>4, <1>5, <1>6, <1>7, <1>8 DEF Next, Shell

LEMMA BufferInvAlways == Spec => []BufferInv
  BY BufferInvInit, BufferInvNext, PTL DEF Spec

\* keyboard_getchar() never hands the shell the NUL of an empty buffer.
THEOREM NoSpuriousCharacter == Spec => []NoSpuriousChar
<1>1. BufferInv => NoSpuriousChar
  BY CharTypes DEF BufferInv, NoSpuriousChar
<1> QED BY <1>1, BufferInvAlways, PTL

-----------------------------------------------------------------------------
(* The line editor: input[] holds the line, and pos is its length.         *)

LineInv ==
    /\ input \in [0 .. LINE_SIZE - 1 -> Chars \cup {NUL}]
    /\ line \in Seq(Chars)
    /\ pos = Len(line) /\ pos <= LINE_SIZE - 1
    /\ \A i \in 1 .. Len(line) : input[i - 1] = line[i]
    /\ pc = "command" => input[pos] = NUL

LEMMA LineInvInit == Init => LineInv
  BY SizeAssumption DEF Init, LineInv

LEMMA LineInvNext == BufferInv /\ LineInv /\ [Next]_vars => LineInv'
<1> SUFFICES ASSUME BufferInv, LineInv, [Next]_vars PROVE LineInv'
  OBVIOUS
<1>1. CASE UNCHANGED editor /\ (pc' = "command" => pc = "command")
  BY <1>1 DEF LineInv, editor
<1>2. CASE SubmitLine
  <2>1. pos \in 0 .. LINE_SIZE - 1 /\ Len(line) \in Nat
    BY SizeAssumption DEF LineInv
  <2>2. /\ input' \in [0 .. LINE_SIZE - 1 -> Chars \cup {NUL}] /\ input'[pos] = NUL
        /\ \A i \in 1 .. Len(line) : input'[i - 1] = input[i - 1]
    BY <1>2, <2>1 DEF SubmitLine, LineInv
  <2> QED BY <1>2, <2>2 DEF SubmitLine, LineInv
<1>3. CASE Erase
  <2>1. /\ Len(line) \in Nat /\ Len(line) > 0 /\ UNCHANGED input /\ pc' # "command"
        /\ pos' = Len(line) - 1 /\ line' = SubSeq(line, 1, Len(line) - 1)
    BY <1>3 DEF Erase, Goto, LineInv
  <2>2. /\ line' \in Seq(Chars) /\ Len(line') = Len(line) - 1
        /\ \A i \in 1 .. Len(line) - 1 : line'[i] = line[i]
    BY <2>1, SubSeqProperties DEF LineInv
  <2> QED BY <2>1, <2>2, SizeAssumption DEF LineInv
<1>4. CASE Insert
  <2>1. c \in Chars /\ pc' # "command"
    BY <1>4 DEF Insert, Goto, BufferInv
  <2>2. CASE UNCHANGED editor
    BY <1>1, <2>1, <2>2
  <2>3. CASE HasRoom
    <3>1. /\ pos \in 0 .. LINE_SIZE - 2 /\ pos = Len(line)
          /\ input' = [input EXCEPT ![pos] = c]
          /\ pos' = pos + 1 /\ line' = Append(line, c)
      BY <1>4, <2>3, SizeAssumption DEF Insert, HasRoom, LineInv
    <3>2. /\ line' \in Seq(Chars) /\ Len(line') = Len(line) + 1
          /\ \A i \in 1 .. Len(line) : line'[i] = line[i]
          /\ line'[Len(line) + 1] = c
      BY <2>1, <3>1, AppendProperties DEF LineInv
    <3>3. /\ input' \in [0 .. LINE_SIZE - 1 -> Chars \cup {NUL}] /\ input'[pos] = c
          /\ \A i \in 1 .. Len(line) : input'[i - 1] = input[i - 1]
      BY <2>1, <3>1, SizeAssumption DEF LineInv
    <3>4. \A i \in 1 .. Len(line') : input'[i - 1] = line'[i]
      BY <3>1, <3>2, <3>3 DEF LineInv
    <3> QED BY <2>1, <3>1, <3>2, <3>3, <3>4, SizeAssumption DEF LineInv
  <2> QED BY <1>4, <2>2, <2>3 DEF Insert
<1>5. CASE CommandDone
  BY <1>5, SizeAssumption DEF CommandDone, Goto, LineInv
<1>6. CASE keyboard_haschar \/ CheckEmpty \/ ReadSlot \/ Advance
  BY <1>1, <1>6 DEF keyboard_haschar, CheckEmpty, ReadSlot, Advance, Goto
<1>7. ASSUME NEW code \in Codes, keyboardHandler(code) PROVE LineInv'
  BY <1>1, <1>7 DEF keyboardHandler
<1>8. CASE UNCHANGED vars
  BY <1>1, <1>8 DEF vars
<1> QED BY <1>2, <1>3, <1>4, <1>5, <1>6, <1>7, <1>8 DEF Next, Shell, EditLine

LEMMA LineInvAlways == Spec => []LineInv
  BY LineInvInit, LineInvNext, BufferInvAlways, PTL DEF Spec

\* Type correctness; pos never leaves input[], whatever is typed.
THEOREM TypeCorrect == Spec => []TypeOK
<1>1. BufferInv /\ LineInv => TypeOK
  BY SizeAssumption DEF BufferInv, LineInv, TypeOK, Places
<1> QED BY <1>1, BufferInvAlways, LineInvAlways, PTL

\* The command send_command() is given is the line as it was edited.
THEOREM CommandIsTheLine == Spec => []CommandIsLine
<1>1. LineInv => CommandIsLine
  <2> SUFFICES ASSUME LineInv, pc = "command"
               PROVE  /\ input[Len(line)] = NUL
                      /\ \A i \in 1 .. Len(line) : input[i - 1] = line[i] /\ line[i] # NUL
    BY DEF CommandIsLine
  <2>1. \A i \in 1 .. Len(line) : line[i] \in Chars
    BY DEF LineInv
  <2> QED BY <2>1, CharTypes DEF LineInv
<1> QED BY <1>1, LineInvAlways, PTL

-----------------------------------------------------------------------------
(* The ring buffer implements the queue.                                   *)

UnreadInv ==
    /\ Unread \in Seq(Chars) /\ Len(Unread) = Count
    /\ \A i \in 1 .. Count : Unread[i] = kb_buffer[SlotAt(i - 1)]

LEMMA UnreadIsSeq == BufferInv => UnreadInv
<1> SUFFICES ASSUME BufferInv PROVE UnreadInv
  OBVIOUS
<1>1. Count \in Nat
  BY CountSlot, SizeAssumption DEF BufferInv
<1>2. \A i \in 1 .. Count : kb_buffer[SlotAt(i - 1)] \in Chars
  <2> SUFFICES ASSUME NEW i \in 1 .. Count PROVE kb_buffer[SlotAt(i - 1)] \in Chars
    OBVIOUS
  <2>1. i - 1 \in 0 .. Count - 1
    BY <1>1
  <2> QED BY <2>1 DEF BufferInv
<1>3. Unread \in [1 .. Count -> Chars]
  BY <1>2 DEF Unread
<1>4. Unread \in Seq(Chars) /\ Len(Unread) = Count
  BY <1>1, <1>3
<1> QED BY <1>4 DEF Unread, UnreadInv

LEMMA UnreadIsSeqNext == BufferInv' => UnreadInv'
  BY UnreadIsSeq, PTL

LEMMA PushIsPut ==
    ASSUME BufferInv, BufferInv', NEW ch \in Chars, kb_buffer_push(ch), ~ UNCHANGED keys
    PROVE  Len(Unread) < MAX_SIZE - 1 /\ Unread' = Append(Unread, ch)
<1>1. /\ Count < MAX_SIZE - 1 /\ Count' = Count + 1
      /\ kb_buffer' = [kb_buffer EXCEPT ![SlotAt(Count)] = ch]
      /\ \A i : SlotAt(i)' = SlotAt(i)
  BY PushEffect
<1>2. /\ Count \in Nat /\ SlotAt(Count) = kb_head /\ kb_head \in Slots
      /\ \A i \in 0 .. Count - 1 : SlotAt(i) # kb_head
      /\ \A i \in 0 .. MAX_SIZE - 1 : SlotAt(i) \in Slots
  BY CountSlot, SizeAssumption DEF BufferInv
<1>3. /\ Unread \in Seq(Chars) /\ Len(Unread) = Count
      /\ \A i \in 1 .. Count : Unread[i] = kb_buffer[SlotAt(i - 1)]
  BY UnreadIsSeq DEF UnreadInv
<1>4. /\ Unread' \in Seq(Chars) /\ Len(Unread') = Count + 1
      /\ \A i \in 1 .. Count + 1 : Unread'[i] = kb_buffer'[SlotAt(i - 1)]
  <2>1. /\ Unread' \in Seq(Chars) /\ Len(Unread') = Count'
        /\ \A i \in 1 .. Count' : Unread'[i] = kb_buffer'[SlotAt(i - 1)']
    BY UnreadIsSeqNext DEF UnreadInv
  <2> QED BY <1>1, <2>1
<1>5. \A i \in 1 .. Count : Unread'[i] = Unread[i]
  <2> SUFFICES ASSUME NEW i \in 1 .. Count PROVE Unread'[i] = Unread[i]
    OBVIOUS
  <2>1. i - 1 \in 0 .. Count - 1 /\ i - 1 \in 0 .. MAX_SIZE - 1 /\ i \in 1 .. Count + 1
    BY <1>1, <1>2, SizeAssumption
  <2>2. SlotAt(i - 1) # kb_head
    BY <1>2, <2>1
  <2>3. kb_buffer'[SlotAt(i - 1)] = kb_buffer[SlotAt(i - 1)]
    BY <1>1, <1>2, <2>1, <2>2 DEF BufferInv
  <2> QED BY <1>3, <1>4, <2>1, <2>3
<1>6. Unread'[Count + 1] = ch
  <2>1. Unread'[Count + 1] = kb_buffer'[SlotAt(Count)]
    BY <1>2, <1>4
  <2> QED BY <1>1, <1>2, <2>1 DEF BufferInv
<1> HIDE DEF Unread, Count
<1>7. /\ Append(Unread, ch) \in Seq(Chars) /\ Len(Append(Unread, ch)) = Count + 1
      /\ \A i \in 1 .. Count : Append(Unread, ch)[i] = Unread[i]
      /\ Append(Unread, ch)[Count + 1] = ch
  BY <1>3, AppendProperties
<1>8. \A i \in 1 .. Count + 1 : Unread'[i] = Append(Unread, ch)[i]
  BY <1>2, <1>5, <1>6, <1>7
<1>9. Unread' = Append(Unread, ch)
  BY <1>4, <1>7, <1>8, SeqEqual
<1> QED BY <1>1, <1>3, <1>9

LEMMA AdvanceIsTake ==
    ASSUME BufferInv, BufferInv', Advance
    PROVE  Unread # <<>> /\ c' = Head(Unread) /\ Unread' = Tail(Unread)
<1>1. /\ Count >= 1 /\ Count' = Count - 1
      /\ \A i \in 0 .. Count - 2 : SlotAt(i)' = SlotAt(i + 1)
      /\ c' = kb_buffer[SlotAt(0)]
      /\ UNCHANGED kb_buffer
  BY AdvanceEffect
<1>2. /\ Unread \in Seq(Chars) /\ Len(Unread) = Count /\ Count \in Nat
      /\ \A i \in 1 .. Count : Unread[i] = kb_buffer[SlotAt(i - 1)]
  BY UnreadIsSeq, CountSlot, SizeAssumption DEF BufferInv, UnreadInv
<1>3. /\ Unread' \in Seq(Chars) /\ Len(Unread') = Count - 1
      /\ \A i \in 1 .. Count - 1 : Unread'[i] = kb_buffer[SlotAt(i - 1)']
  <2>1. /\ Unread' \in Seq(Chars) /\ Len(Unread') = Count'
        /\ \A i \in 1 .. Count' : Unread'[i] = kb_buffer'[SlotAt(i - 1)']
    BY UnreadIsSeqNext DEF UnreadInv
  <2> QED BY <1>1, <2>1
<1> HIDE DEF Unread, Count
<1>4. Unread # <<>> /\ Head(Unread) = Unread[1]
  BY <1>1, <1>2
<1>5. Unread[1] = kb_buffer[SlotAt(0)]
  BY <1>1, <1>2
<1>6. \A i \in 1 .. Count - 1 : Unread'[i] = Unread[i + 1]
  <2> SUFFICES ASSUME NEW i \in 1 .. Count - 1 PROVE Unread'[i] = Unread[i + 1]
    OBVIOUS
  <2>1. i - 1 \in 0 .. Count - 2 /\ (i - 1) + 1 = i /\ i + 1 \in 1 .. Count
        /\ (i + 1) - 1 = i
    BY <1>2
  <2>2. SlotAt(i - 1)' = SlotAt(i)
    BY <1>1, <2>1
  <2> QED BY <1>2, <1>3, <2>1, <2>2
<1>7. /\ Tail(Unread) \in Seq(Chars) /\ Len(Tail(Unread)) = Count - 1
      /\ \A i \in 1 .. Count - 1 : Tail(Unread)[i] = Unread[i + 1]
  BY <1>2, <1>4, HeadTailProperties
<1>8. Unread' = Tail(Unread)
  BY <1>3, <1>6, <1>7, SeqEqual
<1> QED BY <1>1, <1>4, <1>5, <1>8

\* The ring buffer, filled by the handler at any point of keyboard_getchar(),
\* implements a first-in first-out queue of MAX_SIZE - 1 characters.
THEOREM RingIsQueue == Spec => FifoDelivery
<1>1. Init => KQ!Init
  <2>1. ASSUME Init PROVE Unread = <<>> /\ c = NUL
    <3>1. BufferInv /\ Count = 0
      BY <2>1, BufferInvInit, CountSlot DEF Init, BufferInv
    <3> QED BY <2>1, <3>1, UnreadIsSeq DEF Init, UnreadInv
  <2> QED BY <2>1 DEF KQ!Init
<1>2. BufferInv /\ BufferInv' /\ [Next]_vars => [KQ!Next]_(KQ!kqVars)
  <2> SUFFICES ASSUME BufferInv, BufferInv', [Next]_vars PROVE [KQ!Next]_(KQ!kqVars)
    OBVIOUS
  <2>1. CASE UNCHANGED <<keys, c>>
    BY <2>1 DEF keys, KQ!kqVars, Unread, Count, SlotAt
  <2>2. ASSUME NEW ch \in Chars, kb_buffer_push(ch), UNCHANGED c, ~ UNCHANGED keys
        PROVE  KQ!Put(ch)
    BY <2>2, PushIsPut DEF KQ!Put
  <2>3. CASE Advance
    BY <2>3, AdvanceIsTake DEF KQ!Next, KQ!Take
  <2> QED BY <2>1, <2>2, <2>3, RingFrame DEF KQ!Next
<1> QED BY <1>1, <1>2, BufferInvAlways, PTL DEF Spec, FifoDelivery, KQ!Spec
=============================================================================
