--------------------------- MODULE RealTimeClock ---------------------------
(***************************************************************************)
(* The real-time clock (rtc.c) and the CMOS chip that it reads.  A time is *)
(* the sequence <<second, minute, hour, day, month, year>>, the year of    *)
(* two digits.  The chip moves on by itself: it says that an update is in  *)
(* progress, changes the registers one after the other, and says that it   *)
(* is done.  The handler runs with interrupts off up to its last line.     *)
(***************************************************************************)
EXTENDS Interrupts

CONSTANTS
    Chips,       \* what the chip may be: [start, binary, h24]
    HERTZ,       \* its interrupts in a second
    UPDATES,     \* a bound on the seconds that fall into one run of the handler
    UPTIME       \* a bound on those that fall into all of them

ASSUME RealTimeClockAssumption ==
    /\ HERTZ \in Nat \ {0} /\ UPDATES \in Nat /\ UPTIME \in Nat

VARIABLES
    chip,           \* the format of its registers: [binary, h24]
    time,           \* the time in its registers
    target,         \* the time they show when the update is over
    index,          \* the register that is selected, where that matters
    periodic,       \* bit 6 of register B: interrupts are on
    irqf,           \* register C: the interrupt has not been read yet; the line is high
    passed,         \* the seconds begun since the handler was entered, or under way then
    uptime,         \* the seconds begun in any run of it
    handler,        \* where RTC_Handler is
    new_datetime, old_datetime,
    RTC_ticks, g_datetime,
    shown           \* history: the times shown since the handler began to read

registers == <<chip, time, target, passed, uptime>>
cmos == <<registers, index, periodic, irqf>>
reading == <<new_datetime, old_datetime, shown>>
rtc == <<handler, reading, RTC_ticks, g_datetime>>

-----------------------------------------------------------------------------
(* The chip *)

Days(month) == CASE month = 2 -> 28 [] month \in {4, 6, 9, 11} -> 30 [] OTHER -> 31
FirstOf == <<0, 0, 0, 1, 1, 0>>
LastOf(t) == <<59, 59, 23, Days(t[5]), 12, 99>>
IsTime(t) == t \in [1 .. 6 -> Nat] /\ \A i \in 1 .. 6 : t[i] \in FirstOf[i] .. LastOf(t)[i]
NextSecond(t) ==
    [i \in 1 .. 6 |-> IF \E j \in 1 .. i - 1 : t[j] # LastOf(t)[j] THEN t[i]
                     ELSE IF t[i] = LastOf(t)[i] THEN FirstOf[i] ELSE t[i] + 1]

ASSUME ChipsAssumption ==
    \A c \in Chips : c.binary \in BOOLEAN /\ c.h24 \in BOOLEAN /\ IsTime(c.start)

\* What a register holds: binary, or a decimal digit in each half; the hours from 1
\* to 12, with bit 7 set in the afternoon.
Digits(n) == IF chip.binary THEN n ELSE (n \div 10) * 16 + (n % 10)
Hours(h) ==
    IF chip.h24 THEN Digits(h)
    ELSE Digits(IF h % 12 = 0 THEN 12 ELSE h % 12) + (IF h >= 12 THEN 128 ELSE 0)
get_RTC_register(field) == IF field = 3 THEN Hours(time[3]) ELSE Digits(time[field])
update_in_progress == time # target

ClockInit ==
    /\ \E c \in Chips :
        /\ chip = [binary |-> c.binary, h24 |-> c.h24]
        /\ time = c.start /\ target = c.start
    /\ index = "D" /\ periodic = FALSE /\ irqf = FALSE /\ passed = 0 /\ uptime = 0
    /\ handler = "none"
    /\ new_datetime = <<>> /\ old_datetime = <<>> /\ shown = {}
    /\ RTC_ticks = 0 /\ g_datetime = <<>>

\* Busy: a handler is under way that keeps the processor from everything else.  The
\* seconds between two of them change nothing but where the next one starts.
Busy == handler \notin {"none", "return"}
Second ==
    /\ Busy /\ passed < UPDATES /\ uptime < UPTIME /\ ~ update_in_progress
    /\ target' = NextSecond(time)
    /\ passed' = passed + 1 /\ uptime' = uptime + 1
    /\ UNCHANGED <<chip, time, index, periodic, irqf, rtc>>
Carry ==
    /\ update_in_progress
    /\ LET i == Min({j \in 1 .. 6 : time[j] # target[j]})
       IN  time' = [time EXCEPT ![i] = target[i]]
    /\ shown' = IF shown # {} /\ time' = target THEN shown \cup {target} ELSE shown
    /\ UNCHANGED <<chip, target, passed, uptime, index, periodic, irqf, handler,
                   new_datetime, old_datetime, RTC_ticks, g_datetime>>

-----------------------------------------------------------------------------
(* RTC_Handler *)

\* The next interrupt comes a millisecond later: this handler has returned by then.
EnterRTC ==
    /\ handler = "none"
    /\ RTC_ticks' = (RTC_ticks + 1) % HERTZ
    /\ handler' = IF RTC_ticks' = 0 THEN "poll" ELSE "acknowledge"
    /\ shown' = IF RTC_ticks' # 0 THEN {}
                ELSE IF update_in_progress THEN {target} ELSE {time}
    /\ passed' = IF update_in_progress THEN 1 ELSE 0
    /\ UNCHANGED <<chip, time, target, uptime, index, periodic, irqf, new_datetime,
                   old_datetime, g_datetime>>

\* while (cmos_update_in_progress())
Poll_Never ==
    /\ handler = "poll"
    /\ handler' = "read"
    /\ UNCHANGED <<cmos, reading, RTC_ticks, g_datetime>>
Poll ==
    /\ handler = "poll" /\ ~ update_in_progress
    /\ handler' = "read"
    /\ UNCHANGED <<cmos, reading, RTC_ticks, g_datetime>>
ReadField ==
    /\ handler = "read"
    /\ new_datetime' = Append(new_datetime, get_RTC_register(Len(new_datetime) + 1))
    /\ handler' = IF Len(new_datetime') = 6 THEN "compare" ELSE "read"
    /\ UNCHANGED <<cmos, old_datetime, shown, RTC_ticks, g_datetime>>

\* The first pass has nothing to compare with, and is always followed by a second.
Agree_Seconds(old, new) == old # <<>> /\ old[1] = new[1]
Agree(old, new) == old = new
Compare ==
    /\ handler = "compare"
    /\ IF Agree(old_datetime, new_datetime)
       THEN handler' = "publish" /\ UNCHANGED <<old_datetime, new_datetime>>
       ELSE handler' = "poll" /\ old_datetime' = new_datetime /\ new_datetime' = <<>>
    /\ UNCHANGED <<cmos, shown, RTC_ticks, g_datetime>>

\* The conversions, for the bits of register B.
FromDigits(n) == (n % 16) + (n \div 16) * 10
Binary(raw, i) ==
    IF chip.binary THEN raw[i]
    ELSE IF i = 3 THEN FromDigits(raw[3] % 128) + (raw[3] \div 128) * 128
    ELSE FromDigits(raw[i])
To24_NoWrap(h) == IF h >= 128 THEN (h % 128) + 12 ELSE h
To24(h) == IF h >= 128 THEN ((h % 128) + 12) % 24 ELSE h
Converted(raw) ==
    [i \in 1 .. 6 |-> IF i = 3 /\ ~ chip.h24 THEN To24(Binary(raw, 3))
                     ELSE IF i = 6 THEN Binary(raw, 6) + 2000
                     ELSE Binary(raw, i)]
Publish ==
    /\ handler = "publish"
    /\ g_datetime' = Converted(new_datetime)
    /\ new_datetime' = <<>> /\ old_datetime' = <<>>
    /\ handler' = "acknowledge"
    /\ UNCHANGED <<cmos, shown, RTC_ticks>>

\* Register C is read, so that the line falls, and interrupts are turned on.
ReadC_Not ==
    /\ handler = "acknowledge"
    /\ handler' = "return" /\ index' = "D" /\ shown' = {}
    /\ UNCHANGED <<registers, periodic, irqf, new_datetime, old_datetime, RTC_ticks,
                   g_datetime>>
ReadC ==
    /\ handler = "acknowledge"
    /\ irqf' = FALSE
    /\ handler' = "return" /\ index' = "D" /\ shown' = {}
    /\ UNCHANGED <<registers, periodic, new_datetime, old_datetime, RTC_ticks,
                   g_datetime>>
Return ==
    /\ handler = "return"
    /\ handler' = "none"
    /\ UNCHANGED <<cmos, reading, RTC_ticks, g_datetime>>

-----------------------------------------------------------------------------
(* enable_RTC, port access by port access, with interrupts on *)

Select(register) ==
    /\ index' = register
    /\ UNCHANGED <<registers, periodic, irqf, rtc>>
\* A read selects register D again.
ReadB == Select("D")
\* prev_B keeps the format; it was read before the chip could interrupt.
WriteB ==
    /\ periodic' = (periodic \/ index = "B")
    /\ UNCHANGED <<registers, index, irqf, rtc>>
ReadPending ==
    /\ irqf' = (irqf /\ index # "C")
    /\ index' = "D"
    /\ UNCHANGED <<registers, periodic, rtc>>

\* A time as g_datetime is to have it; and twelve o'clock, noon or midnight, of a
\* chip that counts the hours in two halves.
Expected(t) == [t EXCEPT ![6] = @ + 2000]
AtTwelve(t) == ~ chip.h24 /\ t[3] % 12 = 0
=============================================================================
