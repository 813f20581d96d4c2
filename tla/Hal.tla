-------------------------------- MODULE Hal --------------------------------
(***************************************************************************)
(* The kernel brings up its hardware (hal.c) while the hardware interrupts *)
(* it, and then plays the notes of the shell's command (pc_speaker.c),     *)
(* sleeping on the ticks of the timer (i8254.c).  The handlers of the      *)
(* timer and of the keyboard are one step; the keyboard's has a module of  *)
(* its own.                                                                *)
(*                                                                         *)
(* A definition with a suffix like _Early is the one without it with a     *)
(* slip the code could have; no action uses it.                            *)
(***************************************************************************)
EXTENDS RealTimeClock, TLC

CONSTANTS
    UINT,            \* 2^32, where ticks wraps
    FREQUENCY,       \* 100 ticks
    SECOND,          \* in 1000 milliseconds
    Durations,       \* what sleep is asked for
    Machines,        \* what may be on the PCI bus
    BUSES, DEVICES, FUNCTIONS, NO_VENDOR, FLOATING

Pci == INSTANCE Pci

ASSUME HalAssumption ==
    /\ UINT \in Nat /\ UINT > 1 /\ FREQUENCY \in Nat \ {0} /\ SECOND \in Nat \ {0}
    /\ Durations \subseteq Nat
\* A bus that keeps to the standard: an empty place has no vendor, a device of several
\* functions has the first and says there so, and a header is of a type that is defined.
ASSUME BusAssumption ==
    /\ BUSES \in Nat /\ DEVICES \in Nat /\ FUNCTIONS \in Nat \ {0} /\ FLOATING \in NO_VENDOR
    /\ \A m \in Machines : \A place \in DOMAIN m :
        LET first == <<place[1], place[2], 0>>
        IN  /\ place \in Pci!Places
            /\ place[3] > 0 => first \in DOMAIN m /\ m[first].multi
            /\ m[place].vendor \notin NO_VENDOR /\ m[place].type \in 0 .. 2

VARIABLES
    booted,        \* the steps of the boot that are done
    machine,       \* what is on the bus; nothing before and after the walk
    listed,        \* the places the walk has printed
    shell,         \* where the shell is in play_note and sleep
    channels,      \* the timer's channels that have been given a frequency
    speaker,       \* it sounds
    ticks,
    wait_ticks, start,
    elapsed,       \* history: the ticks there have been since sleep began
    asked          \* history: the milliseconds it was asked for

boot == <<booted, machine, listed>>
timing == <<wait_ticks, start, asked>>
sound == <<shell, channels, speaker, timing>>
vars == <<interrupts, tables, controller, cmos, rtc, boot, sound, ticks, elapsed>>

-----------------------------------------------------------------------------
(* The boot *)

Unmask(irq) == <<<<"unmask", irq>>, <<"unmask_high", irq>>>>
i686_IRQ_Init_Early ==
    <<<<"probe", 0>>, <<"config", 0>>, <<"sti", 0>>>>
    \o Unmask(PIT) \o Unmask(KEYBOARD) \o Unmask(CASCADE) \o Unmask(RTC) \o Unmask(MOUSE)
    \o <<<<"irqs", 0>>>>
i686_IRQ_Init ==
    <<<<"probe", 0>>, <<"config", 0>>, <<"irqs", 0>>, <<"sti", 0>>>>
    \o Unmask(PIT) \o Unmask(KEYBOARD) \o Unmask(CASCADE) \o Unmask(RTC) \o Unmask(MOUSE)
enable_RTC_Once ==
    <<<<"select", "B">>, <<"read_B", 0>>, <<"write_B", 0>>, <<"select", "C">>, <<"read_C", 0>>>>
enable_RTC ==
    <<<<"select", "B">>, <<"read_B", 0>>, <<"select", "B">>, <<"write_B", 0>>,
      <<"select", "C">>, <<"read_C", 0>>>>
\* Page_Manager_Init registers its handler before the HAL is there.
HAL_Init ==
    <<<<"page_fault", 0>>, <<"lidt", 0>>, <<"gates", 0>>, <<"enable_gates", 0>>>>
    \o i686_IRQ_Init
    \o <<<<"channel", 0>>, <<"PIT_Handler", PIT>>, <<"keyboardHandler", KEYBOARD>>,
         <<"RTC_Handler", RTC>>>>
    \o enable_RTC
    \o <<<<"pci", 0>>, <<"hello", 0>>>>
Booted == booted = Len(HAL_Init)

Task == handler = "none"

Does(op) ==
    /\ Task /\ ~ Booted
    /\ HAL_Init[booted + 1][1] = op
    /\ booted' = booted + 1
Operand == HAL_Init[booted + 1][2]

\* The tables, the controller and the handlers
Dispatching ==
    /\ \/ Does("page_fault") /\ RegisterHandlers({PAGE_FAULT}, "PFHandler")
       \/ Does("lidt") /\ i686_IDT_Load
       \/ Does("gates") /\ i686_ISR_InitializeGates
       \/ Does("enable_gates") /\ EnableGates
       \/ Does("probe") /\ i8259_Probe
       \/ Does("config") /\ i8259_Config
       \/ Does("irqs") /\ RegisterHandlers({PIC_REMAP_OFFSET + irq : irq \in IRQs}, "i686_IRQ_Handler")
       \/ Does("sti") /\ i686_EnableInts
       \/ Does("unmask") /\ UnmaskLow(Operand)
       \/ Does("unmask_high") /\ UnmaskHigh
       \/ \E driver \in {"PIT_Handler", "keyboardHandler", "RTC_Handler"} :
            Does(driver) /\ i686_IRQ_RegisterHandler(Operand, driver)
    /\ UNCHANGED <<cmos, rtc, machine, listed, sound, ticks, elapsed>>

\* Three port writes with interrupts off, and then they are on.
set_PIT_channel_mode_frequency(channel) ==
    /\ channels' = channels \cup {channel}
    /\ i686_EnableInts
PitChannel ==
    /\ Does("channel") /\ set_PIT_channel_mode_frequency(0)
    /\ UNCHANGED <<cmos, rtc, machine, listed, shell, speaker, timing, ticks, elapsed>>

\* A line that falls before it is served makes the controller answer with line 15.
EnableClock ==
    /\ \/ Does("select") /\ Select(Operand) /\ UNCHANGED <<irr, spurious>>
       \/ Does("read_B") /\ ReadB /\ UNCHANGED <<irr, spurious>>
       \/ Does("write_B") /\ WriteB /\ UNCHANGED <<irr, spurious>>
       \/ /\ Does("read_C") /\ ReadPending
          /\ irr' = IF irqf' THEN irr ELSE irr \ {RTC}
          /\ spurious' = (spurious \/ irr' # irr)
    /\ UNCHANGED <<interrupts, tables, g_PICMask, imr, base, machine, listed, sound, ticks, elapsed>>

\* The walk over the bus; what it printed is dropped after it.
SelectDrivers ==
    /\ Does("pci")
    /\ \E m \in Machines : machine' = m /\ listed' = Pci!SelectDrivers(m)
    /\ UNCHANGED <<interrupts, tables, controller, cmos, rtc, sound, ticks, elapsed>>
Hello ==
    /\ Does("hello")
    /\ machine' = <<>> /\ listed' = {}
    /\ UNCHANGED <<interrupts, tables, controller, cmos, rtc, sound, ticks, elapsed>>

Boot == Dispatching \/ PitChannel \/ EnableClock \/ SelectDrivers \/ Hello

-----------------------------------------------------------------------------
(* A note of the shell's *)

At(place) == Task /\ Booted /\ shell = place

play_note ==
    /\ At("rest")
    /\ shell' = "note"
    /\ \E ms \in Durations : asked' = ms
    /\ UNCHANGED <<interrupts, tables, controller, cmos, rtc, boot, channels, speaker, wait_ticks, start,
                   ticks, elapsed>>
speaker_enable ==
    /\ At("note")
    /\ speaker' = TRUE /\ shell' = "frequency"
    /\ UNCHANGED <<interrupts, tables, controller, cmos, rtc, boot, channels, timing, ticks, elapsed>>
NoteFrequency ==
    /\ At("frequency")
    /\ set_PIT_channel_mode_frequency(2)
    /\ shell' = "sleep"
    /\ UNCHANGED <<cmos, rtc, boot, speaker, timing, ticks, elapsed>>

\* sleep: interrupts on, and the end worked out
Ticks(ms) == ((ms * FREQUENCY) % UINT) \div SECOND
sleep ==
    /\ At("sleep")
    /\ i686_EnableInts
    /\ start' = ticks /\ elapsed' = 0
    /\ wait_ticks' = IF Ticks(asked) = 0 THEN 1 ELSE Ticks(asked)
    /\ shell' = "check"
    /\ UNCHANGED <<cmos, rtc, boot, channels, speaker, asked, ticks>>
Waiting_Equal == (ticks - start) % UINT # wait_ticks
Waiting_Unwrapped == ticks < (start + wait_ticks) % UINT
Waiting == (ticks - start) % UINT < wait_ticks
Check ==
    /\ At("check")
    /\ shell' = IF Waiting THEN "hlt" ELSE "off"
    /\ UNCHANGED <<interrupts, tables, controller, cmos, rtc, boot, channels, speaker, timing,
                   ticks, elapsed>>
\* An interrupt between the test and the hlt does not wake it.
Halt ==
    /\ At("hlt")
    /\ shell' = "halted"
    /\ UNCHANGED <<interrupts, tables, controller, cmos, rtc, boot, channels, speaker, timing,
                   ticks, elapsed>>
speaker_disable ==
    /\ At("off")
    /\ speaker' = FALSE /\ shell' = "rest"
    /\ start' = 0 /\ wait_ticks' = 0 /\ elapsed' = 0 /\ asked' = 0
    /\ UNCHANGED <<interrupts, tables, controller, cmos, rtc, boot, channels, ticks>>

Shell == play_note \/ speaker_enable \/ NoteFrequency \/ sleep \/ Check \/ Halt \/ speaker_disable

-----------------------------------------------------------------------------
(* Interrupts *)

\* The first interrupt wakes a task that has halted.
Wake == shell' = IF shell = "halted" THEN "check" ELSE shell

PIT_Handler ==
    /\ ticks' = (ticks + 1) % UINT
    /\ elapsed' = IF shell \in {"check", "hlt", "halted"} THEN elapsed + 1 ELSE elapsed

TakeShort ==
    /\ ~ Busy
    /\ \E irq \in IRQs :
        /\ Acknowledge(irq)
        /\ i686_IRQ_Handler(irq) # "RTC_Handler"
        /\ IF i686_IRQ_Handler(irq) = "PIT_Handler" THEN PIT_Handler
           ELSE UNCHANGED <<ticks, elapsed>>
    /\ Wake
    /\ UNCHANGED <<interrupts, cmos, rtc, boot, channels, speaker, timing>>
TakeRTC ==
    /\ ~ Busy
    /\ \E irq \in IRQs : Acknowledge(irq) /\ i686_IRQ_Handler(irq) = "RTC_Handler"
    /\ EnterRTC
    /\ interrupts' = FALSE
    /\ Wake
    /\ UNCHANGED <<boot, channels, speaker, timing, ticks, elapsed>>

RTC_Handler ==
    /\ \/ (Poll \/ ReadField \/ Compare \/ Publish \/ Return) /\ UNCHANGED interrupts
       \/ ReadC /\ interrupts' = TRUE
    /\ UNCHANGED <<tables, controller, boot, sound, ticks, elapsed>>

-----------------------------------------------------------------------------
(* The hardware *)

\* The task is not held up for as long as ticks takes to wrap; one that has halted
\* still gets the tick that wakes it.
PitPulse ==
    /\ PIT \notin irr /\ elapsed < UINT - (IF shell = "halted" THEN 1 ELSE 2)
    /\ irr' = irr \cup {PIT}
    /\ UNCHANGED <<interrupts, tables, g_PICMask, imr, base, spurious, cmos, rtc, boot, sound,
                   ticks, elapsed>>
KeyStruck ==
    /\ ~ Booted /\ KEYBOARD \notin irr
    /\ irr' = irr \cup {KEYBOARD}
    /\ UNCHANGED <<interrupts, tables, g_PICMask, imr, base, spurious, cmos, rtc, boot, sound,
                   ticks, elapsed>>
RtcPulse ==
    /\ periodic /\ ~ irqf
    /\ irqf' = TRUE /\ irr' = irr \cup {RTC}
    /\ UNCHANGED <<interrupts, tables, g_PICMask, imr, base, spurious, registers, index, periodic,
                   rtc, boot, sound, ticks, elapsed>>
ChipClock ==
    /\ Second \/ Carry
    /\ UNCHANGED <<interrupts, tables, controller, boot, sound, ticks, elapsed>>
Hardware == PitPulse \/ KeyStruck \/ RtcPulse \/ ChipClock

-----------------------------------------------------------------------------
Init ==
    /\ InterruptsInit /\ ClockInit
    /\ booted = 0 /\ machine = <<>> /\ listed = {}
    /\ shell = "rest" /\ channels = {} /\ speaker = FALSE
    /\ ticks = 0 /\ wait_ticks = 0 /\ start = 0 /\ elapsed = 0 /\ asked = 0
Next == Boot \/ Shell \/ TakeShort \/ TakeRTC \/ RTC_Handler \/ Hardware

\* The task gets its turn between the clock's interrupts, of which it has a thousand
\* a second; an interrupt that stays deliverable is taken; a handler goes on; the timer
\* and the chip keep running.
Fairness ==
    /\ SF_vars(Shell) /\ WF_vars(TakeShort) /\ WF_vars(RTC_Handler)
    /\ WF_vars(PitPulse) /\ WF_vars(ChipClock)
Spec == Init /\ [][Next]_vars /\ Fairness

-----------------------------------------------------------------------------
(* Properties *)

\* Types and ranges; what is published is a date and a time of day.
HalTypeOK ==
    /\ {interrupts, idtr, periodic, irqf, spurious, speaker} \subseteq BOOLEAN
    /\ irr \subseteq IRQs /\ imr \subseteq IRQs /\ present \subseteq Gates
    /\ booted \in 0 .. Len(HAL_Init)
    /\ g_datetime # <<>> =>
        /\ \A i \in 1 .. 5 : g_datetime[i] \in FirstOf[i] .. LastOf(g_datetime)[i]
        /\ g_datetime[6] \in 2000 .. 2099
    /\ {ticks, start, wait_ticks, elapsed} \subseteq 0 .. UINT - 1

\* Whatever the order in which the hardware interrupts the boot, an interrupt
\* that is let through finds a gate that is present, the dispatcher behind it, and
\* never the vector of an exception; and the page fault keeps its handler (hal.c:3,
\* irq.c:21, isr.c:42).
VectorsHandled ==
    /\ \A irq \in IRQs : Deliverable(irq) => i686_ISR_Handler(Vector(irq)) = "i686_IRQ_Handler"
    /\ interrupts => i686_ISR_Handler(PAGE_FAULT) = "PFHandler"

\* An interrupt of the clock that register C still holds back is on its way to a
\* handler that will read C: otherwise the chip would never interrupt again.  Once
\* the kernel is up, the chip interrupts and the lines to it are open (rtc.c:71,
\* rtc.c:86, i8259.c:100).
ClockNeverStuck ==
    /\ irqf => RTC \in irr \/ Busy
    /\ Booted => periodic /\ {RTC, CASCADE} \cap imr = {}

\* Every field that is published is that of one time, which the clock showed after
\* the handler began to read it, though it moves on between any two reads; but for the
\* hour at twelve of a clock with two halves of the day (rtc.c:27, rtc.c:46).
PublishedWasShown ==
    handler = "acknowledge" /\ shown # {} =>
        \E t \in shown : \A i \in 1 .. 6 :
            g_datetime[i] = Expected(t)[i] \/ (i = 3 /\ AtTwelve(t))

\* "convert 12hr to 24hr" (rtc.c:56): at twelve, too, the hour that is published is the
\* one the clock showed.
HourWasShown ==
    handler = "acknowledge" /\ shown # {} => \E t \in shown : g_datetime = Expected(t)

\* A sleep counts a tick at least, and all the ticks of the time it was asked for but
\* a part of one, also where ticks wraps.  The first of them may come at once: the
\* sleep may be over two ticks early, less a moment (i8254.c:80, i8254.c:83).
SleptAllButATick ==
    shell = "off" => elapsed >= 1 /\ asked * FREQUENCY < (elapsed + 1) * SECOND

\* The walk finds every function of a bus that keeps to the standard, and takes as
\* base addresses what the header has there (pci.c:65, pci.c:111).
PciListed ==
    /\ listed = DOMAIN machine
    /\ \A place \in listed :
        Cardinality(Pci!BarsRead(machine[place])) =
            CASE machine[place].type = 0 -> 6 [] machine[place].type = 1 -> 2 [] OTHER -> 0

\* Every note ends: the interrupts stay on and the ticks come, also when the last one
\* came between the test and the hlt (i8254.c:83, pc_speaker.c:10).
NoteEnds == speaker ~> ~ speaker
=============================================================================
