----------------------------- MODULE Hal_proofs -----------------------------
(***************************************************************************)
(* Theorems about Hal for every table of vectors, every chip, every bus    *)
(* and every order in which the hardware interrupts the boot, the notes    *)
(* and the clock's handler.                                                *)
(***************************************************************************)
EXTENDS Hal, FiniteSetTheorems, TLAPS

-----------------------------------------------------------------------------
(* The program of the boot                                                 *)

\* What each step of HAL_Init does; its operands are in Program.
Ops ==
    <<"page_fault", "lidt", "gates", "enable_gates", "probe", "config", "irqs", "sti",
      "unmask", "unmask_high", "unmask", "unmask_high", "unmask", "unmask_high",
      "unmask", "unmask_high", "unmask", "unmask_high",
      "channel", "PIT_Handler", "keyboardHandler", "RTC_Handler",
      "select", "read_B", "select", "write_B", "select", "read_C", "pci", "hello">>

LEMMA Program ==
    /\ Len(HAL_Init) = 30
    /\ \A k \in 1 .. 30 : HAL_Init[k][1] = Ops[k]
    /\ HAL_Init[13][2] = CASCADE /\ HAL_Init[15][2] = RTC
    /\ HAL_Init[20][2] = PIT /\ HAL_Init[21][2] = KEYBOARD /\ HAL_Init[22][2] = RTC
    /\ HAL_Init[25][2] = "B"
<1>1. Len(HAL_Init) = 30
  BY DEF HAL_Init, i686_IRQ_Init, enable_RTC, Unmask
<1>2. \A k \in 1 .. 30 : HAL_Init[k][1] = Ops[k]
  BY DEF HAL_Init, i686_IRQ_Init, enable_RTC, Unmask, Ops
<1>3. HAL_Init[13][2] = CASCADE /\ HAL_Init[15][2] = RTC
  BY DEF HAL_Init, i686_IRQ_Init, enable_RTC, Unmask
<1>4. HAL_Init[20][2] = PIT /\ HAL_Init[21][2] = KEYBOARD /\ HAL_Init[22][2] = RTC
  BY DEF HAL_Init, i686_IRQ_Init, enable_RTC, Unmask
<1>5. HAL_Init[25][2] = "B"
  BY DEF HAL_Init, i686_IRQ_Init, enable_RTC, Unmask
<1> QED BY <1>1, <1>2, <1>3, <1>4, <1>5

\* Where the boot is when it takes a step.
LEMMA StepOfBoot ==
    ASSUME booted \in 0 .. 30, NEW op, Does(op)
    PROVE  /\ booted \in 0 .. 29 /\ booted' = booted + 1
           /\ Ops[booted + 1] = op
           /\ handler = "none"
<1>1. booted # 30 /\ booted' = booted + 1 /\ HAL_Init[booted + 1][1] = op /\ handler = "none"
  BY Program DEF Does, Booted, Task
<1>2. booted + 1 \in 1 .. 30
  BY <1>1
<1> QED BY <1>1, <1>2, Program

-----------------------------------------------------------------------------
(* Gates and handlers                                                      *)

\* The tables are filled in an order in which every interrupt that is let through
\* finds its way; interrupts are off until they are.
DispatchInv ==
    /\ booted \in 0 .. 30
    /\ DOMAIN g_ISRHandlers = Gates
    /\ booted > 0 => g_ISRHandlers[PAGE_FAULT] = "PFHandler"
    /\ booted > 1 => idtr
    /\ booted > 2 => filled = Gates
    /\ booted > 3 => present = Gates
    /\ booted > 5 => base = PIC_REMAP_OFFSET
    /\ booted > 6 =>
        \A irq \in IRQs : g_ISRHandlers[PIC_REMAP_OFFSET + irq] = "i686_IRQ_Handler"
    /\ interrupts \/ handler # "none" => booted > 7

LEMMA VectorTypes ==
    /\ VECTORS \in Nat /\ PIC_REMAP_OFFSET \in Nat /\ PAGE_FAULT \in Gates
    /\ \A irq \in IRQs : PIC_REMAP_OFFSET + irq \in Gates \ {PAGE_FAULT}
    /\ PAGE_FAULT \notin {PIC_REMAP_OFFSET + irq : irq \in IRQs}
  BY VectorsAssumption DEF Gates, IRQs

LEMMA DispatchInit == Init => DispatchInv
  BY DEF Init, InterruptsInit, ClockInit, DispatchInv

LEMMA DispatchBoot == DispatchInv /\ Boot => DispatchInv'
<1> SUFFICES ASSUME DispatchInv, Boot PROVE DispatchInv'
  OBVIOUS
<1> USE VectorTypes DEF DispatchInv, tables, controller
<1>0. booted \in 0 .. 30
  OBVIOUS
<1>1. CASE Dispatching
  <2>0. UNCHANGED handler
    BY <1>1 DEF Dispatching, rtc
  <2>1. CASE Does("page_fault") /\ RegisterHandlers({PAGE_FAULT}, "PFHandler")
    <3>1. booted = 0 /\ booted' = 1 /\ handler = "none"
      BY <2>1, <1>0, StepOfBoot DEF Ops
    <3> QED BY <2>0, <2>1, <3>1 DEF RegisterHandlers
  <2>2. CASE Does("lidt") /\ i686_IDT_Load
    <3>1. booted = 1 /\ booted' = 2 /\ handler = "none"
      BY <2>2, <1>0, StepOfBoot DEF Ops
    <3> QED BY <2>0, <2>2, <3>1 DEF i686_IDT_Load
  <2>3. CASE Does("gates") /\ i686_ISR_InitializeGates
    <3>1. booted = 2 /\ booted' = 3 /\ handler = "none"
      BY <2>3, <1>0, StepOfBoot DEF Ops
    <3> QED BY <2>0, <2>3, <3>1 DEF i686_ISR_InitializeGates
  <2>4. CASE Does("enable_gates") /\ EnableGates
    <3>1. booted = 3 /\ booted' = 4 /\ handler = "none"
      BY <2>4, <1>0, StepOfBoot DEF Ops
    <3> QED BY <2>0, <2>4, <3>1 DEF EnableGates
  <2>5. CASE Does("probe") /\ i8259_Probe
    <3>1. booted = 4 /\ booted' = 5 /\ handler = "none"
      BY <2>5, <1>0, StepOfBoot DEF Ops
    <3> QED BY <2>0, <2>5, <3>1 DEF i8259_Probe
  <2>6. CASE Does("config") /\ i8259_Config
    <3>1. booted = 5 /\ booted' = 6 /\ handler = "none"
      BY <2>6, <1>0, StepOfBoot DEF Ops
    <3> QED BY <2>0, <2>6, <3>1 DEF i8259_Config
  <2>7. CASE /\ Does("irqs")
             /\ RegisterHandlers({PIC_REMAP_OFFSET + irq : irq \in IRQs}, "i686_IRQ_Handler")
    <3>1. booted = 6 /\ booted' = 7 /\ handler = "none"
      BY <2>7, <1>0, StepOfBoot DEF Ops
    <3> DEFINE vectors == {PIC_REMAP_OFFSET + irq : irq \in IRQs}
    <3>2. vectors \subseteq Gates /\ PAGE_FAULT \notin vectors
      OBVIOUS
    <3>3. \A irq \in IRQs : PIC_REMAP_OFFSET + irq \in vectors
      OBVIOUS
    <3> HIDE DEF vectors
    <3>4. RegisterHandlers(vectors, "i686_IRQ_Handler")
      BY <2>7 DEF vectors
    <3> QED BY <2>0, <3>1, <3>2, <3>3, <3>4 DEF RegisterHandlers
  <2>8. CASE Does("sti") /\ i686_EnableInts
    <3>1. booted = 7 /\ booted' = 8 /\ handler = "none"
      BY <2>8, <1>0, StepOfBoot DEF Ops
    <3> QED BY <2>0, <2>8, <3>1 DEF i686_EnableInts
  <2>9. CASE Does("unmask") /\ UnmaskLow(Operand)
    <3>1. booted > 7 /\ booted' \in 9 .. 30 /\ handler = "none"
      BY <2>9, <1>0, StepOfBoot DEF Ops
    <3> QED BY <2>0, <2>9, <3>1 DEF UnmaskLow
  <2>10. CASE Does("unmask_high") /\ UnmaskHigh
    <3>1. booted > 7 /\ booted' \in 9 .. 30 /\ handler = "none"
      BY <2>10, <1>0, StepOfBoot DEF Ops
    <3> QED BY <2>0, <2>10, <3>1 DEF UnmaskHigh
  <2>11. ASSUME NEW driver \in {"PIT_Handler", "keyboardHandler", "RTC_Handler"},
                Does(driver), i686_IRQ_RegisterHandler(Operand, driver)
         PROVE  DispatchInv'
    <3>1. booted > 7 /\ booted' \in 9 .. 30 /\ handler = "none"
      BY <2>11, <1>0, StepOfBoot DEF Ops
    <3> QED BY <2>0, <2>11, <3>1 DEF i686_IRQ_RegisterHandler
  <2> QED BY <1>1, <2>1, <2>2, <2>3, <2>4, <2>5, <2>6, <2>7, <2>8, <2>9, <2>10, <2>11
          DEF Dispatching
<1>2. CASE PitChannel
  <2>1. booted > 7 /\ booted' \in 9 .. 30 /\ handler = "none"
    BY <1>2, <1>0, StepOfBoot DEF PitChannel, Ops
  <2> QED BY <1>2, <2>1 DEF PitChannel, set_PIT_channel_mode_frequency, i686_EnableInts, rtc
<1>3. CASE EnableClock
  <2>1. booted > 7 /\ booted' \in 9 .. 30 /\ handler = "none"
    <3>1. \E op \in {"select", "read_B", "write_B", "read_C"} : Does(op)
      BY <1>3 DEF EnableClock
    <3> QED BY <3>1, <1>0, StepOfBoot DEF Ops
  <2>2. UNCHANGED <<interrupts, tables, base, handler>>
    BY <1>3 DEF EnableClock, Select, ReadB, WriteB, ReadPending, rtc
  <2> QED BY <2>1, <2>2
<1>4. CASE SelectDrivers \/ Hello
  <2>1. booted > 7 /\ booted' \in 9 .. 30 /\ handler = "none"
    <3>1. \E op \in {"pci", "hello"} : Does(op)
      BY <1>4 DEF SelectDrivers, Hello
    <3> QED BY <3>1, <1>0, StepOfBoot DEF Ops
  <2> QED BY <1>4, <2>1 DEF SelectDrivers, Hello, rtc
<1> QED BY <1>1, <1>2, <1>3, <1>4 DEF Boot

LEMMA DispatchNext == DispatchInv /\ [Next]_vars => DispatchInv'
<1> SUFFICES ASSUME DispatchInv, [Next]_vars PROVE DispatchInv'
  OBVIOUS
<1> USE DEF tables, controller, boot, rtc
<1>1. CASE Boot
  BY <1>1, DispatchBoot
<1>2. CASE Shell
  <2>1. booted = 30
    BY <1>2, Program DEF Shell, play_note, speaker_enable, NoteFrequency, sleep, Check, Halt,
                         speaker_disable, At, Booted
  <2>2. UNCHANGED <<tables, base, booted, handler>>
    BY <1>2 DEF Shell, play_note, speaker_enable, NoteFrequency, sleep, Check, Halt,
                speaker_disable, set_PIT_channel_mode_frequency, i686_EnableInts
  <2> QED BY <2>1, <2>2 DEF DispatchInv
<1>3. CASE TakeShort
  <2>1. UNCHANGED <<tables, base, booted, handler, interrupts>>
    BY <1>3 DEF TakeShort, Acknowledge
  <2> QED BY <2>1 DEF DispatchInv
<1>4. CASE TakeRTC
  <2>1. interrupts /\ ~ interrupts' /\ UNCHANGED <<tables, base, booted>>
    BY <1>4 DEF TakeRTC, Acknowledge, Deliverable
  <2> QED BY <2>1 DEF DispatchInv
<1>5. CASE RTC_Handler
  <2>1. handler # "none" /\ UNCHANGED <<tables, base, booted>>
    BY <1>5 DEF RTC_Handler, Poll, ReadField, Compare, Publish, Return, ReadC
  <2> QED BY <2>1 DEF DispatchInv
<1>6. CASE Hardware
  <2>1. UNCHANGED <<tables, base, booted, handler, interrupts>>
    BY <1>6 DEF Hardware, PitPulse, KeyStruck, RtcPulse, ChipClock, Second, Carry
  <2> QED BY <2>1 DEF DispatchInv
<1>7. CASE UNCHANGED vars
  BY <1>7 DEF vars, DispatchInv
<1> QED BY <1>1, <1>2, <1>3, <1>4, <1>5, <1>6, <1>7 DEF Next

LEMMA DispatchAlways == Spec => []DispatchInv
  BY DispatchInit, DispatchNext, PTL DEF Spec

\* In whatever order the hardware interrupts the boot, an interrupt that is let
\* through finds a gate, the dispatcher behind it and no exception's vector; the page
\* fault keeps its handler (hal.c:3, irq.c:21, isr.c:42).
THEOREM VectorsAreHandled == Spec => []VectorsHandled
<1>1. DispatchInv => VectorsHandled
  <2> SUFFICES ASSUME DispatchInv PROVE VectorsHandled
    OBVIOUS
  <2>1. ASSUME interrupts
        PROVE  /\ idtr /\ filled = Gates /\ present = Gates /\ base = PIC_REMAP_OFFSET
               /\ g_ISRHandlers[PAGE_FAULT] = "PFHandler"
               /\ \A irq \in IRQs : g_ISRHandlers[PIC_REMAP_OFFSET + irq] = "i686_IRQ_Handler"
    BY <2>1 DEF DispatchInv
  <2> QED BY <2>1, VectorTypes DEF VectorsHandled, Deliverable, i686_ISR_Handler, Vector
<1> QED BY <1>1, DispatchAlways, PTL

-----------------------------------------------------------------------------
(* The lines of the clock                                                  *)

HandlerPlaces == {"none", "poll", "read", "compare", "publish", "acknowledge", "return"}

\* Which lines are open and who answers them as the boot goes on; the chip
\* interrupts from its 26th step on.
BootLinesInv ==
    /\ handler \in HandlerPlaces
    /\ DOMAIN g_IRQHandlers = IRQs
    /\ \A irq \in IRQs : g_IRQHandlers[irq] = "RTC_Handler" => irq = RTC
    /\ \A irq \in IRQs : g_IRQHandlers[irq] = "PIT_Handler" => irq = PIT
    /\ booted >= 22 => g_IRQHandlers[RTC] = "RTC_Handler"
    /\ booted >= 13 => CASCADE \notin g_PICMask /\ CASCADE \notin imr
    /\ booted >= 15 => RTC \notin g_PICMask
    /\ booted >= 16 => RTC \notin imr
    /\ booted = 25 => index = "B"
    /\ booted >= 26 <=> periodic

\* An interrupt of the clock that waits to be read is on its way.
PendingInv ==
    /\ irqf \/ RTC \in irr \/ handler # "none" => periodic
    /\ irqf => RTC \in irr \/ Busy

LinesInv == BootLinesInv /\ PendingInv

LEMMA LineNumbers ==
    /\ PIT = 0 /\ KEYBOARD = 1 /\ CASCADE = 2 /\ RTC = 8 /\ SPURIOUS = 15
    /\ IRQs = 0 .. 15 /\ Master = 0 .. 7 /\ Slave = 8 .. 15
  BY DEF PIT, KEYBOARD, CASCADE, RTC, SPURIOUS, IRQs, Master, Slave

LEMMA LinesInit == Init => LinesInv
  BY LineNumbers DEF Init, InterruptsInit, ClockInit, LinesInv, BootLinesInv, PendingInv, HandlerPlaces

LEMMA LinesBoot == DispatchInv /\ LinesInv /\ Boot => LinesInv'
<1> SUFFICES ASSUME DispatchInv, LinesInv, Boot PROVE LinesInv'
  OBVIOUS
<1> USE LineNumbers DEF LinesInv, BootLinesInv, PendingInv, Busy, tables, controller, cmos, registers, rtc
<1>0. booted \in 0 .. 30
  BY DEF DispatchInv
<1>1. CASE Dispatching
  <2>0. UNCHANGED <<handler, periodic, irqf, index>>
    BY <1>1 DEF Dispatching
  <2>1. CASE \/ Does("page_fault") /\ RegisterHandlers({PAGE_FAULT}, "PFHandler")
             \/ Does("lidt") /\ i686_IDT_Load
             \/ Does("gates") /\ i686_ISR_InitializeGates
             \/ Does("enable_gates") /\ EnableGates
             \/ Does("irqs") /\ RegisterHandlers({PIC_REMAP_OFFSET + irq : irq \in IRQs}, "i686_IRQ_Handler")
             \/ Does("sti") /\ i686_EnableInts
    <3>1. \E op \in {"page_fault", "lidt", "gates", "enable_gates", "irqs", "sti"} : Does(op)
      BY <2>1
    <3>2. booted < 8 /\ booted' = booted + 1
      BY <3>1, <1>0, StepOfBoot DEF Ops
    <3>3. UNCHANGED <<g_IRQHandlers, controller>>
      BY <2>1 DEF RegisterHandlers, i686_IDT_Load, i686_ISR_InitializeGates, EnableGates,
                  i686_EnableInts
    <3> QED BY <1>0, <2>0, <3>2, <3>3
  <2>2. CASE Does("probe") /\ i8259_Probe
    <3>1. booted = 4 /\ booted' = 5
      BY <2>2, <1>0, StepOfBoot DEF Ops
    <3> QED BY <2>0, <2>2, <3>1 DEF i8259_Probe
  <2>3. CASE Does("config") /\ i8259_Config
    <3>1. booted = 5 /\ booted' = 6 /\ handler = "none"
      BY <2>3, <1>0, StepOfBoot DEF Ops
    <3> QED BY <2>0, <2>3, <3>1 DEF i8259_Config
  <2>4. CASE Does("unmask") /\ UnmaskLow(Operand)
    <3>1. booted \in {8, 10, 12, 14, 16} /\ booted' = booted + 1
      BY <2>4, <1>0, StepOfBoot DEF Ops
    <3>2. /\ booted = 12 => Operand = CASCADE
          /\ booted = 14 => Operand = RTC
      BY Program DEF Operand
    <3>3. /\ g_PICMask' = g_PICMask \ {Operand}
          /\ imr' = ((g_PICMask \ {Operand}) \cap Master) \cup (imr \cap Slave)
          /\ UNCHANGED <<g_IRQHandlers, irr>>
      BY <2>4 DEF UnmaskLow, SetMaskLow, Unmasked
    <3> QED BY <2>0, <3>1, <3>2, <3>3
  <2>5. CASE Does("unmask_high") /\ UnmaskHigh
    <3>1. booted \in {9, 11, 13, 15, 17} /\ booted' = booted + 1
      BY <2>5, <1>0, StepOfBoot DEF Ops
    <3>2. /\ imr' = (imr \cap Master) \cup (g_PICMask \cap Slave)
          /\ UNCHANGED <<g_IRQHandlers, irr, g_PICMask>>
      BY <2>5 DEF UnmaskHigh, SetMaskHigh
    <3> QED BY <2>0, <3>1, <3>2
  <2>6. ASSUME NEW driver \in {"PIT_Handler", "keyboardHandler", "RTC_Handler"},
               Does(driver), i686_IRQ_RegisterHandler(Operand, driver)
        PROVE  LinesInv'
    <3>1. booted \in 19 .. 21 /\ booted' = booted + 1 /\ Ops[booted + 1] = driver
      BY <2>6, <1>0, StepOfBoot DEF Ops
    <3>2. /\ booted = 19 => driver = "PIT_Handler" /\ Operand = PIT
          /\ booted = 20 => driver = "keyboardHandler" /\ Operand = KEYBOARD
          /\ booted = 21 => driver = "RTC_Handler" /\ Operand = RTC
      BY <3>1, Program DEF Operand, Ops
    <3>3. g_IRQHandlers' = [g_IRQHandlers EXCEPT ![Operand] = driver] /\ UNCHANGED controller
      BY <2>6 DEF i686_IRQ_RegisterHandler
    <3> HIDE DEF Operand
    <3> QED BY <2>0, <3>1, <3>2, <3>3
  <2> QED BY <1>1, <2>1, <2>2, <2>3, <2>4, <2>5, <2>6 DEF Dispatching
<1>2. CASE PitChannel
  <2>1. booted = 18 /\ booted' = 19
    BY <1>2, <1>0, StepOfBoot DEF PitChannel, Ops
  <2> QED BY <1>2, <2>1 DEF PitChannel, set_PIT_channel_mode_frequency, i686_EnableInts
<1>3. CASE EnableClock
  <2>0. UNCHANGED <<tables, g_PICMask, imr, handler>>
    BY <1>3 DEF EnableClock, Select, ReadB, WriteB, ReadPending
  <2>1. CASE Does("select") /\ Select(Operand) /\ UNCHANGED <<irr, spurious>>
    <3>1. booted \in {22, 24, 26} /\ booted' = booted + 1 /\ (booted = 24 => Operand = "B")
      BY <2>1, <1>0, StepOfBoot, Program DEF Ops, Operand
    <3> QED BY <2>0, <2>1, <3>1 DEF Select
  <2>2. CASE Does("read_B") /\ ReadB /\ UNCHANGED <<irr, spurious>>
    <3>1. booted = 23 /\ booted' = 24
      BY <2>2, <1>0, StepOfBoot DEF Ops
    <3> QED BY <2>0, <2>2, <3>1 DEF ReadB, Select
  <2>3. CASE Does("write_B") /\ WriteB /\ UNCHANGED <<irr, spurious>>
    <3>1. booted = 25 /\ booted' = 26
      BY <2>3, <1>0, StepOfBoot DEF Ops
    <3>2. periodic' = TRUE
      BY <2>3, <3>1 DEF WriteB
    <3> QED BY <2>0, <2>3, <3>1, <3>2 DEF WriteB
  <2>4. CASE /\ Does("read_C") /\ ReadPending
             /\ irr' = IF irqf' THEN irr ELSE irr \ {RTC}
    <3>1. booted = 27 /\ booted' = 28 /\ handler = "none"
      BY <2>4, <1>0, StepOfBoot DEF Ops
    <3>2. irqf' => irqf
      BY <2>4, Zenon DEF ReadPending
    <3>3. (irqf' => irr' = irr) /\ irr' \subseteq irr /\ UNCHANGED periodic
      BY <2>4 DEF ReadPending
    <3> QED BY <2>0, <3>1, <3>2, <3>3
  <2> QED BY <1>3, <2>1, <2>2, <2>3, <2>4 DEF EnableClock
<1>4. CASE SelectDrivers \/ Hello
  <2>1. booted \in {28, 29} /\ booted' = booted + 1
    <3>1. \E op \in {"pci", "hello"} : Does(op)
      BY <1>4 DEF SelectDrivers, Hello
    <3> QED BY <3>1, <1>0, StepOfBoot DEF Ops
  <2> QED BY <1>4, <2>1 DEF SelectDrivers, Hello
<1> QED BY <1>1, <1>2, <1>3, <1>4 DEF Boot

LEMMA LinesNext == DispatchInv /\ LinesInv /\ [Next]_vars => LinesInv'
<1> SUFFICES ASSUME DispatchInv, LinesInv, [Next]_vars PROVE LinesInv'
  OBVIOUS
<1> USE LineNumbers DEF LinesInv, BootLinesInv, PendingInv, Busy, HandlerPlaces, tables, controller,
                        cmos, registers, reading, rtc, boot
<1>1. CASE Boot
  BY <1>1, LinesBoot
<1>2. CASE Shell
  <2>1. UNCHANGED <<tables, controller, cmos, rtc, boot>>
    BY <1>2 DEF Shell, play_note, speaker_enable, NoteFrequency, sleep, Check, Halt,
                speaker_disable, set_PIT_channel_mode_frequency, i686_EnableInts
  <2> QED BY <2>1
<1>3. ASSUME NEW irq \in IRQs, Acknowledge(irq)
      PROVE  /\ UNCHANGED <<tables, g_PICMask, imr>> /\ irr' = irr \ {irq}
             /\ irq # SPURIOUS => irq \in irr
  BY <1>3 DEF Acknowledge, Deliverable
<1>4. CASE TakeShort
  <2>1. PICK irq \in IRQs : Acknowledge(irq) /\ g_IRQHandlers[irq] # "RTC_Handler"
    BY <1>4 DEF TakeShort, i686_IRQ_Handler
  <2>2. UNCHANGED <<cmos, rtc, boot>>
    BY <1>4 DEF TakeShort
  <2>3. /\ UNCHANGED <<tables, g_PICMask, imr>> /\ irr' = irr \ {irq}
        /\ irq # SPURIOUS => irq \in irr
    BY <1>3, <2>1
  <2>4. irq # RTC
    BY <2>1, <2>3 DEF DispatchInv
  <2> QED BY <2>2, <2>3, <2>4
<1>5. CASE TakeRTC
  <2>1. PICK irq \in IRQs : Acknowledge(irq) /\ g_IRQHandlers[irq] = "RTC_Handler"
    BY <1>5 DEF TakeRTC, i686_IRQ_Handler
  <2>2. irq = RTC
    BY <2>1
  <2>3. UNCHANGED <<tables, g_PICMask, imr>> /\ irr' = irr \ {RTC} /\ RTC \in irr
    BY <1>3, <2>1, <2>2
  <2>4. /\ UNCHANGED <<periodic, irqf, index, boot>>
        /\ handler' \in {"poll", "acknowledge"}
    BY <1>5 DEF TakeRTC, EnterRTC
  <2> QED BY <2>3, <2>4
<1>6. CASE RTC_Handler
  <2>1. UNCHANGED <<tables, controller, boot>>
    BY <1>6 DEF RTC_Handler
  <2>2. CASE Poll \/ ReadField \/ Compare \/ Publish
    <3>1. UNCHANGED cmos /\ handler' \in {"poll", "read", "compare", "publish", "acknowledge"} /\ Busy
      BY <2>2 DEF Poll, ReadField, Compare, Publish
    <3> QED BY <2>1, <3>1
  <2>3. CASE Return
    BY <2>1, <2>3 DEF Return
  <2>4. CASE ReadC
    <3>1. ~ irqf' /\ handler' = "return" /\ UNCHANGED periodic /\ index' = "D" /\ handler # "none"
      BY <2>4 DEF ReadC
    <3>2. booted \in 0 .. 30 /\ booted # 25
      BY <3>1 DEF DispatchInv
    <3> QED BY <2>1, <3>1, <3>2
  <2> QED BY <1>6, <2>2, <2>3, <2>4 DEF RTC_Handler
<1>7. CASE Hardware
  <2>1. UNCHANGED <<tables, g_PICMask, imr, boot, handler, index, periodic>>
    BY <1>7 DEF Hardware, PitPulse, KeyStruck, RtcPulse, ChipClock, Second, Carry
  <2>2. \/ RtcPulse /\ periodic /\ irqf' /\ irr' = irr \cup {RTC}
        \/ UNCHANGED <<irqf, irr>>
        \/ UNCHANGED irqf /\ irr' = irr \cup {PIT}
        \/ UNCHANGED irqf /\ irr' = irr \cup {KEYBOARD}
    BY <1>7 DEF Hardware, PitPulse, KeyStruck, RtcPulse, ChipClock, Second, Carry
  <2> QED BY <2>1, <2>2
<1>8. CASE UNCHANGED vars
  BY <1>8 DEF vars
<1> QED BY <1>1, <1>2, <1>4, <1>5, <1>6, <1>7, <1>8 DEF Next

LEMMA LinesAlways == Spec => [](DispatchInv /\ LinesInv)
  BY DispatchInit, DispatchNext, LinesInit, LinesNext, PTL DEF Spec

\* An interrupt of the clock that register C holds back is always on its way to a
\* handler that reads C, and once the kernel is up the chip interrupts and its lines
\* are open (rtc.c:71, rtc.c:86, i8259.c:100).
THEOREM ClockIsNeverStuck == Spec => []ClockNeverStuck
<1>1. DispatchInv /\ LinesInv => ClockNeverStuck
  BY Program DEF DispatchInv, LinesInv, BootLinesInv, PendingInv, ClockNeverStuck, Booted
<1> QED BY <1>1, LinesAlways, PTL

-----------------------------------------------------------------------------
(* Sleeping                                                                *)

\* No note is so long that its ticks, before they are divided, do not fit in 32
\* bits: the kernel's own last a thousand milliseconds, of the 42 million that fit.
NotesFit == \A ms \in Durations : ms * FREQUENCY < UINT

Sleeping == {"check", "hlt", "halted"}
ShellPlaces == {"rest", "note", "frequency", "sleep", "off"} \cup Sleeping

\* While the task sleeps, elapsed is how far ticks has come from start, by less than
\* a whole turn; a tick that waits at the controller leaves room for itself.
SleepInv ==
    /\ shell \in ShellPlaces
    /\ ticks \in 0 .. UINT - 1 /\ start \in 0 .. UINT - 1 /\ elapsed \in 0 .. UINT - 1
    /\ asked \in Durations \cup {0}
    /\ PIT \in irr => elapsed <= UINT - 2
    /\ shell \in Sleeping => ticks - start = elapsed \/ ticks - start = elapsed - UINT
    /\ shell \in Sleeping \cup {"off"} =>
        wait_ticks = IF Ticks(asked) = 0 THEN 1 ELSE Ticks(asked)
    /\ shell = "off" => elapsed >= wait_ticks

LEMMA ClockTypes ==
    /\ UINT \in Nat /\ UINT > 1 /\ FREQUENCY \in Nat \ {0} /\ SECOND \in Nat \ {0}
    /\ Durations \cup {0} \subseteq Nat
  BY HalAssumption

LEMMA Turn ==
    ASSUME NEW n \in 0 .. UINT - 1
    PROVE  /\ n % UINT = n /\ (n - UINT) % UINT = n
           /\ (n + 1) % UINT = IF n = UINT - 1 THEN 0 ELSE n + 1
<1> USE ClockTypes
<1>1. n % UINT = n
  OBVIOUS
<1>2. (n - UINT) % UINT = n
  OBVIOUS
<1>3. CASE n = UINT - 1
  BY <1>1, <1>3
<1>4. CASE n # UINT - 1
  BY <1>1, <1>4
<1> QED BY <1>1, <1>2, <1>3, <1>4

LEMMA SleepInit == Init => SleepInv
  BY ClockTypes DEF Init, SleepInv, ShellPlaces, Sleeping

LEMMA TickCounts ==
    ASSUME SleepInv, PIT_Handler, PIT \in irr, PIT \notin irr',
           UNCHANGED <<start, asked, wait_ticks>>, Wake
    PROVE  SleepInv'
<1> USE ClockTypes DEF SleepInv, ShellPlaces, Sleeping
<1>1. ticks' = IF ticks = UINT - 1 THEN 0 ELSE ticks + 1
  BY Turn DEF PIT_Handler
<1>2. elapsed' = IF shell \in Sleeping THEN elapsed + 1 ELSE elapsed
  BY DEF PIT_Handler
<1>3. shell' = IF shell = "halted" THEN "check" ELSE shell
  BY DEF Wake
<1>4. Ticks(asked)' = Ticks(asked)
  BY DEF Ticks
<1> QED BY <1>1, <1>2, <1>3, <1>4

LEMMA SleepShell == SleepInv /\ Shell => SleepInv'
<1> SUFFICES ASSUME SleepInv, Shell PROVE SleepInv'
  OBVIOUS
<1> USE ClockTypes DEF SleepInv, ShellPlaces, Sleeping, timing, At, controller
<1>1. CASE play_note
  BY <1>1 DEF play_note
<1>2. CASE speaker_enable
  BY <1>2 DEF speaker_enable
<1>3. CASE NoteFrequency
  BY <1>3 DEF NoteFrequency, set_PIT_channel_mode_frequency, i686_EnableInts
<1>4. CASE sleep
  BY <1>4 DEF sleep, i686_EnableInts, Ticks
<1>5. CASE Check
  <2>1. (ticks - start) % UINT = elapsed
    BY <1>5, Turn DEF Check
  <2>2. wait_ticks \in Int
    <3>1. Ticks(asked) \in Int
      BY DEF Ticks
    <3> QED BY <1>5, <3>1 DEF Check
  <2>3. Ticks(asked)' = Ticks(asked)
    BY <1>5 DEF Check, Ticks
  <2>4. UNCHANGED <<ticks, start, elapsed, asked, wait_ticks, irr>> /\ shell = "check"
        /\ shell' = IF elapsed < wait_ticks THEN "hlt" ELSE "off"
    BY <1>5, <2>1 DEF Check, Waiting
  <2> QED BY <2>2, <2>3, <2>4
<1>6. CASE Halt
  BY <1>6 DEF Halt, Ticks
<1>7. CASE speaker_disable
  BY <1>7 DEF speaker_disable
<1> QED BY <1>1, <1>2, <1>3, <1>4, <1>5, <1>6, <1>7 DEF Shell

LEMMA SleepNext == DispatchInv /\ LinesInv /\ SleepInv /\ [Next]_vars => SleepInv'
<1> SUFFICES ASSUME DispatchInv, LinesInv, SleepInv, [Next]_vars PROVE SleepInv'
  OBVIOUS
<1> USE ClockTypes DEF sound, timing, controller
<1>1. CASE Boot
  <2>1. UNCHANGED <<shell, timing, ticks, elapsed>>
    BY <1>1 DEF Boot, Dispatching, PitChannel, EnableClock, SelectDrivers, Hello
  <2>2. irr' \subseteq irr
    BY <1>1 DEF Boot, Dispatching, PitChannel, EnableClock, SelectDrivers, Hello, RegisterHandlers,
                i686_IDT_Load, i686_ISR_InitializeGates, EnableGates, i8259_Probe, i8259_Config,
                i686_EnableInts, UnmaskLow, UnmaskHigh, i686_IRQ_RegisterHandler,
                set_PIT_channel_mode_frequency
  <2> QED BY <2>1, <2>2 DEF SleepInv, Ticks
<1>2. CASE Shell
  BY <1>2, SleepShell
<1>3. CASE TakeShort
  <2>1. PICK irq \in IRQs :
          /\ Acknowledge(irq)
          /\ IF g_IRQHandlers[irq] = "PIT_Handler" THEN PIT_Handler
             ELSE UNCHANGED <<ticks, elapsed>>
    BY <1>3 DEF TakeShort, i686_IRQ_Handler
  <2>2. UNCHANGED <<start, asked, wait_ticks>> /\ Wake
    BY <1>3 DEF TakeShort
  <2>3. irr' = irr \ {irq} /\ (irq # SPURIOUS => irq \in irr)
    BY <2>1 DEF Acknowledge, Deliverable
  <2>4. CASE g_IRQHandlers[irq] = "PIT_Handler"
    <3>1. irq = PIT
      BY <2>4 DEF LinesInv, BootLinesInv
    <3> QED BY <2>1, <2>2, <2>3, <2>4, <3>1, TickCounts, LineNumbers
  <2>5. CASE g_IRQHandlers[irq] # "PIT_Handler"
    BY <2>1, <2>2, <2>3, <2>5 DEF SleepInv, Wake, Ticks, Sleeping, ShellPlaces
  <2> QED BY <2>4, <2>5
<1>4. CASE TakeRTC
  <2>1. irr' \subseteq irr /\ Wake /\ UNCHANGED <<timing, ticks, elapsed>>
    BY <1>4 DEF TakeRTC, Acknowledge
  <2> QED BY <2>1 DEF SleepInv, Wake, Ticks, Sleeping, ShellPlaces
<1>5. CASE RTC_Handler
  <2>1. UNCHANGED <<controller, sound, ticks, elapsed>>
    BY <1>5 DEF RTC_Handler
  <2> QED BY <2>1 DEF SleepInv, Ticks
<1>6. CASE Hardware
  <2>1. UNCHANGED <<sound, ticks, elapsed>>
    BY <1>6 DEF Hardware, PitPulse, KeyStruck, RtcPulse, ChipClock
  <2>2. \/ irr' = irr \cup {PIT} /\ elapsed < UINT - (IF shell = "halted" THEN 1 ELSE 2)
        \/ irr' = irr \cup {KEYBOARD} \/ irr' = irr \cup {RTC} \/ UNCHANGED irr
    BY <1>6 DEF Hardware, PitPulse, KeyStruck, RtcPulse, ChipClock
  <2> QED BY <2>1, <2>2, LineNumbers DEF SleepInv, Ticks
<1>7. CASE UNCHANGED vars
  BY <1>7 DEF vars, SleepInv, Ticks
<1> QED BY <1>1, <1>2, <1>3, <1>4, <1>5, <1>6, <1>7 DEF Next

LEMMA SleepAlways == Spec => []SleepInv
  BY DispatchInit, DispatchNext, LinesInit, LinesNext, SleepInit, SleepNext, PTL DEF Spec

LEMMA WholeTicks ==
    ASSUME NEW d \in Nat \ {0}, NEW a \in Nat, NEW n \in Nat, a \div d <= n
    PROVE  a < (n + 1) * d
<1> DEFINE q == a \div d
<1>1. q \in Nat /\ q * d \in Nat /\ a < q * d + d
  BY SMTT(20)
<1>2. q <= n
  OBVIOUS
<1> HIDE DEF q
<1>3. PICK k \in Nat : n = q + k
  <2>1. n - q \in Nat /\ n = q + (n - q)
    BY <1>1, <1>2
  <2> QED BY <2>1
<1>4. (n + 1) * d = q * d + d + k * d
  BY <1>1, <1>3, SMTT(20)
<1>5. k * d \in Nat
  BY <1>3
<1> QED BY <1>1, <1>4, <1>5

\* A task that sleeps is not back before a tick has come, and all the ticks of the
\* milliseconds it asked for but a part of one, however often ticks wraps
\* (i8254.c:80, i8254.c:83).
THEOREM SleepMissesPartOfATick == NotesFit => (Spec => []SleptAllButATick)
<1> SUFFICES ASSUME NotesFit PROVE Spec => []SleptAllButATick
  OBVIOUS
<1> USE ClockTypes
<1>1. SleepInv => SleptAllButATick
  <2> SUFFICES ASSUME SleepInv, shell = "off"
               PROVE  elapsed >= 1 /\ asked * FREQUENCY < (elapsed + 1) * SECOND
    BY DEF SleptAllButATick
  <2> DEFINE t == (asked * FREQUENCY) \div SECOND
  <2>1. asked \in Nat /\ asked * FREQUENCY \in Nat /\ asked * FREQUENCY < UINT
    BY DEF SleepInv, NotesFit
  <2>2. Ticks(asked) = t /\ t \in Nat
    <3>1. (asked * FREQUENCY) % UINT = asked * FREQUENCY
      BY <2>1
    <3> QED BY <2>1, <3>1 DEF Ticks
  <2>3. elapsed \in Nat /\ elapsed >= 1 /\ t <= elapsed
    BY <2>2 DEF SleepInv
  <2>4. asked * FREQUENCY < (elapsed + 1) * SECOND
    BY <2>1, <2>3, WholeTicks
  <2> QED BY <2>3, <2>4
<1> QED BY <1>1, SleepAlways, PTL

-----------------------------------------------------------------------------
(* The walk over the bus                                                   *)

PciInv == machine \in Machines \cup {<<>>} /\ listed = DOMAIN machine

\* The walk lists the places that are occupied, and no others.
LEMMA WalkFindsAll ==
    ASSUME NEW m \in Machines
    PROVE  Pci!SelectDrivers(m) = DOMAIN m
<1> USE BusAssumption DEF Pci!SelectDrivers, Pci!Listed, Pci!PCI_read, Pci!Empty
<1>1. ASSUME NEW place \in Pci!SelectDrivers(m)
      PROVE  place \in DOMAIN m
  BY <1>1
<1>2. ASSUME NEW place \in DOMAIN m
      PROVE  place \in Pci!SelectDrivers(m)
  <2>1. place \in Pci!Places /\ m[place].vendor \notin NO_VENDOR
    BY <1>2
  <2>2. place[3] \in 0 .. FUNCTIONS - 1
    BY <2>1 DEF Pci!Places
  <2>3. place[3] < Pci!num_functions(m, place[1], place[2])
    <3>1. CASE place[3] = 0
      BY <3>1 DEF Pci!num_functions
    <3>2. CASE place[3] > 0
      <4>1. <<place[1], place[2], 0>> \in DOMAIN m /\ m[<<place[1], place[2], 0>>].multi
        BY <1>2, <3>2
      <4> QED BY <2>2, <4>1 DEF Pci!num_functions, Pci!do_you_have_functions
    <3> QED BY <2>2, <3>1, <3>2
  <2> QED BY <1>2, <2>1, <2>3
<1> QED BY <1>1, <1>2

\* Of a header with n base addresses the walk takes as many.
LEMMA BarsOfHeader ==
    ASSUME NEW space, space.type \in 0 .. 2
    PROVE  Cardinality(Pci!BarsRead(space)) =
               CASE space.type = 0 -> 6 [] space.type = 1 -> 2 [] OTHER -> 0
<1> USE DEF Pci!BarsRead, Pci!max_bars, Pci!Int8
<1>0. \A last \in Nat : Cardinality(0 .. last) = last + 1
  BY FS_Interval
<1>1. CASE space.type = 0
  <2>1. Pci!BarsRead(space) = 0 .. 5
    BY <1>1
  <2>2. Cardinality(0 .. 5) = 5 + 1
    BY <1>0, 5 \in Nat, Zenon
  <2> QED BY <1>1, <2>1, <2>2
<1>2. CASE space.type = 1
  <2>1. Pci!BarsRead(space) = 0 .. 1
    BY <1>2
  <2>2. Cardinality(0 .. 1) = 1 + 1
    BY <1>0, 1 \in Nat, Zenon
  <2> QED BY <1>2, <2>1, <2>2
<1>3. CASE space.type = 2
  <2>1. Pci!BarsRead(space) = {}
    BY <1>3
  <2> QED BY <1>3, <2>1, FS_EmptySet
<1> QED BY <1>1, <1>2, <1>3

LEMMA PciNext == PciInv /\ [Next]_vars => PciInv'
<1> SUFFICES ASSUME PciInv, [Next]_vars PROVE PciInv'
  OBVIOUS
<1> USE DEF PciInv, boot
<1>1. CASE Boot
  <2>1. CASE SelectDrivers
    BY <2>1, WalkFindsAll DEF SelectDrivers
  <2>2. CASE Hello
    <3>1. DOMAIN <<>> = {}
      OBVIOUS
    <3> QED BY <2>2, <3>1 DEF Hello
  <2>3. CASE Dispatching \/ PitChannel \/ EnableClock
    BY <2>3 DEF Dispatching, PitChannel, EnableClock
  <2> QED BY <1>1, <2>1, <2>2, <2>3 DEF Boot
<1>2. CASE Shell
  BY <1>2 DEF Shell, play_note, speaker_enable, NoteFrequency, sleep, Check, Halt, speaker_disable
<1>3. CASE TakeShort \/ TakeRTC \/ RTC_Handler
  BY <1>3 DEF TakeShort, TakeRTC, RTC_Handler
<1>4. CASE Hardware
  BY <1>4 DEF Hardware, PitPulse, KeyStruck, RtcPulse, ChipClock
<1>5. CASE UNCHANGED vars
  BY <1>5 DEF vars
<1> QED BY <1>1, <1>2, <1>3, <1>4, <1>5 DEF Next

\* On every bus that keeps to the standard the walk finds each function once, and takes
\* as base addresses what its header has there (pci.c:65, pci.c:111).
THEOREM BusIsListed == Spec => []PciListed
<1>1. Init => PciInv
  BY DEF Init, PciInv
<1>2. PciInv => PciListed
  <2> SUFFICES ASSUME PciInv, NEW place \in listed
               PROVE  machine[place].type \in 0 .. 2
    BY BarsOfHeader DEF PciInv, PciListed
  <2>1. machine \in Machines
    <3>1. DOMAIN <<>> = {}
      OBVIOUS
    <3> QED BY <3>1 DEF PciInv
  <2> QED BY <2>1, BusAssumption DEF PciInv
<1> QED BY <1>1, <1>2, PciNext, PTL DEF Spec

-----------------------------------------------------------------------------
(* The time that is published                                              *)

\* Less than a minute passes in one run of the handler, which takes it some
\* milliseconds; then no second comes twice, and no other field changes twice.
WithinAMinute == UPDATES < 60

Fields == 1 .. 6
Indices == 0 .. 59

\* What the chip shows k seconds after t, for less than a minute.
NextMinute(t) == NextSecond([i \in Fields |-> IF i = 1 THEN 59 ELSE t[i]])
Later(t, k) ==
    [i \in Fields |->
        IF i = 1 THEN (IF t[1] + k <= 59 THEN t[1] + k ELSE t[1] + k - 60)
        ELSE IF t[1] + k <= 59 THEN t[i] ELSE NextMinute(t)[i]]

\* The chip has counted from t0 since the handler was entered; while it carries a second, the seconds go first.
ChipInv(t0) ==
    /\ chip.binary \in BOOLEAN /\ chip.h24 \in BOOLEAN
    /\ passed \in Indices
    /\ target = Later(t0, passed)
    /\ \/ time = target
       \/ /\ passed > 0
          /\ \/ time = Later(t0, passed - 1)
             \/ /\ time \in [Fields -> Nat] /\ time[1] = target[1]
                /\ \A i \in Fields : time[i] \in {Later(t0, passed - 1)[i], target[i]}

Register(i, value) == IF i = 3 THEN Hours(value) ELSE Digits(value)
Encoding == [i \in Fields |-> [value \in 0 .. 99 |-> Register(i, value)]]

\* Each register of the pass was read in one of the seconds from the a-th to the b-th.
Pass(e, t0, raw, a, b) ==
    \A i \in 1 .. Len(raw) : \E k \in a .. b : raw[i] = e[i][Later(t0, k)[i]]

\* A pass begins when the chip shows a whole time, of the second a; the pass before it
\* was over then.
ReadInv(t0) ==
    /\ handler \in HandlerPlaces
    /\ handler \in {"none", "return"} => shown = {}
    /\ handler \in {"none", "return", "acknowledge"} => new_datetime = <<>> /\ old_datetime = <<>>
    /\ handler \in {"poll", "read", "compare", "publish"} => shown # {}
    /\ shown # {} /\ time = target => time \in shown
    /\ old_datetime \in Seq(Nat) /\ Len(old_datetime) \in {0, 6}
    /\ new_datetime \in Seq(Nat)
    /\ handler = "poll" => new_datetime = <<>> /\ Pass(Encoding, t0, old_datetime, 0, passed)
    /\ handler = "read" => Len(new_datetime) < 6
    /\ handler = "compare" => Len(new_datetime) = 6
    /\ handler \in {"read", "compare"} =>
        \E a \in 0 .. passed :
            /\ Later(t0, a) \in shown
            /\ passed = a => time = target
            /\ Pass(Encoding, t0, old_datetime, 0, a) /\ Pass(Encoding, t0, new_datetime, a, passed)
    /\ handler = "publish" =>
        \E a \in 0 .. passed :
            /\ Later(t0, a) \in shown
            /\ \A i \in Fields : new_datetime[i] = Encoding[i][Later(t0, a)[i]]

\* What the code makes of a time: of twelve o'clock of a chip with two halves of the
\* day it makes the other twelve.
Made(t) ==
    [i \in Fields |-> IF i = 3 /\ ~ chip.h24 /\ t[3] % 12 = 0 THEN 12 - t[3]
                     ELSE IF i = 6 THEN t[6] + 2000 ELSE t[i]]

PublishInv ==
    /\ handler = "acknowledge" /\ shown # {} =>
        \E t \in shown : IsTime(t) /\ g_datetime = Made(t)
    /\ g_datetime = <<>> \/ \E t : IsTime(t) /\ g_datetime = Made(t)

TimeInv(t0) == IsTime(t0) /\ ChipInv(t0) /\ ReadInv(t0) /\ PublishInv

LEMMA FieldRanges ==
    ASSUME NEW t, IsTime(t)
    PROVE  /\ t \in [Fields -> Nat]
           /\ t[1] \in 0 .. 59 /\ t[2] \in 0 .. 59 /\ t[3] \in 0 .. 23
           /\ t[4] \in 1 .. Days(t[5]) /\ t[5] \in 1 .. 12 /\ t[6] \in 0 .. 99
           /\ Days(t[5]) \in {28, 30, 31}
<1>1. /\ t[1] \in FirstOf[1] .. LastOf(t)[1] /\ t[2] \in FirstOf[2] .. LastOf(t)[2]
      /\ t[3] \in FirstOf[3] .. LastOf(t)[3] /\ t[4] \in FirstOf[4] .. LastOf(t)[4]
      /\ t[5] \in FirstOf[5] .. LastOf(t)[5] /\ t[6] \in FirstOf[6] .. LastOf(t)[6]
  BY DEF IsTime
<1>2. Days(t[5]) \in {28, 30, 31}
  BY DEF Days
<1> QED BY <1>1, <1>2 DEF IsTime, FirstOf, LastOf, Fields

\* A date and a time of day have a next one.
LEMMA NextIsTime ==
    ASSUME NEW t, IsTime(t)
    PROVE  IsTime(NextSecond(t))
<1> DEFINE n == NextSecond(t)
<1>0. /\ t \in [Fields -> Nat]
      /\ t[1] \in 0 .. 59 /\ t[2] \in 0 .. 59 /\ t[3] \in 0 .. 23
      /\ t[4] \in 1 .. Days(t[5]) /\ t[5] \in 1 .. 12 /\ t[6] \in 0 .. 99
      /\ Days(t[5]) \in {28, 30, 31}
  BY FieldRanges
<1>1. /\ DOMAIN n = Fields /\ n = [i \in Fields |-> n[i]]
      /\ \A i \in Fields :
            n[i] = IF \E j \in 1 .. i - 1 : t[j] # LastOf(t)[j] THEN t[i]
                   ELSE IF t[i] = LastOf(t)[i] THEN FirstOf[i] ELSE t[i] + 1
  BY DEF NextSecond, Fields
<1> HIDE DEF n
<1>2. /\ n[1] = IF t[1] = 59 THEN 0 ELSE t[1] + 1
      /\ n[2] = IF t[1] # 59 THEN t[2] ELSE IF t[2] = 59 THEN 0 ELSE t[2] + 1
      /\ n[3] \in {t[3], IF t[3] = 23 THEN 0 ELSE t[3] + 1}
      /\ n[6] \in {t[6], IF t[6] = 99 THEN 0 ELSE t[6] + 1}
  BY <1>0, <1>1 DEF Fields, LastOf, FirstOf
<1>3. \/ n[4] = t[4] /\ n[5] = t[5]
      \/ n[4] = t[4] + 1 /\ t[4] # Days(t[5]) /\ n[5] = t[5]
      \/ n[4] = 1 /\ n[5] = IF t[5] = 12 THEN 1 ELSE t[5] + 1
  BY <1>0, <1>1 DEF Fields, LastOf, FirstOf
<1>4. /\ n[1] \in 0 .. 59 /\ n[2] \in 0 .. 59 /\ n[3] \in 0 .. 23 /\ n[6] \in 0 .. 99
      /\ n[5] \in 1 .. 12 /\ n[4] \in 1 .. 31
  BY <1>0, <1>2, <1>3
<1>5. n[4] <= Days(n[5])
  <2>1. CASE n[5] = t[5]
    BY <1>0, <1>3, <2>1
  <2>2. CASE n[4] = 1
    BY <2>2 DEF Days
  <2> QED BY <1>3, <2>1, <2>2
<1>6. n \in [Fields -> Nat]
  BY <1>1, <1>4 DEF Fields
<1>7. Days(n[5]) \in {28, 30, 31}
  BY DEF Days
<1>8. \A i \in Fields : n[i] \in FirstOf[i] .. LastOf(n)[i]
  BY <1>4, <1>5, <1>7 DEF Fields, FirstOf, LastOf
<1> QED BY <1>6, <1>8 DEF IsTime, Fields, n

LEMMA LaterIsTime ==
    ASSUME NEW t, IsTime(t), NEW k \in Indices
    PROVE  IsTime(Later(t, k))
<1> DEFINE last == [i \in Fields |-> IF i = 1 THEN 59 ELSE t[i]]
           m == NextMinute(t)
           n == Later(t, k)
<1>0. /\ t \in [Fields -> Nat]
      /\ t[1] \in 0 .. 59 /\ t[2] \in 0 .. 59 /\ t[3] \in 0 .. 23
      /\ t[4] \in 1 .. Days(t[5]) /\ t[5] \in 1 .. 12 /\ t[6] \in 0 .. 99
      /\ Days(t[5]) \in {28, 30, 31}
  BY FieldRanges
<1>1. IsTime(last)
  BY <1>0 DEF IsTime, Fields, FirstOf, LastOf
<1>2. IsTime(m)
  BY <1>1, NextIsTime DEF NextMinute
<1>3. /\ m \in [Fields -> Nat]
      /\ m[1] \in 0 .. 59 /\ m[2] \in 0 .. 59 /\ m[3] \in 0 .. 23
      /\ m[4] \in 1 .. Days(m[5]) /\ m[5] \in 1 .. 12 /\ m[6] \in 0 .. 99
      /\ Days(m[5]) \in {28, 30, 31}
  BY <1>2, FieldRanges
<1> HIDE DEF m
<1>4. n = [i \in Fields |->
             IF i = 1 THEN (IF t[1] + k <= 59 THEN t[1] + k ELSE t[1] + k - 60)
             ELSE IF t[1] + k <= 59 THEN t[i] ELSE m[i]]
  BY DEF Later, m
<1> HIDE DEF n
<1>5. n[1] \in 0 .. 59
  BY <1>0, <1>4 DEF Indices, Fields
<1>6. CASE t[1] + k <= 59
  BY <1>0, <1>4, <1>5, <1>6 DEF IsTime, Fields, FirstOf, LastOf, n
<1>7. CASE ~ (t[1] + k <= 59)
  BY <1>3, <1>4, <1>5, <1>7 DEF IsTime, Fields, FirstOf, LastOf, n
<1> QED BY <1>6, <1>7

\* The seconds count up, and nothing else moves but once.
LEMMA LaterNext ==
    ASSUME NEW t, IsTime(t), NEW k \in Indices, k + 1 \in Indices
    PROVE  NextSecond(Later(t, k)) = Later(t, k + 1)
<1> DEFINE last == [i \in Fields |-> IF i = 1 THEN 59 ELSE t[i]]
           n == Later(t, k)
<1>0. t \in [Fields -> Nat] /\ t[1] \in 0 .. 59
  BY FieldRanges
<1>1. CASE t[1] + k = 59
  <2>1. n = last
    BY <1>0, <1>1 DEF Later
  <2>2. NextSecond(last) = NextMinute(t)
    BY DEF NextMinute
  <2>3. NextSecond(last)[1] = 0
    <3>1. last[1] = 59
      BY DEF Fields
    <3> HIDE DEF last
    <3> QED BY <3>1 DEF NextSecond, LastOf, FirstOf
  <2>4. Later(t, k + 1) = NextMinute(t)
    <3>1. t[1] + (k + 1) = 60
      BY <1>0, <1>1 DEF Indices
    <3>2. NextMinute(t) = [i \in Fields |-> NextMinute(t)[i]]
      BY DEF NextMinute, NextSecond, Fields
    <3>3. \A i \in Fields : Later(t, k + 1)[i] = NextMinute(t)[i]
      <4>1. NextMinute(t)[1] = 0
        BY <2>2, <2>3
      <4> QED BY <1>0, <3>1, <4>1 DEF Later, Indices
    <3>4. Later(t, k + 1) = [i \in Fields |-> Later(t, k + 1)[i]]
      BY DEF Later
    <3> QED BY <3>2, <3>3, <3>4
  <2> QED BY <2>1, <2>2, <2>4
<1>2. CASE t[1] + k # 59
  <2>1. n[1] # 59 /\ Later(t, k + 1)[1] = n[1] + 1
    BY <1>0, <1>2 DEF Later, Indices, Fields
  <2>2. \A i \in Fields : i # 1 => Later(t, k + 1)[i] = n[i]
    BY <1>0, <1>2 DEF Later, Indices, Fields
  <2>3. NextSecond(n) = [i \in Fields |-> IF i = 1 THEN n[1] + 1 ELSE n[i]]
    BY <2>1 DEF NextSecond, LastOf, Fields
  <2>4. Later(t, k + 1) = [i \in Fields |-> Later(t, k + 1)[i]]
    BY DEF Later
  <2> HIDE DEF n
  <2>5. Later(t, k + 1) = [i \in Fields |-> IF i = 1 THEN n[1] + 1 ELSE n[i]]
    BY <2>1, <2>2, <2>4
  <2> QED BY <2>3, <2>5 DEF n
<1> QED BY <1>1, <1>2

LEMMA LaterFacts ==
    ASSUME NEW t, IsTime(t)
    PROVE  /\ Later(t, 0) = t
           /\ \A j, k \in Indices : Later(t, j)[1] = Later(t, k)[1] => j = k
           /\ \A i \in Fields : i # 1 =>
                \A j, k, l \in Indices : j <= k /\ k <= l =>
                    Later(t, k)[i] = Later(t, j)[i] \/ Later(t, k)[i] = Later(t, l)[i]
<1>0. t \in [Fields -> Nat] /\ t[1] \in 0 .. 59
  BY FieldRanges
<1>1. Later(t, 0) = t
  BY <1>0 DEF Later, Fields
<1>2. \A j, k \in Indices : Later(t, j)[1] = Later(t, k)[1] => j = k
  BY <1>0 DEF Later, Fields, Indices
<1>3. ASSUME NEW i \in Fields, i # 1, NEW j \in Indices, NEW k \in Indices, NEW l \in Indices,
             j <= k, k <= l
      PROVE  Later(t, k)[i] = Later(t, j)[i] \/ Later(t, k)[i] = Later(t, l)[i]
  BY <1>0, <1>3 DEF Later, Fields, Indices
<1> QED BY <1>1, <1>2, <1>3

\* The conversions undo what the registers do to a number, and to an hour but twelve
\* o'clock, which they turn into the other.
LEMMA DigitsBack ==
    ASSUME NEW n \in 0 .. 99
    PROVE  /\ (n \div 10) * 16 + (n % 10) \in Nat
           /\ FromDigits((n \div 10) * 16 + (n % 10)) = n
           /\ n < 80 => (n \div 10) * 16 + (n % 10) < 128
<1>1. PICK d \in 0 .. 9, e \in 0 .. 9 : n = 10 * d + e
  <2>1. n \div 10 \in 0 .. 9 /\ n % 10 \in 0 .. 9 /\ n = 10 * (n \div 10) + (n % 10)
    OBVIOUS
  <2> QED BY <2>1
<1>2. n \div 10 = d /\ n % 10 = e
  BY <1>1
<1>3. (16 * d + e) % 16 = e /\ (16 * d + e) \div 16 = d
  BY <1>1
<1>4. (n \div 10) * 16 + (n % 10) = 16 * d + e
  BY <1>1, <1>2
<1> QED BY <1>1, <1>3, <1>4 DEF FromDigits

LEMMA RegisterTypes ==
    ASSUME NEW i \in Fields, NEW n \in 0 .. 99
    PROVE  Register(i, n) \in Nat
<1>1. \A m \in 0 .. 99 : Digits(m) \in Nat
  BY DigitsBack DEF Digits
<1>2. n % 12 \in 0 .. 11
  OBVIOUS
<1> QED BY <1>1, <1>2 DEF Register, Hours

LEMMA SecondsDiffer ==
    ASSUME NEW m \in 0 .. 59, NEW n \in 0 .. 59, Register(1, m) = Register(1, n)
    PROVE  m = n
<1>1. Digits(m) = Digits(n)
  BY DEF Register
<1>2. CASE chip.binary
  BY <1>1, <1>2 DEF Digits
<1>3. CASE ~ chip.binary
  BY <1>1, <1>3, DigitsBack DEF Digits
<1> QED BY <1>2, <1>3

LEMMA HourBack ==
    ASSUME NEW h \in 0 .. 23, NEW raw, raw[3] = Hours(h)
    PROVE  (IF chip.h24 THEN Binary(raw, 3) ELSE To24(Binary(raw, 3)))
               = IF ~ chip.h24 /\ h % 12 = 0 THEN 12 - h ELSE h
<1> DEFINE d == IF h % 12 = 0 THEN 12 ELSE h % 12
<1>1. /\ d \in 1 .. 12
      /\ h >= 12 => (d + 12) % 24 = IF h % 12 = 0 THEN 0 ELSE h
      /\ h < 12 => d = IF h % 12 = 0 THEN 12 ELSE h
      /\ h % 12 = 0 => h = 0 \/ h = 12
  OBVIOUS
<1> HIDE DEF d
<1>2. ASSUME NEW n \in 0 .. 23, NEW half \in {0, 128}, raw[3] = Digits(n) + half
      PROVE  Binary(raw, 3) = n + half
  <2>1. CASE chip.binary
    BY <1>2, <2>1 DEF Binary, Digits
  <2>2. CASE ~ chip.binary
    <3> DEFINE c == (n \div 10) * 16 + (n % 10)
    <3>1. c \in 0 .. 127 /\ FromDigits(c) = n
      BY DigitsBack
    <3>2. raw[3] = c + half
      BY <1>2, <2>2 DEF Digits
    <3> HIDE DEF c
    <3>3. (c + half) % 128 = c /\ ((c + half) \div 128) * 128 = half
      BY <3>1
    <3>4. Binary(raw, 3) = FromDigits(raw[3] % 128) + (raw[3] \div 128) * 128
      BY <2>2 DEF Binary
    <3> QED BY <3>1, <3>2, <3>3, <3>4
  <2> QED BY <2>1, <2>2
<1>3. CASE chip.h24
  <2>1. raw[3] = Digits(h) + 0
    <3>1. Digits(h) \in Nat
      BY DigitsBack DEF Digits
    <3> QED BY <1>3, <3>1 DEF Hours
  <2>2. Binary(raw, 3) = h + 0
    BY <1>2, <2>1
  <2> QED BY <1>3, <2>2
<1>4. CASE ~ chip.h24
  <2> DEFINE half == IF h >= 12 THEN 128 ELSE 0
  <2>1. raw[3] = Digits(d) + half
    BY <1>4 DEF Hours, d
  <2>2. Binary(raw, 3) = d + half
    BY <1>1, <1>2, <2>1
  <2>3. CASE h >= 12
    <3>1. d + 128 >= 128 /\ (d + 128) % 128 = d
      BY <1>1
    <3>2. To24(Binary(raw, 3)) = (d + 12) % 24
      BY <2>2, <2>3, <3>1 DEF To24
    <3> QED BY <1>1, <1>4, <2>3, <3>2
  <2>4. CASE h < 12
    <3>1. To24(Binary(raw, 3)) = d
      BY <1>1, <2>2, <2>4 DEF To24
    <3> QED BY <1>1, <1>4, <2>4, <3>1
  <2> QED BY <2>3, <2>4
<1> QED BY <1>3, <1>4

LEMMA ConversionIsRight ==
    ASSUME NEW t, IsTime(t), NEW raw, \A i \in Fields : raw[i] = Register(i, t[i])
    PROVE  Converted(raw) = Made(t)
<1>0. /\ t[1] \in 0 .. 99 /\ t[2] \in 0 .. 99 /\ t[3] \in 0 .. 23
      /\ t[4] \in 0 .. 99 /\ t[5] \in 0 .. 99 /\ t[6] \in 0 .. 99
  BY FieldRanges
<1>1. ASSUME NEW i \in Fields, i # 3
      PROVE  Binary(raw, i) = t[i]
  <2>1. raw[i] = Digits(t[i])
    BY <1>1 DEF Register
  <2>2. t[i] \in 0 .. 99
    BY <1>0, <1>1 DEF Fields
  <2> QED BY <1>1, <2>1, <2>2, DigitsBack DEF Binary, Digits
<1>2. (IF chip.h24 THEN Binary(raw, 3) ELSE To24(Binary(raw, 3)))
          = IF ~ chip.h24 /\ t[3] % 12 = 0 THEN 12 - t[3] ELSE t[3]
  <2>1. raw[3] = Hours(t[3])
    BY DEF Register, Fields
  <2> QED BY <1>0, <2>1, HourBack
<1>3. \A i \in Fields : Converted(raw)[i] = Made(t)[i]
  BY <1>1, <1>2 DEF Converted, Made, Fields
<1>4. /\ Converted(raw) = [i \in Fields |-> Converted(raw)[i]]
      /\ Made(t) = [i \in Fields |-> Made(t)[i]]
  BY DEF Converted, Made, Fields
<1> QED BY <1>3, <1>4

LEMMA LeastField ==
    ASSUME NEW S, S \subseteq Fields, S # {}
    PROVE  Min(S) \in S /\ \A j \in S : Min(S) <= j
<1>1. \E i \in S : \A j \in S : i <= j
  <2>1. CASE 1 \in S
    BY <2>1 DEF Fields
  <2>2. CASE 1 \notin S /\ 2 \in S
    BY <2>2 DEF Fields
  <2>3. CASE 1 \notin S /\ 2 \notin S /\ 3 \in S
    BY <2>3 DEF Fields
  <2>4. CASE 1 \notin S /\ 2 \notin S /\ 3 \notin S /\ 4 \in S
    BY <2>4 DEF Fields
  <2>5. CASE 1 \notin S /\ 2 \notin S /\ 3 \notin S /\ 4 \notin S /\ 5 \in S
    BY <2>5 DEF Fields
  <2>6. CASE \A i \in S : i = 6
    BY <2>6
  <2>7. \A i \in S : i \in {1, 2, 3, 4, 5, 6}
    BY DEF Fields
  <2> QED BY <2>1, <2>2, <2>3, <2>4, <2>5, <2>6, <2>7
<1> QED BY <1>1 DEF Min

\* What a register may be read as.
LEMMA TimeRead ==
    ASSUME NEW t0, IsTime(t0), ChipInv(t0), NEW i \in Fields
    PROVE  /\ time[i] = Later(t0, passed)[i] \/ (passed > 0 /\ time[i] = Later(t0, passed - 1)[i])
           /\ time[i] \in 0 .. 99
<1>1. \/ time[i] = Later(t0, passed)[i]
      \/ passed > 0 /\ time[i] = Later(t0, passed - 1)[i]
  BY DEF ChipInv
<1>2. \A k \in Indices : Later(t0, k)[i] \in 0 .. 99
  BY LaterIsTime, FieldRanges DEF Fields
<1>3. passed \in Indices /\ (passed > 0 => passed - 1 \in Indices)
  BY DEF ChipInv, Indices
<1> QED BY <1>1, <1>2, <1>3

LEMMA ChipSecond ==
    ASSUME WithinAMinute, NEW t0, IsTime(t0), ChipInv(t0), Second
    PROVE  ChipInv(t0)'
<1>1. /\ passed \in Indices /\ passed + 1 \in Indices /\ passed' = passed + 1
      /\ passed < 59
  BY RealTimeClockAssumption DEF WithinAMinute, ChipInv, Second, Indices
<1>2. /\ time = target /\ target' = NextSecond(time) /\ UNCHANGED <<chip, time>>
      /\ target = Later(t0, passed)
  BY DEF Second, update_in_progress, ChipInv
<1>3. target' = Later(t0, passed')
  BY <1>1, <1>2, LaterNext
<1>4. time' = Later(t0, passed' - 1) /\ passed' > 0
  <2>1. passed' - 1 = passed
    BY <1>1 DEF Indices
  <2> QED BY <1>1, <1>2, <2>1 DEF Indices
<1> QED BY <1>1, <1>2, <1>3, <1>4 DEF ChipInv

LEMMA ChipCarry ==
    ASSUME NEW t0, IsTime(t0), ChipInv(t0), Carry
    PROVE  ChipInv(t0)' /\ UNCHANGED <<chip, target, passed>> /\ time # target /\ passed > 0
<1> DEFINE S == {j \in 1 .. 6 : time[j] # target[j]}
           before == Later(t0, passed - 1)
<1>1. /\ time # target /\ time' = [time EXCEPT ![Min(S)] = target[Min(S)]]
      /\ UNCHANGED <<chip, target, passed>>
  BY DEF Carry, update_in_progress
<1>2. passed \in Indices /\ passed > 0 /\ passed - 1 \in Indices /\ target = Later(t0, passed)
  BY <1>1 DEF ChipInv, Indices
<1>3. before \in [Fields -> Nat] /\ target \in [Fields -> Nat] /\ time \in [Fields -> Nat]
  <2>1. before \in [Fields -> Nat] /\ target \in [Fields -> Nat]
    BY <1>2, LaterIsTime, FieldRanges
  <2> QED BY <1>1, <2>1 DEF ChipInv
<1>4. \A i \in Fields : time[i] \in {before[i], target[i]}
  BY <1>1 DEF ChipInv
<1>5. time[1] = target[1] \/ (time = before /\ before[1] # target[1])
  <2>1. before[1] # target[1]
    <3>1. \A j, k \in Indices : Later(t0, j)[1] = Later(t0, k)[1] => j = k
      BY LaterFacts
    <3> QED BY <1>2, <3>1 DEF Indices
  <2> QED BY <1>1, <2>1 DEF ChipInv
<1> HIDE DEF before
<1>6. S \subseteq Fields /\ S # {}
  <2>1. \E i \in Fields : time[i] # target[i]
    BY <1>1, <1>3
  <2> QED BY <2>1 DEF Fields
<1>7. Min(S) \in S /\ \A j \in S : Min(S) <= j
  BY <1>6, LeastField
<1>8. time'[1] = target[1]
  <2>1. CASE time[1] = target[1]
    BY <1>1, <1>3, <1>7, <2>1 DEF Fields
  <2>2. CASE time[1] # target[1]
    <3>1. 1 \in S
      BY <2>2
    <3>2. Min(S) = 1
      BY <1>6, <1>7, <3>1 DEF Fields
    <3> QED BY <1>1, <1>3, <3>2 DEF Fields
  <2> QED BY <2>1, <2>2
<1>9. /\ time' \in [Fields -> Nat]
      /\ \A i \in Fields : time'[i] \in {before[i], target[i]}
  BY <1>1, <1>3, <1>4, <1>6, <1>7
<1> QED BY <1>1, <1>2, <1>8, <1>9 DEF ChipInv, before

LEMMA ChipFrame ==
    ASSUME NEW t0, ChipInv(t0), UNCHANGED registers
    PROVE  ChipInv(t0)'
  BY DEF ChipInv, registers

LEMMA EncodingFrame ==
    ASSUME UNCHANGED chip
    PROVE  Encoding' = Encoding
  BY DEF Encoding, Register, Hours, Digits

LEMMA PassGrows ==
    ASSUME NEW e, NEW t0, NEW raw, NEW a \in Nat, NEW b \in Nat, NEW c \in Nat, NEW d \in Nat,
           Pass(e, t0, raw, a, b), c <= a, b <= d
    PROVE  Pass(e, t0, raw, c, d)
<1>1. a .. b \subseteq c .. d
  OBVIOUS
<1> QED BY <1>1 DEF Pass

\* Two passes that agree read a time that was shown, when the later one began.
LEMMA AgreeingPasses ==
    ASSUME NEW t0, IsTime(t0), NEW raw, Len(raw) = 6,
           NEW a \in Indices, NEW b \in Indices, a <= b,
           Pass(Encoding, t0, raw, 0, a), Pass(Encoding, t0, raw, a, b)
    PROVE  \A i \in Fields : raw[i] = Encoding[i][Later(t0, a)[i]]
<1>0. \A k \in 0 .. b : k \in Indices
  BY DEF Indices
<1>1. ASSUME NEW i \in Fields
      PROVE  /\ \E j \in 0 .. a : raw[i] = Encoding[i][Later(t0, j)[i]]
             /\ \E k \in a .. b : raw[i] = Encoding[i][Later(t0, k)[i]]
  BY DEF Pass, Fields
<1>2. raw[1] = Encoding[1][Later(t0, a)[1]]
  <2>1. PICK j \in 0 .. a, k \in a .. b :
           raw[1] = Encoding[1][Later(t0, j)[1]] /\ raw[1] = Encoding[1][Later(t0, k)[1]]
    BY <1>1 DEF Fields
  <2>2. j \in Indices /\ k \in Indices
    BY <1>0, <2>1 DEF Indices
  <2>3. Later(t0, j)[1] \in 0 .. 59 /\ Later(t0, k)[1] \in 0 .. 59
    BY <2>2, LaterIsTime, FieldRanges
  <2>4. Later(t0, j)[1] = Later(t0, k)[1]
    <3>1. /\ raw[1] = Register(1, Later(t0, j)[1])
          /\ raw[1] = Register(1, Later(t0, k)[1])
      BY <2>1, <2>3 DEF Encoding, Fields
    <3> HIDE DEF Later
    <3> QED BY <2>3, <3>1, SecondsDiffer
  <2>5. j = k
    <3>1. \A m, n \in Indices : Later(t0, m)[1] = Later(t0, n)[1] => m = n
      BY LaterFacts
    <3> QED BY <2>2, <2>4, <3>1
  <2> QED BY <2>1, <2>5 DEF Indices
<1>3. ASSUME NEW i \in Fields, i # 1
      PROVE  raw[i] = Encoding[i][Later(t0, a)[i]]
  <2>1. PICK j \in 0 .. a, k \in a .. b :
           raw[i] = Encoding[i][Later(t0, j)[i]] /\ raw[i] = Encoding[i][Later(t0, k)[i]]
    BY <1>1
  <2>2. j \in Indices /\ k \in Indices /\ j <= a /\ a <= k
    BY <1>0, <2>1 DEF Indices
  <2>3. Later(t0, a)[i] = Later(t0, j)[i] \/ Later(t0, a)[i] = Later(t0, k)[i]
    <3>1. \A l, m, n \in Indices : l <= m /\ m <= n =>
              Later(t0, m)[i] = Later(t0, l)[i] \/ Later(t0, m)[i] = Later(t0, n)[i]
      BY <1>3, LaterFacts
    <3> QED BY <2>2, <3>1
  <2> QED BY <2>1, <2>3
<1> QED BY <1>2, <1>3

LEMMA ReadFrame ==
    ASSUME NEW t0, ReadInv(t0), UNCHANGED <<registers, handler, reading>>
    PROVE  ReadInv(t0)'
<1>1. Encoding' = Encoding
  BY EncodingFrame DEF registers
<1> QED BY <1>1 DEF ReadInv, registers, reading, Pass

\* The chip's steps leave what was read where it was.
LEMMA ReadChip ==
    ASSUME NEW t0, IsTime(t0), ChipInv(t0), ReadInv(t0), ChipInv(t0)',
           UNCHANGED <<chip, handler, new_datetime, old_datetime>>,
           \/ /\ time = target /\ passed' = passed + 1 /\ UNCHANGED shown
              /\ time' # target'
           \/ /\ time # target /\ passed > 0 /\ UNCHANGED <<passed, target>>
              /\ shown' = IF shown # {} /\ time' = target THEN shown \cup {target} ELSE shown
    PROVE  ReadInv(t0)'
<1>1. Encoding' = Encoding
  BY EncodingFrame
<1>2. passed \in Nat /\ passed' \in Nat /\ passed <= passed'
  BY DEF ChipInv, Indices
<1>3. /\ shown \subseteq shown' /\ (shown' = {} <=> shown = {})
      /\ shown' # {} /\ time' = target' => time' \in shown'
  OBVIOUS
<1>4. ASSUME handler \in {"read", "compare"}
      PROVE  \E a \in 0 .. passed' :
                /\ Later(t0, a) \in shown'
                /\ passed' = a => time' = target'
                /\ Pass(Encoding, t0, old_datetime, 0, a)
                /\ Pass(Encoding, t0, new_datetime, a, passed')
  <2>1. PICK a \in 0 .. passed :
                /\ Later(t0, a) \in shown
                /\ passed = a => time = target
                /\ Pass(Encoding, t0, old_datetime, 0, a)
                /\ Pass(Encoding, t0, new_datetime, a, passed)
    BY <1>4 DEF ReadInv
  <2>2. passed' # a
    BY <1>2, <2>1
  <2>3. Pass(Encoding, t0, new_datetime, a, passed')
    BY <1>2, <2>1, PassGrows
  <2> QED BY <1>2, <1>3, <2>1, <2>2, <2>3
<1>5. handler = "poll" => Pass(Encoding, t0, old_datetime, 0, passed')
  BY <1>2, PassGrows DEF ReadInv
<1>6. handler = "publish" =>
        \E a \in 0 .. passed' :
            /\ Later(t0, a) \in shown'
            /\ \A i \in Fields : new_datetime[i] = Encoding[i][Later(t0, a)[i]]
  BY <1>2, <1>3 DEF ReadInv
<1> HIDE DEF Pass
<1>7. Pass(Encoding, t0, old_datetime, 0, passed)' = Pass(Encoding, t0, old_datetime, 0, passed')
  BY <1>1 DEF Pass
<1> QED BY <1>1, <1>3, <1>4, <1>5, <1>6, <1>7 DEF ReadInv

LEMMA PublishFrame ==
    ASSUME PublishInv, UNCHANGED <<chip, g_datetime>>,
           handler' = "acknowledge" /\ shown' # {} =>
               handler = "acknowledge" /\ shown # {} /\ shown \subseteq shown'
    PROVE  PublishInv'
<1>1. \A t : Made(t)' = Made(t)
  BY DEF Made
<1> QED BY <1>1 DEF PublishInv

\* The handler's steps; registers is what it leaves to the chip.
LEMMA ReadEnter ==
    ASSUME NEW t0, IsTime(t0), ChipInv(t0), ReadInv(t0), PublishInv, EnterRTC
    PROVE  PublishInv' /\ \E t1 : IsTime(t1) /\ ChipInv(t1)' /\ ReadInv(t1)'
<1>1. /\ handler = "none" /\ shown = {} /\ new_datetime = <<>> /\ old_datetime = <<>>
      /\ UNCHANGED <<chip, time, target, new_datetime, old_datetime, g_datetime>>
      /\ passed' = IF time # target THEN 1 ELSE 0
  BY DEF EnterRTC, ReadInv, update_in_progress
<1>2. \/ handler' = "poll" /\ shown' = IF time # target THEN {target} ELSE {time}
      \/ handler' = "acknowledge" /\ shown' = {}
  BY DEF EnterRTC, update_in_progress
<1>3. PublishInv'
  BY <1>1, <1>2, PublishFrame
<1>4. ASSUME NEW t1
      PROVE  ReadInv(t1)'
  <2>1. Pass(Encoding, t1, old_datetime, 0, passed)'
    BY <1>1 DEF Pass
  <2> HIDE DEF Pass
  <2> QED BY <1>1, <1>2, <2>1 DEF ReadInv, HandlerPlaces
<1>5. passed \in Indices /\ target = Later(t0, passed)
  BY DEF ChipInv
<1>6. CASE time = target
  <2>1. IsTime(target)
    BY <1>5, LaterIsTime
  <2>2. Later(target, 0) = target
    BY <2>1, LaterFacts
  <2>3. ChipInv(target)'
    BY <1>1, <1>6, <2>2 DEF ChipInv, Indices
  <2> QED BY <1>1, <1>3, <1>4, <2>1, <2>3
<1>7. CASE time # target
  <2>0. PICK before : before = Later(t0, passed - 1)
    OBVIOUS
  <2>1. passed > 0 /\ passed - 1 \in Indices
    BY <1>5, <1>7 DEF ChipInv, Indices
  <2>2. IsTime(before) /\ NextSecond(before) = target
    <3>1. (passed - 1) + 1 = passed
      BY <1>5 DEF Indices
    <3> HIDE DEF Later
    <3> QED BY <1>5, <2>0, <2>1, <3>1, LaterIsTime, LaterNext
  <2>3. \/ time = before
        \/ /\ time \in [Fields -> Nat] /\ time[1] = target[1]
           /\ \A i \in Fields : time[i] \in {before[i], target[i]}
    BY <1>7, <2>0 DEF ChipInv
  <2>4. Later(before, 0) = before /\ Later(before, 1) = target
    <3>1. Later(before, 0) = before
      BY <2>2, LaterFacts
    <3>2. 0 \in Indices /\ 0 + 1 \in Indices /\ 0 + 1 = 1
      BY DEF Indices
    <3>3. NextSecond(Later(before, 0)) = Later(before, 0 + 1)
      BY <2>2, <3>2, LaterNext
    <3> QED BY <2>2, <3>1, <3>2, <3>3
  <2>5. /\ passed' = 1 /\ 1 \in Indices /\ 1 - 1 = 0
        /\ UNCHANGED <<chip, time, target>>
    BY <1>1, <1>7 DEF Indices
  <2>6. ChipInv(before)'
    <3>1. chip.binary \in BOOLEAN /\ chip.h24 \in BOOLEAN
      BY DEF ChipInv
    <3>2. /\ target' = Later(before, passed')
          /\ \/ time' = before
             \/ /\ time' \in [Fields -> Nat] /\ time'[1] = target'[1]
                /\ \A i \in Fields : time'[i] \in {before[i], target'[i]}
          /\ passed' > 0 /\ passed' \in Indices /\ Later(before, passed' - 1) = before
      BY <2>3, <2>4, <2>5
    <3> QED BY <2>5, <3>1, <3>2 DEF ChipInv
  <2> QED BY <1>3, <1>4, <2>2, <2>6
<1> QED BY <1>6, <1>7

LEMMA ReadPoll ==
    ASSUME NEW t0, ChipInv(t0), ReadInv(t0), PublishInv, Poll
    PROVE  ReadInv(t0)' /\ PublishInv'
<1>1. /\ handler = "poll" /\ handler' = "read" /\ time = target
      /\ UNCHANGED <<registers, reading, g_datetime>>
  BY DEF Poll, cmos, update_in_progress
<1>2. PublishInv'
  BY <1>1, PublishFrame DEF registers
<1>3. Encoding' = Encoding
  BY <1>1, EncodingFrame DEF registers
<1>4. /\ shown # {} /\ time \in shown /\ new_datetime = <<>> /\ target = Later(t0, passed)
      /\ Pass(Encoding, t0, old_datetime, 0, passed) /\ passed \in 0 .. passed
  BY <1>1 DEF ReadInv, ChipInv, Indices
<1>5. Pass(Encoding, t0, new_datetime, passed, passed)
  BY <1>4 DEF Pass
<1>6. /\ Pass(Encoding, t0, old_datetime, 0, passed)'
      /\ Pass(Encoding, t0, new_datetime, passed, passed)'
  BY <1>1, <1>3, <1>4, <1>5 DEF Pass, reading, registers
<1>7. \E a \in 0 .. passed' :
        /\ Later(t0, a) \in shown'
        /\ passed' = a => time' = target'
        /\ Pass(Encoding, t0, old_datetime, 0, a)'
        /\ Pass(Encoding, t0, new_datetime, a, passed)'
  BY <1>1, <1>4, <1>6 DEF reading, registers
<1> HIDE DEF Pass
<1> QED BY <1>1, <1>2, <1>4, <1>7 DEF ReadInv, HandlerPlaces, registers, reading

LEMMA ReadRegister ==
    ASSUME NEW t0, IsTime(t0), ChipInv(t0), ReadInv(t0), PublishInv, ReadField
    PROVE  ReadInv(t0)' /\ PublishInv'
<1> DEFINE f == Len(new_datetime) + 1
           v == get_RTC_register(f)
<1>1. /\ handler = "read" /\ new_datetime' = Append(new_datetime, v)
      /\ handler' = IF Len(new_datetime') = 6 THEN "compare" ELSE "read"
      /\ UNCHANGED <<registers, old_datetime, shown, g_datetime>>
  BY DEF ReadField, cmos
<1>2. PublishInv'
  BY <1>1, PublishFrame DEF registers
<1>3. Encoding' = Encoding
  BY <1>1, EncodingFrame DEF registers
<1>4. new_datetime \in Seq(Nat) /\ f \in Fields /\ Len(new_datetime) \in Nat
  <2>1. new_datetime \in Seq(Nat) /\ Len(new_datetime) < 6
    BY <1>1 DEF ReadInv
  <2>2. Len(new_datetime) \in Nat
    BY <2>1
  <2> QED BY <2>1, <2>2 DEF Fields
<1>5. time[f] \in 0 .. 99 /\ v = Encoding[f][time[f]] /\ v \in Nat
  <2>1. time[f] \in 0 .. 99
    BY <1>4, TimeRead
  <2>2. v = Register(f, time[f])
    BY DEF get_RTC_register, Register
  <2> QED BY <1>4, <2>1, <2>2, RegisterTypes DEF Encoding
<1>6. /\ new_datetime' \in Seq(Nat) /\ Len(new_datetime') = f /\ new_datetime'[f] = v
      /\ \A i \in 1 .. Len(new_datetime) : new_datetime'[i] = new_datetime[i]
  BY <1>1, <1>4, <1>5
<1>7. PICK a \in 0 .. passed :
          /\ Later(t0, a) \in shown
          /\ passed = a => time = target
          /\ Pass(Encoding, t0, old_datetime, 0, a)
          /\ Pass(Encoding, t0, new_datetime, a, passed)
  BY <1>1 DEF ReadInv
<1>8. \E k \in a .. passed : v = Encoding[f][Later(t0, k)[f]]
  <2>0. passed \in Nat /\ target = Later(t0, passed)
    BY DEF ChipInv, Indices
  <2>1. \/ time[f] = Later(t0, passed)[f]
        \/ passed # a /\ passed > 0 /\ time[f] = Later(t0, passed - 1)[f]
    BY <1>4, <1>7, <2>0, TimeRead
  <2>2. passed \in a .. passed /\ (passed # a => passed - 1 \in a .. passed)
    BY <1>7, <2>0
  <2> QED BY <1>5, <2>1, <2>2
<1> HIDE DEF v
<1>9. Pass(Encoding, t0, new_datetime', a, passed)
  BY <1>4, <1>6, <1>7, <1>8 DEF Pass
<1>10. \E b \in 0 .. passed' :
        /\ Later(t0, b) \in shown'
        /\ passed' = b => time' = target'
        /\ Pass(Encoding', t0, old_datetime', 0, b)
        /\ Pass(Encoding', t0, new_datetime', b, passed')
  BY <1>1, <1>3, <1>7, <1>9 DEF registers
<1>11. \A b : /\ Pass(Encoding, t0, old_datetime, 0, b)' = Pass(Encoding', t0, old_datetime', 0, b)
              /\ Pass(Encoding, t0, new_datetime, b, passed)' = Pass(Encoding', t0, new_datetime', b, passed')
  BY DEF Pass
<1> HIDE DEF Pass
<1>12. handler' = IF f = 6 THEN "compare" ELSE "read"
  BY <1>1, <1>6
<1> QED BY <1>1, <1>2, <1>4, <1>6, <1>10, <1>11, <1>12 DEF ReadInv, HandlerPlaces, registers, Fields

LEMMA ReadCompare ==
    ASSUME NEW t0, IsTime(t0), ChipInv(t0), ReadInv(t0), PublishInv, Compare
    PROVE  ReadInv(t0)' /\ PublishInv'
<1>1. /\ handler = "compare" /\ UNCHANGED <<registers, shown, g_datetime>>
      /\ handler' \in {"publish", "poll"}
  BY DEF Compare, cmos
<1>2. PublishInv'
  BY <1>1, PublishFrame DEF registers
<1>3. Encoding' = Encoding
  BY <1>1, EncodingFrame DEF registers
<1>4. PICK a \in 0 .. passed :
          /\ Later(t0, a) \in shown
          /\ Pass(Encoding, t0, old_datetime, 0, a)
          /\ Pass(Encoding, t0, new_datetime, a, passed)
  BY <1>1 DEF ReadInv
<1>5. new_datetime \in Seq(Nat) /\ Len(new_datetime) = 6 /\ passed \in Indices
  BY <1>1 DEF ReadInv, ChipInv
<1>6. CASE old_datetime = new_datetime
  <2>1. handler' = "publish" /\ UNCHANGED <<old_datetime, new_datetime>>
    BY <1>6 DEF Compare, Agree
  <2>2. \A i \in Fields : new_datetime[i] = Encoding[i][Later(t0, a)[i]]
    <3>1. a \in Indices /\ a <= passed
      BY <1>4, <1>5 DEF Indices
    <3>2. Pass(Encoding, t0, new_datetime, 0, a)
      BY <1>4, <1>6
    <3> HIDE DEF Pass
    <3> QED BY <1>4, <1>5, <3>1, <3>2, AgreeingPasses
  <2>3. \E b \in 0 .. passed' :
            /\ Later(t0, b) \in shown'
            /\ \A i \in Fields : new_datetime'[i] = Encoding'[i][Later(t0, b)[i]]
    BY <1>1, <1>3, <1>4, <2>1, <2>2 DEF registers
  <2> QED BY <1>1, <1>2, <2>1, <2>3 DEF ReadInv, HandlerPlaces, registers
<1>7. CASE old_datetime # new_datetime
  <2>1. handler' = "poll" /\ old_datetime' = new_datetime /\ new_datetime' = <<>>
    BY <1>7 DEF Compare, Agree
  <2>2. Pass(Encoding, t0, new_datetime, 0, passed)
    BY <1>4, <1>5, PassGrows DEF Indices
  <2>3. Pass(Encoding, t0, old_datetime, 0, passed)'
    BY <1>1, <1>3, <2>1, <2>2 DEF Pass, registers
  <2> HIDE DEF Pass
  <2> QED BY <1>1, <1>2, <1>5, <2>1, <2>3 DEF ReadInv, HandlerPlaces, registers
<1> QED BY <1>6, <1>7

LEMMA ReadPublish ==
    ASSUME NEW t0, IsTime(t0), ChipInv(t0), ReadInv(t0), PublishInv, Publish
    PROVE  ReadInv(t0)' /\ PublishInv'
<1>1. /\ handler = "publish" /\ handler' = "acknowledge" /\ UNCHANGED <<registers, shown>>
      /\ g_datetime' = Converted(new_datetime) /\ new_datetime' = <<>> /\ old_datetime' = <<>>
  BY DEF Publish, cmos
<1>2. PICK a \in 0 .. passed :
          /\ Later(t0, a) \in shown
          /\ \A i \in Fields : new_datetime[i] = Encoding[i][Later(t0, a)[i]]
  BY <1>1 DEF ReadInv
<1> DEFINE t == Later(t0, a)
<1>3. a \in Indices
  BY DEF ChipInv, Indices
<1>4. IsTime(t)
  BY <1>3, LaterIsTime
<1>5. \A i \in Fields : new_datetime[i] = Register(i, t[i])
  <2>1. \A i \in Fields : t[i] \in 0 .. 99
    BY <1>4, FieldRanges DEF Fields
  <2> QED BY <1>2, <2>1 DEF Encoding
<1> HIDE DEF t
<1>6. g_datetime' = Made(t)
  BY <1>1, <1>4, <1>5, ConversionIsRight
<1>7. \A s : Made(s)' = Made(s)
  BY <1>1 DEF Made, registers
<1>8. PublishInv'
  <2>1. t \in shown'
    BY <1>1, <1>2 DEF t
  <2> QED BY <1>4, <1>6, <1>7, <2>1 DEF PublishInv
<1> QED BY <1>1, <1>8 DEF ReadInv, HandlerPlaces, registers

LEMMA ReadEnd ==
    ASSUME NEW t0, ReadInv(t0), PublishInv, ReadC \/ Return
    PROVE  ReadInv(t0)' /\ PublishInv'
<1>1. /\ handler' \in {"return", "none"} /\ shown' = {} /\ handler \in {"acknowledge", "return"}
      /\ UNCHANGED <<registers, new_datetime, old_datetime, g_datetime>>
  BY DEF ReadC, Return, cmos, reading, ReadInv
<1>2. PublishInv'
  BY <1>1, PublishFrame DEF registers
<1> QED BY <1>1, <1>2 DEF ReadInv, HandlerPlaces

LEMMA TimeInit == Init => \E t0 : TimeInv(t0)
<1> SUFFICES ASSUME Init PROVE \E t0 : TimeInv(t0)
  OBVIOUS
<1>1. PICK c \in Chips :
        /\ chip = [binary |-> c.binary, h24 |-> c.h24]
        /\ time = c.start /\ target = c.start
  BY DEF Init, ClockInit
<1>2. c.binary \in BOOLEAN /\ c.h24 \in BOOLEAN /\ IsTime(c.start)
  BY ChipsAssumption
<1>3. Later(c.start, 0) = c.start
  BY <1>2, LaterFacts
<1>4. ChipInv(c.start)
  BY <1>1, <1>2, <1>3 DEF Init, ClockInit, ChipInv, Indices
<1>5. ReadInv(c.start)
  BY DEF Init, ClockInit, ReadInv, HandlerPlaces
<1>6. PublishInv
  BY DEF Init, ClockInit, PublishInv
<1> QED BY <1>2, <1>4, <1>5, <1>6 DEF TimeInv

LEMMA TimeNext ==
    ASSUME WithinAMinute, NEW t0, TimeInv(t0), [Next]_vars
    PROVE  \E t1 : TimeInv(t1)'
<1> USE DEF TimeInv
<1>1. ASSUME UNCHANGED <<registers, rtc>>
      PROVE  TimeInv(t0)'
  <2>1. ChipInv(t0)' /\ ReadInv(t0)'
    BY <1>1, ChipFrame, ReadFrame DEF rtc
  <2>2. PublishInv'
    BY <1>1, PublishFrame DEF registers, rtc, reading
  <2> QED BY <2>1, <2>2
<1>2. CASE Boot
  <2>1. UNCHANGED <<registers, rtc>>
    BY <1>2 DEF Boot, Dispatching, PitChannel, EnableClock, SelectDrivers, Hello, Select, ReadB,
                WriteB, ReadPending, cmos
  <2> QED BY <1>1, <2>1
<1>3. CASE Shell
  <2>1. UNCHANGED <<registers, rtc>>
    BY <1>3 DEF Shell, play_note, speaker_enable, NoteFrequency, sleep, Check, Halt,
                speaker_disable, cmos
  <2> QED BY <1>1, <2>1
<1>4. CASE TakeShort
  BY <1>1, <1>4 DEF TakeShort, cmos
<1>5. CASE TakeRTC
  <2>1. EnterRTC
    BY <1>5 DEF TakeRTC
  <2>2. PublishInv' /\ \E t1 : IsTime(t1) /\ ChipInv(t1)' /\ ReadInv(t1)'
    BY <2>1, ReadEnter
  <2> QED BY <2>2
<1>6. CASE RTC_Handler
  <2>1. UNCHANGED registers
    BY <1>6 DEF RTC_Handler, Poll, ReadField, Compare, Publish, Return, ReadC, cmos
  <2>2. ReadInv(t0)' /\ PublishInv'
    BY <1>6, ReadPoll, ReadRegister, ReadCompare, ReadPublish, ReadEnd DEF RTC_Handler
  <2> QED BY <2>1, <2>2, ChipFrame
<1>7. CASE Hardware
  <2>1. CASE PitPulse \/ KeyStruck \/ RtcPulse
    BY <1>1, <2>1 DEF PitPulse, KeyStruck, RtcPulse, cmos
  <2>2. CASE Second
    <3>1. ChipInv(t0)'
      BY <2>2, ChipSecond
    <3>2. /\ UNCHANGED <<chip, handler, new_datetime, old_datetime, shown, g_datetime>>
          /\ time = target /\ passed' = passed + 1 /\ UNCHANGED time
          /\ passed \in Indices /\ passed' \in Indices
          /\ target = Later(t0, passed) /\ target' = Later(t0, passed')
      BY <2>2, <3>1 DEF Second, rtc, reading, update_in_progress, ChipInv
    <3>3. time' # target'
      <4>1. \A j, k \in Indices : Later(t0, j)[1] = Later(t0, k)[1] => j = k
        BY LaterFacts
      <4> QED BY <3>2, <4>1 DEF Indices
    <3>4. ReadInv(t0)'
      BY <3>1, <3>2, <3>3, ReadChip
    <3>5. PublishInv'
      BY <3>2, PublishFrame
    <3> QED BY <3>1, <3>4, <3>5
  <2>3. CASE Carry
    <3>1. ChipInv(t0)' /\ UNCHANGED <<chip, target, passed>> /\ time # target /\ passed > 0
      BY <2>3, ChipCarry
    <3>2. /\ UNCHANGED <<handler, new_datetime, old_datetime, g_datetime>>
          /\ shown' = IF shown # {} /\ time' = target THEN shown \cup {target} ELSE shown
      BY <2>3 DEF Carry
    <3>3. ReadInv(t0)'
      BY <3>1, <3>2, ReadChip
    <3>4. PublishInv'
      BY <3>1, <3>2, PublishFrame
    <3> QED BY <3>1, <3>3, <3>4
  <2> QED BY <1>7, <2>1, <2>2, <2>3 DEF Hardware, ChipClock
<1>8. CASE UNCHANGED vars
  BY <1>1, <1>8 DEF vars, cmos
<1> QED BY <1>2, <1>3, <1>4, <1>5, <1>6, <1>7, <1>8 DEF Next

LEMMA TimeAlways == WithinAMinute => (Spec => [](\E t0 : TimeInv(t0)))
<1> SUFFICES ASSUME WithinAMinute PROVE Spec => [](\E t0 : TimeInv(t0))
  OBVIOUS
<1> DEFINE Inv == \E t0 : TimeInv(t0)
<1>1. Inv /\ [Next]_vars => Inv'
  BY TimeNext
<1>2. Init => Inv
  BY TimeInit
<1> HIDE DEF Inv
<1>3. Spec => []Inv
  BY <1>1, <1>2, PTL DEF Spec
<1> QED BY <1>3 DEF Inv

\* However the chip moves on between two reads, each field that is published is that of
\* one time, which it showed after the handler began to read, on a chip of any format
\* and at any second of any year; but for the hour at twelve of a chip with two halves
\* of the day (rtc.c:27, rtc.c:46).
THEOREM PublishedTimeWasShown == WithinAMinute => (Spec => []PublishedWasShown)
<1> SUFFICES ASSUME WithinAMinute PROVE Spec => []PublishedWasShown
  OBVIOUS
<1>1. ASSUME NEW t, IsTime(t)
      PROVE  \A i \in 1 .. 6 : Made(t)[i] = Expected(t)[i] \/ (i = 3 /\ AtTwelve(t))
  <2>1. t \in [Fields -> Nat]
    BY <1>1, FieldRanges
  <2>2. \A i \in Fields : Expected(t)[i] = IF i = 6 THEN t[6] + 2000 ELSE t[i]
    BY <2>1 DEF Expected, Fields
  <2> QED BY <2>2 DEF Made, AtTwelve, Fields
<1>2. (\E t0 : TimeInv(t0)) => PublishedWasShown
  <2> SUFFICES ASSUME \E t0 : TimeInv(t0), handler = "acknowledge", shown # {}
               PROVE  \E t \in shown : \A i \in 1 .. 6 :
                          g_datetime[i] = Expected(t)[i] \/ (i = 3 /\ AtTwelve(t))
    BY DEF PublishedWasShown
  <2>1. PICK t \in shown : IsTime(t) /\ g_datetime = Made(t)
    BY DEF TimeInv, PublishInv
  <2> QED BY <1>1, <2>1
<1> QED BY <1>2, TimeAlways, PTL

-----------------------------------------------------------------------------
(* Types                                                                   *)

TypesInv ==
    /\ interrupts \in BOOLEAN /\ idtr \in BOOLEAN /\ periodic \in BOOLEAN
    /\ irqf \in BOOLEAN /\ spurious \in BOOLEAN /\ speaker \in BOOLEAN
    /\ irr \subseteq IRQs /\ imr \subseteq IRQs /\ g_PICMask \subseteq IRQs
    /\ present \subseteq Gates
    /\ wait_ticks \in 0 .. UINT - 1

LEMMA TypesInit == Init => TypesInv
<1> SUFFICES ASSUME Init PROVE TypesInv
  OBVIOUS
<1>1. /\ interrupts \in BOOLEAN /\ idtr \in BOOLEAN /\ periodic \in BOOLEAN
      /\ irqf \in BOOLEAN /\ spurious \in BOOLEAN /\ speaker \in BOOLEAN
  BY DEF Init, InterruptsInit, ClockInit
<1>2. /\ irr \subseteq IRQs /\ imr \subseteq IRQs /\ g_PICMask \subseteq IRQs
      /\ present \subseteq Gates
  BY LineNumbers DEF Init, InterruptsInit
<1>3. wait_ticks \in 0 .. UINT - 1
  BY ClockTypes DEF Init
<1> QED BY <1>1, <1>2, <1>3 DEF TypesInv

LEMMA TypesBoot == TypesInv /\ Boot => TypesInv'
<1> SUFFICES ASSUME TypesInv, Boot PROVE TypesInv'
  OBVIOUS
<1> USE LineNumbers DEF TypesInv, tables, controller, cmos, registers, rtc, sound, timing
<1>1. CASE Dispatching
  <2>0. UNCHANGED <<cmos, sound>>
    BY <1>1 DEF Dispatching
  <2>1. ASSUME NEW vectors, vectors \subseteq Gates, NEW h, RegisterHandlers(vectors, h)
        PROVE  TypesInv'
    BY <2>0, <2>1 DEF RegisterHandlers
  <2>2. CASE Does("page_fault") /\ RegisterHandlers({PAGE_FAULT}, "PFHandler")
    BY <2>1, <2>2, VectorTypes
  <2>3. CASE /\ Does("irqs")
             /\ RegisterHandlers({PIC_REMAP_OFFSET + irq : irq \in IRQs}, "i686_IRQ_Handler")
    <3>1. {PIC_REMAP_OFFSET + irq : irq \in IRQs} \subseteq Gates
      BY VectorTypes
    <3> QED BY <2>1, <2>3, <3>1
  <2>4. CASE i686_IDT_Load \/ i686_ISR_InitializeGates \/ EnableGates \/ i686_EnableInts
    BY <2>0, <2>4 DEF i686_IDT_Load, i686_ISR_InitializeGates, EnableGates, i686_EnableInts
  <2>5. CASE i8259_Probe \/ i8259_Config
    <3>1. MAGIC \subseteq IRQs
      BY DEF MAGIC
    <3> QED BY <2>0, <2>5, <3>1 DEF i8259_Probe, i8259_Config
  <2>6. CASE UnmaskLow(Operand) \/ UnmaskHigh
    BY <2>0, <2>6 DEF UnmaskLow, UnmaskHigh, SetMaskLow, SetMaskHigh, Unmasked
  <2>7. CASE \E driver : i686_IRQ_RegisterHandler(Operand, driver)
    BY <2>0, <2>7 DEF i686_IRQ_RegisterHandler
  <2> QED BY <1>1, <2>2, <2>3, <2>4, <2>5, <2>6, <2>7 DEF Dispatching
<1>2. CASE PitChannel
  BY <1>2 DEF PitChannel, set_PIT_channel_mode_frequency, i686_EnableInts
<1>3. CASE EnableClock
  <2>1. UNCHANGED <<interrupts, tables, g_PICMask, imr, sound>>
    BY <1>3 DEF EnableClock
  <2>2. periodic' \in BOOLEAN /\ irqf' \in BOOLEAN
    BY <1>3 DEF EnableClock, Select, ReadB, WriteB, ReadPending
  <2>3. irr' \subseteq irr /\ spurious' \in BOOLEAN
    BY <1>3 DEF EnableClock
  <2> QED BY <2>1, <2>2, <2>3
<1>4. CASE SelectDrivers \/ Hello
  BY <1>4 DEF SelectDrivers, Hello
<1> QED BY <1>1, <1>2, <1>3, <1>4 DEF Boot

LEMMA TypesNext == SleepInv /\ TypesInv /\ [Next]_vars => TypesInv'
<1> SUFFICES ASSUME SleepInv, TypesInv, [Next]_vars PROVE TypesInv'
  OBVIOUS
<1> USE LineNumbers DEF TypesInv, tables, controller, cmos, registers, rtc, sound, timing
<1>1. CASE Boot
  BY <1>1, TypesBoot
<1>2. CASE Shell
  <2>1. wait_ticks' \in 0 .. UINT - 1
    <3>1. CASE sleep
      <4>1. asked \in Nat
        BY ClockTypes DEF SleepInv
      <4>2. (asked * FREQUENCY) % UINT \in 0 .. UINT - 1
        BY <4>1, ClockTypes
      <4>3. \A n \in 0 .. UINT - 1 : n \div SECOND \in 0 .. UINT - 1
        <5> SUFFICES ASSUME NEW n \in Nat PROVE n \div SECOND \in 0 .. n
          BY ClockTypes
        <5> QED BY ClockTypes
      <4>4. Ticks(asked) \in 0 .. UINT - 1
        BY <4>2, <4>3 DEF Ticks
      <4> QED BY <3>1, <4>4, ClockTypes DEF sleep
    <3>2. CASE speaker_disable
      BY <3>2, ClockTypes DEF speaker_disable
    <3>3. CASE play_note \/ speaker_enable \/ NoteFrequency \/ Check \/ Halt
      BY <3>3 DEF play_note, speaker_enable, NoteFrequency, Check, Halt
    <3> QED BY <1>2, <3>1, <3>2, <3>3 DEF Shell
  <2>2. /\ UNCHANGED <<tables, controller, cmos>>
        /\ interrupts' \in {interrupts, TRUE} /\ speaker' \in {speaker, TRUE, FALSE}
    BY <1>2 DEF Shell, play_note, speaker_enable, NoteFrequency, sleep, Check, Halt,
                speaker_disable, set_PIT_channel_mode_frequency, i686_EnableInts
  <2> QED BY <2>1, <2>2
<1>3. ASSUME NEW irq \in IRQs, Acknowledge(irq)
      PROVE  /\ UNCHANGED <<tables, g_PICMask, imr>> /\ irr' \subseteq irr
             /\ spurious' \in BOOLEAN
  BY <1>3 DEF Acknowledge
<1>4. CASE TakeShort
  <2>1. UNCHANGED <<interrupts, cmos, speaker, timing>> /\ \E irq \in IRQs : Acknowledge(irq)
    BY <1>4 DEF TakeShort
  <2> QED BY <1>3, <2>1
<1>5. CASE TakeRTC
  <2>1. /\ ~ interrupts' /\ interrupts' \in BOOLEAN
        /\ UNCHANGED <<periodic, irqf, speaker, timing>> /\ \E irq \in IRQs : Acknowledge(irq)
    BY <1>5 DEF TakeRTC, EnterRTC
  <2> QED BY <1>3, <2>1
<1>6. CASE RTC_Handler
  <2>1. UNCHANGED <<tables, controller, sound, periodic>>
    BY <1>6 DEF RTC_Handler, Poll, ReadField, Compare, Publish, Return, ReadC
  <2>2. interrupts' \in BOOLEAN
    BY <1>6 DEF RTC_Handler
  <2>3. irqf' \in BOOLEAN
    BY <1>6 DEF RTC_Handler, Poll, ReadField, Compare, Publish, Return, ReadC
  <2> QED BY <2>1, <2>2, <2>3
<1>7. CASE Hardware
  <2>1. /\ UNCHANGED <<interrupts, tables, g_PICMask, imr, spurious, periodic, sound>>
        /\ irr' \in {irr, irr \cup {PIT}, irr \cup {KEYBOARD}, irr \cup {RTC}}
    BY <1>7 DEF Hardware, PitPulse, KeyStruck, RtcPulse, ChipClock, Second, Carry
  <2>2. irqf' \in BOOLEAN
    BY <1>7 DEF Hardware, PitPulse, KeyStruck, RtcPulse, ChipClock, Second, Carry
  <2> QED BY <2>1, <2>2
<1>8. CASE UNCHANGED vars
  BY <1>8 DEF vars
<1> QED BY <1>1, <1>2, <1>4, <1>5, <1>6, <1>7, <1>8 DEF Next

\* What is published is a date and a time of day, and ticks and all that is worked out
\* from it keep to 32 bits.
THEOREM HalTypes == WithinAMinute => (Spec => []HalTypeOK)
<1> SUFFICES ASSUME WithinAMinute PROVE Spec => []HalTypeOK
  OBVIOUS
<1>1. ASSUME NEW t, IsTime(t), g_datetime = Made(t)
      PROVE  /\ \A i \in 1 .. 5 : g_datetime[i] \in FirstOf[i] .. LastOf(g_datetime)[i]
             /\ g_datetime[6] \in 2000 .. 2099
  <2>1. /\ g_datetime[1] = t[1] /\ g_datetime[2] = t[2] /\ g_datetime[4] = t[4]
        /\ g_datetime[5] = t[5] /\ g_datetime[6] = t[6] + 2000
        /\ g_datetime[3] = t[3] \/ (t[3] % 12 = 0 /\ g_datetime[3] = 12 - t[3])
    BY <1>1 DEF Made, Fields
  <2>2. /\ t[1] \in 0 .. 59 /\ t[2] \in 0 .. 59 /\ t[3] \in 0 .. 23
        /\ t[4] \in 1 .. Days(t[5]) /\ t[5] \in 1 .. 12 /\ t[6] \in 0 .. 99
        /\ Days(t[5]) \in {28, 30, 31}
    BY <1>1, FieldRanges
  <2>3. g_datetime[3] \in 0 .. 23
    BY <2>1, <2>2
  <2> QED BY <2>1, <2>2, <2>3 DEF FirstOf, LastOf
<1>2. DispatchInv /\ SleepInv /\ TypesInv /\ (\E t0 : TimeInv(t0)) => HalTypeOK
  <2> SUFFICES ASSUME DispatchInv, SleepInv, TypesInv, \E t0 : TimeInv(t0) PROVE HalTypeOK
    OBVIOUS
  <2>1. {interrupts, idtr, periodic, irqf, spurious, speaker} \subseteq BOOLEAN
    BY Zenon DEF TypesInv
  <2>2. /\ irr \subseteq IRQs /\ imr \subseteq IRQs /\ present \subseteq Gates
        /\ booted \in 0 .. Len(HAL_Init)
    BY Program DEF TypesInv, DispatchInv
  <2>3. g_datetime = <<>> \/ \E t : IsTime(t) /\ g_datetime = Made(t)
    BY DEF TimeInv, PublishInv
  <2>4. {ticks, start, wait_ticks, elapsed} \subseteq 0 .. UINT - 1
    BY DEF SleepInv, TypesInv
  <2> QED BY <1>1, <2>1, <2>2, <2>3, <2>4 DEF HalTypeOK
<1>3. SleepInv /\ TypesInv /\ [Next]_vars => TypesInv'
  BY TypesNext
<1>4. Spec => []TypesInv
  BY <1>3, TypesInit, SleepAlways, PTL DEF Spec
<1> QED BY <1>2, <1>4, DispatchAlways, SleepAlways, TimeAlways, PTL
=============================================================================
