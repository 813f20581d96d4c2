----------------------------- MODULE Interrupts -----------------------------
(***************************************************************************)
(* How an interrupt finds its handler: the descriptor table (idt.c, and    *)
(* the gates of isrs_gen.c), the two tables of handlers (isr.c, irq.c) and *)
(* the 8259 interrupt controller (i8259.c).  A set stands for a mask: the  *)
(* lines in it are the bits that are set.                                  *)
(*                                                                         *)
(* The operators are the calls; the module that runs them says when.       *)
(*                                                                         *)
(* A definition with a suffix like _Late is the one without it with a slip *)
(* the code could have; no action uses it.                                 *)
(***************************************************************************)
EXTENDS Integers, Sequences, FiniteSets, FiniteSetsExt

CONSTANTS
    VECTORS,             \* how many gates the table has
    PIC_REMAP_OFFSET,    \* the vector of line 0, above the exceptions
    PAGE_FAULT           \* the vector of that exception

Gates == 0 .. VECTORS - 1
IRQs == 0 .. 15
PIT == 0
KEYBOARD == 1
CASCADE == 2
RTC == 8
MOUSE == 12
SPURIOUS == 15

ASSUME VectorsAssumption ==
    /\ VECTORS \in Nat /\ PIC_REMAP_OFFSET \in Nat /\ PAGE_FAULT \in Nat
    /\ PAGE_FAULT < PIC_REMAP_OFFSET /\ PIC_REMAP_OFFSET + 16 <= VECTORS

VARIABLES
    interrupts,       \* the processor's interrupt flag
    idtr,             \* the table has been loaded
    filled,           \* the gates with an entry point
    present,          \* the gates with the flag that enables them
    g_ISRHandlers, g_IRQHandlers,
    g_PICMask,        \* what the driver believes to be masked
    imr,              \* what is masked
    irr,              \* the lines whose edge waits to be served
    base,             \* the vector the controller gives line 0
    spurious          \* a line dropped before it was served

tables == <<idtr, filled, present, g_ISRHandlers, g_IRQHandlers>>
controller == <<g_PICMask, imr, irr, base, spurious>>

\* The controller is as the firmware leaves it, keys may have been struck, and
\* the boot loader has turned interrupts off.
InterruptsInit ==
    /\ interrupts = FALSE
    /\ idtr = FALSE /\ filled = {} /\ present = {}
    /\ g_ISRHandlers = [vector \in Gates |-> "NULL"]
    /\ g_IRQHandlers = [irq \in IRQs |-> "NULL"]
    /\ g_PICMask = IRQs /\ imr = {} /\ base = 0 /\ spurious = FALSE
    /\ irr \in SUBSET {PIT, KEYBOARD}

-----------------------------------------------------------------------------
(* The descriptor table and the handlers *)

i686_IDT_Load ==
    /\ idtr' = TRUE
    /\ UNCHANGED <<filled, present, g_ISRHandlers, g_IRQHandlers, controller, interrupts>>

\* SetGate writes the flags whole, without the one that enables the gate.
i686_ISR_InitializeGates ==
    /\ filled' = Gates /\ present' = {}
    /\ UNCHANGED <<idtr, g_ISRHandlers, g_IRQHandlers, controller, interrupts>>
EnableGates ==
    /\ present' = Gates
    /\ UNCHANGED <<idtr, filled, g_ISRHandlers, g_IRQHandlers, controller, interrupts>>

\* i686_ISR_RegisterHandler for each of some vectors
RegisterHandlers(vectors, handler) ==
    /\ g_ISRHandlers' = [v \in Gates |-> IF v \in vectors THEN handler ELSE g_ISRHandlers[v]]
    /\ present' = present \cup vectors
    /\ UNCHANGED <<idtr, filled, g_IRQHandlers, controller, interrupts>>

i686_IRQ_RegisterHandler(irq, handler) ==
    /\ g_IRQHandlers' = [g_IRQHandlers EXCEPT ![irq] = handler]
    /\ UNCHANGED <<idtr, filled, present, g_ISRHandlers, controller, interrupts>>

\* What i686_ISR_Handler finds for a vector; "panic" where it finds nothing, and
\* where the processor does not get that far.
i686_ISR_Handler(vector) ==
    IF idtr /\ vector \in filled \cap present /\ g_ISRHandlers[vector] # "NULL"
    THEN g_ISRHandlers[vector] ELSE "panic"

\* What i686_IRQ_Handler calls; for "NULL" it prints a line.
i686_IRQ_Handler(irq) == g_IRQHandlers[irq]

-----------------------------------------------------------------------------
(* The interrupt controller *)

Master == 0 .. 7
Slave == 8 .. 15

\* i8259_SetMask stores the mask and writes it in two halves.
SetMaskLow(newMask) ==
    /\ g_PICMask' = newMask
    /\ imr' = (newMask \cap Master) \cup (imr \cap Slave)
SetMaskHigh == imr' = (imr \cap Master) \cup (g_PICMask \cap Slave)

\* 0x1337, and what is left of it after the two halves are written
MAGIC == {0, 1, 2, 4, 5, 8, 9, 12}
i8259_Probe ==
    /\ g_PICMask' = MAGIC /\ imr' = MAGIC
    /\ UNCHANGED <<irr, base, spurious, tables, interrupts>>

\* The first control word forgets the edges that wait.
i8259_Config ==
    /\ g_PICMask' = IRQs /\ imr' = IRQs
    /\ irr' = {} /\ base' = PIC_REMAP_OFFSET
    /\ UNCHANGED <<spurious, tables, interrupts>>

Unmasked(irq) == g_PICMask \ {irq}
UnmaskLow(irq) ==
    /\ SetMaskLow(Unmasked(irq))
    /\ UNCHANGED <<irr, base, spurious, tables, interrupts>>
UnmaskHigh ==
    /\ SetMaskHigh
    /\ UNCHANGED <<g_PICMask, irr, base, spurious, tables, interrupts>>

i686_EnableInts == interrupts' = TRUE /\ UNCHANGED <<tables, controller>>

\* A line of the slave comes through the cascade; a spurious interrupt is not masked.
Deliverable(irq) ==
    /\ interrupts
    /\ \/ irq \in irr \ imr /\ (irq \in Slave => CASCADE \notin imr)
       \/ irq = SPURIOUS /\ spurious
Vector(irq) == base + irq

\* The processor takes it, the lowest first: the lines that would come after the
\* slave's are never open.  The end of the interrupt is signalled by itself.
Acknowledge(irq) ==
    /\ Deliverable(irq)
    /\ \A other \in 0 .. irq - 1 : ~ Deliverable(other)
    /\ irr' = irr \ {irq}
    /\ spurious' = (spurious /\ irq # SPURIOUS)
    /\ UNCHANGED <<g_PICMask, imr, base, tables>>
=============================================================================
