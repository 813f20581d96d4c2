-------------------------------- MODULE Pci --------------------------------
(***************************************************************************)
(* The walk over the PCI configuration space (pci.c).  A machine is a      *)
(* function from the places <<bus, device, function>> that are occupied to *)
(* their configuration space, of which this keeps the vendor and the       *)
(* header type, with its bit for several functions apart.                  *)
(***************************************************************************)
EXTENDS Integers, Sequences, FiniteSets

CONSTANTS BUSES, DEVICES, FUNCTIONS,   \* 8, 32 and 8
          NO_VENDOR,                   \* what reads as no device: 0x0000, 0xFFFF
          FLOATING                     \* what an empty place answers: the vendor 0xFFFF

Places == (0 .. BUSES - 1) \X (0 .. DEVICES - 1) \X (0 .. FUNCTIONS - 1)

\* Every bit of an empty place reads as 1.
Empty == [vendor |-> FLOATING, multi |-> TRUE, type |-> 127]
PCI_read(machine, place) ==
    IF place \in DOMAIN machine THEN machine[place] ELSE Empty

do_you_have_functions(machine, bus, device) == PCI_read(machine, <<bus, device, 0>>).multi
num_functions(machine, bus, device) ==
    IF do_you_have_functions(machine, bus, device) THEN FUNCTIONS ELSE 1

\* A header type of 7 bits in an int8_t: 6 - 4 * type, wrapped.
Int8(n) == ((n + 128) % 256) - 128
max_bars(type) == LET n == Int8(6 - 4 * type) IN IF n < 0 THEN 0 ELSE n

\* The base addresses GetBAR reads, of the six it is asked for; for the others it
\* returns what was on the stack.
BarsRead(space) == {bar \in 0 .. 5 : bar < max_bars(space.type)}

\* Whether the pass lists the place.  GetDriver knows no driver, so it does nothing else.
Listed_First(machine, place) ==
    /\ PCI_read(machine, place).vendor \notin NO_VENDOR
    /\ place[3] < 1
Listed(machine, place) ==
    /\ place[3] < num_functions(machine, place[1], place[2])
    /\ PCI_read(machine, place).vendor \notin NO_VENDOR
SelectDrivers(machine) == {place \in Places : Listed(machine, place)}
=============================================================================
