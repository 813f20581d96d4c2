-------------------------------- MODULE MCHal --------------------------------
(***************************************************************************)
(* Two chips, each of a format of its own, a second before the minute      *)
(* changes: before noon, with the hours in two halves, and later.  A third *)
(* at noon.                                                                *)
(* Two buses, with bridges and with devices of one and of several          *)
(* functions.                                                              *)
(***************************************************************************)
EXTENDS Hal

Chip(binary, h24, at) == [binary |-> binary, h24 |-> h24, start |-> at]
MCChips ==
    {Chip(FALSE, FALSE, <<59, 59, 11, 31, 12, 25>>),
     Chip(TRUE, TRUE, <<59, 30, 21, 30, 4, 99>>)}
MCNoonChips == {Chip(FALSE, FALSE, <<30, 10, 12, 31, 12, 25>>)}

Space(vendor, multi, type) == [vendor |-> vendor, multi |-> multi, type |-> type]
MCMachines ==
    {<<0, 0, 0>> :> Space("intel", TRUE, 0) @@ <<0, 0, 2>> :> Space("intel", FALSE, 0)
        @@ <<0, 1, 0>> :> Space("amd", FALSE, 1) @@ <<1, 1, 0>> :> Space("amd", FALSE, 2),
     <<1, 0, 0>> :> Space("amd", FALSE, 0) @@ <<1, 1, 0>> :> Space("intel", TRUE, 1)
        @@ <<1, 1, 1>> :> Space("amd", TRUE, 0)}
MCNoVendor == {"zero", "ones"}
=============================================================================
