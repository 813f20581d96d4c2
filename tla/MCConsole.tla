------------------------------ MODULE MCConsole ------------------------------
(***************************************************************************)
(* A screen of three rows of six columns, the clock in the last two        *)
(* columns of the row in the middle, and the numbers of a machine of eight *)
(* bits.                                                                   *)
(***************************************************************************)
EXTENDS Console

Call(fmt, args) == [fmt |-> fmt, args |-> args]

\* The control characters, two glyphs, and a format for each conversion and length.
MCPrints ==
    {Call(<<"\n">>, <<>>), Call(<<"\r">>, <<>>), Call(<<"\t">>, <<>>), Call(<<"a", "a">>, <<>>),
     Call(<<"%", "l", "l", "d", "%", "c", "%", "i">>, <<254, 255, "c", 7, 1>>),
     Call(<<"%", "5", "%", "%", "%", "h", "h", "x">>, <<171>>),
     Call(<<"%", "s", "%", "l", "o">>, <<<<"s">>, 9>>)}
=============================================================================
