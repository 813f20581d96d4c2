------------------------------ MODULE KeyQueue ------------------------------
(***************************************************************************)
(* What the keyboard buffer promises the shell: the characters it accepts  *)
(* come out once each and in the order they went in, and no more than      *)
(* Capacity of them wait.  (One that is refused leaves no trace here.)     *)
(***************************************************************************)
EXTENDS Naturals, Sequences

CONSTANTS Chars, Capacity, NoChar

VARIABLES
    queue,  \* typed and not taken yet
    taken   \* the last character taken

kqVars == <<queue, taken>>

Init == queue = <<>> /\ taken = NoChar

Put(c) ==
    /\ Len(queue) < Capacity
    /\ queue' = Append(queue, c)
    /\ UNCHANGED taken

Take ==
    /\ queue # <<>>
    /\ taken' = Head(queue)
    /\ queue' = Tail(queue)

Next == (\E c \in Chars : Put(c)) \/ Take

Spec == Init /\ [][Next]_kqVars
=============================================================================
