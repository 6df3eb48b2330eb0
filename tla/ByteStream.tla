----------------------------- MODULE ByteStream -----------------------------
(***************************************************************************)
(* What a driver that carries bytes promises: the bytes put in come out in *)
(* order, none lost, repeated or made up, and all of them in the end.  The *)
(* bytes are numbered from 1, so that what was put in is its number.       *)
(***************************************************************************)
EXTENDS Naturals, Sequences

CONSTANT Burst  \* bound: bytes put in at a time

VARIABLES
  taken,  \* how many bytes were put in
  out     \* the bytes that came out

FirstBytes(n) == [i \in 1..n |-> i]

Init == taken = 0 /\ out = <<>>

Put == taken' \in taken + 1 .. taken + Burst /\ UNCHANGED out

Take == \E n \in Len(out) + 1 .. taken : out' = FirstBytes(n) /\ UNCHANGED taken

Next == Put \/ Take

Spec == Init /\ [][Next]_<<taken, out>> /\ WF_<<taken, out>>(Take)
=============================================================================
