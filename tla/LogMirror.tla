------------------------------ MODULE LogMirror ------------------------------
(***************************************************************************)
(* What a local copy of a contract's event log promises: at any moment it  *)
(* holds nothing, or exactly the events of the blocks up to some block,    *)
(* each once and in order.                                                 *)
(***************************************************************************)
EXTENDS Naturals, Sequences
CONSTANTS EventsOf(_)        \* the events of the blocks 1 .. n, in order
VARIABLES height,            \* blocks mined
          copied,            \* the block the copy reaches, 0 for none
          copy               \* the events it holds

mirrorVars == <<height, copied, copy>>

MirrorInit == height \in Nat /\ copied = 0 /\ copy = <<>>

Mine == height' = height + 1 /\ UNCHANGED <<copied, copy>>

\* The copy is brought to some block that has been mined, further or back.
Sync ==
    \E n \in 0 .. height :
       /\ copied' = n /\ copy' = EventsOf(n)
       /\ UNCHANGED height

MirrorSpec == MirrorInit /\ [][Mine \/ Sync]_mirrorVars
=============================================================================
