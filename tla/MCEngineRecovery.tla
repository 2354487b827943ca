-------------------------- MODULE MCEngineRecovery --------------------------
(* Small instances of EngineRecovery for TLC. *)
EXTENDS EngineRecovery

\* Odd commands are new orders that rest (BookTop, Ack), even ones are cancels, which emit
\* the same two events but none when replayed.
MCEvents == [c \in 1 .. MaxCmds |-> 2]
MCReplayEvents == [c \in 1 .. MaxCmds |-> IF c % 2 = 1 THEN 2 ELSE 0]
=============================================================================
