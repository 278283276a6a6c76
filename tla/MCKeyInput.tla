----------------------------- MODULE MCKeyInput -----------------------------
(* KeyInput with two levels and two readings: commands, key presses and    *)
(* changes of the sensors in any order, up to two messages in a FIFO.      *)
EXTENDS KeyInput
=============================================================================
