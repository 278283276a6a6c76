--------------------------- MODULE MCSerialBridge ---------------------------
(* SerialBridge with four bytes and a server that goes away twice.         *)
EXTENDS SerialBridge
=============================================================================
