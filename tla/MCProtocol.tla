----------------------------- MODULE MCProtocol -----------------------------
(***************************************************************************)
(* Protocol with bytes 0..4 (so a frame has at most 12 of them).  The      *)
(* frames are a heartbeat, an ACK, a frame whose payload is a head and one *)
(* whose payload is too short for an event.  The fragments are every       *)
(* beginning of a frame (the peer was cut off), a frame with a wrong crc,  *)
(* and noise.                                                              *)
(***************************************************************************)
EXTENDS Protocol, FiniteSetsExt

\* Two sums stand for the crc: they notice one wrong byte and a swap.
MCCrc(bytes) ==
    LET Sum(weight(_)) == MapThenSumSet(LAMBDA i : weight(i) * bytes[i], DOMAIN bytes)
    IN  <<Sum(LAMBDA i : 1) % 5, Sum(LAMBDA i : i) % 5>>

MCFrames == { FrameOf(<<0, 1>>, 0, <<>>),
              FrameOf(<<0, 2>>, FunctionAck, <<>>),
              FrameOf(<<1, 0>>, 0, <<Head0, Head1>>),
              FrameOf(<<2, 0>>, 0, <<1>>) }

MCFragments == UNION {{SubSeq(f, 1, n) : n \in 1 .. Len(f) - 1} : f \in MCFrames}
               \cup {[f EXCEPT ![Len(f)] = (@ + 1) % 5] : f \in MCFrames}
               \cup {<<0>>, <<Head1>>}
=============================================================================
