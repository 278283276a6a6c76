------------------------------ MODULE MCModbus ------------------------------
(* ModbusSlave with tables of two bytes of bits and three registers. In RTU *)
(* mode a buffer of 18 bytes; the requests, with their CRC, go up to the    *)
(* edges of the tables, one over it and one to the last address there is,   *)
(* to which the slave adds 1; the noise is longer than the buffer. In ASCII *)
(* mode requests for this slave, for all and for others, a frame begun anew *)
(* after CR, a stray character after CR, one in a frame that the checksum   *)
(* gives away and one that it does not, the begin of a frame alone, and a   *)
(* frame longer than the buffer. Over TCP a write of coils, a read of       *)
(* registers and a request of another protocol; the begin of the write      *)
(* alone, and two requests in one segment. The three modes together ask for *)
(* every function.                                                          *)
EXTENDS ModbusSlave

ReadCoils     == <<1, 1, 0, 3, 0, 10, 76, 13>>
WriteCoil     == <<1, 5, 0, 15, 255, 0, 188, 57>>
WriteCoils    == <<1, 15, 0, 6, 0, 9, 2, 85, 1, 27, 138>>
WriteWords    == <<1, 16, 0, 1, 0, 1, 2, 18, 52, 170, 246>>
ReadRegisters == <<1, 3, 0, 1, 0, 2, 149, 203>>
ReadWrite     == <<1, 23, 0, 1, 0, 2, 0, 0, 0, 2, 4, 5, 6, 7, 8, 217, 184>>
Broadcast     == <<0, 6, 0, 2, 0, 7, 104, 25>>
Outside       == <<1, 6, 0, 3, 0, 7, 56, 8>>
Last          == <<1, 6, 255, 255, 0, 7, 200, 44>>
Discretes     == <<1, 2, 0, 1, 0, 11, 104, 13>>
Unknown       == <<1, 7, 65, 226>>
ReportThere   == <<2, 17, 192, 220>>
Long          == [i \in 1 .. 19 |-> 2]

MCFrames == {ReadCoils, WriteCoil, WriteCoils, WriteWords, ReadWrite, Broadcast, Outside,
             Last, ReadRegisters, Discretes, Unknown, ReportThere}
MCNoise == {Long}

AsciiWrite     == <<COLON, 0, 1, 0, 6, 0, 0, 0, 1, 1, 2, 3, 4, 11, 2, CR, LF>>
AsciiRead      == <<COLON, 0, 1, 0, 4, 0, 0, 0, 1, 0, 0, 0, 2, 15, 8, CR, LF>>
AsciiBroadcast == <<COLON, 0, 0, 0, 6, 0, 0, 0, 2, 0, 0, 0, 7, 15, 1, CR, LF>>
AsciiReport    == <<COLON, 0, 1, 1, 1, 14, 14, CR, LF>>
AsciiThere     == <<COLON, 0, 2, 1, 1, 14, 13, CR, LF>>
AsciiRestart   == <<COLON, 0, 6, CR>> \o AsciiReport
AsciiStray     == <<COLON, 0, 1, CR, 5>>
AsciiBroken    == <<COLON, 0, 1, STRAY, 1, 14, 14, CR, LF>>
AsciiMisread   == <<COLON, 0, 1, STRAY, 1, 0, 14, CR, LF>>
AsciiPart      == <<COLON, 0, 1>>
AsciiLong      == <<COLON>> \o [i \in 1 .. 39 |-> 1] \o <<CR, LF>>

MCTexts == {AsciiWrite, AsciiRead, AsciiBroadcast, AsciiReport, AsciiThere, AsciiRestart,
            AsciiStray, AsciiBroken, AsciiLong, AsciiMisread, AsciiPart}

TcpRead    == <<0, 2, 0, 0, 0, 6, 1, 3, 0, 1, 0, 2>>
TcpWrite   == <<0, 3, 0, 0, 0, 9, 255, 15, 0, 6, 0, 9, 2, 85, 1>>
TcpOther   == <<0, 4, 0, 1, 0, 6, 1, 6, 0, 0, 0, 9>>
TcpUnknown == <<1, 5, 0, 0, 0, 2, 1, 7>>

MCRequests == {TcpWrite, TcpRead, TcpOther}
MCPieces   == {SubSeq(TcpWrite, 1, 5), TcpUnknown \o TcpRead}
=============================================================================
