--------------------------- MODULE ModbusRegisters ---------------------------
(***************************************************************************)
(* The functions of the Modbus slave of main_process (mb/functions) and    *)
(* the register tables they work on (mb/port/mbport.cpp).  A handler works *)
(* in the frame buffer: it reads the request there and leaves the answer   *)
(* in its place.  The buffer is a function from 0 on; byte 0 is the slave  *)
(* address, so the PDU of the code starts at 1.  Tables of bits are packed *)
(* in bytes, as the code keeps them.                                       *)
(***************************************************************************)
EXTENDS Naturals, Sequences

CONSTANTS BIT_NREGS,     \* REG_COIL_NREGS, REG_DISCRETE_NREGS: bytes of bits
          WORD_NREGS     \* REG_HOLDING_NREGS, REG_INPUT_NREGS: words

ASSUME TableAssumption == {BIT_NREGS, WORD_NREGS} \subseteq Nat \ {0}

Byte == 0 .. 255

\* The tables as the program starts.
Filled(first, n) == [i \in 0 .. n - 1 |-> IF i < Len(first) THEN first[i + 1] ELSE 0]
usRegCoilBuf      == Filled(<<16, 1, 1, 0, 1, 1, 0, 1>>, BIT_NREGS)
usRegDiscreateBuf == Filled(<<49, 21, 1, 0, 1, 1, 1>>, BIT_NREGS)
usRegHoldingBuf   == Filled(<<4096, 4097, 4098, 4099>>, WORD_NREGS)
usRegInputBuf     == usRegHoldingBuf

Regs == [coils   : [0 .. BIT_NREGS - 1 -> Byte],
         holding : [0 .. WORD_NREGS - 1 -> 0 .. 65535]]

-----------------------------------------------------------------------------
(* Bytes and bits.  What lies behind a table reads as zero.                *)

At(buf, i)      == IF i \in DOMAIN buf THEN buf[i] ELSE 0
Word(buf, i)    == 256 * At(buf, i) + At(buf, i + 1)
Put(buf, i, bytes) ==
    [k \in DOMAIN buf |-> IF k \in i .. i + Len(bytes) - 1 THEN bytes[k - i + 1] ELSE buf[k]]

\* Two bytes from the one that holds the first bit; a field has at most 8 bits.
Window(buf, bit) == At(buf, bit \div 8) + 256 * At(buf, bit \div 8 + 1)

xMBUtilGetBits(buf, bit, n) == (Window(buf, bit) \div 2^(bit % 8)) % 2^n

xMBUtilSetBits(buf, bit, n, value) ==
    LET pre  == bit % 8
        old  == Window(buf, bit)
        word == (old \div 2^(pre + n)) * 2^(pre + n) + value * 2^pre + (old % 2^pre)
    IN  Put(buf, bit \div 8, <<word % 256, (word \div 256) % 256>>)

\* Mutant: the last bit is left out.
CopyBitsShort(to, toBit, from, fromBit, n) ==
    LET Copied(i, buf) == xMBUtilSetBits(buf, toBit + i, 1, xMBUtilGetBits(from, fromBit + i, 1))
        copy[s \in (0 .. n) \X [DOMAIN to -> Byte]] ==
            IF s[1] >= n - 1 THEN s[2] ELSE copy[<<s[1] + 1, Copied(s[1], s[2])>>]
    IN  copy[<<0, to>>]

\* n bits, one at a time: s[1] of them are in s[2].
CopyBits(to, toBit, from, fromBit, n) ==
    LET Copied(i, buf) == xMBUtilSetBits(buf, toBit + i, 1, xMBUtilGetBits(from, fromBit + i, 1))
        copy[s \in (0 .. n) \X [DOMAIN to -> Byte]] ==
            IF s[1] = n THEN s[2] ELSE copy[<<s[1] + 1, Copied(s[1], s[2])>>]
    IN  copy[<<0, to>>]

\* The bytes that n bits take in an answer.
Bytes(n) == IF n % 8 # 0 THEN (n \div 8 + 1) % 256 ELSE (n \div 8) % 256

-----------------------------------------------------------------------------
(* What a handler returns: the exception, the buffer, the length of the    *)
(* PDU and the tables.                                                     *)

NONE == 0
ILLEGAL_FUNCTION == 1
ILLEGAL_DATA_ADDRESS == 2
ILLEGAL_DATA_VALUE == 3

Result(exception, buf, len, regs) ==
    [exception |-> exception, buf |-> buf, len |-> len, regs |-> regs]

RegAddress(buf, i) == (Word(buf, i) + 1) % 65536

\* The callbacks' check: registers from address on, counted from 1.
InTable(address, n, size) == address >= 1 /\ address + n <= size + 1

BitsAt(table, address, n) ==
    LET left(k) == n - 8 * (k - 1)
    IN  [k \in 1 .. Bytes(n) |-> xMBUtilGetBits(table, address - 1 + 8 * (k - 1),
                                                IF left(k) > 8 THEN 8 ELSE left(k))]

WordsAt(table, address, n) ==
    [k \in 1 .. 2 * n |-> LET word == table[address - 1 + (k - 1) \div 2]
                          IN  IF k % 2 = 1 THEN word \div 256 ELSE word % 256]

WordsFrom(table, address, n, buf, i) ==
    [k \in DOMAIN table |-> IF k \in address - 1 .. address + n - 2
                            THEN Word(buf, i + 2 * (k - address + 1)) ELSE table[k]]

\* Function code and number of bytes in front of the data of an answer.
Headed(buf, code, n) == Put(buf, 1, <<code, n % 256>>)

-----------------------------------------------------------------------------
(* The handlers.  address and count stand at 2 and 4 of every request.     *)

\* The four reads: count in 1 .. max, answer is the buffer with the data.
Reading(buf, len, regs, code, count, max, size, bytes, answer) ==
    IF len # 5 \/ count \notin 1 .. max THEN Result(ILLEGAL_DATA_VALUE, buf, len, regs)
    ELSE IF ~InTable(RegAddress(buf, 2), count, size)
    THEN Result(ILLEGAL_DATA_ADDRESS, Headed(buf, code, bytes), 2, regs)
    ELSE Result(NONE, answer, 2 + bytes, regs)

eMBFuncReadCoils(buf, len, regs) ==
    LET count == Word(buf, 4)
        fill  == CopyBits(Headed(buf, 1, Bytes(count)), 24, regs.coils, RegAddress(buf, 2) - 1, count)
    IN  Reading(buf, len, regs, 1, count, 1999, 8 * BIT_NREGS, Bytes(count), fill)

eMBFuncReadDiscreteInputs(buf, len, regs) ==
    LET count == Word(buf, 4)
        fill  == Put(Headed(buf, 2, Bytes(count)), 3, BitsAt(usRegDiscreateBuf, RegAddress(buf, 2), count))
    IN  Reading(buf, len, regs, 2, count, 1999, 8 * BIT_NREGS, Bytes(count), fill)

\* The high byte of the count is read and overwritten by the low one.
eMBFuncReadHoldingRegister(buf, len, regs) ==
    LET count == At(buf, 5)
        fill  == Put(Headed(buf, 3, 2 * count), 3, WordsAt(regs.holding, RegAddress(buf, 2), count))
    IN  Reading(buf, len, regs, 3, count, 125, WORD_NREGS, 2 * count, fill)

eMBFuncReadInputRegister(buf, len, regs) ==
    LET count == Word(buf, 4)
        fill  == Put(Headed(buf, 4, 2 * count), 3, WordsAt(usRegInputBuf, RegAddress(buf, 2), count))
    IN  Reading(buf, len, regs, 4, count, 124, WORD_NREGS, 2 * count, fill)

\* The writes: valid is what the handler asks of the request, new the tables.
Writing(buf, len, regs, valid, count, size, answered, new) ==
    IF ~valid THEN Result(ILLEGAL_DATA_VALUE, buf, len, regs)
    ELSE IF ~InTable(RegAddress(buf, 2), count, size)
    THEN Result(ILLEGAL_DATA_ADDRESS, buf, len, regs)
    ELSE Result(NONE, buf, answered, new)

eMBFuncWriteCoil(buf, len, regs) ==
    Writing(buf, len, regs, len = 5 /\ At(buf, 5) = 0 /\ At(buf, 4) \in {0, 255},
            1, 8 * BIT_NREGS, len,
            [regs EXCEPT !.coils = xMBUtilSetBits(@, RegAddress(buf, 2) - 1, 1,
                                                  IF At(buf, 4) = 255 THEN 1 ELSE 0)])

eMBFuncWriteMultipleCoils(buf, len, regs) ==
    LET count == Word(buf, 4)
    IN  Writing(buf, len, regs,
                len > 5 /\ count \in 1 .. 1968 /\ Bytes(count) = At(buf, 6),
                count, 8 * BIT_NREGS, 5,
                [regs EXCEPT !.coils = CopyBits(@, RegAddress(buf, 2) - 1, buf, 56, count)])

eMBFuncWriteHoldingRegister(buf, len, regs) ==
    Writing(buf, len, regs, len = 5, 1, WORD_NREGS, len,
            [regs EXCEPT !.holding = WordsFrom(@, RegAddress(buf, 2), 1, buf, 4)])

eMBFuncWriteMultipleHoldingRegister(buf, len, regs) ==
    LET count == Word(buf, 4)
    IN  Writing(buf, len, regs,
                len >= 6 /\ count \in 1 .. 120 /\ At(buf, 6) = (2 * count) % 256,
                count, WORD_NREGS, 5,
                [regs EXCEPT !.holding = WordsFrom(@, RegAddress(buf, 2), count, buf, 7)])

\* It writes first: a read that fails leaves the registers written.  A request
\* that is too short is answered as if it had been carried out.
eMBFuncReadWriteMultipleHoldingRegister(buf, len, regs) ==
    LET count   == Word(buf, 4)
        wcount  == Word(buf, 8)
        written == [regs EXCEPT !.holding = WordsFrom(@, RegAddress(buf, 6), wcount, buf, 11)]
        head    == Headed(buf, 23, 2 * count)
    IN  IF len < 10 THEN Result(NONE, buf, len, regs)
        ELSE IF count \notin 1 .. 125 \/ wcount \notin 1 .. 121 \/ At(buf, 10) # 2 * wcount
        THEN Result(ILLEGAL_DATA_VALUE, buf, len, regs)
        ELSE IF ~InTable(RegAddress(buf, 6), wcount, WORD_NREGS)
        THEN Result(ILLEGAL_DATA_ADDRESS, buf, len, regs)
        ELSE IF ~InTable(RegAddress(buf, 2), count, WORD_NREGS)
        THEN Result(ILLEGAL_DATA_ADDRESS, head, 2, written)
        ELSE Result(NONE, Put(head, 3, WordsAt(written.holding, RegAddress(buf, 2), count)),
                    2 + 2 * count, written)

\* No identification is ever set: the answer is the code alone.
eMBFuncReportSlaveID(buf, len, regs) == Result(NONE, buf, 1, regs)

\* xFuncHandlers, and the answer to a code it does not hold.
Handle(buf, len, regs) ==
    LET code == At(buf, 1)
    IN  CASE code = 1  -> eMBFuncReadCoils(buf, len, regs)
          [] code = 2  -> eMBFuncReadDiscreteInputs(buf, len, regs)
          [] code = 3  -> eMBFuncReadHoldingRegister(buf, len, regs)
          [] code = 4  -> eMBFuncReadInputRegister(buf, len, regs)
          [] code = 5  -> eMBFuncWriteCoil(buf, len, regs)
          [] code = 6  -> eMBFuncWriteHoldingRegister(buf, len, regs)
          [] code = 15 -> eMBFuncWriteMultipleCoils(buf, len, regs)
          [] code = 16 -> eMBFuncWriteMultipleHoldingRegister(buf, len, regs)
          [] code = 17 -> eMBFuncReportSlaveID(buf, len, regs)
          [] code = 23 -> eMBFuncReadWriteMultipleHoldingRegister(buf, len, regs)
          [] OTHER     -> Result(ILLEGAL_FUNCTION, buf, len, regs)

-----------------------------------------------------------------------------
(* What a master asks for, said without the buffers: bit and register      *)
(* numbers from 0 on, each value of each table after the request and each  *)
(* value of the answer.  For requests that are well formed.                *)

BitAt(table, k) == (At(table, k \div 8) \div 2^(k % 8)) % 2

BitAfter(req, regs, k) ==
    LET offset == k - Word(req, 2)
    IN  CASE req[1] = 5 /\ offset = 0 -> IF req[4] = 255 THEN 1 ELSE 0
          [] req[1] = 15 /\ offset \in 0 .. Word(req, 4) - 1 -> BitAt(req, 56 + offset)
          [] OTHER -> BitAt(regs.coils, k)

WordAfter(req, regs, k) ==
    LET offset == k - Word(req, IF req[1] = 23 THEN 6 ELSE 2)
    IN  CASE req[1] = 6 /\ offset = 0 -> Word(req, 4)
          [] req[1] = 16 /\ offset \in 0 .. Word(req, 4) - 1 -> Word(req, 7 + 2 * offset)
          [] req[1] = 23 /\ offset \in 0 .. Word(req, 8) - 1 -> Word(req, 11 + 2 * offset)
          [] OTHER -> regs.holding[k]

\* The registers of the request lie in the table; a single write has one.
Inside(req) ==
    LET count == IF req[1] \in {5, 6} THEN 1 ELSE Word(req, 4)
    IN  /\ Word(req, 2) + count <= (IF req[1] \in {1, 2, 5, 15} THEN 8 * BIT_NREGS ELSE WORD_NREGS)
        /\ req[1] = 23 => Word(req, 6) + Word(req, 8) <= WORD_NREGS

\* The tables after the request, and the answer in buf, are what was asked.
CarriedOut(req, regs, after, buf) ==
    /\ \A k \in 0 .. 8 * BIT_NREGS - 1 : BitAt(after.coils, k) = BitAfter(req, regs, k)
    /\ \A k \in DOMAIN after.holding : after.holding[k] = WordAfter(req, regs, k)
    /\ req[1] \in {1, 2} => \A i \in 0 .. Word(req, 4) - 1 :
            BitAt(buf, 24 + i) = BitAt(IF req[1] = 1 THEN regs.coils ELSE usRegDiscreateBuf,
                                       Word(req, 2) + i)
    /\ req[1] \in {3, 4, 23} => \A i \in 0 .. Word(req, 4) - 1 :
            Word(buf, 3 + 2 * i) = (IF req[1] = 4 THEN usRegInputBuf ELSE after.holding)
                                       [Word(req, 2) + i]
    /\ req[1] \in {5, 6, 15, 16} => \A i \in 1 .. 5 : buf[i] = req[i]
=============================================================================
