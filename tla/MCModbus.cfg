CONSTANTS
    BIT_NREGS = 2
    WORD_NREGS = 3
    MB_SER_PDU_SIZE_MAX = 18
    ucMBAddress = 1
    MaxBytes = 12
    MaxGaps = 1
    Frames <- MCFrames
    Noise <- MCNoise
    Texts <- MCTexts
    MaxChars = 18
    Requests <- MCRequests
    Pieces <- MCPieces
    RX_SIZE = 24
    MaxSegments = 2
    MaxClients = 2
SPECIFICATION SlaveSpec
INVARIANTS ExecutedAsReceived AbortsAsTold AnswersGoBack
PROPERTIES ExecutesAsAsked RequestsServed
CHECK_DEADLOCK FALSE
