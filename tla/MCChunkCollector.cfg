\* Either end of the socket: three keys, payloads of up to eight chunks and a
\* ceiling of four, so that partials collide, pile up and exceed it.
CONSTANTS
    Positions <- MCPositions
    MaxChunks = 8
    MaxSends = 4
    LimitBytes = 4
SPECIFICATION CollectorSpec
INVARIANTS
    Reassembled
\* Nothing is left to do once every payload was sent.
CHECK_DEADLOCK FALSE
