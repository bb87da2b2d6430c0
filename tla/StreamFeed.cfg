SPECIFICATION FairSpec
CONSTANTS
    HeaderSize = 2
    Cap = 5
    Lens = {2, 5}
    Waits = 1
    MaxFrames = 2
    MaxConns = 2
CHECK_DEADLOCK FALSE
INVARIANTS InOrder Prompt
 
