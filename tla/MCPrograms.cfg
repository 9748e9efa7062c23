SPECIFICATION FairSpec
CONSTANTS
    alice = alice
    bob = bob
    None = None
    MaxTokens = 5
    Udp = FALSE
    Typed <- TcpTyped
    Mistypes = FALSE
    Lossy = FALSE
INVARIANT DoneAsSaid
INVARIANT LinesRead
INVARIANT HeapWhole
PROPERTY EndsAgree
PROPERTY Delivered
PROPERTY LegalGame
PROPERTY PromptReturns
CHECK_DEADLOCK FALSE
