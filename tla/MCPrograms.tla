------------------------------ MODULE MCPrograms ------------------------------
(***************************************************************************)
(* One TLC run for the programs: the socket programs, and user/ of xv6;    *)
(* partA over TCP is the module extended.  setup says which:               *)
(*   chat3, chat2   partB with messages of up to 3 chunks, and of up to 2  *)
(*   tcp            partA over TCP, with lines that are no legal move      *)
(*   udp            partA over UDP on a network that delivers everything   *)
(*   udp_lossy      the same, on one that does not, with mistyped answers  *)
(*   pipes          the shell, with commands in the foreground             *)
(*   background     the shell, with commands in the background as well     *)
(*   full           the shell, with too few slots for most pipelines       *)
(*   lines          its parser, on every line of up to MaxTokens tokens    *)
(*   grep           its matcher and its loop, on short texts               *)
(*   malloc         the allocator                                          *)
(***************************************************************************)
EXTENDS Xoxo, TLC

CONSTANTS alice, bob, MaxTokens

VARIABLES
    setup,
    sending, list, sent, received, pc, msg, printed, datagrams,       \* Chunks
    proc, files, disk, shown, meant,                                  \* Shell
    line,                                                             \* Parser
    pattern, text, unread, kept, out, reading,                        \* Grep
    hdr, freep, brk, used, own                                        \* Umalloc

Chat3 == INSTANCE Chunks WITH
    client <- alice, server <- bob, MaxChunks <- 3, Capacity <- 4,
    Lossy <- FALSE, Early <- FALSE, net <- datagrams
Chat2 == INSTANCE Chunks WITH
    client <- alice, server <- bob, MaxChunks <- 2, Capacity <- 3,
    Lossy <- FALSE, Early <- FALSE, net <- datagrams

(* What the two users type: enough for wins of either side and for draws;  *)
(* over TCP also lines without two numbers, taken cells and bad numbers.   *)
X == {<<1, 1>>, <<1, 3>>, <<2, 1>>, <<3, 2>>, <<3, 3>>}
O == {<<1, 2>>, <<2, 2>>, <<2, 3>>, <<3, 1>>}
Garbage == {<<None, None>>, <<2, None>>, <<1, 2>>}

TcpTyped == <<X \cup Garbage, O \cup {<<0, 1>>, <<4, 2>>}>>
UdpIdeal == INSTANCE Xoxo WITH
    Udp <- TRUE, Mistypes <- FALSE, Lossy <- FALSE,
    Typed <- <<X \cup {<<1, 2>>}, O>>
UdpLossy == INSTANCE Xoxo WITH
    Udp <- TRUE, Mistypes <- TRUE, Lossy <- TRUE,
    Typed <- <<{<<1, 1>>, <<1, 2>>, <<1, 3>>, <<2, 2>>, <<3, 1>>},
               {<<1, 1>>, <<2, 1>>, <<2, 2>>, <<3, 1>>}>>

Parsing == INSTANCE Parser WITH MAXARGS <- 10
FewArgs == INSTANCE Parser WITH MAXARGS <- 3

Pipelines == {
    <<"echo", "x", "y", "|", "cat">>, <<"echo", "x", "y", ">", "f">>,
    <<"cat", "f", "|", "cat", "|", "cat">>}
Foreground == Pipelines \cup {
    <<"echo", "x", "y", "|", "nosuch">>, <<"cat", "<", "f", "|", "echo", "y">>,
    <<"echo", "y", ">", ">">>, <<"(", "echo", "y", ";", "nosuch", ")", ">>", "f">>,
    <<"cat", "f", "g", "f">>}
Background == {
    <<"echo", "y", "&">>, <<"(", "echo", "x", "&", ")", "|", "cat">>,
    <<"echo", "x", "y", ">", "f">>}

Pipes == INSTANCE Shell WITH
    NPROC <- 7, NOFILE <- 5, NFILE <- 6, PIPESIZE <- 1, Lines <- Foreground, MaxBack <- 0,
    Names <- {"f", "g"}, Parse <- Parsing!parsecmd
Backgrounds == INSTANCE Shell WITH
    NPROC <- 7, NOFILE <- 5, NFILE <- 6, PIPESIZE <- 1, Lines <- Background, MaxBack <- 1,
    Names <- {"f", "g"}, Parse <- Parsing!parsecmd
Full == INSTANCE Shell WITH
    NPROC <- 4, NOFILE <- 5, NFILE <- 6, PIPESIZE <- 1, Lines <- Pipelines, MaxBack <- 1,
    Names <- {"f", "g"}, Parse <- Parsing!parsecmd

Grep == INSTANCE Grep WITH
    BUF <- 5, NL <- "n", rest <- unread, buf <- kept, at <- reading
Strings(chars, n) == UNION {[1 .. k -> chars] : k \in 0 .. n}

Malloc == INSTANCE Umalloc WITH MaxUnits <- 4, MinCore <- 3, Limit <- 10

ASSUME ProgramInstances ==
    /\ Pipes!ShellConstants /\ Backgrounds!ShellConstants /\ Full!ShellConstants
    /\ Malloc!UmallocConstants
    /\ Chat3!ChunksConstants /\ Chat2!ChunksConstants
    /\ ~Udp /\ UdpIdeal!XoxoConstants /\ UdpLossy!XoxoConstants

chat == <<sending, list, sent, received, pc, msg, printed, datagrams>>
xoxo == vars
shell == <<proc, files, disk, shown, meant>>
heap == <<hdr, freep, brk, used, own>>
greps == <<pattern, text, unread, kept, out, reading>>
all == <<setup, chat, xoxo, shell, line, greps, heap>>

Tokens == {"w", "|", ";", "&", "<", "(", ")"}

PartsInit ==
    /\ setup \in {"chat3", "chat2", "tcp", "udp", "udp_lossy",
                  "pipes", "background", "full", "lines", "grep", "malloc"}
    /\ Chat3!Init /\ Init /\ Malloc!Init
    /\ IF setup = "full" THEN Full!Init ELSE Pipes!Init
    /\ line \in Strings(Tokens, IF setup = "lines" THEN MaxTokens ELSE 0)
    /\ IF setup = "grep"
       THEN \/ Grep!Init(Strings({"a", ".", "*", "^", "$"}, 3),
                         {Append(s, "n") : s \in Strings({"a", "b"}, 3)})
            \/ Grep!Init({<<"a">>, <<"^", "a", "*", "$">>}, Strings({"a", "b", "n"}, 5))
       ELSE Grep!Init({<<>>}, {<<>>})

PartsNext ==
    /\ UNCHANGED <<setup, line>>
    /\ \/ /\ \/ setup = "chat3" /\ Chat3!Next
             \/ setup = "chat2" /\ Chat2!Next
          /\ UNCHANGED <<xoxo, shell, greps, heap>>
       \/ /\ \/ setup = "tcp" /\ Next
             \/ setup = "udp" /\ UdpIdeal!Next
             \/ setup = "udp_lossy" /\ UdpLossy!Next
          /\ UNCHANGED <<chat, shell, greps, heap>>
       \/ /\ \/ setup = "pipes" /\ Pipes!Next
             \/ setup = "background" /\ Backgrounds!Next
             \/ setup = "full" /\ Full!Next
          /\ UNCHANGED <<chat, xoxo, greps, heap>>
       \/ setup = "grep" /\ Grep!grep /\ UNCHANGED <<chat, xoxo, shell, heap>>
       \/ setup = "malloc" /\ Malloc!Next /\ UNCHANGED <<chat, xoxo, shell, greps>>

PartsSpec == PartsInit /\ [][PartsNext]_all

(* The users of chat2 and the machine that runs the shell; see Chunks and  *)
(* Shell.                                                                  *)
Fairness ==
    /\ \A n \in {alice, bob} :
         /\ WF_chat(setup = "chat2" /\ ( \/ Chat2!receive(n) \/ Chat2!rest(n)
                                         \/ \E k \in 1 .. 2 : Chat2!prompt(n, k) \/ Chat2!send(n, {})))
         /\ SF_chat(setup = "chat2" /\ Chat2!MayBeDue(n) # {} /\ Chat2!send(n, Chat2!MayBeDue(n)))
    /\ WF_shell(\E s \in DOMAIN proc : \/ setup = "pipes" /\ Pipes!Step(s)
                                       \/ setup = "background" /\ Backgrounds!Step(s)
                                       \/ setup = "full" /\ Full!Step(s))

FairSpec == PartsSpec /\ Fairness
-------------------------------------------------------------------------------
(* The two ends agree.  Every message printed is a whole message of the    *)
(* other side, and one that is taken to be acknowledged has been printed   *)
(* there; and where the network delivers, the server of tic-tac-toe never  *)
(* waits for a move that nobody is going to make.                          *)
EndsAgree ==
    /\ [][setup = "chat3" => Chat3!PrintedWhole' /\ Chat3!AcksOnlyArrived]_all
    /\ [](setup = "tcp" => NobodyStuck)
    /\ [](setup = "udp" => UdpIdeal!NobodyStuck)

(* Every message typed is printed by the other side in the end.            *)
Delivered == setup = "chat2" => Chat2!Delivered

(* When the shell asks for a line, the last one is done, with the results  *)
(* that it stands for; with a slot for every process that it needs.        *)
DoneAsSaid ==
    /\ setup = "pipes" => Pipes!DoneAsSaid
    /\ setup = "background" => Backgrounds!DoneAsSaid

(* The shell asks for a line again and again, even if fork() fails.        *)
PromptReturns ==
    []<>(setup \in {"pipes", "background", "full"} =>
            \E s \in DOMAIN proc : proc[s].at = "prompt")

(* The parser takes the lines of the grammar, as the grammar reads them;   *)
(* grep writes the lines that match, however read() cuts the input.        *)
LinesRead ==
    /\ setup = "lines" => FewArgs!ParsedRight(line)
    /\ setup = "grep" => Grep!GrepRight

(* The allocator neither loses a unit of memory nor gives it away twice.   *)
HeapWhole == setup = "malloc" => Malloc!HeapWhole
===============================================================================
