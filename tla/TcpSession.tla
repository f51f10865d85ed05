------------------------------ MODULE TcpSession ------------------------------
(***************************************************************************)
(* One TCP connection: the bytes a client sends, the stream buffer they    *)
(* are read into, the handler that cuts them into lines, and the write     *)
(* loop that returns the replies.  The handlers of a session run one after *)
(* the other, since its io_service has one thread.                         *)
(*                                                                         *)
(* A cell stands for one or more bytes of a line: the last one is the      *)
(* newline, and on an ingest connection the one before it is the space     *)
(* with all that follows and the others are the key.                       *)
(***************************************************************************)
EXTENDS Integers, Sequences, FiniteSetsExt, SequencesExt

CONSTANTS
    Size,       \* cells of each line
    Known,      \* lines that start with one of the five prefixes
    Quits,      \* lines that are the command q
    ReplyLen,   \* cells of a reply
    SendSpace   \* cells the socket takes before the client has read some

Lines == DOMAIN Size

ASSUME SessionAssumption ==
    /\ Size \in Seq(Nat \ {0, 1}) /\ Len(Size) > 0
    /\ Known \subseteq Lines /\ Quits \subseteq Lines
    /\ ReplyLen \in Nat \ {0} /\ SendSpace \in Nat \ {0}

VARIABLES
    client,   \* what connects: a relay, a client that waits for each reply, or
              \* for what comes of it, before it sends the next command, or
              \* one that does not
    sent,     \* number of lines sent
    eof,      \* the client will send no more
    wire,     \* cells on their way to the server
    torn,     \* history: a read has ended where older bytes may complete a command
    open,     \* the server has not closed the socket
    mem,      \* memory of the read buffer, as far as it was ever written
    get, put, \* how much of it was consumed, and how much was read
    slack,    \* bytes the buffer is longer than BUF_SIZE
    ran,      \* history: the texts handed to runCmd
    heard,    \* history: the keys handed to buildTree
    wbuf,     \* m_write_buf_stream
    queued,   \* writes that wait for room: the memory each of them points to
    done,     \* writes with handle_write still to come
    answer,   \* history: the cells the socket took
    taken     \* number of them the client has read

input  == <<client, sent, eof>>
buffer == <<mem, get, put, slack>>
output == <<wbuf, queued, done, answer>>
vars == <<input, wire, torn, open, buffer, ran, heard, output, taken>>
-----------------------------------------------------------------------------
Text(n) == [i \in 1 .. Size[n] |-> [line |-> n, at |-> i]]
Key(n)  == SubSeq(Text(n), 1, Size[n] - 2)
Reply(n) == [i \in 1 .. ReplyLen |-> [line |-> n, at |-> i]]

\* What the socket takes of a reply when nothing else is on its way.
Fitting(n) == SubSeq(Reply(n), 1, Min({ReplyLen, SendSpace}))

Newline(cell) == cell.at = Size[cell.line]
Space(cell)   == cell.at = Size[cell.line] - 1

StartsKnown(text) == text[1].line \in Known /\ text[1].at = 1

\* Where a text has its newlines, and the text up to the first one.
Newlines(text) == {i \in DOMAIN text : Newline(text[i])}
FirstLine(text) == SubSeq(text, 1, Min(Newlines(text)))

Init ==
    /\ client \in {"relay", "waits", "pipelines"}
    /\ sent = 0 /\ eof = FALSE
    /\ wire = <<>> /\ torn = FALSE
    /\ open = TRUE
    /\ mem = <<>> /\ get = 0 /\ put = 0 /\ slack = 0
    /\ ran = <<>> /\ heard = <<>>
    /\ wbuf = <<>> /\ queued = <<>> /\ done = 0
    /\ answer = <<>> /\ taken = 0
-----------------------------------------------------------------------------
(***************************************************************************)
(* The client.                                                             *)
(***************************************************************************)
\* A client that waits for a reply longer than the socket takes at once gives up
\* in the end and goes on.
SendLine ==
    /\ ~eof /\ sent < Len(Size)
    /\ client = "waits" => taken >= Len(Fitting(sent)) * sent
    /\ sent' = sent + 1
    /\ wire' = wire \o Text(sent + 1)
    /\ UNCHANGED <<client, eof, torn, open, buffer, ran, heard, output, taken>>

Hangup ==
    /\ ~eof
    /\ eof' = TRUE
    /\ UNCHANGED <<client, sent, wire, torn, open, buffer, ran, heard, output, taken>>

TakeReply ==
    /\ taken < Len(answer)
    /\ \E n \in taken + 1 .. Len(answer) : taken' = n
    /\ UNCHANGED <<input, wire, torn, open, buffer, ran, heard, output>>
-----------------------------------------------------------------------------
(***************************************************************************)
(* The read buffer.  Reading puts cells behind those that were read; the   *)
(* memory behind them keeps what was there before.                         *)
(***************************************************************************)
Filled(chunk) ==
    SubSeq(mem, 1, put) \o chunk \o SubSeq(mem, put + Len(chunk) + 1, Len(mem))

\* peek(): a C string, so not only what was read but all that is in memory.
Peeked(m) == SubSeq(m, get + 1, Len(m))

\* Mutant: the get pointer is not moved with what is left.
PrepareKeepGet(m, g, p) ==
    /\ mem' = SubSeq(m, g + 1, p) \o SubSeq(m, p - g + 1, Len(m))
    /\ get' = g
    /\ put' = p - g
    /\ slack' = slack

\* consume() moved the get pointer to g; prepare() for the next read moves what
\* is left to the front, unless there is room enough behind it.
Prepare(m, g, p) ==
    IF p <= slack
    THEN mem' = m /\ get' = g /\ put' = p /\ slack' = slack
    ELSE /\ mem' = SubSeq(m, g + 1, p) \o SubSeq(m, p - g + 1, Len(m))
         /\ get' = 0
         /\ put' = p - g
         /\ slack' = Max({slack, p - g})
-----------------------------------------------------------------------------
(***************************************************************************)
(* Replies.                                                                *)
(***************************************************************************)
Room == SendSpace - (Len(answer) - taken)

\* async_write_some of what wbuf holds: sent at once as far as there is room,
\* unless there is none or another write waits already.  What does not fit is
\* not sent later: the caller has dropped it from wbuf by then.
Written(text) ==
    IF queued = <<>> /\ Room > 0
    THEN /\ answer' = answer \o SubSeq(text, 1, Min({Len(text), Room}))
         /\ done' = done + 1
         /\ queued' = queued
    ELSE /\ \E earlier \in {queued, [i \in DOMAIN queued |-> text]} :
               queued' = Append(earlier, text)
         /\ UNCHANGED <<answer, done>>

\* Mutant: the reply stays in the buffer.
WriteKeeping(text) ==
    /\ Written(wbuf \o text)
    /\ wbuf' = wbuf \o text

\* The reply is dropped from the buffer right after the write was started; the
\* next reply may take the memory of one that still waits.
Write(text) ==
    /\ Written(wbuf \o text)
    /\ wbuf' = <<>>
-----------------------------------------------------------------------------
(***************************************************************************)
(* Handlers.                                                               *)
(***************************************************************************)
\* Mutant: what is before the first newline is taken as well.
BodyFromStart(text) ==
    LET ends == Newlines(text)
    IN  IF Len(text) <= 1 \/ ends = {} THEN <<>> ELSE SubSeq(text, 1, Max(ends))

\* Mutant: the last newline is left off.
BodyShort(text) ==
    LET ends == Newlines(text)
    IN  IF Len(text) <= 1 \/ ends = {} THEN <<>>
        ELSE IF Cardinality(ends) = 1
             THEN IF StartsKnown(text) THEN FirstLine(text) ELSE <<>>
             ELSE SubSeq(text, Min(ends) + 1, Max(ends) - 1)

\* What echo_handle_read looks at of a packet: a single line if its prefix is
\* known, else what is between the first and the last newline.
Body(text) ==
    LET ends == Newlines(text)
    IN  IF Len(text) <= 1 \/ ends = {} THEN <<>>
        ELSE IF Cardinality(ends) = 1
             THEN IF StartsKnown(text) THEN FirstLine(text) ELSE <<>>
             ELSE SubSeq(text, Min(ends) + 1, Max(ends))

\* What a line has before its first space; nothing if it has no space.
KeyOf(line) ==
    LET spaces == {i \in DOMAIN line : Space(line[i])}
    IN  IF spaces = {} THEN <<>> ELSE SubSeq(line, 1, Min(spaces) - 1)

\* The line that ends at newline i of a packet's body, without its newline.
LineTo(body, i) ==
    SubSeq(body, Max({0} \cup {j \in Newlines(body) : j < i}) + 1, i - 1)

\* The keys of the lines that end in a packet's body, but for those too short.
Keys(text) ==
    LET body == Body(text)
        key(i) == KeyOf(LineTo(body, i))
    IN  FlattenSeq([i \in DOMAIN body |->
            IF Newline(body[i]) /\ key(i) # <<>> THEN <<key(i)>> ELSE <<>>])

Close ==
    /\ open' = FALSE
    /\ queued' = <<>>

\* An ingest connection: all that was read is used or dropped at once.
HandlePacket(chunk) ==
    /\ heard' = heard \o Keys(chunk)
    /\ Prepare(Filled(chunk), put + Len(chunk), put + Len(chunk))
    /\ UNCHANGED <<open, ran, output>>

IsLine(text) == \E n \in Lines : text = Text(n)
IsQuit(text) == \E n \in Quits : text = Text(n)

\* What a command does to the connection: a reply or a close.  A text that is
\* no line that was sent may read like any command; if like none, nobody replies.
Run(text) ==
    /\ ran' = Append(ran, text)
    /\ \/ /\ IsQuit(text) \/ ~IsLine(text)
          /\ Close /\ UNCHANGED <<wbuf, done, answer>>
       \/ /\ ~IsQuit(text)
          /\ Write(Reply(text[1].line)) /\ open' = open
       \/ /\ ~IsLine(text)
          /\ UNCHANGED <<open, output>>

\* Mutant: all that was read is dropped with the command.
HandleCommandDropsAll(chunk) ==
    LET m == Filled(chunk)
        p == put + Len(chunk)
    IN  /\ IF Newlines(Peeked(m)) = {}
           THEN Prepare(m, get, p) /\ UNCHANGED <<open, ran, output>>
           ELSE Run(FirstLine(Peeked(m))) /\ Prepare(m, p, p)
        /\ UNCHANGED heard

\* Mutant: the newline is looked for before the bytes are there.
HandleCommandLate(chunk) ==
    LET m == Filled(chunk)
        p == put + Len(chunk)
    IN  /\ IF {} \in {Newlines(Peeked(mem)), Newlines(Peeked(m))}
           THEN Prepare(m, get, p) /\ UNCHANGED <<open, ran, output>>
           ELSE LET text == FirstLine(Peeked(m))
                IN  /\ Run(text)
                    /\ Prepare(m, Min({get + Len(text), p}), p)
        /\ UNCHANGED heard

\* A command connection: the first line of what peek() shows is run, at most
\* one per read, and dropped as far as it was read.
HandleCommand(chunk) ==
    LET m == Filled(chunk)
        p == put + Len(chunk)
    IN  /\ IF Newlines(Peeked(m)) = {}
           THEN Prepare(m, get, p) /\ UNCHANGED <<open, ran, output>>
           ELSE LET text == FirstLine(Peeked(m))
                IN  /\ Run(text)
                    /\ Prepare(m, Min({get + Len(text), p}), p)
        /\ UNCHANGED heard

\* Cells of the lines before line n.
Before[n \in 1 .. Len(Size) + 1] == IF n = 1 THEN 0 ELSE Before[n - 1] + Size[n - 1]

\* TCP may end what one read returns anywhere.  In the middle of a command this
\* is harmless behind as many bytes as all commands before it on this connection
\* had together: peek() finds none of theirs behind it.
Harmless(cell) ==
    \/ client = "relay"
    \/ Newline(cell)
    \/ Before[cell.line] <= cell.at

Receive ==
    /\ open
    /\ \E k \in 1 .. Len(wire) :
          /\ wire' = SubSeq(wire, k + 1, Len(wire))
          /\ torn' = (torn \/ ~Harmless(wire[k]))
          /\ LET chunk == SubSeq(wire, 1, k)
             IN  IF client = "relay" THEN HandlePacket(chunk) ELSE HandleCommand(chunk)
    /\ UNCHANGED <<input, taken>>

\* The read ends with an error.
ReceiveEof ==
    /\ open /\ eof /\ wire = <<>>
    /\ Close
    /\ UNCHANGED <<input, wire, torn, buffer, ran, heard, wbuf, done, answer, taken>>

\* A write that waited is sent, with what its memory holds by now.
SendQueued ==
    /\ queued # <<>> /\ Room > 0
    /\ answer' = answer \o SubSeq(Head(queued), 1, Min({Len(Head(queued)), Room}))
    /\ queued' = Tail(queued)
    /\ done' = done + 1
    /\ UNCHANGED <<input, wire, torn, open, buffer, ran, heard, wbuf, taken>>

\* handle_write starts the next write.  That of an empty buffer completes at
\* once and starts another one, for ever and also after close; as it changes
\* nothing it is left out.
HandleWrite ==
    /\ done > 0
    /\ IF wbuf = <<>>
       THEN done' = done - 1 /\ UNCHANGED <<answer, queued>>
       ELSE Written(wbuf)
    /\ UNCHANGED <<input, wire, torn, open, buffer, ran, heard, wbuf, taken>>

Next ==
    \/ SendLine \/ Hangup \/ TakeReply
    \/ Receive \/ ReceiveEof \/ SendQueued \/ HandleWrite

Spec == Init /\ [][Next]_vars

\* The io thread serves its handlers in turn, and a client that waits reads.
FairSpec == Spec /\ WF_vars(Receive) /\ WF_vars(HandleWrite) /\ WF_vars(TakeReply)
-----------------------------------------------------------------------------
Cells == UNION {ToSet(Text(n)) \cup ToSet(Reply(n)) : n \in Lines}

\* Every variable keeps its type; the buffer pointers are in order.
TypeOK ==
    /\ client \in {"relay", "waits", "pipelines"}
    /\ sent \in 0 .. Len(Size) /\ eof \in BOOLEAN /\ open \in BOOLEAN /\ torn \in BOOLEAN
    /\ ToSet(wire) \subseteq Cells /\ ToSet(mem) \subseteq Cells
    /\ get \in 0 .. put /\ put \in 0 .. Len(mem) /\ slack \in Nat
    /\ wbuf \in Seq(Cells) /\ done \in Nat
    /\ taken \in 0 .. Len(answer)

\* The first command of a connection is run as it was sent, however TCP cuts it.
\* The later ones are as well, in order and each at most once, although peek()
\* shows bytes of earlier ones behind those that were read, as long as no read
\* ends in the first bytes of one, before all that peek() may still find.
RanAsSent ==
    \A i \in DOMAIN ran : i = 1 \/ ~torn => i <= sent /\ ran[i] = Text(i)

\* Readme:11-13: the answer is that of the command which the client has sent, so
\* whatever is run is a line that it sent.
OnlySentRun == \A i \in DOMAIN ran : IsLine(ran[i])

\* The replies to the commands that were run.
Answering == Cardinality(DOMAIN ran \ Quits)

\* A client that waits for its replies gets each of them in order and once, from
\* its start, although every completed write starts another one; of a reply that
\* is longer than the socket takes at once the rest is lost.  As above, no read
\* may have ended where older bytes complete a command.
RepliesOnce ==
    client = "waits" /\ ~torn => answer = FlattenSeq([i \in 1 .. Answering |-> Fitting(i)])

\* A client that waits for its replies gets them, also when it has shut down its
\* side after the last command, unless a read ended where older bytes complete a
\* command: then two fragments may be run, and neither be answered.
Answered ==
    \A n \in Lines \ Quits :
        (client = "waits" /\ sent = n) ~> torn \/ Len(Fitting(n)) * n <= taken

\* Whatever way TCP cuts the packets, buildTree is given whole keys only, of
\* lines that were sent, in order and each at most once.
WholeKeys ==
    /\ \A i \in DOMAIN heard : heard[i] # <<>> /\ heard[i] = Key(heard[i][1].line)
    /\ \A i, j \in DOMAIN heard : i < j => heard[i][1].line < heard[j][1].line

\* The packet of this step, and the lines with a key it holds whole.
Packet == SubSeq(wire, 1, Len(wire) - Len(wire'))
WholeLines(text) == {n \in Lines : Key(n) # <<>> /\ ToSet(Text(n)) \subseteq ToSet(text)}
Reads == client = "relay" /\ Len(wire') < Len(wire)
Heard(n) == \E i \in DOMAIN heard' : heard'[i] = Key(n)

\* A packet costs no more than its first and its last line: what is whole
\* between them is reported, and so is a single line with a known prefix.
InnerLinesHeard ==
    [][Reads => \A n \in WholeLines(Packet) :
          \/ Heard(n)
          \/ Packet[1].line = n /\ (n \notin Known \/ Cardinality(Newlines(Packet)) > 1)]_vars
=============================================================================
