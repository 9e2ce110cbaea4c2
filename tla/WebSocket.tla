------------------------------ MODULE WebSocket ------------------------------
(***************************************************************************)
(* One WebSocket connection of crow (crow::websocket::Connection in        *)
(* crow_all.h): the frame reader, the frame writer, the closing handshake  *)
(* and the moment the object deletes itself.                               *)
(*                                                                         *)
(* The object belongs to one io_service run by one thread, so a completion *)
(* handler is one step; between two of them bytes arrive, the peer goes    *)
(* away, a write ends, or the application calls send_text or close.  Such  *)
(* a call runs at once on the io_service's thread and is posted, with a    *)
(* raw this, on any other.  The stream is modelled byte by byte, because a *)
(* read may end inside a frame header.                                     *)
(***************************************************************************)
EXTENDS Integers, Sequences, SequencesExt, Bitwise

CONSTANTS
    Stream,       \* the bytes the peer sends
    Stops,        \* the lengths of Stream at which the network may pause
    Farewells,    \* the lengths of Stream at which the peer may go away
    BufferSize,   \* bytes of buffer_ (4096)
    Sends,        \* how many texts the application sends of its own accord
    Closes,       \* how often the application calls close
    Answers,      \* the message handler answers every message with its text
    Stale         \* what the uninitialised mini_header_ may hold

VARIABLES
    state_, remaining_length_, mask_, mini_header_, fragment_, message_,
    is_binary_,
    is_reading,          \* an asynchronous read is outstanding
    close_connection_, has_sent_close_, has_recv_close_,
    is_close_handler_called_,
    sending_buffers_,    \* not empty: an asynchronous write is outstanding
    write_buffers_,
    object,              \* "new", "alive", "deleted"; "misused": used afterwards
    open,                \* the socket is
    arrived, pos,        \* bytes of Stream in the socket, bytes read from it
    peer,                \* "there" or "away"
    posts,               \* the calls of other threads still to be run
    got,                 \* what message_handler_ was called with
    wire,                \* the frames written to the socket
    calls                \* calls of the handlers and of the application

reader  == <<state_, remaining_length_, mask_, mini_header_, fragment_,
             message_, is_binary_, is_reading>>
flags   == <<close_connection_, has_sent_close_, has_recv_close_,
             is_close_handler_called_>>
writer  == <<sending_buffers_, write_buffers_, wire>>
network == <<arrived, pos, peer>>
vars    == <<reader, flags, writer, network, object, open, posts, got, calls>>

Opcode == [continuation |-> 0, text |-> 1, binary |-> 2, close |-> 8,
           ping |-> 9, pong |-> 10]

build_header(op, size) ==
    <<128 + op>> \o
    (IF size < 126 THEN <<size>>
     ELSE IF size < 65536 THEN <<126, size \div 256, size % 256>>
     ELSE <<127, 0, 0, 0, 0, size \div 16777216, (size \div 65536) % 256,
            (size \div 256) % 256, size % 256>>)

(* send_pong writes its two bytes itself. *)
Frame(op, text) ==
    (IF op = Opcode.pong THEN <<138, Len(text) % 256>>
     ELSE build_header(op, Len(text))) \o text

(* The four buffers of the answer to the upgrade. *)
Handshake == <<72, 84, 84, 80>>

is_FIN == mini_header_ \div 32768 = 1

opcode == (mini_header_ \div 256) % 16

Init ==
    /\ state_ = "MiniHeader" /\ remaining_length_ = 0 /\ mask_ = <<0, 0, 0, 0>>
    /\ mini_header_ \in Stale /\ fragment_ = <<>> /\ message_ = <<>>
    /\ is_binary_ \in BOOLEAN /\ is_reading = FALSE
    /\ close_connection_ = FALSE /\ has_sent_close_ = FALSE
    /\ has_recv_close_ = FALSE /\ is_close_handler_called_ = FALSE
    /\ sending_buffers_ = <<>> /\ write_buffers_ = <<>> /\ wire = <<>>
    /\ object = "new" /\ open = TRUE
    /\ arrived = 0 /\ pos = 0 /\ peer = "there"
    /\ posts = <<>> /\ got = <<>>
    /\ calls = [close |-> 0, error |-> 0, sends |-> 0, closes |-> 0]

-----------------------------------------------------------------------------
(* The operations the handlers are made of, on a record of the variables   *)
(* they share.                                                             *)

Now ==
    [sending |-> sending_buffers_, queued |-> write_buffers_,
     sentClose |-> has_sent_close_, recvClose |-> has_recv_close_,
     told |-> is_close_handler_called_, closing |-> close_connection_,
     open |-> open, object |-> object, reading |-> is_reading,
     got |-> got, calls |-> calls]

Set(c) ==
    /\ sending_buffers_' = c.sending /\ write_buffers_' = c.queued
    /\ has_sent_close_' = c.sentClose /\ has_recv_close_' = c.recvClose
    /\ is_close_handler_called_' = c.told /\ close_connection_' = c.closing
    /\ open' = c.open /\ object' = c.object /\ is_reading' = c.reading
    /\ got' = c.got /\ calls' = c.calls

(* A second write waits for the first: the queue is handed over whole. *)
do_write(c) ==
    IF c.sending # <<>> THEN c
    ELSE [c EXCEPT !.sending = c.queued, !.queued = <<>>]

send(c, op, text) == do_write([c EXCEPT !.queued = Append(@, Frame(op, text))])

close_handler_(c) == [c EXCEPT !.calls.close = @ + 1]

(* close(msg), the application's call and the answer to the peer's Close. *)
close(c, text) ==
    LET told == [c EXCEPT !.sentClose = TRUE, !.told = @ \/ c.recvClose]
    IN  send(IF c.recvClose /\ ~c.told THEN close_handler_(told) ELSE told,
             Opcode.close, text)

RudeCheck_destroy(c) ==
    [(IF c.told THEN c ELSE close_handler_(c)) EXCEPT !.object = "deleted"]

(* check_destroy: the handler is told "uncleanly", which is_close_handler_- *)
(* called_ does not record; the object goes when nothing is outstanding.    *)
check_destroy(c) ==
    LET told == IF c.told THEN c ELSE close_handler_(c)
    IN  IF c.sending = <<>> /\ ~c.reading
        THEN [told EXCEPT !.object = "deleted"] ELSE told

message_handler_(c, text, binary) ==
    LET said == [c EXCEPT !.got = Append(@, [text |-> text, binary |-> binary])]
    IN  IF Answers THEN send(said, Opcode.text, text) ELSE said

(* The error branch of the first three reads, *)
Fail(c) == check_destroy([c EXCEPT !.closing = TRUE, !.open = FALSE,
                                   !.calls.error = @ + 1])

(* and that of the last two, which leaves the object to a later write. *)
FailInFrame(c) == [c EXCEPT !.closing = TRUE, !.open = FALSE,
                            !.calls.error = @ + 1]

-----------------------------------------------------------------------------
(* The constructor: an Upgrade to something else, or a refusal of the      *)
(* accept handler, closes the socket and deletes the object; otherwise     *)
(* start() writes the answer, calls the open handler and begins to read.   *)

Construct ==
    /\ object = "new"
    /\ \E upgrade, accept_handler_ \in BOOLEAN :
          IF upgrade /\ accept_handler_
          THEN Set([do_write([Now EXCEPT !.queued = <<Handshake>>])
                       EXCEPT !.object = "alive", !.reading = TRUE])
          ELSE Set([Now EXCEPT !.open = FALSE, !.object = "deleted"])
    /\ UNCHANGED <<state_, remaining_length_, mask_, mini_header_, fragment_,
                   message_, is_binary_, wire, network, posts>>

-----------------------------------------------------------------------------
(* Reading. *)

MinOf(a, b) == IF a < b THEN a ELSE b

Available == arrived - pos

(* async_read_some gives what there is, async_read waits for all of it; a   *)
(* read of nothing ends at once, one of a closed socket fails, and one that *)
(* cannot be satisfied fails when the peer has gone.                        *)
ReadSome(n) ==
    /\ open /\ (n = 0 \/ Available > 0)
    /\ pos' = pos + MinOf(n, Available)

ReadAll(n) == open /\ Available >= n /\ pos' = pos + n

ReadFails(n) ==
    /\ ~open \/ (peer = "away" /\ Available < n)
    /\ pos' = pos

Bytes == SubSeq(Stream, pos + 1, pos')

(* mini_header_ is filled as bytes lie in memory, then swapped by ntohs. *)
Ntohs(bytes) ==
    LET memory == bytes \o SubSeq(<<mini_header_ % 256, mini_header_ \div 256>>,
                                  Len(bytes) + 1, 2)
    IN  memory[1] * 256 + memory[2]

(* A length in network order; no stream is longer than Far. *)
Far == 1000
Length(bytes) ==
    FoldLeft(LAMBDA n, b : MinOf(Far, n * 256 + b), 0, bytes)

Idle == [Now EXCEPT !.reading = FALSE]
Again == [Now EXCEPT !.reading = TRUE]        \* do_read() at the end

MiniHeader ==
    /\ object = "alive" /\ is_reading /\ state_ = "MiniHeader"
    /\ \/ ReadSome(2)
       \/ ReadFails(1)
    /\ mini_header_' = Ntohs(Bytes)
    /\ IF pos' > pos /\ (mini_header_' \div 128) % 2 = 1
       THEN /\ LET n == mini_header_' % 128 IN
               IF n = 127 THEN state_' = "Len64" /\ UNCHANGED remaining_length_
               ELSE IF n = 126
                    THEN /\ state_' = "Len16"
                         /\ remaining_length_' = 0
                    ELSE state_' = "Mask" /\ remaining_length_' = n
            /\ Set(Again)
       ELSE /\ Set(Fail(Idle))
            /\ UNCHANGED <<state_, remaining_length_>>
    /\ UNCHANGED <<mask_, fragment_, message_, is_binary_, wire, arrived, peer,
                   posts>>

(* Len16 and Len64. *)
ExtendedLength ==
    /\ object = "alive" /\ is_reading /\ state_ \in {"Len16", "Len64"}
    /\ LET n == IF state_ = "Len16" THEN 2 ELSE 8 IN
       \/ /\ ReadAll(n)
          /\ remaining_length_' = Length(Bytes)
          /\ state_' = "Mask"
          /\ Set(Again)
       \/ /\ ReadFails(n)
          /\ Set(Fail(Idle))
          /\ UNCHANGED <<state_, remaining_length_>>
    /\ UNCHANGED <<mask_, mini_header_, fragment_, message_, is_binary_, wire,
                   arrived, peer, posts>>

Mask ==
    /\ object = "alive" /\ is_reading /\ state_ = "Mask"
    /\ \/ /\ ReadAll(4)
          /\ mask_' = Bytes
          /\ state_' = "Payload"
          /\ Set(Again)
       \/ /\ ReadFails(4)
          /\ Set(FailInFrame(Idle))
          /\ UNCHANGED <<mask_, state_>>
    /\ UNCHANGED <<remaining_length_, mini_header_, fragment_, message_,
                   is_binary_, wire, arrived, peer, posts>>

(* The fragment, unmasked. *)
Unmasked(bytes) == [i \in DOMAIN bytes |-> bytes[i] ^^ mask_[((i - 1) % 4) + 1]]

(* One message frame: the text so far, whether it is delivered, the rest. *)
Deliver(c, text, binary) ==
    IF is_FIN THEN message_handler_(c, text, binary) ELSE c

WrongData(c, text) ==
    /\ is_binary_' = (opcode = Opcode.binary)
    /\ message_' = <<>>
    /\ Set([message_handler_(c, message_ \o text, opcode = Opcode.binary)
               EXCEPT !.reading = TRUE])

(* case 1 and case 2 of handle_fragment. *)
Data(c, text) ==
    /\ is_binary_' = (opcode = Opcode.binary)
    /\ message_' = IF is_FIN THEN <<>> ELSE message_ \o text
    /\ Set([Deliver(c, message_ \o text, opcode = Opcode.binary)
               EXCEPT !.reading = TRUE])

(* case 0 has no break: it goes on into case 1 with the same fragment. *)
Continuation(c, text) ==
    LET once == Deliver(c, message_ \o text, is_binary_)
        left == IF is_FIN THEN <<>> ELSE message_ \o text
    IN  /\ is_binary_' = FALSE
        /\ message_' = IF is_FIN THEN <<>> ELSE left \o text
        /\ Set([Deliver(once, left \o text, FALSE) EXCEPT !.reading = TRUE])

(* The peer's Close: answered, or the end of the handshake this side       *)
(* began.  The second deletes the object when no write is outstanding, and *)
(* the code goes on to state_ and do_read() all the same.                  *)
CloseFrame(c, text) ==
    LET heard == [c EXCEPT !.recvClose = TRUE]
        shut  == [heard EXCEPT !.open = FALSE, !.closing = TRUE, !.told = TRUE]
        ended == check_destroy(IF c.told THEN shut ELSE close_handler_(shut))
    IN  /\ IF ~c.sentClose
           THEN Set([close(heard, text) EXCEPT !.reading = TRUE])
           ELSE IF ended.object = "deleted"
                THEN Set([ended EXCEPT !.object = "misused"])
                ELSE Set([ended EXCEPT !.reading = TRUE])
        /\ UNCHANGED <<is_binary_, message_>>

Control(c, text) ==
    /\ Set([(IF opcode = Opcode.ping THEN send(c, Opcode.pong, text) ELSE c)
               EXCEPT !.reading = TRUE])
    /\ UNCHANGED <<is_binary_, message_>>

handle_fragment(c, bytes) ==
    LET text == Unmasked(bytes) IN
    CASE opcode \in {Opcode.text, Opcode.binary} -> Data(c, text)
      [] opcode = Opcode.continuation -> Continuation(c, text)
      [] opcode = Opcode.close -> CloseFrame(c, text)
      [] OTHER -> Control(c, text)

(* A payload that comes in two reads: no further read is asked for. *)
Payload ==
    /\ object = "alive" /\ is_reading /\ state_ = "Payload"
    /\ LET n == MinOf(BufferSize, remaining_length_) IN
       \/ /\ ReadSome(n)
          /\ LET bytes == fragment_ \o Bytes
                 left  == remaining_length_ - (pos' - pos) IN
             /\ remaining_length_' = left
             /\ IF left = 0
                THEN /\ handle_fragment(Idle, bytes)
                     /\ fragment_' = <<>>
                     /\ state_' = "MiniHeader"
                ELSE /\ fragment_' = bytes
                     /\ Set(Idle)
                     /\ UNCHANGED <<state_, message_, is_binary_>>
       \/ /\ ReadFails(MinOf(1, n))
          /\ Set(FailInFrame(Idle))
          /\ UNCHANGED <<remaining_length_, fragment_, state_, message_,
                         is_binary_>>
    /\ UNCHANGED <<mask_, mini_header_, wire, arrived, peer, posts>>

-----------------------------------------------------------------------------
(* Writing. *)

(* The completion of async_write: the next write, or the end. *)
Written ==
    /\ object = "alive" /\ sending_buffers_ # <<>>
    /\ \E ec \in BOOLEAN :
          /\ ec => (~open \/ peer = "away")
          /\ wire' = IF ec \/ ~open THEN wire ELSE wire \o sending_buffers_
          /\ LET idle == [Now EXCEPT !.sending = <<>>] IN
             IF ~ec /\ ~close_connection_
             THEN Set([(IF write_buffers_ # <<>> THEN do_write(idle) ELSE idle)
                          EXCEPT !.closing = has_sent_close_])
             ELSE Set(check_destroy([idle EXCEPT !.closing = TRUE]))
    /\ UNCHANGED <<state_, remaining_length_, mask_, mini_header_, fragment_,
                   message_, is_binary_, network, posts>>

(* The application uses the connection until it was told of its end: on    *)
(* the io_service's thread, where dispatch runs the call at once, or on    *)
(* another, from which dispatch posts it.                                  *)
ApplicationMay == object = "alive" /\ calls.close = 0 /\ calls.error = 0

Dispatched(c, call) ==
    IF call = "text" THEN send(c, Opcode.text, <<0>>) ELSE close(c, <<>>)

Dispatch(c, call) ==
    \/ Set(Dispatched(c, call)) /\ UNCHANGED posts
    \/ Set(c) /\ posts' = Append(posts, call)

send_text ==
    /\ ApplicationMay /\ calls.sends < Sends
    /\ Dispatch([Now EXCEPT !.calls.sends = @ + 1], "text")
    /\ UNCHANGED <<state_, remaining_length_, mask_, mini_header_, fragment_,
                   message_, is_binary_, wire, network>>

ApplicationCloses ==
    /\ ApplicationMay /\ calls.closes < Closes
    /\ Dispatch([Now EXCEPT !.calls.closes = @ + 1], "close")
    /\ UNCHANGED <<state_, remaining_length_, mask_, mini_header_, fragment_,
                   message_, is_binary_, wire, network>>

(* The io_service runs a posted call, whatever became of the object.       *)
RunPosted ==
    /\ posts # <<>> /\ object \in {"alive", "deleted"}
    /\ IF object = "alive"
       THEN Set(Dispatched(Now, Head(posts))) /\ posts' = Tail(posts)
       ELSE Set([Now EXCEPT !.object = "misused"]) /\ UNCHANGED posts
    /\ UNCHANGED <<state_, remaining_length_, mask_, mini_header_, fragment_,
                   message_, is_binary_, wire, network>>

-----------------------------------------------------------------------------
(* The network and the peer. *)

Arrive ==
    /\ peer = "there"
    /\ \E n \in Stops : n > arrived /\ arrived' = n
    /\ UNCHANGED <<reader, flags, writer, pos, peer, object, open, posts,
                   got, calls>>

PeerLeaves ==
    /\ peer = "there" /\ arrived \in Farewells
    /\ peer' = "away"
    /\ UNCHANGED <<reader, flags, writer, arrived, pos, object, open, posts,
                   got, calls>>

Reads == MiniHeader \/ ExtendedLength \/ Mask \/ Payload

Next ==
    \/ Construct
    \/ MiniHeader
    \/ ExtendedLength
    \/ Mask
    \/ Payload
    \/ Written
    \/ send_text
    \/ ApplicationCloses
    \/ RunPosted
    \/ Arrive
    \/ PeerLeaves

(* The io_service runs every completion; the peer leaves in the end. *)
Spec == /\ Init /\ [][Next]_vars
        /\ WF_vars(Construct) /\ WF_vars(Reads) /\ WF_vars(Written)
        /\ WF_vars(RunPosted)
        /\ WF_vars(Arrive) /\ WF_vars(PeerLeaves)

-----------------------------------------------------------------------------
(* Properties *)

(* The type of the state: what the reader, the writer and the handlers can hold. *)
TypeOK ==
    /\ state_ \in {"MiniHeader", "Len16", "Len64", "Mask", "Payload"}
    /\ remaining_length_ \in 0..Far
    /\ Len(mask_) = 4 /\ mini_header_ \in 0..65535
    /\ is_reading \in BOOLEAN /\ is_binary_ \in BOOLEAN /\ open \in BOOLEAN
    /\ object \in {"new", "alive", "deleted", "misused"}
    /\ pos \in 0..arrived /\ arrived \in 0..Len(Stream)

(* check_destroy deletes the object only when no completion of a read or a *)
(* write can still run on it, whatever order reads, writes and the closes  *)
(* of both sides end in.  Only two things touch the object after it is     *)
(* gone: the handler of the Close that ends the handshake, which deletes   *)
(* the object and goes on with it (crow_all.h:7042, 7058, 6956), and a     *)
(* call another thread posted before it was told of the end (6717, 6727).  *)
NothingRunsOnTheDeleted ==
    /\ object = "deleted" => ~is_reading /\ sending_buffers_ = <<>>
    /\ object = "misused" => \/ has_sent_close_ /\ has_recv_close_
                             \/ posts # <<>>

(* Every frame handed to the connection is written whole, once and in the  *)
(* order of the calls, however the writes and the calls overlap; the       *)
(* pongs' texts show which ping each answers.                              *)
Outgoing == wire \o sending_buffers_ \o write_buffers_
OrderKept == \/ IsPrefix(Outgoing, Outgoing')
             \/ ~open' \/ peer = "away"
OutgoingKeepsItsOrder == [][OrderKept]_vars

(* A connection that is alive and asks for no more bytes has stalled in the *)
(* middle of a frame, as the code does when a payload comes in two reads or *)
(* a read inside a frame fails (crow_all.h:6953, 6930-6936), or waits for   *)
(* the write that will delete it: no other path forgets to read.            *)
OnlyAFrameIsAbandoned ==
    object = "alive" /\ ~is_reading =>
        \/ state_ \in {"Mask", "Payload"} /\ (close_connection_ \/ remaining_length_ > 0)
        \/ close_connection_ /\ sending_buffers_ # <<>>

(* An opened connection is never deleted behind the application's back: the *)
(* close handler was called first.                                          *)
ToldBeforeDeleted ==
    object \in {"deleted", "misused"} /\ Outgoing # <<>> => calls.close > 0
=============================================================================
