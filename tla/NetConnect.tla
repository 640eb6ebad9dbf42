------------------------------ MODULE NetConnect ------------------------------
(***************************************************************************)
(* A websocket connection of the client, byte by byte: the buffers a       *)
(* message is written to (net_wtr, ws_wtr), how they are sent piece by     *)
(* piece (poll_send), how received pieces are put together and parsed      *)
(* (poll_recv, ws_parser), and the handshake before that (ws_connect).     *)
(*                                                                         *)
(* The peer sends the frames of Script after its handshake reply, frame 0. *)
(* A byte of a frame is <<frame, position>>; the parser reads the header   *)
(* of a frame only where the bytes it needs have arrived.  TCP delivers    *)
(* the bytes in order, in pieces of any size; a connection may break, and  *)
(* is then made again.                                                     *)
(***************************************************************************)
EXTENDS Integers, Sequences

CONSTANTS
    Script,        \* the peer's frames: [op, fin, hdr, pay], sizes of header and payload
    Reply,         \* its handshake reply: [status, hdr], bytes to the end of a line
    buf_len,       \* most bytes of one recv
    net_buf_len,   \* net_buf::len: 1270 in the code
    OutSizes,      \* sizes of the messages the client writes
    MaxOut,        \* bound: messages the client writes
    MaxBreaks      \* bound: connections that break

\* A header fits a buffer, and the status line is a part of the reply.
ASSUME NetAssumption ==
    /\ buf_len \in Nat \ {0} /\ net_buf_len \in Nat /\ net_buf_len >= 6
    /\ OutSizes \subseteq Nat
    /\ Reply.hdr \in Nat /\ Reply.status \in 1 .. Reply.hdr

VARIABLES
    fsent,         \* frames the peer has sent
    sent,          \* history: the messages they make up
    inwire,        \* bytes on their way to the client
    np_,           \* the connection's parser: init (handshake) or ws; or lost:
                   \* ws, given bytes of the handshake reply to parse
    pc,            \* recv, or parse: the loop in poll_recv
    rdr_, idx, rsz_,
    msg_,          \* frames of a message not yet complete
    delivered,     \* messages given to parse_msg: the frames they came in
    whd_, wsz_,    \* buffers to send, and how much of the first is sent
    outwire,       \* bytes the peer has got
    queued,        \* history: sizes of the messages written
    breaks,
    left           \* history: msg_ when the last connection broke

inVars == <<np_, pc, rdr_, idx, rsz_, msg_, delivered>>
outVars == <<whd_, wsz_, outwire, queued>>
vars == <<fsent, sent, inwire, inVars, outVars, breaks, left>>

Total(f) == IF f = 0 THEN Reply.hdr ELSE Script[f].hdr + Script[f].pay
BytesOf(f) == [i \in 1 .. Total(f) |-> <<f, i>>]

-----------------------------------------------------------------------------
(* Writing *)

\* A client frame has 2 bytes of header and 4 of mask.
HdrSize == 6

\* net_wtr::add fills the buffers one after the other; there is at least one.
Chunks(bytes) ==
    IF bytes = <<>> THEN <<bytes>> ELSE
    [k \in 1 .. (Len(bytes) + net_buf_len - 1) \div net_buf_len |->
        SubSeq(bytes, (k - 1) * net_buf_len + 1,
               IF k * net_buf_len < Len(bytes) THEN k * net_buf_len ELSE Len(bytes))]

\* net_wtr::add( net_wtr& ): the first buffer is copied when it fits.
AppendBufs(hdr, bufs) ==
    IF Len(hdr) + Len(bufs[1]) <= net_buf_len
    THEN <<hdr \o bufs[1]>> \o Tail(bufs)
    ELSE <<hdr>> \o bufs

\* Mutant: the header's size is skipped in every buffer.
MaskEverySkips(bufs) ==
    [k \in DOMAIN bufs |-> [i \in DOMAIN bufs[k] |->
        IF i <= HdrSize THEN bufs[k][i]
        ELSE [bufs[k][i] EXCEPT !.key = (i - HdrSize - 1) % 4]]]

\* The sizes of the first k buffers together.
UpToBuf(bufs) ==
    LET n[k \in 0 .. Len(bufs)] == IF k = 0 THEN 0 ELSE n[k - 1] + Len(bufs[k])
    IN  n

\* The mask is applied buffer by buffer, after the header in the first one;
\* the position in the mask goes on from buffer to buffer.
Mask(bufs) ==
    [k \in DOMAIN bufs |-> [i \in DOMAIN bufs[k] |->
        IF k = 1 /\ i <= HdrSize THEN bufs[k][i]
        ELSE [bufs[k][i] EXCEPT !.key = (UpToBuf(bufs)[k - 1] + i - 1 - HdrSize) % 4]]]

\* ws_wtr::commit of message m: a byte is [msg, pos, key], its mask's position.
Frame(m, size) ==
    LET byte(i) == [msg |-> m, pos |-> i, key |-> -1]
        hdr == [i \in 1 .. HdrSize |-> byte(i)]
        body == [i \in 1 .. size |-> byte(HdrSize + i)]
    IN  Mask(AppendBufs(hdr, Chunks(body)))

\* add_send
Write(size) ==
    /\ Len(queued) < MaxOut
    /\ queued' = Append(queued, size)
    /\ whd_' = whd_ \o Frame(Len(queued'), size)
    /\ UNCHANGED <<fsent, sent, inwire, inVars, wsz_, outwire, breaks, left>>

\* One send of poll_send takes n bytes of the first buffer.
PollSend(n) ==
    /\ pc = "recv" /\ whd_ # <<>> /\ n \in 1 .. Len(Head(whd_)) - wsz_
    /\ outwire' = outwire \o SubSeq(Head(whd_), wsz_ + 1, wsz_ + n)
    /\ IF wsz_ + n = Len(Head(whd_))
         THEN whd_' = Tail(whd_) /\ wsz_' = 0
         ELSE wsz_' = wsz_ + n /\ UNCHANGED whd_
    /\ UNCHANGED <<fsent, sent, inwire, inVars, queued, breaks, left>>

-----------------------------------------------------------------------------
(* Reading *)

\* The first n frames as the peer means them: the frames of each message that
\* is complete (whole), and those of one that is not (open).
IsData(f) == Script[f].op \in {"text", "cont"}
Meant ==
    LET m[n \in 0 .. Len(Script)] ==
            IF n = 0 THEN [whole |-> <<>>, open |-> <<>>]
            ELSE IF ~ IsData(n) THEN m[n - 1]
            ELSE IF Script[n].fin
                 THEN [whole |-> Append(m[n - 1].whole, Append(m[n - 1].open, n)), open |-> <<>>]
                 ELSE [whole |-> m[n - 1].whole, open |-> Append(m[n - 1].open, n)]
    IN  m
Messages(n) == Meant[n].whole

\* The peer keeps to the protocol: a text frame begins a message and
\* continuation frames follow it, with control frames anywhere.
ASSUME ScriptAssumption ==
    /\ Script \in Seq([op : {"text", "cont", "ping", "pong", "close"}, fin : BOOLEAN,
                        hdr : Nat \ {0, 1}, pay : Nat])
    /\ \A f \in DOMAIN Script :
          IsData(f) => (Script[f].op = "text" <=> Meant[f - 1].open = <<>>)

\* What the client makes of them: the frames left by the connection before
\* are taken for the start of the first message in several frames.
Received(n) ==
    LET ms == Messages(n)
        split(k) == Len(ms[k]) > 1 /\ \A j \in 1 .. k - 1 : Len(ms[j]) = 1
    IN  [k \in DOMAIN ms |-> IF split(k) THEN left \o ms[k] ELSE ms[k]]

\* The peer answers the handshake, then sends its frames.
PeerSend ==
    /\ fsent < Len(Script)
    /\ fsent' = fsent + 1
    /\ inwire' = inwire \o BytesOf(fsent')
    /\ sent' = Received(fsent')
    /\ UNCHANGED <<inVars, outVars, breaks, left>>

\* recv of n bytes.
Recv(n) ==
    /\ pc = "recv"
    /\ n \in 1 .. buf_len /\ n <= Len(inwire)
    /\ np_ # "lost"
    /\ rdr_' = SubSeq(rdr_, 1, rsz_) \o SubSeq(inwire, 1, n)
    /\ rsz_' = rsz_ + n /\ idx' = 0 /\ pc' = "parse"
    /\ inwire' = SubSeq(inwire, n + 1, Len(inwire))
    /\ UNCHANGED <<fsent, sent, np_, msg_, delivered, outVars, breaks, left>>

\* What the parser is given.
Unparsed == SubSeq(rdr_, idx + 1, idx + rsz_)

\* The bytes start with a frame, of which enough has arrived.
AtFrame == Unparsed # <<>> /\ Unparsed[1][1] > 0 /\ Unparsed[1][2] = 1
Current == Script[Unparsed[1][1]]

\* ws_parser::parse: the length field, the mask and the payload are there.
WholeFrame == AtFrame /\ rsz_ >= 2 /\ rsz_ >= Current.hdr /\ rsz_ >= Total(Unparsed[1][1])

\* parse returns true: res bytes are done with.
Consume(res) == idx' = idx + res /\ rsz_' = rsz_ - res

\* Mutant: the frames of a message are kept after it was given to parse_msg.
OnFrameKeeps(f) ==
    IF Script[f].op \in {"text", "cont"}
    THEN IF Script[f].fin
         THEN /\ delivered' = Append(delivered, IF Script[f].op = "text" THEN <<f>> ELSE Append(msg_, f))
              /\ msg_' = IF Script[f].op = "cont" THEN Append(msg_, f) ELSE msg_
         ELSE msg_' = Append(msg_, f) /\ UNCHANGED delivered
    ELSE UNCHANGED <<delivered, msg_>>

\* A frame of a message in several frames is kept until its last one; a
\* message in one frame goes straight to parse_msg.
OnFrame(f) ==
    LET op == Script[f].op
        whole == IF op = "text" THEN <<f>> ELSE Append(msg_, f)
    IN  CASE op \in {"text", "cont"} /\ Script[f].fin ->
                /\ delivered' = Append(delivered, whole)
                /\ msg_' = IF op = "cont" THEN <<>> ELSE msg_
          [] op \in {"text", "cont"} /\ ~ Script[f].fin ->
                msg_' = Append(msg_, f) /\ UNCHANGED delivered
          [] OTHER -> UNCHANGED <<delivered, msg_>>

\* A ping is answered with its payload, a close with an empty frame.
Answers(f) == Script[f].op \in {"ping", "close"} /\ Len(queued) < MaxOut
AnswerSize(f) == IF Script[f].op = "ping" THEN Script[f].pay ELSE 0

ParseWs ==
    /\ pc = "parse" /\ np_ = "ws" /\ WholeFrame
    /\ LET f == Unparsed[1][1]
       IN  /\ OnFrame(f)
           /\ Consume(Total(f))
           /\ IF Answers(f)
                THEN /\ queued' = Append(queued, AnswerSize(f))
                     /\ whd_' = whd_ \o Frame(Len(queued'), AnswerSize(f))
                ELSE UNCHANGED <<queued, whd_>>
    /\ UNCHANGED <<fsent, sent, inwire, np_, pc, rdr_, wsz_, outwire, breaks, left>>

\* http_client::parse of the handshake reply.  parse_status switches to the
\* websocket parser as soon as the status line is there; the reply is
\* consumed only when all of it is, so a reply cut after its status line is
\* left for the websocket parser, which then has lost its place.
ParseReply ==
    /\ pc = "parse" /\ np_ = "init"
    /\ rsz_ >= Reply.status
    /\ IF rsz_ >= Reply.hdr
         THEN np_' = "ws" /\ Consume(Reply.hdr) /\ UNCHANGED <<pc, rdr_>>
         ELSE np_' = "lost" /\ pc' = "recv" /\ UNCHANGED <<rdr_, idx, rsz_>>
    /\ UNCHANGED <<fsent, sent, inwire, msg_, delivered, outVars, breaks, left>>

\* Mutant: the bytes left are not moved to the start of the buffer.
ParseMoreInPlace ==
    /\ pc = "parse"
    /\ IF np_ = "init" THEN rsz_ < Reply.status ELSE ~ WholeFrame
    /\ pc' = "recv"
    /\ idx' = 0
    /\ UNCHANGED <<fsent, sent, inwire, np_, rdr_, rsz_, msg_, delivered, outVars, breaks, left>>

\* parse returns false, or nothing is left: the bytes left move to the start.
ParseMore ==
    /\ pc = "parse"
    /\ IF np_ = "init" THEN rsz_ < Reply.status ELSE ~ WholeFrame
    /\ pc' = "recv"
    /\ rdr_' = Unparsed /\ idx' = 0
    /\ UNCHANGED <<fsent, sent, inwire, np_, rsz_, msg_, delivered, outVars, breaks, left>>

\* The connection breaks: teardown drops the buffers, and init starts a new
\* handshake.  The frames of an unfinished message stay in the parser.
Break ==
    /\ pc = "recv" /\ breaks < MaxBreaks
    /\ breaks' = breaks + 1
    /\ fsent' = 0 /\ sent' = <<>> /\ inwire' = BytesOf(0)
    /\ np_' = "init" /\ rdr_' = <<>> /\ idx' = 0 /\ rsz_' = 0
    /\ delivered' = <<>> /\ left' = msg_
    /\ whd_' = <<>> /\ wsz_' = 0 /\ outwire' = <<>> /\ queued' = <<>>
    /\ UNCHANGED <<pc, msg_>>

-----------------------------------------------------------------------------
Init ==
    /\ fsent = 0 /\ sent = <<>> /\ inwire = BytesOf(0)
    /\ np_ = "init" /\ pc = "recv"
    /\ rdr_ = <<>> /\ idx = 0 /\ rsz_ = 0
    /\ msg_ = <<>> /\ delivered = <<>>
    /\ whd_ = <<>> /\ wsz_ = 0 /\ outwire = <<>> /\ queued = <<>>
    /\ breaks = 0 /\ left = <<>>

Next ==
    \/ PeerSend
    \/ \E n \in 1 .. buf_len : Recv(n)
    \/ ParseWs \/ ParseReply \/ ParseMore
    \/ \E size \in OutSizes : Write(size)
    \/ \E n \in 1 .. net_buf_len : PollSend(n)
    \/ Break

Spec == Init /\ [][Next]_vars

-----------------------------------------------------------------------------
(* Properties *)

Channel == INSTANCE MsgChannel

\* "parse inbound fragmented messages from streaming protocols"
\* (net_socket.hpp): however the bytes are cut up by recv, messages come out
\* whole, once and in order, each connection starting afresh but for the
\* frames left in the parser.
InOrder == Channel!Spec

\* poll_recv parses all that has arrived: once it has read everything, every
\* message the peer completed was given to parse_msg.
NothingHeldBack ==
    inwire = <<>> /\ pc = "recv" /\ np_ # "lost" => delivered = sent

\* The peer can read the frames ws_wtr and poll_send put on the wire: their
\* bytes come in order and once, and each byte of a payload is masked with
\* its own byte of the key, across the buffers.
Follows(b, a) ==
    \/ b.msg = a.msg /\ b.pos = a.pos + 1
    \/ b.msg = a.msg + 1 /\ b.pos = 1 /\ a.pos = HdrSize + queued[a.msg]
FramesReadable ==
    \A k \in DOMAIN outwire :
        LET b == outwire[k]
        IN  /\ IF k = 1 THEN b.msg = 1 /\ b.pos = 1 ELSE Follows(b, outwire[k - 1])
            /\ b.key = IF b.pos <= HdrSize THEN -1 ELSE (b.pos - HdrSize - 1) % 4

\* Both directions of a connection: poll_recv holds no complete message back,
\* and what poll_send puts on the wire can be read.
StreamSound == NothingHeldBack /\ FramesReadable
=============================================================================
