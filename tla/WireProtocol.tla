---------------------------- MODULE WireProtocol ----------------------------
(***************************************************************************)
(* The message format of the control server and its decoder (control/      *)
(* controller/trunk: Common ProtocolUtil, XHomeTCPServer CodecUtil and     *)
(* BinaryServerDecoder).                                                   *)
(*                                                                         *)
(* The unit of the model is a number on the wire: a four-byte integer, one *)
(* half of a long, or one byte of a string.  A message is a header of two  *)
(* units (the sequence number, which stands for the four fields the code   *)
(* only copies, and the length of the body) and a body of typed items.     *)
(* The bytes arrive in pieces of any size.  Netty's FrameDecoder, which is *)
(* external, appends each piece to its cumulation buffer and calls decode  *)
(* until decode neither returns a message nor consumes anything.           *)
(*                                                                         *)
(* TCPServer.start builds one pipeline, so that one decoder, and with it   *)
(* one cumulation buffer, serves every channel.  Netty gives the channels  *)
(* threads of their own: a piece may arrive on one channel while that of   *)
(* another is being decoded, and the two threads race for the buffer.      *)
(***************************************************************************)
EXTENDS Integers, Sequences, SequencesExt, FiniteSets

CONSTANTS Chan,      \* the channels of one pipeline
          Messages,  \* what a peer may send: sequences of messages
          Wide       \* characters that take two bytes

ASSUME ProtocolAssumption == Chan # {} /\ Wide \subseteq Nat

HEADER_SIZE == 2

\* DataType
TInt == 0
TLong == 1
TString == 2

----------------------------------------------------------------------------
(* Encoding.                                                               *)

\* String.getBytes
Bytes(str) == FlattenSeq([i \in DOMAIN str |->
                  IF str[i] \in Wide THEN <<str[i], 0>> ELSE <<str[i]>>])

\* The length written is tmp.length(), the number of characters.
EncodeItem(i) ==
    CASE i.t = TInt    -> <<TInt>> \o i.v
      [] i.t = TLong   -> <<TLong>> \o i.v
      [] i.t = TString -> <<TString, Len(i.v)>> \o Bytes(i.v)

encode(data) == FlattenSeq([k \in DOMAIN data |-> EncodeItem(data[k])])

encodeMessage(m) == <<m.seq, Len(encode(m.data))>> \o encode(m.data)

----------------------------------------------------------------------------
(* Decoding of a body.                                                     *)

Error == <<[t |-> -1, v |-> <<>>]>>

\* The items from position p on; Error if a read runs over the end.  An
\* unknown type is skipped.
Items(buf) ==
    LET n == Len(buf)
        Size(p) == IF buf[p] = TInt THEN 1
                   ELSE IF buf[p] = TLong THEN 2
                   ELSE IF buf[p] = TString THEN (IF p < n THEN 1 + buf[p + 1] ELSE n)
                   ELSE 0
        Item(p) == IF buf[p] \in {TInt, TLong}
                   THEN <<[t |-> buf[p], v |-> SubSeq(buf, p + 1, p + Size(p))]>>
                   ELSE IF buf[p] = TString
                   THEN <<[t |-> TString, v |-> SubSeq(buf, p + 2, p + Size(p))]>>
                   ELSE <<>>
        D[p \in 1..n + 1] ==
            IF p = n + 1 THEN <<>>
            ELSE IF p + Size(p) > n THEN Error
            ELSE LET r == D[p + Size(p) + 1]
                 IN IF r = Error THEN Error ELSE Item(p) \o r
    IN D[1]

\* The first item is the message type; a body without one throws.
decoder(buf) ==
    LET data == Items(buf)
    IN IF data = Error \/ data = <<>> THEN Error
       ELSE IF data[1].t # TInt THEN Error ELSE data

----------------------------------------------------------------------------
VARIABLES
    sent,    \* the messages each peer sends
    wire,    \* units of them not yet received
    cum,     \* the cumulation buffer
    cur,     \* the channel whose piece is being decoded, or "none"
    out,     \* the messages handed to ServerHandler, with their channel
    closed,  \* channels that were closed
    failed,  \* those of them closed after an exception
    owner,   \* history: the channel whose bytes are in cum, or "none"
    mixed    \* history: bytes of two channels have met in cum

vars == <<sent, wire, cum, cur, out, closed, failed, owner, mixed>>

None == "none"

Init ==
    /\ sent \in [Chan -> Messages]
    /\ wire = [c \in Chan |-> FlattenSeq([i \in DOMAIN sent[c] |-> encodeMessage(sent[c][i])])]
    /\ cum = <<>> /\ cur = None /\ out = <<>> /\ closed = {} /\ failed = {}
    /\ owner = None /\ mixed = FALSE

Foreign(c) == owner \notin {None, c}

\* Bound: what follows once bytes of two channels have met is left out, since
\* nothing can be said of it.
Followed == ~mixed

\* A piece of n units arrives on channel c.
Receive(c, n) ==
    /\ Followed /\ cur = None /\ c \notin closed /\ n <= Len(wire[c])
    /\ cum' = cum \o SubSeq(wire[c], 1, n)
    /\ wire' = [wire EXCEPT ![c] = SubSeq(@, n + 1, Len(@))]
    /\ cur' = c /\ owner' = c
    /\ mixed' = (mixed \/ Foreign(c))
    /\ UNCHANGED <<sent, out, closed, failed>>

\* A piece arrives on c while another thread decodes: the buffer is that of
\* either thread, or has the bytes of both.
ReceiveRace(c, n) ==
    /\ Followed /\ cur \notin {None, c} /\ c \notin closed /\ n <= Len(wire[c])
    /\ LET piece == SubSeq(wire[c], 1, n) IN cum' \in {cum, piece, cum \o piece}
    /\ wire' = [wire EXCEPT ![c] = SubSeq(@, n + 1, Len(@))]
    /\ cur' = c /\ owner' = c /\ mixed' = TRUE
    /\ UNCHANGED <<sent, out, closed, failed>>

\* The connection ends, perhaps within a message: cleanup throws the buffer
\* away, whosever bytes are in it.
Disconnect(c) ==
    /\ Followed /\ cur = None /\ c \notin closed
    /\ closed' = closed \cup {c} /\ cum' = <<>> /\ owner' = None
    /\ mixed' = (mixed \/ Foreign(c))
    /\ UNCHANGED <<sent, wire, cur, out, failed>>

\* Mutant: a body that just fits is taken for incomplete.
Complete_Strict == Len(cum) >= HEADER_SIZE /\ Len(cum) - HEADER_SIZE > cum[2]

Complete == Len(cum) >= HEADER_SIZE /\ Len(cum) - HEADER_SIZE >= cum[2]
Body == SubSeq(cum, HEADER_SIZE + 1, HEADER_SIZE + cum[2])
Rest == SubSeq(cum, HEADER_SIZE + cum[2] + 1, Len(cum))

\* The message is taken out of the buffer.
Consumed == cum' = Rest /\ owner' = IF Rest = <<>> THEN None ELSE owner

\* Mutant: the reader index stays behind the header.
DecodeMore_NoReset ==
    /\ cur # None /\ ~Complete
    /\ cur' = None
    /\ cum' = IF Len(cum) >= HEADER_SIZE THEN SubSeq(cum, HEADER_SIZE + 1, Len(cum)) ELSE cum
    /\ UNCHANGED <<sent, wire, out, closed, failed, owner, mixed>>

\* Header or body still incomplete: the reader index goes back to the mark.
DecodeMore ==
    /\ cur # None /\ ~Complete
    /\ cur' = None
    /\ UNCHANGED <<sent, wire, cum, out, closed, failed, owner, mixed>>

\* An empty body is dropped, and decode is called again.
DecodeEmpty ==
    /\ cur # None /\ Complete /\ cum[2] = 0
    /\ Consumed
    /\ UNCHANGED <<sent, wire, cur, out, closed, failed, mixed>>

DecodeMessage ==
    /\ cur # None /\ Complete /\ cum[2] # 0 /\ decoder(Body) # Error
    /\ out' = Append(out, [chan |-> cur, seq |-> cum[1], data |-> decoder(Body)])
    /\ Consumed
    /\ UNCHANGED <<sent, wire, cur, closed, failed, mixed>>

\* exceptionCaught closes the channel whose piece was decoded.
DecodeFails ==
    /\ cur # None /\ Complete /\ cum[2] # 0 /\ decoder(Body) = Error
    /\ failed' = failed \cup {cur} /\ closed' = closed \cup {cur}
    /\ cur' = None /\ cum' = <<>> /\ owner' = None
    /\ UNCHANGED <<sent, wire, out, mixed>>

Decode == DecodeMore \/ DecodeEmpty \/ DecodeMessage \/ DecodeFails

Arrive == \E c \in Chan : \E n \in 1..Len(wire[c]) : Receive(c, n) \/ ReceiveRace(c, n)

Next == Arrive \/ Decode \/ \E c \in Chan : Disconnect(c)

Spec == Init /\ [][Next]_vars

\* What a peer sends arrives, and the handler runs to its end.
FairSpec == Spec /\ WF_vars(Decode) /\ WF_vars(Arrive)

----------------------------------------------------------------------------
(* Properties.                                                             *)

\* What ServerHandler should see of channel c: every message with data, its
\* strings as bytes.
Expected(c) ==
    LET full == SelectSeq(sent[c], LAMBDA m : m.data # <<>>)
    IN [i \in DOMAIN full |->
           [chan |-> c, seq |-> full[i].seq,
            data |-> [k \in DOMAIN full[i].data |->
                        [full[i].data[k] EXCEPT !.v = IF full[i].data[k].t = TString
                                                      THEN Bytes(@) ELSE @]]]]

Got(c) == SelectSeq(out, LAMBDA m : m.chan = c)

\* The peer sends no character of more than one byte.  Otherwise the length
\* of a string counts characters, and the body cannot be decoded.
Narrow(c) ==
    \A i \in DOMAIN sent[c] : \A k \in DOMAIN sent[c][i].data :
        sent[c][i].data[k].t = TString => ToSet(sent[c][i].data[k].v) \cap Wide = {}

\* Whatever the pieces the bytes arrive in, the messages of a channel reach
\* ServerHandler once, in order, as they were sent and as messages of that
\* channel, and decoding never fails; an empty message is dropped without
\* harm to the next.  The decoder the channels share gives that up as soon as
\* bytes of two channels have met in its buffer.
MessagesIntact ==
    ~mixed => \A c \in Chan : Narrow(c) => c \notin failed /\ IsPrefix(Got(c), Expected(c))

\* Every message with data reaches ServerHandler in the end, under the same
\* condition, also when the connection of another channel ends within a
\* message; what was not received before its own end is lost.
AllDelivered ==
    <>(mixed \/ \A c \in Chan : Narrow(c) =>
                   Got(c) = Expected(c) \/ (c \in closed /\ wire[c] # <<>>))

=============================================================================
