---------------------------- MODULE JsonRpcCodec ----------------------------
(***************************************************************************)
(* codec.rs: newline-delimited JSON over a byte stream, as read through    *)
(* tokio_util's Framed (StdioTransport, TcpClientTransport and             *)
(* StreamTransport all frame with it).                                     *)
(*                                                                         *)
(* The peer writes lines.  A line's bytes are its body, one symbol, and    *)
(* Newline; an empty line has no body.  The reader gets the bytes in       *)
(* chunks of any size and decodes until the codec wants more.  What the     *)
(* messages say is a matter of MessageIntake, which gives it a reader.     *)
(***************************************************************************)
EXTENDS Naturals, Sequences, FiniteSets, SequencesExt

CONSTANTS
    Messages,   \* bodies that parse as a JSON-RPC message
    Garbage,    \* bodies that do not
    Newline,
    MaxLines    \* bound: lines written

ASSUME CodecAssumption ==
    /\ Garbage \intersect Messages = {} /\ Newline \notin Messages \union Garbage
    /\ MaxLines \in Nat

VARIABLES
    written,    \* the lines the peer has completed, as sequences of symbols
    pipe,       \* bytes written and not yet read
    closed,     \* the peer has closed its end
    buffer,     \* the BytesMut the codec decodes from
    readable,   \* Framed: the buffer may hold a frame
    eof,        \* Framed: the last read returned no bytes
    end,        \* "no", or how the stream ended: "clean" (None) or "error"
    out         \* the messages handed to the connection's main loop

vars == <<written, pipe, closed, buffer, readable, eof, end, out>>

Bodies == Messages \union Garbage
Lines == {<<b, Newline>> : b \in Bodies} \union {<<Newline>>}
Symbols == Bodies \union {Newline}

Empty(k) == written[k] = <<Newline>>

\* The lines whose messages a reader should be handed, those before the first bad
\* one, and how many of them there are up to line k.
Due == {k \in DOMAIN written : ~Empty(k) /\ \A j \in 1..k : written[j][1] \notin Garbage}
Rank(k) == Cardinality({j \in Due : j <= k})

TypeOK ==
    /\ written \in Seq(Lines) /\ Len(written) <= MaxLines
    /\ pipe \in Seq(Symbols) /\ buffer \in Seq(Symbols)
    /\ closed \in BOOLEAN /\ readable \in BOOLEAN /\ eof \in BOOLEAN
    /\ end \in {"no", "clean", "error"}
    /\ out \in Seq(Messages)

Init ==
    /\ written = <<>> /\ pipe = <<>> /\ closed = FALSE
    /\ buffer = <<>> /\ readable = FALSE /\ eof = FALSE
    /\ end = "no" /\ out = <<>>

-----------------------------------------------------------------------------
\* encode: the body and its newline.
Encode(line) ==
    /\ ~closed
    /\ Len(written) < MaxLines
    /\ written' = Append(written, line)
    /\ pipe' = pipe \o line
    /\ UNCHANGED <<closed, buffer, readable, eof, end, out>>

\* The peer closes, possibly in the middle of a line; the piece parses as nothing.
Close ==
    /\ ~closed
    /\ closed' = TRUE
    /\ pipe' \in {pipe} \union {Append(pipe, b) : b \in Garbage}
    /\ UNCHANGED <<written, buffer, readable, eof, end, out>>

-----------------------------------------------------------------------------
\* decode splits off the first line; None for "no line yet" and for an empty one.
LineEnd == SelectInSeq(buffer, LAMBDA s : s = Newline)

Decoded ==
    IF LineEnd <= 1 THEN "none"
    ELSE IF buffer[1] \in Garbage THEN "error" ELSE "frame"

\* Mutant: the buffer is cleared where the line should be split off.
RestCleared == <<>>

\* Mutant: the newline is left in the buffer.
RestFromNewline == IF LineEnd = 0 THEN buffer ELSE SubSeq(buffer, LineEnd, Len(buffer))

Rest == SubSeq(buffer, LineEnd + 1, Len(buffer))

\* Mutant: one frame per read, though a chunk may hold several.
DecodeLineOnce ==
    /\ end = "no" /\ readable
    /\ Decoded # "none"
    /\ buffer' = Rest
    /\ readable' = FALSE
    /\ IF Decoded = "frame"
       THEN out' = Append(out, buffer[1]) /\ UNCHANGED end
       ELSE end' = "error" /\ UNCHANGED out
    /\ UNCHANGED <<written, pipe, closed, eof>>

\* decode when it yields a frame, or an error, which ends the stream.
DecodeLine ==
    /\ end = "no" /\ readable
    /\ Decoded # "none"
    /\ buffer' = Rest
    /\ IF Decoded = "frame"
       THEN out' = Append(out, buffer[1]) /\ UNCHANGED end
       ELSE end' = "error" /\ UNCHANGED out
    /\ UNCHANGED <<written, pipe, closed, readable, eof>>

\* decode when it yields None: Framed goes back to reading.
DecodeNone ==
    /\ end = "no" /\ readable /\ ~eof
    /\ Decoded = "none"
    /\ buffer' = Rest
    /\ readable' = FALSE
    /\ UNCHANGED <<written, pipe, closed, eof, end, out>>

\* The default decode_eof: None with bytes left over is an error.
DecodeEof ==
    /\ end = "no" /\ readable /\ eof
    /\ Decoded = "none"
    /\ buffer' = Rest
    /\ readable' = FALSE
    /\ end' = IF Rest = <<>> THEN "clean" ELSE "error"
    /\ UNCHANGED <<written, pipe, closed, eof, out>>

ReadBytes ==
    /\ end = "no" /\ ~readable
    /\ pipe # <<>>
    /\ \E k \in 1..Len(pipe) :
        /\ buffer' = buffer \o SubSeq(pipe, 1, k)
        /\ pipe' = SubSeq(pipe, k + 1, Len(pipe))
    /\ readable' = TRUE
    /\ UNCHANGED <<written, closed, eof, end, out>>

ReadNothing ==
    /\ end = "no" /\ ~readable
    /\ pipe = <<>> /\ closed
    /\ eof' = TRUE
    /\ readable' = TRUE
    /\ UNCHANGED <<written, pipe, closed, buffer, end, out>>

-----------------------------------------------------------------------------
Next ==
    \/ \E line \in Lines : Encode(line)
    \/ Close
    \/ DecodeLine \/ DecodeNone \/ DecodeEof \/ ReadBytes \/ ReadNothing

Spec == Init /\ [][Next]_vars

-----------------------------------------------------------------------------
(* Properties.  The last of the parts of CodecInv is that some number of lines *)
(* has been decoded and the others are still there.                            *)

Stream == buffer \o pipe

\* Symbols of the lines after line n, up to line k.
Width(n, k) == 2 * (k - n) - Cardinality({j \in (n + 1)..k : Empty(j)})

\* The lines after line n, and perhaps a piece of one, are what the stream still
\* holds; the messages up to line n have been handed over.
StillThere(n) ==
    /\ \A k \in (n + 1)..Len(written) : \A i \in DOMAIN written[k] :
        LET at == Width(n, k - 1) + i IN at \in DOMAIN Stream /\ Stream[at] = written[k][i]
    /\ \/ Len(Stream) = Width(n, Len(written))
       \/ /\ closed /\ Len(Stream) = Width(n, Len(written)) + 1
          /\ Stream[Len(Stream)] \in Garbage

HandedOver(n) ==
    /\ Len(out) = Rank(n)
    /\ \A k \in Due : k <= n => out[Rank(k)] = written[k][1]
    /\ end = "no" => \A j \in 1..n : written[j][1] \notin Garbage

CodecInv ==
    /\ TypeOK
    /\ eof => closed /\ pipe = <<>>
    /\ end = "clean" => eof /\ Stream = <<>>
    /\ \E n \in 0..Len(written) : StillThere(n) /\ HandedOver(n)

\* However the bytes are cut into chunks, the messages handed over are the first
\* of those written, in order, once each and whole; and a stream that ends without
\* an error has handed over all.
FramesExact ==
    /\ \A k \in Due : Rank(k) \in DOMAIN out => out[Rank(k)] = written[k][1]
    /\ Len(out) <= Cardinality(Due)
    /\ end = "clean" => Len(out) = Cardinality(Due)

\* All lines written are handed over, or the stream fails, without waiting for
\* the peer to write another.  Not so behind an empty line: there decode returns
\* None with the rest of the buffer unread (codec.rs:40, "Skip empty lines").
FrameDelivered ==
    (Len(out) < Cardinality(Due))
    ~> (Len(out) = Cardinality(Due) \/ end = "error" \/ \E k \in DOMAIN written : Empty(k))
=============================================================================
